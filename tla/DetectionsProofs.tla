-------------------------- MODULE DetectionsProofs --------------------------
(***************************************************************************)
(* Proofs about Hits, MultiFlow, Assets and Baselines, for every set of    *)
(* events, engines, analysts, detectors, addresses, tasks and peers, and   *)
(* every window and bound.                                                 *)
(***************************************************************************)
EXTENDS CaseNumbersProofs, MCDetections, Integers, Sequences, FiniteSetTheorems, TLAPS

-----------------------------------------------------------------------------
(* Hits.                                                                   *)

SessionRecords ==
  [z : Events \cup {NoEvent}, s : Events \cup {NoEvent}, last : Nat \cup {NoTime}]

(* Of an event that is still queued there is no work yet, and a hit that   *)
(* reaches the window has the match of an event.                           *)
HitsTypes ==
  /\ hitClock \in Nat /\ queue \subseteq Events
  /\ session \in [Engines -> [H!Cids -> SessionRecords]]
  /\ task \in [H!Tasks -> HitTasks \cup {NoTask}]
  /\ \A e \in queue : \A p \in H!Paths : task[<<e, p>>] = NoTask
  /\ \A e \in Events \ queue : task[<<e, "correlated">>] # NoTask
  /\ seen \in [Engines -> [H!KeysOf -> Nat \cup {NoTime}]]
Timed(u) ==
  /\ u.got <= hitClock /\ u.ver <= hitClock
  /\ H!Key(u.hit) \in H!KeysOf \/ H!Critical(u.hit)
  /\ u.pc \in {"window", "claim"} => H!Key(u.hit) \in H!KeysOf

(* Until the session of an event has expired, its engine knows the side of *)
(* the flow that the event showed.                                         *)
SideIn(e, a, sn) ==
  /\ sn.last \in Nat /\ a.got <= sn.last /\ sn.last <= hitClock
  /\ e.source = "z" => sn.z # NoEvent
  /\ e.source = "s" => sn.s # NoEvent
SideKnown ==
  \A e \in Events \ queue :
    LET a == task[<<e, "correlated">>]
    IN hitClock - a.got > SessionTTL \/ SideIn(e, a, session[a.at][e.cid])

(* The hit that opened a window was let through, and never changes.        *)
Through == {"write", "stored", "failed"}
Opened(g, k, at) ==
  \E u \in H!Tasks : /\ task[u] # NoTask /\ task[u].pc \in Through
                     /\ task[u].at = g /\ H!Key(task[u].hit) = k /\ task[u].adm = at
WindowsOpened ==
  \A g \in Engines, k \in H!KeysOf : seen[g][k] # NoTime => Opened(g, k, seen[g][k])
RepeatsFollow ==
  \A t \in H!Tasks : task[t] # NoTask /\ task[t].pc = "repeat" =>
    \E at \in Nat : Opened(task[t].at, H!Key(task[t].hit), at) /\ task[t].ver - at < Window

HitsInv ==
  /\ HitsTypes
  /\ \A t \in H!Tasks : task[t] # NoTask => Timed(task[t])
  /\ SideKnown /\ OneEngineCorroborates
  /\ WindowsOpened /\ RepeatsFollow

LEMMA HitsInit == H!Init => HitsInv
  <1> SUFFICES ASSUME H!Init PROVE HitsInv
    OBVIOUS
  <1>1. /\ hitClock = 0 /\ queue = Events
        /\ session = [g \in Engines |-> [c \in H!Cids |-> H!NoSession]]
        /\ task = [t \in H!Tasks |-> NoTask]
        /\ seen = [g \in Engines |-> [k \in H!KeysOf |-> NoTime]]
    BY DEF H!Init
  <1>2. H!NoSession \in SessionRecords
    BY DEF H!NoSession, SessionRecords
  <1>3. \A e \in Events, p \in H!Paths : <<e, p>> \in H!Tasks
    BY DEF H!Tasks
  <1> HIDE DEF H!Tasks, H!KeysOf, H!Cids
  <1>4. \A t \in H!Tasks : task[t] = NoTask
    BY <1>1
  <1>5. HitsTypes
    BY <1>1, <1>2, <1>3, <1>4 DEF HitsTypes
  <1>6. SideKnown /\ WindowsOpened /\ RepeatsFollow
    BY <1>1, <1>4 DEF SideKnown, WindowsOpened, RepeatsFollow
  <1>7. OneEngineCorroborates
    BY <1>3, <1>4 DEF OneEngineCorroborates, H!OneEngineCorroborates, H!Paired, H!Paths
  <1> QED
    BY <1>4, <1>5, <1>6, <1>7 DEF HitsInv

(* What each detector makes of an event.                                   *)
LEMMA HitTyped ==
  ASSUME NEW e \in Events,
         NEW st \in {"corroborated", "agent_z_only", "agent_s_only", "zeek_only", "hash_match",
                     "ja3_match", "domain_match", "doh_evasion"}
  PROVE  H!Hit(e, st) \in HitRecords /\ H!Hit(e, st).status = st
         /\ H!Key(H!Hit(e, st)) \in H!KeysOf
  <1>1. e.cid \in H!Cids /\ e.src \in H!Hosts /\ e.dst \in H!Hosts
    BY DEF H!Cids, H!Hosts
  <1>2. e.tag \in {x.tag : x \in Events} /\ e.sig \in {x.sig : x \in Events}
    OBVIOUS
  <1>3. H!Key(H!Hit(e, st)) = H!Key(e) /\ H!Key(e) \in H!KeysOf
    BY DEF H!Key, H!Hit, H!KeysOf
  <1> HIDE DEF H!Cids, H!Hosts
  <1> QED
    BY <1>1, <1>2, <1>3, HitsAssumption DEF H!Hit, HitRecords

LEMMA HigherIn == ASSUME NEW a \in Severities, NEW b \in Severities PROVE H!Higher(a, b) \in Severities
  BY DEF H!Higher

LEMMA DirectTyped ==
  ASSUME NEW e \in Events, e.direct # "none"
  PROVE  H!DirectHit(e) \in HitRecords /\ H!Key(H!DirectHit(e)) \in H!KeysOf
  <1> HIDE DEF H!Cids, H!Hosts, H!KeysOf
  <1>1. ASSUME NEW h \in HitRecords, NEW b \in Severities, NEW i \in BOOLEAN
        PROVE  /\ [h EXCEPT !.band = b, !.ti = i, !.sig = NoSig] \in HitRecords
               /\ [h EXCEPT !.band = b, !.sig = NoSig] \in HitRecords
               /\ [h EXCEPT !.band = b] \in HitRecords
               /\ H!Key([h EXCEPT !.band = b, !.ti = i, !.sig = NoSig]) = H!Key(h)
               /\ H!Key([h EXCEPT !.band = b, !.sig = NoSig]) = H!Key(h)
               /\ H!Key([h EXCEPT !.band = b]) = H!Key(h)
    BY DEF HitRecords, H!Key
  <1>2. e.band \in Severities
    BY HitsAssumption
  <1>3. CASE e.direct = "hash"
    BY <1>1, <1>3, HitTyped DEF H!DirectHit, H!HashHit, H!OfFeed, Severities
  <1>4. CASE e.direct = "ja3"
    BY <1>1, <1>4, HitTyped DEF H!DirectHit, H!Ja3Hit, H!OfFeed, Severities
  <1>5. CASE e.direct = "domain"
    BY <1>1, <1>5, HitTyped DEF H!DirectHit, H!DomainHit, H!OfFeed, Severities
  <1>6. CASE e.direct = "doh"
    BY <1>1, <1>6, HitTyped DEF H!DirectHit, H!DohHit, Severities
  <1>7. CASE e.direct = "suricata"
    <2>1. e.found \in Severities
      BY <1>7, HitsAssumption
    <2> QED
      BY <1>1, <1>7, <2>1, HitTyped DEF H!DirectHit, H!SuricataHit
  <1>8. CASE e.direct = "sigma"
    <2>1. H!Higher(e.band, e.found) \in Severities
      BY <1>2, <1>8, HigherIn, HitsAssumption
    <2> QED
      BY <1>1, <1>8, <2>1, HitTyped DEF H!DirectHit, H!SigmaHit
  <1> QED
    BY <1>3, <1>4, <1>5, <1>6, <1>7, <1>8, HitsAssumption

(* The correlator's hit: with both sides known it is corroborated.         *)
LEMMA ProcessTyped ==
  ASSUME NEW sn \in SessionRecords, NEW e \in Events
  PROVE  /\ H!Process(sn, e) \in HitRecords /\ H!Key(H!Process(sn, e)) \in H!KeysOf
         /\ sn.z # NoEvent /\ sn.s # NoEvent => H!Process(sn, e).status = "corroborated"
  <1>1. CASE sn.z # NoEvent /\ sn.s # NoEvent
    <2>1. PICK z \in Events, s \in Events : sn.z = z /\ sn.s = s
      BY <1>1 DEF SessionRecords
    <2>2. PICK h \in HitRecords :
             h = H!Hit(z, "corroborated") /\ h.status = "corroborated" /\ H!Key(h) \in H!KeysOf
      BY HitTyped
    <2>3. PICK b \in Severities : b = H!Higher(z.band, s.band)
      BY HigherIn, HitsAssumption
    <2>4. PICK i \in BOOLEAN : i = (z.ti \/ s.ti)
      BY HitsAssumption
    <2>5. s.sig \in {x.sig : x \in Events}
      OBVIOUS
    <2>6. H!Process(sn, e) = [h EXCEPT !.sig = s.sig, !.band = b, !.ti = i]
      BY <1>1, <2>1, <2>2, <2>3, <2>4 DEF H!Process, H!Combined
    <2>7. H!Process(sn, e) \in HitRecords /\ H!Process(sn, e).status = "corroborated"
          /\ H!Key(H!Process(sn, e)) = H!Key(h)
      BY <2>2, <2>5, <2>6 DEF HitRecords, H!Key
    <2> QED
      BY <2>2, <2>7
  <1>2. CASE ~ (sn.z # NoEvent /\ sn.s # NoEvent)
    BY <1>2, HitTyped DEF H!Process
  <1> QED
    BY <1>1, <1>2

(* The work of one event goes on: where it came from, when and with what   *)
(* status stay as they were, and a hit that was let through stays so.      *)
LEMMA TaskMoves ==
  ASSUME HitsInv, NEW t \in H!Tasks, task[t] # NoTask, NEW u \in HitTasks,
         task' = [task EXCEPT ![t] = u],
         UNCHANGED <<hitClock, queue, session>>,
         u.at = task[t].at, u.got = task[t].got, u.hit.status = task[t].hit.status,
         Timed(u),
         task[t].pc \in Through =>
           /\ u.pc \in Through /\ u.adm = task[t].adm
           /\ H!Key(u.hit) = H!Key(task[t].hit),
         \/ seen' = seen
         \/ /\ seen' = [seen EXCEPT ![u.at][H!Key(u.hit)] = u.adm]
            /\ u.pc = "write" /\ u.adm \in Nat /\ H!Key(u.hit) \in H!KeysOf,
         u.pc = "repeat" =>
           \E at \in Nat : Opened(u.at, H!Key(u.hit), at) /\ u.ver - at < Window
  PROVE  HitsInv'
  <1> HIDE DEF H!Tasks, H!KeysOf, H!Cids, H!Key
  <1>0. HitsTypes
    BY DEF HitsInv
  <1>1. /\ task'[t] = u /\ u # NoTask /\ \A v \in H!Tasks \ {t} : task'[v] = task[v]
        /\ task' \in [H!Tasks -> HitTasks \cup {NoTask}]
    BY <1>0, HitsAssumption DEF HitsTypes
  <1>2. \A v \in H!Tasks : (task'[v] = NoTask) = (task[v] = NoTask)
    BY <1>1
  <1>3. \A e \in Events, p \in H!Paths : <<e, p>> \in H!Tasks
    BY DEF H!Tasks
  <1>a. u.at \in Engines
    BY DEF HitTasks
  <1>4. seen' \in [Engines -> [H!KeysOf -> Nat \cup {NoTime}]]
    <2>1. CASE seen' = [seen EXCEPT ![u.at][H!Key(u.hit)] = u.adm] /\ u.adm \in Nat
      <3>1. PICK f : f = [seen[u.at] EXCEPT ![H!Key(u.hit)] = u.adm]
        OBVIOUS
      <3>2. f \in [H!KeysOf -> Nat \cup {NoTime}]
        BY <1>0, <1>a, <2>1, <3>1 DEF HitsTypes
      <3>3. seen' = [seen EXCEPT ![u.at] = f]
        BY <2>1, <3>1
      <3> QED
        BY <1>0, <1>a, <3>2, <3>3 DEF HitsTypes
    <2> QED
      BY <1>0, <2>1 DEF HitsTypes
  <1>5. HitsTypes'
    <2>1. "correlated" \in H!Paths
      BY DEF H!Paths
    <2>2. \A e \in queue' : \A p \in H!Paths : task'[<<e, p>>] = NoTask
      BY <1>0, <1>2, <1>3 DEF HitsTypes
    <2>3. \A e \in Events \ queue' : task'[<<e, "correlated">>] # NoTask
      BY <1>0, <1>2, <1>3, <2>1 DEF HitsTypes
    <2> QED
      BY <1>0, <1>1, <1>4, <2>2, <2>3 DEF HitsTypes
  <1>6. \A v \in H!Tasks : task'[v] # NoTask => Timed(task[v])'
    <2> SUFFICES ASSUME NEW v \in H!Tasks, task'[v] # NoTask PROVE Timed(task[v])'
      OBVIOUS
    <2>1. Timed(task'[v])
      BY <1>1 DEF HitsInv
    <2> QED
      BY <2>1 DEF Timed
  <1>7. \A v \in H!Tasks : task[v] # NoTask =>
          /\ task'[v].at = task[v].at /\ task'[v].got = task[v].got
          /\ task'[v].hit.status = task[v].hit.status
    BY <1>1
  <1>8. SideKnown'
    <2> SUFFICES ASSUME NEW e \in Events \ queue
                 PROVE  LET a == task'[<<e, "correlated">>]
                        IN hitClock - a.got > SessionTTL \/ SideIn(e, a, session[a.at][e.cid])
      BY DEF SideKnown, SideIn
    <2>1. <<e, "correlated">> \in H!Tasks /\ task[<<e, "correlated">>] # NoTask
      BY <1>0, <1>3 DEF HitsTypes, H!Paths
    <2>2. LET a == task[<<e, "correlated">>]
          IN hitClock - a.got > SessionTTL \/ SideIn(e, a, session[a.at][e.cid])
      BY DEF HitsInv, SideKnown
    <2> QED
      BY <1>7, <2>1, <2>2 DEF SideIn
  <1>9. OneEngineCorroborates'
    <2> SUFFICES ASSUME NEW z \in Events, NEW s \in Events, H!Paired(z, s)'
                 PROVE  \E e \in {z, s} : task'[<<e, "correlated">>].hit.status = "corroborated"
      BY DEF OneEngineCorroborates, H!OneEngineCorroborates
    <2>1. <<z, "correlated">> \in H!Tasks /\ <<s, "correlated">> \in H!Tasks
      BY <1>3 DEF H!Paths
    <2>2. task[<<z, "correlated">>] # NoTask /\ task[<<s, "correlated">>] # NoTask
      BY <1>2, <2>1 DEF H!Paired
    <2>3. H!Paired(z, s)
      BY <1>7, <2>1, <2>2 DEF H!Paired
    <2>4. \E e \in {z, s} : task[<<e, "correlated">>].hit.status = "corroborated"
      BY <2>3 DEF HitsInv, OneEngineCorroborates, H!OneEngineCorroborates
    <2> QED
      BY <1>7, <2>1, <2>2, <2>4
  <1>10. ASSUME NEW g, NEW k, NEW at, Opened(g, k, at) PROVE Opened(g, k, at)'
    <2>1. PICK w \in H!Tasks : /\ task[w] # NoTask /\ task[w].pc \in Through
                               /\ task[w].at = g /\ H!Key(task[w].hit) = k /\ task[w].adm = at
      BY <1>10 DEF Opened
    <2>2. /\ task'[w] # NoTask /\ task'[w].pc \in Through
          /\ task'[w].at = g /\ H!Key(task'[w].hit) = k /\ task'[w].adm = at
      BY <1>1, <2>1
    <2> QED
      BY <2>2 DEF Opened
  <1>11. WindowsOpened'
    <2> SUFFICES ASSUME NEW g \in Engines, NEW k \in H!KeysOf, seen'[g][k] # NoTime
                 PROVE  Opened(g, k, seen[g][k])'
      BY DEF WindowsOpened
    <2>1. CASE seen'[g][k] = seen[g][k]
      <3>1. Opened(g, k, seen[g][k])
        BY <2>1 DEF HitsInv, WindowsOpened
      <3>2. PICK at : at = seen[g][k]
        OBVIOUS
      <3>3. Opened(g, k, at)'
        BY <1>10, <3>1, <3>2
      <3> QED
        BY <2>1, <3>2, <3>3
    <2>2. CASE seen'[g][k] # seen[g][k]
      <3>1. g = u.at /\ k = H!Key(u.hit) /\ seen'[g][k] = u.adm /\ u.pc = "write"
        BY <1>0, <1>a, <2>2 DEF HitsTypes
      <3> QED
        BY <1>1, <3>1 DEF Opened, Through
    <2> QED
      BY <2>1, <2>2
  <1>12. RepeatsFollow'
    <2> SUFFICES ASSUME NEW v \in H!Tasks, task'[v] # NoTask, task'[v].pc = "repeat"
                 PROVE  \E at \in Nat : /\ Opened(task[v].at, H!Key(task[v].hit), at)'
                                        /\ task'[v].ver - at < Window
      BY DEF RepeatsFollow
    <2>1. PICK at \in Nat : /\ Opened(task'[v].at, H!Key(task'[v].hit), at)
                            /\ task'[v].ver - at < Window
      BY <1>1 DEF HitsInv, RepeatsFollow
    <2>2. PICK g, k : g = task'[v].at /\ k = H!Key(task'[v].hit)
      OBVIOUS
    <2>3. Opened(g, k, at)'
      BY <1>10, <2>1, <2>2
    <2> QED
      BY <2>1, <2>2, <2>3
  <1> QED
    BY <1>5, <1>6, <1>8, <1>9, <1>11, <1>12 DEF HitsInv

LEMMA EvaluateKeeps == ASSUME HitsInv, NEW t \in H!Tasks, H!Evaluate(t) PROVE HitsInv'
  <1>0. HitsTypes /\ (task[t] # NoTask => Timed(task[t]))
    BY DEF HitsInv
  <1>1. /\ task[t] # NoTask /\ task[t].pc = "score" /\ task[t] \in HitTasks
        /\ hitClock \in Nat
        /\ UNCHANGED <<hitClock, queue, session, seen>>
        /\ H!Trap(t) \/ H!Silence(t) \/ H!Score(t)
    BY <1>0 DEF H!Evaluate, H!Trap, H!Silence, H!Score, H!At, HitsTypes
  <1>2. PICK x \in HitTasks : x = task[t]
    BY <1>1
  <1>3. PICK h \in HitRecords : h = x.hit
    BY DEF HitTasks
  <1> HIDE DEF H!Tasks, H!KeysOf, H!Cids, H!Hosts
  (* A new stage, score time and hit of the same origin. *)
  <1>4. ASSUME NEW u \in HitTasks, task' = [task EXCEPT ![t] = u],
               u.at = x.at, u.got = x.got, u.hit.status = h.status, u.ver <= hitClock,
               u.pc \in H!Pcs \ {"window", "claim", "repeat"},
               (H!Key(u.hit) = H!Key(h) /\ u.hit.band = h.band) \/ H!Critical(u.hit)
        PROVE  HitsInv'
    <2>1. Timed(u)
      BY <1>0, <1>1, <1>2, <1>3, <1>4 DEF Timed, H!Critical
    <2> QED
      BY <1>1, <1>2, <1>3, <1>4, <2>1, TaskMoves DEF Through
  <1>5. ASSUME NEW stage \in {"silenced", "below", "gate"}, task' = [task EXCEPT ![t].pc = stage]
        PROVE  HitsInv'
    <2>1. PICK u \in HitTasks : u = [x EXCEPT !.pc = stage]
      <3>1. [x EXCEPT !.pc = stage] \in HitTasks
        BY <1>5 DEF HitTasks, H!Pcs
      <3> QED
        BY <3>1
    <2>2. task' = [task EXCEPT ![t] = u] /\ u.at = x.at /\ u.got = x.got /\ u.hit = h
          /\ u.pc = stage /\ u.ver = x.ver
      BY <1>2, <1>3, <1>5, <2>1 DEF HitTasks
    <2> QED
      BY <1>0, <1>1, <1>2, <1>4, <2>2 DEF Timed, H!Pcs
  <1>6. CASE H!Trap(t)
    <2>1. PICK k \in HitRecords : k = [h EXCEPT !.band = "critical", !.tag = "honeypot"]
      BY DEF HitRecords, Severities
    <2>2. k.status = h.status /\ H!Critical(k)
      BY <2>1 DEF HitRecords, H!Critical
    <2>3. PICK u \in HitTasks : u = [x EXCEPT !.pc = "gate", !.ver = hitClock, !.hit = k]
      BY <1>1 DEF HitTasks, H!Pcs
    <2>4. /\ u.at = x.at /\ u.got = x.got /\ u.hit = k /\ u.pc = "gate" /\ u.ver = hitClock
      BY <2>3 DEF HitTasks
    <2>5. task' = [task EXCEPT ![t] = u]
      BY <1>2, <1>3, <1>6, <2>1, <2>3 DEF H!Trap
    <2> QED
      <3>1. u.pc \in H!Pcs \ {"window", "claim", "repeat"} /\ u.ver <= hitClock
        BY <1>1, <2>4 DEF H!Pcs
      <3>2. u.hit.status = h.status /\ H!Critical(u.hit)
        BY <2>2, <2>4
      <3> QED
        BY <1>4, <2>4, <2>5, <3>1, <3>2
  <1>7. CASE H!Silence(t)
    BY <1>5, <1>7 DEF H!Silence, H!Goto
  <1>8. CASE H!Score(t)
    <2>1. CASE task' = [task EXCEPT ![t].pc = "gate", ![t].ver = hitClock]
      <3>1. PICK u \in HitTasks : u = [x EXCEPT !.pc = "gate", !.ver = hitClock]
        BY <1>1 DEF HitTasks, H!Pcs
      <3>2. /\ u.at = x.at /\ u.got = x.got /\ u.hit = h /\ u.pc = "gate" /\ u.ver = hitClock
        BY <1>3, <3>1 DEF HitTasks
      <3>3. task' = [task EXCEPT ![t] = u]
        BY <1>2, <2>1, <3>1
      <3> QED
        <4>1. u.pc \in H!Pcs \ {"window", "claim", "repeat"} /\ u.ver <= hitClock
          BY <1>1, <3>2 DEF H!Pcs
        <4>2. u.hit.status = h.status /\ H!Key(u.hit) = H!Key(h) /\ u.hit.band = h.band
          BY <3>2
        <4> QED
          BY <1>4, <3>2, <3>3, <4>1, <4>2
    <2> QED
      BY <1>5, <1>8, <2>1 DEF H!Score, H!Goto
  <1> QED
    BY <1>1, <1>6, <1>7, <1>8

LEMMA GateKeeps == ASSUME HitsInv, NEW t \in H!Tasks, H!Gate(t) PROVE HitsInv'
  <1>0. HitsTypes /\ (task[t] # NoTask => Timed(task[t]))
    BY DEF HitsInv
  <1>1. PICK stage \in {"write", "hidden", "window"} :
           /\ task' = [task EXCEPT ![t].pc = stage]
           /\ stage # "write" => ~ H!Critical(task[t].hit)
    <2> HIDE DEF H!Critical, H!GroupSuppressed
    <2>1. CASE H!Critical(task[t].hit)
      BY <2>1 DEF H!Gate, H!Goto
    <2>2. CASE ~ H!Critical(task[t].hit) /\ H!GroupSuppressed(task[t].hit)
      BY <2>2 DEF H!Gate, H!Goto
    <2>3. CASE ~ H!Critical(task[t].hit) /\ ~ H!GroupSuppressed(task[t].hit)
      BY <2>3 DEF H!Gate, H!Goto
    <2> QED
      BY <2>1, <2>2, <2>3
  <1>2. /\ task[t] # NoTask /\ task[t].pc = "gate" /\ task[t] \in HitTasks
        /\ UNCHANGED <<hitClock, queue, session, seen>>
    BY <1>0 DEF H!Gate, H!At, HitsTypes
  <1> HIDE DEF H!Tasks, H!KeysOf, H!Cids, H!Key
  <1>3. PICK x \in HitTasks : x = task[t]
    BY <1>2
  <1>4. PICK u \in HitTasks : u = [x EXCEPT !.pc = stage]
    <2>1. [x EXCEPT !.pc = stage] \in HitTasks
      BY DEF HitTasks, H!Pcs
    <2> QED
      BY <2>1
  <1>5. task' = [task EXCEPT ![t] = u] /\ u.at = x.at /\ u.got = x.got /\ u.hit = x.hit
        /\ u.pc = stage /\ u.ver = x.ver
    BY <1>1, <1>3, <1>4 DEF HitTasks
  <1>6. Timed(u)
    BY <1>0, <1>1, <1>2, <1>3, <1>5 DEF Timed
  <1> QED
    BY <1>2, <1>3, <1>5, <1>6, TaskMoves DEF Through

LEMMA AdmitKeeps == ASSUME HitsInv, NEW t \in H!Tasks, H!Admit(t) PROVE HitsInv'
  <1>0. HitsTypes /\ (task[t] # NoTask => Timed(task[t]))
    BY DEF HitsInv
  <1>2. /\ task[t] # NoTask /\ task[t].pc \in {"window", "claim"} /\ task[t] \in HitTasks
        /\ hitClock \in Nat
        /\ UNCHANGED <<hitClock, queue, session>>
    BY <1>0 DEF H!Admit, H!At, HitsTypes
  <1> HIDE DEF H!Tasks, H!KeysOf, H!Cids, H!Key
  <1>3. PICK x \in HitTasks : x = task[t]
    BY <1>2
  <1>4. Timed(x) /\ H!Key(x.hit) \in H!KeysOf /\ x.at \in Engines
    BY <1>0, <1>2, <1>3 DEF Timed, HitTasks
  <1>5. ASSUME NEW stage \in {"claim", "repeat"}, task' = [task EXCEPT ![t].pc = stage], UNCHANGED seen,
               stage = "repeat" =>
                 \E at \in Nat : Opened(x.at, H!Key(x.hit), at) /\ x.ver - at < Window
        PROVE  HitsInv'
    <2>1. PICK u \in HitTasks : u = [x EXCEPT !.pc = stage]
      <3>1. [x EXCEPT !.pc = stage] \in HitTasks
        BY DEF HitTasks, H!Pcs
      <3> QED
        BY <3>1
    <2>2. task' = [task EXCEPT ![t] = u] /\ u.at = x.at /\ u.got = x.got /\ u.hit = x.hit
          /\ u.pc = stage /\ u.ver = x.ver
      BY <1>3, <1>5, <2>1 DEF HitTasks
    <2>3. Timed(u)
      BY <1>4, <2>2 DEF Timed
    <2>4. x.pc \notin Through
      BY <1>2, <1>3 DEF Through
    <2> QED
      BY <1>2, <1>3, <1>5, <2>2, <2>3, <2>4, TaskMoves
  <1>6. CASE H!Take(t)
    <2>1. PICK u \in HitTasks : u = [x EXCEPT !.pc = "write", !.adm = hitClock]
      BY <1>2 DEF HitTasks, H!Pcs
    <2>2. /\ u.at = x.at /\ u.got = x.got /\ u.hit = x.hit
          /\ u.pc = "write" /\ u.ver = x.ver /\ u.adm = hitClock
      BY <2>1 DEF HitTasks
    <2>3. task' = [task EXCEPT ![t] = u]
      BY <1>3, <1>6, <2>1 DEF H!Take
    <2>4. seen' = [seen EXCEPT ![u.at][H!Key(u.hit)] = u.adm]
      BY <1>3, <1>6, <2>2 DEF H!Take
    <2>5. Timed(u)
      BY <1>4, <2>2 DEF Timed
    <2>6. x.pc \notin Through
      BY <1>2, <1>3 DEF Through
    <2> QED
      BY <1>2, <1>3, <1>4, <2>2, <2>3, <2>4, <2>5, <2>6, TaskMoves
  <1>7. CASE H!Goto(t, "repeat") /\ H!Last(t) # NoTime /\ H!InWindow(t) /\ UNCHANGED seen
    <2>1. PICK at : at = seen[x.at][H!Key(x.hit)]
      OBVIOUS
    <2>2. at \in Nat /\ hitClock - at < Window
      BY <1>0, <1>3, <1>4, <1>7, <2>1 DEF H!Last, H!InWindow, HitsTypes
    <2>3. Opened(x.at, H!Key(x.hit), at)
      BY <1>3, <1>4, <1>7, <2>1 DEF HitsInv, WindowsOpened, H!Last
    <2>4. x.ver - at < Window
      BY <1>2, <1>4, <2>2, HitsAssumption DEF Timed, HitTasks
    <2> QED
      BY <1>5, <1>7, <2>2, <2>3, <2>4 DEF H!Goto
  <1>8. CASE H!Goto(t, "claim") /\ UNCHANGED seen
    BY <1>5, <1>8 DEF H!Goto
  <1> QED
    BY <1>6, <1>7, <1>8 DEF H!Admit

LEMMA WriteKeeps ==
  ASSUME HitsInv, NEW t \in H!Tasks, NEW ok \in BOOLEAN, H!Write(t, ok) PROVE HitsInv'
  <1>0. HitsTypes /\ (task[t] # NoTask => Timed(task[t]))
    BY DEF HitsInv
  <1>1. PICK stage \in {"stored", "failed"} : task' = [task EXCEPT ![t].pc = stage]
    BY DEF H!Write, H!Goto
  <1>2. /\ task[t] # NoTask /\ task[t].pc = "write" /\ task[t] \in HitTasks
        /\ UNCHANGED <<hitClock, queue, session, seen>>
    BY <1>0 DEF H!Write, H!At, HitsTypes
  <1> HIDE DEF H!Tasks, H!KeysOf, H!Cids, H!Key
  <1>3. PICK x \in HitTasks : x = task[t]
    BY <1>2
  <1>4. PICK u \in HitTasks : u = [x EXCEPT !.pc = stage]
    <2>1. [x EXCEPT !.pc = stage] \in HitTasks
      BY DEF HitTasks, H!Pcs
    <2> QED
      BY <2>1
  <1>5. task' = [task EXCEPT ![t] = u] /\ u.at = x.at /\ u.got = x.got /\ u.hit = x.hit
        /\ u.pc = stage /\ u.ver = x.ver /\ u.adm = x.adm
    BY <1>1, <1>3, <1>4 DEF HitTasks
  <1>6. Timed(u)
    BY <1>0, <1>2, <1>3, <1>5 DEF Timed
  <1> QED
    BY <1>2, <1>3, <1>5, <1>6, TaskMoves DEF Through

(* An event is taken from the queue: its session knows its side, and when  *)
(* the other side came within the session's lifetime the hit is            *)
(* corroborated.                                                           *)
LEMMA ConsumeKeeps ==
  ASSUME HitsInv, NEW g \in Engines, NEW e \in Events, H!Consume(g, e) PROVE HitsInv'
  <1>0. HitsTypes
    BY DEF HitsInv
  <1>1. PICK sn : sn = H!WithEvent(session[g][e.cid], e)
    OBVIOUS
  <1>2. PICK a : a = IF e.direct = "none" THEN NoTask ELSE H!Spawn(g, "gate", H!DirectHit(e))
    OBVIOUS
  <1>3. PICK b : b = H!Spawn(g, "score", H!Process(sn, e))
    OBVIOUS
  <1>4. /\ e \in queue /\ queue' = queue \ {e}
        /\ session' = [session EXCEPT ![g][e.cid] = sn]
        /\ task' = [task EXCEPT ![<<e, "direct">>] = a, ![<<e, "correlated">>] = b]
        /\ UNCHANGED <<hitClock, seen>>
    BY <1>1, <1>2, <1>3 DEF H!Consume, H!Known
  <1>5. e.cid \in H!Cids /\ hitClock \in Nat
    BY <1>0 DEF H!Cids, HitsTypes
  <1>6. /\ sn \in SessionRecords /\ sn.last = hitClock
        /\ e.source = "z" => sn.z # NoEvent
        /\ e.source = "s" => sn.s # NoEvent
        /\ session[g][e.cid].z # NoEvent => sn.z # NoEvent
        /\ session[g][e.cid].s # NoEvent => sn.s # NoEvent
    <2>1. PICK old1 \in SessionRecords : old1 = session[g][e.cid]
      BY <1>0, <1>5 DEF HitsTypes
    <2>2. CASE e.source = "z"
      BY <1>1, <1>5, <2>1, <2>2, HitsAssumption DEF H!WithEvent, SessionRecords
    <2>3. CASE e.source # "z"
      BY <1>1, <1>5, <2>1, <2>3, HitsAssumption DEF H!WithEvent, SessionRecords
    <2> QED
      BY <2>2, <2>3
  <1>7. /\ b \in HitTasks /\ b.at = g /\ b.got = hitClock /\ b.pc = "score" /\ Timed(b)
        /\ sn.z # NoEvent /\ sn.s # NoEvent => b.hit.status = "corroborated"
    <2>1. PICK h \in HitRecords :
             /\ h = H!Process(sn, e) /\ H!Key(h) \in H!KeysOf
             /\ sn.z # NoEvent /\ sn.s # NoEvent => h.status = "corroborated"
      BY <1>6, ProcessTyped
    <2> HIDE DEF H!Key, H!KeysOf, HitRecords
    <2>2. b = [pc |-> "score", at |-> g, got |-> hitClock, ver |-> hitClock, adm |-> NoTime, hit |-> h]
      BY <1>3, <2>1 DEF H!Spawn
    <2> QED
      BY <1>5, <2>1, <2>2 DEF HitTasks, H!Pcs, Timed
  <1>8. a \in HitTasks \cup {NoTask} /\ (a # NoTask => Timed(a) /\ a.pc = "gate")
    <2>1. CASE e.direct = "none"
      BY <1>2, <2>1
    <2>2. CASE e.direct # "none"
      <3>1. PICK h \in HitRecords : h = H!DirectHit(e) /\ H!Key(h) \in H!KeysOf
        BY <2>2, DirectTyped
      <3> HIDE DEF H!Key, H!KeysOf, HitRecords
      <3>2. a = [pc |-> "gate", at |-> g, got |-> hitClock, ver |-> hitClock, adm |-> NoTime, hit |-> h]
        BY <1>2, <2>2, <3>1 DEF H!Spawn
      <3> QED
        BY <1>5, <3>1, <3>2 DEF HitTasks, H!Pcs, Timed
    <2> QED
      BY <2>1, <2>2
  <1>b. b # NoTask
    BY <1>7, HitsAssumption
  <1>9. \A x \in Events, p \in H!Paths : <<x, p>> \in H!Tasks
    BY DEF H!Tasks
  <1>10. /\ \A x \in Events \ {e}, p \in H!Paths : task'[<<x, p>>] = task[<<x, p>>]
         /\ task'[<<e, "correlated">>] = b
         /\ task[<<e, "correlated">>] = NoTask /\ task[<<e, "direct">>] = NoTask
    BY <1>0, <1>4, <1>9 DEF HitsTypes, H!Paths
  <1>11. \A t \in H!Tasks : /\ task[t] # NoTask => task'[t] = task[t]
                            /\ task'[t] = task[t] \/ task'[t] = a \/ task'[t] = b
    BY <1>0, <1>4, <1>10 DEF HitsTypes
  <1> HIDE DEF H!Tasks, H!KeysOf, H!Cids, H!Key, H!Paths
  <1>c. "correlated" \in H!Paths
    BY DEF H!Paths
  <1>12. HitsTypes'
    <2>1. task' \in [H!Tasks -> HitTasks \cup {NoTask}]
      BY <1>0, <1>4, <1>7, <1>8 DEF HitsTypes
    <2>2. session' \in [Engines -> [H!Cids -> SessionRecords]]
      <3>1. PICK f : f = [session[g] EXCEPT ![e.cid] = sn]
        OBVIOUS
      <3>2. f \in [H!Cids -> SessionRecords]
        BY <1>0, <1>5, <1>6, <3>1 DEF HitsTypes
      <3>3. session' = [session EXCEPT ![g] = f]
        BY <1>4, <3>1
      <3> QED
        BY <1>0, <3>2, <3>3 DEF HitsTypes
    <2>3. \A x \in queue' : \A p \in H!Paths : task'[<<x, p>>] = NoTask
      <3> SUFFICES ASSUME NEW x \in queue', NEW p \in H!Paths
                   PROVE  task'[<<x, p>>] = NoTask
        OBVIOUS
      <3>1. x \in queue /\ x \in Events \ {e}
        BY <1>0, <1>4 DEF HitsTypes
      <3>2. task'[<<x, p>>] = task[<<x, p>>]
        BY <1>10, <3>1
      <3> QED
        BY <1>0, <3>1, <3>2 DEF HitsTypes
    <2>4. \A x \in Events \ queue' : task'[<<x, "correlated">>] # NoTask
      BY <1>0, <1>4, <1>b, <1>c, <1>10 DEF HitsTypes
    <2> QED
      BY <1>0, <1>4, <2>1, <2>2, <2>3, <2>4 DEF HitsTypes
  <1>13. \A t \in H!Tasks : task'[t] # NoTask => Timed(task[t])'
    <2> SUFFICES ASSUME NEW t \in H!Tasks, task'[t] # NoTask PROVE Timed(task[t])'
      OBVIOUS
    <2>1. Timed(task'[t])
      BY <1>7, <1>8, <1>11 DEF HitsInv
    <2> QED
      BY <1>4, <2>1 DEF Timed
  <1>d. \A x \in Events \ queue : x # e /\ task'[<<x, "correlated">>] = task[<<x, "correlated">>]
    BY <1>4, <1>c, <1>10
  <1>e. \A x \in Events \ queue :
          /\ task[<<x, "correlated">>] # NoTask /\ task[<<x, "correlated">>] \in HitTasks
          /\ task[<<x, "correlated">>].at \in Engines /\ task[<<x, "correlated">>].got \in Nat
          /\ task[<<x, "correlated">>].got <= hitClock
    <2> SUFFICES ASSUME NEW x \in Events \ queue
                 PROVE  /\ task[<<x, "correlated">>] # NoTask /\ task[<<x, "correlated">>] \in HitTasks
                        /\ task[<<x, "correlated">>].at \in Engines
                        /\ task[<<x, "correlated">>].got \in Nat
                        /\ task[<<x, "correlated">>].got <= hitClock
      OBVIOUS
    <2>1. task[<<x, "correlated">>] # NoTask /\ task[<<x, "correlated">>] \in HitTasks
      BY <1>0, <1>9, <1>c DEF HitsTypes
    <2>2. Timed(task[<<x, "correlated">>])
      BY <1>9, <1>c, <2>1 DEF HitsInv
    <2> QED
      BY <2>1, <2>2 DEF Timed, HitTasks
  <1>f. \A x \in Events : x.cid \in H!Cids
    BY DEF H!Cids
  <1>14. SideKnown'
    <2> SUFFICES ASSUME NEW x \in Events \ queue'
                 PROVE  LET u == task'[<<x, "correlated">>]
                        IN hitClock - u.got > SessionTTL \/ SideIn(x, u, session'[u.at][x.cid])
      BY <1>4 DEF SideKnown, SideIn
    <2>1. CASE x = e
      <3>1. task'[<<x, "correlated">>] = b /\ session'[g][x.cid] = sn
        BY <1>0, <1>4, <1>5, <1>10, <2>1 DEF HitsTypes
      <3> QED
        BY <1>5, <1>6, <1>7, <2>1, <3>1 DEF SideIn
    <2>2. CASE x # e
      <3>1. x \in Events \ queue
        BY <1>4, <2>2
      <3>2. PICK u \in HitTasks : u = task[<<x, "correlated">>]
        BY <1>e, <3>1
      <3>3. u.at \in Engines /\ u.got \in Nat /\ u.got <= hitClock /\ task'[<<x, "correlated">>] = u
        BY <1>d, <1>e, <3>1, <3>2
      <3>4. hitClock - u.got > SessionTTL \/ SideIn(x, u, session[u.at][x.cid])
        BY <3>1, <3>2 DEF HitsInv, SideKnown
      <3>5. CASE u.at = g /\ x.cid = e.cid
        <4>1. session'[u.at][x.cid] = sn
          BY <1>0, <1>4, <1>5, <3>5 DEF HitsTypes
        <4> QED
          BY <1>5, <1>6, <3>3, <3>4, <3>5, <4>1 DEF SideIn
      <3>6. CASE ~ (u.at = g /\ x.cid = e.cid)
        <4>1. session'[u.at][x.cid] = session[u.at][x.cid]
          BY <1>0, <1>4, <1>5, <1>f, <3>3, <3>6 DEF HitsTypes
        <4> QED
          BY <3>3, <3>4, <4>1
      <3> QED
        BY <3>5, <3>6
    <2> QED
      BY <2>1, <2>2
  (* What the session of e knows of another event of the flow. *)
  <1>15. ASSUME NEW x \in Events \ queue, x.cid = e.cid, task[<<x, "correlated">>].at = g,
                hitClock - task[<<x, "correlated">>].got <= SessionTTL
         PROVE  /\ x.source = "z" => sn.z # NoEvent
                /\ x.source = "s" => sn.s # NoEvent
    <2>1. SideIn(x, task[<<x, "correlated">>], session[g][e.cid])
      BY <1>5, <1>e, <1>15, HitsAssumption DEF HitsInv, SideKnown
    <2> QED
      BY <1>6, <2>1 DEF SideIn
  <1>16. OneEngineCorroborates'
    <2> SUFFICES ASSUME NEW z \in Events, NEW s \in Events, H!Paired(z, s)'
                 PROVE  \E x \in {z, s} : task'[<<x, "correlated">>].hit.status = "corroborated"
      BY DEF OneEngineCorroborates, H!OneEngineCorroborates
    <2>1. /\ z.cid = s.cid /\ z.source = "z" /\ s.source = "s"
          /\ task'[<<z, "correlated">>] # NoTask /\ task'[<<s, "correlated">>] # NoTask
          /\ task'[<<z, "correlated">>].at = task'[<<s, "correlated">>].at
          /\ task'[<<z, "correlated">>].got - task'[<<s, "correlated">>].got
               \in (-SessionTTL)..SessionTTL
      BY DEF H!Paired
    <2>2. z \notin queue' /\ s \notin queue' /\ z # s
      BY <1>12, <1>c, <2>1 DEF HitsTypes
    <2>3. CASE z = e
      <3>1. s \in Events \ queue /\ s # e
        BY <1>4, <2>2, <2>3
      <3>2. task'[<<s, "correlated">>] = task[<<s, "correlated">>]
            /\ task'[<<z, "correlated">>] = b
        BY <1>10, <1>d, <2>3, <3>1
      <3>3. hitClock - task[<<s, "correlated">>].got <= SessionTTL
        BY <1>5, <1>7, <1>e, <2>1, <3>1, <3>2, HitsAssumption
      <3>4. sn.s # NoEvent /\ sn.z # NoEvent
        BY <1>6, <1>7, <1>15, <2>1, <2>3, <3>1, <3>2, <3>3
      <3> QED
        BY <1>7, <3>2, <3>4
    <2>4. CASE s = e
      <3>1. z \in Events \ queue /\ z # e
        BY <1>4, <2>2, <2>4
      <3>2. task'[<<z, "correlated">>] = task[<<z, "correlated">>]
            /\ task'[<<s, "correlated">>] = b
        BY <1>10, <1>d, <2>4, <3>1
      <3>3. hitClock - task[<<z, "correlated">>].got <= SessionTTL
        BY <1>5, <1>7, <1>e, <2>1, <3>1, <3>2, HitsAssumption
      <3>4. sn.s # NoEvent /\ sn.z # NoEvent
        BY <1>6, <1>7, <1>15, <2>1, <2>4, <3>1, <3>2, <3>3
      <3> QED
        BY <1>7, <3>2, <3>4
    <2>5. CASE z # e /\ s # e
      <3>1. task'[<<z, "correlated">>] = task[<<z, "correlated">>]
            /\ task'[<<s, "correlated">>] = task[<<s, "correlated">>]
        BY <1>c, <1>10, <2>5
      <3>2. H!Paired(z, s)
        BY <2>1, <3>1 DEF H!Paired
      <3>3. \E x \in {z, s} : task[<<x, "correlated">>].hit.status = "corroborated"
        BY <3>2 DEF HitsInv, OneEngineCorroborates, H!OneEngineCorroborates
      <3> QED
        BY <3>1, <3>3
    <2> QED
      BY <2>3, <2>4, <2>5
  <1>17. ASSUME NEW h, NEW k, NEW at, Opened(h, k, at) PROVE Opened(h, k, at)'
    BY <1>11, <1>17 DEF Opened
  <1>18. WindowsOpened'
    <2> SUFFICES ASSUME NEW h \in Engines, NEW k \in H!KeysOf, seen[h][k] # NoTime
                 PROVE  Opened(h, k, seen[h][k])'
      BY <1>4 DEF WindowsOpened
    <2>1. PICK at : at = seen[h][k]
      OBVIOUS
    <2>2. Opened(h, k, at)'
      BY <1>17, <2>1 DEF HitsInv, WindowsOpened
    <2> QED
      BY <1>4, <2>1, <2>2
  <1>19. RepeatsFollow'
    <2> SUFFICES ASSUME NEW v \in H!Tasks, task'[v] # NoTask, task'[v].pc = "repeat"
                 PROVE  \E at \in Nat : /\ Opened(task[v].at, H!Key(task[v].hit), at)'
                                        /\ task'[v].ver - at < Window
      BY DEF RepeatsFollow
    <2>1. task'[v] = task[v]
      BY <1>7, <1>8, <1>11
    <2>2. PICK at \in Nat : /\ Opened(task[v].at, H!Key(task[v].hit), at)
                            /\ task[v].ver - at < Window
      BY <2>1 DEF HitsInv, RepeatsFollow
    <2>3. PICK h, k : h = task[v].at /\ k = H!Key(task[v].hit)
      OBVIOUS
    <2>4. Opened(h, k, at)'
      BY <1>17, <2>2, <2>3
    <2> QED
      BY <2>1, <2>2, <2>3, <2>4
  <1> QED
    BY <1>12, <1>13, <1>14, <1>16, <1>18, <1>19 DEF HitsInv

(* Time passes, or expired sessions go; the work stays as it is.           *)
LEMMA HitsStay ==
  ASSUME HitsInv, UNCHANGED <<queue, task, seen>>, hitClock' \in Nat, hitClock <= hitClock',
         session' \in [Engines -> [H!Cids -> SessionRecords]],
         \A g \in Engines, c \in H!Cids :
           \/ session'[g][c] = session[g][c]
           \/ session[g][c] # H!NoSession /\ hitClock' - session[g][c].last > SessionTTL
  PROVE  HitsInv'
  <1>0. HitsTypes
    BY DEF HitsInv
  <1>1. \A x \in Events, p \in H!Paths : <<x, p>> \in H!Tasks
    BY DEF H!Tasks
  <1>2. \A x \in Events : x.cid \in H!Cids
    BY DEF H!Cids
  <1>c. "correlated" \in H!Paths
    BY DEF H!Paths
  <1> HIDE DEF H!Tasks, H!KeysOf, H!Cids, H!Key, H!Paths
  <1>3. HitsTypes'
    BY <1>0 DEF HitsTypes
  <1>4. \A t \in H!Tasks : task'[t] # NoTask => Timed(task[t])'
    <2> SUFFICES ASSUME NEW t \in H!Tasks, task[t] # NoTask PROVE Timed(task[t])'
      OBVIOUS
    <2>1. Timed(task[t]) /\ task[t].got \in Nat /\ task[t].ver \in Nat /\ hitClock \in Nat
      BY <1>0 DEF HitsInv, HitsTypes, HitTasks
    <2> QED
      BY <2>1 DEF Timed
  <1>5. SideKnown'
    <2> SUFFICES ASSUME NEW x \in Events \ queue
                 PROVE  LET u == task[<<x, "correlated">>]
                        IN hitClock' - u.got > SessionTTL \/ SideIn(x, u, session[u.at][x.cid])'
      BY DEF SideKnown
    <2>1. PICK u \in HitTasks : u = task[<<x, "correlated">>]
      BY <1>0, <1>1, <1>c DEF HitsTypes
    <2>2. u.at \in Engines /\ u.got \in Nat /\ hitClock \in Nat
      BY <1>0 DEF HitTasks, HitsTypes
    <2>3. hitClock - u.got > SessionTTL \/ SideIn(x, u, session[u.at][x.cid])
      BY <2>1 DEF HitsInv, SideKnown
    <2>4. CASE hitClock - u.got > SessionTTL
      BY <2>1, <2>2, <2>4, HitsAssumption
    <2>5. CASE SideIn(x, u, session[u.at][x.cid])
      <3>1. PICK last \in Nat : /\ last = session[u.at][x.cid].last
                                /\ u.got <= last /\ last <= hitClock
        BY <2>5 DEF SideIn
      <3>2. CASE session'[u.at][x.cid] = session[u.at][x.cid]
        <4>1. last <= hitClock'
          BY <2>2, <3>1
        <4> QED
          BY <2>1, <2>5, <3>1, <3>2, <4>1 DEF SideIn
      <3>3. CASE hitClock' - last > SessionTTL
        <4>1. hitClock' - u.got > SessionTTL
          BY <2>2, <3>1, <3>3, HitsAssumption
        <4> QED
          BY <2>1, <4>1
      <3> QED
        BY <1>2, <2>2, <3>1, <3>2, <3>3
    <2> QED
      BY <2>3, <2>4, <2>5
  <1>6. OneEngineCorroborates'
    BY DEF HitsInv, OneEngineCorroborates, H!OneEngineCorroborates, H!Paired
  <1>7. WindowsOpened' /\ RepeatsFollow'
    BY DEF HitsInv, WindowsOpened, RepeatsFollow, Opened
  <1> QED
    BY <1>3, <1>4, <1>5, <1>6, <1>7 DEF HitsInv

LEMMA HitsStep == HitsInv /\ [H!Next]_H!vars => HitsInv'
  <1> SUFFICES ASSUME HitsInv, [H!Next]_H!vars PROVE HitsInv'
    BY Zenon
  <1> HIDE DEF H!Tasks, H!KeysOf, H!Cids, H!Key, H!Paths
  <1>0. HitsTypes
    BY DEF HitsInv
  (* Suppressions, plans and the decisions of the AI touch none of this. *)
  <1>1. ASSUME UNCHANGED <<hitClock, queue, session, task, seen>> PROVE HitsInv'
    BY <1>0, <1>1, HitsStay DEF HitsTypes
  <1>2. ASSUME NEW g \in Engines, H!Sweep(g) PROVE HitsInv'
    <2>1. /\ session' = [session EXCEPT ![g] = [c \in H!Cids |->
               IF @[c] # H!NoSession /\ H!IsExpired(@[c]) THEN H!NoSession ELSE @[c]]]
          /\ UNCHANGED <<hitClock, queue, task, seen>>
      BY <1>2 DEF H!Sweep
    <2>2. H!NoSession \in SessionRecords
      BY DEF H!NoSession, SessionRecords
    <2>3. PICK f : f = [c \in H!Cids |->
             IF session[g][c] # H!NoSession /\ H!IsExpired(session[g][c])
             THEN H!NoSession ELSE session[g][c]]
      OBVIOUS
    <2>4. session' = [session EXCEPT ![g] = f]
      BY <2>1, <2>3
    <2>5. f \in [H!Cids -> SessionRecords]
      BY <1>0, <2>2, <2>3 DEF HitsTypes
    <2>6. session' \in [Engines -> [H!Cids -> SessionRecords]]
      BY <1>0, <2>4, <2>5 DEF HitsTypes
    <2>7. \A x \in Engines, c \in H!Cids :
            \/ session'[x][c] = session[x][c]
            \/ session[x][c] # H!NoSession /\ hitClock - session[x][c].last > SessionTTL
      BY <1>0, <2>3, <2>4 DEF HitsTypes, H!IsExpired
    <2> QED
      BY <1>0, <2>1, <2>6, <2>7, HitsStay DEF HitsTypes
  <1>3. ASSUME H!Tick PROVE HitsInv'
    <2>1. hitClock' = hitClock + 1 /\ UNCHANGED <<queue, session, task, seen>>
      BY <1>3 DEF H!Tick
    <2>2. hitClock' \in Nat /\ hitClock <= hitClock'
          /\ session' \in [Engines -> [H!Cids -> SessionRecords]]
      BY <1>0, <2>1 DEF HitsTypes
    <2> QED
      BY <2>1, <2>2, HitsStay
  <1>4. ASSUME NEW e \in Events,
               H!CheckAi(e) \/ H!RefuseAi(e)
               \/ \E type \in {"by_sid", "by_src", "by_dst"} : H!DecideAi(e, type)
        PROVE  HitsInv'
    BY <1>1, <1>4 DEF H!CheckAi, H!RefuseAi, H!DecideAi, H!SaveRule
  <1>5. ASSUME NEW a \in Analysts,
               H!Apply(a) \/ \E c \in H!Cids, scope \in {"session", "pattern"} : H!Plan(a, c, scope)
        PROVE  HitsInv'
    BY <1>1, <1>5 DEF H!Apply, H!Plan, H!SaveRule
  <1>6. ASSUME NEW h, H!CreateManual(h) PROVE HitsInv'
    BY <1>1, <1>6 DEF H!CreateManual, H!SaveRule
  <1>7. ASSUME NEW r, H!Deactivate(r) \/ H!Delete(r) PROVE HitsInv'
    BY <1>1, <1>7 DEF H!Deactivate, H!Delete
  <1>8. CASE UNCHANGED H!vars
    BY <1>1, <1>8 DEF H!vars
  <1>9. CASE H!Next
    BY <1>2, <1>3, <1>4, <1>5, <1>6, <1>7, <1>9, ConsumeKeeps, EvaluateKeeps, GateKeeps,
       AdmitKeeps, WriteKeeps, Zenon
       DEF H!Next
  <1> QED
    BY <1>8, <1>9

LEMMA HitsAlways == H!Spec => []HitsInv
  BY HitsInit, HitsStep, PTL DEF H!Spec

(* For any number of events and engines, and any lifetime of a session:    *)
(* the two views of a flow that one engine gets within that lifetime make  *)
(* a corroborated hit, whichever came first.                               *)
THEOREM OneEngineAlwaysCorroborates == H!Spec => []OneEngineCorroborates
  <1>1. HitsInv => OneEngineCorroborates
    BY DEF HitsInv
  <1> QED
    BY HitsAlways, <1>1, PTL

(* For any number of events and engines, and any window: a hit dropped as  *)
(* a repeat follows another of its match that the same engine let through  *)
(* less than a window before.                                              *)
THEOREM RepeatAlwaysHasFirst == H!Spec => []RepeatHasFirst
  <1>1. HitsInv => RepeatHasFirst
    <2> SUFFICES ASSUME HitsInv, NEW t \in H!Tasks, H!At(t, "repeat")
                 PROVE  \E u \in H!Tasks \ {t} :
                          /\ H!Done(u) /\ task[u].adm # NoTime
                          /\ task[u].at = task[t].at /\ H!SameMatch(task[u].hit, task[t].hit)
                          /\ task[t].ver - task[u].adm < Window
      BY DEF RepeatHasFirst, H!RepeatHasFirst
    <2>1. PICK at \in Nat : /\ Opened(task[t].at, H!Key(task[t].hit), at)
                            /\ task[t].ver - at < Window
      BY DEF HitsInv, RepeatsFollow, H!At
    <2>2. PICK u \in H!Tasks : /\ task[u] # NoTask /\ task[u].pc \in Through
                               /\ task[u].at = task[t].at
                               /\ H!Key(task[u].hit) = H!Key(task[t].hit) /\ task[u].adm = at
      BY <2>1 DEF Opened
    <2>3. u # t
      BY <2>2 DEF H!At, Through
    <2>4. H!SameMatch(task[u].hit, task[t].hit)
      BY <2>2 DEF H!SameMatch, H!Key
    <2> QED
      BY <2>1, <2>2, <2>3, <2>4, HitsAssumption DEF H!Done
  <1> QED
    BY HitsAlways, <1>1, PTL

-----------------------------------------------------------------------------
(* MultiFlow.                                                              *)

Tellings == UNION {[d : {x}, f : F!Findings(x), mark : Nat] : x \in F!Detectors}
FlowRows ==
  UNION {[tag : {x.tag}, src : FlowSources, dst : Targets \cup {F!Nothing},
          slot : {F!Slot(x, f) : f \in F!Findings(x)}, mark : Nat, at : Nat] : x \in F!Detectors}
FlowTasks(some) ==
  [pc : {"start", "idle", "run", "emit"}, own : SUBSET some, loaded : SUBSET some,
   told : Tellings \cup {NoTask}]

(* A stored hit was marked before it was written, and in the slot of its   *)
(* own detector.                                                           *)
RowFits(h) ==
  /\ h.mark \in Nat /\ h.at \in Nat /\ h.mark <= h.at /\ h.at <= flowClock
  /\ \E x \in F!Detectors : /\ h.tag = x.tag /\ h.slot \in F!Slots
                            /\ \E f \in F!Findings(x) : h.src = f.src /\ h.slot = F!Slot(x, f)
FlowTypes ==
  /\ flowClock \in Nat
  /\ loop \in [F!Tasks -> FlowTasks(flowHits)]
  /\ sup \in [F!Tasks -> [F!Slots -> Nat \cup {NoTime}]]
  /\ \A h \in flowHits : RowFits(h)
  /\ \A t \in F!Tasks : loop[t].pc = "start" => loop[t].own = {} /\ loop[t].loaded = {}

(* What is remembered in a slot, of a hit or of the finding being told.    *)
Holds(m, mark) == m \in Nat /\ mark <= m
OwnHeld ==
  \A t \in F!Tasks : \A h \in loop[t].own :
    Holds(sup[t][h.slot], h.mark) \/ flowClock - h.mark >= Day
LoadedHeld ==
  \A t \in F!Tasks : \A h \in loop[t].loaded :
    F!DetectorOf(h.tag).names = "source" =>
      Holds(sup[t][h.slot], h.mark) \/ flowClock - h.mark >= Day
TellingHeld ==
  \A t \in F!Tasks : loop[t].pc = "emit" =>
    LET u == loop[t].told
    IN /\ u \in Tellings /\ u.mark <= flowClock
       /\ Holds(sup[t][F!Slot(u.d, u.f)], u.mark)

FlowsInv == FlowTypes /\ OwnHeld /\ LoadedHeld /\ TellingHeld

(* The tag of a detector tells it from the others, its window ends within  *)
(* the day, and one that names a source keys its memory by that source.    *)
LEMMA DetectorFacts ==
  /\ \A x, y \in F!Detectors : x.tag = y.tag => x = y
  /\ \A x \in F!Detectors : /\ x.window \in Nat /\ x.window <= Day
                            /\ x.names = "source" => x.key = "src"
  <1> DEFINE All == {F!PortScan, F!CredentialStuffing, F!LateralMovement, F!DnsBeaconing,
                     F!SlowScan, F!InternalRecon, F!DataStaging, F!IcmpFlood, F!NxdomainFlood,
                     F!DnsTunneling, F!TlsCertAnomaly, F!ProtocolMisuse, F!LargeVolumeExfil,
                     F!VolumeAnomaly, F!NewExternalContact, F!AbnormalHours}
  <1>1. \A x \in F!Detectors : x \in All
    BY DEF F!Detectors
  <1>2. \A x, y \in All : x.tag = y.tag => x = y
    BY DEF F!PortScan, F!CredentialStuffing, F!LateralMovement, F!DnsBeaconing,
           F!SlowScan, F!InternalRecon, F!DataStaging, F!IcmpFlood, F!NxdomainFlood,
           F!DnsTunneling, F!TlsCertAnomaly, F!ProtocolMisuse, F!LargeVolumeExfil,
           F!VolumeAnomaly, F!NewExternalContact, F!AbnormalHours, F!Of
  <1>3. \A x \in All : /\ x.window \in Nat /\ x.window <= Day
                       /\ x.names = "source" => x.key = "src"
    BY FlowsAssumption
       DEF F!PortScan, F!CredentialStuffing, F!LateralMovement, F!DnsBeaconing,
           F!SlowScan, F!InternalRecon, F!DataStaging, F!IcmpFlood, F!NxdomainFlood,
           F!DnsTunneling, F!TlsCertAnomaly, F!ProtocolMisuse, F!LargeVolumeExfil,
           F!VolumeAnomaly, F!NewExternalContact, F!AbnormalHours, F!Of
  <1> HIDE DEF All
  <1> QED
    BY <1>1, <1>2, <1>3

LEMMA SlotFacts ==
  ASSUME NEW x \in F!Detectors, NEW f \in F!Findings(x)
  PROVE  /\ F!Slot(x, f) \in F!Slots
         /\ \A y \in F!Detectors : \A z \in F!Findings(y) :
              F!Slot(y, z) = F!Slot(x, f) =>
                x = y /\ (x.names = "source" => z.src = f.src /\ F!Slot(x, f) = <<x.tag, <<f.src>> >>)
  <1>1. F!Slot(x, f) \in F!Slots
    BY DEF F!Slots, F!Slot, F!Keys
  <1>2. ASSUME NEW y \in F!Detectors, NEW z \in F!Findings(y), F!Slot(y, z) = F!Slot(x, f)
        PROVE  x = y /\ (x.names = "source" => z.src = f.src /\ F!Slot(x, f) = <<x.tag, <<f.src>> >>)
    <2>1. x = y
      BY <1>2, DetectorFacts DEF F!Slot
    <2>2. ASSUME x.names = "source" PROVE z.src = f.src /\ F!Slot(x, f) = <<x.tag, <<f.src>> >>
      <3>1. x.key = "src" /\ y.key = "src"
        BY <2>1, <2>2, DetectorFacts
      <3>2. F!DetectionKey(x, f) = <<f.src>> /\ F!DetectionKey(y, z) = <<z.src>>
        BY <3>1 DEF F!DetectionKey
      <3> QED
        BY <1>2, <3>2 DEF F!Slot
    <2> QED
      BY <2>1, <2>2
  <1> QED
    BY <1>1, <1>2

(* A hit of a detector that names a source is loaded into the slot in      *)
(* which that detector looks it up.                                        *)
LEMMA LoadedInSlot ==
  ASSUME NEW h, RowFits(h)
  PROVE  /\ F!DetectorOf(h.tag) \in F!Detectors /\ F!DetectorOf(h.tag).tag = h.tag
         /\ F!DetectorOf(h.tag).names = "source" => F!LoadedSlot(h) = h.slot
         /\ h.slot \in F!Slots
  <1>1. PICK x \in F!Detectors : /\ h.tag = x.tag /\ h.slot \in F!Slots
                                 /\ \E f \in F!Findings(x) : h.src = f.src /\ h.slot = F!Slot(x, f)
    BY DEF RowFits
  <1>2. F!DetectorOf(h.tag) = x
    BY <1>1, DetectorFacts DEF F!DetectorOf
  <1>3. ASSUME x.names = "source" PROVE F!LoadedSlot(h) = h.slot
    BY <1>1, <1>2, <1>3, SlotFacts DEF F!LoadedSlot, F!LoadedKey
  <1> QED
    BY <1>1, <1>2, <1>3

LEMMA FlowsInit == F!Init => FlowsInv
  <1> SUFFICES ASSUME F!Init PROVE FlowsInv
    OBVIOUS
  <1>1. FlowTypes
    BY DEF F!Init, FlowTypes, FlowTasks, F!Started, F!Empty
  <1>2. OwnHeld /\ LoadedHeld /\ TellingHeld
    BY DEF F!Init, OwnHeld, LoadedHeld, TellingHeld, F!Started
  <1> QED
    BY <1>1, <1>2 DEF FlowsInv

(* Time passes, another engine leads, a round begins or ends.              *)
LEMMA RoundKeeps ==
  ASSUME FlowsInv, flowClock' \in Nat, flowClock' >= flowClock, UNCHANGED <<sup, flowHits>>,
         \/ UNCHANGED loop
         \/ \E t \in F!Tasks :
              \/ loop[t].pc = "idle" /\ loop' = [loop EXCEPT ![t].pc = "run"]
              \/ loop[t].pc = "run" /\ loop' = [loop EXCEPT ![t].pc = "idle"]
  PROVE  FlowsInv'
  <1> DEFINE Same(t) == /\ loop'[t].own = loop[t].own /\ loop'[t].loaded = loop[t].loaded
                        /\ loop'[t].told = loop[t].told
                        /\ loop'[t].pc \in {"start", "emit"} => loop[t].pc = loop'[t].pc
  <1>1. loop' \in [F!Tasks -> FlowTasks(flowHits)] /\ \A t \in F!Tasks : Same(t)
    <2>1. CASE UNCHANGED loop
      BY <2>1 DEF FlowsInv, FlowTypes
    <2>2. ASSUME NEW t \in F!Tasks, NEW p \in {"run", "idle"},
                 loop' = [loop EXCEPT ![t].pc = p]
          PROVE  loop' \in [F!Tasks -> FlowTasks(flowHits)] /\ \A x \in F!Tasks : Same(x)
      <3>1. PICK u : u = [loop[t] EXCEPT !.pc = p]
        OBVIOUS
      <3>2. /\ u \in FlowTasks(flowHits) /\ u.own = loop[t].own /\ u.loaded = loop[t].loaded
            /\ u.told = loop[t].told /\ u.pc = p
        BY <3>1 DEF FlowsInv, FlowTypes, FlowTasks
      <3>3. loop' = [loop EXCEPT ![t] = u]
        BY <2>2, <3>1
      <3> QED
        BY <3>2, <3>3 DEF FlowsInv, FlowTypes
    <2> QED
      BY <2>1, <2>2
  <1>2. FlowTypes'
    <2>1. \A h \in flowHits : RowFits(h)'
      BY DEF FlowsInv, FlowTypes, RowFits
    <2> QED
      BY <1>1, <2>1 DEF FlowsInv, FlowTypes, FlowTasks
  <1>3. OwnHeld'
    <2> SUFFICES ASSUME NEW t \in F!Tasks, NEW h \in loop'[t].own
                 PROVE  Holds(sup[t][h.slot], h.mark) \/ flowClock' - h.mark >= Day
      BY DEF OwnHeld
    <2>1. Holds(sup[t][h.slot], h.mark) \/ flowClock - h.mark >= Day
      BY <1>1 DEF FlowsInv, OwnHeld
    <2>2. h \in flowHits
      BY <1>1 DEF FlowsInv, FlowTypes, FlowTasks
    <2>3. h.mark \in Nat /\ flowClock \in Nat
      BY <2>2 DEF FlowsInv, FlowTypes, RowFits
    <2> QED
      BY <2>1, <2>3, FlowsAssumption
  <1>4. LoadedHeld'
    <2> SUFFICES ASSUME NEW t \in F!Tasks, NEW h \in loop'[t].loaded,
                        F!DetectorOf(h.tag).names = "source"
                 PROVE  Holds(sup[t][h.slot], h.mark) \/ flowClock' - h.mark >= Day
      BY DEF LoadedHeld
    <2>1. Holds(sup[t][h.slot], h.mark) \/ flowClock - h.mark >= Day
      BY <1>1 DEF FlowsInv, LoadedHeld
    <2>2. h \in flowHits
      BY <1>1 DEF FlowsInv, FlowTypes, FlowTasks
    <2>3. h.mark \in Nat /\ flowClock \in Nat
      BY <2>2 DEF FlowsInv, FlowTypes, RowFits
    <2> QED
      BY <2>1, <2>3, FlowsAssumption
  <1>5. TellingHeld'
    <2> SUFFICES ASSUME NEW t \in F!Tasks, loop'[t].pc = "emit"
                 PROVE  LET u == loop[t].told
                        IN /\ u \in Tellings /\ u.mark <= flowClock'
                           /\ Holds(sup[t][F!Slot(u.d, u.f)], u.mark)
      BY <1>1 DEF TellingHeld
    <2> DEFINE u == loop[t].told
    <2>1. u \in Tellings /\ u.mark <= flowClock /\ Holds(sup[t][F!Slot(u.d, u.f)], u.mark)
      BY <1>1 DEF FlowsInv, TellingHeld
    <2>2. u.mark \in Nat /\ flowClock \in Nat
      BY <2>1 DEF FlowsInv, FlowTypes, Tellings
    <2> QED
      BY <2>1, <2>2
  <1> QED
    BY <1>2, <1>3, <1>4, <1>5 DEF FlowsInv

(* A step of one task that leaves the stored hits and the clock alone      *)
(* keeps the invariant when it keeps what concerns that task.              *)
TaskHeld(u, mem) ==
  /\ \A h \in u.own : Holds(mem[h.slot], h.mark) \/ flowClock - h.mark >= Day
  /\ \A h \in u.loaded : F!DetectorOf(h.tag).names = "source" =>
       Holds(mem[h.slot], h.mark) \/ flowClock - h.mark >= Day
  /\ u.pc = "emit" =>
       /\ u.told \in Tellings /\ u.told.mark <= flowClock
       /\ Holds(mem[F!Slot(u.told.d, u.told.f)], u.told.mark)
  /\ u.pc = "start" => u.own = {} /\ u.loaded = {}

LEMMA TaskHeldEach == ASSUME FlowsInv, NEW t \in F!Tasks PROVE TaskHeld(loop[t], sup[t])
  BY DEF FlowsInv, FlowTypes, OwnHeld, LoadedHeld, TellingHeld, TaskHeld

LEMMA OneTaskMoves ==
  ASSUME FlowsInv, NEW t \in F!Tasks, NEW u,
         NEW mem \in [F!Slots -> Nat \cup {NoTime}], TaskHeld(u, mem),
         loop' = [loop EXCEPT ![t] = u], sup' = [sup EXCEPT ![t] = mem], UNCHANGED flowClock,
         flowHits \subseteq flowHits', \A h \in flowHits' : RowFits(h),
         u \in FlowTasks(flowHits')
  PROVE  FlowsInv'
  <1>1. /\ loop'[t] = u /\ sup'[t] = mem
        /\ \A x \in F!Tasks \ {t} : loop'[x] = loop[x] /\ sup'[x] = sup[x]
    BY DEF FlowsInv, FlowTypes
  <1>2. \A x \in F!Tasks : TaskHeld(loop'[x], sup'[x])
    BY <1>1, TaskHeldEach
  <1>3. \A v \in FlowTasks(flowHits) : v \in FlowTasks(flowHits')
    BY DEF FlowTasks
  <1>4. FlowTypes'
    <2>1. \A h \in flowHits' : RowFits(h)'
      BY DEF RowFits
    <2>3. \A x \in F!Tasks : loop'[x].pc = "start" => loop'[x].own = {} /\ loop'[x].loaded = {}
      BY <1>2 DEF TaskHeld
    <2>4. loop' \in [F!Tasks -> FlowTasks(flowHits')]
      BY <1>3 DEF FlowsInv, FlowTypes
    <2>5. sup' \in [F!Tasks -> [F!Slots -> Nat \cup {NoTime}]]
      BY DEF FlowsInv, FlowTypes
    <2>6. flowClock' \in Nat
      BY DEF FlowsInv, FlowTypes
    <2> QED
      BY <2>1, <2>3, <2>4, <2>5, <2>6 DEF FlowTypes
  <1>5. OwnHeld' /\ LoadedHeld' /\ TellingHeld'
    BY <1>2 DEF OwnHeld, LoadedHeld, TellingHeld, TaskHeld
  <1> QED
    BY <1>4, <1>5 DEF FlowsInv

(* Of several hits of one slot the first row counts, and it is no older    *)
(* than its mark.                                                          *)
LEMMA SeededHolds ==
  ASSUME FlowsInv, NEW first \in SUBSET flowHits,
         \A h \in first : \E r \in first : F!SameSlot(first, h) = {r}
  PROVE  /\ F!Seeded(first) \in [F!Slots -> Nat \cup {NoTime}]
         /\ \A h \in first : F!DetectorOf(h.tag).names = "source" =>
              Holds(F!Seeded(first)[h.slot], h.mark)
  <1>1. \A h \in first : RowFits(h)
    BY DEF FlowsInv, FlowTypes
  <1>2. F!Seeded(first) \in [F!Slots -> Nat \cup {NoTime}]
    <2>1. ASSUME NEW s \in F!Slots, NEW h \in first, F!LoadedSlot(h) = s
          PROVE  (CHOOSE r \in first : F!LoadedSlot(r) = s).at \in Nat
      BY <1>1, <2>1 DEF RowFits
    <2> QED
      BY <2>1 DEF F!Seeded
  <1>3. ASSUME NEW h \in first, F!DetectorOf(h.tag).names = "source"
        PROVE  Holds(F!Seeded(first)[h.slot], h.mark)
    <2> DEFINE Same == {r \in first : F!LoadedSlot(r) = F!LoadedSlot(h)}
               r == CHOOSE x \in first : F!LoadedSlot(x) = h.slot
    <2>1. F!LoadedSlot(h) = h.slot /\ h.slot \in F!Slots
      BY <1>1, <1>3, LoadedInSlot
    <2>3. PICK x \in first : Same = {x}
      BY DEF F!SameSlot
    <2>4. h \in Same /\ r \in Same
      BY <2>1
    <2>5. r = h
      BY <2>3, <2>4
    <2>6. F!Seeded(first)[h.slot] = h.at
      BY <2>1, <2>5 DEF F!Seeded
    <2> QED
      BY <1>1, <2>6 DEF RowFits, Holds
  <1> QED
    BY <1>2, <1>3

LEMMA LoadKeeps == ASSUME FlowsInv, NEW t \in F!Tasks, F!Load(t) PROVE FlowsInv'
  <1>1. /\ loop[t] \in FlowTasks(flowHits) /\ loop[t].own = {} /\ loop[t].loaded = {}
        /\ sup[t] \in [F!Slots -> Nat \cup {NoTime}]
        /\ \A h \in flowHits : RowFits(h)
    BY DEF FlowsInv, FlowTypes, F!Load
  <1>2. ASSUME NEW first \in SUBSET {h \in flowHits : F!Recent(h)},
               \A h \in flowHits : F!Recent(h) => \E r \in first : F!SameSlot(first, h) = {r},
               sup' = [sup EXCEPT ![t] = F!Seeded(first)],
               loop' = [loop EXCEPT ![t] = [@ EXCEPT !.pc = "idle", !.loaded = first]]
        PROVE  FlowsInv'
    <2>1. PICK u : u = [loop[t] EXCEPT !.pc = "idle", !.loaded = first]
      OBVIOUS
    <2>2. u \in FlowTasks(flowHits) /\ u.pc = "idle" /\ u.own = {} /\ u.loaded = first
      BY <1>1, <2>1 DEF FlowTasks
    <2>3. /\ F!Seeded(first) \in [F!Slots -> Nat \cup {NoTime}]
          /\ \A h \in first : F!DetectorOf(h.tag).names = "source" =>
               Holds(F!Seeded(first)[h.slot], h.mark)
      BY <1>2, SeededHolds
    <2>4. TaskHeld(u, F!Seeded(first))
      BY <2>2, <2>3 DEF TaskHeld
    <2>5. loop' = [loop EXCEPT ![t] = u] /\ UNCHANGED <<flowClock, flowHits>>
      BY <1>2, <2>1 DEF F!Load
    <2> QED
      BY <1>1, <1>2, <2>2, <2>3, <2>4, <2>5, OneTaskMoves DEF FlowTasks
  <1>3. ASSUME loop' = [loop EXCEPT ![t].pc = "idle"], UNCHANGED sup PROVE FlowsInv'
    <2>1. PICK u : u = [loop[t] EXCEPT !.pc = "idle"]
      OBVIOUS
    <2>2. u \in FlowTasks(flowHits) /\ u.pc = "idle" /\ u.own = {} /\ u.loaded = {}
      BY <1>1, <2>1 DEF FlowTasks
    <2>3. TaskHeld(u, sup[t])
      BY <2>2 DEF TaskHeld
    <2>4. /\ loop' = [loop EXCEPT ![t] = u] /\ UNCHANGED <<flowClock, flowHits>>
          /\ sup' = [sup EXCEPT ![t] = sup[t]]
      BY <1>3, <2>1 DEF F!Load, FlowsInv, FlowTypes
    <2> QED
      BY <1>1, <2>2, <2>3, <2>4, OneTaskMoves DEF FlowTasks
  <1>4. CASE flowFaults < FlowFaults /\ loop' = [loop EXCEPT ![t].pc = "idle"] /\ UNCHANGED sup
    BY <1>3, <1>4, Zenon
  <1> QED
    BY <1>2, <1>4, Zenon DEF F!Load

LEMMA DetectKeeps ==
  ASSUME FlowsInv, NEW t \in F!Tasks, NEW x \in F!Detectors, NEW f \in F!Findings(x),
         F!Detect(t, x, f)
  PROVE  FlowsInv'
  <1>1. /\ loop[t] \in FlowTasks(flowHits) /\ sup[t] \in [F!Slots -> Nat \cup {NoTime}]
        /\ flowClock \in Nat /\ TaskHeld(loop[t], sup[t])
        /\ \A h \in flowHits : RowFits(h)
    BY TaskHeldEach DEF FlowsInv, FlowTypes
  <1>2. PICK mem : mem = [sup[t] EXCEPT ![F!Slot(x, f)] = flowClock]
    OBVIOUS
  <1>3. /\ mem \in [F!Slots -> Nat \cup {NoTime}]
        /\ \A s \in F!Slots : mem[s] = IF s = F!Slot(x, f) THEN flowClock ELSE sup[t][s]
    BY <1>1, <1>2
  <1>4. PICK v : v = [d |-> x, f |-> f, mark |-> flowClock]
    OBVIOUS
  <1>5. v \in Tellings /\ v.d = x /\ v.f = f /\ v.mark = flowClock
    BY <1>1, <1>4 DEF Tellings
  <1>6. PICK u : u = [loop[t] EXCEPT !.pc = "emit", !.told = v]
    OBVIOUS
  <1>7. /\ u \in FlowTasks(flowHits) /\ u.pc = "emit" /\ u.own = loop[t].own
        /\ u.loaded = loop[t].loaded /\ u.told = v
        /\ u.own \subseteq flowHits /\ u.loaded \subseteq flowHits
    BY <1>1, <1>5, <1>6 DEF FlowTasks
  <1>8. \A h \in flowHits : h.slot \in F!Slots /\ h.mark \in Nat /\ h.mark <= flowClock
    BY <1>1 DEF RowFits
  <1>9. TaskHeld(u, mem)
    <2>1. \A h \in flowHits : Holds(sup[t][h.slot], h.mark) => Holds(mem[h.slot], h.mark)
      BY <1>1, <1>3, <1>8 DEF Holds
    <2>2. Holds(mem[F!Slot(x, f)], flowClock)
      BY <1>1, <1>3, SlotFacts DEF Holds
    <2> QED
      BY <1>1, <1>5, <1>7, <2>1, <2>2 DEF TaskHeld
  <1>10. /\ loop' = [loop EXCEPT ![t] = u] /\ sup' = [sup EXCEPT ![t] = mem]
         /\ UNCHANGED <<flowClock, flowHits>>
    BY <1>2, <1>4, <1>6 DEF F!Detect
  <1> QED
    BY <1>1, <1>3, <1>7, <1>9, <1>10, OneTaskMoves DEF FlowTasks

LEMMA EvictKeeps == ASSUME FlowsInv, NEW t \in F!Tasks, F!EvictOld(t) PROVE FlowsInv'
  <1>1. /\ loop[t] \in FlowTasks(flowHits) /\ sup[t] \in [F!Slots -> Nat \cup {NoTime}]
        /\ flowClock \in Nat /\ TaskHeld(loop[t], sup[t])
        /\ \A h \in flowHits : RowFits(h)
    BY TaskHeldEach DEF FlowsInv, FlowTypes
  <1>2. PICK mem : mem = [s \in F!Slots |-> IF F!InWindow(sup[t][s], Day) THEN sup[t][s] ELSE NoTime]
    OBVIOUS
  <1>3. mem \in [F!Slots -> Nat \cup {NoTime}]
    BY <1>1, <1>2
  <1>4. \A h \in flowHits : Holds(sup[t][h.slot], h.mark) =>
          Holds(mem[h.slot], h.mark) \/ flowClock - h.mark >= Day
    BY <1>1, <1>2, FlowsAssumption DEF Holds, RowFits, F!InWindow
  <1>5. loop[t].own \subseteq flowHits /\ loop[t].loaded \subseteq flowHits /\ loop[t].pc = "idle"
    BY <1>1 DEF FlowTasks, F!EvictOld
  <1>6. TaskHeld(loop[t], mem)
    BY <1>1, <1>4, <1>5 DEF TaskHeld
  <1>7. /\ loop' = [loop EXCEPT ![t] = loop[t]] /\ sup' = [sup EXCEPT ![t] = mem]
        /\ UNCHANGED <<flowClock, flowHits>>
    BY <1>2 DEF F!EvictOld, FlowsInv, FlowTypes
  <1> QED
    BY <1>1, <1>3, <1>6, <1>7, OneTaskMoves DEF FlowTasks

LEMMA EmitKeeps == ASSUME FlowsInv, NEW t \in F!Tasks, F!Emit(t) PROVE FlowsInv'
  <1>1. /\ loop[t] \in FlowTasks(flowHits) /\ sup[t] \in [F!Slots -> Nat \cup {NoTime}]
        /\ flowClock \in Nat /\ TaskHeld(loop[t], sup[t])
        /\ \A h \in flowHits : RowFits(h)
    BY TaskHeldEach DEF FlowsInv, FlowTypes
  <1>2. PICK v : v = loop[t].told
    OBVIOUS
  <1>3. /\ v \in Tellings /\ v.mark <= flowClock
        /\ Holds(sup[t][F!Slot(v.d, v.f)], v.mark)
    BY <1>1, <1>2 DEF F!Emit, TaskHeld
  <1>4. PICK done : done = [loop[t] EXCEPT !.pc = "run", !.told = NoTask]
    OBVIOUS
  <1>5. /\ done \in FlowTasks(flowHits) /\ done.pc = "run" /\ done.own = loop[t].own
        /\ done.loaded = loop[t].loaded
    BY <1>1, <1>4 DEF FlowTasks
  <1>6. /\ sup' = [sup EXCEPT ![t] = sup[t]] /\ UNCHANGED flowClock
    BY DEF F!Emit, FlowsInv, FlowTypes
  <1>7. CASE loop' = [loop EXCEPT ![t] = done] /\ UNCHANGED flowHits
    <2>1. TaskHeld(done, sup[t])
      BY <1>1, <1>5 DEF TaskHeld
    <2> QED
      BY <1>1, <1>5, <1>6, <1>7, <2>1, OneTaskMoves DEF FlowTasks
  <1>8. ASSUME flowHits' = flowHits \cup {F!RowOf(v)},
               loop' = [loop EXCEPT ![t] = [done EXCEPT !.own = @ \cup {F!RowOf(v)}]]
        PROVE  FlowsInv'
    <2>1. PICK h : h = F!RowOf(v)
      OBVIOUS
    <2>2. /\ v.d \in F!Detectors /\ v.f \in F!Findings(v.d) /\ v.mark \in Nat
      BY <1>3 DEF Tellings
    <2>3. RowFits(h) /\ h.slot = F!Slot(v.d, v.f) /\ h.mark = v.mark
      BY <1>1, <1>3, <2>1, <2>2, SlotFacts DEF F!RowOf, RowFits
    <2>b. flowHits' = flowHits \cup {h}
      BY <1>8, <2>1, Zenon
    <2>4. \A x \in flowHits' : RowFits(x)
      BY <1>1, <2>b, <2>3
    <2>a. done.own \subseteq flowHits /\ done.loaded \subseteq flowHits
      BY <1>5 DEF FlowTasks
    <2>c. done.own \cup {h} \subseteq flowHits' /\ done.loaded \subseteq flowHits'
      BY <2>a, <2>b
    <2>5. PICK u : u = [done EXCEPT !.own = @ \cup {h}]
      OBVIOUS
    <2>6. /\ u \in FlowTasks(flowHits')
          /\ u.pc = "run" /\ u.own = loop[t].own \cup {h} /\ u.loaded = loop[t].loaded
      <3>1. u = [pc |-> "run", own |-> done.own \cup {h}, loaded |-> done.loaded, told |-> done.told]
        BY <1>5, <2>5 DEF FlowTasks
      <3>2. done.told \in Tellings \cup {NoTask}
        BY <1>5 DEF FlowTasks
      <3>3. u \in FlowTasks(flowHits')
        BY <2>c, <3>1, <3>2 DEF FlowTasks
      <3>4. u.pc = "run" /\ u.own = loop[t].own \cup {h} /\ u.loaded = loop[t].loaded
        BY <1>5, <3>1
      <3> QED
        BY <3>3, <3>4, Zenon
    <2>7. TaskHeld(u, sup[t])
      BY <1>1, <1>3, <2>3, <2>6 DEF TaskHeld
    <2>8. flowHits \subseteq flowHits'
      BY <2>b
    <2>9. loop' = [loop EXCEPT ![t] = u]
      BY <1>8, <2>1, <2>5
    <2> QED
      BY <1>1, <1>6, <2>4, <2>6, <2>7, <2>8, <2>9, OneTaskMoves, Zenon
  <1> QED
    BY <1>2, <1>4, <1>7, <1>8 DEF F!Emit

LEMMA RestartKeeps == ASSUME FlowsInv, NEW e \in FlowEngines, F!Restart(e) PROVE FlowsInv'
  <1> DEFINE Gone(t) == loop'[t] = F!Started /\ sup'[t] = F!Empty
             Kept0(t) == loop'[t] = loop[t] /\ sup'[t] = sup[t]
  <1>1. /\ \A t \in F!Tasks : Gone(t) \/ Kept0(t)
        /\ loop' \in [F!Tasks -> FlowTasks(flowHits)]
        /\ sup' \in [F!Tasks -> [F!Slots -> Nat \cup {NoTime}]]
        /\ UNCHANGED <<flowClock, flowHits>>
    BY DEF F!Restart, FlowsInv, FlowTypes, F!Started, F!Empty, FlowTasks
  <1>2. \A t \in F!Tasks : TaskHeld(loop'[t], sup'[t])
    BY <1>1, TaskHeldEach DEF F!Started, TaskHeld
  <1>3. FlowTypes'
    <2>1. \A h \in flowHits : RowFits(h)'
      BY <1>1 DEF FlowsInv, FlowTypes, RowFits
    <2>2. \A x \in F!Tasks : loop'[x].pc = "start" => loop'[x].own = {} /\ loop'[x].loaded = {}
      BY <1>2 DEF TaskHeld
    <2>3. FlowTasks(flowHits') = FlowTasks(flowHits)
      BY <1>1 DEF FlowTasks
    <2> QED
      BY <1>1, <2>1, <2>2, <2>3 DEF FlowsInv, FlowTypes
  <1>4. OwnHeld' /\ LoadedHeld' /\ TellingHeld'
    BY <1>1, <1>2 DEF OwnHeld, LoadedHeld, TellingHeld, TaskHeld
  <1> QED
    BY <1>3, <1>4 DEF FlowsInv

LEMMA FlowsStep == FlowsInv /\ [F!Next]_F!vars => FlowsInv'
  <1> SUFFICES ASSUME FlowsInv, [F!Next]_F!vars PROVE FlowsInv'
    OBVIOUS
  <1>1. flowClock \in Nat
    BY DEF FlowsInv, FlowTypes
  <1>2. ASSUME NEW t \in F!Tasks, F!Begin(t) \/ F!End(t) PROVE FlowsInv'
    BY <1>1, <1>2, RoundKeeps DEF F!Begin, F!End
  <1>3. ASSUME NEW e \in FlowEngines, F!Elected(e) PROVE FlowsInv'
    BY <1>1, <1>3, RoundKeeps DEF F!Elected
  <1>4. ASSUME F!Tick PROVE FlowsInv'
    BY <1>1, <1>4, RoundKeeps DEF F!Tick
  <1>5. CASE UNCHANGED F!vars
    BY <1>1, <1>5, RoundKeeps DEF F!vars
  <1>6. CASE F!Next
    BY <1>2, <1>3, <1>4, <1>6, LoadKeeps, EvictKeeps, EmitKeeps, DetectKeeps, RestartKeeps, Zenon
       DEF F!Next
  <1> QED
    BY <1>5, <1>6

LEMMA FlowsAlways == F!Spec => []FlowsInv
  BY FlowsInit, FlowsStep, PTL DEF F!Spec

(* For any engines, sources, targets and detectors, with windows that end  *)
(* within the day of EvictOld: a task never tells again, within the window *)
(* of a finding, of what it has stored since its start, nor, of a source   *)
(* alone, of a hit that it loaded.                                         *)
THEOREM KnownStaysQuiet == F!Spec => KnownIsQuiet
  <1> DEFINE Quiet == \A t \in F!Tasks : F!Decides(t) =>
                        /\ F!Repeats(t) \cap loop[t].own = {}
                        /\ loop'[t].told.d.names = "source" =>
                             F!Repeats(t) \cap loop[t].loaded = {}
  <1>1. FlowsInv /\ [F!Next]_F!vars => [Quiet]_F!vars
    <2> SUFFICES ASSUME FlowsInv, F!Next, NEW t \in F!Tasks, F!Decides(t)
                 PROVE  /\ F!Repeats(t) \cap loop[t].own = {}
                        /\ loop'[t].told.d.names = "source" =>
                             F!Repeats(t) \cap loop[t].loaded = {}
      OBVIOUS
    <2>a. PICK x \in F!Detectors : \E f \in F!Findings(x) : F!Detect(t, x, f)
      <3>1. /\ loop[t].pc = "run" /\ loop'[t].pc = "emit" /\ loop[t] \in FlowTasks(flowHits)
            /\ loop \in [F!Tasks -> FlowTasks(flowHits)]
        BY DEF F!Decides, FlowsInv, FlowTypes
      <3>2. ASSUME NEW y \in F!Tasks,
                   F!Load(y) \/ F!Begin(y) \/ F!End(y) \/ F!EvictOld(y) \/ F!Emit(y)
            PROVE  FALSE
        BY <3>1, <3>2 DEF F!Load, F!Begin, F!End, F!EvictOld, F!Emit, FlowTasks
      <3>3. ASSUME NEW e \in FlowEngines, F!Restart(e) \/ F!Elected(e) PROVE FALSE
        BY <3>1, <3>3 DEF F!Restart, F!Elected, F!Started
      <3>4. ~ F!Tick
        BY <3>1 DEF F!Tick
      <3>5. ASSUME NEW y \in F!Tasks, NEW x \in F!Detectors, NEW f \in F!Findings(x),
                   F!Detect(y, x, f)
            PROVE  y = t
        BY <3>1, <3>5 DEF F!Detect
      <3> QED
        BY <3>2, <3>3, <3>4, <3>5, Zenon DEF F!Next
    <2>1. PICK f \in F!Findings(x) : F!Detect(t, x, f)
      BY <2>a
    <2>2. /\ loop'[t].told.d = x /\ loop'[t].told.f = f
          /\ ~ F!InWindow(sup[t][F!Slot(x, f)], x.window)
      <3>1. loop[t] \in FlowTasks(flowHits)
        BY DEF FlowsInv, FlowTypes
      <3> QED
        BY <2>1, <3>1 DEF F!Detect, F!Suppressed, FlowsInv, FlowTypes, FlowTasks
    <2>3. ASSUME NEW h \in flowHits, h.slot = F!Slot(x, f), flowClock - h.mark < x.window
          PROVE  ~ (Holds(sup[t][h.slot], h.mark) \/ flowClock - h.mark >= Day)
      <3>1. h.mark \in Nat /\ flowClock \in Nat /\ x.window \in Nat /\ x.window <= Day
        BY DetectorFacts DEF FlowsInv, FlowTypes, RowFits
      <3> QED
        BY <2>2, <2>3, <3>1, FlowsAssumption DEF Holds, F!InWindow
    <2>4. TaskHeld(loop[t], sup[t]) /\ loop[t].own \subseteq flowHits /\ loop[t].loaded \subseteq flowHits
      BY TaskHeldEach DEF FlowsInv, FlowTypes, FlowTasks
    <2>5. ASSUME NEW h \in loop[t].loaded, h.slot = F!Slot(x, f), x.names = "source"
          PROVE  F!DetectorOf(h.tag).names = "source"
      <3>1. PICK y \in F!Detectors : /\ h.tag = y.tag
                                     /\ \E z \in F!Findings(y) : h.slot = F!Slot(y, z)
        BY <2>4 DEF FlowsInv, FlowTypes, RowFits
      <3>a. PICK z \in F!Findings(y) : F!Slot(y, z) = F!Slot(x, f)
        BY <2>5, <3>1
      <3>2. y = x
        BY <2>a, <2>1, <3>1, <3>a, SlotFacts, Zenon
      <3>3. F!DetectorOf(h.tag) = x
        BY <3>1, <3>2, DetectorFacts DEF F!DetectorOf
      <3> QED
        BY <2>5, <3>3
    <2>6. F!Repeats(t) \cap loop[t].own = {}
      BY <2>2, <2>3, <2>4 DEF F!Repeats, TaskHeld
    <2>7. loop'[t].told.d.names = "source" => F!Repeats(t) \cap loop[t].loaded = {}
      BY <2>2, <2>3, <2>4, <2>5 DEF F!Repeats, TaskHeld
    <2> QED
      BY <2>6, <2>7
  <1> QED
    BY FlowsAlways, <1>1, PTL DEF F!Spec, KnownIsQuiet, F!KnownIsQuiet

-----------------------------------------------------------------------------
(* Assets.                                                                 *)

(* The number of an insert tells its row from the others, and the row of a *)
(* task is of the task's address.                                          *)
RowsApart ==
  /\ IsFiniteSet(rows) /\ rows \subseteq AssetRows
  /\ \A r \in rows : r.seen <= assetClock /\ r.seq <= Cardinality(rows)
  /\ \A q, r \in rows : q.seq = r.seq => q = r
HasRow(u, at) == u.row \in AssetRows /\ u.row.ip = u.ip /\ u.row.seen <= at
JobFits(u, at) ==
  /\ u.kind = "trust" => u.value \in BOOLEAN
  /\ u.kind = "name" => u.value \in Names
  /\ u.pc = "write" \/ u.kind \in {"dhcp", "flush"} => HasRow(u, at)
  /\ u.pc = "read" /\ u.kind \in {"dhcp", "flush"} => ~ u.row.trusted
HashFits == hash \in [Ips -> [mac : Macs \cup {NoMac}, seen : Nat]]
            /\ \A x \in Ips : hash[x].seen <= assetClock
WritersFit == job \in [Jobs -> AssetJobs \cup {NoJob}]
              /\ \A j \in Jobs : job[j] # NoJob => JobFits(job[j], assetClock)
WantedFits == wanted \in [Ips -> [trusted : BOOLEAN, name : Names \cup {NoName}]]
              /\ unclear \subseteq Ips
AssetTypes == assetClock \in Nat /\ HashFits /\ WritersFit /\ WantedFits

(* Every address that has rows has a newest one.                           *)
Rows(x) == {r \in rows : r.ip = x}
Top(x, r) == r \in Rows(x) /\ \A q \in Rows(x) \ {r} : A!Newer(r, q)
Topped == \A x \in Ips : Rows(x) # {} => \E r \in rows : Top(x, r)

(* It says what the user said, and so does the row of every task that has  *)
(* read but not inserted; a row with trust of its own will be the newest.  *)
TrustHeld ==
  \A x \in Ips \ unclear :
    /\ Rows(x) = {} => ~ wanted[x].trusted
    /\ \A r \in rows : Top(x, r) => r.trusted = wanted[x].trusted
TrustComes(u) ==
  IF u.kind = "trust"
  THEN /\ u.row.trusted = u.value
       /\ \A q \in Rows(u.ip) : q.seen <= u.row.seen
  ELSE u.row.trusted = wanted[u.ip].trusted
Waits(u, un) == u # NoJob /\ u.pc = "write" /\ ~ u.stale /\ u.ip \notin un
Pending == \A j \in Jobs : Waits(job[j], unclear) => TrustComes(job[j])

AssetInv == RowsApart /\ AssetTypes /\ Topped /\ TrustHeld /\ Pending

LEMMA SameCardinality == \A S : A!Cardinality(S) = Cardinality(S)
  BY DEF A!Cardinality, Cardinality

(* The table shows the newest row of an address, or that there is none.    *)
LEMMA ByIpFacts ==
  ASSUME RowsApart, Topped, NEW x \in Ips
  PROVE  /\ Rows(x) = {} => A!ByIp(x) = NoRow
         /\ Rows(x) # {} => Top(x, A!ByIp(x)) /\ A!ByIp(x) \in rows /\ A!ByIp(x) # NoRow
         /\ \A r : Top(x, r) => A!ByIp(x) = r
  <1>1. CASE Rows(x) = {}
    BY <1>1 DEF A!ByIp, Rows, Top
  <1>2. CASE Rows(x) # {}
    <2>1. PICK r \in rows : Top(x, r)
      BY <1>2 DEF Topped
    <2>2. ASSUME NEW q, Top(x, q) PROVE q = r
      <3>1. q \in AssetRows /\ r \in AssetRows
        BY <2>1, <2>2 DEF RowsApart, Top, Rows
      <3>2. q # r => A!Newer(r, q) /\ A!Newer(q, r)
        BY <2>1, <2>2 DEF Top
      <3>3. ~ (A!Newer(r, q) /\ A!Newer(q, r))
        BY <3>1 DEF A!Newer, AssetRows
      <3> QED
        BY <3>2, <3>3
    <2>3. A!ByIp(x) = CHOOSE q \in Rows(x) : \A z \in Rows(x) \ {q} : A!Newer(q, z)
      BY <1>2 DEF A!ByIp, Rows
    <2>4. Top(x, A!ByIp(x))
      BY <2>1, <2>3 DEF Top
    <2>5. A!ByIp(x) = r
      BY <2>2, <2>4
    <2>6. r # NoRow
      BY <2>1, AssetsAssumption DEF RowsApart
    <2> QED
      BY <1>2, <2>1, <2>2, <2>4, <2>5, <2>6
  <1> QED
    BY <1>1, <1>2

LEMMA AssetInit == A!Init => AssetInv
  <1> SUFFICES ASSUME A!Init PROVE AssetInv
    OBVIOUS
  <1>1. RowsApart
    BY FS_EmptySet DEF A!Init, RowsApart
  <1>2. AssetTypes
    BY DEF A!Init, AssetTypes, HashFits, WritersFit, WantedFits, A!NoEntry
  <1>3. Topped /\ TrustHeld /\ Pending
    BY DEF A!Init, Topped, TrustHeld, Pending, Waits, Rows
  <1> QED
    BY <1>1, <1>2, <1>3 DEF AssetInv

(* Time passes, packets come, a task begins, reads or ends without an      *)
(* insert.                                                                 *)
LEMMA TableStays ==
  ASSUME AssetInv, UNCHANGED <<rows, wanted>>,
         unclear \subseteq unclear', unclear' \subseteq Ips,
         assetClock' \in Nat, assetClock <= assetClock', HashFits',
         job' \in [Jobs -> AssetJobs \cup {NoJob}],
         \A j \in Jobs : job'[j] \notin {job[j], NoJob} =>
           JobFits(job'[j], assetClock) /\ (Waits(job'[j], unclear') => TrustComes(job'[j]))
  PROVE  AssetInv'
  <1>1. /\ \A x : Rows(x)' = Rows(x)
        /\ \A x, y : Top(x, y)' = Top(x, y)
        /\ \A u : TrustComes(u)' <=> TrustComes(u)
    BY DEF Rows, Top, TrustComes, A!Newer
  <1>2. \A u \in AssetJobs : JobFits(u, assetClock) => JobFits(u, assetClock')
    <2> SUFFICES ASSUME NEW u \in AssetJobs, JobFits(u, assetClock)
                 PROVE  JobFits(u, assetClock')
      OBVIOUS
    <2>1. HasRow(u, assetClock) => HasRow(u, assetClock')
      BY DEF HasRow, AssetRows, AssetInv, AssetTypes
    <2> QED
      BY <2>1 DEF JobFits
  <1>3. RowsApart'
    BY DEF AssetInv, AssetTypes, RowsApart, AssetRows
  <1>4. WritersFit'
    <2> SUFFICES ASSUME NEW j \in Jobs, job'[j] # NoJob PROVE JobFits(job'[j], assetClock')
      BY DEF WritersFit
    <2>1. job'[j] \in AssetJobs
      OBVIOUS
    <2>2. JobFits(job'[j], assetClock)
      BY DEF AssetInv, AssetTypes, WritersFit
    <2> QED
      BY <1>2, <2>1, <2>2
  <1>5. AssetTypes'
    BY <1>4 DEF AssetInv, AssetTypes, WantedFits
  <1>6. Topped' /\ TrustHeld'
    BY <1>1 DEF AssetInv, Topped, TrustHeld
  <1>7. Pending'
    <2> SUFFICES ASSUME NEW j \in Jobs, Waits(job'[j], unclear') PROVE TrustComes(job'[j])
      BY <1>1 DEF Pending, Waits, TrustComes
    <2>1. CASE job'[j] = job[j]
      BY <2>1 DEF AssetInv, Pending, Waits
    <2> QED
      BY <2>1 DEF Waits
  <1> QED
    BY <1>3, <1>5, <1>6, <1>7 DEF AssetInv

LEMMA FreshRow ==
  ASSUME AssetInv, NEW x \in Ips, NEW m \in Macs \cup {NoMac}
  PROVE  /\ A!Fresh(x, m) \in AssetRows /\ A!Fresh(x, m).ip = x
         /\ A!Fresh(x, m).seen = assetClock /\ A!Fresh(x, m).trusted = FALSE
  BY DEF A!Fresh, AssetRows, AssetInv, AssetTypes

LEMMA StartKeeps ==
  ASSUME AssetInv, NEW j \in Jobs, NEW kind \in A!Kinds, NEW x \in Ips,
         NEW u \in AssetRows \cup {NoRow}, NEW value \in BOOLEAN \cup Names \cup {NoName},
         kind = "trust" => value \in BOOLEAN, kind = "name" => value \in Names,
         kind \in {"dhcp", "flush"} =>
           (u \in AssetRows /\ u.ip = x /\ u.seen <= assetClock /\ ~ u.trusted),
         A!Start(j, kind, x, u, value), UNCHANGED hash
  PROVE  AssetInv'
  <1>1. PICK v : v = [pc |-> "read", kind |-> kind, ip |-> x, row |-> u, value |-> value,
                      stale |-> FALSE]
    OBVIOUS
  <1>2. v \in AssetJobs
    BY <1>1 DEF AssetJobs
  <1>3. JobFits(v, assetClock) /\ ~ Waits(v, unclear')
    BY <1>1 DEF JobFits, HasRow, Waits
  <1>4. job' = [job EXCEPT ![j] = v] /\ UNCHANGED <<assetClock, rows, wanted, unclear>>
    BY <1>1 DEF A!Start
  <1>5. /\ job' \in [Jobs -> AssetJobs \cup {NoJob}]
        /\ \A i \in Jobs : job'[i] = job[i] \/ job'[i] = v
    BY <1>2, <1>4 DEF AssetInv, AssetTypes, WritersFit
  <1>6. HashFits' /\ unclear' \subseteq Ips /\ assetClock' \in Nat /\ assetClock <= assetClock'
    BY <1>4 DEF AssetInv, AssetTypes, HashFits, WantedFits
  <1> QED
    BY <1>3, <1>4, <1>5, <1>6, TableStays

LEMMA BeginKeeps ==
  ASSUME AssetInv, NEW j \in Jobs, NEW x \in Ips,
         \/ \E m \in Macs : A!StartDhcp(j, x, m)
         \/ \E kind \in A!Kinds : A!StartOther(j, kind, x)
         \/ \E b \in BOOLEAN : A!StartTrust(j, x, b)
         \/ \E z \in Names : A!StartName(j, x, z)
         \/ A!StartFlush(j, x)
  PROVE  AssetInv'
  <1>0. assetClock \in Nat
    BY DEF AssetInv, AssetTypes
  <1>1. ASSUME NEW m \in Macs, A!StartDhcp(j, x, m) PROVE AssetInv'
    <2>1. PICK u : u = A!Fresh(x, m)
      OBVIOUS
    <2>2. u \in AssetRows /\ u.ip = x /\ u.seen = assetClock /\ u.trusted = FALSE
      BY <2>1, FreshRow, Zenon
    <2>3. A!Start(j, "dhcp", x, u, NoName) /\ UNCHANGED hash
      BY <1>1, <2>1 DEF A!StartDhcp
    <2> QED
      BY <1>0, <2>2, <2>3, StartKeeps DEF A!Kinds
  <1>2. ASSUME NEW kind \in A!Kinds, A!StartOther(j, kind, x) PROVE AssetInv'
    BY <1>2, StartKeeps DEF A!StartOther
  <1>3. ASSUME NEW b \in BOOLEAN, A!StartTrust(j, x, b) PROVE AssetInv'
    BY <1>3, StartKeeps DEF A!StartTrust, A!Kinds
  <1>4. ASSUME NEW z \in Names, A!StartName(j, x, z) PROVE AssetInv'
    BY <1>4, StartKeeps DEF A!StartName, A!Kinds
  <1>5. ASSUME A!StartFlush(j, x) PROVE AssetInv'
    <2>1. PICK h : h = hash[x]
      OBVIOUS
    <2>2. h \in [mac : Macs \cup {NoMac}, seen : Nat] /\ h.seen <= assetClock
      BY <2>1 DEF AssetInv, AssetTypes, HashFits
    <2>3. PICK w : w = A!Fresh(x, h.mac)
      OBVIOUS
    <2>4. w \in AssetRows /\ w.ip = x /\ w.trusted = FALSE
      BY <2>2, <2>3, FreshRow
    <2>5. PICK u : u = [w EXCEPT !.seen = h.seen]
      OBVIOUS
    <2>6. u \in AssetRows /\ u.ip = x /\ u.seen <= assetClock /\ u.trusted = FALSE
      BY <2>2, <2>4, <2>5 DEF AssetRows
    <2>7. A!Start(j, "flush", x, u, NoName) /\ UNCHANGED hash
      BY <1>5, <2>1, <2>3, <2>5 DEF A!StartFlush
    <2> QED
      BY <2>6, <2>7, StartKeeps DEF A!Kinds
  <1> QED
    BY <1>1, <1>2, <1>3, <1>4, <1>5, Zenon

LEMMA PacketKeeps ==
  ASSUME AssetInv, NEW x \in Ips, (\E m \in Macs : A!Arp(x, m)) \/ A!Expire(x)
  PROVE  AssetInv'
  <1>1. PICK h \in [mac : Macs \cup {NoMac}, seen : Nat] :
          /\ hash' = [hash EXCEPT ![x] = h] /\ h.seen <= assetClock
          /\ UNCHANGED <<assetClock, rows, job, wanted, unclear>>
    BY DEF A!Arp, A!Expire, A!NoEntry, AssetInv, AssetTypes
  <1>2. HashFits'
    BY <1>1 DEF AssetInv, AssetTypes, HashFits
  <1>3. /\ job' \in [Jobs -> AssetJobs \cup {NoJob}] /\ unclear' \subseteq Ips
        /\ assetClock' \in Nat /\ assetClock <= assetClock'
    BY <1>1 DEF AssetInv, AssetTypes, WritersFit, WantedFits
  <1> QED
    BY <1>1, <1>2, <1>3, TableStays

LEMMA ClockKeeps == ASSUME AssetInv, A!Tick PROVE AssetInv'
  <1>1. HashFits'
    BY DEF A!Tick, AssetInv, AssetTypes, HashFits
  <1>2. /\ job' \in [Jobs -> AssetJobs \cup {NoJob}] /\ unclear' \subseteq Ips
        /\ assetClock' \in Nat /\ assetClock <= assetClock'
    BY DEF A!Tick, AssetInv, AssetTypes, WritersFit, WantedFits
  <1> QED
    BY <1>1, <1>2, TableStays DEF A!Tick
(* What a writer inserts of the row r it read.                             *)
LEMMA WrittenFacts ==
  ASSUME AssetInv, NEW j \in Jobs, job[j] # NoJob, job[j].pc = "read",
         NEW r \in AssetRows \cup {NoRow}, r = NoRow => A!Creates(job[j].kind),
         r # NoRow /\ job[j].kind # "dhcp" => r.ip = job[j].ip, r # NoRow => r.seen <= assetClock
  PROVE  LET w == A!Written(j, r)
         IN  /\ w \in AssetRows /\ w.ip = job[j].ip /\ w.seen <= assetClock
             /\ r = NoRow => w.trusted = FALSE
             /\ (r # NoRow /\ job[j].kind # "trust") => w.trusted = r.trusted
             /\ job[j].kind = "trust" => w.trusted = job[j].value /\ w.seen = assetClock
  <1>1. PICK u \in AssetJobs : u = job[j] /\ JobFits(u, assetClock)
    BY DEF AssetInv, AssetTypes, WritersFit
  <1>2. /\ u.kind = "trust" => u.value \in BOOLEAN
        /\ u.kind = "name" => u.value \in Names
        /\ u.kind \in {"dhcp", "flush"} =>
             (u.row \in AssetRows /\ u.row.ip = u.ip /\ u.row.seen <= assetClock /\ ~ u.row.trusted)
        /\ u.ip \in Ips /\ u.kind \in A!Kinds /\ assetClock \in Nat
    BY <1>1 DEF JobFits, HasRow, AssetJobs, AssetInv, AssetTypes
  <1>3. CASE r = NoRow /\ u.kind = "seen"
    <2>1. PICK w : w = A!Fresh(u.ip, NoMac)
      OBVIOUS
    <2>2. w \in AssetRows /\ w.ip = u.ip /\ w.seen = assetClock /\ w.trusted = FALSE
      BY <1>2, <2>1, FreshRow, Zenon
    <2>3. A!Written(j, r) = w
      BY <1>1, <1>3, <2>1 DEF A!Written, A!LastSeen
    <2> QED
      BY <1>1, <1>2, <1>3, <2>2, <2>3
  <1>4. CASE r = NoRow /\ u.kind \in {"dhcp", "flush"}
    BY <1>1, <1>2, <1>4 DEF A!Written, A!Dhcp, A!Flush, AssetRows
  <1>5. CASE r # NoRow /\ u.kind = "dhcp"
    BY <1>1, <1>2, <1>5 DEF A!Written, A!Dhcp, A!Keep, AssetRows
  <1>6. CASE r # NoRow /\ u.kind = "flush"
    BY <1>1, <1>2, <1>6 DEF A!Written, A!Flush, A!Keep, AssetRows
  <1>7. CASE r # NoRow /\ u.kind = "trust"
    <2>1. PICK w : w = [r EXCEPT !.trusted = u.value,
                                 !.flagged = IF u.value THEN FALSE ELSE @, !.seen = assetClock]
      OBVIOUS
    <2>2. w \in AssetRows /\ w.ip = u.ip /\ w.seen = assetClock /\ w.trusted = u.value
      BY <1>1, <1>2, <1>7, <2>1 DEF AssetRows
    <2>3. A!Written(j, r) = w
      BY <1>1, <1>7, <2>1 DEF A!Written, A!SetTrusted
    <2> QED
      BY <1>1, <1>2, <1>7, <2>2, <2>3
  <1>8. CASE r # NoRow /\ u.kind = "seen"
    BY <1>1, <1>2, <1>8 DEF A!Written, A!LastSeen, AssetRows
  <1>10. CASE r # NoRow /\ u.kind = "learn"
    <2>1. PICK w : w = [r EXCEPT !.learned = TRUE, !.seen = assetClock]
      OBVIOUS
    <2>2. w \in AssetRows /\ w.ip = u.ip /\ w.seen = assetClock /\ w.trusted = r.trusted
      BY <1>1, <1>2, <1>10, <2>1 DEF AssetRows
    <2>3. A!Written(j, r) = w
      BY <1>1, <1>10, <2>1 DEF A!Written, A!Learned
    <2> QED
      BY <1>1, <1>2, <1>10, <2>2, <2>3
  <1>11. CASE r # NoRow /\ u.kind = "enrich"
    BY <1>1, <1>2, <1>11 DEF A!Written, A!Enriched, AssetRows
  <1>12. CASE r # NoRow /\ u.kind = "name"
    <2>1. PICK w : w = [r EXCEPT !.name = u.value, !.seen = assetClock]
      OBVIOUS
    <2>2. w \in AssetRows /\ w.ip = u.ip /\ w.seen = assetClock /\ w.trusted = r.trusted
      BY <1>1, <1>2, <1>12, <2>1 DEF AssetRows
    <2>3. A!Written(j, r) = w
      BY <1>1, <1>12, <2>1 DEF A!Written, A!SetName
    <2> QED
      BY <1>1, <1>2, <1>12, <2>2, <2>3
  <1>9. r = NoRow => u.kind \in {"dhcp", "flush", "seen"}
    BY <1>1 DEF A!Creates
  <1> QED
    BY <1>1, <1>2, <1>3, <1>4, <1>5, <1>6, <1>7, <1>8, <1>9, <1>10, <1>11, <1>12
    DEF A!Kinds
(* The read: what it found is what the address is shown as, or the address *)
(* changes hands.                                                          *)
LEMMA ReadFacts ==
  ASSUME AssetInv, NEW j \in Jobs, job[j] # NoJob, NEW r \in A!ReadBy(j)
  PROVE  /\ r \in rows \cup {NoRow}
         /\ job[j].kind # "dhcp" => r = A!ByIp(job[j].ip)
         /\ (r # NoRow /\ job[j].kind # "dhcp") => r.ip = job[j].ip
  <1>1. job[j].ip \in Ips
    BY DEF AssetInv, AssetTypes, WritersFit, AssetJobs
  <1>2. CASE job[j].kind = "dhcp"
    BY <1>2 DEF A!ReadBy, A!ByMac
  <1>3. CASE job[j].kind # "dhcp"
    <2>1. r = A!ByIp(job[j].ip)
      BY <1>3 DEF A!ReadBy
    <2>2. CASE Rows(job[j].ip) = {}
      BY <1>1, <1>3, <2>1, <2>2, ByIpFacts DEF AssetInv
    <2>3. CASE Rows(job[j].ip) # {}
      <3>1. Top(job[j].ip, r) /\ r \in rows
        BY <1>1, <2>1, <2>3, ByIpFacts DEF AssetInv
      <3> QED
        BY <1>3, <2>1, <3>1 DEF Top, Rows
    <2> QED
      BY <2>2, <2>3
  <1> QED
    BY <1>2, <1>3

LEMMA ReadKeeps == ASSUME AssetInv, NEW j \in Jobs, A!Read(j) PROVE AssetInv'
  <1>1. PICK r \in A!ReadBy(j) :
          IF r = NoRow /\ ~ A!Creates(job[j].kind)
          THEN job' = [job EXCEPT ![j] = NoJob] /\ UNCHANGED unclear
          ELSE /\ job' = [job EXCEPT ![j].pc = "write", ![j].row = A!Written(j, r)]
               /\ unclear' = IF A!ChangesHands(j, r) THEN unclear \cup {job[j].ip} ELSE unclear
    BY DEF A!Read
  <1>2. /\ job[j] # NoJob /\ job[j].pc = "read"
        /\ UNCHANGED <<assetClock, rows, hash, wanted>>
    BY DEF A!Read
  <1>3. PICK u \in AssetJobs : u = job[j] /\ JobFits(u, assetClock)
    BY <1>2 DEF AssetInv, AssetTypes, WritersFit
  <1>4. /\ job \in [Jobs -> AssetJobs \cup {NoJob}] /\ unclear \subseteq Ips
        /\ assetClock \in Nat /\ HashFits'
    BY <1>2 DEF AssetInv, AssetTypes, WritersFit, WantedFits, HashFits
  <1>5. CASE r = NoRow /\ ~ A!Creates(job[j].kind)
    <2>1. job' = [job EXCEPT ![j] = NoJob] /\ UNCHANGED unclear
      BY <1>1, <1>5
    <2>2. /\ job' \in [Jobs -> AssetJobs \cup {NoJob}]
          /\ \A i \in Jobs : job'[i] \in {job[i], NoJob}
      BY <1>4, <2>1
    <2> QED
      BY <1>2, <1>4, <2>1, <2>2, TableStays
  <1>6. CASE ~ (r = NoRow /\ ~ A!Creates(job[j].kind))
    <2>1. PICK w : w = A!Written(j, r)
      OBVIOUS
    <2>2. PICK v : v = [u EXCEPT !.pc = "write", !.row = w]
      OBVIOUS
    <2>3. job' = [job EXCEPT ![j] = v]
      BY <1>1, <1>3, <1>4, <1>6, <2>1, <2>2
    <2>4. unclear' = IF A!ChangesHands(j, r) THEN unclear \cup {u.ip} ELSE unclear
      BY <1>1, <1>3, <1>6
    <2>5. /\ r \in rows \cup {NoRow} /\ (u.kind # "dhcp" => r = A!ByIp(u.ip))
          /\ (r # NoRow /\ u.kind # "dhcp" => r.ip = u.ip)
      BY <1>1, <1>2, <1>3, ReadFacts
    <2>6. r \in AssetRows \cup {NoRow} /\ (r # NoRow => r.seen <= assetClock)
      BY <2>5 DEF AssetInv, RowsApart
    <2>7. /\ w \in AssetRows /\ w.ip = u.ip /\ w.seen <= assetClock
          /\ r = NoRow => w.trusted = FALSE
          /\ (r # NoRow /\ u.kind # "trust") => w.trusted = r.trusted
          /\ u.kind = "trust" => w.trusted = u.value /\ w.seen = assetClock
      BY <1>2, <1>3, <1>6, <2>1, <2>5, <2>6, WrittenFacts
    <2>8. /\ v \in AssetJobs /\ v.ip = u.ip /\ v.kind = u.kind /\ v.row = w /\ v.pc = "write"
          /\ v.value = u.value
      BY <2>2, <2>7 DEF AssetJobs
    <2>9. JobFits(v, assetClock)
      BY <1>3, <2>7, <2>8 DEF JobFits, HasRow
    <2>10. u.ip \in Ips
      BY DEF AssetJobs
    <2>11. ASSUME u.ip \notin unclear' PROVE TrustComes(v)
      <3>1. u.ip \notin unclear /\ r = A!ByIp(u.ip)
        BY <1>3, <2>4, <2>5, <2>11 DEF A!ChangesHands
      <3>2. CASE u.kind = "trust"
        <4>1. \A q \in Rows(u.ip) : q.seen <= assetClock
          BY DEF Rows, AssetInv, RowsApart
        <4> QED
          BY <2>7, <2>8, <3>2, <4>1 DEF TrustComes
      <3>3. CASE u.kind # "trust" /\ Rows(u.ip) = {}
        <4>1. r = NoRow /\ ~ wanted[u.ip].trusted
          BY <2>10, <3>1, <3>3, ByIpFacts DEF AssetInv, TrustHeld
        <4>2. wanted[u.ip].trusted \in BOOLEAN
          BY <2>10 DEF AssetInv, AssetTypes, WantedFits
        <4> QED
          BY <2>7, <2>8, <3>3, <4>1, <4>2 DEF TrustComes
      <3>4. CASE u.kind # "trust" /\ Rows(u.ip) # {}
        <4>1. r # NoRow /\ r \in rows /\ Top(u.ip, r)
          BY <2>10, <3>1, <3>4, ByIpFacts DEF AssetInv
        <4>2. r.trusted = wanted[u.ip].trusted
          BY <2>10, <3>1, <4>1 DEF AssetInv, TrustHeld
        <4> QED
          BY <2>7, <2>8, <3>4, <4>1, <4>2 DEF TrustComes
      <3> QED
        BY <3>2, <3>3, <3>4
    <2>12. /\ job' \in [Jobs -> AssetJobs \cup {NoJob}]
           /\ \A i \in Jobs : job'[i] \notin {job[i], NoJob} => job'[i] = v
      BY <1>4, <2>3, <2>8
    <2>13. unclear \subseteq unclear' /\ unclear' \subseteq Ips
      BY <1>4, <2>4, <2>10
    <2>14. Waits(v, unclear') => TrustComes(v)
      BY <2>8, <2>11 DEF Waits
    <2> QED
      BY <1>2, <1>4, <2>9, <2>12, <2>13, <2>14, TableStays
  <1> QED
    BY <1>5, <1>6
(* The insert: the row is apart from the others, and if it is not stale    *)
(* the newest row of the address still says what the user said.            *)
LEMMA NewerFacts ==
  ASSUME NEW p \in AssetRows, NEW q \in AssetRows, NEW r \in AssetRows
  PROVE  /\ ~ (A!Newer(p, q) /\ A!Newer(q, p))
         /\ A!Newer(p, q) /\ A!Newer(q, r) => A!Newer(p, r)
         /\ p.seq < q.seq => (A!Newer(q, p) <=> p.seen <= q.seen)
         /\ p.seq < q.seq => A!Newer(p, q) \/ A!Newer(q, p)
  BY DEF A!Newer, AssetRows

LEMMA InsertKeeps == ASSUME AssetInv, NEW j \in Jobs, A!Write(j) PROVE AssetInv'
  <1>1. job[j] # NoJob /\ job[j].pc = "write" /\ UNCHANGED <<assetClock, hash>>
    BY DEF A!Write
  <1>2. PICK u \in AssetJobs : u = job[j] /\ JobFits(u, assetClock) /\ HasRow(u, assetClock)
    BY <1>1 DEF AssetInv, AssetTypes, WritersFit, JobFits
  <1>3. PICK x \in Ips : x = u.ip
    BY DEF AssetJobs
  <1>4. PICK w : w = [u.row EXCEPT !.seq = Cardinality(rows) + 1]
    OBVIOUS
  <1>5. IsFiniteSet(rows) /\ Cardinality(rows) \in Nat /\ rows \subseteq AssetRows
    BY FS_CardinalityType DEF AssetInv, RowsApart
  <1>6. /\ w \in AssetRows /\ w.ip = x /\ w.seen <= assetClock /\ w.seen = u.row.seen
        /\ w.seq = Cardinality(rows) + 1 /\ w.trusted = u.row.trusted
    BY <1>2, <1>3, <1>4, <1>5 DEF HasRow, AssetRows
  <1>7. rows' = rows \cup {w}
    BY <1>2, <1>4, SameCardinality DEF A!Write, A!Insert
  <1>8. \A r \in rows : r.seq < w.seq
    BY <1>5, <1>6 DEF AssetInv, RowsApart, AssetRows
  <1>9. /\ wanted' = [wanted EXCEPT ![x] = A!Said(j)]
        /\ unclear' = IF u.stale THEN unclear \cup {x} ELSE unclear
    BY <1>2, <1>3 DEF A!Write
  <1>10. \A i \in Jobs :
           /\ i = j => job'[i] = NoJob
           /\ i # j /\ job[i] # NoJob /\ job[i].pc = "write" /\ job[i].ip = x =>
                job'[i] = [job[i] EXCEPT !.stale = TRUE]
           /\ i # j /\ ~ (job[i] # NoJob /\ job[i].pc = "write" /\ job[i].ip = x) =>
                job'[i] = job[i]
    BY <1>2, <1>3 DEF A!Write
  <1>11. \A y : Rows(y)' = IF y = x THEN Rows(y) \cup {w} ELSE Rows(y)
    BY <1>6, <1>7 DEF Rows
  <1>12. RowsApart'
    <2>1. w \notin rows
      BY <1>5, <1>6, <1>8
    <2>2. IsFiniteSet(rows') /\ Cardinality(rows') = Cardinality(rows) + 1
      BY <1>5, <1>7, <2>1, FS_AddElement
    <2>3. rows' \subseteq AssetRows
      BY <1>5, <1>6, <1>7
    <2>4. \A r \in rows' : r.seen <= assetClock' /\ r.seq <= Cardinality(rows')
      BY <1>1, <1>5, <1>6, <1>7, <2>2 DEF AssetInv, RowsApart, AssetRows
    <2>5. \A q, r \in rows' : q.seq = r.seq => q = r
      BY <1>5, <1>6, <1>7, <1>8 DEF AssetInv, RowsApart, AssetRows
    <2> QED
      BY <2>2, <2>3, <2>4, <2>5 DEF RowsApart
  <1>13. WritersFit'
    <2>1. \A i \in Jobs : job'[i] # NoJob =>
            (job'[i] \in AssetJobs /\ JobFits(job'[i], assetClock'))
      <3> SUFFICES ASSUME NEW i \in Jobs, job'[i] # NoJob
                   PROVE  job'[i] \in AssetJobs /\ JobFits(job'[i], assetClock')
        OBVIOUS
      <3>1. i # j /\ job[i] # NoJob
        BY <1>10
      <3>2. PICK v \in AssetJobs : v = job[i] /\ JobFits(v, assetClock)
        BY <3>1 DEF AssetInv, AssetTypes, WritersFit
      <3>3. PICK z : z = [v EXCEPT !.stale = TRUE]
        OBVIOUS
      <3>4. z \in AssetJobs /\ JobFits(z, assetClock)
        BY <3>2, <3>3 DEF AssetJobs, JobFits, HasRow
      <3>5. job'[i] \in {v, z}
        BY <1>10, <3>1, <3>2, <3>3
      <3> QED
        BY <1>1, <3>2, <3>4, <3>5
    <2>2. job' = [i \in Jobs |-> job'[i]]
      BY DEF A!Write
    <2> QED
      BY <2>1, <2>2 DEF WritersFit
  <1>14. WantedFits'
    <2>1. PICK s : s = wanted[x]
      OBVIOUS
    <2>2. s \in [trusted : BOOLEAN, name : Names \cup {NoName}]
      BY <2>1 DEF AssetInv, AssetTypes, WantedFits
    <2>3. A!Said(j) \in [trusted : BOOLEAN, name : Names \cup {NoName}]
      <3>1. CASE u.kind = "trust"
        <4>1. A!Said(j) = [s EXCEPT !.trusted = u.value] /\ u.value \in BOOLEAN
          BY <1>2, <1>3, <2>1, <3>1 DEF A!Said, JobFits
        <4> QED
          BY <2>2, <4>1
      <3>2. CASE u.kind = "name"
        <4>1. A!Said(j) = [s EXCEPT !.name = u.value] /\ u.value \in Names
          BY <1>2, <1>3, <2>1, <3>2 DEF A!Said, JobFits
        <4> QED
          BY <2>2, <4>1
      <3>3. CASE u.kind \notin {"trust", "name"}
        <4>1. A!Said(j) = s
          BY <1>2, <1>3, <2>1, <3>3 DEF A!Said
        <4> QED
          BY <2>2, <4>1
      <3> QED
        BY <3>1, <3>2, <3>3
    <2> QED
      BY <1>9, <2>3 DEF AssetInv, AssetTypes, WantedFits
  <1>15. HashFits' /\ assetClock' \in Nat
    BY <1>1 DEF AssetInv, AssetTypes, HashFits
  <1>16. \A y, r : y # x => (Top(y, r)' <=> Top(y, r))
    BY <1>11 DEF Top, A!Newer
  <1>17. \A r \in Rows(x) : r \in AssetRows /\ r \in rows /\ (A!Newer(w, r) <=> r.seen <= w.seen)
                         /\ (A!Newer(w, r) \/ A!Newer(r, w)) /\ r # w
    BY <1>5, <1>6, <1>8, NewerFacts DEF Rows, AssetRows
  <1>18. Top(x, w)' <=> \A r \in Rows(x) : A!Newer(w, r)
    BY <1>11, <1>17 DEF Top, A!Newer
  <1>19. \A r : r # w => (Top(x, r)' <=> Top(x, r) /\ A!Newer(r, w))
    BY <1>11, <1>17 DEF Top, A!Newer
  <1>20. Topped'
    <2> SUFFICES ASSUME NEW y \in Ips, Rows(y)' # {} PROVE \E r \in rows' : Top(y, r)'
      BY DEF Topped
    <2>1. CASE y # x
      BY <1>7, <1>11, <1>16, <2>1 DEF AssetInv, Topped
    <2>2. CASE y = x /\ Rows(x) = {}
      BY <1>7, <1>18, <2>2
    <2>3. CASE y = x /\ Rows(x) # {}
      <3>1. PICK r \in rows : Top(x, r)
        BY <2>3 DEF AssetInv, Topped
      <3>2. r \in Rows(x)
        BY <3>1 DEF Top
      <3>3. CASE A!Newer(w, r)
        <4>1. \A q \in Rows(x) : A!Newer(w, q)
          BY <1>6, <1>17, <3>1, <3>2, <3>3, NewerFacts DEF Top
        <4> QED
          BY <1>7, <1>18, <2>3, <4>1
      <3>4. CASE A!Newer(r, w)
        BY <1>7, <1>17, <1>19, <2>3, <3>1, <3>2, <3>4
      <3> QED
        BY <1>17, <3>2, <3>3, <3>4
    <2> QED
      BY <2>1, <2>2, <2>3
  <1>21. TrustHeld'
    <2> SUFFICES ASSUME NEW y \in Ips, y \notin unclear'
                 PROVE  /\ Rows(y)' = {} => ~ wanted'[y].trusted
                        /\ \A r \in rows' : Top(y, r)' => r.trusted = wanted'[y].trusted
      BY DEF TrustHeld
    <2>1. y \notin unclear
      BY <1>9
    <2>2. CASE y # x
      <3>1. wanted'[y] = wanted[y]
        BY <1>9, <2>2 DEF AssetInv, AssetTypes, WantedFits
      <3>2. Rows(y) = {} => ~ wanted[y].trusted
        BY <2>1 DEF AssetInv, TrustHeld
      <3>3. ASSUME NEW r \in rows', Top(y, r)' PROVE r.trusted = wanted[y].trusted
        <4>1. Top(y, r)
          BY <1>16, <2>2, <3>3
        <4>2. r \in rows
          BY <4>1 DEF Top, Rows
        <4> QED
          BY <2>1, <4>1, <4>2 DEF AssetInv, TrustHeld
      <3> QED
        BY <1>11, <2>2, <3>1, <3>2, <3>3
    <2>3. CASE y = x
      <3>1. ~ u.stale /\ TrustComes(u)
        BY <1>1, <1>2, <1>3, <1>9, <2>1, <2>3 DEF AssetInv, Pending, Waits
      <3>2. ASSUME NEW r \in rows', Top(x, r)' PROVE r.trusted = wanted'[x].trusted
        <4>1. CASE u.kind = "trust"
          <5>1. wanted'[x].trusted = w.trusted
            BY <1>2, <1>3, <1>6, <1>9, <3>1, <4>1
            DEF A!Said, TrustComes, AssetInv, AssetTypes, WantedFits
          <5>2. \A q \in Rows(x) : A!Newer(w, q)
            BY <1>3, <1>6, <1>17, <3>1, <4>1 DEF TrustComes
          <5>3. r = w
            <6>1. r # w => Top(x, r) /\ A!Newer(r, w)
              BY <1>19, <3>2
            <6>2. r # w => r \in Rows(x)
              BY <6>1 DEF Top
            <6> QED
              BY <1>6, <1>17, <5>2, <6>1, <6>2, NewerFacts
          <5> QED
            BY <5>1, <5>3
        <4>2. CASE u.kind # "trust"
          <5>1. wanted'[x].trusted = wanted[x].trusted
            <6>1. PICK s : s = wanted[x]
              OBVIOUS
            <6>2. s \in [trusted : BOOLEAN, name : Names \cup {NoName}]
              BY <6>1 DEF AssetInv, AssetTypes, WantedFits
            <6>3. A!Said(j) = s \/ A!Said(j) = [s EXCEPT !.name = u.value]
              BY <1>2, <1>3, <4>2, <6>1 DEF A!Said
            <6>4. A!Said(j).trusted = s.trusted
              BY <6>2, <6>3
            <6> QED
              BY <1>9, <6>1, <6>4 DEF AssetInv, AssetTypes, WantedFits
          <5>2. CASE r = w
            BY <1>3, <1>6, <3>1, <4>2, <5>1, <5>2 DEF TrustComes
          <5>3. CASE r # w
            <6>1. Top(x, r)
              BY <1>19, <3>2, <5>3
            <6>2. r \in rows
              BY <6>1 DEF Top, Rows
            <6> QED
              BY <2>1, <2>3, <5>1, <6>1, <6>2 DEF AssetInv, TrustHeld
          <5> QED
            BY <5>2, <5>3
        <4> QED
          BY <4>1, <4>2
      <3> QED
        BY <1>11, <2>3, <3>2
    <2> QED
      BY <2>2, <2>3
  <1>22. Pending'
    <2> SUFFICES ASSUME NEW i \in Jobs, Waits(job[i], unclear)' PROVE TrustComes(job[i])'
      BY DEF Pending
    <2>1. i # j /\ job[i] # NoJob
      BY <1>10 DEF Waits
    <2>2. PICK v \in AssetJobs : v = job[i]
      BY <2>1 DEF AssetInv, AssetTypes, WritersFit
    <2>3. ~ (v.pc = "write" /\ v.ip = x)
      <3>1. PICK z : z = [v EXCEPT !.stale = TRUE]
        OBVIOUS
      <3>2. z.stale
        BY <3>1 DEF AssetJobs
      <3> QED
        BY <1>10, <2>1, <2>2, <3>1, <3>2 DEF Waits
    <2>4. job'[i] = v
      BY <1>10, <2>1, <2>2, <2>3
    <2>5. v.pc = "write" /\ v.ip # x /\ v.ip \in Ips /\ Waits(v, unclear)
      BY <1>9, <2>3, <2>4 DEF Waits, AssetJobs
    <2>6. TrustComes(v)
      BY <2>2, <2>5 DEF AssetInv, Pending
    <2>7. Rows(v.ip)' = Rows(v.ip) /\ wanted'[v.ip] = wanted[v.ip]
      BY <1>9, <1>11, <2>5 DEF AssetInv, AssetTypes, WantedFits
    <2>8. TrustComes(v)'
      BY <2>6, <2>7 DEF TrustComes
    <2> QED
      BY <2>4, <2>8 DEF TrustComes
  <1> QED
    BY <1>12, <1>13, <1>14, <1>15, <1>20, <1>21, <1>22 DEF AssetInv, AssetTypes

(* A flag touches nothing else of a row.                                   *)
LEMMA FlagKeeps == ASSUME AssetInv, NEW x \in Ips, A!Flag(x) PROVE AssetInv'
  <1> DEFINE G(r) == [r EXCEPT !.flagged = @ \/ r.ip = x]
  <1>1. rows' = {G(r) : r \in rows} /\ UNCHANGED <<assetClock, hash, job, wanted, unclear>>
    BY DEF A!Flag
  <1>2. IsFiniteSet(rows) /\ Cardinality(rows) \in Nat /\ rows \subseteq AssetRows
    BY FS_CardinalityType DEF AssetInv, RowsApart
  <1>3. \A r \in rows : /\ G(r) \in AssetRows /\ G(r).ip = r.ip /\ G(r).seen = r.seen
                        /\ G(r).seq = r.seq /\ G(r).trusted = r.trusted
    BY <1>2 DEF AssetRows
  <1> HIDE DEF G
  <1>4. \A q, r \in rows : G(q).seq = G(r).seq => q = r
    BY <1>3 DEF AssetInv, RowsApart
  <1>5. IsFiniteSet(rows') /\ Cardinality(rows') = Cardinality(rows)
    <2>1. PICK f : f = [r \in rows |-> G(r)]
      OBVIOUS
    <2>2. f \in Surjection(rows, rows') /\ f \in Injection(rows, rows')
      BY <1>1, <1>4, <2>1 DEF Surjection, Injection, IsInjective
    <2> QED
      BY <1>2, <2>2, FS_Surjection
  <1>6. \A q \in rows' : \E r \in rows : q = G(r)
    BY <1>1
  <1>7. RowsApart'
    <2>1. rows' \subseteq AssetRows
      BY <1>3, <1>6
    <2>2. \A q \in rows' : q.seen <= assetClock' /\ q.seq <= Cardinality(rows')
      BY <1>1, <1>3, <1>5, <1>6 DEF AssetInv, RowsApart
    <2>3. \A q, r \in rows' : q.seq = r.seq => q = r
      BY <1>4, <1>6
    <2> QED
      BY <1>5, <2>1, <2>2, <2>3 DEF RowsApart
  <1>8. \A y : Rows(y)' = {G(r) : r \in Rows(y)}
    BY <1>1, <1>3 DEF Rows
  <1>9. \A y, r : r \in rows => (Top(y, G(r))' <=> Top(y, r))
    BY <1>1, <1>3, <1>4, <1>8 DEF Top, Rows, A!Newer
  <1>10. Topped'
    BY <1>1, <1>8, <1>9 DEF AssetInv, Topped
  <1>11. TrustHeld'
    <2>1. \A y : Rows(y)' = {} => Rows(y) = {}
      BY <1>8
    <2>2. ASSUME NEW y \in Ips \ unclear, NEW q \in rows', Top(y, q)'
          PROVE  q.trusted = wanted[y].trusted
      <3>1. PICK r \in rows : q = G(r)
        BY <1>6
      <3>2. Top(y, r)
        BY <1>9, <2>2, <3>1
      <3>3. r.trusted = wanted[y].trusted
        BY <3>2 DEF AssetInv, TrustHeld
      <3> QED
        BY <1>3, <3>1, <3>3
    <2> QED
      BY <1>1, <2>1, <2>2 DEF AssetInv, TrustHeld
  <1>12. Pending'
    BY <1>1, <1>3, <1>8 DEF AssetInv, Pending, Waits, TrustComes, Rows
  <1>13. AssetTypes'
    BY <1>1 DEF AssetInv, AssetTypes, HashFits, WritersFit, WantedFits
  <1> QED
    BY <1>7, <1>10, <1>11, <1>12, <1>13 DEF AssetInv

LEMMA AssetStep == AssetInv /\ [A!Next]_A!vars => AssetInv'
  <1> SUFFICES ASSUME AssetInv, [A!Next]_A!vars PROVE AssetInv'
    OBVIOUS
  <1>1. CASE UNCHANGED A!vars
    BY <1>1 DEF A!vars, AssetInv, RowsApart, AssetTypes, HashFits, WritersFit, WantedFits, Topped,
                TrustHeld, Pending, Rows, Top, TrustComes, Waits, A!Newer
  <1>2. ASSUME NEW j \in Jobs, A!Read(j) PROVE AssetInv'
    BY <1>2, ReadKeeps
  <1>3. ASSUME NEW j \in Jobs, A!Write(j) PROVE AssetInv'
    BY <1>3, InsertKeeps
  <1>4. ASSUME NEW x \in Ips, (\E m \in Macs : A!Arp(x, m)) \/ A!Expire(x) PROVE AssetInv'
    BY <1>4, PacketKeeps
  <1>5. ASSUME NEW x \in Ips, A!Flag(x) PROVE AssetInv'
    BY <1>5, FlagKeeps
  <1>6. CASE A!Tick
    BY <1>6, ClockKeeps
  <1>7. ASSUME NEW j \in Jobs, NEW x \in Ips,
               \/ \E m \in Macs : A!StartDhcp(j, x, m)
               \/ \E kind \in A!Kinds : A!StartOther(j, kind, x)
               \/ \E b \in BOOLEAN : A!StartTrust(j, x, b)
               \/ \E z \in Names : A!StartName(j, x, z)
               \/ A!StartFlush(j, x)
        PROVE  AssetInv'
    BY <1>7, BeginKeeps, Zenon
  <1> QED
    BY <1>1, <1>2, <1>3, <1>4, <1>5, <1>6, <1>7, Zenon DEF A!Next

LEMMA AssetAlways == A!Spec => []AssetInv
  <1>1. A!Init => AssetInv
    BY AssetInit
  <1>2. AssetInv /\ [A!Next]_A!vars => AssetInv'
    BY AssetStep
  <1> QED
    BY <1>1, <1>2, PTL DEF A!Spec

(* TrustIsKept: an address is trusted if and only if the user last said    *)
(* so, whichever writers came after, unless two of them overlapped or the  *)
(* address went to another device (upsert_asset and its callers).          *)
THEOREM TrustIsAlwaysKept == A!Spec => []TrustIsKept
  <1>1. AssetInv => TrustIsKept
    <2> SUFFICES ASSUME AssetInv, NEW x \in Ips, A!ByIp(x) # NoRow, x \notin unclear
                 PROVE  A!ByIp(x).trusted = wanted[x].trusted
      BY DEF TrustIsKept, A!TrustIsKept, A!Agrees
    <2>1. Top(x, A!ByIp(x)) /\ A!ByIp(x) \in rows
      BY ByIpFacts DEF AssetInv
    <2> QED
      BY <2>1 DEF AssetInv, TrustHeld
  <1> QED
    BY <1>1, AssetAlways, PTL

-----------------------------------------------------------------------------
(* Baselines.                                                              *)

BaseMetrics == <<"event_count", "ext_contact">>
JobRecords ==
  [engine : Engines, id : Nat, window : Int, from : Int, upto : Int,
   left : {BaseMetrics, <<"ext_contact">>, <<>>}, missed : BOOLEAN]

(* A job ends in the hour in which it began, so its window is yesterday's  *)
(* midnight or the present.                                                *)
Summarises(j) ==
  /\ j.window = (B!Today - 1) * BaseDay /\ j.from = j.window
  /\ j.upto = B!Today * BaseDay - 1
Bootstraps(j) == j.window = baseClock /\ j.from = baseClock - BaseDay /\ j.upto = baseClock

(* A row of a refresh has a destination of its day; one of a bootstrap is  *)
(* older than any refresh of that window.                                  *)
RowOfDay(r) == r.value \in B!Seen(r.window, r.window + BaseDay - 1)
RowOfBootstrap(r) == \A j \in jobs : j.from = r.window => r.insert < j.id

JobsFit ==
  \A j \in jobs : j \in JobRecords /\ j.id < started /\ (Summarises(j) \/ Bootstraps(j))
RowsFit ==
  \A r \in table :
    /\ r.insert \in Nat /\ r.insert < started /\ r.window \in Int /\ r.window <= baseClock
    /\ r.metric = "ext_contact" => RowOfDay(r) \/ RowOfBootstrap(r)
WholeFit ==
  \A w \in whole : /\ w.from \in Int /\ w.upto \in Int
                   /\ B!Refreshed(w) => w.from + BaseDay <= baseClock
BaseTypes == baseClock \in Nat /\ started \in Nat /\ JobsFit /\ RowsFit /\ WholeFit

(* The row of a lone destination is the last of its window.                *)
Lone(from, p) ==
  \E r \in table :
    /\ r.metric = "ext_contact" /\ r.window = from /\ r.value = p
    /\ \A q \in table : q.metric = "ext_contact" /\ q.window = from =>
         q.value = p \/ q.insert < r.insert
Current(from) == baseClock - from < Kept
WholeHeld ==
  \A w \in whole : \A p \in Peers :
    B!Refreshed(w) /\ Current(w.from) /\ B!Seen(w.from, w.upto) = {p} => Lone(w.from, p)
JobsHeld ==
  \A j \in jobs : \A p \in Peers :
    Summarises(j) /\ ~ j.missed /\ j.left = <<>> =>
      (Current(j.from) /\ B!Seen(j.from, j.upto) = {p} => Lone(j.from, p))

BaseInv == BaseTypes /\ WholeHeld /\ JobsHeld

LEMMA Midnight ==
  ASSUME NEW k \in Nat, NEW d \in Nat \ {0}
  PROVE  /\ (k \div d - 1) * d \in Int /\ (k \div d) * d \in Int
         /\ (k \div d) * d <= k /\ (k \div d) * d = (k \div d - 1) * d + d
  <1>1. k \div d \in Int
    OBVIOUS
  <1>2. (k \div d) * d <= k
    OBVIOUS
  <1>3. \A q \in Int : (q - 1) * d \in Int /\ q * d \in Int /\ q * d = (q - 1) * d + d
    OBVIOUS
  <1> QED
    BY <1>1, <1>2, <1>3

(* A day that is summarised is over, and ends where the next begins.       *)
LEMMA DayOver ==
  ASSUME BaseInv, NEW j, Summarises(j)
  PROVE  /\ j.from \in Int /\ j.upto = j.from + BaseDay - 1 /\ j.from + BaseDay <= baseClock
         /\ j.window = j.from
  <1>1. baseClock \in Nat
    BY DEF BaseInv, BaseTypes, JobsFit, RowsFit, WholeFit
  <1> QED
    BY <1>1, Midnight, BaselinesAssumption DEF Summarises, B!Today

LEMMA BaseInit == B!Init => BaseInv
  BY BaselinesAssumption DEF B!Init, BaseInv, BaseTypes, JobsFit, RowsFit, WholeFit, WholeHeld, JobsHeld

(* Nothing of it moves but jobs that end.                                  *)
LEMMA JobsShrink ==
  ASSUME BaseInv, jobs' \subseteq jobs, UNCHANGED <<baseClock, contacts, table, started, whole>>
  PROVE  BaseInv'
  <1>1. /\ B!Today' = B!Today
        /\ \A x, y : B!Seen(x, y)' = B!Seen(x, y)
        /\ \A x : /\ Summarises(x)' = Summarises(x) /\ Bootstraps(x)' = Bootstraps(x)
                  /\ RowOfDay(x)' = RowOfDay(x)
                  /\ RowOfBootstrap(x) => RowOfBootstrap(x)'
                  /\ Current(x)' = Current(x)
        /\ \A x, y : Lone(x, y)' = Lone(x, y)
    BY DEF B!Today, B!Seen, Summarises, Bootstraps, RowOfDay, RowOfBootstrap, Lone, Current
  <1>2. BaseTypes'
    BY <1>1 DEF BaseInv, BaseTypes, JobsFit, RowsFit, WholeFit, B!Refreshed
  <1>3. WholeHeld' /\ JobsHeld'
    BY <1>1 DEF BaseInv, WholeHeld, JobsHeld, B!Refreshed
  <1> QED
    BY <1>2, <1>3 DEF BaseInv

(* A day that is over gets no more connections.                            *)
LEMMA ConnectKeeps == ASSUME BaseInv, NEW p \in Peers, B!Connect(p) PROVE BaseInv'
  <1>1. /\ contacts' = contacts \cup {<<p, baseClock>>}
        /\ UNCHANGED <<baseClock, jobs, table, started, whole>>
    BY DEF B!Connect
  <1>2. /\ B!Today' = B!Today
        /\ \A x : /\ Summarises(x)' = Summarises(x) /\ Bootstraps(x)' = Bootstraps(x)
                  /\ RowOfDay(x) => RowOfDay(x)'
                  /\ RowOfBootstrap(x)' = RowOfBootstrap(x)
                  /\ Current(x)' = Current(x)
        /\ \A x, y : Lone(x, y)' = Lone(x, y)
    BY <1>1 DEF B!Today, B!Seen, Summarises, Bootstraps, RowOfDay, RowOfBootstrap, Lone, Current
  <1>3. \A x, y \in Int : y < baseClock => B!Seen(x, y)' = B!Seen(x, y)
    <2> SUFFICES ASSUME NEW x \in Int, NEW y \in Int, y < baseClock
                 PROVE  B!Seen(x, y)' = B!Seen(x, y)
      OBVIOUS
    <2>1. baseClock \in Nat /\ ~ (baseClock \in x..y)
      BY DEF BaseInv, BaseTypes, JobsFit, RowsFit, WholeFit
    <2>2. {z \in contacts' : z[2] \in x..y} = {z \in contacts : z[2] \in x..y}
      BY <1>1, <2>1
    <2> QED
      BY <2>2 DEF B!Seen
  <1>4. BaseTypes'
    BY <1>1, <1>2 DEF BaseInv, BaseTypes, JobsFit, RowsFit, WholeFit, B!Refreshed
  <1>5. WholeHeld'
    <2> SUFFICES ASSUME NEW w \in whole, NEW q \in Peers, B!Refreshed(w), Current(w.from),
                        B!Seen(w.from, w.upto)' = {q}
                 PROVE  Lone(w.from, q)
      BY <1>1, <1>2 DEF WholeHeld, B!Refreshed
    <2>1. w.from \in Int /\ w.upto \in Int /\ w.upto < baseClock
      BY BaselinesAssumption DEF BaseInv, BaseTypes, JobsFit, RowsFit, WholeFit, B!Refreshed
    <2> QED
      BY <1>3, <2>1 DEF BaseInv, WholeHeld
  <1>6. JobsHeld'
    <2> SUFFICES ASSUME NEW j \in jobs', NEW q \in Peers, Summarises(j)', ~ j.missed,
                        j.left = <<>>, Current(j.from)', B!Seen(j.from, j.upto)' = {q}
                 PROVE  Lone(j.from, q)'
      BY DEF JobsHeld
    <2>2. j \in jobs /\ Summarises(j) /\ Current(j.from)
      BY <1>1, <1>2
    <2>1. j.from \in Int /\ j.upto \in Int /\ j.upto < baseClock
      BY <2>2, DayOver, BaselinesAssumption DEF BaseInv, BaseTypes, JobsFit, RowsFit, WholeFit
    <2>3. B!Seen(j.from, j.upto) = {q}
      BY <1>3, <2>1
    <2> QED
      BY <1>2, <2>2, <2>3 DEF BaseInv, JobsHeld
  <1> QED
    BY <1>4, <1>5, <1>6 DEF BaseInv

(* Rows that go: the last of a current window is not among them.           *)
LEMMA RowsGo ==
  ASSUME BaseInv, table' \subseteq table,
         UNCHANGED <<baseClock, jobs, contacts, started, whole>>,
         \A x, y : Current(x) /\ Lone(x, y) => Lone(x, y)'
  PROVE  BaseInv'
  <1>1. /\ B!Today' = B!Today
        /\ \A x, y : B!Seen(x, y)' = B!Seen(x, y)
        /\ \A x : /\ Summarises(x)' = Summarises(x) /\ Bootstraps(x)' = Bootstraps(x)
                  /\ RowOfDay(x)' = RowOfDay(x)
                  /\ RowOfBootstrap(x)' = RowOfBootstrap(x)
                  /\ Current(x)' = Current(x)
    BY DEF B!Today, B!Seen, Summarises, Bootstraps, RowOfDay, RowOfBootstrap, Current
  <1>2. BaseTypes'
    BY <1>1 DEF BaseInv, BaseTypes, JobsFit, RowsFit, WholeFit, B!Refreshed
  <1>3. WholeHeld' /\ JobsHeld'
    BY <1>1 DEF BaseInv, WholeHeld, JobsHeld, B!Refreshed
  <1> QED
    BY <1>2, <1>3 DEF BaseInv

LEMMA ExpireKeeps == ASSUME BaseInv, NEW r \in table, B!Expire(r) PROVE BaseInv'
  <1>1. /\ table' = table \ {r} /\ ~ Current(r.window)
        /\ UNCHANGED <<baseClock, jobs, contacts, started, whole>>
    BY BaselinesAssumption DEF B!Expire, B!Expired, Current, BaseInv, BaseTypes, JobsFit, RowsFit, WholeFit
  <1>2. \A x, y : Current(x) /\ Lone(x, y) => Lone(x, y)'
    BY <1>1 DEF Lone
  <1> QED
    BY <1>1, <1>2, RowsGo

LEMMA MergeKeeps == ASSUME BaseInv, B!Merge PROVE BaseInv'
  <1>1. PICK last \in table :
          /\ ~ \E r \in {q \in table : B!SortKey(q) = B!SortKey(last)} : B!Newer(r, last)
          /\ table' = (table \ {q \in table : B!SortKey(q) = B!SortKey(last)}) \cup {last}
          /\ UNCHANGED <<baseClock, jobs, contacts, started, whole>>
    BY DEF B!Merge
  <1>2. table' \subseteq table
    BY <1>1
  <1>3. ASSUME NEW x, NEW y, Lone(x, y) PROVE Lone(x, y)'
    <2>1. PICK r \in table :
            /\ r.metric = "ext_contact" /\ r.window = x /\ r.value = y
            /\ \A q \in table : q.metric = "ext_contact" /\ q.window = x =>
                 q.value = y \/ q.insert < r.insert
      BY <1>3 DEF Lone
    <2>2. CASE B!SortKey(r) = B!SortKey(last)
      <3>1. last.metric = "ext_contact" /\ last.window = x
        BY <2>1, <2>2 DEF B!SortKey
      <3>2. ~ (last.insert < r.insert)
        BY <1>1, <2>1, <2>2 DEF B!Newer, BaseInv, BaseTypes, JobsFit, RowsFit, WholeFit
      <3>3. last.value = y
        BY <2>1, <3>1, <3>2
      <3>4. \A q \in table' : q.metric = "ext_contact" /\ q.window = x => q = last
        BY <1>1, <3>1 DEF B!SortKey
      <3>5. last \in table'
        BY <1>1
      <3> QED
        BY <3>1, <3>3, <3>4, <3>5 DEF Lone
    <2>3. CASE B!SortKey(r) # B!SortKey(last)
      BY <1>1, <1>2, <2>1, <2>3 DEF Lone
    <2> QED
      BY <2>2, <2>3
  <1> QED
    BY <1>1, <1>2, <1>3, RowsGo

(* A refresh that files a destination under a day that is over files one   *)
(* of that day, and a bootstrap files under the present.                   *)
LEMMA NewRow ==
  ASSUME BaseInv, NEW j \in jobs, NEW r, r.window = j.window, r.value \in B!Seen(j.from, j.upto)
  PROVE  /\ r.window \in Int /\ r.window <= baseClock
         /\ RowOfDay(r) \/ (r.window = baseClock /\ \A i \in jobs : i.from # r.window)
  <1>1. /\ baseClock \in Nat /\ j \in JobRecords
        /\ \A i \in jobs : Summarises(i) \/ Bootstraps(i)
    BY DEF BaseInv, BaseTypes, JobsFit, RowsFit, WholeFit
  <1>2. CASE Summarises(j)
    BY <1>1, <1>2, DayOver, BaselinesAssumption DEF RowOfDay
  <1>3. CASE Bootstraps(j)
    <2>1. ASSUME NEW i \in jobs PROVE i.from # baseClock
      <3>1. CASE Summarises(i)
        BY <1>1, <3>1, DayOver, BaselinesAssumption
      <3>2. CASE Bootstraps(i)
        BY <1>1, <3>2, BaselinesAssumption DEF Bootstraps
      <3> QED
        BY <1>1, <3>1, <3>2
    <2> QED
      BY <1>1, <1>3, <2>1 DEF Bootstraps
  <1> QED
    BY <1>1, <1>2, <1>3

LEMMA ComputeKeeps == ASSUME BaseInv, NEW j \in jobs, B!Compute(j) PROVE BaseInv'
  <1>1. /\ j \in JobRecords /\ j.id < started /\ j.left # <<>> /\ j.id \in Nat
        /\ baseClock \in Nat /\ started \in Nat
        /\ UNCHANGED <<baseClock, contacts, started, whole>>
    BY DEF BaseInv, BaseTypes, JobsFit, RowsFit, WholeFit, B!Compute, JobRecords
  <1>2. \/ j.left = BaseMetrics /\ Head(j.left) = "event_count" /\ Tail(j.left) = <<"ext_contact">>
        \/ j.left = <<"ext_contact">> /\ Head(j.left) = "ext_contact" /\ Tail(j.left) = <<>>
    <2>1. j.left \in {BaseMetrics, <<"ext_contact">>}
      BY <1>1 DEF JobRecords
    <2>2. Head(BaseMetrics) = "event_count" /\ Tail(BaseMetrics) = <<"ext_contact">>
      BY DEF BaseMetrics
    <2>3. Head(<<"ext_contact">>) = "ext_contact" /\ Tail(<<"ext_contact">>) = <<>>
      OBVIOUS
    <2> QED
      BY <2>1, <2>2, <2>3
  <1>3. PICK i : /\ jobs' = (jobs \ {j}) \cup {i}
                 /\ \/ i = [j EXCEPT !.left = Tail(@)] /\ table' = table \cup B!RowsOf(j)
                    \/ i = [j EXCEPT !.left = Tail(@), !.missed = TRUE] /\ table' = table
    <2>1. [[j EXCEPT !.left = Tail(@)] EXCEPT !.missed = TRUE]
            = [j EXCEPT !.left = Tail(@), !.missed = TRUE]
      BY <1>1 DEF JobRecords
    <2> QED
      BY <2>1 DEF B!Compute
  <1>4. /\ i \in JobRecords /\ i.window = j.window /\ i.from = j.from /\ i.upto = j.upto
        /\ i.id = j.id /\ i.left = Tail(j.left)
        /\ i.missed \/ (i.missed = j.missed /\ table' = table \cup B!RowsOf(j))
    BY <1>1, <1>2, <1>3 DEF JobRecords, BaseMetrics
  <1>5. /\ \A r \in table' \ table :
             /\ r.metric = Head(j.left) /\ r.window = j.window /\ r.insert = j.id
             /\ Head(j.left) = "ext_contact" => r.value \in B!Seen(j.from, j.upto)
        /\ table \subseteq table'
    BY <1>2, <1>3 DEF B!RowsOf, B!Values, B!Contact
  <1>6. /\ B!Today' = B!Today
        /\ \A x, y : B!Seen(x, y)' = B!Seen(x, y)
        /\ \A x : /\ Summarises(x)' = Summarises(x) /\ Bootstraps(x)' = Bootstraps(x)
                  /\ RowOfDay(x)' = RowOfDay(x) /\ Current(x)' = Current(x)
                  /\ B!Refreshed(x)' = B!Refreshed(x)
    BY <1>1 DEF B!Today, B!Seen, Summarises, Bootstraps, RowOfDay, Current, B!Refreshed
  <1>7. /\ Summarises(i) <=> Summarises(j)
        /\ Bootstraps(i) <=> Bootstraps(j)
    BY <1>4 DEF Summarises, Bootstraps
  <1>8. \A x : RowOfBootstrap(x)' <=> RowOfBootstrap(x)
    BY <1>3, <1>4 DEF RowOfBootstrap
  <1>9. BaseTypes'
    <2>1. ASSUME NEW x \in jobs'
          PROVE  x \in JobRecords /\ x.id < started /\ (Summarises(x) \/ Bootstraps(x))
      <3>1. CASE x = i
        BY <1>1, <1>4, <1>7, <3>1 DEF BaseInv, BaseTypes, JobsFit, RowsFit, WholeFit
      <3>2. CASE x # i
        BY <1>3, <3>2 DEF BaseInv, BaseTypes, JobsFit, RowsFit, WholeFit
      <3> QED
        BY <3>1, <3>2
    <2>2. ASSUME NEW r \in table'
          PROVE  /\ r.insert \in Nat /\ r.insert < started /\ r.window \in Int
                 /\ r.window <= baseClock
                 /\ r.metric = "ext_contact" => RowOfDay(r) \/ RowOfBootstrap(r)
      <3>1. CASE r \in table
        BY <3>1 DEF BaseInv, BaseTypes, JobsFit, RowsFit, WholeFit
      <3>2. CASE r \notin table
        <4>1. r.insert \in Nat /\ r.insert < started
          BY <1>1, <1>5, <3>2
        <4>2. r.window \in Int /\ r.window <= baseClock
          <5>1. CASE Summarises(j)
            BY <1>1, <1>5, <3>2, <5>1, DayOver, BaselinesAssumption
          <5>2. CASE Bootstraps(j)
            BY <1>1, <1>5, <3>2, <5>2 DEF Bootstraps
          <5> QED
            BY <5>1, <5>2 DEF BaseInv, BaseTypes, JobsFit, RowsFit, WholeFit
        <4>3. r.metric = "ext_contact" => RowOfDay(r) \/ RowOfBootstrap(r)
          BY <1>5, <3>2, NewRow DEF RowOfBootstrap
        <4> QED
          BY <4>1, <4>2, <4>3
      <3> QED
        BY <3>1, <3>2
    <2>4. JobsFit'
      BY <1>1, <1>6, <2>1 DEF JobsFit
    <2>5. RowsFit'
      BY <1>1, <1>6, <1>8, <2>2 DEF RowsFit
    <2>6. WholeFit'
      BY <1>1 DEF BaseInv, BaseTypes, WholeFit, B!Refreshed
    <2> QED
      BY <1>1, <2>4, <2>5, <2>6 DEF BaseTypes
  <1>10. ASSUME NEW from \in Int, NEW p, from + BaseDay <= baseClock,
                B!Seen(from, from + BaseDay - 1) = {p}, Lone(from, p)
         PROVE  Lone(from, p)'
    <2>1. PICK r \in table :
            /\ r.metric = "ext_contact" /\ r.window = from /\ r.value = p
            /\ \A q \in table : q.metric = "ext_contact" /\ q.window = from =>
                 q.value = p \/ q.insert < r.insert
      BY <1>10 DEF Lone
    <2>2. ASSUME NEW q \in table' \ table, q.metric = "ext_contact", q.window = from
          PROVE  q.value = p
      <3>1. RowOfDay(q) \/ q.window = baseClock
        BY <1>5, <2>2, NewRow
      <3> QED
        BY <1>1, <1>10, <2>2, <3>1, BaselinesAssumption DEF RowOfDay
    <2> QED
      BY <1>5, <2>1, <2>2 DEF Lone
  <1>11. WholeHeld'
    <2> SUFFICES ASSUME NEW w \in whole, NEW q \in Peers, B!Refreshed(w), Current(w.from),
                        B!Seen(w.from, w.upto) = {q}
                 PROVE  Lone(w.from, q)'
      BY <1>1, <1>6 DEF WholeHeld
    <2>1. w.from \in Int /\ w.from + BaseDay <= baseClock /\ w.upto = w.from + BaseDay - 1
      BY DEF BaseInv, BaseTypes, JobsFit, RowsFit, WholeFit, B!Refreshed
    <2>2. Lone(w.from, q)
      BY DEF BaseInv, WholeHeld
    <2> QED
      BY <1>10, <2>1, <2>2
  <1>12. JobsHeld'
    <2> SUFFICES ASSUME NEW x \in jobs', NEW q \in Peers, Summarises(x), ~ x.missed, x.left = <<>>,
                        Current(x.from), B!Seen(x.from, x.upto) = {q}
                 PROVE  Lone(x.from, q)'
      BY <1>6 DEF JobsHeld
    <2>1. /\ x.from \in Int /\ x.from + BaseDay <= baseClock /\ x.upto = x.from + BaseDay - 1
          /\ x.window = x.from
      BY DayOver
    <2>2. CASE x \in jobs
      <3>1. Lone(x.from, q)
        BY <2>2 DEF BaseInv, JobsHeld
      <3> QED
        BY <1>10, <2>1, <3>1
    <2>3. CASE x \notin jobs
      <3>a. x = i /\ table' = table \cup B!RowsOf(j) /\ Tail(j.left) = <<>>
        BY <1>3, <1>4, <2>3
      <3>b. <<"ext_contact">> # <<>>
        OBVIOUS
      <3>1. x = i /\ j.left = <<"ext_contact">> /\ table' = table \cup B!RowsOf(j)
        BY <1>2, <3>a, <3>b
      <3>2. PICK r : r = [metric |-> "ext_contact", window |-> j.window, value |-> q, insert |-> j.id]
        OBVIOUS
      <3>3. r \in table'
        BY <1>2, <1>4, <3>1, <3>2 DEF B!RowsOf, B!Values, B!Contact
      <3>4. ASSUME NEW y \in table', y.metric = "ext_contact", y.window = x.from
            PROVE  y.value = q \/ y.insert < r.insert
        <4>1. CASE y \in table
          BY <1>4, <2>1, <3>1, <3>2, <3>4, <4>1 DEF BaseInv, BaseTypes, JobsFit, RowsFit, WholeFit, RowOfDay, RowOfBootstrap
        <4>2. CASE y \notin table
          BY <1>4, <1>5, <3>1, <3>4, <4>2
        <4> QED
          BY <4>1, <4>2
      <3> QED
        BY <1>4, <2>1, <3>1, <3>2, <3>3, <3>4 DEF Lone
    <2> QED
      BY <2>2, <2>3
  <1> QED
    BY <1>9, <1>11, <1>12 DEF BaseInv

LEMMA FinishKeeps == ASSUME BaseInv, NEW j \in jobs, B!Finish(j) PROVE BaseInv'
  <1>1. /\ jobs' \subseteq jobs /\ j.left = <<>> /\ j \in JobRecords
        /\ UNCHANGED <<baseClock, contacts, table, started>>
        /\ \A w \in whole' : w \in whole \/ (~ j.missed /\ w = [from |-> j.from, upto |-> j.upto])
    BY DEF B!Finish, BaseInv, BaseTypes, JobsFit, RowsFit, WholeFit
  <1>2. /\ B!Today' = B!Today
        /\ \A x, y : B!Seen(x, y)' = B!Seen(x, y)
        /\ \A x : /\ Summarises(x)' = Summarises(x) /\ Bootstraps(x)' = Bootstraps(x)
                  /\ RowOfDay(x)' = RowOfDay(x)
                  /\ RowOfBootstrap(x) => RowOfBootstrap(x)'
                  /\ Current(x)' = Current(x) /\ B!Refreshed(x)' = B!Refreshed(x)
        /\ \A x, y : Lone(x, y)' = Lone(x, y)
    BY <1>1 DEF B!Today, B!Seen, Summarises, Bootstraps, RowOfDay, RowOfBootstrap, Lone, Current,
                B!Refreshed
  <1>3. ASSUME NEW w \in whole', w \notin whole
        PROVE  /\ w.from = j.from /\ w.upto = j.upto /\ w.from \in Int /\ w.upto \in Int
               /\ B!Refreshed(w) => Summarises(j) /\ w.from + BaseDay <= baseClock
    <2>1. ~ j.missed /\ w.from = j.from /\ w.upto = j.upto /\ w.from \in Int /\ w.upto \in Int
      BY <1>1, <1>3 DEF JobRecords
    <2>2. CASE Summarises(j)
      BY <2>1, <2>2, DayOver
    <2>3. CASE Bootstraps(j)
      BY <2>1, <2>3, BaselinesAssumption DEF Bootstraps, B!Refreshed, BaseInv, BaseTypes, JobsFit, RowsFit, WholeFit
    <2> QED
      BY <2>2, <2>3 DEF BaseInv, BaseTypes, JobsFit, RowsFit, WholeFit
  <1>4. BaseTypes'
    BY <1>1, <1>2, <1>3 DEF BaseInv, BaseTypes, JobsFit, RowsFit, WholeFit
  <1>5. WholeHeld'
    <2> SUFFICES ASSUME NEW w \in whole', NEW q \in Peers, B!Refreshed(w), Current(w.from),
                        B!Seen(w.from, w.upto) = {q}
                 PROVE  Lone(w.from, q)
      BY <1>2 DEF WholeHeld
    <2>1. CASE w \in whole
      BY <2>1 DEF BaseInv, WholeHeld
    <2>2. CASE w \notin whole
      BY <1>1, <1>3, <2>2 DEF BaseInv, JobsHeld
    <2> QED
      BY <2>1, <2>2
  <1>6. JobsHeld'
    BY <1>1, <1>2 DEF BaseInv, JobsHeld
  <1> QED
    BY <1>4, <1>5, <1>6 DEF BaseInv

(* A refresh or a bootstrap that begins.                                   *)
LEMMA JobBegins ==
  ASSUME BaseInv, NEW j \in JobRecords, j.id = started, j.left # <<>>,
         Summarises(j) \/ Bootstraps(j), jobs' = jobs \cup {j}, started' = started + 1,
         UNCHANGED <<baseClock, contacts, table, whole>>
  PROVE  BaseInv'
  <1>1. /\ B!Today' = B!Today
        /\ \A x, y : B!Seen(x, y)' = B!Seen(x, y)
        /\ \A x : /\ Summarises(x)' = Summarises(x) /\ Bootstraps(x)' = Bootstraps(x)
                  /\ RowOfDay(x)' = RowOfDay(x)
                  /\ Current(x)' = Current(x) /\ B!Refreshed(x)' = B!Refreshed(x)
        /\ \A x, y : Lone(x, y)' = Lone(x, y)
    BY DEF B!Today, B!Seen, Summarises, Bootstraps, RowOfDay, Lone, Current, B!Refreshed
  <1>2. \A r \in table : RowOfBootstrap(r) => RowOfBootstrap(r)'
    BY DEF RowOfBootstrap, BaseInv, BaseTypes, JobsFit, RowsFit, WholeFit
  <1>3. BaseTypes'
    BY <1>1, <1>2 DEF BaseInv, BaseTypes, JobsFit, RowsFit, WholeFit, JobRecords
  <1>4. WholeHeld' /\ JobsHeld'
    BY <1>1 DEF BaseInv, WholeHeld, JobsHeld
  <1> QED
    BY <1>3, <1>4 DEF BaseInv

LEMMA RefreshKeeps == ASSUME BaseInv, NEW e \in Engines, B!Refresh(e) PROVE BaseInv'
  <1>1. CASE UNCHANGED <<jobs, started>>
    BY <1>1, JobsShrink DEF B!Refresh
  <1>2. CASE jobs' = jobs \cup {B!Yesterday(e)} /\ started' = started + 1
    <2>1. PICK j : j = B!Yesterday(e)
      OBVIOUS
    <2>2. /\ (B!Today - 1) * BaseDay \in Int /\ B!Today * BaseDay \in Int /\ started \in Nat
      BY Midnight, BaselinesAssumption DEF BaseInv, BaseTypes, JobsFit, RowsFit, WholeFit, B!Today
    <2>3. j \in JobRecords /\ j.id = started /\ j.left # <<>> /\ Summarises(j)
      BY <2>1, <2>2 DEF B!Yesterday, JobRecords, BaseMetrics, Summarises
    <2> QED
      BY <1>2, <2>1, <2>3, JobBegins DEF B!Refresh
  <1> QED
    BY <1>1, <1>2 DEF B!Refresh

LEMMA BootstrapKeeps == ASSUME BaseInv, NEW e \in Engines, B!Bootstrap(e) PROVE BaseInv'
  <1>1. PICK j : j = B!LastDay(e)
    OBVIOUS
  <1>2. j \in JobRecords /\ j.id = started /\ j.left # <<>> /\ Bootstraps(j)
    BY <1>1, BaselinesAssumption
       DEF BaseInv, BaseTypes, JobsFit, RowsFit, WholeFit, B!LastDay, JobRecords, BaseMetrics, Bootstraps
  <1> QED
    BY <1>1, <1>2, JobBegins DEF B!Bootstrap

LEMMA HourKeeps == ASSUME BaseInv, B!Tick PROVE BaseInv'
  <1>1. /\ jobs = {} /\ jobs' = {} /\ baseClock' = baseClock + 1 /\ baseClock \in Nat
        /\ UNCHANGED <<contacts, table, started, whole>>
    BY DEF B!Tick, BaseInv, BaseTypes, JobsFit, RowsFit, WholeFit
  <1>2. /\ \A x, y : B!Seen(x, y)' = B!Seen(x, y)
        /\ \A x : /\ RowOfDay(x)' = RowOfDay(x) /\ RowOfBootstrap(x)'
                  /\ B!Refreshed(x)' = B!Refreshed(x)
        /\ \A x, y : Lone(x, y)' = Lone(x, y)
    BY <1>1 DEF B!Seen, RowOfDay, RowOfBootstrap, Lone, B!Refreshed
  <1>3. \A x \in Int : Current(x)' => Current(x)
    BY <1>1, BaselinesAssumption DEF Current
  <1>4. BaseTypes'
    BY <1>1, <1>2, BaselinesAssumption DEF BaseInv, BaseTypes, JobsFit, RowsFit, WholeFit
  <1>5. WholeHeld' /\ JobsHeld'
    BY <1>1, <1>2, <1>3 DEF BaseInv, BaseTypes, JobsFit, RowsFit, WholeFit, WholeHeld, JobsHeld
  <1> QED
    BY <1>4, <1>5 DEF BaseInv

LEMMA BaseStep == BaseInv /\ [B!Next]_B!vars => BaseInv'
  <1> SUFFICES ASSUME BaseInv, [B!Next]_B!vars PROVE BaseInv'
    OBVIOUS
  <1>1. ASSUME NEW e \in Engines, B!NewContact(e) \/ B!Spike(e) \/ B!Elected(e) PROVE BaseInv'
    BY <1>1, JobsShrink DEF B!NewContact, B!Spike, B!Elected
  <1>2. ASSUME NEW e \in Engines, B!Restart(e) PROVE BaseInv'
    BY <1>2, JobsShrink DEF B!Restart
  <1>3. CASE UNCHANGED B!vars
    BY <1>3, JobsShrink DEF B!vars
  <1>4. CASE B!Next
    BY <1>1, <1>2, <1>4, ComputeKeeps, FinishKeeps, MergeKeeps, ExpireKeeps, RefreshKeeps,
       BootstrapKeeps, ConnectKeeps, HourKeeps, Zenon
       DEF B!Next
  <1> QED
    BY <1>3, <1>4

LEMMA BaseAlways == B!Spec => []BaseInv
  BY BaseInit, BaseStep, PTL DEF B!Spec

(* For any engines, destinations, length of a day and time to live, with   *)
(* refreshes that repeat, overlap or fail and bootstraps among them: the   *)
(* lone destination of a summarised day is not reported as new.            *)
THEOREM SoleContactStaysKnown == B!Spec => SoleContactIsKnown
  <1>1. BaseInv /\ [B!Next]_B!vars =>
          [\A p \in Peers : B!Alone(p) => p \in told \/ p \notin told']_B!vars
    <2> SUFFICES ASSUME BaseInv, B!Next, NEW p \in Peers, B!Alone(p), p \in told', p \notin told
                 PROVE  FALSE
      OBVIOUS
    <2>1. PICK e \in Engines : B!NewContact(e)
      <3>1. ASSUME NEW j \in jobs, B!Compute(j) \/ B!Finish(j) PROVE FALSE
        BY <3>1 DEF B!Compute, B!Finish
      <3>2. ASSUME NEW r \in table, B!Expire(r) PROVE FALSE
        BY <3>2 DEF B!Expire
      <3>3. ~ B!Merge /\ ~ B!Tick
        BY DEF B!Merge, B!Tick
      <3>4. ASSUME NEW e \in Engines,
                   B!Refresh(e) \/ B!Bootstrap(e) \/ B!Spike(e) \/ B!Restart(e) \/ B!Elected(e)
            PROVE  FALSE
        BY <3>4 DEF B!Refresh, B!Bootstrap, B!Spike, B!Restart, B!Elected
      <3>5. ASSUME NEW q \in Peers, B!Connect(q) PROVE FALSE
        BY <3>5 DEF B!Connect
      <3> QED
        BY <3>1, <3>2, <3>3, <3>4, <3>5, Zenon DEF B!Next
    <2>2. p \notin B!Known
      BY <2>1 DEF B!NewContact
    <2>3. PICK w \in whole : /\ B!Current(w) /\ B!Refreshed(w)
                             /\ B!Seen(w.from, w.upto) = {p}
      BY DEF B!Alone
    <2>4. Lone(w.from, p)
      BY <2>3 DEF BaseInv, WholeHeld, B!Current, Current
    <2> QED
      BY <2>2, <2>4 DEF Lone, B!Known, B!Contact
  <1> QED
    BY BaseAlways, <1>1, PTL DEF B!Spec, SoleContactIsKnown, B!SoleContactIsKnown

-----------------------------------------------------------------------------
(* The types of all five: the runs of MCDetections are runs of each        *)
(* component that stutter while another moves.                             *)

LEMMA EachOfDetections ==
  MCSpec => Spec /\ H!Spec /\ A!Spec /\ F!Spec /\ B!Spec
  <1> DEFINE moved == <<side, vars, hits, assets, flows, base>>
  <1>1. MCInit => Init /\ H!Init /\ A!Init /\ F!Init /\ B!Init
    BY DEF MCInit
  <1>2. [MCNext]_moved => [Next]_vars
    BY DEF MCNext
  <1>3. [MCNext]_moved => [H!Next]_H!vars
    BY DEF MCNext, hits, H!vars
  <1>4. [MCNext]_moved => [A!Next]_A!vars
    BY DEF MCNext, assets, A!vars
  <1>5. [MCNext]_moved => [F!Next]_F!vars
    BY DEF MCNext, flows, F!vars
  <1>6. [MCNext]_moved => [B!Next]_B!vars
    BY DEF MCNext, base, B!vars
  <1> QED
    BY <1>1, <1>2, <1>3, <1>4, <1>5, <1>6, PTL
       DEF MCSpec, Spec, H!Spec, A!Spec, F!Spec, B!Spec

(* Assets.                                                                 *)
AssetBounds == assetClock \in 1..AssetTime /\ dirty \subseteq Ips

LEMMA AssetsTyped == A!Spec => []A!TypeOK
  <1>1. A!Init => AssetBounds
    BY AssetsAssumption DEF A!Init, AssetBounds
  <1>2. AssetBounds /\ [A!Next]_A!vars => AssetBounds'
    <2> SUFFICES ASSUME AssetBounds, [A!Next]_A!vars PROVE AssetBounds'
      BY Zenon
    <2> USE AssetsAssumption DEF AssetBounds
    <2>1. ASSUME NEW j \in Jobs, NEW x \in Ips,
                 \/ \E mac \in Macs : A!StartDhcp(j, x, mac)
                 \/ \E kind \in A!Kinds : A!StartOther(j, kind, x)
                 \/ \E b \in BOOLEAN : A!StartTrust(j, x, b)
                 \/ \E name \in Names : A!StartName(j, x, name)
                 \/ A!StartFlush(j, x)
          PROVE  AssetBounds'
      BY <2>1 DEF A!StartDhcp, A!StartOther, A!StartTrust, A!StartName, A!StartFlush, A!Start
    <2>2. ASSUME NEW j \in Jobs, A!Read(j) \/ A!Write(j) PROVE AssetBounds'
      BY <2>2 DEF A!Read, A!Write
    <2>3. ASSUME NEW x \in Ips,
                 (\E mac \in Macs : A!Arp(x, mac)) \/ A!Expire(x) \/ A!Flag(x)
          PROVE  AssetBounds'
      BY <2>3 DEF A!Arp, A!Expire, A!Flag
    <2>4. CASE A!Tick
      BY <2>4 DEF A!Tick
    <2>5. CASE UNCHANGED A!vars
      BY <2>5 DEF A!vars
    <2> QED
      BY <2>1, <2>2, <2>3, <2>4, <2>5 DEF A!Next
  <1>3. AssetInv /\ AssetBounds => A!TypeOK
    BY DEF AssetInv, AssetBounds, RowsApart, AssetTypes, HashFits, WantedFits, AssetRows, A!TypeOK
  <1> QED
    BY <1>1, <1>2, <1>3, AssetAlways, PTL DEF A!Spec

(* Baselines.                                                              *)
BaseBounds ==
  /\ baseClock \in BaseDay..BaseTime /\ baseLeader \in Engines \cup {Nobody}
  /\ due \in [Engines -> Int] /\ \A e \in Engines : due[e] <= baseClock + BaseDay
  /\ \A r \in table : r.value \in (IF r.metric = "ext_contact" THEN Peers ELSE {"none"})
  /\ contacts \subseteq Peers \X (BaseDay..BaseTime) /\ told \subseteq B!Seen(baseClock, baseClock)
  /\ baseFaults \in 0..BaseFaults

LEMMA SeenFacts ==
  /\ \A x, y : B!Seen(x, y) = {ev[1] : ev \in {c \in contacts : c[2] \in x .. y}}
  /\ contacts \subseteq Peers \X (BaseDay..BaseTime) => \A x, y : B!Seen(x, y) \subseteq Peers
  BY DEF B!Seen

LEMMA BaseBoundsStep ==
  BaseInv /\ BaseBounds /\ [B!Next]_B!vars => BaseBounds'
  <1> SUFFICES ASSUME BaseInv, BaseBounds, [B!Next]_B!vars PROVE BaseBounds'
    BY Zenon
  <1>a. BaseDay \in Nat \ {0} /\ BaseTime \in Nat /\ BaseFaults \in Nat
    BY BaselinesAssumption
  <1>1. ASSUME NEW j \in jobs, B!Compute(j) PROVE BaseBounds'
    <2>1. /\ UNCHANGED <<baseClock, baseLeader, due, contacts, told>>
          /\ baseFaults' \in 0..BaseFaults
      BY <1>1, <1>a DEF B!Compute, BaseBounds
    <2>2. \A r \in B!RowsOf(j) : r.value \in (IF r.metric = "ext_contact" THEN Peers ELSE {"none"})
      <3>1. B!Seen(j.from, j.upto) \subseteq Peers
        BY SeenFacts DEF BaseBounds
      <3>2. \A x : /\ x = "ext_contact" => B!Values(x, B!Seen(j.from, j.upto)) \subseteq Peers
                   /\ x # "ext_contact" => B!Values(x, B!Seen(j.from, j.upto)) \subseteq {"none"}
        BY <3>1 DEF B!Values, B!Contact, B!NoPeer
      <3> QED
        BY <3>2 DEF B!RowsOf
    <2>3. \A r \in table' : r.value \in (IF r.metric = "ext_contact" THEN Peers ELSE {"none"})
      BY <1>1, <2>2 DEF B!Compute, BaseBounds
    <2> QED
      BY <2>1, <2>3 DEF BaseBounds, B!Seen
  <1>2. ASSUME NEW j \in jobs, B!Finish(j) PROVE BaseBounds'
    BY <1>2 DEF B!Finish, BaseBounds, B!Seen
  <1>3. CASE B!Merge
    <2>1. table' \subseteq table /\ UNCHANGED <<baseClock, baseLeader, due, contacts, told, baseFaults>>
      BY <1>3 DEF B!Merge
    <2> QED
      BY <2>1 DEF BaseBounds, B!Seen
  <1>4. ASSUME NEW r \in table, B!Expire(r) PROVE BaseBounds'
    BY <1>4 DEF B!Expire, BaseBounds, B!Seen
  <1>5. ASSUME NEW e \in Engines, B!Refresh(e) PROVE BaseBounds'
    <2>1. /\ UNCHANGED <<baseClock, baseLeader, contacts, table, told, baseFaults>>
          /\ due' = [due EXCEPT ![e] = baseClock + BaseDay]
      BY <1>5 DEF B!Refresh
    <2>2. due' \in [Engines -> Int] /\ \A x \in Engines : due'[x] <= baseClock + BaseDay
      BY <2>1, <1>a DEF BaseBounds
    <2> QED
      BY <2>1, <2>2 DEF BaseBounds, B!Seen
  <1>6. ASSUME NEW e \in Engines, B!Bootstrap(e) \/ B!Spike(e) \/ B!Elected(e) PROVE BaseBounds'
    BY <1>6 DEF B!Bootstrap, B!Spike, B!Elected, BaseBounds, B!Seen
  <1>7. ASSUME NEW e \in Engines, B!NewContact(e) PROVE BaseBounds'
    BY <1>7 DEF B!NewContact, BaseBounds, B!Seen
  <1>8. ASSUME NEW e \in Engines, B!Restart(e) PROVE BaseBounds'
    <2>1. /\ UNCHANGED <<baseClock, contacts, table, told>>
          /\ due' = [due EXCEPT ![e] = baseClock]
          /\ baseLeader' \in Engines \cup {Nobody} /\ baseFaults' \in 0..BaseFaults
      BY <1>8, <1>a DEF B!Restart, BaseBounds
    <2>2. due' \in [Engines -> Int] /\ \A x \in Engines : due'[x] <= baseClock + BaseDay
      BY <2>1, <1>a DEF BaseBounds
    <2> QED
      BY <2>1, <2>2 DEF BaseBounds, B!Seen
  <1>9. ASSUME NEW p \in Peers, B!Connect(p) PROVE BaseBounds'
    BY <1>9 DEF B!Connect, BaseBounds, B!Seen
  <1>10. CASE B!Tick
    <2>1. /\ UNCHANGED <<baseLeader, due, contacts, table, baseFaults>> /\ told' = {}
          /\ baseClock' = baseClock + 1 /\ baseClock < BaseTime
      BY <1>10 DEF B!Tick
    <2>2. baseClock' \in BaseDay..BaseTime /\ \A e \in Engines : due[e] <= baseClock' + BaseDay
      BY <2>1, <1>a DEF BaseBounds
    <2> QED
      BY <2>1, <2>2 DEF BaseBounds
  <1>11. CASE UNCHANGED B!vars
    BY <1>11 DEF B!vars, BaseBounds, B!Seen
  <1> QED
    BY <1>1, <1>2, <1>3, <1>4, <1>5, <1>6, <1>7, <1>8, <1>9, <1>10, <1>11 DEF B!Next

LEMMA BaselinesTyped == B!Spec => []B!TypeOK
  <1>1. B!Init => BaseBounds
    BY BaselinesAssumption DEF B!Init, BaseBounds
  <1>2. BaseInv /\ BaseBounds => B!TypeOK
    <2> SUFFICES ASSUME BaseInv, BaseBounds PROVE B!TypeOK
      OBVIOUS
    <2>1. \A j \in jobs : j.id < started /\ Len(j.left) <= Len(BaseMetrics)
      <3> SUFFICES ASSUME NEW j \in jobs PROVE j.id < started /\ Len(j.left) <= Len(BaseMetrics)
        OBVIOUS
      <3>1. j.id < started /\ j.left \in {BaseMetrics, <<"ext_contact">>, <<>>}
        BY DEF BaseInv, BaseTypes, JobsFit, JobRecords
      <3>2. ASSUME NEW l \in {BaseMetrics, <<"ext_contact">>, <<>>} PROVE Len(l) <= Len(BaseMetrics)
        <4>1. Len(BaseMetrics) = 2
          BY DEF BaseMetrics
        <4>2. Len(<<"ext_contact">>) = 1
          OBVIOUS
        <4>3. Len(<<>>) = 0
          OBVIOUS
        <4>4. Len(l) \in 0..2
          <5>1. CASE l = BaseMetrics
            BY <4>1, <5>1
          <5>2. CASE l = <<"ext_contact">>
            BY <4>2, <5>2
          <5>3. CASE l = <<>>
            BY <4>3, <5>3
          <5> QED
            BY <3>2, <5>1, <5>2, <5>3, Zenon
        <4>5. \A x \in 0..2 : x <= 2
          OBVIOUS
        <4>6. Len(l) <= 2
          BY <4>4, <4>5, Zenon
        <4> QED
          BY <4>1, <4>6, Zenon
      <3>3. \A l \in {BaseMetrics, <<"ext_contact">>, <<>>} : Len(l) <= Len(BaseMetrics)
        BY <3>2
      <3> QED
        BY <3>1, <3>3
    <2> QED
      BY <2>1 DEF BaseInv, BaseTypes, RowsFit, BaseBounds, BaseMetrics, B!TypeOK, B!Contact, B!NoPeer
  <1> QED
    BY <1>1, <1>2, BaseBoundsStep, BaseAlways, PTL DEF B!Spec

(* MultiFlow: a task tells of something exactly while it emits.            *)
FlowBounds ==
  /\ flowClock \in 0..FlowTime /\ leader \in FlowEngines \cup {Nobody}
  /\ flowHits \subseteq F!Rows /\ flowFaults \in 0..FlowFaults
Telling(u, mem) ==
  /\ (u.told # NoTask) = (u.pc = "emit")
  /\ u.pc = "start" => mem = F!Empty
Remembered(mem) == \A z \in F!Slots : mem[z] \in 0..flowClock \cup {NoTime}
FlowTold == \A t \in F!Tasks : Telling(loop[t], sup[t]) /\ Remembered(sup[t])
FlowNoted ==
  /\ noted = [g \in FlowEngines |-> noted[g]]
  /\ \A g \in FlowEngines : \A k \in DOMAIN noted[g] : noted[g][k] \in 0..flowClock
FlowTyped == FlowBounds /\ FlowTold /\ FlowNoted

LEMMA OneTold ==
  ASSUME FlowTold, NEW t \in F!Tasks,
         UNCHANGED flowClock,
         \A y \in F!Tasks \ {t} : loop'[y] = loop[y] /\ sup'[y] = sup[y],
         Telling(loop'[t], sup'[t]), Remembered(sup'[t])
  PROVE  FlowTold'
  BY DEF FlowTold, Telling, Remembered

LEMMA FlowLoads ==
  ASSUME FlowsInv, FlowTyped, NEW t \in F!Tasks, F!Load(t) PROVE FlowTyped'
  <1> USE DEF FlowTyped
  <1>1. /\ loop \in [F!Tasks -> FlowTasks(flowHits)]
        /\ sup \in [F!Tasks -> [F!Slots -> Nat \cup {NoTime}]]
        /\ flowClock \in Nat /\ \A h \in flowHits : RowFits(h)
    BY DEF FlowsInv, FlowTypes
  <1>2. FlowBounds' /\ FlowNoted' /\ UNCHANGED flowClock
    <2>1. UNCHANGED <<flowClock, leader, noted, flowHits>>
      BY DEF F!Load
    <2>2. flowFaults' = flowFaults \/ (flowFaults < FlowFaults /\ flowFaults' = flowFaults + 1)
      BY DEF F!Load
    <2>3. flowFaults' \in 0..FlowFaults
      BY <2>2, FlowsAssumption DEF FlowBounds
    <2> QED
      BY <2>1, <2>3 DEF FlowBounds, FlowNoted
  <1>3. loop[t].pc = "start" /\ Telling(loop[t], sup[t]) /\ Remembered(sup[t])
    BY DEF F!Load, FlowTold
  <1>4. loop[t].told = NoTask
    BY <1>3 DEF Telling
  <1>5. PICK u : /\ loop' = [loop EXCEPT ![t] = u] /\ u.pc = "idle" /\ u.told = NoTask
    <2>1. CASE \E first \in SUBSET {h \in flowHits : F!Recent(h)} :
                 loop' = [loop EXCEPT ![t] = [loop[t] EXCEPT !.pc = "idle", !.loaded = first]]
      <3>1. PICK first : loop' = [loop EXCEPT ![t] = [loop[t] EXCEPT !.pc = "idle", !.loaded = first]]
        BY <2>1
      <3>2. PICK u : u = [loop[t] EXCEPT !.pc = "idle", !.loaded = first]
        OBVIOUS
      <3>3. u.pc = "idle" /\ u.told = NoTask
        BY <1>1, <1>4, <3>2 DEF FlowTasks
      <3> QED
        BY <3>1, <3>2, <3>3
    <2>2. CASE loop' = [loop EXCEPT ![t].pc = "idle"]
      <3>1. PICK u : u = [loop[t] EXCEPT !.pc = "idle"]
        OBVIOUS
      <3>2. u.pc = "idle" /\ u.told = NoTask
        BY <1>1, <1>4, <3>1 DEF FlowTasks
      <3> QED
        BY <2>2, <3>1, <3>2
    <2> QED
      BY <2>1, <2>2 DEF F!Load
  <1>6. Remembered(sup'[t]) /\ \A y \in F!Tasks \ {t} : sup'[y] = sup[y]
    <2>1. CASE UNCHANGED sup
      BY <1>3, <2>1
    <2>2. ASSUME NEW first \in SUBSET flowHits, sup' = [sup EXCEPT ![t] = F!Seeded(first)]
          PROVE  Remembered(sup'[t]) /\ \A y \in F!Tasks \ {t} : sup'[y] = sup[y]
      <3>1. sup'[t] = F!Seeded(first) /\ \A y \in F!Tasks \ {t} : sup'[y] = sup[y]
        BY <1>1, <2>2
      <3>2. ASSUME NEW z \in F!Slots PROVE F!Seeded(first)[z] \in 0..flowClock \cup {NoTime}
        <4>1. CASE \E h \in first : F!LoadedSlot(h) = z
          <5>1. PICK h \in first : h = CHOOSE x \in first : F!LoadedSlot(x) = z
            BY <4>1
          <5>2. F!Seeded(first)[z] = h.at
            BY <4>1, <5>1 DEF F!Seeded
          <5>3. h.at \in Nat /\ h.at <= flowClock
            BY <1>1 DEF RowFits
          <5> QED
            BY <1>1, <5>2, <5>3
        <4>2. CASE ~ \E h \in first : F!LoadedSlot(h) = z
          BY <4>2 DEF F!Seeded
        <4> QED
          BY <4>1, <4>2
      <3> QED
        BY <3>1, <3>2 DEF Remembered
    <2> QED
      BY <2>1, <2>2 DEF F!Load
  <1>7. \A y \in F!Tasks \ {t} : loop'[y] = loop[y]
    BY <1>1, <1>5
  <1>8. loop'[t] = u
    BY <1>1, <1>5
  <1>9. Telling(loop'[t], sup'[t])
    BY <1>5, <1>8 DEF Telling
  <1> QED
    BY <1>2, <1>6, <1>7, <1>9, OneTold

LEMMA FlowRounds ==
  ASSUME FlowsInv, FlowTyped, NEW t \in F!Tasks, F!Begin(t) \/ F!End(t) PROVE FlowTyped'
  <1> USE DEF FlowTyped
  <1>1. loop \in [F!Tasks -> FlowTasks(flowHits)]
    BY DEF FlowsInv, FlowTypes
  <1>2. FlowBounds' /\ FlowNoted' /\ UNCHANGED <<flowClock, sup>>
    BY DEF F!Begin, F!End, FlowBounds, FlowNoted
  <1>3. PICK p \in {"run", "idle"} :
          loop[t].pc \in {"run", "idle"} /\ loop' = [loop EXCEPT ![t].pc = p]
    BY DEF F!Begin, F!End
  <1>4. PICK u : u = [loop[t] EXCEPT !.pc = p]
    OBVIOUS
  <1>5. loop' = [loop EXCEPT ![t] = u]
    BY <1>3, <1>4
  <1>6. u.pc = p /\ u.told = loop[t].told
    BY <1>1, <1>4 DEF FlowTasks
  <1>7. loop'[t] = u /\ \A y \in F!Tasks \ {t} : loop'[y] = loop[y]
    BY <1>1, <1>5
  <1>8. Telling(loop[t], sup[t]) /\ Remembered(sup[t])
    BY DEF FlowTold
  <1>9. Telling(u, sup[t])
    BY <1>3, <1>6, <1>8 DEF Telling
  <1> QED
    BY <1>2, <1>7, <1>8, <1>9, OneTold

LEMMA FlowDetects ==
  ASSUME FlowsInv, FlowTyped, NEW t \in F!Tasks, NEW x \in F!Detectors, NEW f \in F!Findings(x),
         F!Detect(t, x, f)
  PROVE  FlowTyped'
  <1> USE DEF FlowTyped
  <1>1. /\ loop \in [F!Tasks -> FlowTasks(flowHits)]
        /\ sup \in [F!Tasks -> [F!Slots -> Nat \cup {NoTime}]] /\ flowClock \in Nat
    BY DEF FlowsInv, FlowTypes
  <1>2. FlowBounds' /\ FlowNoted' /\ UNCHANGED flowClock
    BY DEF F!Detect, FlowBounds, FlowNoted
  <1>3. PICK v : v = [d |-> x, f |-> f, mark |-> flowClock]
    OBVIOUS
  <1>4. v # NoTask
    BY <1>1, <1>3, FlowsAssumption
  <1>5. PICK u : u = [loop[t] EXCEPT !.pc = "emit", !.told = v]
    OBVIOUS
  <1>6. u.pc = "emit" /\ u.told = v
    BY <1>1, <1>5 DEF FlowTasks
  <1>7. loop' = [loop EXCEPT ![t] = u]
    BY <1>3, <1>5 DEF F!Detect
  <1>8. loop'[t] = u /\ \A y \in F!Tasks \ {t} : loop'[y] = loop[y]
    BY <1>1, <1>7
  <1>9. Telling(u, sup'[t])
    BY <1>4, <1>6 DEF Telling
  <1>10. /\ \A y \in F!Tasks \ {t} : sup'[y] = sup[y]
         /\ \A z \in F!Slots : sup'[t][z] \in {flowClock, sup[t][z]}
    BY <1>1, SlotFacts DEF F!Detect
  <1>11. Remembered(sup'[t])
    BY <1>1, <1>10 DEF FlowTold, Remembered
  <1> QED
    BY <1>2, <1>8, <1>9, <1>10, <1>11, OneTold

LEMMA FlowEvicts ==
  ASSUME FlowsInv, FlowTyped, NEW t \in F!Tasks, F!EvictOld(t) PROVE FlowTyped'
  <1> USE DEF FlowTyped
  <1>1. /\ loop \in [F!Tasks -> FlowTasks(flowHits)]
        /\ sup \in [F!Tasks -> [F!Slots -> Nat \cup {NoTime}]] /\ flowClock \in Nat
    BY DEF FlowsInv, FlowTypes
  <1>2. FlowBounds' /\ FlowNoted' /\ UNCHANGED <<flowClock, loop>> /\ loop[t].pc = "idle"
    BY DEF F!EvictOld, FlowBounds, FlowNoted
  <1>3. /\ \A y \in F!Tasks \ {t} : sup'[y] = sup[y]
        /\ \A z \in F!Slots : sup'[t][z] \in {NoTime, sup[t][z]}
    BY <1>1 DEF F!EvictOld
  <1>4. Telling(loop[t], sup[t]) /\ Remembered(sup[t])
    BY DEF FlowTold
  <1>5. Remembered(sup'[t])
    BY <1>3, <1>4 DEF Remembered
  <1>6. Telling(loop'[t], sup'[t])
    BY <1>2, <1>4 DEF Telling
  <1> QED
    BY <1>2, <1>3, <1>5, <1>6, OneTold

LEMMA FlowEmits ==
  ASSUME FlowsInv, FlowTyped, NEW t \in F!Tasks, F!Emit(t) PROVE FlowTyped'
  <1> USE DEF FlowTyped
  <1>1. /\ loop \in [F!Tasks -> FlowTasks(flowHits)] /\ flowClock \in Nat /\ loop[t].pc = "emit"
        /\ flowClock <= FlowTime
    BY DEF FlowsInv, FlowTypes, F!Emit, FlowBounds
  <1>2. PICK v : v = loop[t].told
    OBVIOUS
  <1>3. v \in Tellings /\ v.mark <= flowClock
    BY <1>1, <1>2 DEF FlowsInv, TellingHeld
  <1>4. PICK row1 : row1 = F!RowOf(v)
    OBVIOUS
  <1>5. row1 \in F!Rows
    <2>1. PICK x \in F!Detectors : v \in [d : {x}, f : F!Findings(x), mark : Nat]
      BY <1>3 DEF Tellings
    <2>2. /\ v.d = x /\ v.f \in F!Findings(x) /\ v.mark \in 0..FlowTime
      BY <1>1, <1>3, <2>1, FlowsAssumption
    <2>3. v.f.src \in FlowSources /\ v.f.dst \in Targets \cup {F!Nothing}
      BY <2>2 DEF F!Findings
    <2>4. row1 = [tag |-> x.tag, src |-> v.f.src, dst |-> v.f.dst, slot |-> F!Slot(x, v.f),
                 mark |-> v.mark, at |-> flowClock]
      BY <1>4, <2>2 DEF F!RowOf
    <2>5. row1 \in [tag : {x.tag}, src : FlowSources, dst : Targets \cup {F!Nothing},
                   slot : {F!Slot(x, f) : f \in F!Findings(x)} \cup {NoTime},
                   mark : 0..FlowTime, at : 0..FlowTime]
      BY <1>1, <2>2, <2>3, <2>4, FlowsAssumption
    <2> QED
      BY <2>5 DEF F!Rows
  <1>6. UNCHANGED <<flowClock, leader, sup>>
    BY DEF F!Emit
  <1>7. FlowBounds'
    <2>1. flowHits' \subseteq flowHits \cup {row1} /\ flowFaults' \in 0..FlowFaults
      BY <1>2, <1>4, FlowsAssumption DEF F!Emit, FlowBounds
    <2> QED
      BY <1>5, <1>6, <2>1 DEF FlowBounds
  <1>8. FlowNoted'
    <2>1. CASE UNCHANGED noted
      BY <1>6, <2>1 DEF FlowNoted
    <2>2. CASE noted' = F!Noted(t[1], F!MatchOf(v))
      <3>1. t[1] \in FlowEngines
        BY DEF F!Tasks
      <3>2. PICK k : k = F!MatchOf(v)
        OBVIOUS
      <3>3. PICK w : w = [x \in DOMAIN noted[t[1]] \cup {k} |->
                            IF x = k THEN flowClock ELSE noted[t[1]][x]]
        OBVIOUS
      <3>4. noted' = [noted EXCEPT ![t[1]] = w]
        BY <2>2, <3>2, <3>3 DEF F!Noted
      <3>5. /\ noted' = [g \in FlowEngines |-> noted'[g]] /\ noted'[t[1]] = w
            /\ \A g \in FlowEngines \ {t[1]} : noted'[g] = noted[g]
        BY <3>1, <3>4 DEF FlowNoted
      <3>6. \A y \in DOMAIN w : w[y] \in 0..flowClock
        BY <1>1, <3>1, <3>3 DEF FlowNoted
      <3> QED
        BY <1>6, <3>5, <3>6 DEF FlowNoted
    <2> QED
      BY <1>2, <2>1, <2>2 DEF F!Emit
  <1>9. PICK u : /\ loop' = [loop EXCEPT ![t] = u] /\ u.pc = "run" /\ u.told = NoTask
    <2>1. PICK done : done = [loop[t] EXCEPT !.pc = "run", !.told = NoTask]
      OBVIOUS
    <2>2. done \in FlowTasks(flowHits) /\ done.pc = "run" /\ done.told = NoTask
      BY <1>1, <2>1 DEF FlowTasks
    <2>3. PICK more : more = [done EXCEPT !.own = @ \cup {row1}]
      OBVIOUS
    <2>4. more.pc = "run" /\ more.told = NoTask
      BY <2>2, <2>3 DEF FlowTasks
    <2>5. loop' = [loop EXCEPT ![t] = done] \/ loop' = [loop EXCEPT ![t] = more]
      BY <1>2, <1>4, <2>1, <2>3 DEF F!Emit
    <2> QED
      BY <2>2, <2>4, <2>5
  <1>10. loop'[t] = u /\ \A y \in F!Tasks \ {t} : loop'[y] = loop[y]
    BY <1>1, <1>9
  <1>11. Telling(u, sup[t])
    BY <1>9 DEF Telling
  <1>12. Remembered(sup[t])
    BY DEF FlowTold
  <1> QED
    BY <1>6, <1>7, <1>8, <1>10, <1>11, <1>12, OneTold

LEMMA FlowEngineMoves ==
  ASSUME FlowsInv, FlowTyped, NEW g \in FlowEngines, F!Restart(g) \/ F!Elected(g) PROVE FlowTyped'
  <1> USE DEF FlowTyped
  <1>1. CASE F!Elected(g)
    BY <1>1 DEF F!Elected, FlowBounds, FlowTold, FlowNoted, Telling, Remembered
  <1>2. CASE F!Restart(g)
    <2>1. FlowBounds'
      BY <1>2, FlowsAssumption DEF F!Restart, FlowBounds
    <2>a. UNCHANGED flowClock
      BY <1>2 DEF F!Restart
    <2>b. \A t \in F!Tasks :
            /\ loop'[t] = (IF t[1] = g THEN F!Started ELSE loop[t])
            /\ sup'[t] = (IF t[1] = g THEN F!Empty ELSE sup[t])
      BY <1>2 DEF F!Restart
    <2>2. FlowTold'
      <3> SUFFICES ASSUME NEW t \in F!Tasks PROVE Telling(loop'[t], sup'[t]) /\ Remembered(sup'[t])
        BY <2>a DEF FlowTold, Telling, Remembered
      <3>1. CASE t[1] = g
        <4>1. loop'[t] = F!Started /\ sup'[t] = F!Empty
          BY <2>b, <3>1
        <4>2. F!Started.pc = "start" /\ F!Started.told = NoTask
          BY DEF F!Started
        <4>3. \A z \in F!Slots : F!Empty[z] = NoTime
          BY DEF F!Empty
        <4>4. Telling(F!Started, F!Empty)
          BY <4>2 DEF Telling
        <4>5. Remembered(F!Empty)
          BY <4>3 DEF Remembered
        <4> QED
          BY <4>1, <4>4, <4>5
      <3>2. CASE t[1] # g
        BY <2>b, <3>2 DEF FlowTold
      <3> QED
        BY <3>1, <3>2
    <2>3. FlowNoted'
      <3>1. noted' = [noted EXCEPT ![g] = <<>>] /\ UNCHANGED flowClock
        BY <1>2 DEF F!Restart
      <3>2. /\ noted' = [y \in FlowEngines |-> noted'[y]] /\ noted'[g] = <<>>
            /\ \A y \in FlowEngines \ {g} : noted'[y] = noted[y]
        BY <3>1 DEF FlowNoted
      <3>3. DOMAIN <<>> = {}
        OBVIOUS
      <3> QED
        BY <3>1, <3>2, <3>3 DEF FlowNoted
    <2> QED
      BY <2>1, <2>2, <2>3
  <1> QED
    BY <1>1, <1>2

LEMMA FlowTypedStep == FlowsInv /\ FlowTyped /\ [F!Next]_F!vars => FlowTyped'
  <1> SUFFICES ASSUME FlowsInv, FlowTyped, [F!Next]_F!vars PROVE FlowTyped'
    BY Zenon
  <1>1. CASE F!Tick
    <2>1. UNCHANGED <<leader, loop, sup, noted, flowHits, flowFaults>> /\ flowClock' = flowClock + 1
          /\ flowClock < FlowTime
      BY <1>1 DEF F!Tick
    <2>2. flowClock' \in 0..FlowTime /\ \A x \in 0..flowClock : x \in 0..flowClock'
      BY <2>1, FlowsAssumption DEF FlowTyped, FlowBounds
    <2>3. FlowBounds' /\ FlowNoted'
      BY <2>1, <2>2 DEF FlowTyped, FlowBounds, FlowNoted
    <2>4. FlowTold'
      BY <2>1, <2>2 DEF FlowTyped, FlowTold, Telling, Remembered
    <2> QED
      BY <2>3, <2>4 DEF FlowTyped
  <1>2. CASE UNCHANGED F!vars
    BY <1>2 DEF F!vars, FlowTyped, FlowBounds, FlowTold, FlowNoted, Telling, Remembered
  <1> QED
    BY <1>1, <1>2, FlowLoads, FlowRounds, FlowDetects, FlowEvicts, FlowEmits, FlowEngineMoves, Zenon
       DEF F!Next

LEMMA FlowsTyped == F!Spec => []F!TypeOK
  <1>1. F!Init => FlowTyped
    <2> SUFFICES ASSUME F!Init PROVE FlowTyped
      OBVIOUS
    <2>1. FlowBounds
      BY FlowsAssumption DEF F!Init, FlowBounds
    <2>2. FlowTold
      BY DEF F!Init, F!Started, F!Empty, FlowTold, Telling, Remembered
    <2>3. FlowNoted
      BY DEF F!Init, FlowNoted
    <2> QED
      BY <2>1, <2>2, <2>3 DEF FlowTyped
  <1>2. FlowsInv /\ FlowTyped => F!TypeOK
    <2> SUFFICES ASSUME FlowsInv, FlowTyped PROVE F!TypeOK
      OBVIOUS
    <2>1. \A t \in F!Tasks :
            /\ loop[t].pc \in {"start", "idle", "run", "emit"}
            /\ loop[t].pc = "start" => sup[t] = F!Empty /\ loop[t].own = {}
            /\ (loop[t].told # NoTask) = (loop[t].pc = "emit")
            /\ loop[t].own \cup loop[t].loaded \subseteq flowHits
            /\ \A z \in F!Slots : sup[t][z] \in 0..flowClock \cup {NoTime}
      <3> SUFFICES ASSUME NEW t \in F!Tasks
                   PROVE  /\ loop[t].pc \in {"start", "idle", "run", "emit"}
                          /\ loop[t].pc = "start" => sup[t] = F!Empty /\ loop[t].own = {}
                          /\ (loop[t].told # NoTask) = (loop[t].pc = "emit")
                          /\ loop[t].own \cup loop[t].loaded \subseteq flowHits
                          /\ \A z \in F!Slots : sup[t][z] \in 0..flowClock \cup {NoTime}
        OBVIOUS
      <3>1. loop[t] \in FlowTasks(flowHits) /\ (loop[t].pc = "start" => loop[t].own = {})
        BY DEF FlowsInv, FlowTypes
      <3>2. Telling(loop[t], sup[t]) /\ Remembered(sup[t])
        BY DEF FlowTyped, FlowTold
      <3>3. loop[t].pc \in {"start", "idle", "run", "emit"} /\ loop[t].own \cup loop[t].loaded \subseteq flowHits
        BY <3>1 DEF FlowTasks
      <3> QED
        BY <3>1, <3>2, <3>3, Zenon DEF Telling, Remembered
    <2> QED
      BY <2>1 DEF FlowTyped, FlowBounds, FlowNoted, F!TypeOK
  <1> QED
    BY <1>1, <1>2, FlowTypedStep, FlowsAlways, PTL DEF F!Spec

(* Hits.                                                                   *)
HitBounds ==
  /\ hitClock \in 0..HitTime /\ failures \in 0..MaxFailures
  /\ ai \in [Events -> {"none", "check", "asked", "done"}]
  /\ exposed \subseteq H!Hosts /\ silenced \subseteq Events
SessionsPast ==
  \A g \in Engines, c \in H!Cids : session[g][c].last \in (0..hitClock) \cup {NoTime}

(* Every rule was saved, and nothing is a rule that was not planned.       *)
OfKind(some) == \A r \in some : r.type \in H!RuleKinds
RulesCounted ==
  /\ saved \in 0..MaxRules
  /\ IsFiniteSet(rules \cup inactive) /\ Cardinality(rules \cup inactive) <= saved
  /\ OfKind(rules \cup inactive)
  /\ plan = [y \in Analysts |-> plan[y]] /\ \A y \in Analysts : OfKind(plan[y])
HitsTyped == HitBounds /\ SessionsPast /\ RulesCounted

LEMMA RuleSaved ==
  ASSUME RulesCounted, NEW r, r.type \in H!RuleKinds, H!SaveRule(r),
         plan' = plan \/ \E y \in Analysts : plan' = [plan EXCEPT ![y] = {}]
  PROVE  RulesCounted'
  <1> USE DEF RulesCounted
  <1>1. /\ saved' = saved + 1 /\ saved < MaxRules
        /\ rules' \cup inactive' = (rules \cup inactive) \cup {r}
    BY DEF H!SaveRule
  <1>2. saved' \in 0..MaxRules
    BY <1>1, HitsAssumption
  <1>3. PICK old1 : old1 = rules \cup inactive
    OBVIOUS
  <1>4. /\ IsFiniteSet(old1 \cup {r}) /\ Cardinality(old1) \in Nat
        /\ Cardinality(old1 \cup {r}) \in {Cardinality(old1), Cardinality(old1) + 1}
    BY <1>3, FS_AddElement, FS_CardinalityType
  <1>5. Cardinality(old1 \cup {r}) <= saved'
    <2>1. PICK k \in Nat, l \in Nat : k = Cardinality(old1) /\ l = Cardinality(old1 \cup {r})
      BY <1>4
    <2>2. k <= saved /\ l \in {k, k + 1} /\ saved \in Nat
      BY <1>3, <1>4, <2>1, HitsAssumption
    <2> QED
      BY <1>1, <2>1, <2>2
  <1>6. OfKind(old1 \cup {r})
    BY <1>3 DEF OfKind
  <1>7. plan' = [y \in Analysts |-> plan'[y]] /\ \A y \in Analysts : OfKind(plan'[y])
    <2>1. CASE plan' = plan
      BY <2>1 DEF OfKind
    <2>2. ASSUME NEW y \in Analysts, plan' = [plan EXCEPT ![y] = {}]
          PROVE  plan' = [x \in Analysts |-> plan'[x]] /\ \A x \in Analysts : OfKind(plan'[x])
      <3>1. plan' = [x \in Analysts |-> IF x = y THEN {} ELSE plan[x]]
        BY <2>2
      <3>2. plan' = [x \in Analysts |-> plan'[x]]
        BY <3>1
      <3>3. \A x \in Analysts : OfKind(plan'[x])
        BY <3>1 DEF OfKind
      <3> QED
        BY <3>2, <3>3
    <2> QED
      BY <2>1, <2>2
  <1> QED
    BY <1>1, <1>2, <1>3, <1>4, <1>5, <1>6, <1>7 DEF OfKind

LEMMA RulesTold ==
  ASSUME RulesCounted, UNCHANGED <<saved, plan>>, rules' \cup inactive' \subseteq rules \cup inactive
  PROVE  RulesCounted'
  <1> USE DEF RulesCounted
  <1>1. PICK old1, new1 : old1 = rules \cup inactive /\ new1 = rules' \cup inactive'
    OBVIOUS
  <1>2. /\ IsFiniteSet(new1) /\ Cardinality(new1) <= Cardinality(old1)
        /\ Cardinality(new1) \in Nat /\ Cardinality(old1) \in Nat
    BY <1>1, FS_Subset, FS_CardinalityType
  <1>3. Cardinality(new1) <= saved'
    <2>1. PICK k \in Nat, l \in Nat : k = Cardinality(old1) /\ l = Cardinality(new1)
      BY <1>2
    <2>2. l <= k /\ k <= saved /\ saved \in Nat
      BY <1>1, <1>2, <2>1, HitsAssumption
    <2> QED
      BY <2>1, <2>2
  <1> QED
    BY <1>1, <1>2, <1>3 DEF OfKind

LEMMA RulesStay ==
  ASSUME RulesCounted, UNCHANGED <<saved, rules, inactive, plan>> PROVE RulesCounted'
  BY RulesTold

LEMMA SessionsStay ==
  ASSUME HitsTyped, UNCHANGED <<hitClock, session>> PROVE SessionsPast'
  BY DEF HitsTyped, SessionsPast

LEMMA HitsConsumed ==
  ASSUME HitsInv, HitsTyped, NEW g \in Engines, NEW e \in Events, H!Consume(g, e) PROVE HitsTyped'
  <1> USE DEF HitsTyped
  <1>1. HitBounds' /\ RulesCounted'
    BY RulesStay DEF H!Consume, HitBounds
  <1>2. PICK sn : sn = H!WithEvent(session[g][e.cid], e)
    OBVIOUS
  <1>3. session' = [session EXCEPT ![g][e.cid] = sn] /\ UNCHANGED hitClock
    BY <1>2 DEF H!Consume, H!Known
  <1>4. e.cid \in H!Cids /\ hitClock \in 0..hitClock
    BY DEF H!Cids, HitBounds
  <1> HIDE DEF H!Cids
  <1>5. session \in [Engines -> [H!Cids -> SessionRecords]]
    BY DEF HitsInv, HitsTypes
  <1>6. sn.last = hitClock
    <2>1. PICK old1 \in SessionRecords : old1 = session[g][e.cid]
      BY <1>4, <1>5
    <2>2. PICK mid \in SessionRecords :
             mid = IF e.source = "z" THEN [old1 EXCEPT !.z = e] ELSE [old1 EXCEPT !.s = e]
      BY <2>1 DEF SessionRecords
    <2>3. sn = [mid EXCEPT !.last = hitClock]
      BY <1>2, <2>1, <2>2 DEF H!WithEvent
    <2> QED
      BY <2>2, <2>3 DEF SessionRecords
  <1>7. SessionsPast'
    <2> SUFFICES ASSUME NEW x \in Engines, NEW c \in H!Cids
                 PROVE  session'[x][c].last \in (0..hitClock) \cup {NoTime}
      BY <1>3 DEF SessionsPast
    <2>1. session'[x][c] = IF x = g /\ c = e.cid THEN sn ELSE session[x][c]
      BY <1>3, <1>4, <1>5
    <2> QED
      BY <1>4, <1>6, <2>1 DEF SessionsPast
  <1> QED
    BY <1>1, <1>7

LEMMA HitsSwept ==
  ASSUME HitsInv, HitsTyped, NEW g \in Engines, H!Sweep(g) PROVE HitsTyped'
  <1> USE DEF HitsTyped
  <1> HIDE DEF H!Cids
  <1>1. HitBounds' /\ RulesCounted'
    BY RulesStay DEF H!Sweep, HitBounds
  <1>2. session \in [Engines -> [H!Cids -> SessionRecords]]
    BY DEF HitsInv, HitsTypes
  <1>3. /\ UNCHANGED hitClock
        /\ session' = [session EXCEPT ![g] = [c \in H!Cids |->
             IF @[c] # H!NoSession /\ H!IsExpired(@[c]) THEN H!NoSession ELSE @[c]]]
    BY DEF H!Sweep
  <1>4. \A x \in Engines, c \in H!Cids : session'[x][c] \in {session[x][c], H!NoSession}
    BY <1>2, <1>3
  <1>5. H!NoSession.last = NoTime
    BY DEF H!NoSession
  <1>6. SessionsPast'
    BY <1>3, <1>4, <1>5 DEF SessionsPast
  <1> QED
    BY <1>1, <1>6

LEMMA HitsWorked ==
  ASSUME HitsInv, HitsTyped, NEW t \in H!Tasks,
         \/ H!Evaluate(t) \/ H!Gate(t) \/ H!Admit(t) \/ \E ok \in BOOLEAN : H!Write(t, ok)
  PROVE  HitsTyped'
  <1> USE DEF HitsTyped
  <1>1. UNCHANGED <<hitClock, session, saved, rules, inactive, plan>>
    BY DEF H!Evaluate, H!Gate, H!Admit, H!Write
  <1>2. t[1] \in Events
    BY DEF H!Tasks
  <1>3. task \in [H!Tasks -> HitTasks \cup {NoTask}]
    BY DEF HitsInv, HitsTypes
  <1>4. HitBounds'
    <2>1. CASE H!Evaluate(t)
      <3>1. /\ UNCHANGED <<failures, exposed>>
            /\ silenced' \subseteq silenced \cup {t[1]}
            /\ ai' = ai \/ ai' = [ai EXCEPT ![t[1]] = "check"]
        BY <2>1 DEF H!Evaluate, H!Trap, H!Silence, H!Score
      <3> QED
        BY <1>1, <1>2, <3>1 DEF HitBounds
    <2>2. CASE H!Gate(t) \/ H!Admit(t)
      BY <2>2 DEF H!Gate, H!Admit, HitBounds
    <2>3. ASSUME NEW ok \in BOOLEAN, H!Write(t, ok) PROVE HitBounds'
      <3>1. PICK u \in HitTasks : u = task[t]
        BY <1>3, <2>3 DEF H!Write, H!At
      <3>2. u.hit.src \in H!Hosts /\ u.hit.dst \in H!Hosts
        BY DEF HitTasks, HitRecords
      <3>3. /\ UNCHANGED <<ai, silenced>>
            /\ failures' = failures \/ (failures < MaxFailures /\ failures' = failures + 1)
            /\ exposed' \subseteq exposed \cup {u.hit.src, u.hit.dst}
        BY <2>3, <3>1 DEF H!Write
      <3>4. failures' \in 0..MaxFailures
        BY <3>3, HitsAssumption DEF HitBounds
      <3> QED
        BY <1>1, <3>2, <3>3, <3>4 DEF HitBounds
    <2> QED
      BY <2>1, <2>2, <2>3
  <1> QED
    BY <1>1, <1>4, RulesStay, SessionsStay

LEMMA HitsDecided ==
  ASSUME HitsInv, HitsTyped, NEW e \in Events,
         \/ H!CheckAi(e) \/ H!RefuseAi(e)
         \/ \E type \in {"by_sid", "by_src", "by_dst"} : H!DecideAi(e, type)
  PROVE  HitsTyped'
  <1> USE DEF HitsTyped
  <1>1. /\ UNCHANGED <<hitClock, session, failures, exposed, silenced, plan>>
        /\ \E d \in {"done", "asked"} : ai' = [ai EXCEPT ![e] = d]
    BY DEF H!CheckAi, H!RefuseAi, H!DecideAi, H!SaveRule
  <1>2. HitBounds'
    BY <1>1 DEF HitBounds
  <1>3. RulesCounted'
    <2>1. CASE H!CheckAi(e) \/ H!RefuseAi(e)
      BY <2>1, RulesStay DEF H!CheckAi, H!RefuseAi
    <2>2. ASSUME NEW type \in {"by_sid", "by_src", "by_dst"}, H!DecideAi(e, type) PROVE RulesCounted'
      <3>1. PICK r : r = H!AiRule(type, task[<<e, "correlated">>].hit)
        OBVIOUS
      <3>2. r.type \in H!RuleKinds
        BY <3>1 DEF H!AiRule, H!RuleKinds
      <3>3. H!SaveRule(r) /\ plan' = plan
        BY <2>2, <3>1 DEF H!DecideAi
      <3> QED
        BY <3>2, <3>3, RuleSaved
    <2> QED
      BY <2>1, <2>2
  <1> QED
    BY <1>1, <1>2, <1>3, SessionsStay

LEMMA RuleKindsOf ==
  /\ \A x, y : H!GroupRule(x, y).type \in H!RuleKinds
  /\ \A x : H!SessionRule(x).type \in H!RuleKinds
  BY DEF H!GroupRule, H!SessionRule, H!RuleKinds

LEMMA HitsPlanned ==
  ASSUME HitsInv, HitsTyped, NEW y \in Analysts,
         H!Apply(y) \/ \E c \in H!Cids, scope \in {"session", "pattern"} : H!Plan(y, c, scope)
  PROVE  HitsTyped'
  <1> USE DEF HitsTyped
  <1>1. UNCHANGED <<hitClock, session, failures, exposed, silenced, ai>>
    BY DEF H!Apply, H!Plan, H!SaveRule
  <1>2. HitBounds'
    BY <1>1 DEF HitBounds
  <1>3. RulesCounted'
    <2>1. CASE H!Apply(y)
      <3>1. PICK r \in plan[y] : H!SaveRule(r)
        BY <2>1 DEF H!Apply
      <3>2. r.type \in H!RuleKinds /\ plan' = [plan EXCEPT ![y] = {}]
        BY <2>1 DEF H!Apply, RulesCounted, OfKind
      <3> QED
        BY <3>1, <3>2, RuleSaved
    <2>2. ASSUME NEW c \in H!Cids, NEW scope \in {"session", "pattern"}, H!Plan(y, c, scope)
          PROVE  RulesCounted'
      <3>1. PICK r : r.type \in H!RuleKinds /\ plan' = [plan EXCEPT ![y] = {r}]
        <4>1. PICK r : r = IF scope = "session" THEN H!SessionRule(c)
                                               ELSE H!GroupRule(row[c].hit.src, row[c].hit.tag)
          OBVIOUS
        <4>2. r.type \in H!RuleKinds
          BY <4>1, RuleKindsOf
        <4>3. plan' = [plan EXCEPT ![y] = {r}]
          BY <2>2, <4>1 DEF H!Plan
        <4> QED
          BY <4>2, <4>3
      <3>2. UNCHANGED <<saved, rules, inactive>>
        BY <2>2 DEF H!Plan
      <3>3. plan' = [x \in Analysts |-> IF x = y THEN {r} ELSE plan[x]]
        BY <3>1 DEF RulesCounted
      <3>4. plan' = [x \in Analysts |-> plan'[x]]
        BY <3>3
      <3>5. \A x \in Analysts : OfKind(plan'[x])
        BY <3>1, <3>3 DEF OfKind, RulesCounted
      <3> QED
        BY <3>2, <3>4, <3>5 DEF RulesCounted, OfKind
    <2> QED
      BY <2>1, <2>2
  <1> QED
    BY <1>1, <1>2, <1>3, SessionsStay

LEMMA HitsRuled ==
  ASSUME HitsInv, HitsTyped, NEW r,
         \/ r \in rules \cup inactive /\ (H!Deactivate(r) \/ H!Delete(r))
         \/ H!CreateManual(r)
  PROVE  HitsTyped'
  <1> USE DEF HitsTyped
  <1>1. UNCHANGED <<hitClock, session, failures, exposed, silenced, ai, plan>>
    BY DEF H!Deactivate, H!Delete, H!CreateManual, H!SaveRule
  <1>2. HitBounds'
    BY <1>1 DEF HitBounds
  <1>3. RulesCounted'
    <2>1. CASE H!CreateManual(r)
      <3>1. PICK q : q.type \in H!RuleKinds /\ H!SaveRule(q)
        BY <2>1, RuleKindsOf DEF H!CreateManual
      <3> QED
        BY <1>1, <3>1, RuleSaved
    <2>2. CASE r \in rules \cup inactive /\ (H!Deactivate(r) \/ H!Delete(r))
      <3>1. UNCHANGED <<saved, plan>> /\ rules' \cup inactive' \subseteq rules \cup inactive
        BY <2>2 DEF H!Deactivate, H!Delete
      <3> QED
        BY <3>1, RulesTold
    <2> QED
      BY <2>1, <2>2
  <1> QED
    BY <1>1, <1>2, <1>3, SessionsStay

LEMMA HitsTypedStep == HitsInv /\ HitsTyped /\ [H!Next]_H!vars => HitsTyped'
  <1> SUFFICES ASSUME HitsInv, HitsTyped, [H!Next]_H!vars PROVE HitsTyped'
    BY Zenon
  <1>1. CASE H!Tick
    <2>1. /\ hitClock' = hitClock + 1 /\ hitClock < HitTime
          /\ UNCHANGED <<session, saved, rules, inactive, plan, failures, ai, exposed, silenced>>
      BY <1>1 DEF H!Tick
    <2>2. hitClock' \in 0..HitTime /\ \A x \in 0..hitClock : x \in 0..hitClock'
      BY <2>1, HitsAssumption DEF HitsTyped, HitBounds
    <2>3. HitBounds' /\ SessionsPast'
      BY <2>1, <2>2 DEF HitsTyped, HitBounds, SessionsPast
    <2> QED
      BY <2>1, <2>3, RulesStay DEF HitsTyped
  <1>2. CASE UNCHANGED H!vars
    <2>1. UNCHANGED <<hitClock, session, saved, rules, inactive, plan, failures, ai, exposed, silenced>>
      BY <1>2 DEF H!vars
    <2>2. HitBounds' /\ SessionsPast'
      BY <2>1 DEF HitsTyped, HitBounds, SessionsPast
    <2> QED
      BY <2>1, <2>2, RulesStay DEF HitsTyped
  <1>3. CASE H!Next
    BY <1>1, <1>3, HitsConsumed, HitsSwept, HitsWorked, HitsDecided, HitsPlanned, HitsRuled, Zenon
       DEF H!Next
  <1> QED
    BY <1>2, <1>3

LEMMA HitsAreTyped == H!Spec => []H!TypeOK
  <1>1. H!Init => HitsTyped
    <2> SUFFICES ASSUME H!Init PROVE HitsTyped
      OBVIOUS
    <2>1. HitBounds
      BY HitsAssumption DEF H!Init, HitBounds
    <2>2. SessionsPast
      BY DEF H!Init, H!NoSession, SessionsPast
    <2>3. RulesCounted
      <3>1. rules \cup inactive = {} /\ saved = 0 /\ plan = [y \in Analysts |-> {}]
        BY DEF H!Init
      <3>2. IsFiniteSet({}) /\ Cardinality({}) = 0
        BY FS_EmptySet
      <3>3. saved \in 0..MaxRules /\ Cardinality(rules \cup inactive) <= saved
        <4>1. Cardinality(rules \cup inactive) = 0
          BY <3>1, <3>2, Zenon
        <4>2. MaxRules \in Nat
          BY HitsAssumption
        <4> QED
          BY <3>1, <4>1, <4>2
      <3>4. plan = [y \in Analysts |-> plan[y]] /\ \A y \in Analysts : OfKind(plan[y])
        BY <3>1 DEF OfKind
      <3> QED
        BY <3>1, <3>2, <3>3, <3>4 DEF RulesCounted, OfKind
    <2> QED
      BY <2>1, <2>2, <2>3 DEF HitsTyped
  <1>2. HitsInv /\ HitsTyped => H!TypeOK
    <2> SUFFICES ASSUME HitsInv, HitsTyped PROVE H!TypeOK
      OBVIOUS
    <2>1. \A t \in H!Tasks : task[t] # NoTask => task[t].pc \in H!Pcs /\ task[t].at \in Engines
      BY DEF HitsInv, HitsTypes, HitTasks
    <2>2. H!Cardinality(rules \cup inactive) <= saved
      BY DEF HitsTyped, RulesCounted, H!Cardinality, Cardinality
    <2>3. queue \subseteq Events
      BY DEF HitsInv, HitsTypes
    <2>4. \A g \in Engines, c \in H!Cids : H!Known(g, c).last \in (0..hitClock) \cup {NoTime}
      BY DEF HitsTyped, SessionsPast, H!Known
    <2> QED
      BY <2>1, <2>2, <2>3, <2>4, Zenon
         DEF HitsTyped, HitBounds, RulesCounted, OfKind, H!TypeOK
  <1> QED
    BY <1>1, <1>2, HitsTypedStep, HitsAlways, PTL DEF H!Spec

(* For every set of callers, events, addresses, detectors and peers, and   *)
(* every bound: in all runs of the five components the variables hold what *)
(* they should.                                                            *)
THEOREM DetectionTypesCorrect == MCSpec => []TypesOK
  <1>1. MCInit => side \in {"numbers", "hits", "assets", "flows", "baselines"}
    BY DEF MCInit
  <1> DEFINE Sided == side \in {"numbers", "hits", "assets", "flows", "baselines"}
  <1>2. Sided /\ [MCNext]_<<side, vars, hits, assets, flows, base>> => Sided'
    BY DEF MCNext
  <1>3. Sided /\ TypeOK /\ H!TypeOK /\ A!TypeOK /\ F!TypeOK /\ B!TypeOK => TypesOK
    BY Zenon DEF TypesOK
  <1> QED
    BY <1>1, <1>2, <1>3, EachOfDetections, NumbersTypeCorrect, HitsAreTyped, AssetsTyped, FlowsTyped,
       BaselinesTyped, PTL DEF MCSpec
=============================================================================
