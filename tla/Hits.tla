-------------------------------- MODULE Hits --------------------------------
(***************************************************************************)
(* From a normalised event to a row of ndr_hits: the detectors that store  *)
(* a hit at once, the correlator that pairs Zeek and Suricata events of a  *)
(* flow, the gates in front of the table, and the suppressions that the AI *)
(* and analysts add meanwhile.  ndr_hits is a ReplacingMergeTree with one  *)
(* row per flow, that of the newest second.                                *)
(***************************************************************************)
EXTENDS Integers, FiniteSets

CONSTANTS
  Events,      \* [cid, source, src, dst, tag, sig, band, ti, trap] and, for a
               \* detector: direct, which one, and found, its severity
  Engines,
  Analysts,
  NoEvent, NoTask, NoRow, NoSig, NoTime,
  SessionTTL,  \* lifetime of a correlator session
  Window,      \* HIT_WINDOW_SECS
  MaxTime,     \* bound on the clock
  MaxRules,    \* bound on the suppressions ever saved
  MaxFailures  \* bound on failed inserts

VARIABLES
  now,
  queue,    \* events not yet consumed
  session,  \* CorrelationEngine.sessions of each engine
  task,     \* the spawned work of each event on its two paths
  seen,     \* HitWindow.seen of each engine
  row,      \* the row of each flow that counts
  rules,    \* live suppressions
  inactive, \* deactivated ones
  saved,    \* suppressions ever saved
  ai,       \* auto-suppression task of each event
  plan,     \* what each analyst was shown
  failures,
  exposed,  \* hosts that ever had a stored hit with a threat-intel match
  silenced  \* events of such hosts dropped before storage

vars == <<now, queue, session, task, seen, row, rules, inactive, saved, ai, plan, failures,
          exposed, silenced>>

Cids == {e.cid : e \in Events}
Paths == {"direct", "correlated"}
Tasks == Events \X Paths
Sources == {"z", "s"}
Bands == <<"noise", "low", "high", "critical">>
Rank(b) == CHOOSE i \in DOMAIN Bands : Bands[i] = b
Higher(a, b) == IF Rank(a) >= Rank(b) THEN a ELSE b
Key(h) == <<h.src, h.dst, h.tag>>
KeysOf == {Key(e) : e \in Events}
Hosts == {e.src : e \in Events} \union {e.dst : e \in Events}

NoSession == [z |-> NoEvent, s |-> NoEvent, last |-> NoTime]
GroupRule(ip, tag) == [type |-> "group", sig |-> NoSig, ip |-> ip, tag |-> tag, cid |-> "any"]
SessionRule(cid) == [type |-> "session", sig |-> NoSig, ip |-> "any", tag |-> "any", cid |-> cid]
AiRule(type, h) ==
  [type |-> type, sig |-> h.sig, tag |-> "any", cid |-> h.cid,
   ip |-> CASE type = "by_dst" -> h.dst [] type = "by_src" -> h.src [] OTHER -> "any"]

Init ==
  /\ now = 0
  /\ queue = Events
  /\ session = [g \in Engines |-> [c \in Cids |-> NoSession]]
  /\ task = [t \in Tasks |-> NoTask]
  /\ seen = [g \in Engines |-> [k \in KeysOf |-> NoTime]]
  /\ row = [c \in Cids |-> NoRow]
  /\ rules = {} /\ inactive = {} /\ saved = 0
  /\ ai = [e \in Events |-> "none"]
  /\ plan = [a \in Analysts |-> {}]
  /\ failures = 0
  /\ exposed = {} /\ silenced = {}

-----------------------------------------------------------------------------
(* Consuming an event.                                                     *)

Hit(e, status) ==
  [cid |-> e.cid, src |-> e.src, dst |-> e.dst, tag |-> e.tag, sig |-> e.sig,
   band |-> e.band, ti |-> e.ti, status |-> status]

(* A hit of both sources: flow data from Zeek, the alert from Suricata.    *)
Combined(z, s) ==
  [Hit(z, "corroborated") EXCEPT !.sig = s.sig, !.band = Higher(z.band, s.band),
                                 !.ti = z.ti \/ s.ti]

(* CorrelationEngine::process: with both sources known the hit is          *)
(* corroborated, otherwise the one source fires alone.                     *)
Known(g, c) == session[g][c]
WithEvent(sn, e) == [(IF e.source = "z" THEN [sn EXCEPT !.z = e] ELSE [sn EXCEPT !.s = e])
                       EXCEPT !.last = now]
Process(sn, e) ==
  CASE sn.z # NoEvent /\ sn.s # NoEvent -> Combined(sn.z, sn.s)
    [] OTHER -> Hit(e, IF e.source = "z" THEN "agent_z_only" ELSE "agent_s_only")

(* The detectors that need no second source.  A hash, a JA3 fingerprint or *)
(* a domain of a feed is HIGH, HTTPS to a DNS resolver MEDIUM; an alert of *)
(* Suricata's severity 1 or 2 has its own severity, which is the least     *)
(* that a Sigma rule on a Zeek event gives.                                *)
OfFeed(e, status) == [Hit(e, status) EXCEPT !.band = "high", !.ti = TRUE, !.sig = NoSig]
HashHit(e) == OfFeed(e, "hash_match")
Ja3Hit(e) == OfFeed(e, "ja3_match")
DomainHit(e) == OfFeed(e, "domain_match")
DohHit(e) == [Hit(e, "doh_evasion") EXCEPT !.band = "low", !.ti = FALSE, !.sig = NoSig]
SuricataHit(e) == [Hit(e, "agent_s_only") EXCEPT !.band = e.found]
SigmaHit(e) == [Hit(e, "zeek_only") EXCEPT !.band = Higher(e.band, e.found), !.sig = NoSig]
DirectHit(e) ==
  CASE e.direct = "hash" -> HashHit(e)
    [] e.direct = "ja3" -> Ja3Hit(e)
    [] e.direct = "domain" -> DomainHit(e)
    [] e.direct = "doh" -> DohHit(e)
    [] e.direct = "suricata" -> SuricataHit(e)
    [] e.direct = "sigma" -> SigmaHit(e)

Spawn(g, pc, h) == [pc |-> pc, at |-> g, got |-> now, ver |-> now, adm |-> NoTime, hit |-> h]

Consume(g, e) ==
  LET sn == WithEvent(Known(g, e.cid), e)
  IN /\ e \in queue
     /\ queue' = queue \ {e}
     /\ session' = [session EXCEPT ![g][e.cid] = sn]
     /\ task' = [task EXCEPT
          ![<<e, "direct">>] = IF e.direct = "none" THEN NoTask ELSE Spawn(g, "gate", DirectHit(e)),
          ![<<e, "correlated">>] = Spawn(g, "score", Process(sn, e))]
     /\ UNCHANGED <<now, seen, row, rules, inactive, saved, ai, plan, failures, exposed, silenced>>

IsExpired_Early(sn) == now - sn.last >= SessionTTL            \* mutant
IsExpired(sn) == now - sn.last > SessionTTL

(* sweep_expired *)
Sweep(g) ==
  /\ \E c \in Cids : Known(g, c) # NoSession /\ IsExpired(Known(g, c))
  /\ session' = [session EXCEPT ![g] = [c \in Cids |->
       IF @[c] # NoSession /\ IsExpired(@[c]) THEN NoSession ELSE @[c]]]
  /\ UNCHANGED <<now, queue, task, seen, row, rules, inactive, saved, ai, plan, failures,
                 exposed, silenced>>

-----------------------------------------------------------------------------
(* process_correlation_hit.                                                *)

At(t, pc) == task[t] # NoTask /\ task[t].pc = pc
Goto(t, pc) == task' = [task EXCEPT ![t].pc = pc]

IsAiSuppressed(h) ==
  \E r \in rules : /\ r.sig # NoSig /\ r.sig = h.sig
                   /\ \/ r.type = "by_sid"
                      \/ r.type = "by_dst" /\ r.ip = h.dst
                      \/ r.type = "by_src" /\ r.ip = h.src

(* A honeypot hit is CRITICAL and skips the rest.                          *)
Trap(t) ==
  /\ At(t, "score") /\ t[1].trap
  /\ task' = [task EXCEPT ![t].pc = "gate", ![t].ver = now,
                          ![t].hit = [@ EXCEPT !.band = "critical", !.tag = "honeypot"]]
  /\ UNCHANGED <<ai, silenced>>

(* A hit of a suppressed signature is dropped before it is stored.         *)
Silence(t) ==
  /\ At(t, "score") /\ ~ t[1].trap
  /\ IsAiSuppressed(task[t].hit)
  /\ Goto(t, "silenced")
  /\ silenced' = IF task[t].hit.src \in exposed THEN silenced \union {t[1]} ELSE silenced
  /\ UNCHANGED ai

(* So is one below the store threshold, or a probe's own traffic.  Any     *)
(* other is given to the insert task, and one with an alert to the         *)
(* auto-suppression task.                                                  *)
Score(t) ==
  LET h == task[t].hit
  IN /\ At(t, "score") /\ ~ t[1].trap
     /\ ~ IsAiSuppressed(h)
     /\ IF h.band = "noise"
        THEN /\ Goto(t, "below")
             /\ UNCHANGED ai
        ELSE /\ task' = [task EXCEPT ![t].pc = "gate", ![t].ver = now]
             /\ ai' = IF h.sig # NoSig THEN [ai EXCEPT ![t[1]] = "check"] ELSE ai
     /\ UNCHANGED silenced

Evaluate(t) ==
  /\ Trap(t) \/ Silence(t) \/ Score(t)
  /\ UNCHANGED <<now, queue, session, seen, row, rules, inactive, saved, plan, failures, exposed>>

-----------------------------------------------------------------------------
(* insert_hit_for_tenant.                                                  *)

GroupSuppressed(h) == \E r \in rules : r.type = "group" /\ r.ip = h.src /\ r.tag = h.tag
Critical(h) == h.band = "critical"

(* Gate 1: a suppressed hit is not stored, unless it is CRITICAL.          *)
Gate(t) ==
  LET h == task[t].hit
  IN /\ At(t, "gate")
     /\ Goto(t, IF Critical(h) THEN "write" ELSE IF GroupSuppressed(h) THEN "hidden" ELSE "window")
     /\ UNCHANGED <<now, queue, session, seen, row, rules, inactive, saved, ai, plan, failures,
                    exposed, silenced>>

Last(t) == seen[task[t].at][Key(task[t].hit)]

InWindow_Ever(t) == TRUE                                      \* mutant
InWindow(t) == now - Last(t) < Window

Take(t) ==
  /\ seen' = [seen EXCEPT ![task[t].at][Key(task[t].hit)] = now]
  /\ task' = [task EXCEPT ![t].pc = "write", ![t].adm = now]

(* Gate 2, HitWindow::admit: it looks the key up, and inserts a new one    *)
(* in a second step.                                                       *)
Admit(t) ==
  /\ \/ /\ At(t, "window") /\ Last(t) # NoTime
        /\ IF InWindow(t) THEN Goto(t, "repeat") /\ UNCHANGED seen ELSE Take(t)
     \/ /\ At(t, "window") /\ Last(t) = NoTime
        /\ Goto(t, "claim") /\ UNCHANGED seen
     \/ At(t, "claim") /\ Take(t)
  /\ UNCHANGED <<now, queue, session, row, rules, inactive, saved, ai, plan, failures,
                 exposed, silenced>>

(* The row of the flow: the newest second, of equals the last inserted.    *)
Write(t, ok) ==
  LET h == task[t].hit
  IN /\ At(t, "write")
     /\ IF ok
        THEN /\ row' = IF row[h.cid] = NoRow \/ row[h.cid].ver <= task[t].ver
                       THEN [row EXCEPT ![h.cid] = [ver |-> task[t].ver, hit |-> h]] ELSE row
             /\ exposed' = IF h.ti THEN exposed \union {h.src, h.dst} ELSE exposed
             /\ UNCHANGED failures
        ELSE /\ failures < MaxFailures
             /\ failures' = failures + 1
             /\ UNCHANGED <<row, exposed>>
     /\ Goto(t, IF ok THEN "stored" ELSE "failed")
     /\ UNCHANGED <<now, queue, session, seen, rules, inactive, saved, ai, plan, silenced>>

-----------------------------------------------------------------------------
(* Suppressions.                                                           *)

(* save_ai_suppression *)
SaveRule(r) ==
  /\ saved < MaxRules
  /\ saved' = saved + 1
  /\ rules' = rules \union {r}
  /\ UNCHANGED <<now, queue, session, task, seen, row, inactive, failures, exposed, silenced>>

Rows == {row[c].hit : c \in {d \in Cids : row[d] # NoRow}}
HostHasThreatIntelHit(ip) == \E h \in Rows : h.ti /\ ip \in {h.src, h.dst}
AlreadyDecided(h) == \E r \in rules \union inactive : r.sig = h.sig /\ r.ip = h.dst

(* The AI is asked unless the hit or its host matches threat intelligence  *)
(* or the signature was decided on.                                        *)
CheckAi(e) ==
  LET h == task[<<e, "correlated">>].hit
  IN /\ ai[e] = "check"
     /\ ai' = [ai EXCEPT ![e] =
          IF h.ti \/ HostHasThreatIntelHit(h.src) \/ IsAiSuppressed(h) \/ AlreadyDecided(h)
          THEN "done" ELSE "asked"]
     /\ UNCHANGED <<now, queue, session, task, seen, row, rules, inactive, saved, plan, failures,
                    exposed, silenced>>

(* A confident false positive is suppressed, at the engine and, by a       *)
(* sensor command, at the sensor.                                          *)
DecideAi(e, type) ==
  /\ ai[e] = "asked"
  /\ ai' = [ai EXCEPT ![e] = "done"]
  /\ SaveRule(AiRule(type, task[<<e, "correlated">>].hit))
  /\ UNCHANGED plan

RefuseAi(e) ==
  /\ ai[e] = "asked"
  /\ ai' = [ai EXCEPT ![e] = "done"]
  /\ UNCHANGED <<now, queue, session, task, seen, row, rules, inactive, saved, plan, failures,
                 exposed, silenced>>

(* protected_reason *)
Protected(h) == h.ti \/ Rank(h.band) >= Rank("high") \/ h.status = "zeek_only"
CoveredBy(r, h) ==
  \/ r.type = "group" /\ r.ip = h.src /\ r.tag = h.tag
  \/ r.type # "group" /\ r.cid = h.cid

(* suppression.rs plan and decide: nothing protected may be among the      *)
(* stored alerts the rule would hide.                                      *)
Plan(a, c, scope) ==
  LET h == row[c].hit
      r == IF scope = "session" THEN SessionRule(c) ELSE GroupRule(h.src, h.tag)
  IN /\ plan[a] = {} /\ row[c] # NoRow
     /\ \A x \in Rows : CoveredBy(r, x) => ~ Protected(x)
     /\ plan' = [plan EXCEPT ![a] = {r}]
     /\ UNCHANGED <<now, queue, session, task, seen, row, rules, inactive, saved, ai, failures,
                    exposed, silenced>>

Apply(a) ==
  /\ plan[a] # {}
  /\ \E r \in plan[a] : SaveRule(r)
  /\ plan' = [plan EXCEPT ![a] = {}]
  /\ UNCHANGED ai

(* create_manual_suppression looks at no alert.                            *)
CreateManual(h) ==
  /\ h \in Rows
  /\ SaveRule(GroupRule(h.src, h.tag)) \/ SaveRule(SessionRule(h.cid))
  /\ UNCHANGED <<ai, plan>>

(* Deactivated or expired, a rule hides nothing; only deleted is it        *)
(* forgotten.                                                              *)
Deactivate(r) ==
  /\ r \in rules
  /\ rules' = rules \ {r}
  /\ inactive' = inactive \union {r}
  /\ UNCHANGED <<now, queue, session, task, seen, row, saved, ai, plan, failures,
                 exposed, silenced>>

Delete(r) ==
  /\ rules' = rules \ {r}
  /\ inactive' = inactive \ {r}
  /\ UNCHANGED <<now, queue, session, task, seen, row, saved, ai, plan, failures,
                 exposed, silenced>>

Tick ==
  /\ now < MaxTime
  /\ now' = now + 1
  /\ UNCHANGED <<queue, session, task, seen, row, rules, inactive, saved, ai, plan, failures,
                 exposed, silenced>>

Next ==
  \/ \E g \in Engines : Sweep(g) \/ \E e \in Events : Consume(g, e)
  \/ \E t \in Tasks : \/ Evaluate(t) \/ Gate(t) \/ Admit(t)
                      \/ \E ok \in BOOLEAN : Write(t, ok)
  \/ \E e \in Events : \/ CheckAi(e) \/ RefuseAi(e)
                       \/ \E type \in {"by_sid", "by_src", "by_dst"} : DecideAi(e, type)
  \/ \E a \in Analysts : \/ Apply(a)
                         \/ \E c \in Cids, scope \in {"session", "pattern"} : Plan(a, c, scope)
  \/ \E h \in Rows : CreateManual(h)
  \/ \E r \in rules \union inactive : Deactivate(r) \/ Delete(r)
  \/ Tick

Spec == Init /\ [][Next]_vars

-----------------------------------------------------------------------------
RuleKinds == {"group", "session", "by_sid", "by_src", "by_dst"}
Pcs == {"score", "gate", "silenced", "below", "hidden", "window", "claim", "repeat",
        "write", "stored", "failed"}

(* Types of the state.                                                     *)
TypeOK ==
  /\ now \in 0..MaxTime /\ saved \in 0..MaxRules /\ failures \in 0..MaxFailures
  /\ queue \subseteq Events
  /\ \A g \in Engines, c \in Cids : Known(g, c).last \in (0..now) \union {NoTime}
  /\ \A t \in Tasks : task[t] # NoTask => task[t].pc \in Pcs /\ task[t].at \in Engines
  /\ \A r \in rules \union inactive : r.type \in RuleKinds
  /\ Cardinality(rules \union inactive) <= saved
  /\ ai \in [Events -> {"none", "check", "asked", "done"}]
  /\ exposed \subseteq Hosts /\ silenced \subseteq Events

Done(t) == task[t] # NoTask
SameMatch(h, i) == h.src = i.src /\ h.dst = i.dst /\ h.tag = i.tag

(* A hit dropped as the repeat of a match was preceded, at most a window   *)
(* before it was scored, by another hit of the same match that the same    *)
(* engine let through: a match that goes on is stored again                *)
(* (HitWindow::admit).                                                     *)
RepeatHasFirst ==
  \A t \in Tasks : At(t, "repeat") =>
    \E u \in Tasks \ {t} :
      /\ Done(u) /\ task[u].adm # NoTime
      /\ task[u].at = task[t].at /\ SameMatch(task[u].hit, task[t].hit)
      /\ task[t].ver - task[u].adm < Window

(* Zeek's and Suricata's view of one flow, handled by one engine within    *)
(* the session lifetime, make a corroborated hit whichever came first      *)
(* (CorrelationEngine::process, sweep_expired).                            *)
Paired(z, s) ==
  /\ z.cid = s.cid /\ z.source = "z" /\ s.source = "s"
  /\ LET a == task[<<z, "correlated">>] b == task[<<s, "correlated">>]
     IN /\ a # NoTask /\ b # NoTask
        /\ a.at = b.at
        /\ a.got - b.got \in (-SessionTTL)..SessionTTL
OneEngineCorroborates ==
  \A z, s \in Events : Paired(z, s) =>
    \E e \in {z, s} : task[<<e, "correlated">>].hit.status = "corroborated"

-----------------------------------------------------------------------------
(* Statements that this code does not keep: TLC finds a counterexample to  *)
(* each (README).                                                          *)

(* No alert of a host with a stored threat-intel match is dropped by an    *)
(* automatic suppression: "An already-confirmed compromised host must      *)
(* never have its alerts suppressed" (process_correlation_hit).            *)
InfectedHostIsShown == silenced = {}

(* Of the whole deployment: both views of a flow are correlated whichever  *)
(* engine gets them (config/vector.toml, on routing by community id).      *)
FlowIsCorrelated ==
  \A z, s \in Events :
    LET a == task[<<z, "correlated">>] b == task[<<s, "correlated">>]
    IN z.cid = s.cid /\ z.source = "z" /\ s.source = "s" /\ a # NoTask /\ b # NoTask
         /\ a.got = b.got
       => "corroborated" \in {a.hit.status, b.hit.status}

(* A match is stored at most once in a window by each engine               *)
(* (HIT_WINDOW_SECS).                                                      *)
OncePerWindow ==
  \A t, u \in Tasks :
    /\ t # u /\ Done(t) /\ Done(u)
    /\ task[t].adm # NoTime /\ task[u].adm # NoTime
    /\ task[t].at = task[u].at /\ SameMatch(task[t].hit, task[u].hit)
    => task[t].adm - task[u].adm \notin (1 - Window)..(Window - 1)

(* A stored protected alert is never hidden (suppression.rs).              *)
ProtectedStaysVisible ==
  \A c \in Cids : row[c] # NoRow /\ Protected(row[c].hit)
    => \A r \in rules : ~ CoveredBy(r, row[c].hit)
=============================================================================
