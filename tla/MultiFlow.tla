----------------------------- MODULE MultiFlow -----------------------------
(***************************************************************************)
(* The multi-flow detectors of one tenant: each engine runs two tasks, and *)
(* the leader's tasks query the stored events again and again.  A task     *)
(* remembers in memory which finding it has told of, and seeds its memory  *)
(* at start from the hits in the database.  What the queries find is left  *)
(* open: any finding may come at any time.                                 *)
(***************************************************************************)
EXTENDS Integers, FiniteSets

CONSTANTS
  Engines,
  Sources, Targets,   \* src_ip; dst_ip or the queried domain
  Used,               \* names of the detectors of the instance
  Nobody, NoTime, NoTask,
  HitWindow,          \* HIT_WINDOW_SECS
  Short, Long, Day,   \* the suppression windows of 30 and 60 minutes and 24 hours
  MaxTime,            \* bound on the clock
  MaxHits,            \* bound on the stored hits
  MaxFaults           \* bound on restarts and failed calls

VARIABLES
  now,
  leader,   \* who leads (module LeaderElection)
  task,     \* the two loops of spawn() in each engine
  sup,      \* the SuppressMap of each
  seen,     \* HitWindow.seen of each engine
  hits,     \* the tenant's ndr_hits with a multi-flow tag
  faults

vars == <<now, leader, task, sup, seen, hits, faults>>

-----------------------------------------------------------------------------
(* The detectors: the tag of their hits, what they name (a source, a pair, *)
(* or a pair and a port), how their memory is keyed and for how long.      *)

Of(tier, tag, names, key, window) ==
  [tier |-> tier, tag |-> tag, names |-> names, key |-> key, window |-> window]

PortScan == Of("tier12", "port-scan", "source", "src", Short)
CredentialStuffing == Of("tier12", "credential-stuffing", "source", "src", Short)
LateralMovement == Of("tier12", "lateral-movement", "source", "src", Short)
DnsBeaconing == Of("tier12", "dns-beaconing", "pair", "src_dst", Long)
SlowScan == Of("tier12", "slow-scan", "source", "src", Long)
InternalRecon == Of("tier12", "internal-recon", "source", "src", Short)
DataStaging == Of("tier12", "data-staging", "source", "src", Long)
IcmpFlood == Of("tier12", "icmp-flood", "source", "src", Short)
NxdomainFlood == Of("tier12", "nxdomain-flood", "source", "src", Short)
DnsTunneling == Of("tier12", "dns-tunneling", "source", "src", Long)
TlsCertAnomaly == Of("tier12", "tls-cert-anomaly", "pair", "src-dst", Long)
ProtocolMisuse == Of("tier12", "protocol-misuse", "port", "src-port", Short)
LargeVolumeExfil == Of("tier12", "large-volume-exfil", "source", "src", Long)
VolumeAnomaly == Of("tier3", "volume-anomaly", "source", "src", Long)
NewExternalContact == Of("tier3", "new-external-contact", "pair", "src_dst", Day)
AbnormalHours == Of("tier3", "abnormal-hours", "source", "src", Long)

Detectors ==
  {d \in {PortScan, CredentialStuffing, LateralMovement, DnsBeaconing, SlowScan,
          InternalRecon, DataStaging, IcmpFlood, NxdomainFlood, DnsTunneling,
          TlsCertAnomaly, ProtocolMisuse, LargeVolumeExfil, VolumeAnomaly,
          NewExternalContact, AbnormalHours} : d.tag \in Used}

Ports == {80, 443}
Nothing == "none"
Findings(d) ==
  [src : Sources,
   dst : IF d.names = "source" THEN {Nothing} ELSE Targets,
   port : IF d.names = "port" THEN Ports ELSE {Nothing}]

(* How a detector keys a finding, and how the loader keys its stored hit:  *)
(* with a colon when the hit has a destination.                            *)
DetectionKey(d, f) ==
  CASE d.key = "src" -> <<f.src>>
    [] d.key = "src_dst" -> <<f.src, "_", f.dst>>
    [] d.key = "src-dst" -> <<f.src, "-", f.dst>>
    [] d.key = "src-port" -> <<f.src, "-", f.port>>
LoadedKey(d, h) == IF d.names = "source" THEN <<h.src>> ELSE <<h.src, ":", h.dst>>

Keys(d) ==
  {DetectionKey(d, f) : f \in Findings(d)} \union {LoadedKey(d, f) : f \in Findings(d)}
Slots == UNION {{<<d.tag, k>> : k \in Keys(d)} : d \in Detectors}
Slot(d, f) == <<d.tag, DetectionKey(d, f)>>
Empty == [s \in Slots |-> NoTime]

Tasks == Engines \X {d.tier : d \in Detectors}
Started == [pc |-> "start", own |-> {}, loaded |-> {}, told |-> NoTask]

Rows ==
  UNION {[tag : {d.tag}, src : Sources, dst : Targets \union {Nothing},
          slot : {Slot(d, f) : f \in Findings(d)} \union {NoTime},
          mark : 0..MaxTime, at : 0..MaxTime] : d \in Detectors}

(* Variables hold what they should: the memory of a task only times that   *)
(* have passed, and a task that was restarted tells of nothing until it    *)
(* has loaded.                                                             *)
TypeOK ==
  /\ now \in 0..MaxTime
  /\ leader \in Engines \union {Nobody}
  /\ \A t \in Tasks :
       /\ task[t].pc \in {"start", "idle", "run", "emit"}
       /\ task[t].pc = "start" => sup[t] = Empty /\ task[t].own = {}
       /\ (task[t].told # NoTask) = (task[t].pc = "emit")
       /\ task[t].own \union task[t].loaded \subseteq hits
       /\ \A s \in Slots : sup[t][s] \in 0..now \union {NoTime}
  /\ \A e \in Engines : \A k \in DOMAIN seen[e] : seen[e][k] \in 0..now
  /\ hits \subseteq Rows
  /\ faults \in 0..MaxFaults

Init ==
  /\ now = 0
  /\ leader = Nobody
  /\ task = [t \in Tasks |-> Started]
  /\ sup = [t \in Tasks |-> Empty]
  /\ seen = [e \in Engines |-> <<>>]
  /\ hits = {}
  /\ faults = 0

-----------------------------------------------------------------------------
(* The tasks.                                                              *)

DetectorOf(tag) == CHOOSE d \in Detectors : d.tag = tag
Recent(h) == now - h.at < DetectorOf(h.tag).window
LoadedSlot(h) == <<h.tag, LoadedKey(DetectorOf(h.tag), h)>>

Seeded_BySource(first) ==                                       \* mutant
  [s \in Slots |-> IF \E h \in first : <<h.tag, <<h.src, ":", h.dst>> >> = s THEN now ELSE NoTime]
Seeded(first) ==
  [s \in Slots |-> IF \E h \in first : LoadedSlot(h) = s
                  THEN (CHOOSE h \in first : LoadedSlot(h) = s).at ELSE NoTime]

SameSlot(first, h) == {r \in first : LoadedSlot(r) = LoadedSlot(h)}

(* load_suppressions_from_db: of several hits with one key the first row   *)
(* that the query returns counts, whichever that is; a failed query loads  *)
(* nothing.                                                                *)
Load(t) ==
  /\ task[t].pc = "start"
  /\ \/ \E first \in SUBSET {h \in hits : Recent(h)} :
          /\ \A h \in hits : Recent(h) => \E r \in first : SameSlot(first, h) = {r}
          /\ sup' = [sup EXCEPT ![t] = Seeded(first)]
          /\ task' = [task EXCEPT ![t] = [@ EXCEPT !.pc = "idle", !.loaded = first]]
          /\ UNCHANGED faults
     \/ /\ faults < MaxFaults /\ faults' = faults + 1
        /\ task' = [task EXCEPT ![t].pc = "idle"]
        /\ UNCHANGED sup
  /\ UNCHANGED <<now, leader, seen, hits>>

(* One round: only a leader begins it, and goes on when it no longer leads.*)
Begin(t) ==
  /\ task[t].pc = "idle" /\ leader = t[1]
  /\ task' = [task EXCEPT ![t].pc = "run"]
  /\ UNCHANGED <<now, leader, sup, seen, hits, faults>>

End(t) ==
  /\ task[t].pc = "run"
  /\ task' = [task EXCEPT ![t].pc = "idle"]
  /\ UNCHANGED <<now, leader, sup, seen, hits, faults>>

(* is_suppressed: the finding is marked before its hit is written.         *)
InWindow(last, window) == last # NoTime /\ now - last < window
Suppressed(t, d, f) == InWindow(sup[t][Slot(d, f)], d.window)

Detect(t, d, f) ==
  /\ task[t].pc = "run" /\ d.tier = t[2]
  /\ ~Suppressed(t, d, f)
  /\ sup' = [sup EXCEPT ![t][Slot(d, f)] = now]
  /\ task' = [task EXCEPT ![t] = [@ EXCEPT !.pc = "emit",
                                           !.told = [d |-> d, f |-> f, mark |-> now]]]
  /\ UNCHANGED <<now, leader, seen, hits, faults>>

(* evict_old, once a run is over.                                          *)
EvictOld(t) ==
  /\ task[t].pc = "idle" /\ leader = t[1]
  /\ \E s \in Slots : sup[t][s] # NoTime /\ now - sup[t][s] >= Day
  /\ sup' = [sup EXCEPT ![t] =
              [s \in Slots |-> IF InWindow(@[s], Day) THEN @[s] ELSE NoTime]]
  /\ UNCHANGED <<now, leader, task, seen, hits, faults>>

(* emit and the storage window of insert_hit_for_tenant, keyed by source,  *)
(* destination and tags: the repeats of five minutes are dropped without   *)
(* an error, and a failed insert is only logged.  No hit of these          *)
(* detectors scores 90.                                                    *)
RowOf(told) ==
  [tag |-> told.d.tag, src |-> told.f.src, dst |-> told.f.dst,
   slot |-> Slot(told.d, told.f), mark |-> told.mark, at |-> now]
MatchOf(told) == <<told.f.src, told.f.dst, told.d.tag>>
Admitted(e, k) == k \in DOMAIN seen[e] => now - seen[e][k] >= HitWindow
Noted(e, k) == [seen EXCEPT ![e] = [x \in DOMAIN seen[e] \union {k} |->
                                      IF x = k THEN now ELSE seen[e][x]]]

Emit(t) ==
  LET told == task[t].told
      done == [task[t] EXCEPT !.pc = "run", !.told = NoTask]
  IN /\ task[t].pc = "emit"
     /\ \/ /\ ~Admitted(t[1], MatchOf(told))
           /\ task' = [task EXCEPT ![t] = done]
           /\ UNCHANGED <<seen, hits, faults>>
        \/ /\ Admitted(t[1], MatchOf(told)) /\ Cardinality(hits) < MaxHits
           /\ seen' = Noted(t[1], MatchOf(told))
           /\ hits' = hits \union {RowOf(told)}
           /\ task' = [task EXCEPT ![t] = [done EXCEPT !.own = @ \union {RowOf(told)}]]
           /\ UNCHANGED faults
        \/ /\ Admitted(t[1], MatchOf(told)) /\ faults < MaxFaults
           /\ seen' = Noted(t[1], MatchOf(told))
           /\ task' = [task EXCEPT ![t] = done]
           /\ faults' = faults + 1
           /\ UNCHANGED hits
     /\ UNCHANGED <<now, leader, sup>>

-----------------------------------------------------------------------------
(* The engines.                                                            *)

(* The process dies and comes back: all memory is gone.                    *)
Restart(e) ==
  /\ faults < MaxFaults /\ faults' = faults + 1
  /\ task' = [t \in Tasks |-> IF t[1] = e THEN Started ELSE task[t]]
  /\ sup' = [t \in Tasks |-> IF t[1] = e THEN Empty ELSE sup[t]]
  /\ seen' = [seen EXCEPT ![e] = <<>>]
  /\ leader' = IF leader = e THEN Nobody ELSE leader
  /\ UNCHANGED <<now, hits>>

Elected(e) ==
  /\ leader # e /\ leader' = e
  /\ UNCHANGED <<now, task, sup, seen, hits, faults>>

Tick ==
  /\ now < MaxTime /\ now' = now + 1
  /\ UNCHANGED <<leader, task, sup, seen, hits, faults>>

Next ==
  \/ \E t \in Tasks : Load(t) \/ Begin(t) \/ End(t) \/ EvictOld(t) \/ Emit(t)
  \/ \E t \in Tasks, d \in Detectors : \E f \in Findings(d) : Detect(t, d, f)
  \/ \E e \in Engines : Restart(e) \/ Elected(e)
  \/ Tick

Spec == Init /\ [][Next]_vars

-----------------------------------------------------------------------------
(* Properties.                                                             *)

(* The hits that the finding t has just decided to tell of repeats.        *)
Repeats(t) ==
  {h \in hits : /\ h.slot = Slot(task'[t].told.d, task'[t].told.f)
                /\ now - h.mark < task'[t].told.d.window}
Decides(t) == task[t].pc = "run" /\ task'[t].pc = "emit"

(* A task never tells within the window of a finding that it has told of   *)
(* since its start, nor, when the finding names a source alone, of a hit   *)
(* of any engine that it took over when it loaded its memory               *)
(* (multiflow.rs:79: "so suppression state survives engine restarts").     *)
KnownIsQuiet ==
  [][\A t \in Tasks : Decides(t) =>
       /\ Repeats(t) \intersect task[t].own = {}
       /\ task'[t].told.d.names = "source" => Repeats(t) \intersect task[t].loaded = {}]_vars

(* The same for the findings that name a pair, as multiflow.rs:81 says:    *)
(* "Composite keys ... are reconstructed from src_ip + dst_ip - consistent *)
(* with how they are keyed during detection".  The keys of the loader have *)
(* a colon where those of the detectors have an underscore, a hyphen or    *)
(* the port: TLC refutes it.                                               *)
RestartsRemember ==
  [][\A t \in Tasks : Decides(t) => Repeats(t) \intersect task[t].loaded = {}]_vars
=============================================================================
