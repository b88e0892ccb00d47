------------------------------ MODULE Evidence ------------------------------
(***************************************************************************)
(* Evidence bundles: the jobs that build a bundle for a session (on a      *)
(* correlated alert, on a single detector's alert, on a beacon, on an      *)
(* analyst's request or download), the Redis claims that keep them from    *)
(* repeating, and the AI analysis that follows.  A bundle has the name of  *)
(* the job that built it; it lives for months, the claims for hours.       *)
(***************************************************************************)
EXTENDS Integers, FiniteSets

CONSTANTS
  Jobs, Cids,
  PairOf,     \* source and destination of each session
  HostOf,     \* source of each pair
  NoJob, NoTime,
  CapTTL,     \* AUTOCAPTURE_REPEAT_SECS
  FireTTL,    \* the 300 s of evidence_fire
  PairTTL,    \* AI_ANALYSIS_REPEAT_SECS
  HourTTL,    \* the 3600 s of the hourly slots
  HostMax,    \* AI_ANALYSIS_MAX_PER_HOST_HOUR
  Permits,    \* evidence_semaphore
  MaxTime,    \* bound on the clock
  MaxFaults   \* bound on failed calls and crashes

VARIABLES
  now,
  job,
  rows,       \* evidence_bundles
  recorded,   \* bundles ever inserted
  files,      \* zip files on disk
  notes,      \* ai_analysis annotations
  cap, fire, pair,  \* when each claim ends
  slots,      \* ndr:aiana-host of each source
  faults

vars == <<now, job, rows, recorded, files, notes, cap, fire, pair, slots, faults>>

claims == <<cap, fire, pair, slots>>
store == <<rows, recorded, notes>>
Pairs == {PairOf[c] : c \in Cids}
Hosts == {HostOf[p] : p \in Pairs}
Paths == {"correlated", "direct", "beacon", "manual", "download"}
Counter == [n |-> 0, until |-> NoTime]

Init ==
  /\ now = 1
  /\ job = [j \in Jobs |-> NoJob]
  /\ rows = {} /\ recorded = {} /\ files = {} /\ notes = {}
  /\ cap = [c \in Cids |-> 0]
  /\ fire = [p \in Pairs |-> 0] /\ pair = [p \in Pairs |-> 0]
  /\ slots = [h \in Hosts |-> Counter]
  /\ faults = 0

Fault == faults < MaxFaults /\ faults' = faults + 1
NoFault == UNCHANGED faults

Busy(j) == job[j] # NoJob /\ job[j].pc \notin {"ended", "crashed"}
At(j, pc) == Busy(j) /\ job[j].pc = pc
Goto(j, pc) == job' = [job EXCEPT ![j].pc = pc]
Pair(j) == PairOf[job[j].cid]
Host(j) == HostOf[Pair(j)]

-----------------------------------------------------------------------------
(* Starting a job.                                                         *)

(* claim_once, which allows everything when Redis does not answer.         *)
Claim(claim, k, ttl) ==
  \/ now >= claim[k] /\ claim' = [claim EXCEPT ![k] = now + ttl] /\ NoFault
  \/ Fault /\ UNCHANGED claim

Begin(j, path, c) ==
  /\ job[j] = NoJob
  /\ job' = [job EXCEPT ![j] = [pc |-> "build", path |-> path, cid |-> c, id |-> j,
                                lost |-> FALSE, off |-> FALSE, did |-> FALSE]]
  /\ UNCHANGED <<now, store, files>>

(* An alert of process_correlation_hit, once per session.                  *)
StartCorrelated(j, c) ==
  /\ Begin(j, "correlated", c)
  /\ Claim(cap, c, CapTTL) /\ UNCHANGED <<fire, pair, slots>>

(* capture_evidence_and_analyze, once per pair of hosts.                   *)
StartDirect(j, c) ==
  /\ Begin(j, "direct", c)
  /\ Claim(fire, PairOf[c], FireTTL) /\ UNCHANGED <<cap, pair, slots>>

(* A beacon, a capture or a download that a user asks for: no claim.       *)
StartOther(j, c, path) ==
  /\ Begin(j, path, c)
  /\ UNCHANGED <<claims, faults>>

-----------------------------------------------------------------------------
(* Building and storing the bundle.                                        *)

Holds(j) == Busy(j) /\ job[j].pc # "build" /\ job[j].path \in {"correlated", "direct", "manual"}
Permitted(j) ==
  job[j].path \in {"beacon", "download"} \/ Cardinality({i \in Jobs : Holds(i)}) < Permits

(* A download writes no file.                                              *)
Build(j) ==
  /\ At(j, "build") /\ Permitted(j)
  /\ \/ /\ NoFault
        /\ Goto(j, "look")
        /\ files' = IF job[j].path = "download" THEN files ELSE files \union {j}
     \/ Fault /\ Goto(j, "ended") /\ UNCHANGED files
  /\ UNCHANGED <<now, store, claims>>

BundlesOf(c) == {r \in rows : r.cid = c}
Oldest(R) == CHOOSE r \in R : \A q \in R : r.at <= q.at

(* save_evidence_bundle: the bundle the session already has, or else this  *)
(* one.                                                                    *)
Look(j) ==
  /\ At(j, "look")
  /\ LET R == BundlesOf(job[j].cid)
     IN IF R = {} THEN Goto(j, "insert")
        ELSE job' = [job EXCEPT ![j].pc = "settle", ![j].id = Oldest(R).id]
  /\ UNCHANGED <<now, store, files, claims, faults>>

NewRow(j) == [id |-> j, cid |-> job[j].cid, file |-> job[j].path # "download",
              at |-> now]

InsertRow(j) ==
  /\ At(j, "insert")
  /\ \/ /\ NoFault
        /\ rows' = rows \union {NewRow(j)}
        /\ recorded' = recorded \union {j}
        /\ Goto(j, "settle")
     \/ Fault /\ job' = [job EXCEPT ![j].pc = "settle", ![j].lost = TRUE] /\ UNCHANGED <<rows, recorded>>
  /\ UNCHANGED <<now, files, notes, claims>>

(* Whether the job goes on with the bundle it built: capture_evidence_and_ *)
(* analyze and the beacon detector do so whatever save_evidence_bundle     *)
(* returned.                                                               *)
KeepsOwn(j) == job[j].id = j \/ job[j].path \in {"direct", "beacon"}

AfterSettle(j) ==
  CASE job[j].path = "correlated" -> {"claim", "ended"}  \* a trusted cloud is not analysed
    [] job[j].path = "direct" -> {"ai"}
    [] OTHER -> {"ended"}

Settle(j) ==
  /\ At(j, "settle")
  /\ files' = IF KeepsOwn(j) THEN files ELSE files \ {j}
  /\ \E pc \in AfterSettle(j) :
       job' = [job EXCEPT ![j].pc = pc, ![j].id = IF KeepsOwn(j) THEN j ELSE @]
  /\ UNCHANGED <<now, store, claims, faults>>

-----------------------------------------------------------------------------
(* The AI analysis.                                                        *)

ClaimPair(j) ==
  /\ At(j, "claim")
  /\ \/ Claim(pair, Pair(j), PairTTL) /\ Goto(j, "slot")
     \/ now < pair[Pair(j)] /\ Goto(j, "ended") /\ UNCHANGED <<pair, faults>>
  /\ UNCHANGED <<now, store, files, cap, fire, slots>>

(* take_hourly_slot: INCR, and EXPIRE by whoever got 1.                    *)
TakeSlot(j) ==
  /\ At(j, "slot")
  /\ LET n == slots[Host(j)].n + 1
     IN /\ slots' = [slots EXCEPT ![Host(j)].n = n]
        /\ Goto(j, IF n = 1 THEN "expire" ELSE IF n <= HostMax THEN "ai" ELSE "release")
  /\ UNCHANGED <<now, store, files, cap, fire, pair, faults>>

SetExpiry(j) ==
  /\ At(j, "expire")
  /\ slots' = [slots EXCEPT ![Host(j)].until = now + HourTTL]
  /\ Goto(j, "ai")
  /\ UNCHANGED <<now, store, files, cap, fire, pair, faults>>

Released_Kept(p) == pair                                      \* mutant
Released(p) == [pair EXCEPT ![p] = 0]

(* Over the hourly limit: the pair may be analysed later.                  *)
ReleasePair(j) ==
  /\ At(j, "release")
  /\ pair' = Released(Pair(j))
  /\ Goto(j, "ended")
  /\ UNCHANGED <<now, store, files, cap, fire, slots, faults>>

(* The tenant may have switched its AI off.                                *)
Ask(j) ==
  /\ At(j, "ai")
  /\ \/ NoFault /\ Goto(j, "erase")
     \/ Fault /\ job' = [job EXCEPT ![j].pc = "ended", ![j].lost = TRUE]
     \/ NoFault /\ job' = [job EXCEPT ![j].pc = "ended", ![j].off = TRUE]
  /\ UNCHANGED <<now, store, files, claims>>

(* delete_ai_annotations_for_cid, then add_evidence_annotation.            *)
Erase(j) ==
  /\ At(j, "erase")
  /\ notes' = {n \in notes : n.cid # job[j].cid}
  /\ Goto(j, "note")
  /\ UNCHANGED <<now, rows, recorded, files, claims, faults>>

Note(j) ==
  /\ At(j, "note")
  /\ notes' = notes \union {[cid |-> job[j].cid, bundle |-> job[j].id, by |-> j]}
  /\ job' = [job EXCEPT ![j].pc = "ended", ![j].did = TRUE]
  /\ UNCHANGED <<now, rows, recorded, files, claims, faults>>

(* An engine stops with its jobs.                                          *)
Crash(S) ==
  /\ S # {} /\ \A j \in S : Busy(j)
  /\ Fault
  /\ job' = [j \in Jobs |-> IF j \in S THEN [job[j] EXCEPT !.pc = "crashed"] ELSE job[j]]
  /\ UNCHANGED <<now, store, files, claims>>

-----------------------------------------------------------------------------
(* Redis forgets a counter whose hour is over.                             *)
Tick ==
  /\ now < MaxTime
  /\ now' = now + 1
  /\ slots' = [h \in Hosts |-> IF slots[h].until = now' THEN Counter ELSE slots[h]]
  /\ UNCHANGED <<job, store, files, cap, fire, pair, faults>>

Next ==
  \/ \E j \in Jobs :
       \/ \E c \in Cids : \/ StartCorrelated(j, c) \/ StartDirect(j, c)
                          \/ \E path \in {"beacon", "manual", "download"} : StartOther(j, c, path)
       \/ Build(j) \/ Look(j) \/ InsertRow(j) \/ Settle(j)
       \/ ClaimPair(j) \/ TakeSlot(j) \/ SetExpiry(j) \/ ReleasePair(j)
       \/ Ask(j) \/ Erase(j) \/ Note(j)
  \/ \E S \in SUBSET Jobs : Crash(S)
  \/ Tick

Spec == Init /\ [][Next]_vars

-----------------------------------------------------------------------------
Pcs == {"build", "look", "insert", "settle", "claim", "slot", "expire", "release", "ai",
        "erase", "note", "ended", "crashed"}

(* Types of the state.                                                     *)
TypeOK ==
  /\ now \in 1..MaxTime /\ faults \in 0..MaxFaults
  /\ \A j \in Jobs : job[j] # NoJob =>
       job[j].pc \in Pcs /\ job[j].path \in Paths /\ job[j].cid \in Cids /\ job[j].id \in Jobs
  /\ {r.id : r \in rows} \subseteq recorded /\ recorded \subseteq Jobs
  /\ files \subseteq Jobs /\ {n.bundle : n \in notes} \subseteq Jobs
  /\ \A h \in Hosts : slots[h].n \in 0..Cardinality(Jobs)

(* A pair that is claimed for six hours is being analysed, was, or lost    *)
(* its analysis to a failed call, a stopped engine or the tenant's switch: *)
(* a refusal by the hourly limit does not use the claim up (throttle.rs    *)
(* release).                                                               *)
ClaimIsUsed ==
  \A p \in Pairs : now < pair[p] =>
    \E j \in Jobs :
      /\ job[j] # NoJob /\ Pair(j) = p /\ job[j].path = "correlated"
      /\ \/ job[j].pc \in {"slot", "expire", "release", "ai", "erase", "note", "crashed"}
         \/ job[j].lost \/ job[j].off \/ job[j].did

-----------------------------------------------------------------------------
(* Statements that this code does not keep: TLC finds a counterexample to  *)
(* each (README).                                                          *)

(* A session has one bundle: save_evidence_bundle selects the one there is *)
(* and inserts its own in two steps.                                       *)
OneBundlePerSession == \A q, r \in rows : q.cid = r.cid => q = r

(* An analysis is of a bundle that is in the table: the path that keeps    *)
(* its own identifier annotates a bundle that was not saved.               *)
AnalysisHasBundle == \A n \in notes : n.bundle \in recorded \/ job[n.by].lost

(* A session has one analysis: deleting the old one and adding the new one *)
(* are two steps.                                                          *)
OneAnalysisPerSession == \A m, n \in notes : m.cid = n.cid => m = n

(* The hourly slots of a host come back: an engine that stops between INCR *)
(* and EXPIRE leaves a counter without an end.                             *)
SlotsComeBack ==
  \A h \in Hosts : slots[h].n > 0 => \/ slots[h].until # NoTime
                                     \/ \E j \in Jobs : At(j, "expire") /\ Host(j) = h
=============================================================================
