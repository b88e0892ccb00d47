----------------------------- MODULE MCServices -----------------------------
(* What is done with stored alerts and captures: Triage, Evidence,         *)
(* Captures, SensorCommands and Guardian of ndr-engine, Siem and SiemRules *)
(* of siem-engine, checked side by side.  None reads what another writes,  *)
(* so a behaviour moves one of them, chosen at its start, and leaves the   *)
(* others in their first state.                                            *)
EXTENDS Integers, FiniteSetsExt, TLC

CONSTANTS
  p1, p2, s1, s2,
  Processes,   \* the tasks of Evidence, the callers of Captures, the consumers of Siem
  Probes, NoJob, NoRow, NoTime,
  Keys, GroupPair, GroupAlerts, Runs, Manual, Analysts, AnalystSensors, Answers, Limit, PerRun, MaxHour,
  TriageFaults, NoRec, NoDoc,
  Cids, SessionPair, PairHost, CapTTL, FireTTL, PairTTL, HourTTL, HostMax, Permits, EvidenceTime,
  EvidenceFaults,
  Flows, FlowHolders, NoFlow, Day, Misses, MaxTries, CaptureTime, CaptureFaults,
  All, Nothing, MaxCommands, CommandTime, CommandFaults,
  Engines, Bundles, Sessions, NoBundle, RawDays, FirstTTL, Life, MaxDays, MaxEdits,
  Logs, EntityOf, MatchesOf, Matching, Storage, Nobody, NoAlert, DedupTTL, SiemTime, SiemFaults,
  Machines, NoWindow, BruteForceMin, BruteForceWindow, PrivEscWindow, LateralMin,
  LateralWindow, BeaconMin, BeaconWindow, BeaconTolerance, BeaconMaxMean, RuleTime,
  MaxEvents, MaxToggles

VARIABLES
  side,        \* the component that moves
  hour, raised, hidden, doc, run, called, handled, overlapped, triageFaults,
  clock, job, bundles, recorded, zips, notes, cap, fire, pair, slots, evidenceFaults,
  captureClock, request, reports, caller, sensor, missed, captured, ended, raced,
  captureFaults,
  second, count, pending, doomed, registering, answered, newest, commandFaults,
  day, edits, leader, mode, days, level, compressed, ttl, row, files, cases, pass, spared,
  logClock, topic, owner, position, committed, marks, seen, stored, task, silenced,
  cache, dedup, alerts, siemFaults,
  ruleClock, failures, lastFailure, reached, contacts, disabled, logs, fired, toggles

triage == <<hour, raised, hidden, doc, run, called, handled, overlapped, triageFaults>>
evidence == <<clock, job, bundles, recorded, zips, notes, cap, fire, pair, slots,
              evidenceFaults>>
captures == <<captureClock, request, reports, caller, sensor, missed, captured, ended,
              raced, captureFaults>>
commands == <<second, count, pending, doomed, registering, answered, newest,
              commandFaults>>
guardian == <<day, edits, leader, mode, days, level, compressed, ttl, row, files, cases,
              pass, spared>>
siem == <<logClock, topic, owner, position, committed, marks, seen, stored, task,
          silenced, cache, dedup, alerts, siemFaults>>
rules == <<ruleClock, failures, lastFailure, reached, contacts, disabled, logs, fired,
           toggles>>

T == INSTANCE Triage
       WITH alerts <- raised, job <- run, faults <- triageFaults,
            PairOf <- GroupPair, Alerts <- GroupAlerts, Assigned <- AnalystSensors,
            MaxFaults <- TriageFaults
E == INSTANCE Evidence
       WITH now <- clock, rows <- bundles, files <- zips, faults <- evidenceFaults,
            Jobs <- Processes, PairOf <- SessionPair, HostOf <- PairHost,
            MaxTime <- EvidenceTime, MaxFaults <- EvidenceFaults
C == INSTANCE Captures
       WITH now <- captureClock, row <- request, stored <- captured,
            faults <- captureFaults, Callers <- Processes,
            Sensors <- Probes, Holders <- FlowHolders,
            MaxTime <- CaptureTime, MaxFaults <- CaptureFaults
M == INSTANCE SensorCommands
       WITH now <- second, Sensors <- Probes, read <- answered, faults <- commandFaults,
            MaxTime <- CommandTime, MaxFaults <- CommandFaults
G == INSTANCE Guardian WITH now <- day, MaxTime <- MaxDays
S == INSTANCE Siem
       WITH now <- logClock, job <- task, faults <- siemFaults,
            Rules <- Matching, Correlation <- Processes,
            MaxTime <- SiemTime, MaxFaults <- SiemFaults
R == INSTANCE SiemRules
       WITH now <- ruleClock, Hosts <- Machines, MaxTime <- RuleTime

ASSUME TriageAssumption ==
  /\ Limit \in Nat /\ PerRun \in Nat /\ MaxHour \in Nat /\ TriageFaults \in Nat
  /\ IsFiniteSet(Keys) /\ IsFiniteSet(T!Jobs) /\ T!Jobs # {}
  /\ Answers \subseteq T!Verdicts \union {"weak", "none"}
  /\ NoRec \notin T!Recs /\ NoRec \notin Keys /\ NoDoc \notin T!Docs

ASSUME EvidenceAssumption ==
  /\ PairTTL \in Nat /\ HourTTL \in Nat /\ EvidenceTime \in Nat \ {0} /\ EvidenceFaults \in Nat
  /\ IsFiniteSet(Processes)
  /\ NoJob \notin [pc : E!Pcs, path : E!Paths, cid : Cids, id : Processes,
                   lost : BOOLEAN, off : BOOLEAN, did : BOOLEAN]

ASSUME CapturesAssumption ==
  /\ Day \in Nat /\ MaxTries \in Nat /\ Misses \in Nat \ {0}
  /\ CaptureTime \in Nat \ {0} /\ CaptureFaults \in Nat
  /\ NoFlow \notin Flows
  /\ NoRow \notin [at : Nat, state : Nat, tries : Nat]

ASSUME CommandAssumption ==
  MaxCommands \in Nat /\ CommandTime \in Nat /\ CommandFaults \in Nat

ASSUME GuardianAssumption ==
  /\ Life \in Nat /\ MaxDays \in Nat /\ MaxEdits \in Nat
  /\ Bundles \intersect Sessions = {}
  /\ NoBundle \notin [cid : Sessions, expires : Int, held : BOOLEAN]

ASSUME SiemAssumption ==
  /\ DedupTTL \in Nat /\ SiemTime \in Nat \ {0} /\ SiemFaults \in Nat
  /\ \A l \in Logs : MatchesOf[l] \subseteq Matching

ASSUME RulesAssumption ==
  /\ BeaconWindow \in Nat /\ LateralWindow \in Nat /\ RuleTime \in Nat \ {0} /\ MaxToggles \in Nat
  /\ BeaconMin \in Nat /\ LateralMin \in Nat
  /\ R!None \notin Machines
  /\ NoWindow \notin [hosts : SUBSET Machines, from : Int]

(* The instance: all groups of alerts are of one pair; of each, an analyst *)
(* sees the odd alerts and not the protected ones.                         *)
OnePair == [k \in Keys |-> "pair"]
OddOrProtected ==
  [key : Keys, kind : {"odd"}, sensor : {"own"}] \union
  [key : Keys, kind : {"protected"}, sensor : {"other"}]
OwnSensor == [p \in Analysts |-> {"own"}]

(* Each session is a pair of its own, all have one source; every sensor    *)
(* has the packets of every flow.                                          *)
OwnPair == [c \in Cids |-> c]
OneHost == [c \in Cids |-> "host"]
EveryProbe == [f \in Flows |-> Probes]

(* Every log is of one entity and matches every rule.                      *)
OneEntity == [l \in Logs |-> "host"]
EveryRule == [l \in Logs |-> Matching]

MCInit ==
  /\ T!Init /\ E!Init /\ C!Init /\ M!Init /\ G!Init /\ S!Init /\ R!Init
  /\ side \in {"triage", "evidence", "captures", "commands", "guardian", "siem", "rules"}
  /\ side = "guardian" \/ days = Max(RawDays)

MCNext ==
  /\ UNCHANGED side
  /\ \/ /\ side = "triage" /\ T!Next
        /\ UNCHANGED <<evidence, captures, commands, guardian, siem, rules>>
     \/ /\ side = "evidence" /\ E!Next
        /\ UNCHANGED <<triage, captures, commands, guardian, siem, rules>>
     \/ /\ side = "captures" /\ C!Next
        /\ UNCHANGED <<triage, evidence, commands, guardian, siem, rules>>
     \/ /\ side = "commands" /\ M!Next
        /\ UNCHANGED <<triage, evidence, captures, guardian, siem, rules>>
     \/ /\ side = "guardian" /\ G!Next
        /\ UNCHANGED <<triage, evidence, captures, commands, siem, rules>>
     \/ /\ side = "siem" /\ S!Next
        /\ UNCHANGED <<triage, evidence, captures, commands, guardian, rules>>
     \/ /\ side = "rules" /\ R!Next
        /\ UNCHANGED <<triage, evidence, captures, commands, guardian, siem>>

MCSpec ==
  MCInit /\ [][MCNext]_<<side, triage, evidence, captures, commands, guardian, siem, rules>>

Symmetry == Permutations(Processes) \union Permutations(Probes)

TypesOK ==
  CASE side = "triage" -> T!TypeOK
    [] side = "evidence" -> E!TypeOK
    [] side = "captures" -> C!TypeOK
    [] side = "commands" -> M!TypeOK
    [] side = "guardian" -> G!TypeOK
    [] side = "siem" -> S!TypeOK
    [] side = "rules" -> R!TypeOK
DocumentIsKept == T!DocumentIsKept
ClaimIsUsed == E!ClaimIsUsed
FulfilledStays == C!FulfilledStays
NeverBackwards == M!NeverBackwards
SparedIsKept == G!SparedIsKept
AlertsAreApart == S!AlertsAreApart
FiresOnItsOwnLogs == R!FiresOnItsOwnLogs
=============================================================================
