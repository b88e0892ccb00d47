---------------------------- MODULE MCDetections ----------------------------
(* CaseNumbers, Hits, Assets, MultiFlow and Baselines, checked side by     *)
(* side: none reads what another writes, so a behaviour moves one of them, *)
(* chosen at its start, and leaves the others in their first state.        *)
EXTENDS CaseNumbers, TLC

CONSTANTS
  c1, c2, c3,
  f1, h1, h2, sid,
  Events, Engines, Analysts, NoEvent, NoTask, NoRow, NoSig, NoTime,
  SessionTTL, Window, HitTime, MaxRules, MaxFailures,
  ip1, m1, m2, j1, j2, n,
  Ips, Macs, Names, Jobs, NoMac, NoName, NoJob, AssetTime, MaxRows,
  Nobody, FlowEngines, FlowSources, Targets, Used, Short, Long, Day, FlowTime, MaxHits, FlowFaults,
  Peers, History, Kept, BaseDay, BaseTime, MaxEvents, MaxJobs, BaseFaults

VARIABLES
  side,        \* the component that moves
  hitClock, queue, session, task, seen, row, rules, inactive, saved, ai, plan,
  failures, exposed, silenced,
  assetClock, rows, hash, dirty, job, wanted, unclear,
  flowClock, leader, loop, sup, noted, flowHits, flowFaults,
  baseClock, baseLeader, due, jobs, contacts, table, started, whole, told, spikes, baseFaults

hits == <<hitClock, queue, session, task, seen, row, rules, inactive, saved, ai,
          plan, failures, exposed, silenced>>
assets == <<assetClock, rows, hash, dirty, job, wanted, unclear>>
flows == <<flowClock, leader, loop, sup, noted, flowHits, flowFaults>>
base == <<baseClock, baseLeader, due, jobs, contacts, table, started, whole, told, spikes,
          baseFaults>>

H == INSTANCE Hits WITH now <- hitClock, MaxTime <- HitTime
A == INSTANCE Assets WITH now <- assetClock, MaxTime <- AssetTime
F == INSTANCE MultiFlow
       WITH Engines <- FlowEngines, Sources <- FlowSources, now <- flowClock,
            task <- loop, seen <- noted, hits <- flowHits, faults <- flowFaults,
            MaxTime <- FlowTime, MaxFaults <- FlowFaults, HitWindow <- Window
B == INSTANCE Baselines
       WITH now <- baseClock, leader <- baseLeader, events <- contacts,
            faults <- baseFaults, Metrics <- <<"event_count", "ext_contact">>,
            Day <- BaseDay, MaxTime <- BaseTime, MaxFaults <- BaseFaults

(* What a detector makes of an event, and the work that stores it.         *)
Severities == {"noise", "low", "high", "critical"}
HitRecords ==
  [cid : H!Cids, src : H!Hosts, dst : H!Hosts, tag : {e.tag : e \in Events} \union {"honeypot"},
   sig : {e.sig : e \in Events} \union {NoSig}, band : Severities, ti : BOOLEAN,
   status : {"corroborated", "agent_z_only", "agent_s_only", "zeek_only", "hash_match",
             "ja3_match", "domain_match", "doh_evasion"}]
HitTasks ==
  [pc : H!Pcs, at : Engines, got : Nat, ver : Nat, adm : Nat \union {NoTime}, hit : HitRecords]

ASSUME HitsAssumption ==
  /\ SessionTTL \in Nat /\ Window \in Nat
  /\ HitTime \in Nat /\ MaxRules \in Nat /\ MaxFailures \in Nat
  /\ NoTime \notin Nat /\ NoEvent \notin Events /\ NoTask \notin HitTasks
  /\ \A e \in Events :
       /\ e.band \in Severities /\ e.ti \in BOOLEAN
       /\ e.direct \in {"none", "hash", "ja3", "domain", "doh", "suricata", "sigma"}
       /\ e.direct \in {"suricata", "sigma"} => e.found \in Severities

(* A detector remembers no longer than EvictOld lets it.                   *)
ASSUME FlowsAssumption ==
  /\ Short \in Nat /\ Long \in Nat /\ Day \in Nat /\ Short <= Day /\ Long <= Day
  /\ FlowTime \in Nat /\ FlowFaults \in Nat
  /\ NoTime \notin Nat
  /\ \A d \in F!Detectors : NoTask \notin [d : {d}, f : F!Findings(d), mark : Nat]

ASSUME BaselinesAssumption ==
  /\ BaseDay \in Nat \ {0} /\ Kept \in Nat
  /\ BaseTime \in Nat /\ BaseDay <= BaseTime /\ BaseFaults \in Nat

(* A row of the inventory, and a task between its read and its insert.     *)
AssetRows ==
  [ip : Ips, mac : Macs \union {NoMac}, name : Names \union {NoName}, learned : BOOLEAN,
   trusted : BOOLEAN, flagged : BOOLEAN, seen : Nat, seq : Nat]
AssetJobs ==
  [pc : {"read", "write"}, kind : A!Kinds, ip : Ips, row : AssetRows \union {NoRow},
   value : BOOLEAN \union Names \union {NoName}, stale : BOOLEAN]

ASSUME AssetsAssumption ==
  NoRow \notin AssetRows /\ NoJob \notin AssetJobs /\ AssetTime \in Nat \ {0}

(* The devices of an address, the peers of a host, the tasks of the table. *)
Twins == Permutations({m1, m2}) \union Permutations({j1, j2})

(* One flow seen by both sensors; the second view is an alert.             *)
View(source, sig, band, direct, found) ==
  [cid |-> f1, source |-> source, src |-> h1, dst |-> h2, tag |-> "match", sig |-> sig,
   band |-> band, ti |-> FALSE, direct |-> direct, found |-> found, trap |-> FALSE]
OneFlow == {View("z", NoSig, "low", "none", "low"), View("s", sid, "noise", "suricata", "low")}

MCInit ==
  /\ Init /\ H!Init /\ A!Init /\ F!Init /\ B!Init
  /\ side \in {"numbers", "hits", "assets", "flows", "baselines"}
  /\ side = "numbers" \/ old = 0

MCNext ==
  /\ UNCHANGED side
  /\ \/ side = "numbers" /\ Next /\ UNCHANGED <<hits, assets, flows, base>>
     \/ side = "hits" /\ H!Next /\ UNCHANGED <<vars, assets, flows, base>>
     \/ side = "assets" /\ A!Next /\ UNCHANGED <<vars, hits, flows, base>>
     \/ side = "flows" /\ F!Next /\ UNCHANGED <<vars, hits, assets, base>>
     \/ side = "baselines" /\ B!Next /\ UNCHANGED <<vars, hits, assets, flows>>

MCSpec == MCInit /\ [][MCNext]_<<side, vars, hits, assets, flows, base>>

TypesOK ==
  CASE side = "numbers" -> TypeOK
    [] side = "hits" -> H!TypeOK
    [] side = "assets" -> A!TypeOK
    [] side = "flows" -> F!TypeOK
    [] side = "baselines" -> B!TypeOK
RepeatHasFirst == H!RepeatHasFirst
OneEngineCorroborates == H!OneEngineCorroborates
TrustIsKept == A!TrustIsKept
KnownIsQuiet == F!KnownIsQuiet
SoleContactIsKnown == B!SoleContactIsKnown
=============================================================================
