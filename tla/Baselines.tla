----------------------------- MODULE Baselines -----------------------------
(***************************************************************************)
(* The baselines of the anomaly detectors (tier 3 of multiflow.rs), for    *)
(* one tenant and one internal host: the daily refresh that each engine    *)
(* runs on its own clock while it leads, the bootstrap of a tenant without *)
(* any, and the passes that compare the last hour with them.               *)
(* ndr_baselines is a ReplacingMergeTree ordered by host, metric and       *)
(* window: rows that agree in these collapse to one at any later merge, and*)
(* a row past its time to live goes at one too.                            *)
(***************************************************************************)
EXTENDS Integers, Sequences, FiniteSets

CONSTANTS
  Engines,
  Peers,      \* external destinations
  Metrics,    \* the metrics in the order in which they are computed
  Nobody,
  Day,        \* length of a day
  History,    \* windows that a spike needs
  Kept,       \* time to live of a row, from the start of its window
  MaxTime,    \* bound on the clock
  MaxEvents,  \* bound on the connections
  MaxJobs,    \* bound on the refreshes and bootstraps
  MaxFaults   \* bound on restarts and failed inserts

VARIABLES
  now,
  leader,
  due,      \* when each engine's refresh task wakes
  jobs,     \* the refreshes and bootstraps that run: what is left of each
  events,   \* <<destination, time>>: the host's connections
  table,    \* rows of ndr_baselines
  started,  \* number of jobs so far
  whole,    \* windows whose refresh inserted every metric
  told,     \* destinations reported as new in this hour
  spikes,   \* the days behind each spike reported in this hour
  faults

vars == <<now, leader, due, jobs, events, table, started, whole, told, spikes, faults>>

Today == now \div Day
NoPeer == "none"
Contact == "ext_contact"
Volume == "event_count"

Init ==
  /\ now = Day
  /\ leader = Nobody
  /\ due = [e \in Engines |-> now]
  /\ jobs = {} /\ events = {} /\ table = {}
  /\ started = 0 /\ whole = {} /\ told = {} /\ spikes = {} /\ faults = 0

-----------------------------------------------------------------------------
(* What a job computes: the rows of one metric over the day it summarises. *)

(* refresh_baselines: yesterday, filed under its midnight.                 *)
Yesterday(e) ==
  [engine |-> e, id |-> started, window |-> (Today - 1) * Day,
   from |-> (Today - 1) * Day, upto |-> Today * Day - 1, left |-> Metrics, missed |-> FALSE]

(* bootstrap_baselines: the last 24 hours, filed under the moment itself.  *)
LastDay(e) ==
  [engine |-> e, id |-> started, window |-> now, from |-> now - Day, upto |-> now,
   left |-> Metrics, missed |-> FALSE]

Seen(from, upto) == {ev[1] : ev \in {x \in events : x[2] \in from..upto}}

(* baseline_compute: one row for a count, one per destination for the      *)
(* contacts; the insert's number tells its rows from those of another.     *)
Values(metric, peers) ==
  IF metric = Contact \/ peers = {} THEN peers ELSE {NoPeer}
RowsOf(job) ==
  [metric : {Head(job.left)}, window : {job.window},
   value : Values(Head(job.left), Seen(job.from, job.upto)), insert : {job.id}]

Compute(job) ==
  LET after == [job EXCEPT !.left = Tail(@)]
      others == jobs \ {job}
  IN /\ job \in jobs /\ job.left # <<>>
     /\ \/ /\ table' = table \union RowsOf(job)
           /\ jobs' = others \union {after}
           /\ UNCHANGED faults
        \/ /\ RowsOf(job) # {}
           /\ faults < MaxFaults /\ faults' = faults + 1
           /\ jobs' = others \union {[after EXCEPT !.missed = TRUE]}
           /\ UNCHANGED table
     /\ UNCHANGED <<now, leader, due, events, started, whole, told, spikes>>

Finish(job) ==
  /\ job \in jobs /\ job.left = <<>>
  /\ jobs' = jobs \ {job}
  /\ whole' = IF job.missed THEN whole ELSE whole \union {[from |-> job.from, upto |-> job.upto]}
  /\ UNCHANGED <<now, leader, due, events, table, started, told, spikes, faults>>

(* A merge of the table: of the rows with one sort key one is left.        *)
SortKey_NoWindow(r) == <<r.metric>>                             \* mutant
SortKey(r) == <<r.metric, r.window>>

Newer(r, q) == SortKey(r) = SortKey(q) /\ r.insert > q.insert
Merge ==
  \E last \in table :
    LET Same == {r \in table : SortKey(r) = SortKey(last)}
    IN /\ Cardinality(Same) > 1
       /\ ~\E r \in Same : Newer(r, last)
       /\ table' = (table \ Same) \union {last}
       /\ UNCHANGED <<now, leader, due, jobs, events, started, whole, told, spikes, faults>>

(* The table's TTL.                                                        *)
Expired(r) == now - r.window >= Kept
Expire(r) ==
  /\ r \in table /\ Expired(r)
  /\ table' = table \ {r}
  /\ UNCHANGED <<now, leader, due, jobs, events, started, whole, told, spikes, faults>>

-----------------------------------------------------------------------------
(* The tasks of an engine.                                                 *)

(* The refresh loop wakes once a day of its own; what it skips as a        *)
(* follower it does not make up for.                                       *)
Refresh(e) ==
  /\ due[e] <= now
  /\ due' = [due EXCEPT ![e] = now + Day]
  /\ \/ /\ leader = e /\ started < MaxJobs
        /\ jobs' = jobs \union {Yesterday(e)} /\ started' = started + 1
     \/ /\ leader # e
        /\ UNCHANGED <<jobs, started>>
  /\ UNCHANGED <<now, leader, events, table, whole, told, spikes, faults>>

(* run_tier3: a tenant without a row is skipped, and bootstrapped in a     *)
(* task of its own when it has events, again and again while there is none.*)
Bootstrap(e) ==
  /\ leader = e
  /\ table = {}
  /\ Seen(now - Day, now) # {}
  /\ started < MaxJobs
  /\ jobs' = jobs \union {LastDay(e)} /\ started' = started + 1
  /\ UNCHANGED <<now, leader, due, events, table, whole, told, spikes, faults>>

(* detect_new_external_contact: any destination of the last hour without a *)
(* row; how long MultiFlow then keeps quiet about it is not counted here.  *)
Known == {r.value : r \in {x \in table : x.metric = Contact}}
NewContact(e) ==
  LET New == Seen(now, now) \ Known
  IN /\ leader = e /\ table # {}
     /\ New # {}
     /\ told' = told \union New
     /\ told' # told
     /\ UNCHANGED <<now, leader, due, jobs, events, table, started, whole, spikes, faults>>

(* detect_volume_anomaly: whether the last hour is far above the average   *)
(* is left open; the query counts the rows of the table as they are.       *)
Windows == {r \in table : r.metric = Volume}
Spike(e) ==
  /\ leader = e /\ Seen(now, now) # {}
  /\ Cardinality(Windows) >= History
  /\ spikes' = spikes \union {{r.window \div Day : r \in Windows}}
  /\ spikes' # spikes
  /\ UNCHANGED <<now, leader, due, jobs, events, table, started, whole, told, faults>>

Restart(e) ==
  /\ faults < MaxFaults /\ faults' = faults + 1
  /\ jobs' = {j \in jobs : j.engine # e}
  /\ due' = [due EXCEPT ![e] = now]
  /\ leader' = IF leader = e THEN Nobody ELSE leader
  /\ UNCHANGED <<now, events, table, started, whole, told, spikes>>

Elected(e) ==
  /\ leader = Nobody /\ leader' = e
  /\ UNCHANGED <<now, due, jobs, events, table, started, whole, told, spikes, faults>>

Connect(p) ==
  /\ Cardinality(events) < MaxEvents
  /\ <<p, now>> \notin events /\ events' = events \union {<<p, now>>}
  /\ UNCHANGED <<now, leader, due, jobs, table, started, whole, told, spikes, faults>>

(* An hour passes; a job takes less.                                       *)
Tick ==
  /\ now < MaxTime /\ jobs = {}
  /\ now' = now + 1
  /\ told' = {} /\ spikes' = {}
  /\ UNCHANGED <<leader, due, jobs, events, table, started, whole, faults>>

Next ==
  \/ \E j \in jobs : Compute(j) \/ Finish(j)
  \/ Merge
  \/ \E r \in table : Expire(r)
  \/ \E e \in Engines : Refresh(e) \/ Bootstrap(e) \/ NewContact(e) \/ Spike(e)
                        \/ Restart(e) \/ Elected(e)
  \/ \E p \in Peers : Connect(p)
  \/ Tick

Spec == Init /\ [][Next]_vars

-----------------------------------------------------------------------------
(* Properties.                                                             *)

(* Variables hold what they should; every row belongs to a job that ran.   *)
TypeOK ==
  /\ now \in Day..MaxTime
  /\ leader \in Engines \union {Nobody}
  /\ \A e \in Engines : due[e] <= now + Day
  /\ \A r \in table : /\ r.insert < started /\ r.window <= now
                      /\ r.value \in (IF r.metric = Contact THEN Peers ELSE {NoPeer})
  /\ \A j \in jobs : j.id < started /\ Len(j.left) <= Len(Metrics)
  /\ events \subseteq Peers \X (Day..MaxTime) /\ told \subseteq Seen(now, now)
  /\ faults \in 0..MaxFaults

(* A destination that was the only one of a day is not reported as new     *)
(* once that day has been summarised by a refresh without a failed insert, *)
(* until the summary expires.                                              *)
Current(w) == now - w.from < Kept
Refreshed(w) == w.upto = w.from + Day - 1
Alone(p) == \E w \in whole : Current(w) /\ Refreshed(w) /\ Seen(w.from, w.upto) = {p}
SoleContactIsKnown ==
  [][\A p \in Peers : Alone(p) => p \in told \/ p \notin told']_vars

(* multiflow.rs:773: "Known external contacts - one row per (src_ip,       *)
(* ext_dst_ip) seen yesterday": no destination of a summarised day is      *)
(* reported as new.  All contacts of one day have one sort key, and a      *)
(* merge leaves one of them: TLC refutes it.                               *)
ContactsAreKnown ==
  [][\A p \in Peers : (\E w \in whole : p \in Seen(w.from, w.upto)) =>
       p \in told \/ p \notin told']_vars

(* The same for the only destination of a bootstrap's 24 hours: when it    *)
(* runs at midnight itself, the refresh of the day that then begins files  *)
(* other contacts under the same window, and a merge may drop that one.    *)
(* TLC refutes it with days of two hours or more.                          *)
BootstrappedIsKnown ==
  [][\A p \in Peers : (\E w \in whole : Current(w) /\ Seen(w.from, w.upto) = {p}) =>
       p \in told \/ p \notin told']_vars

(* multiflow.rs:928: "at least 3 days of baseline".  The query counts rows *)
(* of the table: a refresh repeated after a restart, or bootstraps that    *)
(* overlap, stand for days of their own.  TLC refutes it.                  *)
SpikesHaveHistory == \A days \in spikes : Cardinality(days) >= History

(* multiflow.rs:889: "Skip Tier 3 for tenants with no baseline yet -       *)
(* avoids alert storms on day-zero deployments": nothing is reported new   *)
(* before contacts were summarised once.  The bootstrap's first metric     *)
(* ends the skipping, its fourth are the contacts.  TLC refutes it.        *)
DayZeroIsQuiet == told # {} => \E w \in whole : Seen(w.from, w.upto) # {}
=============================================================================
