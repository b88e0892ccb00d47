------------------------------ MODULE Captures ------------------------------
(***************************************************************************)
(* Requests for the packets of a flow.  The engine queues a request per    *)
(* flow and day; every sensor of the tenant is told of it at its check-in, *)
(* looks for the packets and uploads them or, after some misses, reports a *)
(* failure.  A stored capture inserts a newer row that ends the request; a *)
(* report counts in the row itself, by a mutation that ClickHouse carries  *)
(* out later.  The third report ends the request as well.                  *)
(***************************************************************************)
EXTENDS Integers, FiniteSets

CONSTANTS
  Flows, Sensors,
  Callers,      \* tasks of the engine that queue a request
  NoFlow, NoRow,
  Holders,      \* [Flows -> SUBSET Sensors]: whose capture has the flow
  Day,          \* a request is offered this long
  Misses,       \* misses in a row before a sensor reports a failure
  MaxTries,     \* reports that end a request
  MaxTime,      \* bound on the clock
  MaxFaults     \* bound on failed calls

VARIABLES
  now,
  row,       \* the row of pcap_pending that FINAL shows for each flow
  reports,   \* mutations queued that count a failure in that row; more than
             \* MaxTries of them do what MaxTries do
  caller,    \* the flow each caller has counted no request for, until it inserts
  sensor,    \* the flow each sensor works on, and where it stands
  missed,    \* the uploader's .retry files
  stored,    \* captures stored for each flow
  ended,     \* history: when a stored capture last ended the request
  raced,     \* history: flows with a queue call under way at that moment, or one
             \* since whose count failed
  faults

vars == <<now, row, reports, caller, sensor, missed, stored, ended, raced, faults>>

Idle == [pc |-> "idle"]
At(pc, f) == [pc |-> pc, flow |-> f]
Open == 0    Fulfilled == 1    GivenUp == 2   \* the column fulfilled

TypeOK ==
  /\ now \in 1..MaxTime /\ faults \in 0..MaxFaults
  /\ row \in [Flows -> {NoRow} \union
       [at : 1..MaxTime, state : {Open, Fulfilled, GivenUp}, tries : 0..MaxTries]]
  /\ reports \in [Flows -> 0..MaxTries]
  /\ caller \in [Callers -> Flows \union {NoFlow}]
  /\ sensor \in [Sensors -> {Idle} \union
       {At(pc, f) : pc \in {"search", "upload", "store", "fulfil"}, f \in Flows}]
  /\ missed \in [Sensors -> [Flows -> 0..Misses - 1]]
  /\ stored \in [Flows -> Nat]
  /\ ended \in [Flows -> 0..MaxTime]
  /\ raced \subseteq Flows

Init ==
  /\ now = 1 /\ faults = 0
  /\ row = [f \in Flows |-> NoRow]
  /\ reports = [f \in Flows |-> 0]
  /\ caller = [w \in Callers |-> NoFlow]
  /\ sensor = [s \in Sensors |-> Idle]
  /\ missed = [s \in Sensors |-> [f \in Flows |-> 0]]
  /\ stored = [f \in Flows |-> 0]
  /\ ended = [f \in Flows |-> 0]
  /\ raced = {}

Fault == faults < MaxFaults /\ faults' = faults + 1

engine  == <<row, reports, caller>>
history == <<ended, raced>>

-----------------------------------------------------------------------------
(* The engine queues a request.                                            *)

Recent(f) == row[f] # NoRow /\ row[f].at > now - Day

(* queue_pcap_request: the count, of any request of the last day, ended or *)
(* not; one that fails counts nothing.                                     *)
Count(w, f) ==
  /\ caller[w] = NoFlow
  /\ \/ ~Recent(f) /\ UNCHANGED <<raced, faults>>
     \/ raced' = raced \union {f} /\ Fault
  /\ caller' = [caller EXCEPT ![w] = f]
  /\ UNCHANGED <<now, row, reports, sensor, missed, stored, ended>>

(* A newer row replaces the older and the reports queued for it.           *)
Insert(f, state) ==
  /\ row' = [row EXCEPT ![f] = [at |-> now, state |-> state, tries |-> 0]]
  /\ reports' = [reports EXCEPT ![f] = 0]

(* queue_pcap_request: the insert; its failure is only logged.             *)
Request(w) ==
  /\ caller[w] # NoFlow
  /\ caller' = [caller EXCEPT ![w] = NoFlow]
  /\ \/ Insert(caller[w], Open) /\ UNCHANGED faults
     \/ UNCHANGED <<row, reports>> /\ Fault
  /\ UNCHANGED <<now, sensor, missed, stored, history>>

-----------------------------------------------------------------------------
(* A sensor.                                                               *)

Offered(f) == Recent(f) /\ row[f].state = Open /\ row[f].tries < MaxTries

(* The check-in's answer; the sensor takes one flow of it after the other. *)
CheckIn(s) ==
  /\ sensor[s] = Idle
  /\ \E f \in Flows : Offered(f) /\ sensor' = [sensor EXCEPT ![s] = At("search", f)]
  /\ UNCHANGED <<now, engine, missed, stored, history, faults>>

Reported_AnyRow(f) == row[f] # NoRow                  \* mutant of Reported

(* A report counts only in a request that is open.                         *)
Reported(f) == row[f] # NoRow /\ row[f].state = Open

(* pcap_upload_failed queues the mutation.                                 *)
Report(f) ==
  reports' = [reports EXCEPT ![f] = IF @ = MaxTries THEN @ ELSE @ + 1]

(* The packets are not in the sensor's capture, or not yet.                *)
Miss(s) ==
  LET f == sensor[s].flow
  IN /\ sensor[s].pc = "search"
     /\ sensor' = [sensor EXCEPT ![s] = Idle]
     /\ \/ /\ missed[s][f] < Misses - 1
           /\ missed' = [missed EXCEPT ![s][f] = @ + 1]
           /\ UNCHANGED reports
        \/ /\ missed[s][f] = Misses - 1
           /\ missed' = [missed EXCEPT ![s][f] = 0]
           /\ Report(f)
     /\ UNCHANGED <<now, row, caller, stored, history, faults>>

(* They are: the count of misses starts again.                             *)
Find(s) ==
  LET f == sensor[s].flow
  IN /\ sensor[s].pc = "search" /\ s \in Holders[f]
     /\ missed' = [missed EXCEPT ![s][f] = 0]
     /\ sensor' = [sensor EXCEPT ![s] = At("upload", f)]
     /\ UNCHANGED <<now, engine, stored, history, faults>>

(* No method extracts the packets, or three uploads fail.                  *)
GiveUp(s) ==
  /\ sensor[s].pc = "upload"
  /\ Fault
  /\ Report(sensor[s].flow)
  /\ sensor' = [sensor EXCEPT ![s] = Idle]
  /\ UNCHANGED <<now, row, caller, missed, stored, history>>

-----------------------------------------------------------------------------
(* pcap_upload, called by a sensor.                                        *)

(* A capture that is stored already only ends the request.                 *)
Dedup(s) ==
  LET f == sensor[s].flow
  IN /\ sensor[s].pc = "upload"
     /\ sensor' = [sensor EXCEPT ![s] = At(IF stored[f] > 0 THEN "fulfil" ELSE "store", f)]
     /\ UNCHANGED <<now, engine, missed, stored, history, faults>>

(* The file is written and its session inserted; when the insert fails     *)
(* the upload goes on.                                                     *)
Store(s) ==
  LET f == sensor[s].flow
  IN /\ sensor[s].pc = "store"
     /\ \/ stored' = [stored EXCEPT ![f] = @ + 1] /\ UNCHANGED faults
        \/ UNCHANGED stored /\ Fault
     /\ sensor' = [sensor EXCEPT ![s] = At("fulfil", f)]
     /\ UNCHANGED <<now, engine, missed, history>>

(* mark_pcap_fulfilled; its failure is ignored.                            *)
Fulfil(s) ==
  LET f == sensor[s].flow
  IN /\ sensor[s].pc = "fulfil"
     /\ sensor' = [sensor EXCEPT ![s] = Idle]
     /\ \/ /\ Insert(f, Fulfilled)
           /\ ended' = [ended EXCEPT ![f] = now]
           /\ raced' = IF \E w \in Callers : caller[w] = f
                       THEN raced \union {f} ELSE raced \ {f}
           /\ UNCHANGED faults
        \/ UNCHANGED <<row, reports, history>> /\ Fault
     /\ UNCHANGED <<now, caller, missed, stored>>

-----------------------------------------------------------------------------
(* ClickHouse carries out the queued mutations.                            *)
Mutate(f) ==
  LET tries == row[f].tries + reports[f]
  IN /\ reports[f] > 0
     /\ reports' = [reports EXCEPT ![f] = 0]
     /\ row' = IF ~Reported(f) THEN row
               ELSE IF tries >= MaxTries
               THEN [row EXCEPT ![f].tries = MaxTries, ![f].state = GivenUp]
               ELSE [row EXCEPT ![f].tries = tries, ![f].state = Open]
     /\ UNCHANGED <<now, caller, sensor, missed, stored, history, faults>>

Tick ==
  /\ now < MaxTime
  /\ now' = now + 1
  /\ UNCHANGED <<engine, sensor, missed, stored, history, faults>>

Next ==
  \/ \E w \in Callers : Request(w) \/ \E f \in Flows : Count(w, f)
  \/ \E s \in Sensors :
       \/ CheckIn(s) \/ Miss(s) \/ Find(s) \/ GiveUp(s)
       \/ Dedup(s) \/ Store(s) \/ Fulfil(s)
  \/ \E f \in Flows : Mutate(f)
  \/ Tick

Spec == Init /\ [][Next]_vars

-----------------------------------------------------------------------------
(* Properties.                                                             *)

(* What a capture ended stays ended for a day: no late report of another   *)
(* sensor, delayed mutation or further hit of the flow offers it again,    *)
(* unless a queue call was half way when the request ended or its count    *)
(* failed (storage/clickhouse.rs, mark_pcap_fulfilled: "this row wins over *)
(* the original request row").                                             *)
FulfilledStays ==
  \A f \in Flows \ raced :
    ended[f] > 0 /\ ended[f] > now - Day => row[f].state = Fulfilled

-----------------------------------------------------------------------------
(* Statements that this code does not keep: TLC finds a counterexample to  *)
(* each (README).                                                          *)

(* scripts/install-sensor.sh, the uploader: "After 5 misses, the session   *)
(* will never appear; report failure so the server stops retrying".        *)
ReportEnds ==
  \A f \in Flows : row[f] # NoRow /\ row[f].tries > 0 => row[f].state # Open

(* api/mod.rs:7361, "Dedup: already stored": a flow has one capture.       *)
OneCapture == \A f \in Flows : stored[f] <= 1
=============================================================================
