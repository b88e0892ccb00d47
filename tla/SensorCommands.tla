--------------------------- MODULE SensorCommands ---------------------------
(***************************************************************************)
(* Commands for sensors: the engine queues a row, a sensor's check-in is   *)
(* answered with the newest pending row and every pending row of its scope *)
(* is marked done by a mutation, which ClickHouse carries out later.  A    *)
(* scope is one sensor or, for a tenant-wide command, all of them.         *)
(***************************************************************************)
EXTENDS Integers, FiniteSets

CONSTANTS
  Sensors,
  All,          \* the empty sensor_id: any sensor of the tenant
  Nothing,      \* no row
  MaxCommands,  \* bound on the commands queued
  MaxTime,      \* bound on the clock, in seconds
  MaxFaults     \* bound on calls that fail and answers that are lost

Scopes == Sensors \union {All}
Rows == [scope : Scopes, at : 0..MaxTime, serial : 1..MaxCommands]

VARIABLES
  now,
  count,       \* commands queued so far
  pending,     \* the rows of sensor_commands that FINAL shows as pending
  doomed,      \* those that a queued mutation will mark done
  registering, \* sensors between the two commands of their registration
  read,        \* what the check-in of each sensor read, until it is answered
  newest,      \* history: the last command of its own each sensor executed
  faults

vars == <<now, count, pending, doomed, registering, read, newest, faults>>

TypeOK ==
  /\ now \in 0..MaxTime /\ count \in 0..MaxCommands /\ faults \in 0..MaxFaults
  /\ pending \subseteq Rows /\ doomed \subseteq Rows
  /\ registering \subseteq Sensors
  /\ read \in [Sensors -> Rows \union {Nothing}]
  /\ newest \in [Sensors -> 0..MaxCommands]

Init ==
  /\ now = 0 /\ count = 0 /\ faults = 0
  /\ pending = {} /\ doomed = {}
  /\ registering = {}
  /\ read = [s \in Sensors |-> Nothing]
  /\ newest = [s \in Sensors |-> 0]

Fault == faults < MaxFaults /\ faults' = faults + 1

-----------------------------------------------------------------------------
(* The engine.                                                             *)

(* set_sensor_command.  The table keeps one row of a scope and second.     *)
Queue(scope) ==
  /\ count < MaxCommands /\ count' = count + 1
  /\ pending' = {r \in pending : r.scope # scope \/ r.at # now}
                \union {[scope |-> scope, at |-> now, serial |-> count']}

(* An administrator's command, or the suppression the AI decided on.       *)
Control(scope) ==
  /\ Queue(scope)
  /\ UNCHANGED <<now, doomed, registering, read, newest, faults>>

(* A registration queues two commands, one after the other; an error of    *)
(* either is ignored.                                                      *)
Register(s) ==
  /\ \/ s \notin registering /\ registering' = registering \union {s}
     \/ s \in registering /\ registering' = registering \ {s}
  /\ \/ Queue(s) /\ UNCHANGED faults
     \/ Fault /\ UNCHANGED <<count, pending>>
  /\ UNCHANGED <<now, doomed, read, newest>>

(* The rows a check-in may be answered with, its own first.                *)
Own(s) == {r \in pending : r.scope = s}
Candidates(s) == IF Own(s) # {} THEN Own(s) ELSE {r \in pending : r.scope = All}

(* get_sensor_command; a failed query looks like no command.               *)
Ask(s) ==
  /\ read[s] = Nothing
  /\ \E r \in Candidates(s) :
       /\ \A q \in Candidates(s) : q.at <= r.at
       /\ read' = [read EXCEPT ![s] = r]
  /\ UNCHANGED <<now, count, pending, doomed, registering, newest, faults>>

Cleared_OnlySent(row) == {row} \intersect pending     \* mutant of Cleared

(* clear_sensor_command: every pending row of the scope there is by now.   *)
Cleared(row) == {r \in pending : r.scope = row.scope}

Execute(s) ==
  newest' = IF read[s].scope = s THEN [newest EXCEPT ![s] = read[s].serial]
            ELSE newest

(* The rows are cleared, or that fails; then the sensor executes the       *)
(* command, or the answer is lost.                                         *)
Answer(s) ==
  /\ read[s] # Nothing
  /\ read' = [read EXCEPT ![s] = Nothing]
  /\ \/ /\ doomed' = doomed \union Cleared(read[s])
        /\ Execute(s)
        /\ UNCHANGED faults
     \/ /\ UNCHANGED doomed
        /\ Execute(s)
        /\ Fault
     \/ /\ doomed' = doomed \union Cleared(read[s])
        /\ UNCHANGED newest
        /\ Fault
  /\ UNCHANGED <<now, count, pending, registering>>

-----------------------------------------------------------------------------
(* ClickHouse carries out the queued mutations; a row inserted after them  *)
(* is not touched, even when it replaces one that is.                      *)
Mutate ==
  /\ doomed # {}
  /\ pending' = pending \ doomed
  /\ doomed' = {}
  /\ UNCHANGED <<now, count, registering, read, newest, faults>>

Tick ==
  /\ now < MaxTime
  /\ now' = now + 1
  /\ UNCHANGED <<count, pending, doomed, registering, read, newest, faults>>

Next ==
  \/ \E scope \in Scopes : Control(scope)
  \/ \E s \in Sensors : Register(s) \/ Ask(s) \/ Answer(s)
  \/ Mutate
  \/ Tick

Spec == Init /\ [][Next]_vars

-----------------------------------------------------------------------------
(* Properties.                                                             *)

(* A sensor never goes back: after a command of its own it executes no     *)
(* older one, whatever answers were lost, marks delayed or calls failed -  *)
(* what was left behind was cleared or stays behind (storage/clickhouse.rs *)
(* get_sensor_command and clear_sensor_command).                           *)
NeverBackwards == [][\A s \in Sensors : newest'[s] >= newest[s]]_vars
=============================================================================
