----------------------------- MODULE MCResponse -----------------------------
(* SoarCases and Containment, checked side by side: neither reads what the *)
(* other writes, so a behaviour moves one of them, chosen at its start, and*)
(* leaves the other in its first state.                                    *)
EXTENDS MCSoarCases, TLC

CONSTANTS
  j1, j2, Jobs, Hosts, Devices, Methods, ListLimit, NoTask, MaxRequests, CallFaults

VARIABLES
  side,        \* the component that moves
  enabled, table, blocks, vlan, access, registry, drops, isolations, job, requests,
  faults, missed, mixed

containment == <<enabled, table, blocks, vlan, access, registry, drops, isolations, job,
                 requests, faults, missed, mixed>>

C == INSTANCE Containment WITH open <- access, MaxFaults <- CallFaults

MCInit == Init /\ C!Init /\ side \in {"soar", "containment"}

MCNext ==
  /\ UNCHANGED side
  /\ \/ side = "soar" /\ Next /\ UNCHANGED containment
     \/ side = "containment" /\ C!Next /\ UNCHANGED vars

MCSpec == MCInit /\ [][MCNext]_<<side, vars, containment>>

(* What a task carries from one call to the next.                          *)
BlockTasks ==
  [pc : {"push", "record"}, host : Hosts, by : {"playbook", "analyst"},
   rst : BOOLEAN, asked : BOOLEAN, rule : BOOLEAN]
RevokeTasks == [pc : {"revoke"}, host : Hosts, asked : BOOLEAN]
IsolateTasks ==
  [pc : {"read", "enforce", "store"}, device : Devices, method : Methods, saved : C!Vlans]
RestoreTasks == [pc : {"mark", "undo"}, row : Nat, device : Devices]
ContainmentTasks == BlockTasks \union RevokeTasks \union IsolateTasks \union RestoreTasks

ASSUME ContainmentAssumption ==
  /\ NoTask \notin ContainmentTasks
  /\ MaxRequests \in Nat /\ CallFaults \in Nat

(* Tasks differ in nothing but their name.                                 *)
JobSymmetry == Permutations(Jobs)

TypesOK == TypeOK /\ C!TypeOK
ContainmentEnds == C!ContainmentEnds
=============================================================================
