----------------------------- MODULE MCPipeline -----------------------------
(* EventStore and Sigma, checked side by side: neither reads what the other *)
(* writes, so a behaviour moves one of them, chosen at its start, and       *)
(* leaves the other in its first state.                                     *)
EXTENDS MCEventStore

CONSTANTS Names, Patterns, Forms, MaxWords

VARIABLES
  side,        \* the component that moves
  text, form

conditions == <<text, form>>

Every == [p \in Patterns |-> Names]
C == INSTANCE Sigma WITH Starting <- Every

MCInit == Init /\ C!Init /\ side \in {"events", "conditions"}

MCNext ==
  /\ UNCHANGED side
  /\ \/ side = "events" /\ Next /\ UNCHANGED conditions
     \/ side = "conditions" /\ C!Next /\ UNCHANGED vars

(* EventStore's Fairness, of the behaviours that move it.                   *)
Moves(step) == side = "events" /\ step
MCFairness ==
  /\ WF_vars(Moves(\E g \in Engine : Assign(g)))
  /\ \A g \in Engine : /\ WF_vars(Moves(Receive(g))) /\ WF_vars(Moves(Collect(g)))
                       /\ WF_vars(Moves(Flush(g))) /\ WF_vars(Moves(Dedup(g)))
                       /\ WF_vars(Moves(Insert(g)))

MCSpec == MCInit /\ [][MCNext]_<<side, vars, conditions>> /\ MCFairness

TypesOK == TypeOK /\ C!TypeOK
ReadAsWritten == C!ReadAsWritten
=============================================================================
