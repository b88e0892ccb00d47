------------------------------- MODULE Lease -------------------------------
(***************************************************************************)
(* What a leader election by lease promises, without how it is done: an    *)
(* engine takes the free lease, leads, and renews it before it runs out;   *)
(* it leads until it stops, and when it shuts down the lease is free.  An  *)
(* engine that was late or cut off may lead without the lease, and only    *)
(* then is a leader ever asked to step down.                               *)
(***************************************************************************)
EXTENDS Naturals

CONSTANTS Engine, None

VARIABLES
    holder,    \* the engine that holds the lease, or None
    left,      \* how long the lease still lasts
    leaders,   \* the engines that do the leader's work
    stopping,  \* the engines that are shutting down
    timely     \* no engine has been late or cut off so far

vars == <<holder, left, leaders, stopping, timely>>

Init ==
    /\ holder = None /\ left = 0
    /\ leaders = {} /\ stopping = {}
    /\ timely = TRUE

Take(e) ==
    /\ holder = None
    /\ holder' = e /\ left' > 0
    /\ UNCHANGED <<leaders, stopping>>

(* An engine that took the lease in time leads under it; a late one may    *)
(* find that it is another's by then.                                      *)
Lead(e) ==
    /\ leaders' = leaders \cup {e}
    /\ timely' => holder = e /\ left > 0
    /\ UNCHANGED <<holder, left, stopping>>

Renew(e) ==
    /\ holder = e
    /\ left' >= left /\ left' > 0
    /\ timely' => leaders' = leaders
    /\ leaders' \in {leaders, leaders \ {e}}
    /\ UNCHANGED <<holder, stopping>>

StepDown(e) ==
    /\ ~timely'
    /\ leaders' = leaders \ {e}
    /\ UNCHANGED <<holder, left, stopping>>

(* A shutdown frees the lease, unless the engine is cut off.               *)
ShutDown(e) ==
    /\ e \notin stopping
    /\ stopping' = stopping \cup {e}
    /\ leaders' = leaders \ {e}
    /\ \/ holder = e /\ holder' = None /\ left' = 0
       \/ (timely' => holder # e) /\ UNCHANGED <<holder, left>>

(* The process is gone, by a crash or after its shutdown.                  *)
Stop(e) ==
    /\ leaders' = leaders \ {e}
    /\ stopping' = stopping \ {e}
    /\ UNCHANGED <<holder, left>>

(* Time passes; it never takes the lease from a timely leader.             *)
Pass ==
    /\ left' <= left
    /\ timely' /\ left' = 0 => holder \notin leaders
    /\ UNCHANGED <<holder, leaders, stopping>>

Lapse ==
    /\ left = 0
    /\ holder' = None
    /\ timely' => leaders = {}
    /\ UNCHANGED <<left, leaders, stopping>>

Next ==
    /\ timely' => timely
    /\ \/ UNCHANGED <<holder, left, leaders, stopping>>
       \/ Pass \/ Lapse
       \/ \E e \in Engine : \/ Take(e) \/ Lead(e) \/ Renew(e) \/ StepDown(e)
                            \/ ShutDown(e) \/ Stop(e)

Spec == Init /\ [][Next]_vars

(* As long as all are timely, nobody but the lease's holder leads.         *)
OnlyHolderLeads == timely => leaders \subseteq {holder}
=============================================================================
