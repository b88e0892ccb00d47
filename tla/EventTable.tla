----------------------------- MODULE EventTable -----------------------------
(***************************************************************************)
(* What the way from topic to table promises, without how it is done: a    *)
(* published event is claimed for insertion and then has a row.  While     *)
(* duplicates are recognised it is claimed by one and written once; while  *)
(* nothing is lost what is claimed is written.                             *)
(***************************************************************************)
EXTENDS Naturals

CONSTANT Event

VARIABLES
    published,  \* the events that were published
    claimed,    \* the events somebody is about to write
    table,      \* [Event -> Nat] rows of each event
    exact,      \* duplicates were always recognised so far
    intact      \* nothing was lost so far

vars == <<published, claimed, table, exact, intact>>

Init ==
    /\ published = {} /\ claimed = {}
    /\ table = [e \in Event |-> 0]
    /\ exact = TRUE /\ intact = TRUE

Publish(e) ==
    /\ published' = published \cup {e}
    /\ UNCHANGED <<claimed, table>>

Claim ==
    /\ claimed \subseteq claimed'
    /\ \A e \in claimed' \ claimed : e \in published /\ (exact' => table[e] = 0)
    /\ UNCHANGED <<published, table>>

(* A writer finishes; the events that leave the set are written.           *)
Write ==
    /\ claimed' \subseteq claimed
    /\ \A e \in Event :
        \/ table'[e] = table[e] /\ (e \in claimed => e \in claimed')
        \/ /\ e \in claimed /\ table'[e] > table[e]
           /\ exact' => table'[e] = 1 /\ e \notin claimed'
    /\ UNCHANGED published

Lose ==
    /\ ~intact'
    /\ claimed' \subseteq claimed
    /\ UNCHANGED <<published, table>>

Next ==
    /\ (exact' => exact) /\ (intact' => intact)
    /\ \/ UNCHANGED <<published, claimed, table>>
       \/ Claim \/ Write \/ Lose
       \/ \E e \in Event : Publish(e)

Spec == Init /\ [][Next]_vars

(* Only what was published has a row, or will have one.                    *)
OnlyPublished ==
    /\ claimed \subseteq published
    /\ \A e \in Event : table[e] > 0 => e \in published
=============================================================================
