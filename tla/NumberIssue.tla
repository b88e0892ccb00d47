---------------------------- MODULE NumberIssue ----------------------------
(***************************************************************************)
(* What the numbering of cases promises, without how it is done: a call    *)
(* begins, is given a number, and its case is stored.  A number is above   *)
(* those of all cases stored when its call began as long as those could be *)
(* looked up, and is nobody else's as long as Valkey answers as well.      *)
(***************************************************************************)
EXTENDS Naturals

CONSTANT Caller

VARIABLES
    old,      \* the highest number before
    num,      \* [Caller -> Nat] the number given to each call, 0 before
    stored,   \* the calls whose case is stored
    earlier,  \* [Caller -> SUBSET Caller] the cases stored when each began
    lookups,  \* every lookup has worked so far
    valkey    \* so has every call of Valkey, which has lost nothing

vars == <<old, num, stored, earlier, lookups, valkey>>

Init ==
    /\ old \in Nat
    /\ num = [c \in Caller |-> 0]
    /\ stored = {}
    /\ earlier = [c \in Caller |-> {}]
    /\ lookups = TRUE /\ valkey = TRUE

(* A number that c may be given.                                           *)
Above(c, n) == n > old /\ \A d \in earlier[c] : n > num[d]
Free(c, n) == n > old /\ \A d \in Caller \ {c} : n # num[d]

Begin(c) ==
    /\ num[c] = 0
    /\ earlier' = [earlier EXCEPT ![c] = stored]
    /\ UNCHANGED <<num, stored>>

Give(c) ==
    /\ num[c] = 0 /\ num'[c] > 0
    /\ num' = [num EXCEPT ![c] = num'[c]]
    /\ lookups' => Above(c, num'[c])
    /\ lookups' /\ valkey' => Free(c, num'[c])
    /\ UNCHANGED <<stored, earlier>>

Store(c) ==
    /\ num[c] > 0
    /\ stored' = stored \cup {c}
    /\ UNCHANGED <<num, earlier>>

(* What has failed once is not trusted again.                              *)
Degrade == (lookups' => lookups) /\ (valkey' => valkey)

Next ==
    /\ \/ \E c \in Caller : Begin(c) \/ Give(c) \/ Store(c)
       \/ UNCHANGED <<num, stored, earlier>>
    /\ Degrade
    /\ UNCHANGED old

Spec == Init /\ [][Next]_vars
=============================================================================
