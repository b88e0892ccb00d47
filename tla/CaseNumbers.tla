---------------------------- MODULE CaseNumbers ----------------------------
(***************************************************************************)
(* How a SOAR case gets its number INC-<year>-<n> (get_next_case_number in *)
(* src/rust/ndr-engine/src/storage/clickhouse.rs): the highest number      *)
(* stored in ClickHouse seeds a sequence in Valkey (SET NX, then INCR) and *)
(* replaces it when Valkey does not answer; a sequence found behind the    *)
(* stored numbers is moved forward.                                        *)
(*                                                                         *)
(* One tenant, one year.  A caller is one call, on any engine, from a      *)
(* playbook or from an analyst who creates a case; it takes a number and   *)
(* then inserts its case.                                                  *)
(***************************************************************************)
EXTENDS Naturals

CONSTANTS Caller,
          None,        \* the sequence key does not exist
          MaxOld,      \* bound: cases numbered before the sequence existed
          MaxLookups,  \* bound: lookups of the highest number that fail
          MaxValkey,   \* bound: Valkey calls that fail
          MaxLosses    \* bound: losses of the sequence key

ASSUME NumbersAssumption ==
    /\ None \notin Nat
    /\ MaxOld \in Nat /\ MaxLookups \in Nat /\ MaxValkey \in Nat /\ MaxLosses \in Nat

VARIABLES
    old,       \* the highest number stored before the sequence existed
    seq,       \* Valkey "soar_case_seq:<db>:<year>"
    pc,        \* [Caller -> Pc]
    highest,   \* [Caller -> Nat] what its lookup returned
    num,       \* [Caller -> Nat] the number it was given, 0 before
    stored,    \* the callers whose case is in soar_cases
    earlier,   \* [Caller -> SUBSET Caller] history: stored when it looked
    atomic,    \* history: the callers whose number Valkey answered for
    lookupsLeft, valkeyLeft, lossesLeft

history == <<earlier, atomic>>
budget  == <<lookupsLeft, valkeyLeft, lossesLeft>>
vars    == <<old, seq, pc, highest, num, stored, history, budget>>

Pc == {"lookup", "seed", "incr", "repair", "insert", "done"}

TypeOK ==
    /\ old \in 0..MaxOld
    /\ seq \in Nat \cup {None}
    /\ pc \in [Caller -> Pc]
    /\ highest \in [Caller -> Nat]
    /\ num \in [Caller -> Nat]
    /\ stored \in SUBSET Caller
    /\ earlier \in [Caller -> SUBSET Caller]
    /\ atomic \in SUBSET Caller
    /\ lookupsLeft \in 0..MaxLookups
    /\ valkeyLeft \in 0..MaxValkey
    /\ lossesLeft \in 0..MaxLosses

Init ==
    /\ old \in 0..MaxOld
    /\ seq = None
    /\ pc = [c \in Caller |-> "lookup"]
    /\ highest = [c \in Caller |-> 0]
    /\ num = [c \in Caller |-> 0]
    /\ stored = {}
    /\ earlier = [c \in Caller |-> {}]
    /\ atomic = {}
    /\ lookupsLeft = MaxLookups /\ valkeyLeft = MaxValkey /\ lossesLeft = MaxLosses

ValkeyFault == valkeyLeft > 0 /\ valkeyLeft' = valkeyLeft - 1

Goto(c, from, to) == pc[c] = from /\ pc' = [pc EXCEPT ![c] = to]

(* The numbers in soar_cases.                                               *)
Numbers == {old} \cup {num[c] : c \in stored}

-----------------------------------------------------------------------------
(* The steps of one call.                                                   *)

(* max(case_number); an error is logged and counts as 0.                    *)
Lookup(c) ==
    /\ Goto(c, "lookup", "seed")
    /\ \/ /\ \E n \in Numbers : /\ \A m \in Numbers : m <= n
                                /\ highest' = [highest EXCEPT ![c] = n]
          /\ UNCHANGED lookupsLeft
       \/ /\ lookupsLeft > 0
          /\ lookupsLeft' = lookupsLeft - 1
          /\ highest' = [highest EXCEPT ![c] = 0]
    /\ earlier' = [earlier EXCEPT ![c] = stored]
    /\ UNCHANGED <<old, seq, num, stored, atomic, valkeyLeft, lossesLeft>>

Give_RawReply(c, n) == num' = [num EXCEPT ![c] = seq]   \* mutant of Give

Give(c, n) == num' = [num EXCEPT ![c] = n]

(* Without Valkey, one above the highest stored number.                     *)
Fallback(c, from) ==
    /\ Goto(c, from, "insert")
    /\ Give(c, highest[c] + 1)
    /\ ValkeyFault
    /\ UNCHANGED atomic

Seed_WithoutNX(c) ==                              \* mutant of Seed
    /\ \/ /\ Goto(c, "seed", "incr")
          /\ seq' = highest[c]
          /\ UNCHANGED <<num, atomic, valkeyLeft>>
       \/ Fallback(c, "seed") /\ UNCHANGED seq
    /\ UNCHANGED <<old, highest, stored, earlier, lookupsLeft, lossesLeft>>

(* Connect, then SET NX, whose failure is ignored.                          *)
Seed(c) ==
    /\ \/ /\ Goto(c, "seed", "incr")
          /\ \/ seq' = (IF seq = None THEN highest[c] ELSE seq) /\ UNCHANGED valkeyLeft
             \/ UNCHANGED seq /\ ValkeyFault
          /\ UNCHANGED <<num, atomic>>
       \/ Fallback(c, "seed") /\ UNCHANGED seq
    /\ UNCHANGED <<old, highest, stored, earlier, lookupsLeft, lossesLeft>>

(* INCR of a missing key counts from 0.                                     *)
Incremented == (IF seq = None THEN 0 ELSE seq) + 1

Incr_Trusted(c) ==                                \* mutant of Incr
    /\ \/ /\ seq' = Incremented
          /\ Goto(c, "incr", "insert")
          /\ Give(c, Incremented)
          /\ atomic' = atomic \cup {c}
          /\ UNCHANGED valkeyLeft
       \/ Fallback(c, "incr") /\ seq' \in {seq, Incremented}
    /\ UNCHANGED <<old, highest, stored, earlier, lookupsLeft, lossesLeft>>

(* An error may hide an increment that was executed.                        *)
Incr(c) ==
    /\ \/ /\ seq' = Incremented
          /\ \/ /\ Incremented > highest[c]
                /\ Goto(c, "incr", "insert")
                /\ Give(c, Incremented)
                /\ atomic' = atomic \cup {c}
             \/ /\ Incremented <= highest[c]
                /\ Goto(c, "incr", "repair")
                /\ UNCHANGED <<num, atomic>>
          /\ UNCHANGED valkeyLeft
       \/ Fallback(c, "incr") /\ seq' \in {seq, Incremented}
    /\ UNCHANGED <<old, highest, stored, earlier, lookupsLeft, lossesLeft>>

(* The sequence was behind: SET it to the number taken.                     *)
Repair(c) ==
    /\ Goto(c, "repair", "insert")
    /\ Give(c, highest[c] + 1)
    /\ \/ /\ seq' = highest[c] + 1
          /\ UNCHANGED valkeyLeft
       \/ UNCHANGED seq /\ ValkeyFault
    /\ atomic' = atomic \cup {c}
    /\ UNCHANGED <<old, highest, stored, earlier, lookupsLeft, lossesLeft>>

(* The case is inserted, or it is not: the insert fails, or the analyst's   *)
(* request joined an open case after it took the number.                    *)
Insert(c) ==
    /\ Goto(c, "insert", "done")
    /\ stored' \in {stored, stored \cup {c}}
    /\ UNCHANGED <<old, seq, highest, num, history, budget>>

(* Valkey loses the key: restarted without its data, or flushed.            *)
LoseKey ==
    /\ seq # None
    /\ seq' = None
    /\ lossesLeft > 0 /\ lossesLeft' = lossesLeft - 1
    /\ UNCHANGED <<old, pc, highest, num, stored, history, lookupsLeft, valkeyLeft>>

Next ==
    \/ \E c \in Caller : Lookup(c) \/ Seed(c) \/ Incr(c) \/ Repair(c) \/ Insert(c)
    \/ LoseKey

Spec == Init /\ [][Next]_vars

-----------------------------------------------------------------------------
(* Properties.                                                              *)

ValkeyHealthy == valkeyLeft = MaxValkey /\ lossesLeft = MaxLosses
LookupsHealthy == lookupsLeft = MaxLookups

(* However the callers' five steps interleave, no two of them are given the *)
(* same number, and none an old one, while nothing fails.                   *)
NumbersUnique ==
    ValkeyHealthy /\ LookupsHealthy =>
        \A c, d \in Caller : num[c] > 0 =>
            num[c] > old /\ (c # d => num[c] # num[d])

(* Whatever Valkey does - calls lost, the key lost, the sequence behind -   *)
(* a call begun after a case was stored takes a higher number than it: only *)
(* calls that overlap can collide.                                          *)
LaterIsHigher ==
    LookupsHealthy =>
        \A d \in Caller : num[d] > 0 =>
            num[d] > old /\ \A c \in earlier[d] : num[d] > num[c]

(* Both: the numbers of cases are in the order in which they are taken.     *)
IssuedInOrder == NumbersUnique /\ LaterIsHigher

(* The five steps of a call implement what NumberIssue promises of the     *)
(* numbering: every step of a call, and every fault, is a step of it or    *)
(* leaves it alone (get_next_case_number).                                 *)
Issue == INSTANCE NumberIssue
           WITH lookups <- LookupsHealthy, valkey <- ValkeyHealthy
IssuesNumbers == Issue!Spec

-----------------------------------------------------------------------------
(* Statements that this code does not keep: TLC finds a counterexample to  *)
(* each (README).                                                          *)

(* storage/clickhouse.rs:5384, "Valkey INCR is atomic, so two engines       *)
(* cannot take the same number": two calls that Valkey answered have        *)
(* different numbers.                                                       *)
AtomicNumbersDiffer ==
    \A c, d \in atomic : c # d => num[c] # num[d]
=============================================================================
