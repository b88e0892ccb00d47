------------------------- MODULE CaseNumbersProofs -------------------------
(***************************************************************************)
(* Proofs about CaseNumbers, for every set of callers and every bound.     *)
(***************************************************************************)
EXTENDS CaseNumbers, TLAPS

Unnumbered == {"lookup", "seed", "incr", "repair"}

(* A call has a number, above the highest it found, from the step that      *)
(* gives it on; only finished calls have stored their case.                 *)
Numbered ==
    /\ \A c \in Caller : pc[c] \in Unnumbered => num[c] = 0
    /\ \A c \in Caller : pc[c] \notin Unnumbered => num[c] > highest[c]
    /\ \A c \in stored : pc[c] = "done"

(* What a successful lookup returned bounds every case it could see.        *)
LookedUp ==
    LookupsHealthy =>
        \A d \in Caller :
            /\ pc[d] = "lookup" => earlier[d] = {}
            /\ pc[d] # "lookup" => highest[d] >= old
            /\ \A c \in earlier[d] : pc[c] = "done" /\ num[c] <= highest[d]

(* While nothing fails the sequence exists from the first seed on, and is   *)
(* at or above every number given and every highest number found.           *)
SequenceAhead ==
    ValkeyHealthy /\ LookupsHealthy =>
        /\ \A c \in Caller : pc[c] # "repair"
        /\ seq = None => /\ \A c \in Caller : pc[c] \in {"lookup", "seed"}
                         /\ \A c \in Caller : highest[c] <= old
        /\ seq # None => /\ seq >= old
                         /\ \A c \in Caller : num[c] <= seq /\ highest[c] <= seq

IInv == TypeOK /\ Numbered /\ LookedUp /\ SequenceAhead /\ NumbersUnique

-----------------------------------------------------------------------------

(* Every variable keeps its type: in particular no call of                  *)
(* get_next_case_number ever returns something that is not a number.        *)
THEOREM NumbersTypeCorrect == Spec => []TypeOK
<1>1. Init => TypeOK
  BY NumbersAssumption DEF Init, TypeOK, Pc
<1>2. TypeOK /\ [Next]_vars => TypeOK'
  <2> SUFFICES ASSUME TypeOK, [Next]_vars PROVE TypeOK'
    OBVIOUS
  <2> USE NumbersAssumption DEF TypeOK, Pc
  <2>1. ASSUME NEW c \in Caller, Lookup(c) PROVE TypeOK'
    <3>1. \A n \in Numbers : n \in Nat
      BY DEF Numbers
    <3>2. highest' \in [Caller -> Nat]
      BY <2>1, <3>1 DEF Lookup
    <3> QED
      BY <2>1, <3>2 DEF Lookup, Goto
  <2>2. ASSUME NEW c \in Caller, Seed(c) PROVE TypeOK'
    BY <2>2 DEF Seed, Goto, Fallback, Give, ValkeyFault, history
  <2>3. ASSUME NEW c \in Caller, Incr(c) PROVE TypeOK'
    BY <2>3 DEF Incr, Incremented, Goto, Fallback, Give, ValkeyFault, history
  <2>4. ASSUME NEW c \in Caller, Repair(c) PROVE TypeOK'
    BY <2>4 DEF Repair, Goto, Give, ValkeyFault, history
  <2>5. ASSUME NEW c \in Caller, Insert(c) PROVE TypeOK'
    BY <2>5 DEF Insert, Goto, history, budget
  <2>6. CASE LoseKey
    BY <2>6 DEF LoseKey, history
  <2>7. CASE UNCHANGED vars
    BY <2>7 DEF vars, history, budget
  <2> QED
    BY <2>1, <2>2, <2>3, <2>4, <2>5, <2>6, <2>7 DEF Next
<1> QED
  BY <1>1, <1>2, PTL DEF Spec

-----------------------------------------------------------------------------

(* The invariant holds when no call has begun (no number given yet).        *)
LEMMA InitIInv == Init => IInv
  BY NumbersAssumption DEF Init, IInv, TypeOK, Pc, Numbered, Unnumbered, LookedUp,
     SequenceAhead, NumbersUnique, ValkeyHealthy, LookupsHealthy

(* A lookup sees every stored case, and none beyond the sequence.           *)
LEMMA LookupStep ==
    ASSUME IInv, NEW c \in Caller, Lookup(c)
    PROVE  (Numbered /\ LookedUp /\ SequenceAhead /\ NumbersUnique)'
<1> USE NumbersAssumption DEF IInv, TypeOK, Pc, Lookup, Goto
<1>1. Numbered'
  <2>1. num[c] = 0 /\ c \notin stored
    BY DEF Numbered, Unnumbered
  <2> QED
    BY <2>1 DEF Numbered, Unnumbered
<1>2. LookedUp'
  <2> SUFFICES ASSUME LookupsHealthy'
               PROVE  LookedUp'
    BY DEF LookedUp
  <2>1. LookupsHealthy /\ lookupsLeft' = lookupsLeft
    BY DEF LookupsHealthy
  <2>2. highest'[c] \in Numbers /\ \A m \in Numbers : m <= highest'[c]
    BY <2>1 DEF Numbers
  <2>3. highest'[c] >= old /\ \A d \in stored : num[d] <= highest'[c]
    BY <2>2 DEF Numbers
  <2>4. \A d \in stored : pc[d] = "done" /\ d # c
    BY DEF Numbered
  <2> QED
    BY <2>1, <2>3, <2>4 DEF LookedUp
<1>3. SequenceAhead'
  <2> SUFFICES ASSUME ValkeyHealthy', LookupsHealthy'
               PROVE  SequenceAhead'
    BY DEF SequenceAhead
  <2>1. ValkeyHealthy /\ LookupsHealthy /\ lookupsLeft' = lookupsLeft
    BY DEF ValkeyHealthy, LookupsHealthy
  <2>2. highest'[c] \in Numbers
    BY <2>1 DEF Numbers
  <2>3. CASE seq = None
    <3>1. stored = {}
      BY <2>1, <2>3 DEF SequenceAhead, Numbered
    <3>2. highest'[c] = old
      BY <2>2, <3>1 DEF Numbers
    <3> QED
      BY <2>1, <2>3, <3>2 DEF SequenceAhead
  <2>4. CASE seq # None
    <3>1. highest'[c] <= seq
      BY <2>1, <2>2, <2>4 DEF SequenceAhead, Numbers
    <3> QED
      BY <2>1, <2>4, <3>1 DEF SequenceAhead
  <2> QED
    BY <2>3, <2>4
<1>4. NumbersUnique'
  BY DEF NumbersUnique, ValkeyHealthy, LookupsHealthy
<1> QED
  BY <1>1, <1>2, <1>3, <1>4

(* A step that gives a number, above the highest its call found.            *)
LEMMA GiveStep ==
    ASSUME IInv, NEW c \in Caller, NEW n \in Nat, n > highest[c], Give(c, n),
           pc[c] \in {"seed", "incr", "repair"}, pc' = [pc EXCEPT ![c] = "insert"],
           UNCHANGED <<old, highest, stored, earlier, lookupsLeft>>
    PROVE  (Numbered /\ LookedUp)'
<1> USE DEF IInv, TypeOK, Pc, Give
<1>1. Numbered'
  BY DEF Numbered, Unnumbered
<1>2. LookedUp'
  BY DEF LookedUp, LookupsHealthy
<1> QED
  BY <1>1, <1>2

(* The first seed puts the sequence at the highest stored number.           *)
LEMMA SeedStep ==
    ASSUME IInv, NEW c \in Caller, Seed(c)
    PROVE  (Numbered /\ LookedUp /\ SequenceAhead /\ NumbersUnique)'
<1> USE NumbersAssumption DEF IInv, TypeOK, Pc
<1>1. CASE Fallback(c, "seed") /\ UNCHANGED seq
  <2>1. (Numbered /\ LookedUp)'
    <3>1. highest[c] + 1 \in Nat /\ highest[c] + 1 > highest[c]
      OBVIOUS
    <3> QED
      BY <1>1, <3>1, GiveStep DEF Seed, Fallback, Goto
  <2>2. ~ValkeyHealthy'
    BY <1>1 DEF Fallback, ValkeyFault, ValkeyHealthy
  <2> QED
    BY <2>1, <2>2 DEF SequenceAhead, NumbersUnique
<1>2. CASE Goto(c, "seed", "incr") /\ UNCHANGED <<num, atomic>>
  <2>1. Numbered'
    BY <1>2 DEF Seed, Goto, Numbered, Unnumbered
  <2>2. LookedUp'
    BY <1>2 DEF Seed, Goto, LookedUp, LookupsHealthy
  <2>3. SequenceAhead'
    <3> SUFFICES ASSUME ValkeyHealthy', LookupsHealthy'
                 PROVE  SequenceAhead'
      BY DEF SequenceAhead
    <3>1. ValkeyHealthy /\ LookupsHealthy /\ valkeyLeft' = valkeyLeft
      BY <1>2 DEF Seed, Fallback, ValkeyFault, ValkeyHealthy, LookupsHealthy
    <3>2. seq' = IF seq = None THEN highest[c] ELSE seq
      BY <1>2, <3>1 DEF Seed, ValkeyFault, Fallback
    <3>3. seq' # None /\ seq' \in Nat
      BY <3>2
    <3>4. seq = None => seq' = old
      <4>1. seq = None => highest[c] <= old
        BY <3>1 DEF SequenceAhead
      <4>2. highest[c] >= old
        BY <1>2, <3>1 DEF LookedUp, Goto
      <4> QED
        BY <3>2, <4>1, <4>2
    <3>5. /\ seq' >= old
          /\ \A d \in Caller : num[d] <= seq' /\ highest[d] <= seq'
      <4>1. CASE seq = None
        BY <3>1, <3>4, <4>1 DEF SequenceAhead, Numbered, Unnumbered
      <4>2. CASE seq # None
        BY <3>1, <3>2, <4>2 DEF SequenceAhead
      <4> QED
        BY <4>1, <4>2
    <3> QED
      BY <1>2, <3>1, <3>3, <3>5 DEF Seed, Goto, SequenceAhead
  <2>4. NumbersUnique'
    BY <1>2 DEF Seed, Fallback, ValkeyFault, NumbersUnique, ValkeyHealthy, LookupsHealthy
  <2> QED
    BY <2>1, <2>2, <2>3, <2>4
<1> QED
  BY <1>1, <1>2 DEF Seed

(* An increment passes every number given before it.                        *)
LEMMA IncrStep ==
    ASSUME IInv, NEW c \in Caller, Incr(c)
    PROVE  (Numbered /\ LookedUp /\ SequenceAhead /\ NumbersUnique)'
<1> USE NumbersAssumption DEF IInv, TypeOK, Pc
<1>1. CASE Fallback(c, "incr")
  <2>1. (Numbered /\ LookedUp)'
    <3>1. highest[c] + 1 \in Nat /\ highest[c] + 1 > highest[c]
      OBVIOUS
    <3> QED
      BY <1>1, <3>1, GiveStep DEF Incr, Fallback, Goto
  <2>2. ~ValkeyHealthy'
    BY <1>1 DEF Fallback, ValkeyFault, ValkeyHealthy
  <2> QED
    BY <2>1, <2>2 DEF SequenceAhead, NumbersUnique
<1>2. CASE /\ seq' = Incremented /\ Incremented > highest[c]
           /\ Goto(c, "incr", "insert") /\ Give(c, Incremented) /\ UNCHANGED valkeyLeft
  <2>1. Incremented \in Nat
    BY DEF Incremented
  <2>2. (Numbered /\ LookedUp)'
    BY <1>2, <2>1, GiveStep DEF Incr, Goto
  <2>3. ASSUME ValkeyHealthy', LookupsHealthy'
        PROVE  /\ ValkeyHealthy /\ LookupsHealthy
               /\ seq # None /\ seq' = seq + 1 /\ seq' \in Nat /\ seq' # None
    BY <1>2, <2>3 DEF Incr, ValkeyHealthy, LookupsHealthy, Goto, SequenceAhead,
       Incremented
  <2>4. SequenceAhead'
    BY <1>2, <2>3 DEF Incr, Goto, Give, SequenceAhead
  <2>5. NumbersUnique'
    <3> SUFFICES ASSUME ValkeyHealthy', LookupsHealthy' PROVE NumbersUnique'
      BY DEF NumbersUnique
    <3>1. \A d \in Caller : num[d] < seq'
      BY <2>3 DEF SequenceAhead
    <3>2. num' = [num EXCEPT ![c] = seq'] /\ seq' > old
      BY <1>2, <2>3 DEF Give, SequenceAhead
    <3> QED
      BY <2>3, <3>1, <3>2 DEF Incr, NumbersUnique
  <2> QED
    BY <2>2, <2>4, <2>5
<1>3. CASE /\ seq' = Incremented /\ Incremented <= highest[c]
           /\ Goto(c, "incr", "repair") /\ UNCHANGED <<num, atomic>>
           /\ UNCHANGED valkeyLeft
  <2>1. Numbered'
    BY <1>3 DEF Incr, Goto, Numbered, Unnumbered
  <2>2. LookedUp'
    BY <1>3 DEF Incr, Goto, LookedUp, LookupsHealthy
  <2>3. ~(ValkeyHealthy' /\ LookupsHealthy')
    <3> SUFFICES ASSUME ValkeyHealthy', LookupsHealthy' PROVE FALSE
      OBVIOUS
    <3>1. ValkeyHealthy /\ LookupsHealthy
      BY <1>3 DEF Incr, ValkeyHealthy, LookupsHealthy
    <3>2. seq # None /\ highest[c] <= seq
      BY <1>3, <3>1 DEF Goto, SequenceAhead
    <3> QED
      BY <1>3, <3>2 DEF Incremented
  <2> QED
    BY <2>1, <2>2, <2>3 DEF SequenceAhead, NumbersUnique
<1> QED
  BY <1>1, <1>2, <1>3 DEF Incr

(* A repair happens only after a failure, and stays above the stored.       *)
LEMMA RepairStep ==
    ASSUME IInv, NEW c \in Caller, Repair(c)
    PROVE  (Numbered /\ LookedUp /\ SequenceAhead /\ NumbersUnique)'
<1> USE NumbersAssumption DEF IInv, TypeOK, Pc
<1>1. (Numbered /\ LookedUp)'
  <2>1. highest[c] + 1 \in Nat /\ highest[c] + 1 > highest[c]
    OBVIOUS
  <2> QED
    BY <2>1, GiveStep DEF Repair, Goto
<1>2. ~(ValkeyHealthy' /\ LookupsHealthy')
  BY DEF Repair, Goto, ValkeyFault, ValkeyHealthy, LookupsHealthy, SequenceAhead
<1> QED
  BY <1>1, <1>2 DEF SequenceAhead, NumbersUnique

(* Storing a case adds no number.                                           *)
LEMMA InsertStep ==
    ASSUME IInv, NEW c \in Caller, Insert(c)
    PROVE  (Numbered /\ LookedUp /\ SequenceAhead /\ NumbersUnique)'
<1> USE NumbersAssumption DEF IInv, TypeOK, Pc, Insert, Goto, history, budget
<1>1. Numbered'
  BY DEF Numbered, Unnumbered
<1>2. LookedUp'
  BY DEF LookedUp, LookupsHealthy
<1>3. SequenceAhead'
  BY DEF SequenceAhead, ValkeyHealthy, LookupsHealthy
<1>4. NumbersUnique'
  BY DEF NumbersUnique, ValkeyHealthy, LookupsHealthy
<1> QED
  BY <1>1, <1>2, <1>3, <1>4

(* The loss of the sequence key is a failure: only the lookups' bound stays. *)
LEMMA LoseKeyStep ==
    ASSUME IInv, LoseKey
    PROVE  (Numbered /\ LookedUp /\ SequenceAhead /\ NumbersUnique)'
<1> USE NumbersAssumption DEF IInv, TypeOK, LoseKey, history
<1>1. (Numbered /\ LookedUp)'
  BY DEF Numbered, Unnumbered, LookedUp, LookupsHealthy
<1>2. ~ValkeyHealthy'
  BY DEF ValkeyHealthy
<1> QED
  BY <1>1, <1>2 DEF SequenceAhead, NumbersUnique

(* The strengthened invariant of get_next_case_number's callers.            *)
LEMMA Strengthened == Spec => []IInv
<1>1. IInv /\ [Next]_vars => (Numbered /\ LookedUp /\ SequenceAhead /\ NumbersUnique)'
  <2> SUFFICES ASSUME IInv, [Next]_vars
               PROVE  (Numbered /\ LookedUp /\ SequenceAhead /\ NumbersUnique)'
    OBVIOUS
  <2>1. CASE UNCHANGED vars
    BY <2>1 DEF IInv, vars, history, budget, Numbered, LookedUp, SequenceAhead,
       NumbersUnique, ValkeyHealthy, LookupsHealthy
  <2> QED
    BY <2>1, LookupStep, SeedStep, IncrStep, RepairStep, InsertStep, LoseKeyStep DEF Next
<1>2. Init => Numbered /\ LookedUp /\ SequenceAhead /\ NumbersUnique
  BY InitIInv DEF IInv
<1>3. TypeOK /\ Numbered /\ LookedUp /\ SequenceAhead /\ NumbersUnique <=> IInv
  BY DEF IInv
<1> QED
  BY <1>1, <1>2, <1>3, NumbersTypeCorrect, PTL DEF Spec

(* Among any number of engines and callers, get_next_case_number never      *)
(* gives one number to two cases while Valkey and the lookups answer.       *)
THEOREM NumbersAreUnique == Spec => []NumbersUnique
<1>1. IInv => NumbersUnique
  BY DEF IInv
<1> QED
  BY <1>1, Strengthened, PTL

(* Whatever fails in Valkey, a call that begins after a case was stored     *)
(* never reuses that case's number.                                         *)
THEOREM LaterNumbersAreHigher == Spec => []LaterIsHigher
<1>1. IInv => LaterIsHigher
  <2> SUFFICES ASSUME IInv, LookupsHealthy, NEW d \in Caller, num[d] > 0
               PROVE  num[d] > old /\ \A c \in earlier[d] : num[d] > num[c]
    BY DEF LaterIsHigher
  <2>1. pc[d] \notin Unnumbered /\ num[d] > highest[d]
    BY DEF IInv, TypeOK, Numbered
  <2>2. highest[d] >= old /\ \A c \in earlier[d] : num[c] <= highest[d]
    BY <2>1 DEF IInv, LookedUp, Unnumbered
  <2> QED
    BY <2>1, <2>2, NumbersAssumption DEF IInv, TypeOK
<1> QED
  BY <1>1, Strengthened, PTL

(* Both: the numbers that get_next_case_number gives are in the order in    *)
(* which they are taken, for any number of engines and callers.             *)
THEOREM NumbersInOrder == Spec => []IssuedInOrder
BY NumbersAreUnique, LaterNumbersAreHigher, PTL DEF IssuedInOrder

-----------------------------------------------------------------------------
(* The refinement of NumberIssue.                                           *)

(* A step of a call gives no number, or one to that call.                   *)
LEMMA GivesOne ==
  ASSUME IInv, NEW c \in Caller, Seed(c) \/ Incr(c) \/ Repair(c)
  PROVE  /\ UNCHANGED <<old, stored, earlier>>
         /\ \/ UNCHANGED num
            \/ num[c] = 0 /\ \E n \in Nat \ {0} : num' = [num EXCEPT ![c] = n]
<1>1. num[c] = 0
  <2>1. pc[c] \in Unnumbered
    BY DEF Seed, Incr, Repair, Fallback, Goto, Unnumbered
  <2> QED
    BY <2>1 DEF IInv, Numbered
<1>2. highest[c] + 1 \in Nat \ {0} /\ Incremented \in Nat \ {0}
  BY NumbersAssumption DEF IInv, TypeOK, Incremented
<1>3. \A from : Fallback(c, from) => \E n \in Nat \ {0} : num' = [num EXCEPT ![c] = n]
  BY <1>2 DEF Fallback, Give
<1>4. CASE Seed(c)
  BY <1>1, <1>3, <1>4 DEF Seed
<1>5. CASE Incr(c)
  BY <1>1, <1>2, <1>3, <1>5 DEF Incr, Give
<1>6. CASE Repair(c)
  BY <1>1, <1>2, <1>6 DEF Repair, Give, history
<1> QED
  BY <1>4, <1>5, <1>6

(* The number given is one that NumberIssue lets the call have.             *)
LEMMA GiveImplements ==
  ASSUME IInv, NumbersUnique', LaterIsHigher', NEW c \in Caller, NEW n \in Nat \ {0},
         num[c] = 0, num' = [num EXCEPT ![c] = n], UNCHANGED <<old, stored, earlier>>
  PROVE  Issue!Give(c)
<1>1. num'[c] = n /\ \A d \in Caller \ {c} : num'[d] = num[d]
  BY DEF IInv, TypeOK
<1>2. LookupsHealthy' => Issue!Above(c, n)
  <2> SUFFICES ASSUME LookupsHealthy' PROVE n > old /\ \A d \in earlier[c] : n > num[d]
    BY DEF Issue!Above
  <2>1. n > old /\ \A d \in earlier[c] : n > num'[d]
    BY <1>1 DEF LaterIsHigher
  <2>2. c \notin earlier[c] /\ earlier[c] \subseteq Caller
    BY <1>1, <2>1 DEF IInv, TypeOK
  <2> QED
    BY <1>1, <2>1, <2>2
<1>3. LookupsHealthy' /\ ValkeyHealthy' => Issue!Free(c, n)
  BY <1>1 DEF NumbersUnique, Issue!Free
<1>4. num' = [num EXCEPT ![c] = num'[c]]
  BY <1>1, Zenon
<1> QED
  BY <1>1, <1>2, <1>3, <1>4 DEF Issue!Give

(* IssuesNumbers: every step of a call of get_next_case_number, and every   *)
(* fault of Valkey or of a lookup, is a step of NumberIssue or leaves it    *)
(* alone, for any number of engines and callers.                            *)
THEOREM NumberingImplementsIssue == Spec => IssuesNumbers
<1>1. Init => Issue!Init
  BY DEF Init, Issue!Init, LookupsHealthy, ValkeyHealthy
<1>2. IInv /\ IInv' /\ IssuedInOrder' /\ [Next]_vars => [Issue!Next]_Issue!vars
  <2> SUFFICES ASSUME IInv, IInv', IssuedInOrder', [Next]_vars
               PROVE  [Issue!Next]_Issue!vars
    OBVIOUS
  <2>1. CASE UNCHANGED vars
    BY <2>1 DEF vars, history, budget, Issue!vars, LookupsHealthy, ValkeyHealthy
  <2>2. ASSUME UNCHANGED old, lookupsLeft' <= lookupsLeft, valkeyLeft' <= valkeyLeft,
               lossesLeft' <= lossesLeft
        PROVE  Issue!Degrade
    BY <2>2, NumbersAssumption DEF IInv, TypeOK, Issue!Degrade, LookupsHealthy, ValkeyHealthy
  <2>3. ASSUME NEW c \in Caller, Lookup(c) PROVE Issue!Next
    <3>1. Issue!Begin(c)
      <4>1. num[c] = 0
        BY <2>3 DEF IInv, Numbered, Unnumbered, Lookup, Goto
      <4> QED
        BY <2>3, <4>1 DEF Lookup, Issue!Begin
    <3>2. Issue!Degrade
      BY <2>2, <2>3 DEF Lookup, IInv, TypeOK
    <3> QED
      BY <2>3, <3>1, <3>2 DEF Lookup, Issue!Next
  <2>4. ASSUME NEW c \in Caller, Seed(c) \/ Incr(c) \/ Repair(c) PROVE Issue!Next
    <3>1. UNCHANGED <<num, stored, earlier>> \/ Issue!Give(c)
      BY <2>4, GivesOne, GiveImplements DEF IInv, IssuedInOrder
    <3>2. Issue!Degrade
      BY <2>2, <2>4, NumbersAssumption
      DEF Seed, Incr, Repair, Fallback, ValkeyFault, IInv, TypeOK
    <3> QED
      BY <2>4, <3>1, <3>2, GivesOne DEF Issue!Next
  <2>5. ASSUME NEW c \in Caller, Insert(c) PROVE Issue!Next
    <3>1. Issue!Degrade
      BY <2>2, <2>5, NumbersAssumption DEF Insert, history, budget, IInv, TypeOK
    <3>2. UNCHANGED <<num, stored, earlier>> \/ Issue!Store(c)
      <4>1. num[c] > 0
        BY <2>5 DEF IInv, TypeOK, Numbered, Unnumbered, Insert, Goto
      <4> QED
        BY <2>5, <4>1 DEF Insert, history, Issue!Store
    <3> QED
      BY <2>5, <3>1, <3>2 DEF Insert, history, Issue!Next
  <2>6. ASSUME LoseKey PROVE Issue!Next
    BY <2>2, <2>6, NumbersAssumption DEF LoseKey, history, IInv, TypeOK, Issue!Next
  <2> QED
    BY <2>1, <2>3, <2>4, <2>5, <2>6 DEF Next
<1> QED
  BY <1>1, <1>2, Strengthened, NumbersInOrder, PTL DEF Spec, IssuesNumbers, Issue!Spec
=============================================================================
