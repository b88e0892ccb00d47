-------------------------- MODULE SensorKeysProofs --------------------------
(***************************************************************************)
(* Proofs about SensorKeys, for any number of concurrent requests, calls   *)
(* and faults: type correctness, and that a clean revocation is final.     *)
(* And about LoginGuard, for any number of login requests and restarts and *)
(* any limit: how many wrong passwords are looked at.                      *)
(***************************************************************************)
EXTENDS MCCredentials, Integers, FiniteSetTheorems, TLAPS

-----------------------------------------------------------------------------
(* SensorKeys.                                                              *)

(* What the administrator knows: nothing while a call is under way, and a   *)
(* request remembers a revocation only until the next call.                 *)
Knowledge ==
    /\ admin # "idle" => known = "unsure"
    /\ \A r \in Request : told[r] = "revoked" => known = "revoked"

(* Between the mutation and the eviction of a clean revocation the row can  *)
(* no longer come back.                                                     *)
RowGone ==
    admin = "evictRevoked" /\ clean =>
        ~row /\ ~queued /\ \A r \in Request : pc[r] # "heartbeat"

(* After it, no step of any request can accept the key again.               *)
Final ==
    known = "revoked" /\ clean =>
        /\ ~row /\ ~queued /\ cache # "active"
        /\ \A r \in Request : /\ pc[r] \notin {"fill", "heartbeat"}
                              /\ told[r] = "revoked" => pc[r] # "accepted"

IInv == TypeOK /\ Knowledge /\ RowGone /\ Final

-----------------------------------------------------------------------------

LEMMA TypeInit == Init => TypeOK
  <1> SUFFICES ASSUME Init PROVE TypeOK
    OBVIOUS
  <1> USE KeysAssumption DEF KeysAssumption, Init
  <1>1. row \in BOOLEAN /\ queued \in BOOLEAN /\ clean \in BOOLEAN
    OBVIOUS
  <1>2. cache \in Cached /\ admin \in Admin /\ known \in Told
    BY DEF Cached, Admin, Told
  <1>3. pc \in [Request -> Pc] /\ told \in [Request -> Told]
    BY DEF Pc, Told
  <1>4. adminLeft \in 0..MaxAdmin /\ faultsLeft \in 0..MaxFaults
    OBVIOUS
  <1>5. QED
    BY <1>1, <1>2, <1>3, <1>4 DEF TypeOK

LEMMA InvInit == Init => IInv
  BY TypeInit DEF Init, IInv, Knowledge, RowGone, Final

LEMMA TypeStep == TypeOK /\ [Next]_vars => TypeOK'
  <1> SUFFICES ASSUME TypeOK, [Next]_vars PROVE TypeOK'
    OBVIOUS
  <1> USE KeysAssumption DEF KeysAssumption, TypeOK, Cached, Pc, Told, Admin,
          db, reqs, adm, Fault, NoFault, Goto
  <1>1. ASSUME NEW r \in Request, Begin(r) PROVE TypeOK'
    BY <1>1 DEF Begin
  <1>2. ASSUME NEW r \in Request, Get(r) PROVE TypeOK'
    BY <1>2 DEF Get
  <1>3. ASSUME NEW r \in Request, Read(r) PROVE TypeOK'
    BY <1>3 DEF Read
  <1>4. ASSUME NEW r \in Request, Fill(r) PROVE TypeOK'
    BY <1>4 DEF Fill
  <1>5. ASSUME NEW r \in Request, RevokedGet(r) PROVE TypeOK'
    BY <1>5 DEF RevokedGet
  <1>6. ASSUME NEW r \in Request, RevokedRead(r) PROVE TypeOK'
    BY <1>6 DEF RevokedRead
  <1>7. ASSUME NEW r \in Request, RevokedFill(r) PROVE TypeOK'
    BY <1>7 DEF RevokedFill
  <1>8. ASSUME NEW r \in Request, HeartbeatSelect(r) PROVE TypeOK'
    BY <1>8 DEF HeartbeatSelect
  <1>9. ASSUME NEW r \in Request, HeartbeatInsert(r) PROVE TypeOK'
    <2>1. faultsLeft' \in 0..MaxFaults
      BY <1>9 DEF HeartbeatInsert
    <2>5. row' = TRUE \/ row' = row
      BY <1>9, Zenon DEF HeartbeatInsert
    <2>2. pc' \in [Request -> Pc]
      BY <1>9 DEF HeartbeatInsert
    <2>3. UNCHANGED <<queued, cache, told, admin, known, clean, adminLeft>>
      BY <1>9 DEF HeartbeatInsert
    <2>4. QED
      BY <2>1, <2>2, <2>3, <2>5
  <1>10. ASSUME NEW r \in Request, Finish(r) PROVE TypeOK'
    BY <1>10 DEF Finish
  <1>11. ASSUME NEW kind \in {"revoke", "reactivate"}, Call(kind) PROVE TypeOK'
    BY <1>11 DEF Call
  <1>12. CASE RevokeKey
    BY <1>12 DEF RevokeKey
  <1>13. CASE ReactivateKey
    BY <1>13 DEF ReactivateKey
  <1>14. CASE Evict
    BY <1>14 DEF Evict, Evicted
  <1>15. CASE Mutate
    BY <1>15 DEF Mutate
  <1>16. CASE Expire
    BY <1>16 DEF Expire
  <1>17. CASE CallFails
    <2>1. row' \in BOOLEAN /\ queued' \in BOOLEAN
      BY <1>17 DEF CallFails
    <2>2. admin' = "idle" /\ faultsLeft' \in 0..MaxFaults
      BY <1>17 DEF CallFails
    <2>3. UNCHANGED <<cache, pc, told, known, clean, adminLeft>>
      BY <1>17 DEF CallFails
    <2>4. QED
      BY <2>1, <2>2, <2>3
  <1>18. CASE UNCHANGED vars
    BY <1>18 DEF vars
  <1>19. QED
    BY <1>1, <1>2, <1>3, <1>4, <1>5, <1>6, <1>7, <1>8, <1>9, <1>10, <1>11,
       <1>12, <1>13, <1>14, <1>15, <1>16, <1>17, <1>18
    DEF Next, RequestStep

LEMMA InvStep == IInv /\ [Next]_vars => IInv'
  <1> SUFFICES ASSUME IInv, [Next]_vars PROVE (Knowledge /\ RowGone /\ Final)'
    BY TypeStep DEF IInv
  <1> USE DEF IInv, Knowledge, RowGone, Final
  <1> USE DEF TypeOK, Cached, Pc, Told, Admin, db, reqs, adm, Fault, NoFault, Goto
  <1> DEFINE Goal == (Knowledge /\ RowGone /\ Final)'
  <1>1. ASSUME NEW r \in Request, Begin(r) PROVE Goal
    BY <1>1 DEF Begin
  <1>2. ASSUME NEW r \in Request, Get(r) PROVE Goal
    BY <1>2 DEF Get
  <1>3. ASSUME NEW r \in Request, Read(r) PROVE Goal
    BY <1>3 DEF Read
  <1>4. ASSUME NEW r \in Request, Fill(r) PROVE Goal
    BY <1>4 DEF Fill
  <1>5. ASSUME NEW r \in Request, RevokedGet(r) PROVE Goal
    BY <1>5 DEF RevokedGet
  <1>6. ASSUME NEW r \in Request, RevokedRead(r) PROVE Goal
    BY <1>6 DEF RevokedRead
  <1>7. ASSUME NEW r \in Request, RevokedFill(r) PROVE Goal
    BY <1>7 DEF RevokedFill
  <1>8. ASSUME NEW r \in Request, HeartbeatSelect(r) PROVE Goal
    BY <1>8 DEF HeartbeatSelect
  <1>9. ASSUME NEW r \in Request, HeartbeatInsert(r) PROVE Goal
    BY <1>9 DEF HeartbeatInsert
  <1>10. ASSUME NEW r \in Request, Finish(r) PROVE Goal
    BY <1>10 DEF Finish
  <1>11. ASSUME NEW kind \in {"revoke", "reactivate"}, Call(kind) PROVE Goal
    BY <1>11 DEF Call
  <1>12. CASE RevokeKey
    BY <1>12 DEF RevokeKey
  <1>13. CASE ReactivateKey
    BY <1>13 DEF ReactivateKey
  <1>14. CASE Evict
    <2>1. known = "unsure" /\ \A r \in Request : told[r] # "revoked"
      BY <1>14 DEF Evict
    <2>2. ASSUME clean' PROVE clean /\ faultsLeft' = faultsLeft
      BY <1>14, <2>2 DEF Evict, Evicted
    <2>3. ASSUME clean' PROVE \A r \in Request : pc[r] # "fill"
      BY <1>14, <2>3, Zenon DEF Evict, Evicted
    <2>4. ASSUME clean' PROVE cache' = "none"
      BY <1>14, <2>2, <2>4 DEF Evict
    <2>5. admin' = "idle" /\ UNCHANGED <<row, queued, pc, told>>
      BY <1>14 DEF Evict, Evicted
    <2>6. known' = "revoked" => admin = "evictRevoked"
      BY <1>14 DEF Evict, Evicted
    <2>7. QED
      BY <2>1, <2>2, <2>3, <2>4, <2>5, <2>6
  <1>15. CASE Mutate
    BY <1>15 DEF Mutate
  <1>16. CASE Expire
    BY <1>16 DEF Expire
  <1>17. CASE CallFails
    BY <1>17 DEF CallFails
  <1>18. CASE UNCHANGED vars
    BY <1>18 DEF vars
  <1>19. QED
    BY <1>1, <1>2, <1>3, <1>4, <1>5, <1>6, <1>7, <1>8, <1>9, <1>10, <1>11,
       <1>12, <1>13, <1>14, <1>15, <1>16, <1>17, <1>18
    DEF Next, RequestStep

-----------------------------------------------------------------------------

(* Every variable keeps its type: the cache holds nothing but a verdict on  *)
(* the key, and a request is at one of its calls.                           *)
THEOREM KeysTypeCorrect == Spec => []TypeOK
  BY TypeInit, TypeStep, PTL DEF Spec

(* A revocation whose mutation met no heartbeat under way, and whose        *)
(* eviction worked and met no fill under way, is final on every engine      *)
(* until the key is reactivated.                                            *)
THEOREM CleanRevocationIsFinal == Spec => []CleanRevocationHolds
  <1>1. IInv => CleanRevocationHolds
    BY DEF IInv, Final, CleanRevocationHolds, StillAccepted
  <1>2. QED
    BY InvInit, InvStep, <1>1, PTL DEF Spec

-----------------------------------------------------------------------------
(* LoginGuard.                                                             *)

(* The requests that are to check a password, and those that failed and    *)
(* count, or will lock the account.                                        *)
Verifying == {w \in Workers : step[w] = "verify"}
Failed == {w \in Workers : \/ step[w] \in {"count", "lock"}
                           \/ step[w] = "expire" /\ seen[w] >= MaxAttempts}
Guesses == MaxAttempts + Cardinality(Workers) - 1
Before == Guesses * crashes
Counted == IF attempts < MaxAttempts THEN attempts ELSE MaxAttempts - 1

(* Before the lock, every wrong password since the last restart is counted *)
(* or about to be; once it is set, the requests under way are all that may *)
(* still fail.                                                             *)
WrongIsCounted == lockLeft = 0 => wrong <= Before + Counted + Cardinality(Failed)
WrongIsBounded == lockLeft > 0 => wrong + Cardinality(Verifying) <= Before + Guesses

(* The counter does not outlive the lock, unless a restart left it.        *)
Quiet == \A w \in Workers : step[w] = "idle"
Expiring == \E w \in Workers : step[w] = "expire"
LockIsFresh ==
  /\ lockLeft > 0 /\ ~ Quiet => lockLeft = LockTime
  /\ \A w \in Workers : step[w] = "forget" => lockLeft > 0
CounterEnds ==
  /\ attemptsLeft = G!Forever /\ ~ Expiring =>
       \A w \in Workers : step[w] \notin {"lock", "forget"}
  /\ lockLeft > 0 /\ attemptsLeft > lockLeft /\ ~ Expiring => Quiet /\ wrong <= Before

GuardTypes ==
  /\ attempts \in Nat /\ attemptsLeft \in 0 .. LockTime + 1 /\ lockLeft \in 0 .. LockTime
  /\ step \in [Workers -> G!Steps] /\ seen \in [Workers -> Nat]
  /\ wrong \in Nat /\ crashes \in Nat
GuardInv == GuardTypes /\ WrongIsCounted /\ WrongIsBounded /\ LockIsFresh /\ CounterEnds

LEMMA Counts ==
  /\ Cardinality(Workers) \in Nat /\ Guesses \in Nat
  /\ \A S \in SUBSET Workers : IsFiniteSet(S) /\ Cardinality(S) \in 0 .. Cardinality(Workers)
  /\ \A S \in SUBSET Workers, w \in Workers :
       /\ w \notin S => Cardinality(S \cup {w}) = Cardinality(S) + 1
       /\ w \in S => Cardinality(S \ {w}) = Cardinality(S) - 1
  /\ \A S, T \in SUBSET Workers :
       S \cap T = {} => Cardinality(S) + Cardinality(T) <= Cardinality(Workers)
  <1>1. IsFiniteSet(Workers) /\ Cardinality(Workers) \in Nat
    BY GuardAssumption, FS_CardinalityType
  <1>2. \A S \in SUBSET Workers : IsFiniteSet(S) /\ Cardinality(S) \in 0 .. Cardinality(Workers)
    BY <1>1, FS_Subset, FS_CardinalityType
  <1>3. ASSUME NEW S \in SUBSET Workers, NEW w \in Workers
        PROVE  /\ w \notin S => Cardinality(S \cup {w}) = Cardinality(S) + 1
               /\ w \in S => Cardinality(S \ {w}) = Cardinality(S) - 1
    BY <1>2, FS_AddElement, FS_RemoveElement
  <1>4. ASSUME NEW S \in SUBSET Workers, NEW T \in SUBSET Workers, S \cap T = {}
        PROVE  Cardinality(S) + Cardinality(T) <= Cardinality(Workers)
    <2>1. Cardinality(S \cup T) = Cardinality(S) + Cardinality(T) - Cardinality(S \cap T)
      BY <1>2, FS_Union
    <2>2. Cardinality(S \cap T) = 0 /\ Cardinality(S \cup T) <= Cardinality(Workers)
      BY <1>2, <1>4, FS_EmptySet
    <2> QED
      BY <1>2, <2>1, <2>2
  <1>5. Guesses \in Nat
    BY <1>1, GuardAssumption DEF Guesses
  <1> QED
    BY <1>1, <1>2, <1>3, <1>4, <1>5

LEMMA GuardInit == G!Init => GuardInv
  <1> SUFFICES ASSUME G!Init PROVE GuardInv
    OBVIOUS
  <1>1. GuardTypes /\ Quiet
    BY GuardAssumption DEF G!Init, GuardTypes, G!Steps, Quiet
  <1>2. WrongIsCounted
    BY <1>1, Counts, GuardAssumption
    DEF G!Init, WrongIsCounted, Failed, Before, Counted, GuardTypes
  <1>3. WrongIsBounded /\ LockIsFresh /\ CounterEnds
    BY <1>1 DEF G!Init, WrongIsBounded, LockIsFresh, CounterEnds, Quiet, G!Forever
  <1> QED
    BY <1>1, <1>2, <1>3 DEF GuardInv

(* One request goes on.                                                    *)
LEMMA CheckKeeps == ASSUME GuardInv, NEW w \in Workers, G!CheckLock(w) PROVE GuardInv'
  <1>1. step' = [step EXCEPT ![w] = "verify"] /\ lockLeft = 0 /\ step[w] = "idle"
        /\ UNCHANGED <<attempts, attemptsLeft, lockLeft, seen, wrong, crashes>>
    BY DEF G!CheckLock, G!At, G!Goto
  <1>2. step'[w] = "verify" /\ \A v \in Workers : v # w => step'[v] = step[v]
    BY <1>1 DEF GuardInv, GuardTypes
  <1>3. GuardTypes'
    BY <1>1 DEF GuardInv, GuardTypes, G!Steps
  <1>4. Failed' = Failed
    BY <1>1, <1>2 DEF Failed
  <1>5. WrongIsCounted'
    BY <1>1, <1>4 DEF GuardInv, WrongIsCounted, Before, Counted
  <1>6. WrongIsBounded' /\ LockIsFresh' /\ CounterEnds'
    BY <1>1, <1>2 DEF GuardInv, GuardTypes, WrongIsBounded, LockIsFresh, CounterEnds, Expiring
  <1> QED
    BY <1>3, <1>5, <1>6 DEF GuardInv

LEMMA VerifyKeeps == ASSUME GuardInv, NEW w \in Workers, G!VerifyPassword(w) PROVE GuardInv'
  <1>1. PICK s \in {"clear", "count"} :
          /\ step' = [step EXCEPT ![w] = s]
          /\ wrong' = IF s = "count" THEN wrong + 1 ELSE wrong
    BY DEF G!VerifyPassword, G!Goto
  <1>2. step[w] = "verify" /\ UNCHANGED <<attempts, attemptsLeft, lockLeft, seen, crashes>>
    BY DEF G!VerifyPassword, G!At
  <1>3. step'[w] = s /\ \A v \in Workers : v # w => step'[v] = step[v]
    BY <1>1 DEF GuardInv, GuardTypes
  <1>4. GuardTypes'
    BY <1>1, <1>2 DEF GuardInv, GuardTypes, G!Steps
  <1>5. /\ Failed' = IF s = "count" THEN Failed \cup {w} ELSE Failed
        /\ w \notin Failed /\ w \in Verifying /\ Verifying' = Verifying \ {w}
    BY <1>1, <1>2, <1>3 DEF Failed, Verifying
  <1>6. /\ Cardinality(Failed') = Cardinality(Failed) + (wrong' - wrong)
        /\ Cardinality(Verifying') = Cardinality(Verifying) - 1
        /\ Cardinality(Failed) \in Nat /\ Cardinality(Verifying) \in Nat
    <2>1. Failed \in SUBSET Workers /\ Verifying \in SUBSET Workers
      BY DEF Failed, Verifying
    <2>2. Cardinality(Failed) \in Nat /\ Cardinality(Verifying) \in Nat
      BY <2>1, Counts
    <2>3. Cardinality(Verifying \ {w}) = Cardinality(Verifying) - 1
      BY <1>5, <2>1, Counts
    <2>4. Cardinality(Failed \cup {w}) = Cardinality(Failed) + 1
      BY <1>5, <2>1, Counts
    <2>5. wrong \in Nat
      BY DEF GuardInv, GuardTypes
    <2> QED
      BY <1>1, <1>5, <2>2, <2>3, <2>4, <2>5
  <1>7. Before \in Int /\ Guesses \in Nat /\ Counted \in Nat /\ UNCHANGED <<Before, Counted>>
    BY <1>2, Counts, GuardAssumption DEF Before, Counted, GuardInv, GuardTypes
  <1>8. WrongIsCounted'
    BY <1>1, <1>2, <1>4, <1>6, <1>7 DEF GuardInv, GuardTypes, WrongIsCounted
  <1>9. WrongIsBounded'
    BY <1>1, <1>2, <1>4, <1>6, <1>7 DEF GuardInv, GuardTypes, WrongIsBounded, Guesses
  <1>10. LockIsFresh' /\ CounterEnds'
    BY <1>1, <1>2, <1>3 DEF GuardInv, GuardTypes, LockIsFresh, CounterEnds, Expiring, Quiet
  <1> QED
    BY <1>4, <1>8, <1>9, <1>10 DEF GuardInv
LEMMA CutKeeps ==
  ASSUME GuardInv, NEW w \in Workers, G!ClearAttempts(w) \/ G!Forget(w)
  PROVE  GuardInv'
  <1>1. /\ step' = [step EXCEPT ![w] = "idle"] /\ attempts' = 0 /\ attemptsLeft' = 0
        /\ UNCHANGED <<lockLeft, seen, crashes>>
        /\ \/ step[w] = "clear" /\ wrong' = 0
           \/ step[w] = "forget" /\ wrong' = wrong
    BY DEF G!ClearAttempts, G!Forget, G!At, G!Goto
  <1>2. step'[w] = "idle" /\ \A v \in Workers : v # w => step'[v] = step[v]
    BY <1>1 DEF GuardInv, GuardTypes
  <1>3. GuardTypes'
    BY <1>1, GuardAssumption DEF GuardInv, GuardTypes, G!Steps
  <1>4. Failed' = Failed /\ Verifying' = Verifying
    BY <1>1, <1>2 DEF Failed, Verifying
  <1>5. /\ Before \in Nat /\ Guesses \in Nat /\ Counted' = 0 /\ UNCHANGED Before
        /\ Cardinality(Failed) \in Nat /\ Cardinality(Verifying) \in 0 .. Cardinality(Workers)
    <2>1. Failed \in SUBSET Workers /\ Verifying \in SUBSET Workers
      BY DEF Failed, Verifying
    <2>2. Before \in Nat
      BY Counts DEF Before, GuardInv, GuardTypes
    <2> QED
      BY <1>1, <2>1, <2>2, Counts, GuardAssumption DEF Before, Counted
  <1>6. WrongIsCounted'
    BY <1>1, <1>3, <1>4, <1>5 DEF GuardInv, GuardTypes, WrongIsCounted, LockIsFresh
  <1>7. WrongIsBounded'
    BY <1>1, <1>3, <1>4, <1>5, Counts, GuardAssumption
    DEF GuardInv, GuardTypes, WrongIsBounded, Guesses
  <1>8. LockIsFresh' /\ CounterEnds'
    BY <1>1, <1>2, GuardAssumption
    DEF GuardInv, GuardTypes, LockIsFresh, CounterEnds, Quiet, G!Forever
  <1> QED
    BY <1>3, <1>6, <1>7, <1>8 DEF GuardInv

LEMMA IncrementKeeps == ASSUME GuardInv, NEW w \in Workers, G!Increment(w) PROVE GuardInv'
  <1>1. /\ step' = [step EXCEPT ![w] = "expire"] /\ seen' = [seen EXCEPT ![w] = attempts + 1]
        /\ attempts' = attempts + 1 /\ step[w] = "count"
        /\ attemptsLeft' = IF attempts = 0 THEN G!Forever ELSE attemptsLeft
        /\ UNCHANGED <<lockLeft, wrong, crashes>>
    BY DEF G!Increment, G!At, G!Goto
  <1>2. /\ step'[w] = "expire" /\ seen'[w] = attempts + 1
        /\ \A v \in Workers : v # w => step'[v] = step[v] /\ seen'[v] = seen[v]
    BY <1>1 DEF GuardInv, GuardTypes
  <1>3. GuardTypes'
    BY <1>1, GuardAssumption DEF GuardInv, GuardTypes, G!Steps, G!Forever
  <1>4. /\ Failed' = IF attempts + 1 >= MaxAttempts THEN Failed ELSE Failed \ {w}
        /\ w \in Failed /\ Verifying' = Verifying
    BY <1>1, <1>2 DEF Failed, Verifying
  <1>5. /\ Cardinality(Failed) \in Nat /\ Cardinality(Failed \ {w}) = Cardinality(Failed) - 1
    BY <1>4, Counts DEF Failed
  <1>6. Before \in Nat /\ Before' = Before
    BY <1>1, Counts DEF Before, GuardInv, GuardTypes
  <1>7. Counted + Cardinality(Failed) <= Counted' + Cardinality(Failed') /\ Counted \in Nat /\ Counted' \in Nat
        /\ Cardinality(Failed') \in Nat
    <2>1. attempts \in Nat /\ MaxAttempts \in Nat \ {0}
      BY GuardAssumption DEF GuardInv, GuardTypes
    <2>2. Cardinality(Failed') \in Nat
      BY <1>4, Counts DEF Failed
    <2>3. CASE attempts + 1 >= MaxAttempts
      BY <1>1, <1>4, <1>5, <2>1, <2>2, <2>3 DEF Counted
    <2>4. CASE attempts + 1 < MaxAttempts
      BY <1>1, <1>4, <1>5, <2>1, <2>2, <2>4 DEF Counted
    <2> QED
      BY <2>1, <2>3, <2>4
  <1>8. WrongIsCounted'
    BY <1>1, <1>3, <1>5, <1>6, <1>7 DEF GuardInv, GuardTypes, WrongIsCounted
  <1>9. WrongIsBounded'
    BY <1>1, <1>4, <1>6 DEF GuardInv, WrongIsBounded
  <1>10. LockIsFresh' /\ CounterEnds'
    BY <1>1, <1>2 DEF GuardInv, LockIsFresh, CounterEnds, Quiet, Expiring
  <1> QED
    BY <1>3, <1>8, <1>9, <1>10 DEF GuardInv

LEMMA ExpireKeeps == ASSUME GuardInv, NEW w \in Workers, G!Expire(w) PROVE GuardInv'
  <1>1. PICK s \in {"lock", "idle"} :
          /\ step' = [step EXCEPT ![w] = s]
          /\ s = "lock" <=> seen[w] >= MaxAttempts
    BY DEF G!Expire, G!Goto
  <1>2. /\ step[w] = "expire" /\ attemptsLeft' = (IF attempts = 0 THEN 0 ELSE LockTime)
        /\ seen' = [seen EXCEPT ![w] = 0]
        /\ UNCHANGED <<attempts, lockLeft, wrong, crashes>>
    BY DEF G!Expire, G!At
  <1>3. /\ step'[w] = s /\ \A v \in Workers : v # w => step'[v] = step[v] /\ seen'[v] = seen[v]
    BY <1>1, <1>2 DEF GuardInv, GuardTypes
  <1>4. GuardTypes'
    BY <1>1, <1>2, GuardAssumption DEF GuardInv, GuardTypes, G!Steps
  <1>5. Failed' = Failed /\ Verifying' = Verifying
    BY <1>1, <1>2, <1>3 DEF Failed, Verifying
  <1>6. WrongIsCounted' /\ WrongIsBounded'
    BY <1>2, <1>5 DEF GuardInv, WrongIsCounted, WrongIsBounded, Before, Counted
  <1>7. LockIsFresh' /\ CounterEnds'
    <2>1. lockLeft > 0 => lockLeft = LockTime
      BY <1>2 DEF GuardInv, LockIsFresh, Quiet
    <2>2. LockIsFresh'
      BY <1>1, <1>2, <1>3, <2>1 DEF GuardInv, LockIsFresh
    <2>3. attemptsLeft' # G!Forever /\ (lockLeft' > 0 => attemptsLeft' <= lockLeft')
      BY <1>2, <2>1, GuardAssumption DEF G!Forever
    <2> QED
      BY <1>4, <2>2, <2>3 DEF CounterEnds, GuardTypes
  <1> QED
    BY <1>4, <1>6, <1>7 DEF GuardInv

LEMMA LockKeeps == ASSUME GuardInv, NEW w \in Workers, G!Lock(w) PROVE GuardInv'
  <1>1. /\ step' = [step EXCEPT ![w] = "forget"] /\ step[w] = "lock" /\ lockLeft' = LockTime
        /\ UNCHANGED <<attempts, attemptsLeft, seen, wrong, crashes>>
    BY DEF G!Lock, G!At, G!Goto
  <1>2. step'[w] = "forget" /\ \A v \in Workers : v # w => step'[v] = step[v]
    BY <1>1 DEF GuardInv, GuardTypes
  <1>3. GuardTypes'
    BY <1>1, GuardAssumption DEF GuardInv, GuardTypes, G!Steps
  <1>4. Verifying' = Verifying
    BY <1>1, <1>2 DEF Verifying
  <1>5. Cardinality(Failed) + Cardinality(Verifying) <= Cardinality(Workers)
    BY Counts DEF Failed, Verifying
  <1>6. /\ Cardinality(Failed) \in Nat /\ Cardinality(Verifying) \in Nat
        /\ Cardinality(Workers) \in Nat
    BY Counts DEF Failed, Verifying
  <1>7. Before \in Nat /\ UNCHANGED Before /\ Counted \in 0 .. MaxAttempts - 1
    BY <1>1, Counts, GuardAssumption DEF Before, Counted, GuardInv, GuardTypes
  <1>8. wrong + Cardinality(Verifying) <= Before + Guesses
    <2>1. CASE lockLeft = 0
      BY <1>5, <1>6, <1>7, <2>1, GuardAssumption DEF GuardInv, GuardTypes, WrongIsCounted, Guesses
    <2>2. CASE lockLeft > 0
      BY <2>2 DEF GuardInv, WrongIsBounded
    <2> QED
      BY <2>1, <2>2 DEF GuardInv, GuardTypes
  <1>9. WrongIsCounted' /\ WrongIsBounded'
    BY <1>1, <1>4, <1>7, <1>8, GuardAssumption DEF WrongIsCounted, WrongIsBounded
  <1>10. LockIsFresh'
    BY <1>1, GuardAssumption DEF LockIsFresh
  <1>11. CounterEnds'
    BY <1>1, <1>2, GuardAssumption
    DEF GuardInv, GuardTypes, CounterEnds, Expiring, G!Forever
  <1> QED
    BY <1>3, <1>9, <1>10, <1>11 DEF GuardInv
(* All that was looked at, before the lock and after it.                   *)
LEMMA WithinGuesses == GuardInv => wrong <= Before + Guesses
  <1> SUFFICES ASSUME GuardInv PROVE wrong <= Before + Guesses
    OBVIOUS
  <1>1. /\ Cardinality(Failed) \in Nat /\ Cardinality(Verifying) \in Nat
        /\ Cardinality(Workers) \in Nat /\ Cardinality(Failed) <= Cardinality(Workers)
    BY Counts DEF Failed, Verifying
  <1>2. Before \in Nat /\ Counted \in 0 .. MaxAttempts - 1
    BY Counts, GuardAssumption DEF Before, Counted, GuardInv, GuardTypes
  <1>3. CASE lockLeft = 0
    BY <1>1, <1>2, <1>3, GuardAssumption DEF GuardInv, GuardTypes, WrongIsCounted, Guesses
  <1>4. CASE lockLeft > 0
    BY <1>1, <1>2, <1>4, Counts DEF GuardInv, GuardTypes, WrongIsBounded
  <1> QED
    BY <1>3, <1>4 DEF GuardInv, GuardTypes

LEMMA CrashKeeps == ASSUME GuardInv, G!Crash PROVE GuardInv'
  <1>1. /\ step' = [w \in Workers |-> "idle"] /\ seen' = [w \in Workers |-> 0]
        /\ crashes' = crashes + 1
        /\ UNCHANGED <<attempts, attemptsLeft, lockLeft, wrong>>
    BY DEF G!Crash
  <1>2. GuardTypes'
    BY <1>1 DEF GuardInv, GuardTypes, G!Steps
  <1>3. Before' = Before + Guesses /\ Before \in Nat
    BY <1>1, Counts DEF Before, GuardInv, GuardTypes
  <1>4. Guesses \in Nat /\ wrong \in Nat /\ wrong' <= Before'
    BY <1>1, <1>3, WithinGuesses, Counts DEF Guesses, GuardInv, GuardTypes
  <1>5. Counted' \in Nat /\ Cardinality(Failed') \in Nat
    BY <1>2, Counts, GuardAssumption DEF Counted, GuardTypes, Failed
  <1>6. Cardinality(Verifying') = 0
    <2>1. Verifying' = {}
      BY <1>1 DEF Verifying
    <2> QED
      BY <2>1, FS_EmptySet
  <1>7. Before' \in Nat /\ wrong' \in Nat
    BY <1>1, <1>3, <1>4
  <1>8. WrongIsCounted'
    BY <1>4, <1>5, <1>7 DEF WrongIsCounted
  <1>9. WrongIsBounded'
    <2>1. PICK b, g, k : b = Before' /\ g = Guesses /\ k = Cardinality(Verifying')
      OBVIOUS
    <2>2. b \in Nat /\ wrong' \in Nat /\ wrong' <= b /\ k = 0 /\ g \in Nat
      BY <1>4, <1>6, <1>7, <2>1, Zenon
    <2>3. \A z \in Nat : z <= b => z + 0 <= b + g
      BY <2>2
    <2>5. wrong' + k <= b + g
      BY <2>2, <2>3, Zenon
    <2>4. wrong' + Cardinality(Verifying') <= Before' + Guesses
      BY <2>1, <2>5, Zenon
    <2> QED
      BY <2>4 DEF WrongIsBounded, Guesses
  <1>10. LockIsFresh' /\ CounterEnds'
    BY <1>1, <1>4 DEF LockIsFresh, CounterEnds, Quiet
  <1> QED
    BY <1>2, <1>8, <1>9, <1>10 DEF GuardInv

LEMMA TimeKeeps == ASSUME GuardInv, G!Tick PROVE GuardInv'
  <1>1. PICK left \in Nat :
          /\ left = (CASE attemptsLeft = G!Forever -> G!Forever [] attemptsLeft = 0 -> 0
                       [] OTHER -> attemptsLeft - 1)
          /\ attemptsLeft' = left
          /\ attempts' = (IF left = 0 THEN 0 ELSE attempts)
          /\ lockLeft' = (IF lockLeft = 0 THEN 0 ELSE lockLeft - 1)
          /\ wrong' = (IF left = 0 /\ lockLeft' = 0 THEN 0 ELSE wrong)
    BY GuardAssumption DEF G!Tick, GuardInv, GuardTypes, G!Forever
  <1>2. Quiet /\ UNCHANGED <<step, seen, crashes>>
    BY DEF G!Tick, G!At, Quiet
  <1>3. left \in 0 .. LockTime + 1 /\ (left = G!Forever <=> attemptsLeft = G!Forever)
    BY <1>1, GuardAssumption DEF GuardInv, GuardTypes, G!Forever
  <1>4. GuardTypes'
    BY <1>1, <1>2, <1>3, GuardAssumption DEF GuardInv, GuardTypes
  <1>5. Quiet' /\ Failed' = Failed /\ Verifying' = Verifying /\ UNCHANGED Before
    BY <1>2 DEF Quiet, Failed, Verifying, Before
  <1>6. /\ Before \in Nat /\ Guesses \in Nat /\ Counted' \in Nat
        /\ Cardinality(Failed) \in Nat /\ Cardinality(Verifying) \in Nat
    BY <1>4, Counts, GuardAssumption
    DEF Before, Counted, Failed, Verifying, GuardInv, GuardTypes
  <1>7. ASSUME lockLeft > 0, attemptsLeft > lockLeft PROVE wrong <= Before
    BY <1>2, <1>7 DEF Quiet, GuardInv, CounterEnds, Expiring
  <1>8. WrongIsCounted'
    <2> SUFFICES ASSUME lockLeft' = 0
                 PROVE  wrong' <= Before' + Counted' + Cardinality(Failed')
      BY DEF WrongIsCounted
    <2>1. CASE left = 0
      BY <1>1, <1>5, <1>6, <2>1
    <2>2. CASE left # 0 /\ lockLeft = 0
      BY <1>1, <1>5, <2>2 DEF GuardInv, WrongIsCounted, Counted
    <2>3. CASE left # 0 /\ lockLeft > 0
      <3>1. lockLeft = 1 /\ attemptsLeft > lockLeft
        BY <1>1, <2>3, GuardAssumption DEF GuardInv, GuardTypes, G!Forever
      <3> QED
        BY <1>1, <1>5, <1>6, <1>7, <2>3, <3>1 DEF GuardInv, GuardTypes
    <2> QED
      BY <2>1, <2>2, <2>3 DEF GuardInv, GuardTypes
  <1>9. WrongIsBounded'
    <2> SUFFICES ASSUME lockLeft' > 0
                 PROVE  wrong' + Cardinality(Verifying') <= Before' + Guesses'
      BY DEF WrongIsBounded
    <2> QED
      BY <1>1, <1>5 DEF GuardInv, GuardTypes, WrongIsBounded, Guesses
  <1>10. LockIsFresh'
    BY <1>5 DEF LockIsFresh, Quiet
  <1>11. CounterEnds'
    <2>1. ASSUME lockLeft' > 0, attemptsLeft' > lockLeft' PROVE wrong' <= Before'
      BY <1>1, <1>5, <1>7, <2>1, GuardAssumption DEF GuardInv, GuardTypes, G!Forever
    <2> QED
      BY <1>5, <2>1 DEF CounterEnds, Quiet
  <1> QED
    BY <1>4, <1>8, <1>9, <1>10, <1>11 DEF GuardInv

LEMMA GuardStep == GuardInv /\ [G!Next]_G!vars => GuardInv'
  <1> SUFFICES ASSUME GuardInv, [G!Next]_G!vars PROVE GuardInv'
    OBVIOUS
  <1>1. CASE UNCHANGED G!vars
    BY <1>1 DEF G!vars, GuardInv, GuardTypes, WrongIsCounted, WrongIsBounded, LockIsFresh, CounterEnds,
                Before, Counted, Failed, Verifying, Quiet, Expiring
  <1>2. ASSUME NEW w \in Workers, G!CheckLock(w) \/ G!Serve(w) PROVE GuardInv'
    BY <1>2, CheckKeeps, VerifyKeeps, CutKeeps, IncrementKeeps, ExpireKeeps, LockKeeps DEF G!Serve
  <1> QED
    BY <1>1, <1>2, CrashKeeps, TimeKeeps DEF G!Next

LEMMA GuardAlways == G!Spec => []GuardInv
  <1>1. G!Init => GuardInv
    BY GuardInit
  <1>2. GuardInv /\ [G!Next]_G!vars => GuardInv'
    BY GuardStep
  <1> QED
    BY <1>1, <1>2, PTL DEF G!Spec

(* GuessesAreBounded: however many login requests overlap, and whichever   *)
(* calls a restart of auth-service cuts short, no more wrong passwords are *)
(* looked at before the account is locked than the limit, one for every    *)
(* other request, and that many again for a restart (check_login_lock,     *)
(* record_failed_attempt).                                                 *)
THEOREM GuessesStayBounded == G!Spec => []GuessesAreBounded
  <1>1. GuardInv => GuessesAreBounded
    <2> SUFFICES ASSUME GuardInv PROVE wrong <= Guesses * (1 + crashes)
      BY DEF GuessesAreBounded, G!GuessesAreBounded, Guesses, G!Cardinality, Cardinality
    <2>1. Guesses * (1 + crashes) = Before + Guesses
      BY Counts DEF Before, GuardInv, GuardTypes
    <2> QED
      BY <2>1, WithinGuesses
  <1> QED
    BY <1>1, GuardAlways, PTL

-----------------------------------------------------------------------------
(* The two side by side: the types and bounds of their variables.          *)

(* A restart is one of MaxCrashes.                                         *)
GuardBounds == crashes <= MaxCrashes

LEMMA GuardBounded == G!Spec => []GuardBounds
  <1>1. G!Init => GuardBounds
    BY GuardAssumption DEF G!Init, GuardBounds
  <1>2. GuardInv /\ GuardBounds /\ [G!Next]_G!vars => GuardBounds'
    <2> SUFFICES ASSUME GuardInv, GuardBounds, [G!Next]_G!vars PROVE GuardBounds'
      OBVIOUS
    <2>1. CASE G!Crash
      BY <2>1, GuardAssumption DEF G!Crash, GuardBounds, GuardInv, GuardTypes
    <2>2. CASE ~ G!Crash
      <3>1. crashes' = crashes
        BY <2>2 DEF G!Next, G!CheckLock, G!Serve, G!VerifyPassword, G!ClearAttempts, G!Increment,
                    G!Expire, G!Lock, G!Forget, G!Tick, G!vars
      <3> QED
        BY <3>1 DEF GuardBounds
    <2> QED
      BY <2>1, <2>2
  <1> QED
    BY <1>1, <1>2, GuardAlways, PTL DEF G!Spec

-----------------------------------------------------------------------------
(* The two side by side.  A behaviour of MCSpec shows each component one   *)
(* of its own behaviours.                                                  *)

LEMMA EachOfCredentials == MCSpec => Spec /\ G!Spec
  <1>1. MCInit => Init /\ G!Init
    BY DEF MCInit
  <1>2. [MCNext]_<<side, vars, guard>> => [Next]_vars
    BY DEF MCNext
  <1>3. [MCNext]_<<side, vars, guard>> => [G!Next]_G!vars
    BY DEF MCNext, guard, G!vars
  <1> QED
    BY <1>1, <1>2, <1>3, PTL DEF MCSpec, Spec, G!Spec

(* For any number of requests, calls, restarts and faults, the variables   *)
(* of both components keep their types.                                    *)
THEOREM CredentialTypesCorrect == MCSpec => []TypesOK
  <1>1. GuardInv /\ GuardBounds => G!TypeOK
    BY GuardAssumption DEF GuardInv, GuardTypes, GuardBounds, G!TypeOK, G!Forever
  <1>2. TypeOK /\ G!TypeOK => TypesOK
    BY DEF TypesOK
  <1> QED
    BY <1>1, <1>2, KeysTypeCorrect, GuardAlways, GuardBounded, EachOfCredentials, PTL
=============================================================================
