--------------------------- MODULE MCCredentials ---------------------------
(* SensorKeys and LoginGuard, checked side by side: neither reads what the *)
(* other writes, so a behaviour moves one of them, chosen at its start, and*)
(* leaves the other in its first state, where fairness asks nothing of it. *)
(* No symmetry: the run has liveness properties.                           *)
EXTENDS SensorKeys, FiniteSets

CONSTANTS r1, r2, w1, w2, w3, Workers, MaxAttempts, LockTime, MaxCrashes

VARIABLES
  side,        \* the component that moves
  attempts, attemptsLeft, lockLeft, step, seen, wrong, crashes

guard == <<attempts, attemptsLeft, lockLeft, step, seen, wrong, crashes>>

G == INSTANCE LoginGuard

TwoRequests == {r1, r2}

ASSUME GuardAssumption ==
  /\ IsFiniteSet(Workers) /\ MaxAttempts \in Nat \ {0}
  /\ LockTime \in Nat \ {0} /\ MaxCrashes \in Nat

MCInit == Init /\ G!Init /\ side \in {"sensors", "logins"}

MCNext ==
  /\ UNCHANGED side
  /\ \/ side = "sensors" /\ Next /\ UNCHANGED guard
     \/ side = "logins" /\ G!Next /\ UNCHANGED vars

MCSpec == MCInit /\ [][MCNext]_<<side, vars, guard>> /\ Fairness /\ G!Fairness

TypesOK == TypeOK /\ G!TypeOK
GuessesAreBounded == G!GuessesAreBounded

(* What Redis keeps for a time ends: a verdict that is out of date, and    *)
(* the lock of an account, however often they are looked at.               *)
EntriesExpire == StaleEntryExpires /\ G!LockEnds
=============================================================================
