----------------------------- MODULE LoginGuard -----------------------------
(***************************************************************************)
(* The lock of one account against repeated wrong passwords, over two      *)
(* Valkey keys: login_attempts, a counter with a time to live, and         *)
(* login_locked.  Login requests check the lock, look at the password and  *)
(* count a failure in separate calls, several of them at a time, and a     *)
(* restart of auth-service may cut any of them short.  Times to live are   *)
(* kept as the time left.                                                  *)
(***************************************************************************)
EXTENDS Integers, FiniteSets

CONSTANTS
  Workers,      \* login requests being served at the same time
  MaxAttempts,  \* wrong passwords that lock the account
  LockTime,     \* lifetime of both keys
  MaxCrashes    \* bound on the restarts

VARIABLES
  attempts,      \* provigil:login_attempts, 0 when absent
  attemptsLeft,  \* its time to live, Forever between INCR and EXPIRE
  lockLeft,      \* time to live of provigil:login_locked, 0 when absent
  step,          \* what each request is about to do
  seen,          \* the counter as INCR returned it
  wrong,         \* wrong passwords looked at since the account was last
                 \* unlocked, logged in to, or left alone for LockTime
  crashes

vars == <<attempts, attemptsLeft, lockLeft, step, seen, wrong, crashes>>

Forever == LockTime + 1
Steps == {"idle", "verify", "clear", "count", "expire", "lock", "forget"}
At(w, s) == step[w] = s
Goto(w, s) == step' = [step EXCEPT ![w] = s]

Init ==
  /\ attempts = 0
  /\ attemptsLeft = 0
  /\ lockLeft = 0
  /\ step = [w \in Workers |-> "idle"]
  /\ seen = [w \in Workers |-> 0]
  /\ wrong = 0
  /\ crashes = 0

CheckLock_Ignored(w) ==                                       \* mutant
  /\ At(w, "idle")
  /\ Goto(w, "verify")
  /\ UNCHANGED <<attempts, attemptsLeft, lockLeft, seen, wrong, crashes>>

(* A login is refused while the lock exists.                               *)
CheckLock(w) ==
  /\ At(w, "idle") /\ lockLeft = 0
  /\ Goto(w, "verify")
  /\ UNCHANGED <<attempts, attemptsLeft, lockLeft, seen, wrong, crashes>>

(* No such user, or a password that does not match, is a failure.          *)
VerifyPassword(w) ==
  /\ At(w, "verify")
  /\ \/ Goto(w, "clear") /\ UNCHANGED wrong
     \/ Goto(w, "count") /\ wrong' = wrong + 1
  /\ UNCHANGED <<attempts, attemptsLeft, lockLeft, seen, crashes>>

ClearAttempts(w) ==
  /\ At(w, "clear")
  /\ attempts' = 0 /\ attemptsLeft' = 0
  /\ wrong' = 0
  /\ Goto(w, "idle")
  /\ UNCHANGED <<lockLeft, seen, crashes>>

(* record_failed_attempt: INCR, EXPIRE, and past the limit SET and DEL.    *)
Increment(w) ==
  /\ At(w, "count")
  /\ attempts' = attempts + 1
  /\ attemptsLeft' = IF attempts = 0 THEN Forever ELSE attemptsLeft
  /\ seen' = [seen EXCEPT ![w] = attempts + 1]
  /\ Goto(w, "expire")
  /\ UNCHANGED <<lockLeft, wrong, crashes>>

Expire(w) ==
  /\ At(w, "expire")
  /\ attemptsLeft' = IF attempts = 0 THEN 0 ELSE LockTime
  /\ Goto(w, IF seen[w] >= MaxAttempts THEN "lock" ELSE "idle")
  /\ seen' = [seen EXCEPT ![w] = 0]
  /\ UNCHANGED <<attempts, lockLeft, wrong, crashes>>

Lock(w) ==
  /\ At(w, "lock")
  /\ lockLeft' = LockTime
  /\ Goto(w, "forget")
  /\ UNCHANGED <<attempts, attemptsLeft, seen, wrong, crashes>>

Forget(w) ==
  /\ At(w, "forget")
  /\ attempts' = 0 /\ attemptsLeft' = 0
  /\ Goto(w, "idle")
  /\ UNCHANGED <<lockLeft, seen, wrong, crashes>>

(* A restart of auth-service drops the requests it was serving.            *)
Crash ==
  /\ crashes < MaxCrashes
  /\ \E w \in Workers : ~ At(w, "idle")
  /\ crashes' = crashes + 1
  /\ step' = [w \in Workers |-> "idle"]
  /\ seen' = [w \in Workers |-> 0]
  /\ UNCHANGED <<attempts, attemptsLeft, lockLeft, wrong>>

(* Time; no request takes as long as a unit of it.                         *)
Tick ==
  /\ \A w \in Workers : At(w, "idle")
  /\ LET left == CASE attemptsLeft = Forever -> Forever
                   [] attemptsLeft = 0 -> 0
                   [] OTHER -> attemptsLeft - 1
     IN /\ attemptsLeft' = left
        /\ attempts' = IF left = 0 THEN 0 ELSE attempts
        /\ lockLeft' = IF lockLeft = 0 THEN 0 ELSE lockLeft - 1
        /\ wrong' = IF left = 0 /\ lockLeft' = 0 THEN 0 ELSE wrong
  /\ UNCHANGED <<step, seen, crashes>>

Serve(w) == \/ VerifyPassword(w) \/ ClearAttempts(w) \/ Increment(w)
            \/ Expire(w) \/ Lock(w) \/ Forget(w)

Next ==
  \/ \E w \in Workers : CheckLock(w) \/ Serve(w)
  \/ Crash
  \/ Tick

(* A request that was taken is served, and time passes.                    *)
Fairness == /\ \A w \in Workers : WF_vars(Serve(w))
            /\ WF_vars(Tick)

Spec == Init /\ [][Next]_vars /\ Fairness

-----------------------------------------------------------------------------
(* The values each variable takes.                                         *)
TypeOK ==
  /\ attempts \in Nat
  /\ attemptsLeft \in 0 .. Forever
  /\ lockLeft \in 0 .. LockTime
  /\ step \in [Workers -> Steps]
  /\ seen \in [Workers -> Nat]
  /\ wrong \in Nat
  /\ crashes \in 0 .. MaxCrashes

(* However the requests overlap and whatever a restart cuts short, no more *)
(* wrong passwords are looked at before the account is locked than the     *)
(* limit and one for every other request already under way, a restart      *)
(* giving that many again (login.rs:499-511).                              *)
GuessesAreBounded ==
  wrong <= (MaxAttempts + Cardinality(Workers) - 1) * (1 + crashes)

(* Tries that find the account locked do not keep it locked.               *)
LockEnds == lockLeft > 0 ~> lockLeft = 0
=============================================================================
