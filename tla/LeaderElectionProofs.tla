------------------------ MODULE LeaderElectionProofs ------------------------
(***************************************************************************)
(* Proofs about LeaderElection for any set of engines and any lease whose  *)
(* TTL is longer than the renewal interval: type correctness, that the     *)
(* lock changes hands only by expiry or by its owner's shutdown, and that  *)
(* there is at most one leader as long as no process is late and no        *)
(* connection is lost.                                                     *)
(***************************************************************************)
EXTENDS LeaderElection, TLAPS

(* What is true of a process whatever happens around it: the tasks exist    *)
(* only after the first attempt, and a flag is up only while they exist.    *)
Structure ==
    /\ \A e \in Engine : phase[e] \in {"down", "boot", "bootWon"} =>
                            /\ pcA[e] = "off" /\ pcB[e] = "off"
                            /\ ~flag[e] /\ sleepA[e] = 0
    /\ \A e \in Engine : pcA[e] \in {"owned", "lost"} => flag[e]
    /\ \A e \in Engine : phase[e] = "run" => pcA[e] # "off"
    /\ \A e \in Engine : pcA[e] # "sleep" => sleepA[e] = 0

(* An undisturbed engine that won but did not store its flag yet holds a    *)
(* fresh lease: its next step is due, so no time has passed.                *)
Fresh(e) ==
    \/ phase[e] = "bootWon"
    \/ phase[e] = "run" /\ pcB[e] \in {"listenWon", "pollWon"}

(* The lease of an undisturbed leader outlives its renewal task's sleep.    *)
Held(e) ==
    /\ owner = e
    /\ ttl + RenewEvery >= TTL + sleepA[e]
    /\ pcA[e] \in {"connect", "sleep", "owned"}
    /\ pcA[e] = "connect" => ttl = TTL

Connected ==
    \A e \in Engine : /\ link[e]
                      /\ pcA[e] # "inactive"
                      /\ pcA[e] \in {"sleep", "owned", "lost"} => "A" \in open[e]

Lease ==
    /\ Connected
    /\ \A e \in Engine : Fresh(e) => owner = e /\ ttl = TTL
    /\ \A e \in Engine : Leads(e) => Held(e)

IInv == TypeOK /\ Structure /\ (Undisturbed => Lease)

-----------------------------------------------------------------------------
(* Type correctness.                                                        *)

LEMMA TypeInit == Init => TypeOK
  <1> SUFFICES ASSUME Init PROVE TypeOK
    OBVIOUS
  <1> USE LeaderAssumption DEF LeaderAssumption, Init
  <1>1. owner \in Engine \cup {None} /\ ttl \in 0..TTL
    OBVIOUS
  <1>6. notify \in BOOLEAN
    OBVIOUS
  <1>7. lateLeft \in 0..MaxLate /\ cutsLeft \in 0..MaxCuts /\ stopsLeft \in 0..MaxStops
    OBVIOUS
  <1>2. events \in [Engine -> Nat]
    OBVIOUS
  <1>3. /\ link \in [Engine -> BOOLEAN] /\ open \in [Engine -> SUBSET {"A", "B"}]
        /\ conf \in [Engine -> BOOLEAN] /\ flag \in [Engine -> BOOLEAN]
    OBVIOUS
  <1>4. phase \in [Engine -> Phase] /\ pcA \in [Engine -> PcA] /\ pcB \in [Engine -> PcB]
    BY DEF Phase, PcA, PcB
  <1>5. sleepA \in [Engine -> 0..RenewEvery] /\ sleepB \in [Engine -> 0..RetryEvery]
    OBVIOUS
  <1>8. QED
    BY <1>1, <1>2, <1>3, <1>4, <1>5, <1>6, <1>7 DEF TypeOK

(* What an attempt leaves behind, whether or not it won.                    *)
LEMMA NotWonType ==
  ASSUME TypeOK, NEW e \in Engine, NotWon(e)
  PROVE  /\ owner' \in Engine \cup {None} /\ ttl' \in 0..TTL /\ cutsLeft' \in 0..MaxCuts
         /\ link' \in [Engine -> BOOLEAN] /\ open' \in [Engine -> SUBSET {"A", "B"}]
  <1> USE LeaderAssumption
      DEF LeaderAssumption, TypeOK, NotWon, SetNX, Disconnect, net
  <1>1. owner' \in Engine \cup {None} /\ ttl' \in 0..TTL
    OBVIOUS
  <1>2. cutsLeft' \in 0..MaxCuts
    OBVIOUS
  <1>3. link' \in [Engine -> BOOLEAN]
    OBVIOUS
  <1>4. open' \in [Engine -> SUBSET {"A", "B"}]
    OBVIOUS
  <1>5. QED
    BY <1>1, <1>2, <1>3, <1>4

LEMMA AttemptType ==
  ASSUME TypeOK, NEW e \in Engine, NEW won \in PcB, NEW notWon \in PcB,
         Attempt(e, won, notWon)
  PROVE  /\ owner' \in Engine \cup {None} /\ ttl' \in 0..TTL /\ cutsLeft' \in 0..MaxCuts
         /\ link' \in [Engine -> BOOLEAN] /\ open' \in [Engine -> SUBSET {"A", "B"}]
         /\ pcB' \in [Engine -> PcB]
  <1>1. CASE NotWon(e) /\ pcB' = [pcB EXCEPT ![e] = notWon]
    BY <1>1, NotWonType DEF TypeOK
  <1>2. CASE Won(e) /\ pcB' = [pcB EXCEPT ![e] = won]
    BY <1>2, LeaderAssumption DEF LeaderAssumption, TypeOK, Won, SetNX, net
  <1>3. CASE UNCHANGED <<owner, ttl, net, cutsLeft, pcB>>
    BY <1>3 DEF TypeOK, net
  <1>4. QED
    BY <1>1, <1>2, <1>3 DEF Attempt

LEMMA TypeStep == TypeOK /\ [Next]_vars => TypeOK'
  <1> SUFFICES ASSUME TypeOK, [Next]_vars PROVE TypeOK'
    OBVIOUS
  <1> USE LeaderAssumption DEF LeaderAssumption, TypeOK, Phase, PcA, PcB, redis, net, taskA, taskB, budget
  <1>1. CASE Expire
    BY <1>1 DEF Expire, KeyGone
  <1>2. CASE Tick
    BY <1>2 DEF Tick, Less
  <1>3. ASSUME NEW e \in Engine, EnableNotifications(e) PROVE TypeOK'
    BY <1>3 DEF EnableNotifications
  <1>4. ASSUME NEW e \in Engine, BootAttempt(e) PROVE TypeOK'
    <2>1. CASE Won(e) /\ UNCHANGED <<pcA, pcB>>
      BY <1>4, <2>1 DEF BootAttempt, Won, SetNX
    <2>2. CASE NotWon(e) /\ SpawnTasks(e)
      BY <1>4, <2>2, NotWonType DEF BootAttempt, SpawnTasks
    <2>3. QED
      BY <1>4, <2>1, <2>2 DEF BootAttempt
  <1>5. ASSUME NEW e \in Engine, BootWon(e) PROVE TypeOK'
    BY <1>5 DEF BootWon, SpawnTasks
  <1>6. ASSUME NEW e \in Engine, RenewConnect(e) PROVE TypeOK'
    BY <1>6 DEF RenewConnect, SleepA
  <1>7. ASSUME NEW e \in Engine, RenewSkip(e) PROVE TypeOK'
    BY <1>7 DEF RenewSkip, SleepA, RenewDue
  <1>8. ASSUME NEW e \in Engine, RenewGet(e) PROVE TypeOK'
    BY <1>8 DEF RenewGet, RenewDue
  <1>9. ASSUME NEW e \in Engine, RenewExtend(e) PROVE TypeOK'
    <2>1. sleepA' \in [Engine -> 0..RenewEvery] /\ pcA' \in [Engine -> PcA]
      BY <1>9 DEF RenewExtend, SleepA
    <2>2. ttl' \in 0..TTL
      BY <1>9 DEF RenewExtend
    <2>3. flag' \in [Engine -> BOOLEAN] /\ link' \in [Engine -> BOOLEAN]
      BY <1>9 DEF RenewExtend, Disconnect
    <2>4. open' \in [Engine -> SUBSET {"A", "B"}]
      BY <1>9 DEF RenewExtend, Disconnect
    <2>5. cutsLeft' \in 0..MaxCuts
      BY <1>9 DEF RenewExtend, Disconnect
    <2>6. UNCHANGED <<owner, notify, events, phase, conf, taskB, lateLeft, stopsLeft>>
      BY <1>9 DEF RenewExtend
    <2>7. QED
      BY <2>1, <2>2, <2>3, <2>4, <2>5, <2>6
  <1>10. ASSUME NEW e \in Engine, StepDown(e) PROVE TypeOK'
    BY <1>10 DEF StepDown, SleepA
  <1>11. ASSUME NEW e \in Engine, ListenConnect(e) PROVE TypeOK'
    BY <1>11 DEF ListenConnect, SleepB
  <1>12. ASSUME NEW e \in Engine, Subscribe(e) PROVE TypeOK'
    BY <1>12 DEF Subscribe
  <1>13. ASSUME NEW e \in Engine, StreamEnds(e) PROVE TypeOK'
    BY <1>13 DEF StreamEnds, SleepB
  <1>14. ASSUME NEW e \in Engine, HandleEvent(e) PROVE TypeOK'
    <2>1. /\ owner' \in Engine \cup {None} /\ ttl' \in 0..TTL /\ cutsLeft' \in 0..MaxCuts
          /\ link' \in [Engine -> BOOLEAN] /\ open' \in [Engine -> SUBSET {"A", "B"}]
          /\ pcB' \in [Engine -> PcB]
      BY <1>14, AttemptType DEF HandleEvent
    <2>2. events' \in [Engine -> Nat] /\ UNCHANGED sleepB
      BY <1>14 DEF HandleEvent
    <2>3. UNCHANGED <<notify, phase, conf, flag, taskA, lateLeft, stopsLeft>>
      BY <1>14 DEF HandleEvent
    <2>4. QED
      BY <2>1, <2>2, <2>3
  <1>15. ASSUME NEW e \in Engine, Poll(e) PROVE TypeOK'
    <2>1. /\ owner' \in Engine \cup {None} /\ ttl' \in 0..TTL /\ cutsLeft' \in 0..MaxCuts
          /\ link' \in [Engine -> BOOLEAN] /\ open' \in [Engine -> SUBSET {"A", "B"}]
          /\ pcB' \in [Engine -> PcB]
      BY <1>15, AttemptType DEF Poll
    <2>2. sleepB' \in [Engine -> 0..RetryEvery] /\ UNCHANGED events
      BY <1>15 DEF Poll
    <2>3. UNCHANGED <<notify, phase, conf, flag, taskA, lateLeft, stopsLeft>>
      BY <1>15 DEF Poll
    <2>4. QED
      BY <2>1, <2>2, <2>3
  <1>16. ASSUME NEW e \in Engine, Elected(e) PROVE TypeOK'
    BY <1>16 DEF Elected
  <1>17. ASSUME NEW e \in Engine, Exit(e) PROVE TypeOK'
    BY <1>17 DEF Exit, ProcessGone
  <1>18. ASSUME NEW e \in Engine, Start(e) PROVE TypeOK'
    BY <1>18 DEF Start
  <1>19. ASSUME NEW e \in Engine, Crash(e) PROVE TypeOK'
    BY <1>19 DEF Crash, ProcessGone
  <1>20. ASSUME NEW e \in Engine, Release(e) PROVE TypeOK'
    BY <1>20 DEF Release, Deletes, KeyGone
  <1>21. ASSUME NEW e \in Engine, Cut(e) PROVE TypeOK'
    BY <1>21 DEF Cut, Disconnect
  <1>22. ASSUME NEW e \in Engine, Heal(e) PROVE TypeOK'
    BY <1>22 DEF Heal
  <1>23. CASE UNCHANGED vars
    BY <1>23 DEF vars
  <1>24. QED
    BY <1>1, <1>2, <1>3, <1>4, <1>5, <1>6, <1>7, <1>8, <1>9, <1>10, <1>11,
       <1>12, <1>13, <1>14, <1>15, <1>16, <1>17, <1>18, <1>19, <1>20, <1>21,
       <1>22, <1>23
    DEF Next, EngineStep

(* Every variable keeps its type: in particular no sleep and no TTL leaves  *)
(* its range, and the budgets that bound the environment only shrink.       *)
THEOREM TypeCorrect == Spec => []TypeOK
  BY TypeInit, TypeStep, PTL DEF Spec

-----------------------------------------------------------------------------
(* A key changes hands only by expiry or by its owner's shutdown.           *)

LEMMA KeyStep == TypeOK /\ [Next]_vars => (KeyMoves => LegalMove)
  <1> SUFFICES ASSUME TypeOK, [Next]_vars, KeyMoves PROVE LegalMove
    OBVIOUS
  <1> USE LeaderAssumption
      DEF LeaderAssumption, TypeOK, Phase, redis, net, KeyMoves, LegalMove, ShutsDown
  <1>1. CASE Expire
    BY <1>1 DEF Expire, KeyGone
  <1>2. CASE Tick
    BY <1>2 DEF Tick, Less
  <1>3. ASSUME NEW e \in Engine, EnableNotifications(e) PROVE LegalMove
    BY <1>3 DEF EnableNotifications
  <1>4. ASSUME NEW e \in Engine, BootAttempt(e) PROVE LegalMove
    BY <1>4 DEF BootAttempt, Won, NotWon, SetNX, Disconnect, SpawnTasks
  <1>5. ASSUME NEW e \in Engine, BootWon(e) PROVE LegalMove
    BY <1>5 DEF BootWon, SpawnTasks
  <1>6. ASSUME NEW e \in Engine, RenewConnect(e) PROVE LegalMove
    BY <1>6 DEF RenewConnect, SleepA
  <1>7. ASSUME NEW e \in Engine, RenewSkip(e) PROVE LegalMove
    BY <1>7 DEF RenewSkip, SleepA, RenewDue
  <1>8. ASSUME NEW e \in Engine, RenewGet(e) PROVE LegalMove
    BY <1>8 DEF RenewGet, RenewDue
  <1>9. ASSUME NEW e \in Engine, RenewExtend(e) PROVE LegalMove
    BY <1>9 DEF RenewExtend, Extend, SleepA, Disconnect
  <1>10. ASSUME NEW e \in Engine, StepDown(e) PROVE LegalMove
    BY <1>10 DEF StepDown, SleepA
  <1>11. ASSUME NEW e \in Engine, ListenConnect(e) PROVE LegalMove
    BY <1>11 DEF ListenConnect, SleepB
  <1>12. ASSUME NEW e \in Engine, Subscribe(e) PROVE LegalMove
    BY <1>12 DEF Subscribe
  <1>13. ASSUME NEW e \in Engine, StreamEnds(e) PROVE LegalMove
    BY <1>13 DEF StreamEnds, SleepB
  <1>14. ASSUME NEW e \in Engine, HandleEvent(e) PROVE LegalMove
    BY <1>14 DEF HandleEvent, Attempt, Won, NotWon, SetNX, Disconnect
  <1>15. ASSUME NEW e \in Engine, Poll(e) PROVE LegalMove
    BY <1>15 DEF Poll, Attempt, Won, NotWon, SetNX, Disconnect
  <1>16. ASSUME NEW e \in Engine, Elected(e) PROVE LegalMove
    BY <1>16 DEF Elected
  <1>17. ASSUME NEW e \in Engine, Exit(e) PROVE LegalMove
    BY <1>17 DEF Exit, ProcessGone
  <1>18. ASSUME NEW e \in Engine, Start(e) PROVE LegalMove
    BY <1>18 DEF Start
  <1>19. ASSUME NEW e \in Engine, Crash(e) PROVE LegalMove
    BY <1>19 DEF Crash, ProcessGone
  <1>20. ASSUME NEW e \in Engine, Release(e) PROVE LegalMove
    BY <1>20 DEF Release, Deletes, KeyGone
  <1>21. ASSUME NEW e \in Engine, Cut(e) PROVE LegalMove
    BY <1>21 DEF Cut, Disconnect
  <1>22. ASSUME NEW e \in Engine, Heal(e) PROVE LegalMove
    BY <1>22 DEF Heal
  <1>23. CASE UNCHANGED vars
    BY <1>23 DEF vars
  <1>24. QED
    BY <1>1, <1>2, <1>3, <1>4, <1>5, <1>6, <1>7, <1>8, <1>9, <1>10, <1>11,
       <1>12, <1>13, <1>14, <1>15, <1>16, <1>17, <1>18, <1>19, <1>20, <1>21,
       <1>22, <1>23
    DEF Next, EngineStep

(* No engine, however late and however often it loses its connection,       *)
(* deletes or overwrites a live lock of another engine (the NX of           *)
(* try_acquire_or_renew, the compare in renewal and release).               *)
THEOREM LockSafety == Spec => KeyChangesHands
  <1>1. TypeOK /\ [Next]_vars => [KeyMoves => LegalMove]_vars
    BY KeyStep
  <1>2. QED
    BY <1>1, TypeCorrect, PTL DEF Spec, KeyChangesHands

-----------------------------------------------------------------------------
(* At most one leader.                                                      *)

LEMMA InitIInv == Init => IInv
  <1> SUFFICES ASSUME Init PROVE IInv
    OBVIOUS
  <1>1. Structure
    BY DEF Init, Structure
  <1>2. Lease
    BY DEF Init, Lease, Connected, Fresh, Leads
  <1>3. QED
    BY <1>1, <1>2, TypeInit DEF IInv

LEMMA StructureStep == TypeOK /\ Structure /\ [Next]_vars => Structure'
  <1> SUFFICES ASSUME TypeOK, Structure, [Next]_vars PROVE Structure'
    OBVIOUS
  <1> USE LeaderAssumption
      DEF LeaderAssumption, TypeOK, Phase, PcA, PcB, redis, net, taskA, taskB,
          budget, Structure
  <1>1. CASE Expire
    BY <1>1 DEF Expire, KeyGone
  <1>2. CASE Tick
    BY <1>2 DEF Tick, Less
  <1>3. ASSUME NEW e \in Engine, EnableNotifications(e) PROVE Structure'
    BY <1>3 DEF EnableNotifications
  <1>4. ASSUME NEW e \in Engine, BootAttempt(e) PROVE Structure'
    BY <1>4 DEF BootAttempt, Won, NotWon, SetNX, Disconnect, SpawnTasks
  <1>5. ASSUME NEW e \in Engine, BootWon(e) PROVE Structure'
    BY <1>5 DEF BootWon, SpawnTasks
  <1>6. ASSUME NEW e \in Engine, RenewConnect(e) PROVE Structure'
    BY <1>6 DEF RenewConnect, SleepA
  <1>7. ASSUME NEW e \in Engine, RenewSkip(e) PROVE Structure'
    BY <1>7 DEF RenewSkip, SleepA, RenewDue
  <1>8. ASSUME NEW e \in Engine, RenewGet(e) PROVE Structure'
    BY <1>8 DEF RenewGet, RenewDue
  <1>9. ASSUME NEW e \in Engine, RenewExtend(e) PROVE Structure'
    BY <1>9 DEF RenewExtend, Extend, SleepA, Disconnect
  <1>10. ASSUME NEW e \in Engine, StepDown(e) PROVE Structure'
    BY <1>10 DEF StepDown, SleepA
  <1>11. ASSUME NEW e \in Engine, ListenConnect(e) PROVE Structure'
    BY <1>11 DEF ListenConnect, SleepB
  <1>12. ASSUME NEW e \in Engine, Subscribe(e) PROVE Structure'
    BY <1>12 DEF Subscribe
  <1>13. ASSUME NEW e \in Engine, StreamEnds(e) PROVE Structure'
    BY <1>13 DEF StreamEnds, SleepB
  <1>14. ASSUME NEW e \in Engine, HandleEvent(e) PROVE Structure'
    BY <1>14 DEF HandleEvent, Attempt, Won, NotWon, SetNX, Disconnect
  <1>15. ASSUME NEW e \in Engine, Poll(e) PROVE Structure'
    BY <1>15 DEF Poll, Attempt, Won, NotWon, SetNX, Disconnect
  <1>16. ASSUME NEW e \in Engine, Elected(e) PROVE Structure'
    BY <1>16 DEF Elected
  <1>17. ASSUME NEW e \in Engine, Exit(e) PROVE Structure'
    BY <1>17 DEF Exit, ProcessGone
  <1>18. ASSUME NEW e \in Engine, Start(e) PROVE Structure'
    BY <1>18 DEF Start
  <1>19. ASSUME NEW e \in Engine, Crash(e) PROVE Structure'
    BY <1>19 DEF Crash, ProcessGone
  <1>20. ASSUME NEW e \in Engine, Release(e) PROVE Structure'
    BY <1>20 DEF Release, Deletes, KeyGone
  <1>21. ASSUME NEW e \in Engine, Cut(e) PROVE Structure'
    BY <1>21 DEF Cut, Disconnect
  <1>22. ASSUME NEW e \in Engine, Heal(e) PROVE Structure'
    BY <1>22 DEF Heal
  <1>23. CASE UNCHANGED vars
    BY <1>23 DEF vars
  <1>24. QED
    BY <1>1, <1>2, <1>3, <1>4, <1>5, <1>6, <1>7, <1>8, <1>9, <1>10, <1>11,
       <1>12, <1>13, <1>14, <1>15, <1>16, <1>17, <1>18, <1>19, <1>20, <1>21,
       <1>22, <1>23
    DEF Next, EngineStep

(* A step that spends none of the environment's budgets keeps the lease: a  *)
(* tick then finds nothing due, so the owner's sleep ends before its TTL.   *)
LEMMA LeaseStep ==
  TypeOK /\ Structure /\ Lease /\ Undisturbed /\ Undisturbed' /\ [Next]_vars => Lease'
  <1> SUFFICES ASSUME TypeOK, Structure, Lease, Undisturbed, Undisturbed', [Next]_vars
               PROVE  Lease'
    OBVIOUS
  <1> USE LeaderAssumption
      DEF LeaderAssumption, TypeOK, Phase, PcA, PcB, redis, net, taskA, taskB,
          budget, Structure, Undisturbed, Lease, Connected, Fresh, Held, Leads
  <1>1. CASE Expire
    BY <1>1 DEF Expire, KeyGone
  <1>2. CASE Tick
    BY <1>2 DEF Tick, Less, Due, RenewDue
  <1>3. ASSUME NEW e \in Engine, EnableNotifications(e) PROVE Lease'
    BY <1>3 DEF EnableNotifications
  <1>4. ASSUME NEW e \in Engine, BootAttempt(e) PROVE Lease'
    BY <1>4 DEF BootAttempt, Won, NotWon, SetNX, Disconnect, SpawnTasks
  <1>5. ASSUME NEW e \in Engine, BootWon(e) PROVE Lease'
    BY <1>5 DEF BootWon, SpawnTasks
  <1>6. ASSUME NEW e \in Engine, RenewConnect(e) PROVE Lease'
    BY <1>6 DEF RenewConnect, SleepA
  <1>7. ASSUME NEW e \in Engine, RenewSkip(e) PROVE Lease'
    BY <1>7 DEF RenewSkip, SleepA, RenewDue
  <1>8. ASSUME NEW e \in Engine, RenewGet(e) PROVE Lease'
    BY <1>8 DEF RenewGet, RenewDue
  <1>9. ASSUME NEW e \in Engine, RenewExtend(e) PROVE Lease'
    BY <1>9 DEF RenewExtend, Extend, SleepA, Disconnect
  <1>10. ASSUME NEW e \in Engine, StepDown(e) PROVE Lease'
    BY <1>10 DEF StepDown, SleepA
  <1>11. ASSUME NEW e \in Engine, ListenConnect(e) PROVE Lease'
    BY <1>11 DEF ListenConnect, SleepB
  <1>12. ASSUME NEW e \in Engine, Subscribe(e) PROVE Lease'
    BY <1>12 DEF Subscribe
  <1>13. ASSUME NEW e \in Engine, StreamEnds(e) PROVE Lease'
    BY <1>13 DEF StreamEnds, SleepB
  <1>14. ASSUME NEW e \in Engine, HandleEvent(e) PROVE Lease'
    BY <1>14 DEF HandleEvent, Attempt, Won, NotWon, SetNX, Disconnect
  <1>15. ASSUME NEW e \in Engine, Poll(e) PROVE Lease'
    BY <1>15 DEF Poll, Attempt, Won, NotWon, SetNX, Disconnect
  <1>16. ASSUME NEW e \in Engine, Elected(e) PROVE Lease'
    BY <1>16 DEF Elected
  <1>17. ASSUME NEW e \in Engine, Exit(e) PROVE Lease'
    BY <1>17 DEF Exit, ProcessGone
  <1>18. ASSUME NEW e \in Engine, Start(e) PROVE Lease'
    BY <1>18 DEF Start
  <1>19. ASSUME NEW e \in Engine, Crash(e) PROVE Lease'
    BY <1>19 DEF Crash, ProcessGone
  <1>20. ASSUME NEW e \in Engine, Release(e) PROVE Lease'
    BY <1>20 DEF Release, Deletes, KeyGone
  <1>21. ASSUME NEW e \in Engine, Cut(e) PROVE Lease'
    BY <1>21 DEF Cut, Disconnect
  <1>22. ASSUME NEW e \in Engine, Heal(e) PROVE Lease'
    BY <1>22 DEF Heal
  <1>23. CASE UNCHANGED vars
    BY <1>23 DEF vars
  <1>24. QED
    BY <1>1, <1>2, <1>3, <1>4, <1>5, <1>6, <1>7, <1>8, <1>9, <1>10, <1>11,
       <1>12, <1>13, <1>14, <1>15, <1>16, <1>17, <1>18, <1>19, <1>20, <1>21,
       <1>22, <1>23
    DEF Next, EngineStep

(* The budgets only shrink: what is undisturbed now always was.             *)
LEMMA BudgetStep == TypeOK /\ [Next]_vars /\ Undisturbed' => Undisturbed
  <1> SUFFICES ASSUME TypeOK, [Next]_vars, Undisturbed' PROVE Undisturbed
    OBVIOUS
  <1> USE LeaderAssumption DEF LeaderAssumption, TypeOK, budget, Undisturbed
  <1>1. CASE Expire
    BY <1>1 DEF Expire, KeyGone
  <1>2. CASE Tick
    BY <1>2 DEF Tick, Less
  <1>3. ASSUME NEW e \in Engine, EnableNotifications(e) PROVE Undisturbed
    BY <1>3 DEF EnableNotifications
  <1>4. ASSUME NEW e \in Engine, BootAttempt(e) PROVE Undisturbed
    BY <1>4 DEF BootAttempt, Won, NotWon, SetNX, Disconnect, SpawnTasks
  <1>5. ASSUME NEW e \in Engine, BootWon(e) PROVE Undisturbed
    BY <1>5 DEF BootWon, SpawnTasks
  <1>6. ASSUME NEW e \in Engine, RenewConnect(e) PROVE Undisturbed
    BY <1>6 DEF RenewConnect, SleepA
  <1>7. ASSUME NEW e \in Engine, RenewSkip(e) PROVE Undisturbed
    BY <1>7 DEF RenewSkip, SleepA, RenewDue
  <1>8. ASSUME NEW e \in Engine, RenewGet(e) PROVE Undisturbed
    BY <1>8 DEF RenewGet, RenewDue
  <1>9. ASSUME NEW e \in Engine, RenewExtend(e) PROVE Undisturbed
    BY <1>9 DEF RenewExtend, Extend, SleepA, Disconnect
  <1>10. ASSUME NEW e \in Engine, StepDown(e) PROVE Undisturbed
    BY <1>10 DEF StepDown, SleepA
  <1>11. ASSUME NEW e \in Engine, ListenConnect(e) PROVE Undisturbed
    BY <1>11 DEF ListenConnect, SleepB
  <1>12. ASSUME NEW e \in Engine, Subscribe(e) PROVE Undisturbed
    BY <1>12 DEF Subscribe
  <1>13. ASSUME NEW e \in Engine, StreamEnds(e) PROVE Undisturbed
    BY <1>13 DEF StreamEnds, SleepB
  <1>14. ASSUME NEW e \in Engine, HandleEvent(e) PROVE Undisturbed
    BY <1>14 DEF HandleEvent, Attempt, Won, NotWon, SetNX, Disconnect
  <1>15. ASSUME NEW e \in Engine, Poll(e) PROVE Undisturbed
    BY <1>15 DEF Poll, Attempt, Won, NotWon, SetNX, Disconnect
  <1>16. ASSUME NEW e \in Engine, Elected(e) PROVE Undisturbed
    BY <1>16 DEF Elected
  <1>17. ASSUME NEW e \in Engine, Exit(e) PROVE Undisturbed
    BY <1>17 DEF Exit, ProcessGone
  <1>18. ASSUME NEW e \in Engine, Start(e) PROVE Undisturbed
    BY <1>18 DEF Start
  <1>19. ASSUME NEW e \in Engine, Crash(e) PROVE Undisturbed
    BY <1>19 DEF Crash, ProcessGone
  <1>20. ASSUME NEW e \in Engine, Release(e) PROVE Undisturbed
    BY <1>20 DEF Release, Deletes, KeyGone
  <1>21. ASSUME NEW e \in Engine, Cut(e) PROVE Undisturbed
    BY <1>21 DEF Cut, Disconnect
  <1>22. ASSUME NEW e \in Engine, Heal(e) PROVE Undisturbed
    BY <1>22 DEF Heal
  <1>23. CASE UNCHANGED vars
    BY <1>23 DEF vars
  <1>24. QED
    BY <1>1, <1>2, <1>3, <1>4, <1>5, <1>6, <1>7, <1>8, <1>9, <1>10, <1>11,
       <1>12, <1>13, <1>14, <1>15, <1>16, <1>17, <1>18, <1>19, <1>20, <1>21,
       <1>22, <1>23
    DEF Next, EngineStep

(* Crashes, restarts, shutdowns and start-up races never give two leaders   *)
(* while every process is on time and connected: renewing every RenewEvery  *)
(* < TTL ticks keeps the key under its one owner (leader.rs:3).             *)
THEOREM LeaderExclusive == Spec => []ExclusiveWhileTimely
  <1>1. IInv /\ [Next]_vars => IInv'
    BY TypeStep, StructureStep, LeaseStep, BudgetStep DEF IInv
  <1>2. IInv => ExclusiveWhileTimely
    BY DEF IInv, Lease, Held, ExclusiveWhileTimely, AtMostOneLeader
  <1>3. QED
    BY InitIInv, <1>1, <1>2, PTL DEF Spec

-----------------------------------------------------------------------------
(* The election is a lease.                                                 *)

Leading == {e \in Engine : Leads(e)}
Stopping == {e \in Engine : phase[e] = "stopping"}

(* A step that neither moves the key nor makes or ends a leader.            *)
LEMMA LeaseUntouched ==
  ASSUME UNCHANGED <<owner, ttl>>, Undisturbed' => Undisturbed,
         \A f \in Engine : Leads(f)' <=> Leads(f),
         \A f \in Engine : phase'[f] = "stopping" <=> phase[f] = "stopping"
  PROVE  L!Next
  <1>1. Leading' = Leading
    BY DEF Leading
  <1>2. Stopping' = Stopping
    BY DEF Stopping
  <1> QED
    BY <1>1, <1>2 DEF L!Next, Leading, Stopping

(* A step that makes, or ends, the leadership of e alone.                   *)
LEMMA LeaderJoins ==
  ASSUME NEW e \in Engine, \A f \in Engine : Leads(f)' <=> Leads(f) \/ f = e
  PROVE  Leading' = Leading \cup {e}
  BY DEF Leading

LEMMA LeaderLeaves ==
  ASSUME NEW e \in Engine, \A f \in Engine : Leads(f)' <=> Leads(f) /\ f # e
  PROVE  Leading' = Leading \ {e}
  BY DEF Leading

LEMMA NoneStops ==
  ASSUME \A f \in Engine : phase'[f] = "stopping" <=> phase[f] = "stopping"
  PROVE  Stopping' = Stopping
  BY DEF Stopping

LEMMA TakenLease ==
  ASSUME NEW e \in Engine, SetNX(e), Undisturbed' => Undisturbed,
         \A f \in Engine : Leads(f)' <=> Leads(f),
         \A f \in Engine : phase'[f] = "stopping" <=> phase[f] = "stopping"
  PROVE  L!Next
  <1>1. Leading' = Leading
    BY DEF Leading
  <1>2. Stopping' = Stopping
    BY NoneStops
  <1>3. L!Take(e)
    BY <1>1, <1>2, LeaderAssumption DEF L!Take, SetNX, Leading, Stopping, LeaderAssumption
  <1> QED
    BY <1>3 DEF L!Next

LEMMA AttemptRefined ==
  ASSUME NEW e \in Engine, Won(e) \/ NotWon(e), Undisturbed' => Undisturbed,
         \A f \in Engine : Leads(f)' <=> Leads(f),
         \A f \in Engine : phase'[f] = "stopping" <=> phase[f] = "stopping"
  PROVE  L!Next
  <1>1. CASE SetNX(e)
    BY <1>1, TakenLease
  <1>2. CASE UNCHANGED <<owner, ttl>>
    BY <1>2, LeaseUntouched
  <1> QED
    BY <1>1, <1>2 DEF Won, NotWon

LEMMA LeaseRefined == IInv /\ IInv' /\ [Next]_vars => L!Next
  <1> SUFFICES ASSUME IInv, IInv', [Next]_vars PROVE L!Next
    OBVIOUS
  <1> USE LeaderAssumption DEF LeaderAssumption
  <1> /\ TypeOK /\ Structure /\ (Undisturbed => Lease)
      /\ TypeOK' /\ Structure' /\ (Undisturbed' => Lease')
    BY DEF IInv
  <1>0. Undisturbed' => Undisturbed
    BY BudgetStep
  <1>1. CASE Expire
    <2>1. /\ owner # None /\ ttl = 0 /\ owner' = None /\ ttl' = 0
          /\ UNCHANGED <<phase, flag>>
      BY <1>1 DEF Expire, KeyGone
    <2>2. Undisturbed' => Leading = {}
      BY <1>0, <2>1 DEF Lease, Held, Leading, TypeOK
    <2>3. Leading' = Leading /\ Stopping' = Stopping
      BY <2>1 DEF Leading, Stopping, Leads
    <2>4. L!Lapse
      BY <2>1, <2>2, <2>3 DEF L!Lapse, Leading, Stopping
    <2> QED
      BY <1>0, <2>4 DEF L!Next
  <1>2. CASE Tick
    <2>1. owner' = owner /\ ttl' <= ttl /\ UNCHANGED <<phase, flag>>
      BY <1>2 DEF Tick, Less, TypeOK
    <2>2. Undisturbed' /\ ttl' = 0 => owner \notin Leading
      <3> SUFFICES ASSUME Undisturbed', ttl' = 0, owner \in Leading PROVE FALSE
        OBVIOUS
      <3>1. PICK f \in Engine : f = owner /\ Leads(f)'
        BY <2>1 DEF Leading, Leads
      <3>2. Held(f)'
        BY <3>1 DEF Lease
      <3>3. sleepA'[f] \in 0 .. RenewEvery
        BY DEF TypeOK
      <3> QED
        BY <3>2, <3>3 DEF Held
    <2>3. Leading' = Leading /\ Stopping' = Stopping
      BY <2>1 DEF Leading, Stopping, Leads
    <2>4. L!Pass
      BY <2>1, <2>2, <2>3 DEF L!Pass, Leading, Stopping
    <2> QED
      BY <1>0, <2>4 DEF L!Next
  <1>3. ASSUME NEW e \in Engine,
               \/ EnableNotifications(e) \/ RenewConnect(e) \/ RenewSkip(e) \/ RenewGet(e)
               \/ ListenConnect(e) \/ Subscribe(e) \/ StreamEnds(e) \/ Cut(e) \/ Heal(e)
        PROVE  L!Next
    <2>1. UNCHANGED <<owner, ttl, phase, flag>>
      BY <1>3 DEF EnableNotifications, RenewConnect, RenewSkip, RenewGet, ListenConnect,
                  Subscribe, StreamEnds, Cut, Heal, redis
    <2> QED
      BY <1>0, <2>1, LeaseUntouched DEF Leads
  <1>4. ASSUME NEW e \in Engine, BootAttempt(e) PROVE L!Next
    <2>1. /\ phase[e] = "boot" /\ flag' = flag /\ ~ flag[e]
          /\ phase' = [phase EXCEPT ![e] = phase'[e]] /\ phase'[e] \in {"bootWon", "run"}
      BY <1>4 DEF BootAttempt, Structure, TypeOK
    <2>2. \A f \in Engine : Leads(f)' <=> Leads(f)
      BY <2>1 DEF Leads, TypeOK
    <2>3. \A f \in Engine : phase'[f] = "stopping" <=> phase[f] = "stopping"
      BY <2>1 DEF TypeOK
    <2> QED
      BY <1>0, <1>4, <2>2, <2>3, AttemptRefined DEF BootAttempt
  <1>5. ASSUME NEW e \in Engine, BootWon(e) \/ Elected(e) PROVE L!Next
    <2>1. /\ UNCHANGED <<owner, ttl>> /\ flag' = [flag EXCEPT ![e] = TRUE]
          /\ \A f \in Engine : phase'[f] = "stopping" <=> phase[f] = "stopping"
          /\ \A f \in Engine \ {e} : phase'[f] = phase[f]
      BY <1>5 DEF BootWon, Elected, redis, TypeOK
    <2>2. Stopping' = Stopping
      BY <2>1, NoneStops
    <2>3. CASE phase'[e] = "run"
      <3>1. Leading' = Leading \cup {e}
        BY <2>1, <2>3, LeaderJoins DEF Leads, TypeOK
      <3>2. Undisturbed => owner = e /\ ttl = TTL
        BY <1>5, <2>3 DEF Lease, Fresh, BootWon, Elected
      <3>3. L!Lead(e)
        BY <1>0, <2>1, <2>2, <3>1, <3>2 DEF L!Lead, Leading, Stopping
      <3> QED
        BY <1>0, <3>3 DEF L!Next
    <2>4. CASE phase'[e] # "run"
      <3>1. \A f \in Engine : Leads(f)' <=> Leads(f)
        BY <1>5, <2>1, <2>4 DEF Leads, TypeOK, BootWon, Elected
      <3> QED
        BY <1>0, <2>1, <3>1, LeaseUntouched
    <2> QED
      BY <2>3, <2>4
  <1>6. ASSUME NEW e \in Engine, RenewExtend(e) PROVE L!Next
    <2>1. UNCHANGED <<owner, phase>> /\ Stopping' = Stopping
      BY <1>6 DEF RenewExtend, Stopping
    <2>2. CASE Extend(e) /\ ttl' = TTL /\ UNCHANGED flag
      <3>1. Leading' = Leading
        BY <2>1, <2>2 DEF Leading, Leads
      <3>2. L!Renew(e)
        BY <2>1, <2>2, <3>1 DEF L!Renew, Leading, Stopping, Extend, TypeOK
      <3> QED
        BY <1>0, <3>2 DEF L!Next
    <2>3. CASE Extend(e) /\ Disconnect(e) /\ ttl' = TTL /\ flag' = [flag EXCEPT ![e] = FALSE]
      <3>1. Leading' = Leading \ {e}
        BY <2>1, <2>3, LeaderLeaves DEF Leads, TypeOK
      <3>2. ~ Undisturbed'
        BY <2>3 DEF Disconnect, Undisturbed, TypeOK
      <3>3. L!Renew(e)
        BY <2>1, <2>3, <3>1, <3>2 DEF L!Renew, Leading, Stopping, Extend, TypeOK
      <3> QED
        BY <1>0, <3>3 DEF L!Next
    <2>4. CASE ~ Extend(e) /\ UNCHANGED ttl /\ flag' = [flag EXCEPT ![e] = FALSE]
      <3>1. Leading' = Leading \ {e}
        BY <2>1, <2>4, LeaderLeaves DEF Leads, TypeOK
      <3>2. CASE Leads(e)
        <4>1. ~ Undisturbed'
          BY <1>0, <1>6, <2>4, <3>2 DEF Lease, Held, Connected, RenewExtend, Extend
        <4>2. L!StepDown(e)
          BY <2>1, <2>4, <3>1, <4>1 DEF L!StepDown, Leading, Stopping
        <4> QED
          BY <1>0, <4>2 DEF L!Next
      <3>3. CASE ~ Leads(e)
        BY <1>0, <2>1, <2>4, <3>3, LeaseUntouched DEF Leads, TypeOK
      <3> QED
        BY <3>2, <3>3
    <2> QED
      BY <1>6, <2>2, <2>3, <2>4 DEF RenewExtend
  <1>7. ASSUME NEW e \in Engine, StepDown(e) PROVE L!Next
    <2>1. /\ UNCHANGED <<owner, ttl, phase>> /\ flag' = [flag EXCEPT ![e] = FALSE]
          /\ pcA[e] = "lost" /\ Stopping' = Stopping
      BY <1>7 DEF StepDown, redis, Stopping
    <2>2. Leading' = Leading \ {e}
      BY <2>1, LeaderLeaves DEF Leads, TypeOK
    <2>3. CASE Leads(e)
      <3>1. ~ Undisturbed'
        BY <1>0, <2>1, <2>3 DEF Lease, Held
      <3>2. L!StepDown(e)
        BY <2>1, <2>2, <3>1 DEF L!StepDown, Leading, Stopping
      <3> QED
        BY <1>0, <3>2 DEF L!Next
    <2>4. CASE ~ Leads(e)
      BY <1>0, <2>1, <2>4, LeaseUntouched DEF Leads, TypeOK
    <2> QED
      BY <2>3, <2>4
  <1>8. ASSUME NEW e \in Engine, HandleEvent(e) \/ Poll(e) PROVE L!Next
    <2>1. UNCHANGED <<phase, flag>>
      BY <1>8 DEF HandleEvent, Poll
    <2>2. UNCHANGED <<owner, ttl>> \/ Won(e) \/ NotWon(e)
      BY <1>8 DEF HandleEvent, Poll, Attempt
    <2> QED
      BY <1>0, <2>1, <2>2, LeaseUntouched, AttemptRefined DEF Leads
  <1>9. ASSUME NEW e \in Engine, Crash(e) \/ Exit(e) PROVE L!Next
    <2>1. /\ UNCHANGED <<owner, ttl>> /\ phase' = [phase EXCEPT ![e] = "down"]
          /\ flag' = [flag EXCEPT ![e] = FALSE]
      BY <1>9 DEF Crash, Exit, ProcessGone
    <2>2. Leading' = Leading \ {e}
      BY <2>1, LeaderLeaves DEF Leads, TypeOK
    <2>3. Stopping' = Stopping \ {e}
      BY <2>1 DEF Stopping, TypeOK
    <2>4. L!Stop(e)
      BY <2>1, <2>2, <2>3 DEF L!Stop, Leading, Stopping
    <2> QED
      BY <1>0, <2>4 DEF L!Next
  <1>10. ASSUME NEW e \in Engine, Release(e) PROVE L!Next
    <2>1. /\ phase[e] # "stopping" /\ phase' = [phase EXCEPT ![e] = "stopping"]
          /\ flag' = flag
      BY <1>10 DEF Release
    <2>2. Leading' = Leading \ {e}
      BY <2>1, LeaderLeaves DEF Leads, TypeOK
    <2>3. Stopping' = Stopping \cup {e} /\ e \notin Stopping
      BY <2>1 DEF Stopping, TypeOK
    <2>4. \/ owner = e /\ owner' = None /\ ttl' = 0
          \/ (Undisturbed' => owner # e) /\ UNCHANGED <<owner, ttl>>
      BY <1>0, <1>10 DEF Release, Deletes, KeyGone, redis, Lease, Connected
    <2>5. L!ShutDown(e)
      BY <2>2, <2>3, <2>4 DEF L!ShutDown, Leading, Stopping
    <2> QED
      BY <1>0, <2>5 DEF L!Next
  <1>11. ASSUME NEW e \in Engine, Start(e) PROVE L!Next
    <2>1. /\ UNCHANGED <<owner, ttl, flag>> /\ phase[e] = "down"
          /\ phase' = [phase EXCEPT ![e] = "boot"]
      BY <1>11 DEF Start, redis
    <2> QED
      BY <1>0, <2>1, LeaseUntouched DEF Leads, TypeOK
  <1>12. CASE UNCHANGED vars
    <2>1. UNCHANGED <<owner, ttl, phase, flag>>
      BY <1>12 DEF vars, redis
    <2> QED
      BY <1>0, <2>1, LeaseUntouched DEF Leads
  <1> QED
    BY <1>1, <1>2, <1>3, <1>4, <1>5, <1>6, <1>7, <1>8, <1>9, <1>10, <1>11, <1>12
       DEF Next, EngineStep

(* Every behaviour of the election is one of a lease: an engine takes the   *)
(* key only when it is free, a timely leader always holds it, has it        *)
(* renewed before it runs out and leads until its process stops, and a      *)
(* timely shutdown frees the key in the step that ends the leadership.      *)
THEOREM ElectionImplementsLease == Spec => ImplementsLease
  <1>1. Init => L!Init
    <2> SUFFICES ASSUME Init PROVE L!Init
      OBVIOUS
    <2>1. owner = None /\ ttl = 0 /\ Undisturbed
      BY DEF Init, Undisturbed
    <2>2. Leading = {} /\ Stopping = {}
      BY DEF Init, Leading, Stopping, Leads
    <2> QED
      BY <2>1, <2>2 DEF L!Init, Leading, Stopping
  <1>2. IInv /\ [Next]_vars => IInv'
    BY TypeStep, StructureStep, LeaseStep, BudgetStep DEF IInv
  <1>3. IInv /\ IInv' /\ [Next]_vars => [L!Next]_L!vars
    BY LeaseRefined
  <1> QED
    BY InitIInv, <1>1, <1>2, <1>3, PTL DEF Spec, ImplementsLease, L!Spec

(* A lease alone, whatever implements it: as long as all are timely, nobody *)
(* but its holder leads.                                                    *)
THEOREM LeaseExcludes == L!Spec => []L!OnlyHolderLeads
  <1>1. L!Init => L!OnlyHolderLeads
    BY DEF L!Init, L!OnlyHolderLeads
  <1>2. L!OnlyHolderLeads /\ [L!Next]_L!vars => L!OnlyHolderLeads'
    <2> SUFFICES ASSUME Undisturbed => Leading \subseteq {owner}, Undisturbed',
                        [L!Next]_L!vars
                 PROVE  Leading' \subseteq {owner'}
      BY DEF L!OnlyHolderLeads, Leading
    <2>1. Leading \subseteq Engine /\ None \notin Engine
      BY LeaderAssumption DEF Leading, LeaderAssumption
    <2>2. CASE UNCHANGED <<owner, Leading, Undisturbed>>
      BY <2>2
    <2>3. CASE Undisturbed /\ UNCHANGED <<owner, Leading>>
      BY <2>3
    <2>4. ASSUME NEW e \in Engine, Undisturbed, L!Take(e) PROVE Leading' \subseteq {owner'}
      BY <2>1, <2>4 DEF L!Take, Leading
    <2>5. ASSUME NEW e \in Engine, Undisturbed, L!Lead(e) PROVE Leading' \subseteq {owner'}
      BY <2>5 DEF L!Lead, Leading
    <2>6. ASSUME NEW e \in Engine, Undisturbed, L!Renew(e) PROVE Leading' \subseteq {owner'}
      BY <2>6 DEF L!Renew, Leading
    <2>7. ASSUME NEW e \in Engine, Undisturbed, L!StepDown(e) \/ L!Stop(e)
          PROVE  Leading' \subseteq {owner'}
      BY <2>7 DEF L!StepDown, L!Stop, Leading
    <2>8. ASSUME NEW e \in Engine, Undisturbed, L!ShutDown(e) PROVE Leading' \subseteq {owner'}
      BY <2>8 DEF L!ShutDown, Leading
    <2>9. CASE Undisturbed /\ L!Pass
      BY <2>9 DEF L!Pass, Leading
    <2>10. CASE Undisturbed /\ L!Lapse
      BY <2>10 DEF L!Lapse, Leading
    <2> QED
      BY <2>2, <2>3, <2>4, <2>5, <2>6, <2>7, <2>8, <2>9, <2>10 DEF L!Next, L!vars, Leading
  <1> QED
    BY <1>1, <1>2, PTL DEF L!Spec

=============================================================================
