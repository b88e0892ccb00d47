--------------------------- MODULE LeaderElection ---------------------------
(***************************************************************************)
(* The Redis leader election of ndr-engine (src/rust/ndr-engine/src/       *)
(* leader.rs), run by every engine whose role has leader jobs.             *)
(*                                                                         *)
(* Each engine makes one attempt at the lock when it boots, then runs two  *)
(* tasks: task A renews the lock while the engine leads, task B waits for  *)
(* the keyspace event that says the lock is gone and attempts again (or    *)
(* polls, once its subscription is lost).  Time is discrete: Tick moves    *)
(* the key's TTL and the two tasks' sleeps.  A tick waits for the steps    *)
(* that are due, unless it spends one of the MaxLate ticks during which    *)
(* processes may be behind (a paused VM, a starved runtime).               *)
(***************************************************************************)
EXTENDS Naturals, FiniteSets

CONSTANTS Engine,      \* the engines, named by ENGINE_NAME across restarts
          None,        \* no owner
          TTL,         \* LEADER_TTL_MS, in ticks
          RenewEvery,  \* RENEW_INTERVAL_MS, in ticks
          RetryEvery,  \* RETRY_INTERVAL_MS, in ticks
          MaxLate,     \* bound: ticks that may pass over a step that is due
          MaxCuts,     \* bound: losses of an engine's connection to Redis
          MaxStops     \* bound: crashes and shutdowns

ASSUME LeaderAssumption ==
    /\ None \notin Engine
    /\ TTL \in Nat /\ RenewEvery \in Nat /\ RetryEvery \in Nat
    /\ 0 < RenewEvery /\ RenewEvery < TTL /\ 0 < RetryEvery
    /\ MaxLate \in Nat /\ MaxCuts \in Nat /\ MaxStops \in Nat

VARIABLES
    owner,    \* Redis: value of LEADER_KEY, None when the key does not exist
    ttl,      \* Redis: ticks until the key expires
    notify,   \* Redis: notify-keyspace-events was set
    events,   \* [Engine -> Nat] key events delivered to task B, not yet read
    link,     \* [Engine -> BOOLEAN] the engine can connect to Redis
    open,     \* [Engine -> SUBSET {"A", "B"}] connections of its tasks still usable
    phase,    \* [Engine -> Phase] of the process
    conf,     \* [Engine -> BOOLEAN] the CONFIG SET task is still to run
    flag,     \* [Engine -> BOOLEAN] is_leader
    pcA,      \* [Engine -> PcA] where task A is
    pcB,      \* [Engine -> PcB] where task B is
    sleepA,   \* [Engine -> Nat] what is left of task A's sleep
    sleepB,   \* [Engine -> Nat] what is left of task B's polling sleep
    lateLeft, cutsLeft, stopsLeft

redis   == <<owner, ttl, notify, events>>
taskA   == <<pcA, sleepA>>
taskB   == <<pcB, sleepB>>
budget  == <<lateLeft, cutsLeft, stopsLeft>>
net     == <<link, open>>
vars    == <<redis, net, phase, conf, flag, taskA, taskB, budget>>

Phase == {"down", "boot", "bootWon", "run", "stopping"}
PcA   == {"off", "connect", "inactive", "sleep", "owned", "lost"}
PcB   == {"off", "connect", "subExpired", "subDel", "listen", "listenWon",
           "poll", "pollWon"}

TypeOK ==
    /\ owner \in Engine \cup {None}
    /\ ttl \in 0..TTL
    /\ notify \in BOOLEAN
    /\ events \in [Engine -> Nat]
    /\ link \in [Engine -> BOOLEAN]
    /\ open \in [Engine -> SUBSET {"A", "B"}]
    /\ phase \in [Engine -> Phase]
    /\ conf \in [Engine -> BOOLEAN]
    /\ flag \in [Engine -> BOOLEAN]
    /\ pcA \in [Engine -> PcA]
    /\ pcB \in [Engine -> PcB]
    /\ sleepA \in [Engine -> 0..RenewEvery]
    /\ sleepB \in [Engine -> 0..RetryEvery]
    /\ lateLeft \in 0..MaxLate
    /\ cutsLeft \in 0..MaxCuts
    /\ stopsLeft \in 0..MaxStops

Init ==
    /\ owner = None /\ ttl = 0 /\ notify = FALSE
    /\ events = [e \in Engine |-> 0]
    /\ link = [e \in Engine |-> TRUE]
    /\ open = [e \in Engine |-> {}]
    /\ phase = [e \in Engine |-> "down"]
    /\ conf = [e \in Engine |-> FALSE]
    /\ flag = [e \in Engine |-> FALSE]
    /\ pcA = [e \in Engine |-> "off"] /\ pcB = [e \in Engine |-> "off"]
    /\ sleepA = [e \in Engine |-> 0] /\ sleepB = [e \in Engine |-> 0]
    /\ lateLeft = MaxLate /\ cutsLeft = MaxCuts /\ stopsLeft = MaxStops

Alive(e) == phase[e] # "down"

-----------------------------------------------------------------------------
(* Redis.  The key disappears by expiry or by DEL; each publishes an event   *)
(* to the tasks subscribed to that channel at that moment, and nobody else.  *)

(* Where task B is once it has subscribed to the channel.                    *)
OnExpired == {"subDel", "listen", "listenWon"}
OnDel     == {"listen", "listenWon"}

KeyGone(channel) ==
    /\ owner' = None
    /\ ttl' = 0
    /\ events' = [e \in Engine |-> IF notify /\ pcB[e] \in channel /\ "B" \in open[e]
                                   THEN events[e] + 1 ELSE events[e]]
    /\ UNCHANGED notify

Expire ==
    /\ owner # None
    /\ ttl = 0
    /\ KeyGone(OnExpired)
    /\ UNCHANGED <<net, phase, conf, flag, taskA, taskB, budget>>

(* The engine loses its connections and cannot reconnect until Heal.         *)
Disconnect(e) ==
    /\ cutsLeft > 0
    /\ cutsLeft' = cutsLeft - 1
    /\ link' = [link EXCEPT ![e] = FALSE]
    /\ open' = [open EXCEPT ![e] = {}]

(* SET key id NX PX over a new connection: succeeds when the key is free.    *)
Set_WithoutNX(e) == owner' = e /\ ttl' = TTL     \* mutant of SetNX

SetNX(e) ==
    /\ owner = None
    /\ owner' = e
    /\ ttl' = TTL

Won(e) == link[e] /\ SetNX(e) /\ UNCHANGED <<net, cutsLeft>>

NotWon(e) ==
    \/ /\ ~link[e] \/ owner # None
       /\ UNCHANGED <<owner, ttl, net, cutsLeft>>
    \/ link[e] /\ SetNX(e) /\ Disconnect(e)    \* executed, the reply is lost

-----------------------------------------------------------------------------
(* Starting: the CONFIG SET task, the first attempt, then tasks A and B.    *)

Start(e) ==
    /\ phase[e] = "down"
    /\ phase' = [phase EXCEPT ![e] = "boot"]
    /\ conf' = [conf EXCEPT ![e] = TRUE]
    /\ UNCHANGED <<redis, net, flag, taskA, taskB, budget>>

EnableNotifications(e) ==
    /\ Alive(e) /\ conf[e]
    /\ conf' = [conf EXCEPT ![e] = FALSE]
    /\ notify' = (notify \/ link[e])
    /\ UNCHANGED <<owner, ttl, events, net, phase, flag, taskA, taskB, budget>>

SpawnTasks(e) ==
    /\ pcA' = [pcA EXCEPT ![e] = "connect"]
    /\ pcB' = [pcB EXCEPT ![e] = "connect"]

BootAttempt(e) ==
    /\ phase[e] = "boot"
    /\ \/ /\ Won(e)
          /\ phase' = [phase EXCEPT ![e] = "bootWon"]
          /\ UNCHANGED <<pcA, pcB>>
       \/ /\ NotWon(e)
          /\ phase' = [phase EXCEPT ![e] = "run"]
          /\ SpawnTasks(e)
    /\ UNCHANGED <<notify, events, conf, flag, sleepA, sleepB, lateLeft, stopsLeft>>

BootWon(e) ==
    /\ phase[e] = "bootWon"
    /\ phase' = [phase EXCEPT ![e] = "run"]
    /\ flag' = [flag EXCEPT ![e] = TRUE]
    /\ SpawnTasks(e)
    /\ UNCHANGED <<redis, net, conf, sleepA, sleepB, budget>>

-----------------------------------------------------------------------------
(* Task A, the renewal loop.                                                *)

SleepA_WholeLease(e) ==                           \* mutant of SleepA
    /\ pcA' = [pcA EXCEPT ![e] = "sleep"]
    /\ sleepA' = [sleepA EXCEPT ![e] = TTL]

SleepA(e) ==
    /\ pcA' = [pcA EXCEPT ![e] = "sleep"]
    /\ sleepA' = [sleepA EXCEPT ![e] = RenewEvery]

(* One connection attempt; a failure ends the task for good.                *)
RenewConnect(e) ==
    /\ pcA[e] = "connect"
    /\ \/ /\ link[e]
          /\ open' = [open EXCEPT ![e] = @ \cup {"A"}]
          /\ SleepA(e)
       \/ /\ ~link[e]
          /\ pcA' = [pcA EXCEPT ![e] = "inactive"]
          /\ UNCHANGED <<open, sleepA>>
    /\ UNCHANGED <<redis, link, phase, conf, flag, taskB, budget>>

RenewDue(e) == pcA[e] = "sleep" /\ sleepA[e] = 0

(* A follower has nothing to renew; a leader whose connection broke keeps   *)
(* its flag, reconnects if it can, and tries again one interval later.      *)
RenewSkip(e) ==
    /\ RenewDue(e)
    /\ \/ ~flag[e] /\ UNCHANGED open
       \/ /\ flag[e] /\ "A" \notin open[e]
          /\ open' = [open EXCEPT ![e] = IF link[e] THEN @ \cup {"A"} ELSE @]
    /\ SleepA(e)
    /\ UNCHANGED <<redis, link, phase, conf, flag, taskB, budget>>

RenewGet(e) ==
    /\ RenewDue(e)
    /\ flag[e] /\ "A" \in open[e]
    /\ pcA' = [pcA EXCEPT ![e] = IF owner = e THEN "owned" ELSE "lost"]
    /\ UNCHANGED <<redis, net, phase, conf, flag, sleepA, taskB, budget>>

(* The Lua compare-and-PEXPIRE; an error counts as 0, leadership lost.      *)
Extend(e) == "A" \in open[e] /\ owner = e

RenewExtend(e) ==
    /\ pcA[e] = "owned"
    /\ \/ /\ Extend(e)
          /\ ttl' = TTL
          /\ UNCHANGED <<flag, net, cutsLeft>>
       \/ /\ ~Extend(e)
          /\ flag' = [flag EXCEPT ![e] = FALSE]
          /\ UNCHANGED <<ttl, net, cutsLeft>>
       \/ /\ Extend(e) /\ Disconnect(e)          \* executed, the reply is lost
          /\ ttl' = TTL
          /\ flag' = [flag EXCEPT ![e] = FALSE]
    /\ SleepA(e)
    /\ UNCHANGED <<owner, notify, events, phase, conf, taskB, lateLeft, stopsLeft>>

StepDown_KeepsFlag(e) ==                          \* mutant of StepDown
    /\ pcA[e] = "lost"
    /\ SleepA(e)
    /\ UNCHANGED <<redis, net, phase, conf, flag, taskB, budget>>

StepDown(e) ==
    /\ pcA[e] = "lost"
    /\ flag' = [flag EXCEPT ![e] = FALSE]
    /\ SleepA(e)
    /\ UNCHANGED <<redis, net, phase, conf, taskB, budget>>

-----------------------------------------------------------------------------
(* Task B, the keyspace listener with its polling fallback.                 *)

SleepB(e) ==
    /\ pcB' = [pcB EXCEPT ![e] = "poll"]
    /\ sleepB' = [sleepB EXCEPT ![e] = RetryEvery]

ListenConnect(e) ==
    /\ pcB[e] = "connect"
    /\ \/ /\ link[e]
          /\ open' = [open EXCEPT ![e] = @ \cup {"B"}]
          /\ pcB' = [pcB EXCEPT ![e] = "subExpired"]
          /\ UNCHANGED sleepB
       \/ /\ ~link[e]
          /\ SleepB(e)
          /\ UNCHANGED open
    /\ UNCHANGED <<redis, link, phase, conf, flag, taskA, budget>>

Subscribe(e) ==
    /\ "B" \in open[e]
    /\ \/ /\ pcB[e] = "subExpired"
          /\ pcB' = [pcB EXCEPT ![e] = "subDel"]
       \/ /\ pcB[e] = "subDel"
          /\ pcB' = [pcB EXCEPT ![e] = "listen"]
    /\ UNCHANGED <<redis, net, phase, conf, flag, taskA, sleepB, budget>>

(* The stream ends with the connection; what it had not delivered is lost.  *)
StreamEnds(e) ==
    /\ pcB[e] \in {"subExpired", "subDel", "listen"}
    /\ "B" \notin open[e]
    /\ SleepB(e)
    /\ events' = [events EXCEPT ![e] = 0]
    /\ UNCHANGED <<owner, ttl, notify, net, phase, conf, flag, taskA, budget>>

Attempt_OfLeader(e, won, notWon) ==               \* mutant of Attempt
    \/ /\ ~flag[e]
       /\ UNCHANGED <<owner, ttl, net, cutsLeft, pcB>>
    \/ /\ flag[e]
       /\ \/ Won(e) /\ pcB' = [pcB EXCEPT ![e] = won]
          \/ NotWon(e) /\ pcB' = [pcB EXCEPT ![e] = notWon]

(* One attempt of a follower; on success the flag is stored one step later. *)
Attempt(e, won, notWon) ==
    \/ /\ flag[e]
       /\ UNCHANGED <<owner, ttl, net, cutsLeft, pcB>>
    \/ /\ ~flag[e]
       /\ \/ Won(e) /\ pcB' = [pcB EXCEPT ![e] = won]
          \/ NotWon(e) /\ pcB' = [pcB EXCEPT ![e] = notWon]

HandleEvent(e) ==
    /\ pcB[e] = "listen"
    /\ events[e] > 0
    /\ events' = [events EXCEPT ![e] = @ - 1]
    /\ Attempt(e, "listenWon", "listen")
    /\ UNCHANGED <<notify, phase, conf, flag, taskA, sleepB, lateLeft, stopsLeft>>

Poll(e) ==
    /\ pcB[e] = "poll" /\ sleepB[e] = 0
    /\ sleepB' = [sleepB EXCEPT ![e] = RetryEvery]
    /\ Attempt(e, "pollWon", "poll")
    /\ UNCHANGED <<notify, events, phase, conf, flag, taskA, lateLeft, stopsLeft>>

Elected(e) ==
    /\ pcB[e] \in {"listenWon", "pollWon"}
    /\ flag' = [flag EXCEPT ![e] = TRUE]
    /\ pcB' = [pcB EXCEPT ![e] = IF @ = "listenWon" THEN "listen" ELSE "poll"]
    /\ UNCHANGED <<redis, net, phase, conf, taskA, sleepB, budget>>

-----------------------------------------------------------------------------
(* Stopping: a crash, or Ctrl-C, which releases the lock first.  The tasks  *)
(* keep running, and the flag stays set, until the process exits.           *)

ProcessGone(e) ==
    /\ phase' = [phase EXCEPT ![e] = "down"]
    /\ conf' = [conf EXCEPT ![e] = FALSE]
    /\ flag' = [flag EXCEPT ![e] = FALSE]
    /\ pcA' = [pcA EXCEPT ![e] = "off"] /\ sleepA' = [sleepA EXCEPT ![e] = 0]
    /\ pcB' = [pcB EXCEPT ![e] = "off"] /\ sleepB' = [sleepB EXCEPT ![e] = 0]
    /\ open' = [open EXCEPT ![e] = {}] /\ events' = [events EXCEPT ![e] = 0]
    /\ UNCHANGED <<owner, ttl, notify, link, lateLeft, cutsLeft>>

Crash(e) ==
    /\ phase[e] \in {"boot", "bootWon", "run"}
    /\ stopsLeft > 0
    /\ stopsLeft' = stopsLeft - 1
    /\ ProcessGone(e)

Deletes_AnyOwner(e) == link[e] /\ owner # None     \* mutant of Deletes

(* The Lua compare-and-DEL.                                                 *)
Deletes(e) == link[e] /\ owner = e

Release(e) ==
    /\ phase[e] \in {"boot", "bootWon", "run"}
    /\ stopsLeft > 0
    /\ stopsLeft' = stopsLeft - 1
    /\ phase' = [phase EXCEPT ![e] = "stopping"]
    /\ \/ Deletes(e) /\ KeyGone(OnDel)
       \/ ~Deletes(e) /\ UNCHANGED redis
    /\ UNCHANGED <<net, conf, flag, taskA, taskB, lateLeft, cutsLeft>>

Exit(e) ==
    /\ phase[e] = "stopping"
    /\ ProcessGone(e)
    /\ UNCHANGED stopsLeft

-----------------------------------------------------------------------------
(* The environment: the engine's connection, and time.                      *)

Cut(e) ==
    /\ link[e]
    /\ Disconnect(e)
    /\ UNCHANGED <<redis, phase, conf, flag, taskA, taskB, lateLeft, stopsLeft>>

Heal(e) ==
    /\ ~link[e]
    /\ link' = [link EXCEPT ![e] = TRUE]
    /\ UNCHANGED <<redis, open, phase, conf, flag, taskA, taskB, budget>>

(* The engine has a step that does not wait for time to pass.               *)
Due(e) ==
    \/ phase[e] \in {"boot", "bootWon", "stopping"}
    \/ conf[e]
    \/ pcA[e] \in {"connect", "owned", "lost"}
    \/ RenewDue(e)
    \/ pcB[e] \in {"connect", "subExpired", "subDel", "listenWon", "pollWon"}
    \/ pcB[e] = "listen" /\ (events[e] > 0 \/ "B" \notin open[e])
    \/ pcB[e] = "poll" /\ sleepB[e] = 0

Less(n) == IF n = 0 THEN 0 ELSE n - 1

Tick ==
    /\ owner # None => ttl > 0
    /\ IF \E e \in Engine : Due(e)
       THEN lateLeft > 0 /\ lateLeft' = lateLeft - 1
       ELSE UNCHANGED lateLeft
    /\ ttl' = Less(ttl)
    /\ sleepA' = [e \in Engine |-> Less(sleepA[e])]
    /\ sleepB' = [e \in Engine |-> Less(sleepB[e])]
    /\ UNCHANGED <<owner, notify, events, net, phase, conf, flag, pcA, pcB,
                   cutsLeft, stopsLeft>>

EngineStep(e) ==
    \/ EnableNotifications(e) \/ BootAttempt(e) \/ BootWon(e)
    \/ RenewConnect(e) \/ RenewSkip(e) \/ RenewGet(e) \/ RenewExtend(e) \/ StepDown(e)
    \/ ListenConnect(e) \/ Subscribe(e) \/ StreamEnds(e)
    \/ HandleEvent(e) \/ Poll(e) \/ Elected(e) \/ Exit(e)

Next ==
    \/ Expire \/ Tick
    \/ \E e \in Engine : \/ EngineStep(e) \/ Start(e) \/ Crash(e) \/ Release(e)
                         \/ Cut(e) \/ Heal(e)

Spec == Init /\ [][Next]_vars

(* Time passes, Redis expires keys, a running engine keeps taking the steps *)
(* of each of its tasks, and lost connections come back.  Nothing makes a   *)
(* process start, crash or shut down.                                       *)
Fairness ==
    /\ WF_vars(Expire) /\ WF_vars(Tick)
    /\ \A e \in Engine :
        /\ WF_vars(EnableNotifications(e)) /\ WF_vars(BootAttempt(e))
        /\ WF_vars(BootWon(e)) /\ WF_vars(Exit(e)) /\ WF_vars(Heal(e))
        /\ WF_vars(RenewConnect(e)) /\ WF_vars(RenewSkip(e) \/ RenewGet(e))
        /\ WF_vars(RenewExtend(e)) /\ WF_vars(StepDown(e))
        /\ WF_vars(ListenConnect(e)) /\ WF_vars(Subscribe(e) \/ StreamEnds(e))
        /\ WF_vars(HandleEvent(e)) /\ WF_vars(Poll(e)) /\ WF_vars(Elected(e))

FairSpec == Spec /\ Fairness

-----------------------------------------------------------------------------
(* Properties.                                                              *)

(* An engine that runs the leader-only threat tasks: its flag is set and it *)
(* is not shutting down.                                                    *)
Leads(e) == flag[e] /\ phase[e] = "run"

(* At most one engine runs the leader-only tasks (leader.rs:3).             *)
AtMostOneLeader == \A e, f \in Engine : Leads(e) /\ Leads(f) => e = f

(* No process has been late and no connection has been lost so far.         *)
Undisturbed == lateLeft = MaxLate /\ cutsLeft = MaxCuts

(* Crashes, restarts, shutdowns and start-up races alone never give two     *)
(* leaders: as long as every process is on time and reaches Redis, the 10s  *)
(* renewals keep the 30s key alive under its one owner.                     *)
ExclusiveWhileTimely == Undisturbed => AtMostOneLeader

(* A live key changes hands only when it has expired or when its own owner  *)
(* shuts down: no engine deletes or overwrites another's lock, however late *)
(* it runs (the Lua compare in release, NX in the attempts).                *)
ShutsDown(e) == phase[e] # "stopping" /\ phase[e]' = "stopping"
KeyMoves == owner \in Engine /\ owner' # owner
LegalMove == ttl = 0 \/ \E e \in Engine : e = owner /\ ShutsDown(e)

KeyChangesHands == [][KeyMoves => LegalMove]_vars

(* The election is a lease (module Lease): what this adds to the above is   *)
(* that a timely leader keeps its lease and leads until it stops, and that  *)
(* its shutdown frees the lock in the same step.                            *)
L == INSTANCE Lease
       WITH holder <- owner, left <- ttl, leaders <- {e \in Engine : Leads(e)},
            stopping <- {e \in Engine : phase[e] = "stopping"}, timely <- Undisturbed

ImplementsLease == L!Spec

(* An engine that leads without owning the key (it was paused or cut off    *)
(* past the TTL) finds out and steps down, or stops, once its renewal loop  *)
(* has connected.                                                           *)
StaleLeaderStepsDown ==
    \A e \in Engine :
        (flag[e] /\ owner # e /\ pcA[e] \notin {"off", "connect", "inactive"})
            ~> (~flag[e] \/ owner = e \/ ~Alive(e))

(* A key event that reaches a follower's subscription ends the vacancy:     *)
(* some engine leads afterwards, unless the follower itself stops.          *)
EventEndsVacancy ==
    \A e \in Engine :
        (pcB[e] = "listen" /\ events[e] > 0)
            ~> ((\E f \in Engine : flag[f]) \/ ~Alive(e))

(* leader.rs:10, "If leader dies, TTL expires, new race begins              *)
(* automatically": while some engine keeps running, a vacancy ends.         *)
VacancyEnds ==
    (\E e \in Engine : phase[e] = "run")
        ~> ((\E e \in Engine : flag[e]) \/ (\A e \in Engine : phase[e] # "run"))
=============================================================================
