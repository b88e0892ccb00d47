----------------------------- MODULE EventStore -----------------------------
(***************************************************************************)
(* From the ndr-events topic to the ndr_events table: the Kafka consumer   *)
(* of each ndr-engine, its bounded channel, and the batch writer that      *)
(* drops events already seen (Redis SET NX) and inserts the rest in        *)
(* ClickHouse (src/rust/ndr-engine/src/consumer/mod.rs).                   *)
(*                                                                         *)
(* One topic partition and one tenant.  An event is its fingerprint: the   *)
(* same event twice in the topic is the same log line delivered twice.     *)
(* The engines are the members of one consumer group with auto-commit; the *)
(* order of the events inside a batch does not matter to the table, so a   *)
(* batch is a number of copies per event.                                  *)
(***************************************************************************)
EXTENDS Naturals, Sequences

CONSTANTS Event, Engine,
          None,          \* no member has the partition; no offset committed
          ChanCap,       \* capacity of the channel to the batch writer
          MaxTopic,      \* bound: messages published
          MaxRevokes,    \* bound: rebalances and engine crashes
          MaxRedis,      \* bound: failed de-duplication calls, expired marks
          MaxInsert      \* bound: failed inserts

ASSUME StoreAssumption ==
    /\ None \notin Engine /\ None \notin Nat
    /\ ChanCap \in Nat \ {0}
    /\ MaxTopic \in Nat /\ MaxRevokes \in Nat /\ MaxRedis \in Nat /\ MaxInsert \in Nat

VARIABLES
    topic,      \* the partition's log
    committed,  \* the group's committed offset: messages before it are done
    member,     \* the engine that has the partition
    position,   \* how many messages it has received
    chan,       \* [Engine -> Seq(Event)] channel to the batch writer
    buf,        \* [Engine -> Copies] the batch writer's buffer
    kept,       \* [Engine -> Copies] what is being inserted
    writer,     \* [Engine -> {"collect", "dedup", "insert"}]
    seen,       \* Redis: the fingerprints remembered
    rows,       \* [Event -> Nat] rows of the event in ndr_events
    revokesLeft, redisLeft, insertLeft

kafka  == <<topic, committed, member, position>>
engine == <<chan, buf, kept, writer>>
budget == <<revokesLeft, redisLeft, insertLeft>>
vars   == <<kafka, engine, seen, rows, budget>>

Copies == [Event -> Nat]
NoCopies == [e \in Event |-> 0]

TypeOK ==
    /\ topic \in Seq(Event)
    /\ committed \in Nat \cup {None}
    /\ member \in Engine \cup {None}
    /\ position \in Nat
    /\ chan \in [Engine -> Seq(Event)]
    /\ buf \in [Engine -> Copies]
    /\ kept \in [Engine -> Copies]
    /\ writer \in [Engine -> {"collect", "dedup", "insert"}]
    /\ seen \in SUBSET Event
    /\ rows \in Copies
    /\ revokesLeft \in 0..MaxRevokes
    /\ redisLeft \in 0..MaxRedis
    /\ insertLeft \in 0..MaxInsert

Init ==
    /\ topic = << >> /\ committed = None /\ member = None /\ position = 0
    /\ chan = [g \in Engine |-> << >>]
    /\ buf = [g \in Engine |-> NoCopies]
    /\ kept = [g \in Engine |-> NoCopies]
    /\ writer = [g \in Engine |-> "collect"]
    /\ seen = {}
    /\ rows = NoCopies
    /\ revokesLeft = MaxRevokes /\ redisLeft = MaxRedis /\ insertLeft = MaxInsert

-----------------------------------------------------------------------------
(* Kafka: the log, and which member of the group reads it from where.       *)

(* An ingest engine's producer appends; a sensor's retry appends again.     *)
Publish(e) ==
    /\ Len(topic) < MaxTopic
    /\ topic' = Append(topic, e)
    /\ UNCHANGED <<committed, member, position, engine, seen, rows, budget>>

Assign_NoReset(g) ==                              \* mutant of Assign
    /\ member = None
    /\ member' = g
    /\ position' = committed
    /\ UNCHANGED <<topic, committed, engine, seen, rows, budget>>

(* auto.offset.reset = latest: without a committed offset, from the end.    *)
Assign(g) ==
    /\ member = None
    /\ member' = g
    /\ position' = IF committed = None THEN Len(topic) ELSE committed
    /\ UNCHANGED <<topic, committed, engine, seen, rows, budget>>

(* enable.auto.commit: the offset of what recv() has returned.              *)
AutoCommit ==
    /\ member # None
    /\ committed' = position
    /\ UNCHANGED <<topic, member, position, engine, seen, rows, budget>>

(* The group rebalances.  An orderly revocation commits; a member that the  *)
(* broker timed out does not.                                               *)
Revoke ==
    /\ member # None
    /\ revokesLeft > 0
    /\ revokesLeft' = revokesLeft - 1
    /\ committed' \in {committed, position}
    /\ member' = None
    /\ UNCHANGED <<topic, position, engine, seen, rows, redisLeft, insertLeft>>

-----------------------------------------------------------------------------
(* The consumer loop: one message to the channel, dropped when it is full.  *)

Receive(g) ==
    /\ member = g
    /\ position < Len(topic)
    /\ position' = position + 1
    /\ chan' = [chan EXCEPT ![g] =
                  IF Len(@) < ChanCap THEN Append(@, topic[position + 1]) ELSE @]
    /\ UNCHANGED <<topic, committed, member, buf, kept, writer, seen, rows, budget>>

-----------------------------------------------------------------------------
(* The batch writer.  While a flush is awaited it takes nothing more from   *)
(* the channel.                                                             *)

Collect(g) ==
    /\ writer[g] = "collect"
    /\ chan[g] # << >>
    /\ buf' = [buf EXCEPT ![g][Head(chan[g])] = @ + 1]
    /\ chan' = [chan EXCEPT ![g] = Tail(@)]
    /\ UNCHANGED <<kafka, kept, writer, seen, rows, budget>>

Flush_WhenFull(g) ==                              \* mutant of Flush
    /\ writer[g] = "collect"
    /\ \E e \in Event : buf[g][e] > 1
    /\ writer' = [writer EXCEPT ![g] = "dedup"]
    /\ UNCHANGED <<kafka, chan, buf, kept, seen, rows, budget>>

Flush(g) ==
    /\ writer[g] = "collect"
    /\ buf[g] # NoCopies
    /\ writer' = [writer EXCEPT ![g] = "dedup"]
    /\ UNCHANGED <<kafka, chan, buf, kept, seen, rows, budget>>

FirstTime_NoNX(g) == buf[g]                       \* mutants of FirstTime
FirstTime_Inverted(g) == [e \in Event |-> IF buf[g][e] > 0 /\ e \in seen THEN 1 ELSE 0]

(* The events of the buffer whose SET NX succeeds: one copy of each that    *)
(* was not remembered.                                                      *)
FirstTime(g) == [e \in Event |-> IF buf[g][e] > 0 /\ e \notin seen THEN 1 ELSE 0]
Buffered(g) == {e \in Event : buf[g][e] > 0}
Marked(g) == seen \cup Buffered(g)

(* The pipelined SET NX; on an error every event is kept, and any of the    *)
(* commands may have run.                                                   *)
Dedup(g) ==
    /\ writer[g] = "dedup"
    /\ \/ /\ kept' = [kept EXCEPT ![g] = FirstTime(g)]
          /\ seen' = Marked(g)
          /\ UNCHANGED redisLeft
       \/ /\ redisLeft > 0
          /\ redisLeft' = redisLeft - 1
          /\ kept' = [kept EXCEPT ![g] = buf[g]]
          /\ \E S \in SUBSET Buffered(g) : seen' = seen \cup S
    /\ buf' = [buf EXCEPT ![g] = NoCopies]
    /\ writer' = [writer EXCEPT ![g] = IF (kept')[g] = NoCopies THEN "collect" ELSE "insert"]
    /\ UNCHANGED <<kafka, chan, rows, revokesLeft, insertLeft>>

(* The insert; an error is logged, and the rows may be in the table or not. *)
Insert(g) ==
    /\ writer[g] = "insert"
    /\ \/ /\ rows' = [e \in Event |-> rows[e] + kept[g][e]]
          /\ UNCHANGED insertLeft
       \/ /\ insertLeft > 0
          /\ insertLeft' = insertLeft - 1
          /\ UNCHANGED rows
    /\ kept' = [kept EXCEPT ![g] = NoCopies]
    /\ writer' = [writer EXCEPT ![g] = "collect"]
    /\ UNCHANGED <<kafka, chan, buf, seen, revokesLeft, redisLeft>>

-----------------------------------------------------------------------------
(* The engine's process dies with everything it held and restarts; Redis    *)
(* forgets a fingerprint after EVENT_DEDUP_TTL_SECS.                        *)

Crash(g) ==
    /\ revokesLeft > 0
    /\ revokesLeft' = revokesLeft - 1
    /\ member' = IF member = g THEN None ELSE member
    /\ chan' = [chan EXCEPT ![g] = << >>]
    /\ buf' = [buf EXCEPT ![g] = NoCopies]
    /\ kept' = [kept EXCEPT ![g] = NoCopies]
    /\ writer' = [writer EXCEPT ![g] = "collect"]
    /\ UNCHANGED <<topic, committed, position, seen, rows, redisLeft, insertLeft>>

Forget(e) ==
    /\ e \in seen
    /\ redisLeft > 0
    /\ redisLeft' = redisLeft - 1
    /\ seen' = seen \ {e}
    /\ UNCHANGED <<kafka, engine, rows, revokesLeft, insertLeft>>

Next ==
    \/ AutoCommit \/ Revoke
    \/ \E e \in Event : Publish(e) \/ Forget(e)
    \/ \E g \in Engine : \/ Assign(g) \/ Receive(g) \/ Collect(g) \/ Flush(g)
                         \/ Dedup(g) \/ Insert(g) \/ Crash(g)

Spec == Init /\ [][Next]_vars

(* The group assigns its partition, a live consumer keeps receiving and its *)
(* batch writer keeps taking from the channel and ticking.                  *)
Fairness ==
    /\ WF_vars(\E g \in Engine : Assign(g))
    /\ \A g \in Engine : /\ WF_vars(Receive(g)) /\ WF_vars(Collect(g))
                         /\ WF_vars(Flush(g)) /\ WF_vars(Dedup(g)) /\ WF_vars(Insert(g))

FairSpec == Spec /\ Fairness

-----------------------------------------------------------------------------
(* Properties.                                                              *)

(* De-duplication was never in error and no fingerprint has expired.        *)
RedisHealthy == redisLeft = MaxRedis

(* However often a message is redelivered, to whichever engines, and        *)
(* whatever crashes, an event has at most one row, as long as Redis answers *)
(* and the event comes back within the TTL.                                 *)
StoredOnce == RedisHealthy => \A e \in Event : rows[e] <= 1

(* An event the writer of some engine holds for insertion.                  *)
InFlight(e) == \E g \in Engine : writer[g] = "insert" /\ kept[g][e] > 0

(* The de-duplication of g, not its crash, drops all its copies of e.       *)
Drops(g, e) ==
    /\ writer[g] = "dedup" /\ (writer')[g] # "dedup" /\ revokesLeft' = revokesLeft
    /\ buf[g][e] > 0 /\ (kept')[g][e] = 0

NoLoss == revokesLeft = MaxRevokes /\ insertLeft = MaxInsert

(* Without a crash or a failed insert, de-duplication drops an event only   *)
(* when its row exists or is being inserted by some engine: a mark in Redis *)
(* is never the only trace of an event.                                     *)
DropsOnlyStored ==
    [][ NoLoss => \A g \in Engine, e \in Event :
                      Drops(g, e) => rows[e] > 0 \/ InFlight(e) ]_vars

(* The way to ndr_events is that of module EventTable: a row is written     *)
(* only for an event of the topic that one engine, while Redis is healthy,  *)
(* holds for insertion, and what is held is written unless an engine        *)
(* crashes or the insert fails.                                             *)
T == INSTANCE EventTable
       WITH published <- {topic[i] : i \in DOMAIN topic},
            claimed <- {e \in Event : InFlight(e)}, table <- rows,
            exact <- RedisHealthy, intact <- NoLoss

ImplementsTable == T!Spec

(* An event that reached the channel gets its row unless an engine crashes  *)
(* or an insert fails, whatever Redis does meanwhile.                       *)
QueuedIsStored ==
    \A g \in Engine, e \in Event :
        (\E i \in 1..Len(chan[g]) : chan[g][i] = e) ~> (rows[e] > 0 \/ ~NoLoss)

(* consumer/mod.rs:39-41, "Fails OPEN: on any Redis problem every event is  *)
(* kept, so this can never lose data - at worst a duplicate gets through":  *)
(* an event that is dropped has been stored.                                *)
NeverLosesData ==
    [][ \A g \in Engine, e \in Event : Drops(g, e) => rows[e] > 0 \/ InFlight(e) ]_vars
=============================================================================
