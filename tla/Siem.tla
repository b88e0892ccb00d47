--------------------------------- MODULE Siem ---------------------------------
(***************************************************************************)
(* siem-engine between the receivers and siem_alerts.  Pipeline publishes  *)
(* each log on the partition of its tenant.  One consumer group owns the   *)
(* partition: a storage consumer that inserts into siem_logs and one or    *)
(* more correlation consumers that evaluate the rules, all of the same     *)
(* group.  A log is abstracted to its entity and the rules it matches.     *)
(***************************************************************************)
EXTENDS Integers, Sequences, FiniteSets, SequencesExt

CONSTANTS
  Logs,
  EntityOf,    \* entity_from_event
  MatchesOf,   \* what RuleEngine::evaluate returns, a set of rules
  Rules,
  Storage,     \* the ClickHouseConsumers
  Correlation, \* the correlation consumers
  Nobody, NoJob, NoAlert,
  DedupTTL,    \* DEDUP_TTL_SECS
  MaxTime,     \* bound on the clock
  MaxFaults    \* bound on failed calls, crashes and rebalances

VARIABLES
  now,
  topic,       \* siem-logs
  owner, position, committed,
  marks,       \* siem:processed of the offsets
  seen,        \* siem:dedup of the log ids
  stored,      \* siem_logs
  job,         \* what each correlation consumer is about
  silenced,    \* siem_suppression_rules, as the rules they name
  cache,       \* SuppressionCache of each correlation consumer
  dedup,       \* siem:alert:dedup of a rule and an entity
  alerts,      \* siem_alerts
  faults

vars == <<now, topic, owner, position, committed, marks, seen, stored, job, silenced,
          cache, dedup, alerts, faults>>

group == <<owner, position, committed>>
Consumers == Storage \union Correlation
Entities == {EntityOf[l] : l \in Logs}
NoKey == [alert |-> NoAlert, until |-> 0]

Init ==
  /\ now = 1
  /\ topic = <<>>
  /\ owner = Nobody /\ position = 1 /\ committed = 0
  /\ marks = {} /\ seen = {} /\ stored = {}
  /\ job = [c \in Correlation |-> NoJob]
  /\ silenced = {} /\ cache = [c \in Correlation |-> {}]
  /\ dedup = [r \in Rules |-> [e \in Entities |-> NoKey]]
  /\ alerts = {}
  /\ faults = 0

Fault == faults < MaxFaults /\ faults' = faults + 1
NoFault == UNCHANGED faults

-----------------------------------------------------------------------------
(* The producer.                                                           *)

(* KafkaPublisher writes every log as a SiemEvent.                         *)
ToSiemEvent(l) == [log |-> l, format |-> "SiemEvent"]

(* Pipeline::run: a log that Kafka does not take is gone.                  *)
Publish(l) ==
  /\ \A i \in DOMAIN topic : topic[i].log # l
  /\ topic' = Append(topic, ToSiemEvent(l))
  /\ UNCHANGED <<now, group, marks, seen, stored, job, silenced, cache, dedup, alerts, faults>>

-----------------------------------------------------------------------------
(* The group.  The partition has one owner; a new one starts after the     *)
(* last commit or, if there is none, where auto.offset.reset says: a       *)
(* storage consumer at the first log, a correlation consumer at the end.   *)

StartOf(c) ==
  IF committed > 0 THEN committed
  ELSE IF c \in Storage THEN 1 ELSE Len(topic) + 1

Assign(c) ==
  /\ c # owner
  /\ owner' = c /\ position' = StartOf(c)
  /\ IF owner = Nobody THEN NoFault ELSE Fault
  /\ UNCHANGED <<now, topic, committed, marks, seen, stored, job, silenced, cache, dedup, alerts>>

(* enable.auto.commit of the correlation consumers: whatever was handed    *)
(* over, done or not.                                                      *)
AutoCommit ==
  /\ owner \in Correlation /\ committed # position /\ position > 1
  /\ committed' = position
  /\ UNCHANGED <<now, topic, owner, position, marks, seen, stored, job, silenced, cache, dedup,
                 alerts, faults>>

Deliverable(c) == owner = c /\ position <= Len(topic)

-----------------------------------------------------------------------------
(* ClickHouseConsumer::run.  What is not an OcsfEvent is reported and      *)
(* committed.  A failed insert is not committed, and the consumer goes on. *)

Decodes(c, m) == m.format = IF c \in Storage THEN "OcsfEvent" ELSE "SiemEvent"

Store(c) ==
  LET m == topic[position] IN
  /\ c \in Storage /\ Deliverable(c)
  /\ position' = position + 1
  /\ \/ /\ ~ Decodes(c, m) \/ m.log \in seen
        /\ committed' = position + 1 /\ NoFault /\ UNCHANGED <<seen, stored>>
     \/ /\ Decodes(c, m) /\ m.log \notin seen
        /\ \/ /\ NoFault /\ committed' = position + 1
              /\ seen' = seen \union {m.log} /\ stored' = stored \union {m.log}
           \/ Fault /\ UNCHANGED <<committed, seen, stored>>
  /\ UNCHANGED <<now, topic, owner, marks, job, silenced, cache, dedup, alerts>>

-----------------------------------------------------------------------------
(* run_consumer_loop of a correlation consumer, one message at a time.     *)

Receive(c) ==
  LET m == topic[position] IN
  /\ c \in Correlation /\ Deliverable(c) /\ job[c] = NoJob
  /\ position' = position + 1
  /\ IF position \in marks \/ ~ Decodes(c, m)
     THEN UNCHANGED job
     ELSE job' = [job EXCEPT ![c] = [offset |-> position, log |-> m.log,
                                     todo |-> MatchesOf[m.log], write |-> NoAlert]]
  /\ marks' = IF Decodes(c, m) THEN marks ELSE marks \union {position}
  /\ UNCHANGED <<now, topic, owner, committed, seen, stored, silenced, cache, dedup, alerts, faults>>

(* The rules in the order of the engine.                                   *)
Working(c, r) ==
  /\ job[c] # NoJob /\ job[c].write = NoAlert
  /\ r = CHOOSE q \in job[c].todo : TRUE

Done(c, r) == job' = [job EXCEPT ![c].todo = @ \ {r}]

Suppress(c, r) ==
  /\ job[c] # NoJob /\ job[c].todo # {} /\ Working(c, r)
  /\ r \in cache[c]
  /\ Done(c, r)
  /\ UNCHANGED <<now, topic, group, marks, seen, stored, silenced, cache, dedup, alerts, faults>>

NewAlert(c, r, checked) ==
  [by |-> c, log |-> job[c].log, rule |-> r, entity |-> EntityOf[job[c].log], at |-> now,
   checked |-> checked]

(* check_or_insert, which also renews the key of a repeat.                 *)
Live_Ever(r, e) == FALSE                                      \* mutant
Live(r, e) == now < dedup[r][e].until

CheckOrInsert(c, r) ==
  LET e == EntityOf[job[c].log] IN
  /\ job[c] # NoJob /\ job[c].todo # {} /\ Working(c, r)
  /\ r \notin cache[c]
  /\ \/ /\ NoFault
        /\ IF Live(r, e)
           THEN /\ dedup' = [dedup EXCEPT ![r][e].until = now + DedupTTL]
                /\ Done(c, r)  \* update_alert of dedup[r][e].alert, if it is there
           ELSE LET a == NewAlert(c, r, TRUE) IN
                /\ dedup' = [dedup EXCEPT ![r][e] = [alert |-> a, until |-> now + DedupTTL]]
                /\ job' = [job EXCEPT ![c].write = a]
     \/ /\ Fault /\ UNCHANGED dedup   \* without an answer: an alert of its own
        /\ job' = [job EXCEPT ![c].write = NewAlert(c, r, FALSE)]
  /\ UNCHANGED <<now, topic, group, marks, seen, stored, silenced, cache, alerts>>

WriteAlert(c) ==
  /\ job[c] # NoJob /\ job[c].write # NoAlert
  /\ \/ NoFault /\ alerts' = alerts \union {job[c].write}
     \/ Fault /\ UNCHANGED alerts
  /\ job' = [job EXCEPT ![c].todo = @ \ {job[c].write.rule}, ![c].write = NoAlert]
  /\ UNCHANGED <<now, topic, group, marks, seen, stored, silenced, cache, dedup>>

(* mark_offset_processed, after the last rule.                             *)
Finished(c) == job[c] # NoJob /\ job[c].todo = {}

Mark(c) ==
  /\ Finished(c)
  /\ \/ NoFault /\ marks' = marks \union {job[c].offset}
     \/ Fault /\ UNCHANGED marks
  /\ job' = [job EXCEPT ![c] = NoJob]
  /\ UNCHANGED <<now, topic, group, seen, stored, silenced, cache, dedup, alerts>>

(* A consumer stops with what it is about, and starts again.               *)
Crash(c) ==
  /\ owner = c \/ (c \in Correlation /\ job[c] # NoJob)
  /\ Fault
  /\ job' = [d \in Correlation |-> IF d = c THEN NoJob ELSE job[d]]
  /\ cache' = [d \in Correlation |-> IF d = c THEN silenced ELSE cache[d]]
  /\ owner' = IF owner = c THEN Nobody ELSE owner
  /\ UNCHANGED <<now, topic, position, committed, marks, seen, stored, silenced, dedup, alerts>>

-----------------------------------------------------------------------------
(* A suppression rule is added or taken back, and SuppressionCache reads   *)
(* them every 300 s.                                                       *)
Silence(r) ==
  /\ silenced' = IF r \in silenced THEN silenced \ {r} ELSE silenced \union {r}
  /\ Fault
  /\ UNCHANGED <<now, topic, group, marks, seen, stored, job, cache, dedup, alerts>>

Refresh(c) ==
  /\ cache[c] # silenced
  /\ cache' = [cache EXCEPT ![c] = silenced]
  /\ UNCHANGED <<now, topic, group, marks, seen, stored, job, silenced, dedup, alerts, faults>>

Tick ==
  /\ now < MaxTime /\ now' = now + 1
  /\ UNCHANGED <<topic, group, marks, seen, stored, job, silenced, cache, dedup, alerts, faults>>

Next ==
  \/ \E l \in Logs : Publish(l)
  \/ \E c \in Consumers : Assign(c) \/ Store(c) \/ Receive(c) \/ Crash(c)
  \/ AutoCommit
  \/ \E c \in Correlation :
       \/ \E r \in Rules : Suppress(c, r) \/ CheckOrInsert(c, r)
       \/ WriteAlert(c) \/ Mark(c) \/ Refresh(c)
  \/ \E r \in Rules : Silence(r)
  \/ Tick

Spec == Init /\ [][Next]_vars

-----------------------------------------------------------------------------
(* Types of the state.                                                     *)
TypeOK ==
  /\ now \in 1..MaxTime /\ faults \in 0..MaxFaults
  /\ owner \in Consumers \union {Nobody}
  /\ position \in 1..(Len(topic) + 1) /\ committed \in 0..(Len(topic) + 1)
  /\ marks \subseteq DOMAIN topic /\ stored \subseteq seen /\ seen \subseteq Logs
  /\ \A c \in Correlation : cache[c] \subseteq Rules

(* Two alerts of one rule about one entity are at least the five minutes   *)
(* of the deduplication apart, whichever consumers raised them, through    *)
(* rebalances, redeliveries and crashes, as long as Valkey answered        *)
(* (check_or_insert).                                                      *)
AlertsAreApart ==
  \A a, b \in alerts :
    a # b /\ a.checked /\ b.checked /\ a.rule = b.rule /\ a.entity = b.entity =>
      a.at + DedupTTL <= b.at \/ b.at + DedupTTL <= a.at

(* "each message processed by exactly ONE replica", "reads siem-logs Kafka *)
(* topic, inserts into siem_logs table" (clickhouse_consumer.rs): what the *)
(* group is past is in the table.                                          *)
LogsAreStored == \A i \in DOMAIN topic : i < committed => topic[i].log \in stored

-----------------------------------------------------------------------------
(* Statements that this code does not keep: TLC finds a counterexample to  *)
(* each (README).                                                          *)

(* "consume, evaluate rules": what the group is past was evaluated, or is  *)
(* being.                                                                  *)
LogsAreEvaluated ==
  \A i \in DOMAIN topic : i < committed =>
    i \in marks \/ \E c \in Correlation : job[c] # NoJob /\ job[c].offset = i

(* "Idempotent: Valkey offset tracking prevents duplicate processing on    *)
(* restart" (consumer.rs): one log raises one alert of a rule.             *)
OneAlertPerLog ==
  \A a, b \in alerts : a.log = b.log /\ a.rule = b.rule => a = b

(* A repeat is added to an alert that exists or is being written.          *)
KeyHasAlert ==
  \A r \in Rules, e \in Entities : Live(r, e) =>
    \/ dedup[r][e].alert \in alerts
    \/ \E c \in Correlation : job[c] # NoJob /\ job[c].write = dedup[r][e].alert
=============================================================================
