-------------------------- MODULE EventStoreProofs --------------------------
(***************************************************************************)
(* Proofs about EventStore, for any events, engines, channel capacity and  *)
(* bounds: type correctness, that an event is stored at most once while    *)
(* Redis is healthy, and that de-duplication drops only what is stored     *)
(* while no engine crashes and no insert fails.                            *)
(***************************************************************************)
EXTENDS EventStore, TLAPS

LEMMA TypeInit == Init => TypeOK
  <1> SUFFICES ASSUME Init PROVE TypeOK
    OBVIOUS
  <1> USE StoreAssumption DEF StoreAssumption, Init, Copies, NoCopies
  <1>1. topic \in Seq(Event) /\ committed \in Nat \cup {None} /\ position \in Nat
    OBVIOUS
  <1>2. member \in Engine \cup {None} /\ seen \in SUBSET Event /\ rows \in Copies
    OBVIOUS
  <1>3. chan \in [Engine -> Seq(Event)]
    OBVIOUS
  <1>4. buf \in [Engine -> Copies] /\ kept \in [Engine -> Copies]
    OBVIOUS
  <1>5. writer \in [Engine -> {"collect", "dedup", "insert"}]
    OBVIOUS
  <1>6. revokesLeft \in 0..MaxRevokes /\ redisLeft \in 0..MaxRedis
    OBVIOUS
  <1>7. insertLeft \in 0..MaxInsert
    OBVIOUS
  <1>8. QED
    BY <1>1, <1>2, <1>3, <1>4, <1>5, <1>6, <1>7 DEF TypeOK

(* One more copy of an event in a bag, and one failure less in a budget.    *)
LEMMA OneMoreCopy ==
    ASSUME NEW bag \in Copies, NEW e \in Event
    PROVE  [bag EXCEPT ![e] = bag[e] + 1] \in Copies
  BY DEF Copies

LEMMA OneLess ==
    ASSUME NEW max \in Nat, NEW left \in 0..max, left > 0
    PROVE  left - 1 \in 0..max
  OBVIOUS

LEMMA TypeStep == TypeOK /\ [Next]_vars => TypeOK'
  <1> SUFFICES ASSUME TypeOK, [Next]_vars PROVE TypeOK'
    OBVIOUS
  <1> USE StoreAssumption DEF StoreAssumption, TypeOK, Copies, NoCopies, kafka, engine, budget
  <1>1. CASE AutoCommit
    BY <1>1 DEF AutoCommit
  <1>2. CASE Revoke
    BY <1>2 DEF Revoke
  <1>3. ASSUME NEW e \in Event, Publish(e) PROVE TypeOK'
    BY <1>3 DEF Publish
  <1>4. ASSUME NEW e \in Event, Forget(e) PROVE TypeOK'
    BY <1>4 DEF Forget
  <1>5. ASSUME NEW g \in Engine, Assign(g) PROVE TypeOK'
    BY <1>5 DEF Assign
  <1>6. ASSUME NEW g \in Engine, Receive(g) PROVE TypeOK'
    <2>1. topic[position + 1] \in Event
      BY <1>6 DEF Receive
    <2>2. chan' \in [Engine -> Seq(Event)]
      BY <1>6, <2>1 DEF Receive
    <2>3. position' \in Nat
      BY <1>6 DEF Receive
    <2>4. UNCHANGED <<topic, committed, member, buf, kept, writer, seen, rows, budget>>
      BY <1>6 DEF Receive
    <2>5. QED
      BY <2>2, <2>3, <2>4
  <1>7. ASSUME NEW g \in Engine, Collect(g) PROVE TypeOK'
    <2>1. Head(chan[g]) \in Event /\ Tail(chan[g]) \in Seq(Event)
      BY <1>7 DEF Collect
    <2>2. buf[g] \in Copies
      OBVIOUS
    <2>3. buf' \in [Engine -> Copies]
      <3>1. [buf[g] EXCEPT ![Head(chan[g])] = buf[g][Head(chan[g])] + 1] \in Copies
        BY <2>1, <2>2, OneMoreCopy
      <3>2. buf' = [buf EXCEPT ![g] = [buf[g] EXCEPT ![Head(chan[g])] = buf[g][Head(chan[g])] + 1]]
        BY <1>7 DEF Collect
      <3>3. QED
        BY <3>1, <3>2
    <2>4. chan' \in [Engine -> Seq(Event)]
      BY <1>7, <2>1 DEF Collect
    <2>5. QED
      BY <1>7, <2>3, <2>4 DEF Collect
  <1>8. ASSUME NEW g \in Engine, Flush(g) PROVE TypeOK'
    BY <1>8 DEF Flush
  <1>9. ASSUME NEW g \in Engine, Dedup(g) PROVE TypeOK'
    <2>1. FirstTime(g) \in Copies /\ buf[g] \in Copies /\ NoCopies \in Copies
      BY DEF FirstTime
    <2>2. kept' \in [Engine -> Copies]
      BY <1>9, <2>1 DEF Dedup
    <2>3. buf' \in [Engine -> Copies]
      BY <1>9, <2>1 DEF Dedup
    <2>4. writer' \in [Engine -> {"collect", "dedup", "insert"}]
      BY <1>9 DEF Dedup
    <2>5. seen' \in SUBSET Event
      BY <1>9 DEF Dedup, Marked, Buffered
    <2>6. redisLeft' \in 0..MaxRedis
      BY <1>9 DEF Dedup
    <2>7. UNCHANGED <<kafka, chan, rows, revokesLeft, insertLeft>>
      BY <1>9 DEF Dedup
    <2>8. QED
      BY <2>2, <2>3, <2>4, <2>5, <2>6, <2>7
  <1>10. ASSUME NEW g \in Engine, Insert(g) PROVE TypeOK'
    <2>1. \A e \in Event : rows[e] + kept[g][e] \in Nat
      OBVIOUS
    <2>2. rows' \in Copies
      BY <1>10, <2>1 DEF Insert
    <2>3. kept' \in [Engine -> Copies]
      BY <1>10 DEF Insert
    <2>4. insertLeft' \in 0..MaxInsert
      <3>1. insertLeft' = insertLeft \/ (insertLeft > 0 /\ insertLeft' = insertLeft - 1)
        BY <1>10 DEF Insert
      <3>2. QED
        BY <3>1, OneLess
    <2>5. writer' \in [Engine -> {"collect", "dedup", "insert"}]
      BY <1>10 DEF Insert
    <2>6. UNCHANGED <<kafka, chan, buf, seen, revokesLeft, redisLeft>>
      BY <1>10 DEF Insert
    <2>7. QED
      BY <2>2, <2>3, <2>4, <2>5, <2>6
  <1>11. ASSUME NEW g \in Engine, Crash(g) PROVE TypeOK'
    BY <1>11 DEF Crash
  <1>12. CASE UNCHANGED vars
    BY <1>12 DEF vars
  <1>13. QED
    BY <1>1, <1>2, <1>3, <1>4, <1>5, <1>6, <1>7, <1>8, <1>9, <1>10, <1>11,
       <1>12
    DEF Next

(* Every variable keeps its type: the position in the log stays an offset   *)
(* whichever engine takes the partition over.                               *)
THEOREM StoreTypeCorrect == Spec => []TypeOK
  BY TypeInit, TypeStep, PTL DEF Spec

-----------------------------------------------------------------------------
(* At most one row.  While Redis is healthy, an event not remembered is     *)
(* nowhere downstream of de-duplication, and one that is being inserted is  *)
(* inserted by one engine, once, for the first time.                        *)

Once(e) ==
    /\ e \notin seen => rows[e] = 0 /\ \A g \in Engine : kept[g][e] = 0
    /\ rows[e] <= 1
    /\ \A g \in Engine : kept[g][e] > 0 =>
          /\ kept[g][e] = 1 /\ rows[e] = 0
          /\ \A h \in Engine : kept[h][e] > 0 => h = g

AllOnce == \A e \in Event : Once(e)

OnceInv == TypeOK /\ (RedisHealthy => AllOnce)

LEMMA HealthStep == TypeOK /\ [Next]_vars /\ RedisHealthy' => RedisHealthy
  <1> SUFFICES ASSUME TypeOK, [Next]_vars, RedisHealthy' PROVE RedisHealthy
    OBVIOUS
  <1> USE StoreAssumption DEF StoreAssumption, TypeOK, budget, RedisHealthy
  <1>1. CASE AutoCommit
    BY <1>1 DEF AutoCommit
  <1>2. CASE Revoke
    BY <1>2 DEF Revoke
  <1>3. ASSUME NEW e \in Event, Publish(e) PROVE RedisHealthy
    BY <1>3 DEF Publish
  <1>4. ASSUME NEW e \in Event, Forget(e) PROVE RedisHealthy
    BY <1>4 DEF Forget
  <1>5. ASSUME NEW g \in Engine, Assign(g) PROVE RedisHealthy
    BY <1>5 DEF Assign
  <1>6. ASSUME NEW g \in Engine, Receive(g) PROVE RedisHealthy
    BY <1>6 DEF Receive
  <1>7. ASSUME NEW g \in Engine, Collect(g) PROVE RedisHealthy
    BY <1>7 DEF Collect
  <1>8. ASSUME NEW g \in Engine, Flush(g) PROVE RedisHealthy
    BY <1>8 DEF Flush
  <1>9. ASSUME NEW g \in Engine, Dedup(g) PROVE RedisHealthy
    BY <1>9 DEF Dedup, FirstTime, Marked, Buffered
  <1>10. ASSUME NEW g \in Engine, Insert(g) PROVE RedisHealthy
    BY <1>10 DEF Insert
  <1>11. ASSUME NEW g \in Engine, Crash(g) PROVE RedisHealthy
    BY <1>11 DEF Crash
  <1>12. CASE UNCHANGED vars
    BY <1>12 DEF vars
  <1>13. QED
    BY <1>1, <1>2, <1>3, <1>4, <1>5, <1>6, <1>7, <1>8, <1>9, <1>10, <1>11,
       <1>12
    DEF Next

LEMMA OnceStep ==
  TypeOK /\ AllOnce /\ RedisHealthy /\ RedisHealthy' /\ [Next]_vars => AllOnce'
  <1> SUFFICES ASSUME TypeOK, AllOnce, RedisHealthy, RedisHealthy', [Next]_vars
               PROVE  AllOnce'
    OBVIOUS
  <1> USE StoreAssumption
      DEF StoreAssumption, TypeOK, Copies, NoCopies, kafka, engine, budget,
          RedisHealthy, AllOnce, Once
  <1>1. CASE AutoCommit
    BY <1>1 DEF AutoCommit
  <1>2. CASE Revoke
    BY <1>2 DEF Revoke
  <1>3. ASSUME NEW e \in Event, Publish(e) PROVE AllOnce'
    BY <1>3 DEF Publish
  <1>4. ASSUME NEW e \in Event, Forget(e) PROVE AllOnce'
    BY <1>4 DEF Forget
  <1>5. ASSUME NEW g \in Engine, Assign(g) PROVE AllOnce'
    BY <1>5 DEF Assign
  <1>6. ASSUME NEW g \in Engine, Receive(g) PROVE AllOnce'
    BY <1>6 DEF Receive
  <1>7. ASSUME NEW g \in Engine, Collect(g) PROVE AllOnce'
    BY <1>7 DEF Collect
  <1>8. ASSUME NEW g \in Engine, Flush(g) PROVE AllOnce'
    BY <1>8 DEF Flush
  <1>9. ASSUME NEW g \in Engine, Dedup(g) PROVE AllOnce'
    <2>1. /\ kept' = [kept EXCEPT ![g] = FirstTime(g)]
          /\ seen' = Marked(g) /\ rows' = rows
      BY <1>9 DEF Dedup
    <2>2. \A e \in Event : (kept')[g][e] = IF buf[g][e] > 0 /\ e \notin seen THEN 1 ELSE 0
      BY <2>1 DEF FirstTime
    <2>3. \A h \in Engine : h # g => (kept')[h] = kept[h]
      BY <2>1
    <2>4. \A e \in Event : e \in seen' <=> e \in seen \/ buf[g][e] > 0
      BY <2>1 DEF Marked, Buffered
    <2>5. QED
      BY <2>1, <2>2, <2>3, <2>4
  <1>10. ASSUME NEW g \in Engine, Insert(g) PROVE AllOnce'
    <2>1. \A e \in Event : (kept')[g][e] = 0
      BY <1>10 DEF Insert
    <2>2. \A h \in Engine : h # g => (kept')[h] = kept[h]
      BY <1>10 DEF Insert
    <2>3. \A e \in Event : rows'[e] = rows[e] \/ rows'[e] = rows[e] + kept[g][e]
      BY <1>10 DEF Insert
    <2>4. seen' = seen
      BY <1>10 DEF Insert
    <2>5. ASSUME NEW e \in Event PROVE Once(e)'
      <3>0. rows[e] \in Nat /\ \A h \in Engine : kept[h][e] \in Nat
        OBVIOUS
      <3>1. Once(e)
        OBVIOUS
      <3>2. \A h \in Engine : (kept')[h][e] > 0 => h # g /\ (kept')[h][e] = kept[h][e]
        BY <2>1, <2>2
      <3>3. \A h \in Engine : (kept')[h][e] = 0 \/ (kept')[h][e] = kept[h][e]
        BY <2>1, <2>2
      <3>4. e \notin seen' => rows'[e] = 0 /\ \A h \in Engine : (kept')[h][e] = 0
        BY <2>3, <2>4, <3>0, <3>1, <3>3
      <3>5. rows'[e] <= 1
        <4>1. rows'[e] = rows[e] \/ rows'[e] = rows[e] + kept[g][e]
          BY <2>3
        <4>2. kept[g][e] \in Nat /\ rows[e] <= 1
          BY <3>0, <3>1
        <4>3. kept[g][e] > 0 => kept[g][e] = 1 /\ rows[e] = 0
          BY <3>1
        <4> HIDE DEF TypeOK, AllOnce, Once
        <4>4. QED
          BY <3>0, <4>1, <4>2, <4>3
      <3>6. ASSUME NEW h \in Engine, (kept')[h][e] > 0
            PROVE  /\ (kept')[h][e] = 1 /\ rows'[e] = 0
                   /\ \A i \in Engine : (kept')[i][e] > 0 => i = h
        BY <2>3, <3>0, <3>1, <3>2, <3>6
      <3>7. QED
        BY <3>4, <3>5, <3>6
    <2>6. QED
      BY <2>5
  <1>11. ASSUME NEW g \in Engine, Crash(g) PROVE AllOnce'
    BY <1>11 DEF Crash
  <1>12. CASE UNCHANGED vars
    BY <1>12 DEF vars
  <1>13. QED
    BY <1>1, <1>2, <1>3, <1>4, <1>5, <1>6, <1>7, <1>8, <1>9, <1>10, <1>11,
       <1>12
    DEF Next

(* Redelivery to any engine, retries by sensors and crashes never give an   *)
(* event a second row while SET NX answers and its marks are alive.         *)
THEOREM StoredAtMostOnce == Spec => []StoredOnce
  <1>1. Init => OnceInv
    BY TypeInit DEF OnceInv, Init, AllOnce, Once, NoCopies
  <1>2. OnceInv /\ [Next]_vars => OnceInv'
    BY TypeStep, HealthStep, OnceStep DEF OnceInv
  <1>3. OnceInv => StoredOnce
    BY DEF OnceInv, AllOnce, Once, StoredOnce
  <1>4. QED
    BY <1>1, <1>2, <1>3, PTL DEF Spec

-----------------------------------------------------------------------------
(* A mark in Redis stands for a row, or for one about to be inserted.       *)

Traced(e) == e \in seen => rows[e] > 0 \/ InFlight(e)
AllTraced == \A e \in Event : Traced(e)
TraceInv == TypeOK /\ (NoLoss => AllTraced)

LEMMA NoLossStep == TypeOK /\ [Next]_vars /\ NoLoss' => NoLoss
  <1> SUFFICES ASSUME TypeOK, [Next]_vars, NoLoss' PROVE NoLoss
    OBVIOUS
  <1> USE StoreAssumption DEF StoreAssumption, TypeOK, budget, NoLoss
  <1>1. CASE AutoCommit
    BY <1>1 DEF AutoCommit
  <1>2. CASE Revoke
    BY <1>2 DEF Revoke
  <1>3. ASSUME NEW e \in Event, Publish(e) PROVE NoLoss
    BY <1>3 DEF Publish
  <1>4. ASSUME NEW e \in Event, Forget(e) PROVE NoLoss
    BY <1>4 DEF Forget
  <1>5. ASSUME NEW g \in Engine, Assign(g) PROVE NoLoss
    BY <1>5 DEF Assign
  <1>6. ASSUME NEW g \in Engine, Receive(g) PROVE NoLoss
    BY <1>6 DEF Receive
  <1>7. ASSUME NEW g \in Engine, Collect(g) PROVE NoLoss
    BY <1>7 DEF Collect
  <1>8. ASSUME NEW g \in Engine, Flush(g) PROVE NoLoss
    BY <1>8 DEF Flush
  <1>9. ASSUME NEW g \in Engine, Dedup(g) PROVE NoLoss
    BY <1>9 DEF Dedup, FirstTime, Marked, Buffered
  <1>10. ASSUME NEW g \in Engine, Insert(g) PROVE NoLoss
    BY <1>10 DEF Insert
  <1>11. ASSUME NEW g \in Engine, Crash(g) PROVE NoLoss
    BY <1>11 DEF Crash
  <1>12. CASE UNCHANGED vars
    BY <1>12 DEF vars
  <1>13. QED
    BY <1>1, <1>2, <1>3, <1>4, <1>5, <1>6, <1>7, <1>8, <1>9, <1>10, <1>11,
       <1>12
    DEF Next

LEMMA TraceStep ==
  TypeOK /\ AllTraced /\ NoLoss /\ NoLoss' /\ [Next]_vars => AllTraced'
  <1> SUFFICES ASSUME TypeOK, AllTraced, NoLoss, NoLoss', [Next]_vars
               PROVE  AllTraced'
    OBVIOUS
  <1> USE StoreAssumption
      DEF StoreAssumption, TypeOK, Copies, NoCopies, kafka, engine, budget,
          NoLoss, AllTraced, Traced, InFlight
  <1>1. CASE AutoCommit
    BY <1>1 DEF AutoCommit
  <1>2. CASE Revoke
    BY <1>2 DEF Revoke
  <1>3. ASSUME NEW e \in Event, Publish(e) PROVE AllTraced'
    BY <1>3 DEF Publish
  <1>4. ASSUME NEW e \in Event, Forget(e) PROVE AllTraced'
    BY <1>4 DEF Forget
  <1>5. ASSUME NEW g \in Engine, Assign(g) PROVE AllTraced'
    BY <1>5 DEF Assign
  <1>6. ASSUME NEW g \in Engine, Receive(g) PROVE AllTraced'
    BY <1>6 DEF Receive
  <1>7. ASSUME NEW g \in Engine, Collect(g) PROVE AllTraced'
    BY <1>7 DEF Collect
  <1>8. ASSUME NEW g \in Engine, Flush(g) PROVE AllTraced'
    BY <1>8 DEF Flush
  <1>9. ASSUME NEW g \in Engine, Dedup(g) PROVE AllTraced'
    <2>1. rows' = rows /\ seen' \subseteq Marked(g)
      BY <1>9 DEF Dedup, Marked
    <2>2. ASSUME NEW x \in Event, x \in seen PROVE rows'[x] > 0 \/ InFlight(x)'
      BY <1>9, <2>1, <2>2 DEF Dedup
    <2>3. ASSUME NEW x \in Event, x \notin seen, x \in seen' PROVE InFlight(x)'
      <3>1. buf[g][x] > 0
        BY <2>1, <2>3 DEF Marked, Buffered
      <3>2. (kept')[g] = FirstTime(g) \/ (kept')[g] = buf[g]
        BY <1>9 DEF Dedup
      <3>3. (kept')[g][x] > 0 /\ (kept')[g] # NoCopies
        <4>1. FirstTime(g)[x] = 1
          BY <2>3, <3>1 DEF FirstTime
        <4>2. (kept')[g][x] > 0
          BY <3>1, <3>2, <4>1
        <4>3. QED
          BY <4>2
      <3>4. (writer')[g] = "insert"
        BY <1>9, <3>3 DEF Dedup
      <3>5. QED
        BY <3>3, <3>4
    <2>4. QED
      BY <2>1, <2>2, <2>3
  <1>10. ASSUME NEW g \in Engine, Insert(g) PROVE AllTraced'
    BY <1>10 DEF Insert
  <1>11. ASSUME NEW g \in Engine, Crash(g) PROVE AllTraced'
    BY <1>11 DEF Crash
  <1>12. CASE UNCHANGED vars
    BY <1>12 DEF vars
  <1>13. QED
    BY <1>1, <1>2, <1>3, <1>4, <1>5, <1>6, <1>7, <1>8, <1>9, <1>10, <1>11,
       <1>12
    DEF Next

DropsLegally ==
    NoLoss => \A g \in Engine, e \in Event : Drops(g, e) => rows[e] > 0 \/ InFlight(e)

LEMMA DropStep == TraceInv /\ [Next]_vars => DropsLegally
  <1> SUFFICES ASSUME TraceInv, [Next]_vars, NoLoss,
                      NEW f \in Engine, NEW x \in Event, Drops(f, x)
               PROVE  rows[x] > 0 \/ InFlight(x)
    BY DEF DropsLegally
  <1>0. TypeOK /\ Traced(x)
    BY DEF TraceInv, AllTraced
  <1> USE <1>0, StoreAssumption
      DEF StoreAssumption, TypeOK, Copies, NoCopies, kafka, engine, budget,
          Traced, InFlight, Drops
  <1>1. CASE AutoCommit
    BY <1>1 DEF AutoCommit
  <1>2. CASE Revoke
    BY <1>2 DEF Revoke
  <1>3. ASSUME NEW e \in Event, Publish(e) PROVE rows[x] > 0 \/ InFlight(x)
    BY <1>3 DEF Publish
  <1>4. ASSUME NEW e \in Event, Forget(e) PROVE rows[x] > 0 \/ InFlight(x)
    BY <1>4 DEF Forget
  <1>5. ASSUME NEW g \in Engine, Assign(g) PROVE rows[x] > 0 \/ InFlight(x)
    BY <1>5 DEF Assign
  <1>6. ASSUME NEW g \in Engine, Receive(g) PROVE rows[x] > 0 \/ InFlight(x)
    BY <1>6 DEF Receive
  <1>7. ASSUME NEW g \in Engine, Collect(g) PROVE rows[x] > 0 \/ InFlight(x)
    BY <1>7 DEF Collect
  <1>8. ASSUME NEW g \in Engine, Flush(g) PROVE rows[x] > 0 \/ InFlight(x)
    BY <1>8 DEF Flush
  <1>9. ASSUME NEW g \in Engine, Dedup(g) PROVE rows[x] > 0 \/ InFlight(x)
    BY <1>9 DEF Dedup, FirstTime, Marked, Buffered
  <1>10. ASSUME NEW g \in Engine, Insert(g) PROVE rows[x] > 0 \/ InFlight(x)
    BY <1>10 DEF Insert
  <1>11. ASSUME NEW g \in Engine, Crash(g) PROVE rows[x] > 0 \/ InFlight(x)
    BY <1>11 DEF Crash
  <1>12. CASE UNCHANGED vars
    BY <1>12 DEF vars
  <1>13. QED
    BY <1>1, <1>2, <1>3, <1>4, <1>5, <1>6, <1>7, <1>8, <1>9, <1>10, <1>11,
       <1>12
    DEF Next

(* An event whose copies are all dropped as duplicates has its row, or some *)
(* engine is inserting it: the mark is never the only trace of it.          *)
THEOREM DuplicatesAreStored == Spec => DropsOnlyStored
  <1>1. Init => TraceInv
    BY TypeInit DEF TraceInv, Init, AllTraced, Traced
  <1>2. TraceInv /\ [Next]_vars => TraceInv'
    BY TypeStep, NoLossStep, TraceStep DEF TraceInv
  <1>3. TraceInv /\ [Next]_vars => [DropsLegally]_vars
    BY DropStep
  <1>4. QED
    BY <1>1, <1>2, <1>3, PTL DEF Spec, DropsOnlyStored, DropsLegally

-----------------------------------------------------------------------------
(* The way to ndr_events is EventTable's.  Besides the invariant of         *)
(* StoredAtMostOnce this needs that only published events are on their way. *)

Published == {topic[i] : i \in DOMAIN topic}
Claimed == {e \in Event : InFlight(e)}

OnTheWay(g) ==
    /\ \A i \in 1..Len(chan[g]) : chan[g][i] \in Published
    /\ \A e \in Event : buf[g][e] > 0 \/ kept[g][e] > 0 => e \in Published

WayInv == \A g \in Engine : OnTheWay(g)

LEMMA PublishedGrows ==
  ASSUME TypeOK, NEW e \in Event, topic' = Append(topic, e)
  PROVE  Published' = Published \cup {e}
  <1>1. Len(topic') = Len(topic) + 1 /\ topic'[Len(topic) + 1] = e
    BY DEF TypeOK
  <1>2. \A i \in 1..Len(topic) : topic'[i] = topic[i]
    BY DEF TypeOK
  <1>3. DOMAIN topic = 1..Len(topic) /\ DOMAIN topic' = 1..Len(topic') /\ Len(topic) \in Nat
    BY DEF TypeOK
  <1> QED
    BY <1>1, <1>2, <1>3 DEF Published

LEMMA WayKept ==
  ASSUME WayInv, Published \subseteq Published',
         \A h \in Engine : (chan')[h] = chan[h] \/ (chan')[h] = << >>,
         \A h \in Engine : \A e \in Event :
           (buf')[h][e] > 0 \/ (kept')[h][e] > 0 => buf[h][e] > 0 \/ kept[h][e] > 0
  PROVE  WayInv'
  <1> SUFFICES ASSUME NEW h \in Engine PROVE OnTheWay(h)'
    BY DEF WayInv
  <1>1. OnTheWay(h)
    BY DEF WayInv
  <1>2. ASSUME NEW i \in 1..Len((chan')[h]) PROVE (chan')[h][i] \in Published'
    <2>1. Len(<< >>) = 0
      OBVIOUS
    <2>2. (chan')[h] # << >>
      BY <1>2, <2>1
    <2> QED
      BY <1>1, <1>2, <2>2 DEF OnTheWay
  <1> QED
    BY <1>1, <1>2 DEF OnTheWay

LEMMA WayStep == TypeOK /\ WayInv /\ [Next]_vars => WayInv'
  <1> SUFFICES ASSUME TypeOK, WayInv, [Next]_vars PROVE WayInv'
    OBVIOUS
  <1> USE StoreAssumption
      DEF StoreAssumption, TypeOK, Copies, NoCopies, kafka, engine, budget
  <1>1. CASE AutoCommit \/ Revoke \/ UNCHANGED vars
    <2>1. UNCHANGED <<topic, chan, buf, kept>> /\ Published' = Published
      BY <1>1 DEF AutoCommit, Revoke, vars, Published
    <2> QED
      BY <2>1, WayKept
  <1>2. ASSUME NEW e \in Event, Publish(e) PROVE WayInv'
    <2>1. Published \subseteq Published' /\ UNCHANGED <<chan, buf, kept>>
      BY <1>2, PublishedGrows DEF Publish
    <2> QED
      BY <2>1, WayKept
  <1>3. ASSUME NEW e \in Event, Forget(e) PROVE WayInv'
    <2>1. UNCHANGED <<topic, chan, buf, kept>> /\ Published' = Published
      BY <1>3 DEF Forget, Published
    <2> QED
      BY <2>1, WayKept
  <1>4. ASSUME NEW g \in Engine, Assign(g) \/ Flush(g) PROVE WayInv'
    <2>1. UNCHANGED <<topic, chan, buf, kept>> /\ Published' = Published
      BY <1>4 DEF Assign, Flush, Published
    <2> QED
      BY <2>1, WayKept
  <1>5. ASSUME NEW g \in Engine, Receive(g) PROVE WayInv'
    <2>1. position + 1 \in DOMAIN topic
      BY <1>5 DEF Receive
    <2>2. topic[position + 1] \in Published /\ topic[position + 1] \in Event
      BY <2>1 DEF Published
    <2>3. UNCHANGED <<topic, buf, kept>> /\ Published' = Published
      BY <1>5 DEF Receive, Published
    <2>4. ASSUME NEW h \in Engine, NEW i \in 1..Len((chan')[h])
          PROVE  (chan')[h][i] \in Published
      <3>1. CASE (chan')[h] = chan[h]
        BY <2>4, <3>1 DEF WayInv, OnTheWay
      <3>2. CASE (chan')[h] = Append(chan[h], topic[position + 1])
        <4>1. chan[h] \in Seq(Event) /\ Len((chan')[h]) = Len(chan[h]) + 1
          BY <2>2, <3>2
        <4>2. CASE i = Len(chan[h]) + 1
          BY <2>2, <3>2, <4>1, <4>2
        <4>3. CASE i \in 1..Len(chan[h])
          <5>1. (chan')[h][i] = chan[h][i]
            BY <2>2, <3>2, <4>1, <4>3
          <5> QED
            BY <4>3, <5>1 DEF WayInv, OnTheWay
        <4> QED
          BY <2>4, <4>1, <4>2, <4>3
      <3> QED
        BY <1>5, <3>1, <3>2 DEF Receive
    <2> QED
      BY <2>3, <2>4 DEF WayInv, OnTheWay
  <1>6. ASSUME NEW g \in Engine, Collect(g) PROVE WayInv'
    <2>1. 1 \in 1..Len(chan[g]) /\ Head(chan[g]) = chan[g][1]
      BY <1>6 DEF Collect
    <2>2. Head(chan[g]) \in Published
      BY <2>1 DEF WayInv, OnTheWay
    <2>3. UNCHANGED <<topic, kept>> /\ Published' = Published
      BY <1>6 DEF Collect, Published
    <2>4. ASSUME NEW h \in Engine, NEW i \in 1..Len((chan')[h])
          PROVE  (chan')[h][i] \in Published
      <3>1. CASE h # g
        BY <1>6, <2>4, <3>1 DEF Collect, WayInv, OnTheWay
      <3>2. CASE h = g
        <4>1. (chan')[g] = Tail(chan[g]) /\ chan[g] # << >>
          BY <1>6 DEF Collect
        <4>2. chan[g] \in Seq(Event) /\ Len(Tail(chan[g])) = Len(chan[g]) - 1
          BY <4>1
        <4>3. i \in 1..Len(Tail(chan[g]))
          BY <2>4, <3>2, <4>1
        <4>4. i + 1 \in 1..Len(chan[g])
          BY <4>2, <4>3
        <4>5. (chan')[g][i] = chan[g][i + 1]
          BY <4>1, <4>2, <4>3
        <4> QED
          BY <3>2, <4>4, <4>5 DEF WayInv, OnTheWay
      <3> QED
        BY <3>1, <3>2
    <2>5. ASSUME NEW h \in Engine, NEW e \in Event, (buf')[h][e] > 0
          PROVE  e \in Published
      <3>1. buf' = [buf EXCEPT ![g][Head(chan[g])] = @ + 1]
        BY <1>6 DEF Collect
      <3>2. (h = g /\ e = Head(chan[g])) \/ (buf')[h][e] = buf[h][e]
        BY <3>1
      <3> QED
        BY <2>2, <2>5, <3>2 DEF WayInv, OnTheWay
    <2> QED
      BY <2>3, <2>4, <2>5 DEF WayInv, OnTheWay
  <1>7. ASSUME NEW g \in Engine, Dedup(g) PROVE WayInv'
    <2>1. UNCHANGED <<topic, chan>> /\ Published' = Published
      BY <1>7 DEF Dedup, Published
    <2>2. \A h \in Engine, e \in Event :
            (buf')[h][e] = buf[h][e] \/ (buf')[h][e] = 0
      BY <1>7 DEF Dedup
    <2>3. ASSUME NEW h \in Engine, NEW e \in Event, (kept')[h][e] > 0
          PROVE  buf[h][e] > 0 \/ kept[h][e] > 0
      <3>1. (kept')[h] \in {kept[h], FirstTime(h), buf[h]}
        BY <1>7 DEF Dedup
      <3> QED
        BY <2>3, <3>1 DEF FirstTime
    <2>4. ASSUME NEW h \in Engine, NEW e \in Event, (buf')[h][e] > 0
          PROVE  buf[h][e] > 0
      <3>1. (buf')[h][e] = buf[h][e] \/ (buf')[h][e] = 0
        BY <2>2
      <3> QED
        BY <2>4, <3>1
    <2> QED
      BY <2>1, <2>3, <2>4, WayKept
  <1>8. ASSUME NEW g \in Engine, Insert(g) \/ Crash(g) PROVE WayInv'
    <2>1. UNCHANGED topic /\ Published' = Published
      BY <1>8 DEF Insert, Crash, Published
    <2>2. \A h \in Engine : (chan')[h] = chan[h] \/ (chan')[h] = << >>
      BY <1>8 DEF Insert, Crash
    <2>3. \A h \in Engine : /\ (buf')[h] = buf[h] \/ (buf')[h] = NoCopies
                            /\ (kept')[h] = kept[h] \/ (kept')[h] = NoCopies
      BY <1>8 DEF Insert, Crash
    <2>4. ASSUME NEW h \in Engine, NEW e \in Event,
                 (buf')[h][e] > 0 \/ (kept')[h][e] > 0
          PROVE  buf[h][e] > 0 \/ kept[h][e] > 0
      <3>1. NoCopies[e] = 0
        OBVIOUS
      <3> HIDE DEF TypeOK, NoCopies
      <3>2. (buf')[h][e] = buf[h][e] \/ (buf')[h][e] = 0
        BY <2>3, <3>1
      <3>3. (kept')[h][e] = kept[h][e] \/ (kept')[h][e] = 0
        BY <2>3, <3>1
      <3> QED
        BY <2>4, <3>2, <3>3
    <2> QED
      BY <2>1, <2>2, <2>4, WayKept
  <1> QED
    BY <1>1, <1>2, <1>3, <1>4, <1>5, <1>6, <1>7, <1>8 DEF Next

LEMMA TableUntouched ==
  ASSUME UNCHANGED <<topic, writer, kept, rows>>, RedisHealthy' => RedisHealthy,
         NoLoss' => NoLoss
  PROVE  T!Next
  <1>1. Published' = Published
    BY DEF Published
  <1>2. Claimed' = Claimed
    BY DEF Claimed, InFlight
  <1> QED
    BY <1>1, <1>2 DEF T!Next, Published, Claimed

LEMMA DedupClaims ==
  ASSUME OnceInv, WayInv, NEW g \in Engine, Dedup(g), RedisHealthy' => RedisHealthy
  PROVE  T!Claim
  <1> USE DEF OnceInv, TypeOK, Copies
  <1>1. UNCHANGED <<topic, rows>> /\ Published' = Published /\ writer[g] = "dedup"
    BY DEF Dedup, kafka, Published
  <1>2. \A h \in Engine \ {g} : (writer')[h] = writer[h] /\ (kept')[h] = kept[h]
    BY DEF Dedup
  <1>3. Claimed \subseteq Claimed'
    BY <1>1, <1>2 DEF Claimed, InFlight
  <1>4. ASSUME NEW e \in Claimed' \ Claimed PROVE e \in Published /\ (RedisHealthy' => rows[e] = 0)
    <2>1. e \in Event /\ (kept')[g][e] > 0
      BY <1>2, <1>4 DEF Claimed, InFlight
    <2>2. (kept')[g] \in {FirstTime(g), buf[g]}
      BY DEF Dedup
    <2>3. buf[g][e] > 0
      BY <2>1, <2>2 DEF FirstTime
    <2>4. RedisHealthy' => (kept')[g] = FirstTime(g)
      BY DEF Dedup, RedisHealthy
    <2>5. RedisHealthy' => rows[e] = 0
      BY <2>1, <2>4 DEF FirstTime, AllOnce, Once
    <2> QED
      BY <2>1, <2>3, <2>5 DEF WayInv, OnTheWay
  <1> QED
    BY <1>1, <1>3, <1>4 DEF T!Claim, Published, Claimed

LEMMA InsertWrites ==
  ASSUME OnceInv, NEW g \in Engine, Insert(g), RedisHealthy' => RedisHealthy
  PROVE  T!Write \/ T!Lose
  <1> USE DEF OnceInv, TypeOK, Copies
  <1>1. UNCHANGED topic /\ Published' = Published /\ writer[g] = "insert"
    BY DEF Insert, kafka, Published
  <1>2. \A h \in Engine \ {g} : (writer')[h] = writer[h] /\ (kept')[h] = kept[h]
    BY DEF Insert
  <1>3. (writer')[g] = "collect"
    BY DEF Insert
  <1>4. Claimed' \subseteq Claimed
    BY <1>2, <1>3 DEF Claimed, InFlight
  <1>5. CASE rows' = [e \in Event |-> rows[e] + kept[g][e]]
    <2>1. ASSUME NEW e \in Event, kept[g][e] = 0
          PROVE  rows'[e] = rows[e] /\ (e \in Claimed => e \in Claimed')
      <3>1. rows[e] \in Nat /\ rows'[e] = rows[e] + kept[g][e]
        BY <1>5
      <3>2. rows'[e] = rows[e]
        BY <2>1, <3>1
      <3>3. ASSUME e \in Claimed PROVE e \in Claimed'
        <4>1. PICK h \in Engine : writer[h] = "insert" /\ kept[h][e] > 0
          BY <3>3 DEF Claimed, InFlight
        <4>2. h # g
          BY <2>1, <4>1
        <4>3. (writer')[h] = "insert" /\ (kept')[h][e] > 0
          BY <1>2, <4>1, <4>2
        <4> QED
          BY <4>3 DEF Claimed, InFlight
      <3> QED
        BY <3>2, <3>3
    <2>2. ASSUME NEW e \in Event, kept[g][e] > 0
          PROVE  /\ e \in Claimed /\ rows'[e] > rows[e]
                 /\ RedisHealthy' => rows'[e] = 1 /\ e \notin Claimed'
      <3>1. rows[e] \in Nat /\ kept[g][e] \in Nat /\ rows'[e] = rows[e] + kept[g][e]
        BY <1>5
      <3>2. e \in Claimed /\ rows'[e] > rows[e]
        BY <1>1, <2>2, <3>1 DEF Claimed, InFlight
      <3>3. RedisHealthy' => Once(e)
        BY DEF AllOnce
      <3>4. RedisHealthy' => rows'[e] = 1
        BY <2>2, <3>1, <3>3 DEF Once
      <3>5. RedisHealthy' => e \notin Claimed'
        BY <1>2, <1>3, <2>2, <3>3 DEF Once, Claimed, InFlight
      <3> QED
        BY <3>2, <3>4, <3>5
    <2>3. \A e \in Event : kept[g][e] = 0 \/ kept[g][e] > 0
      OBVIOUS
    <2>4. \A e \in Event :
            \/ rows'[e] = rows[e] /\ (e \in Claimed => e \in Claimed')
            \/ /\ e \in Claimed /\ rows'[e] > rows[e]
               /\ RedisHealthy' => rows'[e] = 1 /\ e \notin Claimed'
      BY <2>1, <2>2, <2>3
    <2> QED
      BY <1>1, <1>4, <2>4 DEF T!Write, Published, Claimed
  <1>6. CASE insertLeft > 0 /\ insertLeft' = insertLeft - 1 /\ UNCHANGED rows
    <2>1. ~ NoLoss'
      BY <1>6, StoreAssumption DEF NoLoss, StoreAssumption
    <2> QED
      BY <1>1, <1>4, <1>6, <2>1 DEF T!Lose, Published, Claimed
  <1> QED
    BY <1>5, <1>6 DEF Insert

LEMMA CrashLoses == ASSUME OnceInv, NEW g \in Engine, Crash(g) PROVE T!Lose
  <1> USE DEF OnceInv, TypeOK, Copies
  <1>1. UNCHANGED <<topic, rows>> /\ Published' = Published
    BY DEF Crash, Published
  <1>2. Claimed' \subseteq Claimed
    <2>1. (writer')[g] = "collect"
      BY DEF Crash
    <2>2. \A h \in Engine \ {g} : (writer')[h] = writer[h] /\ (kept')[h] = kept[h]
      BY DEF Crash
    <2> QED
      BY <2>1, <2>2 DEF Claimed, InFlight
  <1>3. ~ NoLoss'
    BY StoreAssumption DEF Crash, NoLoss, StoreAssumption
  <1> QED
    BY <1>1, <1>2, <1>3 DEF T!Lose, Published, Claimed

LEMMA TableRefined == OnceInv /\ WayInv /\ [Next]_vars => T!Next
  <1> SUFFICES ASSUME OnceInv, WayInv, [Next]_vars PROVE T!Next
    OBVIOUS
  <1>1. (RedisHealthy' => RedisHealthy) /\ (NoLoss' => NoLoss)
    BY HealthStep, NoLossStep DEF OnceInv
  <1>2. ASSUME UNCHANGED <<topic, writer, kept, rows>> PROVE T!Next
    BY <1>1, <1>2, TableUntouched
  <1>3. CASE AutoCommit \/ Revoke \/ UNCHANGED vars
    BY <1>2, <1>3 DEF AutoCommit, Revoke, vars, engine, kafka
  <1>4. ASSUME NEW e \in Event, Publish(e) PROVE T!Next
    <2>1. Published' = Published \cup {e}
      BY <1>4, PublishedGrows DEF Publish, OnceInv
    <2>2. UNCHANGED rows /\ Claimed' = Claimed
      BY <1>4 DEF Publish, engine, Claimed, InFlight
    <2>3. T!Publish(e)
      BY <2>1, <2>2 DEF T!Publish, Published, Claimed
    <2> QED
      BY <1>1, <2>3 DEF T!Next
  <1>5. ASSUME NEW e \in Event, Forget(e) PROVE T!Next
    BY <1>2, <1>5 DEF Forget, engine, kafka
  <1>6. ASSUME NEW g \in Engine, Assign(g) \/ Receive(g) \/ Collect(g) PROVE T!Next
    BY <1>2, <1>6 DEF Assign, Receive, Collect, engine, kafka
  <1>7. ASSUME NEW g \in Engine, Flush(g) PROVE T!Next
    <2>1. writer[g] = "collect" /\ (writer')[g] = "dedup" /\ UNCHANGED <<kept, rows>>
      BY <1>7 DEF Flush, OnceInv, TypeOK
    <2>2. \A h \in Engine \ {g} : (writer')[h] = writer[h]
      BY <1>7 DEF Flush, OnceInv, TypeOK
    <2>3. Claimed' = Claimed
      BY <2>1, <2>2 DEF Claimed, InFlight
    <2>4. UNCHANGED topic /\ Published' = Published
      BY <1>7 DEF Flush, kafka, Published
    <2> QED
      BY <1>1, <2>1, <2>3, <2>4 DEF T!Next, Published, Claimed
  <1>8. ASSUME NEW g \in Engine, Dedup(g) PROVE T!Next
    BY <1>1, <1>8, DedupClaims DEF T!Next
  <1>9. ASSUME NEW g \in Engine, Insert(g) PROVE T!Next
    BY <1>1, <1>9, InsertWrites DEF T!Next
  <1>10. ASSUME NEW g \in Engine, Crash(g) PROVE T!Next
    BY <1>1, <1>10, CrashLoses DEF T!Next
  <1> QED
    BY <1>3, <1>4, <1>5, <1>6, <1>7, <1>8, <1>9, <1>10 DEF Next

(* Every behaviour of consumers, writers, Redis and Kafka is one of         *)
(* EventTable: whatever is redelivered, reassigned, dropped or forgotten, a *)
(* row is written only for an event of the topic that a writer claimed,     *)
(* while Redis is healthy nobody else then holds that event, and only a     *)
(* crash or a failed insert gives a claim up.                               *)
THEOREM StoreImplementsTable == Spec => ImplementsTable
  <1>1. Init => OnceInv /\ WayInv
    <2> SUFFICES ASSUME Init PROVE OnceInv /\ WayInv
      OBVIOUS
    <2>1. OnceInv
      BY TypeInit DEF OnceInv, Init, AllOnce, Once, NoCopies
    <2>2. WayInv
      BY DEF Init, WayInv, OnTheWay, NoCopies
    <2> QED
      BY <2>1, <2>2
  <1>2. Init => T!Init
    <2> SUFFICES ASSUME Init PROVE T!Init
      OBVIOUS
    <2>1. Published = {} /\ Claimed = {}
      BY DEF Init, Published, Claimed, InFlight, NoCopies
    <2>2. RedisHealthy /\ NoLoss /\ rows = [e \in Event |-> 0]
      BY DEF Init, RedisHealthy, NoLoss, NoCopies
    <2> QED
      BY <2>1, <2>2 DEF T!Init, Published, Claimed
  <1>3. OnceInv /\ WayInv /\ [Next]_vars => OnceInv' /\ WayInv'
    BY TypeStep, HealthStep, OnceStep, WayStep DEF OnceInv
  <1>4. OnceInv /\ WayInv /\ [Next]_vars => [T!Next]_T!vars
    BY TableRefined
  <1> QED
    BY <1>1, <1>2, <1>3, <1>4, PTL DEF Spec, ImplementsTable, T!Spec

(* So no event gets a row, or is held for one, that was not published.      *)
THEOREM OnlyPublishedIsStored == Spec => []T!OnlyPublished
  <1>1. T!Init => T!OnlyPublished
    BY DEF T!Init, T!OnlyPublished
  <1>2. T!OnlyPublished /\ [T!Next]_T!vars => T!OnlyPublished'
    <2> SUFFICES ASSUME T!OnlyPublished, [T!Next]_T!vars PROVE T!OnlyPublished'
      OBVIOUS
    <2>1. /\ Claimed \subseteq Published /\ Claimed' \subseteq Event
          /\ \A e \in Event : rows[e] > 0 => e \in Published
      BY DEF T!OnlyPublished, Published, Claimed
    <2>2. \/ Published \subseteq Published' /\ Claimed' \subseteq Claimed /\ UNCHANGED rows
          \/ T!Claim \/ T!Write
      BY DEF T!Next, T!vars, T!Lose, T!Publish, Published, Claimed
    <2>3. /\ Claimed' \subseteq Published'
          /\ \A e \in Event : rows'[e] > 0 => e \in Published'
      <3>1. CASE Published \subseteq Published' /\ Claimed' \subseteq Claimed /\ UNCHANGED rows
        BY <2>1, <3>1
      <3>2. CASE T!Claim
        BY <2>1, <3>2 DEF T!Claim, Published, Claimed
      <3>3. CASE T!Write
        BY <2>1, <3>3 DEF T!Write, Published, Claimed
      <3> QED
        BY <2>2, <3>1, <3>2, <3>3
    <2> QED
      BY <2>3 DEF T!OnlyPublished, Published, Claimed
  <1> QED
    BY <1>1, <1>2, StoreImplementsTable, PTL DEF ImplementsTable, T!Spec

=============================================================================
