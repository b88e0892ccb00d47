--------------------------- MODULE ServicesProofs ---------------------------
(***************************************************************************)
(* Proofs about Guardian, Siem, SiemRules, Captures, SensorCommands,       *)
(* Evidence and Triage, for every set of engines, bundles, sessions, flows,*)
(* sensors, logs, rules, consumers, groups and runs, and every lifetime,   *)
(* window and bound.                                                       *)
(***************************************************************************)
EXTENDS MCServices, Sequences, FiniteSetTheorems, WellFoundedInduction, TLAPS

-----------------------------------------------------------------------------
(* Guardian.                                                               *)

BundleRows == [cid : Sessions, expires : Int, held : BOOLEAN]
Listings == UNION {[B -> Sessions] : B \in SUBSET Bundles}
Passes ==
  [pc : {"codec", "ttl", "alter", "list", "cases", "remove"}, mode : G!Modes,
   level : G!Levels, days : RawDays, todo : SUBSET Bundles, cids : Listings]

GuardianTypes ==
  /\ day \in Int
  /\ mode \in G!Modes /\ days \in RawDays /\ level \in G!Levels
  /\ row \in [Bundles -> {NoBundle} \cup BundleRows]
  /\ cases \subseteq Sessions
  /\ pass \in [Engines -> {G!Idle} \cup Passes]
  /\ spared \in [Engines -> SUBSET (Bundles \cup Sessions)]

(* What a pass spares is spared still: its case is open, or it is on hold. *)
Held(b) == row[b] # NoBundle /\ row[b].held
Spares == \A g \in Engines : \A x \in spared[g] : x \in cases \/ (x \in Bundles /\ Held(x))

(* A bundle on a pass's list is not spared; when the open cases are known, *)
(* neither is its session.                                                 *)
Lists ==
  \A g \in Engines : pass[g].pc \in {"cases", "remove"} =>
    \A b \in pass[g].todo :
      /\ b \notin spared[g] /\ pass[g].cids[b] \in Sessions
      /\ pass[g].pc = "remove" => pass[g].cids[b] \notin spared[g]

GuardianInv == GuardianTypes /\ Spares /\ Lists

LEMMA GuardianInit == G!Init => GuardianInv
  BY DEF G!Init, GuardianInv, GuardianTypes, Spares, Lists, G!Idle, G!Modes, G!Levels

(* A pass that has listed bundles has each one's session.                  *)
LEMMA ListingTypes ==
  ASSUME GuardianTypes, NEW g \in Engines, pass[g].pc = "list",
         NEW B \in SUBSET Bundles, \A b \in B : row[b] # NoBundle
  PROVE  [pass EXCEPT ![g].pc = "cases", ![g].todo = B, ![g].cids = [b \in B |-> row[b].cid]]
           \in [Engines -> {G!Idle} \cup Passes]
  <1> DEFINE c == [b \in B |-> row[b].cid]
  <1>1. c \in [B -> Sessions]
    BY DEF GuardianTypes, BundleRows
  <1>2. c \in Listings
    BY <1>1 DEF Listings
  <1>3. pass \in [Engines -> {G!Idle} \cup Passes] /\ pass[g] \in Passes
    BY DEF GuardianTypes, G!Idle
  <1> HIDE DEF c
  <1>4. [pass[g] EXCEPT !.pc = "cases", !.todo = B, !.cids = c] \in Passes
    BY <1>2, <1>3 DEF Passes
  <1>5. [pass EXCEPT ![g] = [pass[g] EXCEPT !.pc = "cases", !.todo = B, !.cids = c]]
          \in [Engines -> {G!Idle} \cup Passes]
    BY <1>3, <1>4
  <1> QED
    BY <1>5, <1>3 DEF c

LEMMA GuardianStep == GuardianInv /\ [G!Next]_G!vars => GuardianInv'
  <1> SUFFICES ASSUME GuardianInv, [G!Next]_G!vars PROVE GuardianInv'
    BY Zenon
  <1> USE GuardianAssumption
  <1>0. GuardianTypes /\ Spares /\ Lists
    BY DEF GuardianInv
  (* Steps of the settings, the disk, the leader and the day, and a stutter. *)
  <1>1. ASSUME UNCHANGED <<row, cases, pass, spared>>,
               mode' \in G!Modes, days' \in RawDays, level' \in G!Levels, day' \in Int
        PROVE  GuardianInv'
    BY <1>0, <1>1 DEF GuardianInv, GuardianTypes, Spares, Lists, Held
  <1>2. ASSUME NEW m \in G!Modes, NEW d \in RawDays, G!SetMode(m, d) PROVE GuardianInv'
    BY <1>0, <1>1, <1>2 DEF G!SetMode, G!Change, GuardianTypes
  <1>3. ASSUME NEW l \in G!Levels, G!DiskFills(l) PROVE GuardianInv'
    BY <1>0, <1>1, <1>3 DEF G!DiskFills, G!Change, GuardianTypes
  <1>4. ASSUME NEW g \in Engines, G!LeaderChanges(g) PROVE GuardianInv'
    BY <1>0, <1>1, <1>4 DEF G!LeaderChanges, G!settings, GuardianTypes
  <1>5. CASE G!NextDay
    BY <1>0, <1>1, <1>5 DEF G!NextDay, G!settings, GuardianTypes
  <1>6. CASE UNCHANGED G!vars
    BY <1>0, <1>1, <1>6 DEF G!vars, GuardianTypes
  (* Evidence and cases. *)
  <1>7. ASSUME NEW b \in Bundles, NEW c \in Sessions, G!Capture(b, c) PROVE GuardianInv'
    <2> DEFINE new == [cid |-> c, expires |-> day + Life, held |-> FALSE]
    <2>1. row[b] = NoBundle /\ row' = [row EXCEPT ![b] = new]
          /\ UNCHANGED <<day, mode, days, level, cases, pass, spared>>
      BY <1>7 DEF G!Capture, G!settings
    <2>2. new \in BundleRows
      BY <1>0, GuardianAssumption DEF BundleRows, GuardianTypes
    <2> HIDE DEF new
    <2>3. GuardianTypes'
      BY <1>0, <2>1, <2>2 DEF GuardianTypes
    <2>4. Spares'
      BY <1>0, <2>1 DEF GuardianTypes, Spares, Held
    <2>5. Lists'
      BY <1>0, <2>1 DEF Lists
    <2> QED
      BY <2>3, <2>4, <2>5 DEF GuardianInv
  <1>8. ASSUME NEW b \in Bundles, NEW held \in BOOLEAN, G!Hold(b, held) PROVE GuardianInv'
    <2>1. PICK new \in BundleRows : new.held = held /\ row' = [row EXCEPT ![b] = new]
      <3>1. row[b] \in BundleRows
        BY <1>0, <1>8 DEF G!Hold, GuardianTypes
      <3>2. [row[b] EXCEPT !.held = held] \in BundleRows /\ [row[b] EXCEPT !.held = held].held = held
        BY <3>1 DEF BundleRows
      <3>3. row' = [row EXCEPT ![b] = [row[b] EXCEPT !.held = held]]
        BY <1>8 DEF G!Hold
      <3> QED
        BY <3>2, <3>3
    <2>2. new # NoBundle
      BY GuardianAssumption DEF BundleRows
    <2>3. /\ spared' = IF held THEN spared ELSE [g \in Engines |-> spared[g] \ {b}]
          /\ UNCHANGED <<day, mode, days, level, cases, pass>>
      BY <1>8 DEF G!Hold, G!settings
    <2>4. spared' \in [Engines -> SUBSET (Bundles \cup Sessions)]
          /\ \A g \in Engines : spared'[g] \subseteq spared[g] /\ (~ held => b \notin spared'[g])
      BY <1>0, <2>3 DEF GuardianTypes
    <2>5. GuardianTypes'
      BY <1>0, <2>1, <2>3, <2>4 DEF GuardianTypes
    <2>6. Spares'
      BY <1>0, <2>1, <2>2, <2>3, <2>4 DEF GuardianTypes, Spares, Held
    <2>7. Lists'
      BY <1>0, <2>3, <2>4 DEF Lists
    <2> QED
      BY <2>5, <2>6, <2>7 DEF GuardianInv
  <1>9. ASSUME NEW c \in Sessions, G!OpenCase(c) PROVE GuardianInv'
    <2>1. cases' = cases \cup {c} /\ UNCHANGED <<day, mode, days, level, row, pass, spared>>
      BY <1>9 DEF G!OpenCase, G!settings
    <2> QED
      BY <1>0, <2>1 DEF GuardianInv, GuardianTypes, Spares, Held, Lists
  <1>10. ASSUME NEW c \in Sessions, G!CloseCase(c) PROVE GuardianInv'
    <2>1. /\ cases' = cases \ {c} /\ spared' = [g \in Engines |-> spared[g] \ {c}]
          /\ UNCHANGED <<day, mode, days, level, row, pass>>
      BY <1>10 DEF G!CloseCase, G!settings
    <2> QED
      BY <1>0, <2>1 DEF GuardianInv, GuardianTypes, Spares, Held, Lists
  <1>11. ASSUME NEW b \in Bundles, G!DropRow(b) PROVE GuardianInv'
    <2>1. ~ Held(b) /\ row' = [row EXCEPT ![b] = NoBundle]
          /\ UNCHANGED <<day, mode, days, level, cases, pass, spared>>
      BY <1>0, <1>11 DEF G!DropRow, G!Expired, G!settings, Held, GuardianTypes, BundleRows
    <2>2. GuardianTypes'
      BY <1>0, <2>1 DEF GuardianTypes
    <2>3. Spares'
      BY <1>0, <2>1 DEF GuardianTypes, Spares, Held
    <2>4. Lists'
      BY <1>0, <2>1 DEF Lists
    <2> QED
      BY <2>2, <2>3, <2>4 DEF GuardianInv
  (* A pass: it only moves, it ends, or it lists. *)
  <1>12. ASSUME NEW g \in Engines, NEW pc \in {"ttl", "alter", "list"},
                pass[g].pc \in {"codec", "ttl", "alter"}, pass' = [pass EXCEPT ![g].pc = pc],
                UNCHANGED <<day, mode, days, level, row, cases, spared>>
         PROVE  GuardianInv'
    <2>1. pass[g] \in Passes
      BY <1>0, <1>12 DEF GuardianTypes, G!Idle
    <2>2. PICK p \in Passes : p.pc = pc /\ pass' = [pass EXCEPT ![g] = p]
      <3>1. [pass[g] EXCEPT !.pc = pc] \in Passes /\ [pass[g] EXCEPT !.pc = pc].pc = pc
        BY <2>1 DEF Passes
      <3> QED
        BY <1>12, <3>1
    <2> QED
      BY <1>0, <1>12, <2>2 DEF GuardianInv, GuardianTypes, Spares, Held, Lists
  <1>13. ASSUME NEW g \in Engines, G!End(g), UNCHANGED <<day, mode, days, level, row, cases>>
         PROVE  GuardianInv'
    <2>1. pass' = [pass EXCEPT ![g] = G!Idle] /\ spared' = [spared EXCEPT ![g] = {}]
      BY <1>13 DEF G!End
    <2>2. GuardianTypes'
      BY <1>0, <1>13, <2>1 DEF GuardianTypes
    <2>3. Spares'
      BY <1>0, <1>13, <2>1 DEF GuardianTypes, Spares, Held
    <2>4. Lists'
      BY <1>0, <2>1 DEF GuardianTypes, Lists, G!Idle
    <2> QED
      BY <2>2, <2>3, <2>4 DEF GuardianInv
  <1>14. ASSUME NEW g \in Engines, G!Begin(g) PROVE GuardianInv'
    <2>1. PICK p \in Passes : p.pc = "codec" /\ pass' = [pass EXCEPT ![g] = p]
      <3> DEFINE p == [pc |-> "codec", mode |-> mode, level |-> level, days |-> days,
                       todo |-> {}, cids |-> [b \in {} |-> NoBundle]]
      <3>1. [b \in {} |-> NoBundle] \in [{} -> Sessions] /\ {} \in SUBSET Bundles
        OBVIOUS
      <3>2. [b \in {} |-> NoBundle] \in Listings
        BY <3>1 DEF Listings
      <3>3. p \in Passes
        BY <1>0, <3>2 DEF Passes, GuardianTypes
      <3> QED
        BY <1>14, <3>3 DEF G!Begin
    <2>2. /\ spared' = [spared EXCEPT ![g] = cases \cup {b \in Bundles : row[b] # NoBundle /\ row[b].held}]
          /\ UNCHANGED <<day, mode, days, level, row, cases>>
      BY <1>14 DEF G!Begin, G!settings
    <2>3. GuardianTypes'
      BY <1>0, <2>1, <2>2 DEF GuardianTypes
    <2>4. Spares'
      BY <1>0, <2>2 DEF GuardianTypes, Spares, Held
    <2>5. Lists'
      BY <1>0, <2>1, <2>2 DEF GuardianTypes, Lists
    <2> QED
      BY <2>3, <2>4, <2>5 DEF GuardianInv
  <1>15. ASSUME NEW g \in Engines, G!CompressRaw(g) PROVE GuardianInv'
    BY <1>12, <1>13, <1>15 DEF G!CompressRaw, G!AfterCodec, G!Goto, G!At, G!settings
  <1>16. ASSUME NEW g \in Engines, G!ReadTTL(g) PROVE GuardianInv'
    BY <1>12, <1>16 DEF G!ReadTTL, G!Goto, G!At, G!settings
  <1>17. ASSUME NEW g \in Engines, G!AlterTTL(g) PROVE GuardianInv'
    BY <1>12, <1>17 DEF G!AlterTTL, G!Goto, G!At, G!settings
  <1>18. ASSUME NEW g \in Engines, G!ListExpired(g) PROVE GuardianInv'
    <2>1. PICK B \in SUBSET Bundles :
             /\ \A b \in B : row[b] # NoBundle /\ ~ row[b].held
             /\ \/ G!End(g)
                \/ /\ pass' = [pass EXCEPT ![g].pc = "cases", ![g].todo = B,
                                           ![g].cids = [b \in B |-> row[b].cid]]
                   /\ UNCHANGED spared
      <3>1. {b \in Bundles : G!Listed(b)} \in SUBSET Bundles
        OBVIOUS
      <3> QED
        BY <1>18, <3>1 DEF G!ListExpired, G!Listed, G!Expired
    <2>2. pass[g].pc = "list" /\ UNCHANGED <<day, mode, days, level, row, cases>>
      BY <1>18 DEF G!ListExpired, G!At, G!settings
    <2>3. ASSUME pass' = [pass EXCEPT ![g].pc = "cases", ![g].todo = B,
                                      ![g].cids = [b \in B |-> row[b].cid]],
                 UNCHANGED spared
          PROVE  GuardianInv'
      <3>1. pass' \in [Engines -> {G!Idle} \cup Passes]
        BY <1>0, <2>1, <2>2, <2>3, ListingTypes
      <3>2. GuardianTypes'
        BY <1>0, <2>2, <2>3, <3>1 DEF GuardianTypes
      <3>3. Spares'
        BY <1>0, <2>2, <2>3 DEF Spares, Held
      <3>4. pass[g] \in Passes
        BY <1>0, <2>2 DEF GuardianTypes, G!Idle
      <3>5. /\ pass'[g].pc = "cases" /\ pass'[g].todo = B
            /\ \A b \in B : pass'[g].cids[b] = row[b].cid
            /\ \A h \in Engines \ {g} : pass'[h] = pass[h]
        BY <1>0, <2>3, <3>4 DEF GuardianTypes, Passes
      <3>6. \A b \in B : row[b].cid \in Sessions /\ b \notin spared[g]
        BY <1>0, <2>1 DEF GuardianTypes, BundleRows, Spares, Held
      <3>7. Lists'
        <4> SUFFICES ASSUME NEW h \in Engines, pass'[h].pc \in {"cases", "remove"},
                            NEW b \in pass'[h].todo
                     PROVE  /\ b \notin spared[h] /\ pass'[h].cids[b] \in Sessions
                            /\ pass'[h].pc = "remove" => pass'[h].cids[b] \notin spared[h]
          BY <2>3 DEF Lists
        <4>1. CASE h = g
          BY <3>5, <3>6, <4>1
        <4>2. CASE h # g
          BY <1>0, <3>5, <4>2 DEF Lists
        <4> QED
          BY <4>1, <4>2
      <3> QED
        BY <3>2, <3>3, <3>7 DEF GuardianInv
    <2> QED
      BY <1>13, <2>1, <2>2, <2>3
  <1>19. ASSUME NEW g \in Engines, NEW B \in SUBSET pass[g].todo,
                NEW pc \in {"cases", "remove"}, pass[g].pc = pc,
                pass' = [pass EXCEPT ![g].pc = "remove", ![g].todo = B],
                \A b \in B : pc = "remove" \/ pass[g].cids[b] \notin cases,
                UNCHANGED <<day, mode, days, level, row, cases, spared>>
         PROVE  GuardianInv'
    <2>1. pass[g] \in Passes
      BY <1>0, <1>19 DEF GuardianTypes, G!Idle
    <2>2. PICK p \in Passes : /\ p.pc = "remove" /\ p.todo = B /\ p.cids = pass[g].cids
                              /\ pass' = [pass EXCEPT ![g] = p]
      <3> DEFINE p == [pass[g] EXCEPT !.pc = "remove", !.todo = B]
      <3>1. p \in Passes /\ p.pc = "remove" /\ p.todo = B /\ p.cids = pass[g].cids
        BY <2>1 DEF Passes
      <3>2. pass' = [pass EXCEPT ![g] = p]
        BY <1>19
      <3> QED
        BY <3>1, <3>2
    <2>3. GuardianTypes'
      BY <1>0, <1>19, <2>2 DEF GuardianTypes
    <2>4. Spares'
      BY <1>0, <1>19 DEF Spares, Held
    <2>5. \A b \in B : b \notin spared[g] /\ p.cids[b] \in Sessions /\ p.cids[b] \notin spared[g]
      BY <1>0, <1>19, <2>2 DEF Lists, Spares, GuardianTypes
    <2>6. Lists'
      BY <1>0, <1>19, <2>2, <2>5 DEF GuardianTypes, Lists
    <2> QED
      BY <2>3, <2>4, <2>6 DEF GuardianInv
  <1>20. ASSUME NEW g \in Engines, G!ListCases(g) PROVE GuardianInv'
    <2>1. \/ G!End(g)
          \/ /\ pass' = [pass EXCEPT ![g].pc = "remove", ![g].todo = G!Deletable(g)]
             /\ UNCHANGED spared
      BY <1>20 DEF G!ListCases
    <2>2. pass[g].pc = "cases" /\ UNCHANGED <<day, mode, days, level, row, cases>>
      BY <1>20 DEF G!ListCases, G!At, G!settings
    <2>3. /\ G!Deletable(g) \in SUBSET pass[g].todo
          /\ \A b \in G!Deletable(g) : pass[g].cids[b] \notin cases
      BY DEF G!Deletable
    <2> QED
      BY <1>13, <1>19, <2>1, <2>2, <2>3
  <1>21. ASSUME NEW g \in Engines, NEW b \in Bundles, G!RemoveFile(g, b) PROVE GuardianInv'
    <2>1. pass[g].pc = "remove" /\ UNCHANGED <<day, mode, days, level, row, cases>>
      BY <1>21 DEF G!RemoveFile, G!At, G!settings
    <2>2. \/ G!End(g)
          \/ pass' = [pass EXCEPT ![g].todo = pass[g].todo \ {b}] /\ UNCHANGED spared
      BY <1>0, <1>21 DEF G!RemoveFile, GuardianTypes
    <2>3. ASSUME pass' = [pass EXCEPT ![g].todo = pass[g].todo \ {b}]
          PROVE  pass' = [pass EXCEPT ![g].pc = "remove", ![g].todo = pass[g].todo \ {b}]
      BY <1>0, <2>1, <2>3 DEF GuardianTypes, G!Idle, Passes
    <2>4. pass[g].todo \ {b} \in SUBSET pass[g].todo
      OBVIOUS
    <2> QED
      BY <1>13, <1>19, <2>1, <2>2, <2>3, <2>4
  <1> QED
    BY <1>2, <1>3, <1>4, <1>5, <1>6, <1>7, <1>8, <1>9, <1>10, <1>11, <1>14, <1>15, <1>16,
       <1>17, <1>18, <1>20, <1>21 DEF G!Next

(* For any number of engines that run a pass at once, and whatever the     *)
(* disk, the settings, analysts and ClickHouse do meanwhile: evidence that *)
(* is on hold, or of an open case, throughout a pass is not removed by it. *)
THEOREM SparedIsAlwaysKept == G!Spec => []SparedIsKept
<1>1. GuardianInv => SparedIsKept
  BY DEF GuardianInv, Lists, SparedIsKept, G!SparedIsKept, G!At
<1> QED
  BY <1>1, GuardianInit, GuardianStep, PTL DEF G!Spec

-----------------------------------------------------------------------------
(* Siem.                                                                   *)

Alerts ==
  [by : Processes, log : Logs, rule : Matching, entity : S!Entities, at : Nat, checked : BOOLEAN]
Tasks == [offset : Nat, log : Logs, todo : SUBSET Matching, write : {NoAlert} \cup Alerts]
DedupKeys == [alert : {NoAlert} \cup Alerts, until : Nat]

SiemTypes ==
  /\ logClock \in Nat
  /\ topic \in Seq([log : Logs, format : {"SiemEvent"}])
  /\ position \in Nat \ {0} /\ committed \in Nat
  /\ task \in [Processes -> {NoJob} \cup Tasks]
  /\ dedup \in [Matching -> [S!Entities -> DedupKeys]]
  /\ alerts \subseteq Alerts

(* An alert counts from the moment its key is set, before it is written.   *)
Raised(x) ==
  x \in alerts \/ \E c \in Processes : task[c] # NoJob /\ task[c].write # NoAlert /\ x = task[c].write

(* The key of a rule and an entity lives as long as the deduplication of   *)
(* the latest alert that was checked against it.                           *)
KeysLast ==
  \A x \in Alerts : Raised(x) /\ x.checked =>
    x.at <= logClock /\ x.at + DedupTTL <= dedup[x.rule][x.entity].until

RaisedApart ==
  \A x, y \in Alerts :
    Raised(x) /\ Raised(y) /\ x # y /\ x.checked /\ y.checked /\ x.rule = y.rule /\ x.entity = y.entity =>
      x.at + DedupTTL <= y.at \/ y.at + DedupTTL <= x.at

SiemInv == SiemTypes /\ KeysLast /\ RaisedApart

LEMMA SiemInit == S!Init => SiemInv
  <1> SUFFICES ASSUME S!Init PROVE SiemInv
    OBVIOUS
  <1>1. /\ logClock = 1 /\ topic = <<>> /\ position = 1 /\ committed = 0 /\ alerts = {}
        /\ task = [c \in Processes |-> NoJob]
        /\ dedup = [r \in Matching |-> [e \in S!Entities |-> S!NoKey]]
    BY DEF S!Init
  <1>2. S!NoKey \in DedupKeys
    BY DEF S!NoKey, DedupKeys
  <1> HIDE DEF DedupKeys, S!NoKey, S!Entities
  <1>3. SiemTypes
    BY <1>1, <1>2 DEF SiemTypes
  <1>4. \A x : ~ Raised(x)
    BY <1>1 DEF Raised
  <1> QED
    BY <1>3, <1>4 DEF SiemInv, KeysLast, RaisedApart

(* A step that raises no alert and leaves the keys alone.                  *)
LEMMA RaisesNothing ==
  ASSUME SiemInv, SiemTypes', logClock <= logClock', dedup' = dedup,
         \A x \in Alerts : Raised(x)' => Raised(x)
  PROVE  SiemInv'
  <1>1. SiemTypes /\ KeysLast /\ RaisedApart
    BY DEF SiemInv
  <1>2. ASSUME NEW x \in Alerts, Raised(x)', x.checked
        PROVE  x.at <= logClock' /\ x.at + DedupTTL <= dedup'[x.rule][x.entity].until
    <2>1. x.at <= logClock /\ x.at + DedupTTL <= dedup[x.rule][x.entity].until
      BY <1>1, <1>2 DEF KeysLast
    <2> QED
      BY <1>1, <2>1 DEF SiemTypes, Alerts
  <1>3. KeysLast'
    BY <1>2 DEF KeysLast
  <1>4. RaisedApart'
    BY <1>1 DEF RaisedApart
  <1> QED
    BY <1>3, <1>4 DEF SiemInv

(* A step of one consumer: it is about something else, and writes nothing  *)
(* it did not have to write.                                               *)
LEMMA TaskRaisesNothing ==
  ASSUME SiemInv, NEW c \in Processes, NEW t \in {NoJob} \cup Tasks, task' = [task EXCEPT ![c] = t],
         t = NoJob \/ t.write = NoAlert \/ (task[c] # NoJob /\ t.write = task[c].write),
         position' \in Nat \ {0}, committed' \in Nat,
         NEW A \in SUBSET Alerts, alerts' = A, \A x \in A : Raised(x),
         UNCHANGED <<logClock, topic, dedup>>
  PROVE  SiemInv'
  <1>1. SiemTypes
    BY DEF SiemInv
  <1>2. SiemTypes'
    BY <1>1 DEF SiemTypes
  <1>3. logClock <= logClock'
    BY <1>1 DEF SiemTypes
  <1>4. \A x \in Alerts : Raised(x)' => Raised(x)
    BY <1>1 DEF Raised, SiemTypes
  <1> QED
    BY <1>2, <1>3, <1>4, RaisesNothing

LEMMA SiemStep == SiemInv /\ [S!Next]_S!vars => SiemInv'
  <1> SUFFICES ASSUME SiemInv, [S!Next]_S!vars PROVE SiemInv'
    BY Zenon
  <1> USE SiemAssumption
  <1>0. SiemTypes /\ KeysLast /\ RaisedApart
    BY DEF SiemInv
  (* The log and its offsets, the suppression rules, the clock, a stutter. *)
  <1>1. ASSUME topic' \in Seq([log : Logs, format : {"SiemEvent"}]), position' \in Nat \ {0}, committed' \in Nat,
               logClock' \in Nat, logClock <= logClock', UNCHANGED <<task, dedup, alerts>>
        PROVE  SiemInv'
    <2>1. SiemTypes'
      BY <1>0, <1>1 DEF SiemTypes
    <2>2. \A x \in Alerts : Raised(x)' => Raised(x)
      BY <1>1 DEF Raised
    <2> QED
      BY <1>1, <2>1, <2>2, RaisesNothing
  <1>2. ASSUME NEW l \in Logs, S!Publish(l) PROVE SiemInv'
    <2>1. topic' = Append(topic, [log |-> l, format |-> "SiemEvent"])
          /\ UNCHANGED <<logClock, position, committed, task, dedup, alerts>>
      BY <1>2 DEF S!Publish, S!ToSiemEvent, S!group
    <2>2. topic' \in Seq([log : Logs, format : {"SiemEvent"}])
      <3> DEFINE Msgs == [log : Logs, format : {"SiemEvent"}]
      <3>1. topic \in Seq(Msgs)
        BY <1>0 DEF SiemTypes
      <3>3. [log |-> l, format |-> "SiemEvent"] \in Msgs
        OBVIOUS
      <3> HIDE DEF Msgs
      <3>2. Append(topic, [log |-> l, format |-> "SiemEvent"]) \in Seq(Msgs)
        BY <3>1, <3>3
      <3> QED
        BY <2>1, <3>2 DEF Msgs
    <2> QED
      BY <1>0, <1>1, <2>1, <2>2 DEF SiemTypes
  <1>3. ASSUME NEW c \in S!Consumers, S!Assign(c) PROVE SiemInv'
    <2>1. S!StartOf(c) \in Nat \ {0}
      BY <1>0 DEF SiemTypes, S!StartOf
    <2>2. position' = S!StartOf(c) /\ UNCHANGED <<logClock, topic, committed, task, dedup, alerts>>
      BY <1>3 DEF S!Assign
    <2> QED
      BY <1>0, <1>1, <2>1, <2>2 DEF SiemTypes
  <1>4. CASE S!AutoCommit
    BY <1>0, <1>1, <1>4 DEF S!AutoCommit, SiemTypes
  <1>5. ASSUME NEW c \in S!Consumers, S!Store(c) PROVE SiemInv'
    <2>1. position' = position + 1 /\ committed' \in {committed, position + 1}
          /\ UNCHANGED <<logClock, topic, task, dedup, alerts>>
      BY <1>5 DEF S!Store
    <2> QED
      BY <1>0, <1>1, <2>1 DEF SiemTypes
  <1>6. CASE \/ \E r \in Matching : S!Silence(r)
             \/ \E c \in Processes : S!Refresh(c)
             \/ UNCHANGED S!vars
    <2>1. UNCHANGED <<logClock, topic, position, committed, task, dedup, alerts>>
      BY <1>6 DEF S!Silence, S!Refresh, S!vars, S!group
    <2> QED
      BY <1>0, <1>1, <2>1 DEF SiemTypes
  <1>7. CASE S!Tick
    <2>1. logClock' = logClock + 1 /\ UNCHANGED <<topic, position, committed, task, dedup, alerts>>
      BY <1>7 DEF S!Tick, S!group
    <2> QED
      BY <1>0, <1>1, <2>1 DEF SiemTypes
  (* A consumer. *)
  <1>8. ASSUME NEW c \in Processes, NEW r, task[c] # NoJob,
               task' = [task EXCEPT ![c].todo = @ \ {r}]
        PROVE  \E t \in Tasks : task' = [task EXCEPT ![c] = t] /\ t.write = task[c].write
    <2>1. task[c] \in Tasks
      BY <1>0, <1>8 DEF SiemTypes
    <2>2. [task[c] EXCEPT !.todo = @ \ {r}] \in Tasks
          /\ [task[c] EXCEPT !.todo = @ \ {r}].write = task[c].write
      BY <2>1 DEF Tasks
    <2>3. task' = [task EXCEPT ![c] = [task[c] EXCEPT !.todo = @ \ {r}]]
      BY <1>8
    <2> QED
      BY <2>2, <2>3
  <1>9. ASSUME NEW c \in S!Consumers, S!Receive(c) PROVE SiemInv'
    <2>1. /\ c \in Processes /\ position \in 1 .. Len(topic) /\ position' = position + 1
          /\ UNCHANGED <<logClock, topic, committed, dedup, alerts>>
      BY <1>0, <1>9 DEF S!Receive, S!Deliverable, SiemTypes
    <2>2. topic[position].log \in Logs
      <3> DEFINE Msgs == [log : Logs, format : {"SiemEvent"}]
      <3>1. topic \in Seq(Msgs) /\ \A m \in Msgs : m.log \in Logs
        BY <1>0 DEF SiemTypes
      <3> HIDE DEF Msgs
      <3> QED
        BY <2>1, <3>1
    <2>3. PICK t \in {NoJob} \cup Tasks : task' = [task EXCEPT ![c] = t]
                                          /\ (t = NoJob \/ t.write = NoAlert)
      <3> DEFINE t == [offset |-> position, log |-> topic[position].log,
                       todo |-> MatchesOf[topic[position].log], write |-> NoAlert]
      <3>1. task[c] = NoJob /\ task' \in {task, [task EXCEPT ![c] = t]}
        BY <1>9 DEF S!Receive
      <3>2. t \in Tasks /\ t.write = NoAlert
        BY <1>0, <2>2 DEF Tasks, SiemTypes
      <3>3. task = [task EXCEPT ![c] = task[c]]
        BY <1>0 DEF SiemTypes
      <3> HIDE DEF t
      <3> QED
        BY <3>1, <3>2, <3>3
    <2>4. position' \in Nat \ {0} /\ committed' \in Nat
      BY <1>0, <2>1 DEF SiemTypes
    <2>5. alerts' = alerts /\ alerts \in SUBSET Alerts /\ \A x \in alerts : Raised(x)
      BY <1>0, <2>1 DEF SiemTypes, Raised
    <2> QED
      BY <2>1, <2>3, <2>4, <2>5, TaskRaisesNothing
  <1>10. ASSUME NEW c \in Processes, NEW r \in Matching, task[c] # NoJob,
                task' = [task EXCEPT ![c].todo = @ \ {r}],
                UNCHANGED <<logClock, topic, position, committed, dedup, alerts>>
         PROVE  SiemInv'
    <2>1. PICK t \in Tasks : task' = [task EXCEPT ![c] = t] /\ t.write = task[c].write
      BY <1>8, <1>10
    <2>2. position' \in Nat \ {0} /\ committed' \in Nat
      BY <1>0, <1>10 DEF SiemTypes
    <2>3. alerts' = alerts /\ alerts \in SUBSET Alerts /\ \A x \in alerts : Raised(x)
      BY <1>0, <1>10 DEF SiemTypes, Raised
    <2> QED
      BY <1>10, <2>1, <2>2, <2>3, TaskRaisesNothing
  <1>11. ASSUME NEW c \in Processes, NEW r \in Matching, S!Suppress(c, r) PROVE SiemInv'
    <2>1. /\ task[c] # NoJob /\ task' = [task EXCEPT ![c].todo = @ \ {r}]
          /\ UNCHANGED <<logClock, topic, position, committed, dedup, alerts>>
      BY <1>11 DEF S!Suppress, S!Done, S!group
    <2> QED
      BY <1>10, <2>1
  (* The check: a repeat lengthens its key; what is not one is raised. *)
  <1>12. ASSUME NEW c \in Processes, NEW r \in Matching, S!CheckOrInsert(c, r) PROVE SiemInv'
    <2>0. /\ task[c] # NoJob /\ task[c].write = NoAlert
          /\ UNCHANGED <<logClock, topic, position, committed, alerts>>
      BY <1>12 DEF S!CheckOrInsert, S!Working, S!group
    <2>1. task[c] \in Tasks
      BY <1>0, <2>0 DEF SiemTypes
    <2>2. PICK e \in S!Entities : e = EntityOf[task[c].log]
      BY <2>1 DEF Tasks, S!Entities
    <2>3. ASSUME NEW k \in BOOLEAN, NEW a, a = S!NewAlert(c, r, k)
          PROVE  a \in Alerts /\ a.at = logClock /\ a.rule = r /\ a.entity = e /\ a.checked = k
      BY <1>0, <2>1, <2>2, <2>3 DEF Alerts, Tasks, SiemTypes, S!NewAlert
    (* What follows the new alert: this consumer's task holds it. *)
    <2>4. ASSUME NEW a \in Alerts, task' = [task EXCEPT ![c].write = a]
          PROVE  /\ task' \in [Processes -> {NoJob} \cup Tasks]
                 /\ \A x \in Alerts : Raised(x)' => Raised(x) \/ x = a
      <3>1. PICK t \in Tasks : t.write = a /\ task' = [task EXCEPT ![c] = t]
        <4>1. [task[c] EXCEPT !.write = a] \in Tasks /\ [task[c] EXCEPT !.write = a].write = a
          BY <2>1 DEF Tasks
        <4>2. task' = [task EXCEPT ![c] = [task[c] EXCEPT !.write = a]]
          BY <2>4
        <4> QED
          BY <4>1, <4>2
      <3>2. task' \in [Processes -> {NoJob} \cup Tasks]
        BY <1>0, <3>1 DEF SiemTypes
      <3>3. ASSUME NEW x \in Alerts, Raised(x)' PROVE Raised(x) \/ x = a
        BY <1>0, <2>0, <3>1, <3>3 DEF Raised, SiemTypes
      <3> QED
        BY <3>2, <3>3
    (* A key only ever gets longer. *)
    <2>5. ASSUME NEW key \in DedupKeys, key.until = logClock + DedupTTL,
                 dedup' = [dedup EXCEPT ![r][e] = key]
          PROVE  /\ dedup' \in [Matching -> [S!Entities -> DedupKeys]]
                 /\ dedup'[r][e].until = logClock + DedupTTL
                 /\ \A q \in Matching, f \in S!Entities :
                      q # r \/ f # e => dedup'[q][f] = dedup[q][f]
      BY <1>0, <2>5 DEF SiemTypes
    <2>6. CASE S!Live(r, e) /\ dedup' = [dedup EXCEPT ![r][e].until = logClock + DedupTTL]
               /\ task' = [task EXCEPT ![c].todo = @ \ {r}]
      <3>1. PICK key \in DedupKeys : key.until = logClock + DedupTTL /\ dedup' = [dedup EXCEPT ![r][e] = key]
        <4> DEFINE key == [dedup[r][e] EXCEPT !.until = logClock + DedupTTL]
        <4>1. dedup[r][e] \in DedupKeys
          BY <1>0 DEF SiemTypes
        <4>2. ASSUME NEW u \in Nat
              PROVE  /\ [dedup[r][e] EXCEPT !.until = u] \in DedupKeys
                     /\ [dedup[r][e] EXCEPT !.until = u].until = u
          BY <4>1 DEF DedupKeys
        <4>3. dedup' = [dedup EXCEPT ![r][e] = key]
          BY <2>6
        <4>4. logClock + DedupTTL \in Nat
          BY <1>0 DEF SiemTypes
        <4> QED
          BY <4>2, <4>3, <4>4
      <3>2. PICK t \in Tasks : task' = [task EXCEPT ![c] = t] /\ t.write = task[c].write
        BY <1>8, <2>0, <2>6
      <3>3. SiemTypes'
        BY <1>0, <2>0, <2>5, <3>1, <3>2 DEF SiemTypes
      <3>4. \A x \in Alerts : Raised(x)' => Raised(x)
        BY <1>0, <2>0, <3>2 DEF Raised, SiemTypes
      <3>5. ASSUME NEW x \in Alerts, Raised(x), x.checked
            PROVE  x.at <= logClock /\ x.at + DedupTTL <= dedup'[x.rule][x.entity].until
        <4>1. x.at <= logClock /\ x.at + DedupTTL <= dedup[x.rule][x.entity].until
              /\ x.at \in Nat /\ x.rule \in Matching /\ x.entity \in S!Entities
          BY <1>0, <3>5 DEF KeysLast, Alerts
        <4>2. CASE x.rule = r /\ x.entity = e
          BY <1>0, <2>5, <3>1, <4>1, <4>2 DEF SiemTypes
        <4>3. CASE x.rule # r \/ x.entity # e
          BY <2>5, <3>1, <4>1, <4>3
        <4> QED
          BY <4>2, <4>3
      <3>6. KeysLast'
        BY <2>0, <3>4, <3>5 DEF KeysLast
      <3>7. RaisedApart'
        BY <1>0, <3>4 DEF RaisedApart
      <3> QED
        BY <3>3, <3>6, <3>7 DEF SiemInv
    <2>7. ASSUME NEW a \in Alerts, a = S!NewAlert(c, r, TRUE), ~ S!Live(r, e),
                 dedup' = [dedup EXCEPT ![r][e] = [alert |-> a, until |-> logClock + DedupTTL]],
                 task' = [task EXCEPT ![c].write = a]
          PROVE  SiemInv'
      <3>1. a.at = logClock /\ a.rule = r /\ a.entity = e
        BY <2>3, <2>7
      <3>2. PICK key \in DedupKeys : key.until = logClock + DedupTTL /\ dedup' = [dedup EXCEPT ![r][e] = key]
        <4>1. [alert |-> a, until |-> logClock + DedupTTL] \in DedupKeys
          BY <1>0 DEF DedupKeys, SiemTypes
        <4> QED
          BY <2>7, <4>1
      <3>3. SiemTypes'
        BY <1>0, <2>0, <2>4, <2>5, <2>7, <3>2 DEF SiemTypes
      <3>4. \A x \in Alerts : Raised(x)' => Raised(x) \/ x = a
        BY <2>4, <2>7
      <3>5. ASSUME NEW x \in Alerts, Raised(x), x.checked
            PROVE  /\ x.at <= logClock /\ x.at + DedupTTL <= dedup'[x.rule][x.entity].until
                   /\ x.rule = r /\ x.entity = e => x.at + DedupTTL <= logClock
        <4>1. x.at <= logClock /\ x.at + DedupTTL <= dedup[x.rule][x.entity].until
              /\ x.at \in Nat /\ x.rule \in Matching /\ x.entity \in S!Entities
          BY <1>0, <3>5 DEF KeysLast, Alerts
        <4>2. CASE x.rule = r /\ x.entity = e
          <5>1. dedup[r][e].until \in Nat /\ dedup[r][e].until <= logClock
            BY <1>0, <2>7 DEF SiemTypes, DedupKeys, S!Live
          <5> QED
            BY <1>0, <2>5, <3>2, <4>1, <4>2, <5>1 DEF SiemTypes
        <4>3. CASE x.rule # r \/ x.entity # e
          BY <2>5, <3>2, <4>1, <4>3
        <4> QED
          BY <4>2, <4>3
      <3>6. a.at <= logClock /\ a.at + DedupTTL <= dedup'[a.rule][a.entity].until
        BY <1>0, <2>5, <3>1, <3>2 DEF SiemTypes
      <3>7. KeysLast'
        BY <2>0, <3>4, <3>5, <3>6 DEF KeysLast
      <3>8. RaisedApart'
        <4> SUFFICES ASSUME NEW x \in Alerts, NEW y \in Alerts, Raised(x)', Raised(y)', x # y,
                            x.checked, y.checked, x.rule = y.rule, x.entity = y.entity
                     PROVE  x.at + DedupTTL <= y.at \/ y.at + DedupTTL <= x.at
          BY DEF RaisedApart
        <4>1. CASE x = a
          BY <3>1, <3>4, <3>5, <4>1
        <4>2. CASE y = a
          BY <3>1, <3>4, <3>5, <4>2
        <4>3. CASE x # a /\ y # a
          BY <1>0, <3>4, <4>3 DEF RaisedApart
        <4> QED
          BY <4>1, <4>2, <4>3
      <3> QED
        BY <3>3, <3>7, <3>8 DEF SiemInv
    <2>8. ASSUME NEW a \in Alerts, a = S!NewAlert(c, r, FALSE), UNCHANGED dedup,
                 task' = [task EXCEPT ![c].write = a]
          PROVE  SiemInv'
      <3>1. a.checked = FALSE
        BY <2>3, <2>8
      <3>2. SiemTypes'
        BY <1>0, <2>0, <2>4, <2>8 DEF SiemTypes
      <3>3. \A x \in Alerts : Raised(x)' /\ x.checked => Raised(x)
        BY <2>4, <2>8, <3>1
      <3>4. KeysLast'
        BY <1>0, <2>0, <2>8, <3>3 DEF KeysLast
      <3>5. RaisedApart'
        BY <1>0, <3>3 DEF RaisedApart
      <3> QED
        BY <3>2, <3>4, <3>5 DEF SiemInv
    <2>9. \/ S!Live(r, e) /\ dedup' = [dedup EXCEPT ![r][e].until = logClock + DedupTTL]
             /\ task' = [task EXCEPT ![c].todo = @ \ {r}]
          \/ /\ ~ S!Live(r, e)
             /\ dedup' = [dedup EXCEPT ![r][e] = [alert |-> S!NewAlert(c, r, TRUE),
                                                  until |-> logClock + DedupTTL]]
             /\ task' = [task EXCEPT ![c].write = S!NewAlert(c, r, TRUE)]
          \/ UNCHANGED dedup /\ task' = [task EXCEPT ![c].write = S!NewAlert(c, r, FALSE)]
      BY <1>12, <2>2 DEF S!CheckOrInsert, S!Done
    <2>10. S!NewAlert(c, r, TRUE) \in Alerts /\ S!NewAlert(c, r, FALSE) \in Alerts
      BY <2>3
    <2> QED
      BY <2>6, <2>7, <2>8, <2>9, <2>10
  <1>13. ASSUME NEW c \in Processes, S!WriteAlert(c) PROVE SiemInv'
    <2>1. /\ task[c] # NoJob /\ task[c].write # NoAlert
          /\ alerts' \in {alerts, alerts \cup {task[c].write}}
          /\ task' = [task EXCEPT ![c].todo = @ \ {task[c].write.rule}, ![c].write = NoAlert]
          /\ UNCHANGED <<logClock, topic, position, committed, dedup>>
      BY <1>13 DEF S!WriteAlert, S!group
    <2>2. task[c] \in Tasks
      BY <1>0, <2>1 DEF SiemTypes
    <2>3. PICK t \in Tasks : task' = [task EXCEPT ![c] = t] /\ t.write = NoAlert
      <3>1. [task[c] EXCEPT !.todo = @ \ {task[c].write.rule}, !.write = NoAlert] \in Tasks
            /\ [task[c] EXCEPT !.todo = @ \ {task[c].write.rule}, !.write = NoAlert].write = NoAlert
        BY <2>2 DEF Tasks
      <3>2. task' = [task EXCEPT ![c] = [task[c] EXCEPT !.todo = @ \ {task[c].write.rule},
                                                        !.write = NoAlert]]
        BY <2>1
      <3> QED
        BY <3>1, <3>2
    <2>4. PICK A \in SUBSET Alerts : alerts' = A /\ \A x \in A : Raised(x)
      BY <1>0, <2>1, <2>2 DEF SiemTypes, Tasks, Raised
    <2>5. position' \in Nat \ {0} /\ committed' \in Nat
      BY <1>0, <2>1 DEF SiemTypes
    <2> QED
      BY <2>1, <2>3, <2>4, <2>5, TaskRaisesNothing
  <1>14. ASSUME NEW c \in Processes, task' = [task EXCEPT ![c] = NoJob],
                UNCHANGED <<logClock, topic, position, committed, dedup, alerts>>
         PROVE  SiemInv'
    <2>1. position' \in Nat \ {0} /\ committed' \in Nat
      BY <1>0, <1>14 DEF SiemTypes
    <2>2. alerts' = alerts /\ alerts \in SUBSET Alerts /\ \A x \in alerts : Raised(x)
      BY <1>0, <1>14 DEF SiemTypes, Raised
    <2> QED
      BY <1>14, <2>1, <2>2, TaskRaisesNothing
  <1>15. ASSUME NEW c \in Processes, S!Mark(c) PROVE SiemInv'
    <2>1. task' = [task EXCEPT ![c] = NoJob]
          /\ UNCHANGED <<logClock, topic, position, committed, dedup, alerts>>
      BY <1>15 DEF S!Mark, S!group
    <2> QED
      BY <1>14, <2>1
  <1>16. ASSUME NEW c \in S!Consumers, S!Crash(c) PROVE SiemInv'
    <2>1. task' = [d \in Processes |-> IF d = c THEN NoJob ELSE task[d]]
          /\ UNCHANGED <<logClock, topic, position, committed, dedup, alerts>>
      BY <1>16 DEF S!Crash
    <2>2. SiemTypes'
      BY <1>0, <2>1 DEF SiemTypes
    <2>3. \A x \in Alerts : Raised(x)' => Raised(x)
      BY <2>1 DEF Raised
    <2>4. logClock <= logClock'
      BY <1>0, <2>1 DEF SiemTypes
    <2> QED
      BY <2>1, <2>2, <2>3, <2>4, RaisesNothing
  <1> QED
    BY <1>2, <1>3, <1>4, <1>5, <1>6, <1>7, <1>9, <1>11, <1>12, <1>13, <1>15, <1>16 DEF S!Next

(* For any number of consumers, logs and rules, and any time of the        *)
(* deduplication: two alerts of one rule about one entity are that time    *)
(* apart, through rebalances, redeliveries and crashes.                    *)
THEOREM AlertsAreAlwaysApart == S!Spec => []AlertsAreApart
<1>1. SiemInv => AlertsAreApart
  BY DEF SiemInv, SiemTypes, RaisedApart, Raised, AlertsAreApart, S!AlertsAreApart
<1> QED
  BY <1>1, SiemInit, SiemStep, PTL DEF S!Spec

-----------------------------------------------------------------------------
(* Captures.                                                               *)

Requests == [at : Nat, state : Nat, tries : Nat]
Work == [pc : {"search", "upload", "store", "fulfil"}, flow : Flows]

CaptureTypes ==
  /\ captureClock \in Nat \ {0}
  /\ request \in [Flows -> {NoRow} \cup Requests]
  /\ reports \in [Flows -> Nat]
  /\ caller \in [Processes -> Flows \cup {NoFlow}]
  /\ sensor \in [Probes -> {C!Idle} \cup Work]
  /\ ended \in [Flows -> Nat]
  /\ raced \subseteq Flows

(* The row of a request that a capture ended within the day is recent, so  *)
(* that the count of a further hit finds it: no caller is about to insert  *)
(* a request for its flow.                                                 *)
Closed(f) ==
  /\ request[f] # NoRow /\ request[f].state = C!Fulfilled /\ request[f].at >= ended[f]
  /\ \A w \in Processes : caller[w] # f
EndedStays == \A f \in Flows \ raced : ended[f] > 0 /\ ended[f] > captureClock - Day => Closed(f)

CaptureInv == CaptureTypes /\ EndedStays

LEMMA CaptureInit == C!Init => CaptureInv
  BY CapturesAssumption DEF C!Init, CaptureInv, CaptureTypes, EndedStays

(* A sensor's step that ends no request.                                   *)
LEMMA SensorMoves ==
  ASSUME CaptureInv, NEW s \in Probes, NEW t \in {C!Idle} \cup Work, sensor' = [sensor EXCEPT ![s] = t],
         reports' \in [Flows -> Nat], UNCHANGED <<captureClock, request, caller, ended, raced>>
  PROVE  CaptureInv'
  BY DEF CaptureInv, CaptureTypes, EndedStays, Closed

LEMMA CaptureStep == CaptureInv /\ [C!Next]_C!vars => CaptureInv'
  <1> SUFFICES ASSUME CaptureInv, [C!Next]_C!vars PROVE CaptureInv'
    BY Zenon
  <1> USE CapturesAssumption
  <1>0. CaptureTypes /\ EndedStays
    BY DEF CaptureInv
  <1>1. ASSUME NEW w \in Processes, NEW f \in Flows, C!Count(w, f) PROVE CaptureInv'
    <2>1. /\ caller' = [caller EXCEPT ![w] = f]
          /\ \/ ~ C!Recent(f) /\ raced' = raced
             \/ raced' = raced \cup {f}
          /\ UNCHANGED <<captureClock, request, reports, sensor, ended>>
      BY <1>1 DEF C!Count
    <2>2. CaptureTypes'
      BY <1>0, <2>1 DEF CaptureTypes
    <2>3. ASSUME NEW g \in Flows \ raced', ended[g] > 0, ended[g] > captureClock - Day
          PROVE  Closed(g)'
      <3>1. Closed(g) /\ g \in Flows \ raced
        BY <1>0, <2>1, <2>3 DEF EndedStays
      <3>2. C!Recent(g)
        <4>1. request[g] \in Requests /\ ended[g] \in Nat /\ captureClock \in Nat
          BY <1>0, <3>1 DEF CaptureTypes, Closed
        <4>2. request[g].at \in Nat /\ request[g].at >= ended[g] /\ request[g] # NoRow
          BY <3>1, <4>1 DEF Requests, Closed
        <4> QED
          BY <2>3, <4>1, <4>2 DEF C!Recent
      <3>3. g # f
        BY <2>1, <2>3, <3>2
      <3> QED
        BY <1>0, <2>1, <3>1, <3>3 DEF Closed, CaptureTypes
    <2>4. EndedStays'
      BY <2>1, <2>3 DEF EndedStays
    <2> QED
      BY <2>2, <2>4 DEF CaptureInv
  <1>2. ASSUME NEW w \in Processes, C!Request(w) PROVE CaptureInv'
    <2> DEFINE f == caller[w]
               new == [at |-> captureClock, state |-> C!Open, tries |-> 0]
    <2>1. /\ f # NoFlow /\ caller' = [caller EXCEPT ![w] = NoFlow]
          /\ \/ /\ request' = [request EXCEPT ![f] = new]
                /\ reports' = [reports EXCEPT ![f] = 0]
             \/ UNCHANGED <<request, reports>>
          /\ UNCHANGED <<captureClock, sensor, ended, raced>>
      BY <1>2 DEF C!Request, C!Insert, C!history
    <2>2. new \in Requests
      BY <1>0 DEF Requests, CaptureTypes, C!Open
    <2> HIDE DEF new
    <2>3. CaptureTypes'
      BY <1>0, <2>1, <2>2 DEF CaptureTypes
    <2>4. ASSUME NEW g \in Flows \ raced, ended[g] > 0, ended[g] > captureClock - Day
          PROVE  Closed(g)'
      <3>1. Closed(g) /\ g # f
        BY <1>0, <2>4 DEF EndedStays, Closed
      <3>2. request'[g] = request[g] /\ caller' \in [Processes -> Flows \cup {NoFlow}]
            /\ \A v \in Processes : caller'[v] \in {caller[v], NoFlow}
        BY <1>0, <2>1, <3>1 DEF CaptureTypes
      <3> QED
        BY <2>1, <3>1, <3>2 DEF Closed
    <2>5. EndedStays'
      BY <2>1, <2>4 DEF EndedStays
    <2> QED
      BY <2>3, <2>5 DEF CaptureInv
  (* Sensors. *)
  <1>3. ASSUME NEW s \in Probes, C!CheckIn(s) PROVE CaptureInv'
    <2>1. PICK f \in Flows : sensor' = [sensor EXCEPT ![s] = C!At("search", f)]
      BY <1>3 DEF C!CheckIn
    <2>2. C!At("search", f) \in Work
      BY DEF C!At, Work
    <2>3. reports' \in [Flows -> Nat] /\ UNCHANGED <<captureClock, request, caller, ended, raced>>
      BY <1>0, <1>3 DEF C!CheckIn, C!engine, C!history, CaptureTypes
    <2> QED
      BY <2>1, <2>2, <2>3, SensorMoves
  <1>4. ASSUME NEW f \in Flows, C!Report(f) PROVE reports' \in [Flows -> Nat]
    BY <1>0, <1>4 DEF C!Report, CaptureTypes
  <1>5. ASSUME NEW s \in Probes, sensor[s].pc \in {"search", "upload", "store", "fulfil"}
        PROVE  sensor[s] \in Work /\ sensor[s].flow \in Flows
    BY <1>0, <1>5 DEF CaptureTypes, C!Idle, Work
  <1>6. ASSUME NEW s \in Probes, C!Miss(s) \/ C!GiveUp(s) PROVE CaptureInv'
    <2>1. /\ sensor[s].pc \in {"search", "upload"} /\ sensor' = [sensor EXCEPT ![s] = C!Idle]
          /\ UNCHANGED reports \/ C!Report(sensor[s].flow)
          /\ UNCHANGED <<captureClock, request, caller, ended, raced>>
      BY <1>6 DEF C!Miss, C!GiveUp, C!history
    <2>2. reports' \in [Flows -> Nat]
      BY <1>0, <1>4, <1>5, <2>1 DEF CaptureTypes
    <2> QED
      BY <2>1, <2>2, SensorMoves
  <1>7. ASSUME NEW s \in Probes, C!Find(s) \/ C!Dedup(s) \/ C!Store(s) PROVE CaptureInv'
    <2>1. sensor[s].flow \in Flows
      BY <1>5, <1>7 DEF C!Find, C!Dedup, C!Store
    <2>2. PICK pc \in {"upload", "store", "fulfil"} :
             sensor' = [sensor EXCEPT ![s] = C!At(pc, sensor[s].flow)]
      BY <1>7 DEF C!Find, C!Dedup, C!Store
    <2>3. C!At(pc, sensor[s].flow) \in Work
      BY <2>1 DEF C!At, Work
    <2>4. reports' \in [Flows -> Nat] /\ UNCHANGED <<captureClock, request, caller, ended, raced>>
      BY <1>0, <1>7 DEF C!Find, C!Dedup, C!Store, C!engine, C!history, CaptureTypes
    <2>5. PICK t \in Work : sensor' = [sensor EXCEPT ![s] = t]
      BY <2>2, <2>3
    <2> QED
      BY <2>4, <2>5, SensorMoves
  <1>8. ASSUME NEW s \in Probes, C!Fulfil(s) PROVE CaptureInv'
    <2>1. sensor' = [sensor EXCEPT ![s] = C!Idle] /\ UNCHANGED <<captureClock, caller>>
      BY <1>8 DEF C!Fulfil
    <2>2. PICK f \in Flows : f = sensor[s].flow
      BY <1>5, <1>8 DEF C!Fulfil
    <2>3. CASE UNCHANGED <<request, reports, ended, raced>>
      BY <1>0, <2>1, <2>3, SensorMoves DEF CaptureTypes
    <2>4. CASE /\ request' = [request EXCEPT ![f] = [at |-> captureClock, state |-> C!Fulfilled, tries |-> 0]]
               /\ reports' = [reports EXCEPT ![f] = 0]
               /\ ended' = [ended EXCEPT ![f] = captureClock]
               /\ raced' = IF \E w \in Processes : caller[w] = f THEN raced \cup {f} ELSE raced \ {f}
      <3> DEFINE new == [at |-> captureClock, state |-> C!Fulfilled, tries |-> 0]
      <3>1. new \in Requests /\ new # NoRow /\ new.state = C!Fulfilled /\ new.at = captureClock
        BY <1>0 DEF Requests, CaptureTypes, C!Fulfilled
      <3>2. request' = [request EXCEPT ![f] = new]
        BY <2>4
      <3> HIDE DEF new
      <3>3. CaptureTypes'
        BY <1>0, <2>1, <2>4, <3>1, <3>2 DEF CaptureTypes
      <3>4. ASSUME NEW g \in Flows \ raced', ended'[g] > 0, ended'[g] > captureClock - Day
            PROVE  Closed(g)'
        <4>1. CASE g = f
          <5>1. request'[g] = new /\ ended'[g] = captureClock /\ \A w \in Processes : caller[w] # g
            BY <1>0, <2>4, <3>2, <3>4, <4>1 DEF CaptureTypes
          <5>2. new.at >= captureClock
            BY <1>0, <3>1 DEF CaptureTypes
          <5> QED
            BY <2>1, <3>1, <5>1, <5>2 DEF Closed
        <4>2. CASE g # f
          <5>1. request'[g] = request[g] /\ ended'[g] = ended[g] /\ g \in Flows \ raced
            BY <1>0, <2>4, <3>2, <3>4, <4>2 DEF CaptureTypes
          <5>2. Closed(g)
            BY <1>0, <3>4, <5>1 DEF EndedStays
          <5> QED
            BY <2>1, <5>1, <5>2 DEF Closed
        <4> QED
          BY <4>1, <4>2
      <3>5. EndedStays'
        BY <2>1, <3>4 DEF EndedStays
      <3> QED
        BY <3>3, <3>5 DEF CaptureInv
    <2> QED
      BY <1>8, <2>2, <2>3, <2>4 DEF C!Fulfil, C!Insert, C!history
  (* A mutation counts in a request that is open, so in none that ended. *)
  <1>9. ASSUME NEW f \in Flows, C!Mutate(f) PROVE CaptureInv'
    <2>1. reports' = [reports EXCEPT ![f] = 0]
          /\ UNCHANGED <<captureClock, caller, sensor, ended, raced>>
      BY <1>9 DEF C!Mutate, C!history
    <2>2. CASE ~ C!Reported(f)
      <3>1. request' = request
        BY <1>9, <2>2 DEF C!Mutate
      <3> QED
        BY <1>0, <2>1, <3>1 DEF CaptureInv, CaptureTypes, EndedStays, Closed
    <2>3. CASE C!Reported(f)
      <3>1. request[f] \in Requests /\ request[f].state # C!Fulfilled
        BY <1>0, <2>3 DEF C!Reported, C!Open, C!Fulfilled, CaptureTypes
      <3>2. PICK new \in Requests : request' = [request EXCEPT ![f] = new]
        <4>1. ASSUME NEW n \in Nat, NEW st \in Nat
              PROVE  [request[f] EXCEPT !.tries = n, !.state = st] \in Requests
          BY <3>1 DEF Requests
        <4>2. request[f].tries + reports[f] \in Nat
          BY <1>0, <3>1 DEF Requests, CaptureTypes
        <4>3. \E n \in Nat, st \in Nat :
                request' = [request EXCEPT ![f] = [request[f] EXCEPT !.tries = n, !.state = st]]
          <5>1. \/ request' = [request EXCEPT ![f].tries = MaxTries, ![f].state = C!GivenUp]
                \/ request' = [request EXCEPT ![f].tries = request[f].tries + reports[f], ![f].state = C!Open]
            BY <1>9, <2>3 DEF C!Mutate
          <5>2. C!GivenUp \in Nat /\ C!Open \in Nat
            BY DEF C!GivenUp, C!Open
          <5>3. ASSUME NEW n \in Nat, NEW st \in Nat,
                       request' = [request EXCEPT ![f].tries = n, ![f].state = st]
                PROVE  request' = [request EXCEPT ![f] = [request[f] EXCEPT !.tries = n, !.state = st]]
            BY <1>0, <5>3 DEF CaptureTypes
          <5>4. CASE request' = [request EXCEPT ![f].tries = MaxTries, ![f].state = C!GivenUp]
            BY <5>2, <5>3, <5>4, Zenon
          <5>5. CASE request' = [request EXCEPT ![f].tries = request[f].tries + reports[f],
                                                ![f].state = C!Open]
            BY <4>2, <5>2, <5>3, <5>5, Zenon
          <5> QED
            BY <5>1, <5>4, <5>5
        <4> QED
          BY <4>1, <4>3
      <3>3. CaptureTypes'
        BY <1>0, <2>1, <3>2 DEF CaptureTypes
      <3>4. ASSUME NEW g \in Flows \ raced, ended[g] > 0, ended[g] > captureClock - Day
            PROVE  Closed(g)'
        <4>1. Closed(g)
          BY <1>0, <3>4 DEF EndedStays
        <4>2. request'[g] = request[g]
          BY <1>0, <3>1, <3>2, <4>1 DEF CaptureTypes, Closed
        <4> QED
          BY <2>1, <4>1, <4>2 DEF Closed
      <3>5. EndedStays'
        BY <2>1, <3>4 DEF EndedStays
      <3> QED
        BY <3>3, <3>5 DEF CaptureInv
    <2> QED
      BY <2>2, <2>3
  <1>10. CASE C!Tick
    <2>1. captureClock' = captureClock + 1
          /\ UNCHANGED <<request, reports, caller, sensor, ended, raced>>
      BY <1>10 DEF C!Tick, C!engine, C!history
    <2>2. CaptureTypes'
      BY <1>0, <2>1 DEF CaptureTypes
    <2>3. EndedStays'
      BY <1>0, <2>1 DEF CaptureTypes, EndedStays, Closed
    <2> QED
      BY <2>2, <2>3 DEF CaptureInv
  <1>11. CASE UNCHANGED C!vars
    BY <1>0, <1>11 DEF C!vars, CaptureInv, CaptureTypes, EndedStays, Closed
  <1> QED
    BY <1>1, <1>2, <1>3, <1>6, <1>7, <1>8, <1>9, <1>10, <1>11 DEF C!Next

(* For any number of flows, sensors and tasks of the engine, and any       *)
(* bounds: a request that a stored capture ended stays ended for a day.    *)
THEOREM FulfilledAlwaysStays == C!Spec => []FulfilledStays
<1>1. CaptureInv => FulfilledStays
  BY DEF CaptureInv, EndedStays, Closed, FulfilledStays, C!FulfilledStays
<1> QED
  BY <1>1, CaptureInit, CaptureStep, PTL DEF C!Spec

-----------------------------------------------------------------------------
(* SensorCommands.                                                         *)

Commands == [scope : M!Scopes, at : Nat, serial : Nat]

CommandTypes ==
  /\ second \in Nat /\ count \in Nat
  /\ pending \subseteq Commands /\ doomed \subseteq Commands
  /\ answered \in [Probes -> Commands \cup {Nothing}]
  /\ newest \in [Probes -> Nat]

(* Nothing is newer than the last command, and no row later than now.      *)
Past ==
  /\ \A r \in pending : r.at <= second /\ r.serial <= count
  /\ \A r \in doomed : r.serial <= count
  /\ \A s \in Probes : newest[s] <= count
  /\ \A s \in Probes : answered[s] # Nothing => answered[s].serial <= count

(* Of the rows of a scope, the later is the newer.                         *)
Ordered ==
  \A q, r \in pending : q.scope = r.scope =>
    q = r \/ (q.at < r.at /\ q.serial < r.serial) \/ (r.at < q.at /\ r.serial < q.serial)

(* A row is marked together with every older row of its scope.             *)
DoomedBelow ==
  \A q, r \in pending : q.scope = r.scope /\ q.at <= r.at /\ r \in doomed => q \in doomed

(* While a scope has a row older than command n, it has one that is not.   *)
Behind(s, n) ==
  \A r \in pending : r.scope = s => \E q \in pending : q.scope = s /\ q.serial >= n

Forwards ==
  \A s \in Probes :
    /\ Behind(s, newest[s])
    /\ answered[s] # Nothing /\ answered[s].scope = s =>
         answered[s].serial >= newest[s] /\ Behind(s, answered[s].serial)

CommandInv == CommandTypes /\ Past /\ Ordered /\ DoomedBelow /\ Forwards

LEMMA CommandInit == M!Init => CommandInv
  BY DEF M!Init, CommandInv, CommandTypes, Past, Ordered, DoomedBelow, Forwards, Behind

(* A command is queued: the new row replaces that of its second.           *)
LEMMA QueueKeeps ==
  ASSUME CommandInv, NEW scope \in M!Scopes,
         M!Queue(scope) \/ UNCHANGED <<count, pending>>,
         UNCHANGED <<second, doomed, answered, newest>>
  PROVE  CommandInv'
  <1>0. CommandTypes /\ Past /\ Ordered /\ DoomedBelow /\ Forwards
    BY DEF CommandInv
  <1>1. CASE UNCHANGED <<count, pending>>
    BY <1>0, <1>1 DEF CommandInv, CommandTypes, Past, Ordered, DoomedBelow, Forwards, Behind
  <1>2. CASE M!Queue(scope)
    <2> DEFINE new == [scope |-> scope, at |-> second, serial |-> count + 1]
    <2>1. /\ count' = count + 1
          /\ pending' = {r \in pending : r.scope # scope \/ r.at # second} \cup {new}
      BY <1>2 DEF M!Queue
    <2>2. new \in Commands /\ new.scope = scope /\ new.at = second /\ new.serial = count + 1
      BY <1>0 DEF Commands, CommandTypes
    <2> HIDE DEF new
    <2>3. CommandTypes'
      BY <1>0, <2>1, <2>2 DEF CommandTypes
    <2>4. \A r \in Commands : r.at \in Nat /\ r.serial \in Nat
      BY DEF Commands
    <2>5. Past'
      <3>1. \A r \in pending' : r.at <= second /\ r.serial <= count + 1
        BY <1>0, <2>1, <2>2, <2>4 DEF CommandTypes, Past
      <3>2. \A r \in doomed : r.serial <= count + 1
        BY <1>0, <2>4 DEF CommandTypes, Past
      <3>3. \A s \in Probes : newest[s] <= count + 1
        BY <1>0 DEF CommandTypes, Past
      <3>4. \A s \in Probes : answered[s] # Nothing => answered[s].serial <= count + 1
        BY <1>0, <2>4 DEF CommandTypes, Past
      <3> QED
        BY <2>1, <3>1, <3>2, <3>3, <3>4 DEF Past
    <2>6. ASSUME NEW r \in pending, r.scope = scope, r.at # second
          PROVE  r.at < new.at /\ r.serial < new.serial
      BY <1>0, <2>2, <2>4, <2>6 DEF CommandTypes, Past
    <2>7. Ordered'
      BY <1>0, <2>1, <2>2, <2>6 DEF Ordered
    <2>8. new \notin doomed
      BY <1>0, <2>2 DEF CommandTypes, Past
    <2>9. DoomedBelow'
      <3> SUFFICES ASSUME NEW q \in pending', NEW r \in pending', q.scope = r.scope, q.at <= r.at,
                          r \in doomed
                   PROVE  q \in doomed
        BY DEF DoomedBelow
      <3>1. r \in pending /\ (r.scope # scope \/ r.at # second)
        BY <2>1, <2>8
      <3>2. q # new
        BY <1>0, <2>2, <2>4, <2>6, <3>1 DEF CommandTypes
      <3> QED
        BY <1>0, <2>1, <3>1, <3>2 DEF DoomedBelow
    <2>10. ASSUME NEW s \in Probes, NEW n \in Nat, n <= count, Behind(s, n)
           PROVE  \A r \in pending' : r.scope = s => \E q \in pending' : q.scope = s /\ q.serial >= n
      <3>1. CASE s = scope
        <4>1. new \in pending' /\ new.serial >= n
          BY <1>0, <2>1, <2>2, <2>10 DEF CommandTypes
        <4> QED
          BY <2>2, <3>1, <4>1
      <3>2. CASE s # scope
        BY <2>1, <2>2, <2>10, <3>2 DEF Behind
      <3> QED
        BY <3>1, <3>2
    <2>11. Forwards'
      <3> SUFFICES ASSUME NEW s \in Probes
                   PROVE  /\ Behind(s, newest[s])'
                          /\ answered[s] # Nothing /\ answered[s].scope = s =>
                               answered[s].serial >= newest[s] /\ Behind(s, answered[s].serial)'
        BY DEF Forwards
      <3>1. Behind(s, newest[s])'
        BY <1>0, <2>10 DEF CommandTypes, Past, Forwards, Behind
      <3>2. ASSUME answered[s] # Nothing, answered[s].scope = s
            PROVE  answered[s].serial >= newest[s] /\ Behind(s, answered[s].serial)'
        <4>1. answered[s].serial \in Nat /\ answered[s].serial <= count
          BY <1>0, <2>4, <3>2 DEF CommandTypes, Past
        <4>2. answered[s].serial >= newest[s] /\ Behind(s, answered[s].serial)
          BY <1>0, <3>2 DEF Forwards
        <4> QED
          BY <2>10, <4>1, <4>2 DEF Behind
      <3> QED
        BY <3>1, <3>2
    <2> QED
      BY <2>3, <2>5, <2>7, <2>9, <2>11 DEF CommandInv
  <1> QED
    BY <1>1, <1>2

LEMMA CommandStep == CommandInv /\ [M!Next]_M!vars => CommandInv' /\ \A s \in Probes : newest'[s] >= newest[s]
  <1> SUFFICES ASSUME CommandInv, [M!Next]_M!vars
               PROVE  CommandInv' /\ \A s \in Probes : newest'[s] >= newest[s]
    BY Zenon
  <1>0. CommandTypes /\ Past /\ Ordered /\ DoomedBelow /\ Forwards
    BY DEF CommandInv
  <1>1. ASSUME UNCHANGED newest PROVE \A s \in Probes : newest'[s] >= newest[s]
    BY <1>0, <1>1 DEF CommandTypes
  <1>2. ASSUME NEW scope \in M!Scopes, M!Control(scope)
        PROVE  CommandInv' /\ UNCHANGED newest
    BY <1>2, QueueKeeps DEF M!Control
  <1>3. ASSUME NEW s \in Probes, M!Register(s) PROVE CommandInv' /\ UNCHANGED newest
    <2>1. s \in M!Scopes
      BY DEF M!Scopes
    <2> QED
      BY <1>3, <2>1, QueueKeeps DEF M!Register
  (* What a check-in reads is the latest row of the sensor's own, if any. *)
  <1>4. ASSUME NEW s \in Probes, M!Ask(s) PROVE CommandInv' /\ UNCHANGED newest
    <2>1. PICK r \in M!Candidates(s) : /\ \A q \in M!Candidates(s) : q.at <= r.at
                                       /\ answered' = [answered EXCEPT ![s] = r]
      BY <1>4 DEF M!Ask
    <2>2. UNCHANGED <<second, count, pending, doomed, newest>>
      BY <1>4 DEF M!Ask
    <2>3. r \in pending /\ r \in Commands /\ r.at \in Nat /\ r.serial \in Nat
      BY <1>0, <2>1 DEF M!Candidates, M!Own, CommandTypes, Commands
    <2>4. CommandTypes'
      BY <1>0, <2>1, <2>2, <2>3 DEF CommandTypes
    <2>5. Past'
      BY <1>0, <2>1, <2>2, <2>3 DEF CommandTypes, Past
    <2>6. Ordered' /\ DoomedBelow'
      BY <1>0, <2>2 DEF Ordered, DoomedBelow
    <2>7. ASSUME r.scope = s PROVE r.serial >= newest[s] /\ Behind(s, r.serial)
      <3>1. \A q \in pending : q.scope = s => q \in M!Candidates(s)
        BY DEF M!Candidates, M!Own
      <3>2. PICK q \in pending : q.scope = s /\ q.serial >= newest[s]
        BY <1>0, <2>3, <2>7 DEF Forwards, Behind
      <3>3. q.at <= r.at /\ q.at \in Nat /\ q.serial \in Nat /\ newest[s] \in Nat
        BY <1>0, <2>1, <3>1, <3>2 DEF CommandTypes, Commands
      <3>4. q = r \/ q.serial < r.serial
        BY <1>0, <2>3, <2>7, <3>2, <3>3 DEF Ordered
      <3> QED
        BY <2>3, <2>7, <3>2, <3>3, <3>4 DEF Behind
    <2>8. Forwards'
      <3> SUFFICES ASSUME NEW p \in Probes
                   PROVE  /\ Behind(p, newest[p])'
                          /\ answered'[p] # Nothing /\ answered'[p].scope = p =>
                               answered'[p].serial >= newest[p] /\ Behind(p, answered[p].serial)'
        BY <2>2 DEF Forwards
      <3>1. Behind(p, newest[p])'
        BY <1>0, <2>2 DEF Forwards, Behind
      <3>2. CASE p = s
        <4>1. answered'[p] = r
          BY <1>0, <2>1, <3>2 DEF CommandTypes
        <4> QED
          BY <2>2, <2>7, <3>1, <3>2, <4>1 DEF Behind
      <3>3. CASE p # s
        <4>1. answered'[p] = answered[p]
          BY <1>0, <2>1, <3>3 DEF CommandTypes
        <4> QED
          BY <1>0, <2>2, <3>1, <4>1 DEF Forwards, Behind
      <3> QED
        BY <3>2, <3>3
    <2> QED
      BY <2>2, <2>4, <2>5, <2>6, <2>8 DEF CommandInv
  (* Every pending row of the scope is marked, or none. *)
  <1>5. ASSUME NEW s \in Probes, M!Answer(s)
        PROVE  CommandInv' /\ \A p \in Probes : newest'[p] >= newest[p]
    <2>1. PICK r \in Commands : r = answered[s] /\ answered[s] # Nothing
      BY <1>0, <1>5 DEF M!Answer, CommandTypes
    <2>2. /\ answered' = [answered EXCEPT ![s] = Nothing]
          /\ doomed' \in {doomed, doomed \cup M!Cleared(r)}
          /\ newest' \in {newest, IF r.scope = s THEN [newest EXCEPT ![s] = r.serial] ELSE newest}
          /\ UNCHANGED <<second, count, pending>>
      BY <1>5, <2>1 DEF M!Answer, M!Execute
    <2>3. M!Cleared(r) = {q \in pending : q.scope = r.scope}
      BY DEF M!Cleared
    <2>4. r.serial \in Nat /\ r.serial <= count
      BY <1>0, <2>1 DEF Commands, Past
    <2>5. \A p \in Probes : newest'[p] = newest[p]
                            \/ (p = s /\ r.scope = s /\ newest'[p] = r.serial)
      BY <1>0, <2>2 DEF CommandTypes
    <2>6. \A p \in Probes : newest'[p] \in Nat /\ newest'[p] >= newest[p] /\ newest'[p] <= count
                            /\ Behind(p, newest'[p])
      <3> SUFFICES ASSUME NEW p \in Probes
                   PROVE  newest'[p] \in Nat /\ newest'[p] >= newest[p] /\ newest'[p] <= count
                          /\ Behind(p, newest'[p])
        OBVIOUS
      <3>1. newest[p] \in Nat /\ newest[p] <= count /\ Behind(p, newest[p])
        BY <1>0 DEF CommandTypes, Past, Forwards
      <3>2. CASE p = s /\ r.scope = s /\ newest'[p] = r.serial
        <4>1. r.serial >= newest[p] /\ Behind(p, r.serial)
          BY <1>0, <2>1, <3>2 DEF Forwards
        <4>2. PICK m \in Nat : m = r.serial /\ newest'[p] = m
          BY <2>4, <3>2
        <4> QED
          BY <2>4, <4>1, <4>2
      <3>3. CASE newest'[p] = newest[p]
        <4>1. PICK m \in Nat : m = newest[p] /\ newest'[p] = m
          BY <3>1, <3>3
        <4> QED
          BY <3>1, <4>1
      <3> QED
        BY <2>5, <3>2, <3>3
    <2>7. CommandTypes'
      <3>1. doomed' \subseteq Commands /\ answered' \in [Probes -> Commands \cup {Nothing}]
        BY <1>0, <2>2, <2>3 DEF CommandTypes
      <3>2. newest' \in [Probes -> Nat]
        BY <1>0, <2>2, <2>4 DEF CommandTypes
      <3> QED
        BY <1>0, <2>2, <3>1, <3>2 DEF CommandTypes
    <2>8. Past'
      BY <1>0, <2>2, <2>3, <2>6 DEF CommandTypes, Past
    <2>9. Ordered'
      BY <1>0, <2>2 DEF Ordered
    <2>10. DoomedBelow'
      BY <1>0, <2>2, <2>3 DEF DoomedBelow
    <2>11. Forwards'
      <3> SUFFICES ASSUME NEW p \in Probes
                   PROVE  /\ Behind(p, newest[p])'
                          /\ answered'[p] # Nothing /\ answered'[p].scope = p =>
                               answered'[p].serial >= newest'[p] /\ Behind(p, answered[p].serial)'
        BY DEF Forwards
      <3>1. Behind(p, newest[p])'
        BY <2>2, <2>6 DEF Behind
      <3>2. ASSUME answered'[p] # Nothing, answered'[p].scope = p
            PROVE  answered'[p].serial >= newest'[p] /\ Behind(p, answered[p].serial)'
        <4>1. p # s /\ answered'[p] = answered[p]
          BY <1>0, <2>2, <3>2 DEF CommandTypes
        <4>2. newest'[p] = newest[p]
          BY <2>5, <4>1
        <4> QED
          BY <1>0, <2>2, <3>2, <4>1, <4>2 DEF Forwards, Behind
      <3> QED
        BY <3>1, <3>2
    <2> QED
      BY <2>6, <2>7, <2>8, <2>9, <2>10, <2>11 DEF CommandInv
  (* The marked rows go: what stays of a scope is later than all of them. *)
  <1>6. ASSUME M!Mutate PROVE CommandInv' /\ UNCHANGED newest
    <2>1. pending' = pending \ doomed /\ doomed' = {} /\ UNCHANGED <<second, count, answered, newest>>
      BY <1>6 DEF M!Mutate
    <2>2. CommandTypes' /\ Past' /\ Ordered' /\ DoomedBelow'
      BY <1>0, <2>1 DEF CommandTypes, Past, Ordered, DoomedBelow
    <2>3. ASSUME NEW s \in Probes, NEW n \in Nat, Behind(s, n)
          PROVE  \A r \in pending' : r.scope = s => \E q \in pending' : q.scope = s /\ q.serial >= n
      <3> SUFFICES ASSUME NEW r \in pending', r.scope = s
                   PROVE  \E q \in pending' : q.scope = s /\ q.serial >= n
        OBVIOUS
      <3>1. r \in pending /\ r \notin doomed
        BY <2>1
      <3>2. PICK q \in pending : q.scope = s /\ q.serial >= n
        BY <2>3, <3>1 DEF Behind
      <3>3. CASE q \in doomed
        <4>1. q.at \in Nat /\ r.at \in Nat /\ q.serial \in Nat /\ r.serial \in Nat
          BY <1>0, <3>1 DEF CommandTypes, Commands
        <4>2. ~ (r.at <= q.at)
          BY <1>0, <3>1, <3>2, <3>3 DEF DoomedBelow
        <4>3. q.serial < r.serial
          BY <1>0, <3>1, <3>2, <4>1, <4>2 DEF Ordered
        <4> QED
          BY <3>2, <4>1, <4>3
      <3>4. CASE q \notin doomed
        BY <2>1, <3>2, <3>4
      <3> QED
        BY <3>3, <3>4
    <2>4. Forwards'
      <3> SUFFICES ASSUME NEW s \in Probes
                   PROVE  /\ Behind(s, newest[s])'
                          /\ answered[s] # Nothing /\ answered[s].scope = s =>
                               answered[s].serial >= newest[s] /\ Behind(s, answered[s].serial)'
        BY <2>1 DEF Forwards
      <3>1. Behind(s, newest[s])'
        BY <1>0, <2>1, <2>3 DEF CommandTypes, Forwards, Behind
      <3>2. ASSUME answered[s] # Nothing, answered[s].scope = s
            PROVE  answered[s].serial >= newest[s] /\ Behind(s, answered[s].serial)'
        <4>1. answered[s].serial \in Nat
          BY <1>0, <3>2 DEF CommandTypes, Commands
        <4>2. answered[s].serial >= newest[s] /\ Behind(s, answered[s].serial)
          BY <1>0, <3>2 DEF Forwards
        <4> QED
          BY <2>1, <2>3, <4>1, <4>2 DEF Behind
      <3> QED
        BY <3>1, <3>2
    <2> QED
      BY <2>1, <2>2, <2>4 DEF CommandInv
  <1>7. CASE M!Tick \/ UNCHANGED M!vars
    <2>1. second' \in {second, second + 1} /\ UNCHANGED <<count, pending, doomed, answered, newest>>
      BY <1>7 DEF M!Tick, M!vars
    <2>2. CommandTypes'
      BY <1>0, <2>1 DEF CommandTypes
    <2>3. Past'
      <3>1. \A r \in pending : r.at <= second'
        BY <1>0, <2>1 DEF CommandTypes, Commands, Past
      <3> QED
        BY <1>0, <2>1, <3>1 DEF Past
    <2>4. Ordered' /\ DoomedBelow' /\ Forwards'
      BY <1>0, <2>1 DEF Ordered, DoomedBelow, Forwards, Behind
    <2> QED
      BY <1>1, <2>1, <2>2, <2>3, <2>4 DEF CommandInv
  <1> QED
    BY <1>1, <1>2, <1>3, <1>4, <1>5, <1>6, <1>7 DEF M!Next

(* For any number of sensors, commands and lost answers: after a command   *)
(* of its own a sensor executes no older one.                              *)
THEOREM NeverGoesBackwards == M!Spec => NeverBackwards
<1>1. CommandInv /\ [M!Next]_M!vars => [\A s \in Probes : newest'[s] >= newest[s]]_M!vars
  BY CommandStep
<1>2. CommandInv /\ [M!Next]_M!vars => CommandInv'
  BY CommandStep
<1> QED
  BY <1>1, <1>2, CommandInit, PTL DEF M!Spec, NeverBackwards, M!NeverBackwards

-----------------------------------------------------------------------------
(* Evidence.                                                               *)

Works == [pc : E!Pcs, path : E!Paths, cid : Cids, id : Processes,
          lost : BOOLEAN, off : BOOLEAN, did : BOOLEAN]

Saved == [id : Processes, cid : Cids, file : BOOLEAN, at : Nat]

EvidenceTypes ==
  /\ clock \in Nat
  /\ job \in [Processes -> {NoJob} \cup Works]
  /\ pair \in [E!Pairs -> Nat]
  /\ bundles \subseteq Saved

Analysing == {"slot", "expire", "release", "ai", "erase", "note", "crashed"}

(* The claim of a pair is taken by the analysis of a correlated alert only,*)
(* and a direct alert, which is analysed too, takes none.                  *)
OnItsPath ==
  \A j \in Processes : job[j] # NoJob /\ job[j].pc \in {"claim", "slot", "expire", "release"} =>
    job[j].path = "correlated"

Uses(j, p) ==
  /\ job[j] # NoJob /\ SessionPair[job[j].cid] = p /\ job[j].path = "correlated"
  /\ job[j].pc \in Analysing \/ job[j].lost \/ job[j].off \/ job[j].did
Used == \A p \in E!Pairs : clock < pair[p] => \E j \in Processes : Uses(j, p)

EvidenceInv == EvidenceTypes /\ OnItsPath /\ Used

LEMMA EvidenceInit == E!Init => EvidenceInv
  BY DEF E!Init, EvidenceInv, EvidenceTypes, OnItsPath, Used

(* A job goes on with the same alert: it uses its claim as before unless   *)
(* it ends with nothing lost.                                              *)
LEMMA JobGoesOn ==
  ASSUME EvidenceInv, NEW j \in Processes, job[j] # NoJob, NEW t \in Works,
         job' = [job EXCEPT ![j] = t],
         t.path = job[j].path, t.cid = job[j].cid,
         job[j].lost => t.lost, job[j].off => t.off, job[j].did => t.did,
         t.pc \in {"claim", "slot", "expire", "release"} => job[j].path = "correlated",
         UNCHANGED clock, bundles' \subseteq Saved, pair' \in [E!Pairs -> Nat],
         \A p \in E!Pairs : clock < pair'[p] =>
           clock < pair[p] \/ (p = SessionPair[job[j].cid] /\ job[j].path = "correlated" /\ t.pc \in Analysing),
         job[j].pc \in Analysing /\ job[j].path = "correlated" =>
           t.pc \in Analysing \/ t.lost \/ t.off \/ t.did \/ ~ (clock < pair'[SessionPair[job[j].cid]])
  PROVE  EvidenceInv'
  <1>0. EvidenceTypes /\ OnItsPath /\ Used
    BY DEF EvidenceInv
  <1>1. job' \in [Processes -> {NoJob} \cup Works] /\ job'[j] = t /\ t # NoJob
        /\ \A i \in Processes \ {j} : job'[i] = job[i]
    BY <1>0, EvidenceAssumption DEF EvidenceTypes, Works
  <1>2. EvidenceTypes'
    BY <1>0, <1>1 DEF EvidenceTypes
  <1>3. OnItsPath'
    BY <1>0, <1>1 DEF OnItsPath
  <1>4. Used'
    <2> SUFFICES ASSUME NEW p \in E!Pairs, clock < pair'[p] PROVE \E i \in Processes : Uses(i, p)'
      BY DEF Used
    <2>1. CASE clock < pair[p]
      <3>1. PICK i \in Processes : Uses(i, p)
        BY <1>0, <2>1 DEF Used
      <3>2. CASE i # j
        BY <1>1, <3>1, <3>2 DEF Uses
      <3>3. CASE i = j
        BY <1>1, <3>1, <3>3 DEF Uses
      <3> QED
        BY <3>2, <3>3
    <2>2. CASE ~ (clock < pair[p])
      BY <1>1, <2>2 DEF Uses
    <2> QED
      BY <2>1, <2>2
  <1> QED
    BY <1>2, <1>3, <1>4 DEF EvidenceInv

(* A session's oldest bundle is one of its bundles.                        *)
LEMMA OldestIsOne ==
  ASSUME NEW B, B \subseteq Saved, B # {}
  PROVE  E!Oldest(B) \in B /\ E!Oldest(B).id \in Processes
  <1> DEFINE times == {q.at : q \in B}
  <1>1. times \subseteq Nat /\ times # {}
    BY DEF Saved
  <1> HIDE DEF times
  <1>2. PICK m \in times : \A k \in times : <<k, m>> \notin OpToRel(<, Nat)
    BY <1>1, WFMin, NatLessThanWellFounded, Zenon
  <1>3. \A k \in times : ~ (k < m)
    BY <1>1, <1>2, Zenon DEF OpToRel
  <1>4. m \in Nat /\ \A k \in times : k \in Nat /\ m <= k
    BY <1>1, <1>3
  <1>5. \E q \in B : \A k \in B : q.at <= k.at
    BY <1>4 DEF times
  <1> QED
    BY <1>5 DEF E!Oldest, Saved

LEMMA EvidenceStep == EvidenceInv /\ [E!Next]_E!vars => EvidenceInv'
  <1> SUFFICES ASSUME EvidenceInv, [E!Next]_E!vars PROVE EvidenceInv'
    BY Zenon
  <1>0. EvidenceTypes /\ OnItsPath /\ Used
    BY DEF EvidenceInv
  <1>1. ASSUME NEW j \in Processes, NEW c \in Cids, NEW path \in E!Paths, E!Begin(j, path, c),
               UNCHANGED pair
        PROVE  EvidenceInv'
    <2>1. job[j] = NoJob /\ UNCHANGED <<clock, bundles>>
      BY <1>1 DEF E!Begin, E!store
    <2>2. PICK t \in Works : t.pc = "build" /\ job' = [job EXCEPT ![j] = t]
      <3> DEFINE t == [pc |-> "build", path |-> path, cid |-> c, id |-> j,
                       lost |-> FALSE, off |-> FALSE, did |-> FALSE]
      <3>1. t \in Works /\ t.pc = "build"
        BY DEF Works, E!Pcs
      <3> QED
        BY <1>1, <3>1 DEF E!Begin
    <2>3. EvidenceTypes'
      BY <1>0, <1>1, <2>1, <2>2 DEF EvidenceTypes
    <2>4. OnItsPath'
      BY <1>0, <2>2 DEF OnItsPath, EvidenceTypes
    <2>5. \A i \in Processes, p \in E!Pairs : Uses(i, p) => Uses(i, p)'
      BY <1>0, <2>1, <2>2 DEF Uses, EvidenceTypes
    <2>6. Used'
      BY <1>0, <1>1, <2>1, <2>5 DEF Used
    <2> QED
      BY <2>3, <2>4, <2>6 DEF EvidenceInv
  <1>2. ASSUME NEW j \in Processes, NEW c \in Cids,
               \/ E!StartCorrelated(j, c) \/ E!StartDirect(j, c)
               \/ \E path \in {"beacon", "manual", "download"} : E!StartOther(j, c, path)
        PROVE  EvidenceInv'
    <2>1. UNCHANGED pair /\ \E path \in E!Paths : E!Begin(j, path, c)
      BY <1>2 DEF E!StartCorrelated, E!StartDirect, E!StartOther, E!claims, E!Paths
    <2> QED
      BY <1>1, <2>1
  (* What a job's step makes of its record. *)
  <1>3. ASSUME NEW j \in Processes, job[j] # NoJob
        PROVE  /\ job[j] \in Works
               /\ \A pc \in E!Pcs : [job[j] EXCEPT !.pc = pc] \in Works
               /\ \A pc \in E!Pcs, i \in Processes : [job[j] EXCEPT !.pc = pc, !.id = i] \in Works
               /\ \A pc \in E!Pcs : [job[j] EXCEPT !.pc = pc, !.lost = TRUE] \in Works
               /\ \A pc \in E!Pcs : [job[j] EXCEPT !.pc = pc, !.off = TRUE] \in Works
               /\ \A pc \in E!Pcs : [job[j] EXCEPT !.pc = pc, !.did = TRUE] \in Works
               /\ SessionPair[job[j].cid] \in E!Pairs
    <2>1. job[j] \in Works
      BY <1>0, <1>3 DEF EvidenceTypes
    <2> QED
      BY <2>1 DEF Works, E!Pairs
  (* Steps before the claim, and those after it that keep the job at it. *)
  <1>4. ASSUME NEW j \in Processes, job[j] # NoJob, NEW pc \in E!Pcs,
               \/ job' = [job EXCEPT ![j].pc = pc]
               \/ job' = [job EXCEPT ![j].pc = pc, ![j].lost = TRUE]
               \/ job' = [job EXCEPT ![j].pc = pc, ![j].off = TRUE]
               \/ job' = [job EXCEPT ![j].pc = pc, ![j].did = TRUE]
               \/ \E i \in Processes : job' = [job EXCEPT ![j].pc = pc, ![j].id = i],
               pc \in {"claim", "slot", "expire", "release"} => job[j].path = "correlated",
               job[j].pc \in Analysing =>
                 \/ pc \in Analysing
                 \/ job' = [job EXCEPT ![j].pc = pc, ![j].lost = TRUE]
                 \/ job' = [job EXCEPT ![j].pc = pc, ![j].off = TRUE]
                 \/ job' = [job EXCEPT ![j].pc = pc, ![j].did = TRUE],
               UNCHANGED <<clock, pair>>, bundles' \subseteq Saved
        PROVE  EvidenceInv'
    <2>1. job[j] \in Works /\ pair' \in [E!Pairs -> Nat]
      BY <1>0, <1>3, <1>4 DEF EvidenceTypes
    <2>2. CASE job' = [job EXCEPT ![j].pc = pc] /\ (job[j].pc \in Analysing => pc \in Analysing)
      <3>1. PICK t \in Works : t = [job[j] EXCEPT !.pc = pc]
        BY <1>3, <1>4
      <3>2. job' = [job EXCEPT ![j] = t] /\ t.pc = pc /\ t.path = job[j].path /\ t.cid = job[j].cid
            /\ t.lost = job[j].lost /\ t.off = job[j].off /\ t.did = job[j].did
        BY <2>1, <2>2, <3>1 DEF Works
      <3>3. /\ (job[j].lost => t.lost) /\ (job[j].off => t.off) /\ (job[j].did => t.did)
            /\ t.pc \in {"claim", "slot", "expire", "release"} => job[j].path = "correlated"
            /\ job[j].pc \in Analysing => t.pc \in Analysing
        BY <1>4, <2>2, <3>2
      <3>4. UNCHANGED <<clock, pair>>
        BY <1>4
      <3> QED
        BY <1>4, <2>1, <3>2, <3>3, <3>4, JobGoesOn
    <2>3. CASE job' = [job EXCEPT ![j].pc = pc, ![j].lost = TRUE]
      <3>1. PICK t \in Works : t = [job[j] EXCEPT !.pc = pc, !.lost = TRUE]
        BY <1>3, <1>4
      <3>2. job' = [job EXCEPT ![j] = t] /\ t.pc = pc /\ t.path = job[j].path /\ t.cid = job[j].cid
            /\ t.lost /\ t.off = job[j].off /\ t.did = job[j].did
        BY <1>0, <2>1, <2>3, <3>1 DEF Works, EvidenceTypes
      <3> QED
        BY <1>4, <2>1, <3>1, <3>2, JobGoesOn
    <2>4. CASE job' = [job EXCEPT ![j].pc = pc, ![j].off = TRUE]
      <3>1. PICK t \in Works : t = [job[j] EXCEPT !.pc = pc, !.off = TRUE]
        BY <1>3, <1>4
      <3>2. job' = [job EXCEPT ![j] = t] /\ t.pc = pc /\ t.path = job[j].path /\ t.cid = job[j].cid
            /\ t.lost = job[j].lost /\ t.off /\ t.did = job[j].did
        BY <1>0, <2>1, <2>4, <3>1 DEF Works, EvidenceTypes
      <3> QED
        BY <1>4, <2>1, <3>1, <3>2, JobGoesOn
    <2>5. CASE job' = [job EXCEPT ![j].pc = pc, ![j].did = TRUE]
      <3>1. PICK t \in Works : t = [job[j] EXCEPT !.pc = pc, !.did = TRUE]
        BY <1>3, <1>4
      <3>2. job' = [job EXCEPT ![j] = t] /\ t.pc = pc /\ t.path = job[j].path /\ t.cid = job[j].cid
            /\ t.lost = job[j].lost /\ t.off = job[j].off /\ t.did
        BY <1>0, <2>1, <2>5, <3>1 DEF Works, EvidenceTypes
      <3> QED
        BY <1>4, <2>1, <3>1, <3>2, JobGoesOn
    <2>6. ASSUME NEW i \in Processes, job' = [job EXCEPT ![j].pc = pc, ![j].id = i],
                 job[j].pc \in Analysing => pc \in Analysing
          PROVE  EvidenceInv'
      <3>1. PICK t \in Works : t = [job[j] EXCEPT !.pc = pc, !.id = i]
        BY <1>3, <1>4
      <3>2. job' = [job EXCEPT ![j] = t] /\ t.pc = pc /\ t.path = job[j].path /\ t.cid = job[j].cid
            /\ t.lost = job[j].lost /\ t.off = job[j].off /\ t.did = job[j].did
        BY <1>0, <2>1, <2>6, <3>1 DEF Works, EvidenceTypes
      <3>3. /\ (job[j].lost => t.lost) /\ (job[j].off => t.off) /\ (job[j].did => t.did)
            /\ t.pc \in {"claim", "slot", "expire", "release"} => job[j].path = "correlated"
            /\ job[j].pc \in Analysing => t.pc \in Analysing
        BY <1>4, <2>6, <3>2
      <3>4. UNCHANGED <<clock, pair>>
        BY <1>4
      <3> QED
        BY <1>4, <2>1, <3>2, <3>3, <3>4, JobGoesOn
    <2> QED
      BY <1>4, <2>2, <2>3, <2>4, <2>5, <2>6
  <1>5. ASSUME NEW j \in Processes,
               E!Build(j) \/ E!Look(j) \/ E!InsertRow(j) \/ E!Settle(j)
        PROVE  EvidenceInv'
    <2>1. job[j] # NoJob /\ job[j].pc \in {"build", "look", "insert", "settle"}
          /\ UNCHANGED <<clock, pair>>
      BY <1>5 DEF E!Build, E!Look, E!InsertRow, E!Settle, E!At, E!Busy, E!claims
    <2>2. job[j].pc \notin Analysing
      BY <2>1 DEF Analysing
    <2>3. CASE E!Build(j)
      <3>1. \E pc \in {"look", "ended"} : job' = [job EXCEPT ![j].pc = pc]
        BY <2>3 DEF E!Build, E!Goto
      <3> QED
        BY <1>0, <1>4, <2>1, <2>2, <2>3, <3>1 DEF E!Pcs, E!Build, E!store, EvidenceTypes
    <2>4. CASE E!InsertRow(j)
      <3>1. job' = [job EXCEPT ![j].pc = "settle"] \/ job' = [job EXCEPT ![j].pc = "settle", ![j].lost = TRUE]
        BY <2>4 DEF E!InsertRow, E!Goto
      <3>2. E!NewRow(j) \in Saved
        BY <1>0, <1>3, <2>1 DEF E!NewRow, Works, Saved, EvidenceTypes
      <3>3. bundles' \subseteq Saved
        BY <1>0, <2>4, <3>2 DEF E!InsertRow, EvidenceTypes
      <3> QED
        BY <1>4, <2>1, <2>2, <3>1, <3>3 DEF E!Pcs
    <2>5. CASE E!Look(j)
      <3>1. PICK B : B = E!BundlesOf(job[j].cid)
        OBVIOUS
      <3>2. B \subseteq bundles
        BY <3>1 DEF E!BundlesOf
      <3>3. B # {} => E!Oldest(B).id \in Processes
        BY <1>0, <3>2, OldestIsOne DEF EvidenceTypes
      <3>4. \/ job' = [job EXCEPT ![j].pc = "insert"]
            \/ B # {} /\ job' = [job EXCEPT ![j].pc = "settle", ![j].id = E!Oldest(B).id]
        BY <2>5, <3>1 DEF E!Look, E!Goto
      <3>5. UNCHANGED bundles
        BY <2>5 DEF E!Look, E!store
      <3>6. CASE job' = [job EXCEPT ![j].pc = "insert"]
        BY <1>0, <1>4, <2>1, <2>2, <3>5, <3>6 DEF E!Pcs, EvidenceTypes
      <3>7. ASSUME NEW i \in Processes, job' = [job EXCEPT ![j].pc = "settle", ![j].id = i]
            PROVE  EvidenceInv'
        BY <1>0, <1>4, <2>1, <2>2, <3>5, <3>7 DEF E!Pcs, EvidenceTypes
      <3> QED
        BY <3>3, <3>4, <3>6, <3>7
    <2>6. CASE E!Settle(j)
      <3>1. PICK pc \in E!AfterSettle(j), i \in Processes :
               job' = [job EXCEPT ![j].pc = pc, ![j].id = i]
        <4>1. job[j].id \in Processes
          BY <1>3, <2>1 DEF Works
        <4>2. PICK pc \in E!AfterSettle(j) :
                job' = [job EXCEPT ![j].pc = pc, ![j].id = IF E!KeepsOwn(j) THEN j ELSE @]
          BY <2>6 DEF E!Settle
        <4>3. PICK i \in Processes : i = IF E!KeepsOwn(j) THEN j ELSE job[j].id
          BY <4>1
        <4>4. job' = [job EXCEPT ![j].pc = pc, ![j].id = i]
          BY <4>2, <4>3
        <4> QED
          BY <4>4
      <3>2. pc \in {"claim", "ai", "ended"} /\ (pc = "claim" => job[j].path = "correlated")
        BY DEF E!AfterSettle
      <3>3. UNCHANGED bundles
        BY <2>6 DEF E!Settle, E!store
      <3> QED
        BY <1>0, <1>4, <2>1, <2>2, <3>1, <3>2, <3>3 DEF E!Pcs, EvidenceTypes
    <2> QED
      BY <1>5, <2>3, <2>4, <2>5, <2>6
  (* The claim, the slot, and the claim's release. *)
  <1>6. ASSUME NEW j \in Processes, NEW pc \in E!Pcs, job[j] # NoJob,
               job' = [job EXCEPT ![j].pc = pc], job[j].path = "correlated",
               UNCHANGED <<clock, bundles>>, pair' \in [E!Pairs -> Nat],
               NEW p, p = SessionPair[job[j].cid],
               \A q \in E!Pairs \ {p} : pair'[q] = pair[q],
               clock < pair'[p] => pc \in Analysing \/ (pair'[p] = pair[p] /\ job[j].pc = "claim")
        PROVE  EvidenceInv'
    <2>1. PICK t \in Works : t = [job[j] EXCEPT !.pc = pc]
      BY <1>3, <1>6
    <2>2. job' = [job EXCEPT ![j] = t] /\ t.pc = pc /\ t.path = job[j].path /\ t.cid = job[j].cid
          /\ t.lost = job[j].lost /\ t.off = job[j].off /\ t.did = job[j].did
      BY <1>3, <1>6, <2>1 DEF Works
    <2>3. /\ (job[j].lost => t.lost) /\ (job[j].off => t.off) /\ (job[j].did => t.did)
          /\ t.pc \in {"claim", "slot", "expire", "release"} => job[j].path = "correlated"
          /\ \A q \in E!Pairs : clock < pair'[q] =>
               clock < pair[q] \/ (q = SessionPair[job[j].cid] /\ job[j].path = "correlated"
                                   /\ t.pc \in Analysing)
          /\ job[j].pc \in Analysing /\ job[j].path = "correlated" =>
               t.pc \in Analysing \/ ~ (clock < pair'[SessionPair[job[j].cid]])
      BY <1>6, <2>2 DEF Analysing
    <2>4. UNCHANGED clock /\ bundles' \subseteq Saved
      BY <1>0, <1>6 DEF EvidenceTypes
    <2> QED
      BY <1>6, <2>2, <2>3, <2>4, JobGoesOn
  <1>7. ASSUME NEW j \in Processes, E!ClaimPair(j) PROVE EvidenceInv'
    <2>1. /\ job[j] # NoJob /\ job[j].pc = "claim" /\ UNCHANGED <<clock, bundles>>
          /\ \/ job' = [job EXCEPT ![j].pc = "slot"]
                /\ pair' \in {pair, [pair EXCEPT ![SessionPair[job[j].cid]] = clock + PairTTL]}
             \/ job' = [job EXCEPT ![j].pc = "ended"] /\ pair' = pair
      BY <1>7 DEF E!ClaimPair, E!Claim, E!At, E!Busy, E!Goto, E!Pair, E!store
    <2>2. job[j].path = "correlated"
      BY <1>0, <2>1 DEF OnItsPath
    <2>3. PICK p \in E!Pairs : p = SessionPair[job[j].cid]
      BY <1>3, <2>1
    <2>4. pair' \in [E!Pairs -> Nat] /\ \A q \in E!Pairs \ {p} : pair'[q] = pair[q]
      BY <1>0, <2>1, <2>3, EvidenceAssumption DEF EvidenceTypes
    <2>5. CASE job' = [job EXCEPT ![j].pc = "slot"]
      <3>1. "slot" \in E!Pcs /\ "slot" \in Analysing
        BY DEF E!Pcs, Analysing
      <3> QED
        BY <1>6, <2>1, <2>2, <2>3, <2>4, <2>5, <3>1
    <2>6. CASE job' = [job EXCEPT ![j].pc = "ended"] /\ pair' = pair
      <3>1. "ended" \in E!Pcs
        BY DEF E!Pcs
      <3> QED
        BY <1>6, <2>1, <2>2, <2>3, <2>4, <2>6, <3>1
    <2> QED
      BY <2>1, <2>5, <2>6
  <1>8. ASSUME NEW j \in Processes, E!TakeSlot(j) \/ E!SetExpiry(j) PROVE EvidenceInv'
    <2>1. /\ job[j] # NoJob /\ job[j].pc \in {"slot", "expire"} /\ UNCHANGED <<clock, bundles, pair>>
          /\ \E pc \in {"expire", "ai", "release"} : job' = [job EXCEPT ![j].pc = pc]
      BY <1>8 DEF E!TakeSlot, E!SetExpiry, E!At, E!Busy, E!Goto, E!store
    <2>2. job[j].path = "correlated"
      BY <1>0, <2>1 DEF OnItsPath
    <2> QED
      BY <1>0, <1>4, <2>1, <2>2 DEF E!Pcs, Analysing, EvidenceTypes
  <1>9. ASSUME NEW j \in Processes, E!ReleasePair(j) PROVE EvidenceInv'
    <2>1. /\ job[j] # NoJob /\ job[j].pc = "release" /\ UNCHANGED <<clock, bundles>>
          /\ job' = [job EXCEPT ![j].pc = "ended"]
          /\ pair' = [pair EXCEPT ![SessionPair[job[j].cid]] = 0]
      BY <1>9 DEF E!ReleasePair, E!Released, E!At, E!Busy, E!Goto, E!Pair, E!store
    <2>2. job[j].path = "correlated"
      BY <1>0, <2>1 DEF OnItsPath
    <2>3. PICK p \in E!Pairs : p = SessionPair[job[j].cid]
      BY <1>3, <2>1
    <2>4. pair' \in [E!Pairs -> Nat] /\ (\A q \in E!Pairs \ {p} : pair'[q] = pair[q])
          /\ ~ (clock < pair'[p])
      BY <1>0, <2>1, <2>3 DEF EvidenceTypes
    <2>5. "ended" \in E!Pcs
      BY DEF E!Pcs
    <2> QED
      BY <1>6, <2>1, <2>2, <2>3, <2>4, <2>5
  (* The analysis. *)
  <1>10. ASSUME NEW j \in Processes, E!Ask(j) \/ E!Erase(j) \/ E!Note(j) PROVE EvidenceInv'
    <2>1. /\ job[j] # NoJob /\ UNCHANGED <<clock, bundles, pair>>
          /\ \/ \E pc \in {"erase", "note"} : job' = [job EXCEPT ![j].pc = pc]
             \/ job' = [job EXCEPT ![j].pc = "ended", ![j].lost = TRUE]
             \/ job' = [job EXCEPT ![j].pc = "ended", ![j].off = TRUE]
             \/ job' = [job EXCEPT ![j].pc = "ended", ![j].did = TRUE]
      BY <1>10 DEF E!Ask, E!Erase, E!Note, E!At, E!Busy, E!Goto, E!store, E!claims
    <2>2. bundles' \subseteq Saved
      BY <1>0, <2>1 DEF EvidenceTypes
    <2>3. CASE \E pc \in {"erase", "note"} : job' = [job EXCEPT ![j].pc = pc]
      BY <1>4, <2>1, <2>2, <2>3 DEF E!Pcs, Analysing
    <2>4. CASE \/ job' = [job EXCEPT ![j].pc = "ended", ![j].lost = TRUE]
               \/ job' = [job EXCEPT ![j].pc = "ended", ![j].off = TRUE]
               \/ job' = [job EXCEPT ![j].pc = "ended", ![j].did = TRUE]
      <3>1. "ended" \in E!Pcs /\ "ended" \notin {"claim", "slot", "expire", "release"}
        BY DEF E!Pcs
      <3> QED
        BY <1>4, <2>1, <2>2, <2>4, <3>1
    <2> QED
      BY <2>1, <2>3, <2>4
  <1>11. ASSUME NEW Z \in SUBSET Processes, E!Crash(Z) PROVE EvidenceInv'
    <2>1. /\ \A j \in Z : job[j] # NoJob
          /\ job' = [j \in Processes |-> IF j \in Z THEN [job[j] EXCEPT !.pc = "crashed"] ELSE job[j]]
          /\ UNCHANGED <<clock, pair, bundles>>
      BY <1>11 DEF E!Crash, E!Busy, E!store, E!claims
    <2>2. ASSUME NEW j \in Z
          PROVE  /\ job'[j] \in Works /\ job'[j].pc = "crashed" /\ job'[j].path = job[j].path
                 /\ job'[j].cid = job[j].cid /\ job'[j] # NoJob
      <3>1. [job[j] EXCEPT !.pc = "crashed"] \in Works
        BY <1>3, <2>1 DEF E!Pcs
      <3>2. job'[j] = [job[j] EXCEPT !.pc = "crashed"] /\ job[j] \in Works
        BY <1>3, <2>1
      <3> QED
        BY <3>1, <3>2, EvidenceAssumption DEF Works
    <2>3. \A j \in Processes \ Z : job'[j] = job[j]
      BY <2>1
    <2>4. EvidenceTypes'
      BY <1>0, <2>1, <2>2, <2>3 DEF EvidenceTypes
    <2>5. OnItsPath'
      BY <1>0, <2>2, <2>3 DEF OnItsPath
    <2>6. \A j \in Processes, p \in E!Pairs : Uses(j, p) => Uses(j, p)'
      BY <2>2, <2>3 DEF Uses, Analysing
    <2>7. Used'
      BY <1>0, <2>1, <2>6 DEF Used
    <2> QED
      BY <2>4, <2>5, <2>7 DEF EvidenceInv
  <1>12. CASE E!Tick \/ UNCHANGED E!vars
    <2>1. clock' \in {clock, clock + 1} /\ UNCHANGED <<job, pair, bundles>>
      BY <1>12 DEF E!Tick, E!vars, E!store
    <2>2. EvidenceTypes' /\ OnItsPath'
      BY <1>0, <2>1 DEF EvidenceTypes, OnItsPath
    <2>3. \A p \in E!Pairs : clock' < pair[p] => clock < pair[p]
      BY <1>0, <2>1 DEF EvidenceTypes
    <2>4. Used'
      BY <1>0, <2>1, <2>3 DEF Used, Uses
    <2> QED
      BY <2>2, <2>4 DEF EvidenceInv
  <1> QED
    BY <1>2, <1>5, <1>7, <1>8, <1>9, <1>10, <1>11, <1>12 DEF E!Next

(* For any number of jobs, sessions and pairs, and any limit: the claim of *)
(* a pair is taken by an analysis that is under way, was made or was lost, *)
(* never by one that the hourly limit refused.                             *)
THEOREM ClaimsAreUsed == E!Spec => []ClaimIsUsed
<1>1. EvidenceInv => ClaimIsUsed
  BY DEF EvidenceInv, Used, Uses, Analysing, ClaimIsUsed, E!ClaimIsUsed, E!Pair
<1> QED
  BY <1>1, EvidenceInit, EvidenceStep, PTL DEF E!Spec

-----------------------------------------------------------------------------
(* Triage.                                                                 *)

Recommendations == [Keys -> T!Recs \cup {NoRec}]
Documents == [ai : [hour : Nat, calls : Nat], recs : Recommendations]
Errands ==
  [pc : {"idle", "loaded", "asking", "applying", "suppressed", "dismissing"},
   doc : Documents \cup {NoDoc}, began : Nat, fresh : Recommendations, todo : SUBSET Keys,
   key : Keys \cup {NoRec}]

(* What a job holds: a document while it works, a recommendation for each  *)
(* group it is to ask about, and a group for an analyst's decision.        *)
Proper(t) ==
  /\ t \in Errands
  /\ t.pc # "idle" => t.doc \in Documents /\ t.doc.ai.hour <= t.began
  /\ t.pc = "asking" => \A k \in t.todo : t.fresh[k] # NoRec
  /\ t.pc = "dismissing" => t.key \in Keys /\ t.doc.recs[t.key] # NoRec

TriageTypes ==
  /\ hour \in Nat /\ called \in Nat /\ triageFaults \in Nat
  /\ raised \subseteq GroupAlerts
  /\ doc \in Documents /\ doc.ai.hour <= hour
  /\ run \in [T!Jobs -> Errands] /\ \A j \in T!Jobs : Proper(run[j])
  /\ handled \in [Keys -> {"pending", "applied", "dismissed"}]
  /\ overlapped \in BOOLEAN

(* The copy a job works on is the stored document, but for the calls to    *)
(* the AI it has counted itself.                                           *)
Fits(t) ==
  t.pc # "idle" =>
    /\ t.began <= hour
    /\ ~ overlapped => /\ t.doc.recs = doc.recs
                       /\ t.pc # "asking" => t.doc.ai = doc.ai
Alone == ~ overlapped => \A i, j \in T!Jobs : i = j \/ run[i].pc = "idle" \/ run[j].pc = "idle"

DecisionsStay ==
  \A k \in Keys : handled[k] # "pending" => doc.recs[k] # NoRec /\ doc.recs[k].status = handled[k]

(* A job's copy counts every call of this hour, and what it has still to   *)
(* ask is within the budget of the hour it began in.                       *)
Affords(t) ==
  t.pc # "idle" =>
    /\ t.doc.ai.calls <= Limit
    /\ called <= T!Used(t.doc.ai, hour)
    /\ t.pc = "asking" => T!Used(t.doc.ai, t.began) + Cardinality(t.todo) <= Limit
BudgetStays ==
  ~ overlapped /\ triageFaults = 0 =>
    /\ doc.ai.calls <= Limit
    /\ \A j \in T!Jobs : Affords(run[j])
    /\ (\A j \in T!Jobs : run[j].pc = "idle") => called <= T!Used(doc.ai, hour)

TriageInv ==
  /\ TriageTypes
  /\ \A j \in T!Jobs : Fits(run[j])
  /\ Alone
  /\ ~ overlapped => DecisionsStay
  /\ BudgetStays

LEMMA TriageInit == T!Init => TriageInv
  <1> SUFFICES ASSUME T!Init PROVE TriageInv
    OBVIOUS
  <1>1. /\ hour = 0 /\ called = 0 /\ triageFaults = 0 /\ raised = {} /\ overlapped = FALSE
        /\ doc = [ai |-> [hour |-> 0, calls |-> 0], recs |-> [k \in Keys |-> NoRec]]
        /\ run = [j \in T!Jobs |-> T!Idle] /\ handled = [k \in Keys |-> "pending"]
    BY DEF T!Init
  <1>2. T!Idle \in Errands /\ T!Idle.pc = "idle"
    BY DEF T!Idle, Errands, Recommendations
  <1>3. doc \in Documents
    BY <1>1 DEF Documents, Recommendations
  <1> HIDE DEF T!Jobs
  <1>4. \A j \in T!Jobs : run[j] = T!Idle
    BY <1>1
  <1>8. run \in [T!Jobs -> Errands] /\ \A j \in T!Jobs : Proper(run[j])
    BY <1>1, <1>2, <1>4 DEF Proper
  <1>5. TriageTypes
    <2>1. doc.ai.hour <= hour /\ handled \in [Keys -> {"pending", "applied", "dismissed"}]
      BY <1>1
    <2>2. hour \in Nat /\ called \in Nat /\ triageFaults \in Nat /\ overlapped \in BOOLEAN
          /\ raised \subseteq GroupAlerts
      BY <1>1
    <2> QED
      BY <1>3, <1>8, <2>1, <2>2 DEF TriageTypes
  <1>6. (\A j \in T!Jobs : Fits(run[j]) /\ Affords(run[j])) /\ Alone /\ DecisionsStay
    BY <1>1, <1>2, <1>4 DEF Fits, Affords, Alone, DecisionsStay
  <1>7. BudgetStays
    BY <1>1, <1>6, TriageAssumption DEF BudgetStays, T!Used
  <1> QED
    BY <1>5, <1>6, <1>7 DEF TriageInv

(* A step of one job, alone unless work overlaps.                          *)
LEMMA ErrandMoves ==
  ASSUME TriageInv, NEW j \in T!Jobs, NEW t, run' = [run EXCEPT ![j] = t], Proper(t),
         UNCHANGED hour, raised' \subseteq GroupAlerts,
         doc' \in Documents, doc'.ai.hour <= hour,
         handled' \in [Keys -> {"pending", "applied", "dismissed"}],
         called' \in Nat, triageFaults' \in Nat, overlapped' \in BOOLEAN,
         ~ overlapped' => ~ overlapped /\ \A i \in T!Jobs \ {j} : run[i].pc = "idle",
         Fits(t)', ~ overlapped' => DecisionsStay',
         ~ overlapped' /\ triageFaults' = 0 =>
           doc'.ai.calls <= Limit /\ Affords(t)' /\ (t.pc = "idle" => called' <= T!Used(doc'.ai, hour))
  PROVE  TriageInv'
  <1> HIDE DEF T!Jobs
  <1>0. TriageTypes /\ \A i \in T!Jobs : Fits(run[i])
    BY DEF TriageInv
  <1>1. run' \in [T!Jobs -> Errands] /\ run'[j] = t /\ \A i \in T!Jobs \ {j} : run'[i] = run[i]
    BY <1>0 DEF TriageTypes, Proper
  <1>2. \A i \in T!Jobs : Proper(run'[i])
    BY <1>0, <1>1 DEF TriageTypes
  <1>3. TriageTypes'
    BY <1>0, <1>1, <1>2 DEF TriageTypes, Proper
  <1>4. \A i \in T!Jobs : Fits(run[i])'
    <2> SUFFICES ASSUME NEW i \in T!Jobs PROVE Fits(run[i])'
      OBVIOUS
    <2>1. CASE i = j
      BY <1>1, <2>1 DEF Fits
    <2>2. CASE i # j
      <3>1. run'[i] = run[i] /\ Fits(run[i])
        BY <1>0, <1>1, <2>2
      <3> QED
        BY <2>2, <3>1 DEF Fits
    <2> QED
      BY <2>1, <2>2
  <1>5. Alone'
    BY <1>1 DEF Alone
  <1>6. BudgetStays'
    <2> SUFFICES ASSUME ~ overlapped', triageFaults' = 0
                 PROVE  /\ doc'.ai.calls <= Limit
                        /\ \A i \in T!Jobs : Affords(run[i])'
                        /\ (\A i \in T!Jobs : run'[i].pc = "idle") => called' <= T!Used(doc'.ai, hour')
      BY DEF BudgetStays
    <2>1. \A i \in T!Jobs : Affords(run[i])'
      BY <1>1 DEF Affords
    <2> QED
      BY <1>1, <2>1
  <1> QED
    BY <1>3, <1>4, <1>5, <1>6 DEF TriageInv

(* A group decided on keeps its status when new recommendations are merged.*)
LEMMA MergeKeeps ==
  ASSUME NEW prev \in Recommendations, NEW fresh \in Recommendations
  PROVE  /\ T!Merge(prev, fresh) \in Recommendations
         /\ \A k \in Keys : prev[k] # NoRec /\ prev[k].status # "pending" =>
              T!Merge(prev, fresh)[k] # NoRec /\ T!Merge(prev, fresh)[k].status = prev[k].status
  <1>1. ASSUME NEW k \in Keys
        PROVE  /\ T!Merge(prev, fresh)[k] \in T!Recs \cup {NoRec}
               /\ prev[k] # NoRec /\ prev[k].status # "pending" =>
                    T!Merge(prev, fresh)[k] # NoRec /\ T!Merge(prev, fresh)[k].status = prev[k].status
    <2>1. fresh[k] \in T!Recs \cup {NoRec} /\ prev[k] \in T!Recs \cup {NoRec}
      BY DEF Recommendations
    <2>2. CASE fresh[k] # NoRec /\ prev[k] # NoRec
      <3>1. [fresh[k] EXCEPT !.status = prev[k].status] \in T!Recs
            /\ [fresh[k] EXCEPT !.status = prev[k].status].status = prev[k].status
        BY <2>1, <2>2 DEF T!Recs
      <3>2. T!Merge(prev, fresh)[k] = [fresh[k] EXCEPT !.status = prev[k].status]
        BY <2>2 DEF T!Merge
      <3> QED
        BY <3>1, <3>2, TriageAssumption
    <2>3. CASE fresh[k] = NoRec \/ prev[k] = NoRec
      <3>1. T!Merge(prev, fresh)[k] = IF fresh[k] = NoRec /\ ~ T!Decided(prev[k]) THEN NoRec
                                      ELSE IF fresh[k] # NoRec THEN fresh[k] ELSE prev[k]
        BY <2>3 DEF T!Merge
      <3> QED
        BY <2>1, <2>3, <3>1 DEF T!Decided
    <2> QED
      BY <2>2, <2>3
  <1>2. T!Merge(prev, fresh) = [k \in Keys |-> T!Merge(prev, fresh)[k]]
    BY DEF T!Merge
  <1> HIDE DEF T!Merge
  <1> QED
    BY <1>1, <1>2 DEF Recommendations

(* A job comes to hold the document.                                       *)
LEMMA ErrandBegins ==
  ASSUME TriageInv, NEW j \in T!Jobs, NEW pc \in {"loaded", "applying", "dismissing"},
         NEW k \in Keys \cup {NoRec}, T!Load(j, pc, k),
         pc = "dismissing" => k \in Keys /\ doc.recs[k] # NoRec
  PROVE  TriageInv'
  <1> HIDE DEF T!Jobs
  <1>0. TriageTypes /\ Alone /\ (~ overlapped => DecisionsStay) /\ BudgetStays
    BY DEF TriageInv
  <1>1. PICK t : t = [T!Idle EXCEPT !.pc = pc, !.doc = doc, !.began = hour, !.key = k]
    OBVIOUS
  <1>2. /\ run' = [run EXCEPT ![j] = t] /\ run[j].pc = "idle"
        /\ overlapped' = (overlapped \/ \E i \in T!Jobs \ {j} : run[i].pc # "idle")
        /\ UNCHANGED <<hour, raised, doc, called, handled, triageFaults>>
    BY <1>1 DEF T!Load, T!Busy
  <1>3. t.pc = pc /\ t.doc = doc /\ t.began = hour /\ t.key = k /\ t.todo = {}
    BY <1>1 DEF T!Idle
  <1>4. t \in Errands
    BY <1>0, <1>1 DEF T!Idle, Errands, Recommendations, TriageTypes
  <1>5. Proper(t)
    BY <1>0, <1>3, <1>4 DEF Proper, TriageTypes
  <1>6. Fits(t)'
    BY <1>0, <1>2, <1>3 DEF Fits, TriageTypes
  <1>7. overlapped' \in BOOLEAN
        /\ (~ overlapped' => ~ overlapped /\ \A i \in T!Jobs \ {j} : run[i].pc = "idle")
    BY <1>0, <1>2 DEF TriageTypes
  <1>8. ASSUME ~ overlapped', triageFaults' = 0
        PROVE  doc'.ai.calls <= Limit /\ Affords(t)' /\ t.pc # "idle"
    <2>1. \A i \in T!Jobs : run[i].pc = "idle"
      BY <1>2, <1>7, <1>8
    <2>2. doc.ai.calls <= Limit /\ called <= T!Used(doc.ai, hour)
      BY <1>0, <1>2, <1>7, <1>8, <2>1 DEF BudgetStays
    <2> QED
      BY <1>2, <1>3, <2>2 DEF Affords
  <1>9. ~ overlapped' => DecisionsStay'
    BY <1>0, <1>2, <1>7 DEF DecisionsStay
  <1> QED
    BY <1>0, <1>2, <1>5, <1>6, <1>7, <1>8, <1>9, ErrandMoves DEF TriageTypes

(* A job lets go of the document it has saved, or of one that is stored as *)
(* it was.                                                                 *)
LEMMA ErrandEnds ==
  ASSUME TriageInv, NEW j \in T!Jobs, run[j].pc # "idle", T!Finish(j),
         UNCHANGED <<hour, raised, overlapped, called>>,
         doc' \in Documents, doc'.ai.hour <= hour,
         handled' \in [Keys -> {"pending", "applied", "dismissed"}],
         triageFaults' \in Nat, triageFaults <= triageFaults',
         ~ overlapped => DecisionsStay',
         ~ overlapped /\ triageFaults' = 0 => doc'.ai = run[j].doc.ai
  PROVE  TriageInv'
  <1> HIDE DEF T!Jobs
  <1>0. TriageTypes /\ Alone /\ BudgetStays
    BY DEF TriageInv
  <1>1. PICK t : t = T!Idle
    OBVIOUS
  <1>2. run' = [run EXCEPT ![j] = t] /\ t.pc = "idle" /\ Proper(t)
    BY <1>1 DEF T!Finish, T!Idle, Proper, Errands, Recommendations
  <1>3. Fits(t)' /\ Affords(t)'
    BY <1>2 DEF Fits, Affords
  <1>4. ~ overlapped => \A i \in T!Jobs \ {j} : run[i].pc = "idle"
    BY <1>0 DEF Alone
  <1>5. ASSUME ~ overlapped, triageFaults' = 0
        PROVE  doc'.ai.calls <= Limit /\ called <= T!Used(doc'.ai, hour)
    <2>1. triageFaults = 0
      BY <1>0, <1>5 DEF TriageTypes
    <2>2. Affords(run[j])
      BY <1>0, <1>5, <2>1 DEF BudgetStays
    <2> QED
      BY <1>5, <2>2 DEF Affords
  <1>6. called' \in Nat /\ overlapped' \in BOOLEAN /\ raised' \subseteq GroupAlerts
    BY <1>0 DEF TriageTypes
  <1> QED
    BY <1>2, <1>3, <1>4, <1>5, <1>6, ErrandMoves

(* The smallest of what is left of the budget, the limit of a run and the  *)
(* number of open groups is within the budget.                             *)
LEMMA AllowedIsLeft ==
  ASSUME NEW ai \in [hour : Nat, calls : Nat], NEW h \in Nat, NEW a \in Nat, NEW b \in Nat,
         T!Used(ai, h) <= Limit
  PROVE  T!Min({T!Remaining(ai, h), a, b}) + T!Used(ai, h) <= Limit
  <1>1. PICK u \in Nat : u = T!Used(ai, h)
    BY DEF T!Used
  <1>2. PICK n \in Nat : n = Limit - u
    BY <1>1, TriageAssumption
  <1>3. T!Max({0, n}) = n
    BY DEF T!Max
  <1>4. T!Min({n, a, b}) <= n
    <2>1. \E m \in {n, a, b} : \A o \in {n, a, b} : m <= o
      <3>1. CASE n <= a /\ n <= b
        BY <3>1
      <3>2. CASE a <= n /\ a <= b
        BY <3>2
      <3>3. CASE b <= n /\ b <= a
        BY <3>3
      <3> QED
        BY <3>1, <3>2, <3>3
    <2> QED
      BY <2>1 DEF T!Min
  <1>5. T!Min({n, a, b}) \in Nat
    <2>1. \E m \in {n, a, b} : \A o \in {n, a, b} : m <= o
      <3>1. CASE n <= a /\ n <= b
        BY <3>1
      <3>2. CASE a <= n /\ a <= b
        BY <3>2
      <3>3. CASE b <= n /\ b <= a
        BY <3>3
      <3> QED
        BY <3>1, <3>2, <3>3
    <2> QED
      BY <2>1 DEF T!Min
  <1>6. T!Remaining(ai, h) = n
    BY <1>1, <1>2, <1>3 DEF T!Remaining
  <1> QED
    BY <1>1, <1>2, <1>4, <1>5, <1>6, TriageAssumption

(* What a group's alerts and the stored recommendations make of it.        *)
LEMMA DecisionTypes ==
  ASSUME NEW recs \in Recommendations, NEW k \in Keys, NEW as \in SUBSET GroupAlerts
  PROVE  T!FromGroup(as, T!Decide(recs, k, as)) \in T!Recs
  <1>1. T!Classify(as) \in T!Decisions
    BY DEF T!Classify, T!Decision, T!Decisions, T!Verdicts
  <1>2. recs[k] # NoRec => recs[k].decision \in T!Decisions
    BY DEF Recommendations, T!Recs
  <1>3. T!Decide(recs, k, as) \in T!Decisions
    BY <1>1, <1>2 DEF T!Decide, T!CachedAi
  <1>4. {x.sensor : x \in as} \subseteq T!Sensors
    BY DEF T!Sensors
  <1> QED
    BY <1>3, <1>4 DEF T!FromGroup, T!Recs

LEMMA SameCardinality == \A B : T!Cardinality(B) = Cardinality(B)
  BY DEF T!Cardinality, Cardinality

LEMMA TriageStep == TriageInv /\ [T!Next]_T!vars => TriageInv'
  <1> SUFFICES ASSUME TriageInv, [T!Next]_T!vars PROVE TriageInv'
    BY Zenon
  <1> HIDE DEF T!Jobs
  <1>0. TriageTypes /\ (\A j \in T!Jobs : Fits(run[j])) /\ Alone /\ (~ overlapped => DecisionsStay)
        /\ BudgetStays
    BY DEF TriageInv
  <1>a. /\ \A r \in T!Runners : r \in T!Jobs
        /\ \A p \in Analysts : p \in T!Jobs
    BY DEF T!Jobs
  (* What is known of a job that is at work. *)
  <1>b. ASSUME NEW j \in T!Jobs, run[j].pc # "idle"
        PROVE  /\ Proper(run[j]) /\ run[j].doc \in Documents /\ run[j].began \in Nat
               /\ run[j].began <= hour /\ run[j].doc.ai.hour <= run[j].began
               /\ run[j].doc.ai.hour <= hour
               /\ ~ overlapped => run[j].doc.recs = doc.recs
               /\ ~ overlapped /\ run[j].pc # "asking" => run[j].doc.ai = doc.ai
    <2>1. Proper(run[j]) /\ Fits(run[j])
      BY <1>0 DEF TriageTypes
    <2>2. run[j].doc.ai.hour \in Nat /\ run[j].began \in Nat /\ hour \in Nat
      BY <1>0, <1>b, <2>1 DEF Proper, Documents, Errands, TriageTypes
    <2> QED
      BY <1>b, <2>1, <2>2 DEF Proper, Fits
  <1>1. ASSUME NEW r \in T!Runners, T!BeginRun(r) PROVE TriageInv'
    BY <1>a, <1>1, ErrandBegins DEF T!BeginRun
  <1>2. ASSUME NEW p \in Analysts, NEW k \in Keys, T!BeginApply(p, k) \/ T!BeginDismiss(p, k)
        PROVE  TriageInv'
    <2>1. doc.recs[k] # NoRec /\ (T!Load(p, "applying", k) \/ T!Load(p, "dismissing", k))
      BY <1>2 DEF T!BeginApply, T!BeginDismiss, T!Pending
    <2> QED
      BY <1>a, <2>1, ErrandBegins
  (* A job that stops without saving anything. *)
  <1>3. ASSUME NEW j \in T!Jobs, run[j].pc # "idle", T!Finish(j),
               UNCHANGED <<hour, raised, doc, called, handled, overlapped>>,
               T!Fault \/ (UNCHANGED triageFaults /\ run[j].pc # "asking")
        PROVE  TriageInv'
    <2>1. triageFaults' \in Nat /\ triageFaults <= triageFaults'
          /\ (triageFaults' = 0 => run[j].pc # "asking")
      BY <1>0, <1>3 DEF T!Fault, TriageTypes
    <2>2. ~ overlapped => DecisionsStay'
      BY <1>0, <1>3 DEF DecisionsStay
    <2>3. doc' \in Documents /\ doc'.ai.hour <= hour
          /\ handled' \in [Keys -> {"pending", "applied", "dismissed"}]
      BY <1>0, <1>3 DEF TriageTypes
    <2>4. ~ overlapped /\ triageFaults' = 0 => doc'.ai = run[j].doc.ai
      BY <1>3, <1>b, <2>1
    <2> QED
      BY <1>3, <2>1, <2>2, <2>3, <2>4, ErrandEnds
  (* Every group is looked at, and some are put on the list of the AI. *)
  <1>4. ASSUME NEW r \in T!Runners, T!Collect(r) PROVE TriageInv'
    <2>0. /\ r \in T!Jobs /\ run[r].pc = "loaded"
          /\ UNCHANGED <<hour, raised, doc, called, handled, overlapped, triageFaults>>
      BY <1>a, <1>4 DEF T!Collect, T!history
    <2>1. /\ r \in T!Jobs /\ run[r].pc = "loaded"
          /\ UNCHANGED <<hour, raised, doc, called, handled, overlapped, triageFaults>>
          /\ \/ T!Finish(r)
             \/ \E todo \in SUBSET T!Open(T!Fresh(r)) :
                  /\ T!Cardinality(todo) = T!Allowed(r, T!Open(T!Fresh(r))) \/ todo = {}
                  /\ T!Ask(r, T!Fresh(r), todo)
      BY <1>4, <2>0, Zenon DEF T!Collect
    <2>2. T!Fresh(r) \in Recommendations
      <3>1. run[r].doc.recs \in Recommendations
        BY <1>b, <2>1 DEF Documents
      <3>2. \A k \in Keys : T!Listed(k) \in SUBSET GroupAlerts
        BY <1>0 DEF T!Listed, TriageTypes
      <3>3. \A k \in Keys : T!Fresh(r)[k] \in T!Recs \cup {NoRec}
        BY <3>1, <3>2, DecisionTypes DEF T!Fresh
      <3>4. T!Fresh(r) = [k \in Keys |-> T!Fresh(r)[k]]
        BY DEF T!Fresh
      <3> QED
        BY <3>3, <3>4 DEF Recommendations
    <2>3. PICK f \in Recommendations, o \in SUBSET Keys :
             f = T!Fresh(r) /\ o = T!Open(f) /\ \A k \in o : f[k] # NoRec
      <3>1. T!Open(T!Fresh(r)) \in SUBSET Keys
            /\ \A k \in T!Open(T!Fresh(r)) : T!Fresh(r)[k] # NoRec
        BY DEF T!Open
      <3> QED
        BY <2>2, <3>1
    <2>6. PICK a : a = T!Allowed(r, o)
      OBVIOUS
    <2>4. ASSUME NEW todo \in SUBSET o, T!Cardinality(todo) = a \/ todo = {},
                 T!Ask(r, f, todo)
          PROVE  TriageInv'
      <3>1. Proper(run[r]) /\ run[r] \in Errands
        BY <1>b, <2>1 DEF Proper
      <3>2. PICK t \in Errands : t = [run[r] EXCEPT !.pc = "asking", !.fresh = f, !.todo = todo]
        BY <3>1 DEF Errands
      <3>3. /\ run' = [run EXCEPT ![r] = t] /\ t.pc = "asking" /\ t.fresh = f /\ t.todo = todo
            /\ t.doc = run[r].doc /\ t.began = run[r].began
        BY <1>0, <2>1, <2>4, <3>1, <3>2 DEF T!Ask, Errands, TriageTypes
      <3>4. Proper(t)
        BY <1>b, <2>1, <2>3, <3>2, <3>3 DEF Proper
      <3>5. Fits(t)'
        BY <1>b, <2>1, <3>3 DEF Fits
      <3>6. ~ overlapped => \A i \in T!Jobs \ {r} : run[i].pc = "idle"
        BY <1>0, <2>1 DEF Alone
      <3>7. ASSUME ~ overlapped, triageFaults = 0
            PROVE  doc.ai.calls <= Limit /\ Affords(t)'
        <4>1. Affords(run[r]) /\ doc.ai.calls <= Limit
          BY <1>0, <2>1, <3>7 DEF BudgetStays
        <4>2. t.doc.ai \in [hour : Nat, calls : Nat] /\ t.began \in Nat
          BY <1>b, <2>1, <3>3 DEF Documents
        <4>3. T!Used(t.doc.ai, t.began) \in Nat /\ T!Used(t.doc.ai, t.began) <= Limit
          <5>1. t.doc.ai.calls <= Limit /\ t.doc.ai.calls \in Nat /\ t.doc.ai.hour \in Nat
            BY <2>1, <3>3, <4>1, <4>2 DEF Affords
          <5> QED
            BY <5>1, TriageAssumption DEF T!Used
        <4>4. IsFiniteSet(o) /\ Cardinality(o) \in Nat
          BY TriageAssumption, FS_Subset, FS_CardinalityType
        <4>5. a + T!Used(t.doc.ai, t.began) <= Limit
          <5>1. a = T!Min({T!Remaining(t.doc.ai, t.began), PerRun, Cardinality(o)})
            BY <2>3, <2>6, <3>3, SameCardinality DEF T!Allowed
          <5> QED
            BY <4>2, <4>3, <4>4, <5>1, AllowedIsLeft, TriageAssumption
        <4>6. T!Used(t.doc.ai, t.began) + Cardinality(todo) <= Limit
          <5>1. CASE Cardinality(todo) = a
            <6>1. Cardinality(todo) \in Nat
              BY <4>4, FS_Subset, FS_CardinalityType
            <6> QED
              BY <4>3, <4>5, <5>1, <6>1
          <5>2. CASE todo = {}
            BY <4>3, <5>2, FS_EmptySet, TriageAssumption
          <5> QED
            BY <2>4, <5>1, <5>2, SameCardinality
        <4> QED
          BY <2>1, <3>3, <4>1, <4>6 DEF Affords
      <3>8. ~ overlapped => DecisionsStay'
        BY <1>0, <2>1 DEF DecisionsStay
      <3>9. /\ UNCHANGED <<hour, raised, doc, called, handled, overlapped, triageFaults>>
            /\ r \in T!Jobs /\ t.pc # "idle"
        BY <2>1, <3>3
      <3>10. /\ raised' \subseteq GroupAlerts /\ doc' \in Documents /\ doc'.ai.hour <= hour
             /\ handled' \in [Keys -> {"pending", "applied", "dismissed"}]
             /\ called' \in Nat /\ triageFaults' \in Nat /\ overlapped' \in BOOLEAN
        BY <1>0, <3>9 DEF TriageTypes
      <3> QED
        BY <3>3, <3>4, <3>5, <3>6, <3>7, <3>8, <3>9, <3>10, ErrandMoves
    <2>5. CASE T!Finish(r)
      BY <1>3, <2>1, <2>5
    <2> QED
      BY <2>1, <2>3, <2>4, <2>5, <2>6
  (* One call: it is counted in the job's copy, and the group is done. *)
  <1>5. ASSUME NEW r \in T!Runners, NEW k \in Keys, NEW answer \in Answers, T!AskAi(r, k, answer)
        PROVE  TriageInv'
    <2>1. /\ r \in T!Jobs /\ run[r].pc = "asking" /\ k \in run[r].todo
          /\ run' = [run EXCEPT ![r] = T!Asked(r, k, answer)]
          /\ called' = IF run[r].began = hour THEN called + 1 ELSE called
          /\ UNCHANGED <<hour, raised, doc, handled, overlapped, triageFaults>>
      BY <1>a, <1>5 DEF T!AskAi
    <2>2. Proper(run[r]) /\ run[r] \in Errands /\ run[r].doc \in Documents
          /\ run[r].began \in Nat /\ run[r].fresh \in Recommendations /\ run[r].fresh[k] \in T!Recs
          /\ run[r].todo \in SUBSET Keys
      BY <1>b, <2>1 DEF Proper, Errands, Recommendations
    <2>3. PICK ai \in [hour : Nat, calls : Nat] : ai = run[r].doc.ai
      BY <2>2 DEF Documents
    <2>4. PICK n \in [hour : Nat, calls : Nat] :
             n = T!NoteCall(ai, run[r].began) /\ n.hour = run[r].began
             /\ n.calls = T!Used(ai, run[r].began) + 1
      <3>1. T!Used(ai, run[r].began) + 1 \in Nat
        BY <2>3 DEF T!Used
      <3>2. [hour |-> run[r].began, calls |-> T!Used(ai, run[r].began) + 1] \in [hour : Nat, calls : Nat]
        BY <2>2, <3>1
      <3> QED
        BY <3>2 DEF T!NoteCall
    <2>5. PICK d \in Documents : d.ai = n /\ d.recs = run[r].doc.recs /\ d = [run[r].doc EXCEPT !.ai = n]
      BY <2>2 DEF Documents
    <2>6. PICK f \in Recommendations :
             /\ f = [run[r].fresh EXCEPT ![k].decision = T!DecisionFromAi(@, answer)]
             /\ \A i \in Keys : run[r].fresh[i] # NoRec => f[i] # NoRec
      <3>1. run[r].fresh[k].decision \in T!Decisions
        BY <2>2 DEF T!Recs
      <3>2. T!DecisionFromAi(run[r].fresh[k].decision, answer) \in T!Decisions
        BY <3>1, TriageAssumption DEF T!DecisionFromAi, T!Decisions, T!Decision, T!Verdicts
      <3>3. PICK e \in T!Decisions : e = T!DecisionFromAi(run[r].fresh[k].decision, answer)
        BY <3>2
      <3>4. PICK rec \in T!Recs : rec = [run[r].fresh[k] EXCEPT !.decision = e]
        BY <2>2 DEF T!Recs
      <3>5. [run[r].fresh EXCEPT ![k] = rec] \in Recommendations
            /\ \A i \in Keys : run[r].fresh[i] # NoRec => [run[r].fresh EXCEPT ![k] = rec][i] # NoRec
        BY <2>2, TriageAssumption DEF Recommendations
      <3>6. [run[r].fresh EXCEPT ![k] = rec]
              = [run[r].fresh EXCEPT ![k].decision = T!DecisionFromAi(@, answer)]
        BY <3>3, <3>4
      <3> QED
        BY <3>5, <3>6
    <2>7. PICK t \in Errands : t = [run[r] EXCEPT !.doc = d, !.todo = @ \ {k}, !.fresh = f]
      BY <2>2 DEF Errands
    <2>8. /\ t.pc = "asking" /\ t.doc = d /\ t.todo = run[r].todo \ {k} /\ t.fresh = f
          /\ t.began = run[r].began
      BY <2>1, <2>2, <2>7 DEF Errands
    <2>9. run' = [run EXCEPT ![r] = t]
      <3>1. [run[r].doc EXCEPT !.ai = T!NoteCall(@, run[r].began)] = d
        BY <2>3, <2>4, <2>5
      <3>2. t = [run[r] EXCEPT !.doc = [run[r].doc EXCEPT !.ai = T!NoteCall(@, run[r].began)],
                               !.todo = @ \ {k},
                               !.fresh = [run[r].fresh EXCEPT ![k].decision = T!DecisionFromAi(@, answer)]]
        BY <2>6, <2>7, <3>1
      <3>3. t = [run[r] EXCEPT !.doc.ai = T!NoteCall(@, run[r].began), !.todo = @ \ {k},
                               !.fresh[k].decision = T!DecisionFromAi(@, answer)]
        <4> HIDE DEF T!NoteCall, T!DecisionFromAi
        <4> QED
          BY <2>2, <3>2 DEF Errands
      <3>4. t = T!Asked(r, k, answer)
        <4> HIDE DEF T!NoteCall, T!DecisionFromAi
        <4> QED
          BY <3>3, Zenon DEF T!Asked
      <3> QED
        BY <2>1, <3>4
    <2>10. Proper(t)
      <3>1. d \in Documents /\ d.ai.hour <= run[r].began
        BY <2>2, <2>4, <2>5
      <3>2. \A i \in run[r].todo : run[r].fresh[i] # NoRec
        BY <2>1, <2>2 DEF Proper
      <3>3. \A i \in t.todo : t.fresh[i] # NoRec
        BY <2>2, <2>6, <2>8, <3>2
      <3> QED
        BY <2>7, <2>8, <3>1, <3>3 DEF Proper
    <2>11. Fits(t)'
      BY <1>b, <2>1, <2>5, <2>8 DEF Fits
    <2>12. ~ overlapped => \A i \in T!Jobs \ {r} : run[i].pc = "idle"
      BY <1>0, <2>1 DEF Alone
    <2>13. ASSUME ~ overlapped, triageFaults = 0
           PROVE  doc.ai.calls <= Limit /\ Affords(t)'
      <3>1. Affords(run[r]) /\ doc.ai.calls <= Limit
        BY <1>0, <2>1, <2>13 DEF BudgetStays
      <3>2. /\ ai.calls <= Limit /\ called <= T!Used(ai, hour)
            /\ T!Used(ai, run[r].began) + Cardinality(run[r].todo) <= Limit
        BY <2>1, <2>3, <3>1 DEF Affords
      <3>3. /\ Cardinality(run[r].todo) \in Nat /\ Cardinality(run[r].todo \ {k}) \in Nat
            /\ Cardinality(run[r].todo) = Cardinality(run[r].todo \ {k}) + 1
        <4>1. IsFiniteSet(run[r].todo)
          BY <2>2, TriageAssumption, FS_Subset
        <4>2. IsFiniteSet(run[r].todo \ {k})
              /\ Cardinality(run[r].todo \ {k}) = Cardinality(run[r].todo) - 1
          BY <2>1, <4>1, FS_RemoveElement
        <4>3. Cardinality(run[r].todo) \in Nat /\ Cardinality(run[r].todo \ {k}) \in Nat
          BY <4>1, <4>2, FS_CardinalityType
        <4> QED
          BY <4>2, <4>3
      <3>4. PICK u \in Nat, c \in Nat, h \in Nat, b \in Nat :
               u = T!Used(ai, run[r].began) /\ c = called /\ h = hour /\ b = run[r].began
        BY <1>0, <2>2, <2>3 DEF T!Used, TriageTypes
      <3>5. b <= h /\ ai.hour <= b /\ ai.hour \in Nat
        BY <1>b, <2>1, <2>3, <3>4
      <3>6. n.calls = u + 1 /\ n.hour = b /\ T!Used(n, b) = u + 1
        BY <2>4, <3>4 DEF T!Used
      <3>7. n.calls <= Limit /\ T!Used(n, b) + Cardinality(run[r].todo \ {k}) <= Limit
        BY <3>2, <3>3, <3>4, <3>6, TriageAssumption
      <3>8. called' <= T!Used(n, h)
        <4>1. CASE b = h
          BY <2>1, <3>2, <3>4, <3>6, <4>1
        <4>2. CASE b # h
          <5>1. ai.hour # h /\ called' = c
            BY <2>1, <3>4, <3>5, <4>2
          <5>2. c <= 0
            BY <3>2, <3>4, <5>1 DEF T!Used
          <5> QED
            BY <3>4, <3>6, <4>2, <5>1, <5>2 DEF T!Used
        <4> QED
          BY <4>1, <4>2
      <3> QED
        BY <2>1, <2>5, <2>8, <3>1, <3>4, <3>7, <3>8 DEF Affords
    <2>14. ~ overlapped => DecisionsStay'
      BY <1>0, <2>1 DEF DecisionsStay
    <2>15. /\ raised' \subseteq GroupAlerts /\ doc' \in Documents /\ doc'.ai.hour <= hour
           /\ handled' \in [Keys -> {"pending", "applied", "dismissed"}]
           /\ called' \in Nat /\ triageFaults' \in Nat /\ overlapped' \in BOOLEAN
      BY <1>0, <2>1 DEF TriageTypes
    <2>16. UNCHANGED <<hour, doc, overlapped, triageFaults>> /\ r \in T!Jobs /\ t.pc # "idle"
      BY <2>1, <2>8
    <2> QED
      BY <2>9, <2>10, <2>11, <2>12, <2>13, <2>14, <2>15, <2>16, ErrandMoves
  (* The whole document is written back, or the save fails. *)
  <1>6. ASSUME NEW j \in T!Jobs, run[j].pc # "idle", NEW d \in Documents, NEW ok \in BOOLEAN,
               T!Save(j, d, ok), d.ai = run[j].doc.ai,
               UNCHANGED <<hour, raised, called, overlapped>>,
               handled' \in [Keys -> {"pending", "applied", "dismissed"}],
               ~ overlapped => DecisionsStay'
        PROVE  TriageInv'
    <2>1. /\ T!Finish(j)
          /\ \/ doc' = d /\ triageFaults' = triageFaults
             \/ doc' = doc /\ triageFaults' = triageFaults + 1
      BY <1>6 DEF T!Save, T!Fault
    <2>2. d.ai.hour <= hour
      BY <1>b, <1>6
    <2>3. doc' \in Documents /\ doc'.ai.hour <= hour /\ triageFaults' \in Nat
          /\ triageFaults <= triageFaults'
      BY <1>0, <2>1, <2>2 DEF TriageTypes
    <2>4. triageFaults' = 0 => doc' = d
      BY <1>0, <2>1 DEF TriageTypes
    <2> QED
      BY <1>6, <2>1, <2>3, <2>4, ErrandEnds
  <1>7. ASSUME NEW r \in T!Runners, NEW ok \in BOOLEAN, T!SaveRun(r, ok) PROVE TriageInv'
    <2>1. /\ r \in T!Jobs /\ run[r].pc = "asking"
          /\ T!Save(r, [run[r].doc EXCEPT !.recs = T!Merge(run[r].doc.recs, run[r].fresh)], ok)
          /\ UNCHANGED <<hour, raised, called, handled, overlapped>>
      BY <1>a, <1>7 DEF T!SaveRun
    <2>2. run[r].doc \in Documents /\ run[r].doc.recs \in Recommendations
          /\ run[r].fresh \in Recommendations
      BY <1>b, <2>1 DEF Proper, Errands, Documents
    <2>3. PICK m \in Recommendations :
             /\ m = T!Merge(run[r].doc.recs, run[r].fresh)
             /\ \A k \in Keys : run[r].doc.recs[k] # NoRec /\ run[r].doc.recs[k].status # "pending" =>
                  m[k] # NoRec /\ m[k].status = run[r].doc.recs[k].status
      BY <2>2, MergeKeeps
    <2>4. PICK d \in Documents :
             d = [run[r].doc EXCEPT !.recs = m] /\ d.ai = run[r].doc.ai /\ d.recs = m
      <3>1. PICK x \in Documents : x = run[r].doc
        BY <2>2
      <3>2. [x EXCEPT !.recs = m] \in Documents
        BY DEF Documents
      <3> QED
        BY <3>1, <3>2 DEF Documents
    <2>5. T!Save(r, d, ok)
      BY <2>1, <2>3, <2>4
    <2>6. doc' = d \/ doc' = doc
      BY <2>5 DEF T!Save
    <2>7. ~ overlapped => DecisionsStay'
      <3> SUFFICES ASSUME ~ overlapped, NEW k \in Keys, handled[k] # "pending"
                   PROVE  doc'.recs[k] # NoRec /\ doc'.recs[k].status = handled[k]
        BY <2>1 DEF DecisionsStay
      <3>1. doc.recs[k] # NoRec /\ doc.recs[k].status = handled[k]
        BY <1>0 DEF DecisionsStay
      <3>2. run[r].doc.recs[k] = doc.recs[k]
        BY <1>b, <2>1
      <3>3. m[k] # NoRec /\ m[k].status = handled[k]
        BY <2>3, <3>1, <3>2
      <3> QED
        BY <2>4, <2>6, <3>1, <3>3
    <2>8. handled' \in [Keys -> {"pending", "applied", "dismissed"}]
      BY <1>0, <2>1 DEF TriageTypes
    <2> QED
      BY <1>6, <2>1, <2>4, <2>5, <2>7, <2>8
  (* The suppression is stored before the decision is recorded. *)
  <1>8. ASSUME NEW p \in Analysts, NEW ok \in BOOLEAN, T!Suppress(p, ok) PROVE TriageInv'
    <2>1. /\ p \in T!Jobs /\ run[p].pc = "applying"
          /\ UNCHANGED <<hour, raised, doc, called, handled, overlapped, triageFaults>>
          /\ run' = [run EXCEPT ![p].pc = "suppressed"] \/ T!Finish(p)
      BY <1>a, <1>8 DEF T!Suppress, T!history
    <2>2. CASE T!Finish(p)
      BY <1>3, <2>1, <2>2
    <2>3. CASE run' = [run EXCEPT ![p].pc = "suppressed"]
      <3>1. Proper(run[p]) /\ run[p] \in Errands
        BY <1>b, <2>1 DEF Proper
      <3>2. PICK t \in Errands : t = [run[p] EXCEPT !.pc = "suppressed"]
        BY <3>1 DEF Errands
      <3>3. /\ run' = [run EXCEPT ![p] = t] /\ t.pc = "suppressed" /\ t.doc = run[p].doc
            /\ t.began = run[p].began
        BY <2>3, <3>1, <3>2 DEF Errands
      <3>4. Proper(t)
        BY <1>b, <2>1, <3>2, <3>3 DEF Proper
      <3>5. Fits(t)'
        BY <1>b, <2>1, <3>3 DEF Fits
      <3>6. ~ overlapped => \A i \in T!Jobs \ {p} : run[i].pc = "idle"
        BY <1>0, <2>1 DEF Alone
      <3>7. ASSUME ~ overlapped, triageFaults = 0
            PROVE  doc.ai.calls <= Limit /\ Affords(t)'
        <4>1. Affords(run[p]) /\ doc.ai.calls <= Limit
          BY <1>0, <2>1, <3>7 DEF BudgetStays
        <4> QED
          BY <2>1, <3>3, <4>1 DEF Affords
      <3>8. ~ overlapped => DecisionsStay'
        BY <1>0, <2>1 DEF DecisionsStay
      <3>9. /\ UNCHANGED <<hour, raised, doc, called, handled, overlapped, triageFaults>>
            /\ p \in T!Jobs /\ t.pc # "idle"
        BY <2>1, <3>3
      <3>10. /\ raised' \subseteq GroupAlerts /\ doc' \in Documents /\ doc'.ai.hour <= hour
             /\ handled' \in [Keys -> {"pending", "applied", "dismissed"}]
             /\ called' \in Nat /\ triageFaults' \in Nat /\ overlapped' \in BOOLEAN
        BY <1>0, <3>9 DEF TriageTypes
      <3> QED
        BY <3>3, <3>4, <3>5, <3>6, <3>7, <3>8, <3>9, <3>10, ErrandMoves
    <2> QED
      BY <2>1, <2>2, <2>3
  (* A decision is recorded for groups that the copy knows. *)
  <1>9. ASSUME NEW p \in Analysts, run[p].pc # "idle", NEW ks \in SUBSET Keys,
               NEW status \in {"applied", "dismissed"}, NEW ok \in BOOLEAN,
               T!Record(p, ks, status, ok),
               \A k \in ks : run[p].doc.recs[k] # NoRec
        PROVE  TriageInv'
    <2>0. p \in T!Jobs /\ run[p].doc \in Documents /\ run[p].doc.recs \in Recommendations
      BY <1>a, <1>b, <1>9 DEF Documents
    <2>1. PICK x \in Documents : x = run[p].doc
      BY <2>0
    <2>2. PICK m : m = [k \in Keys |-> IF k \in ks THEN [x.recs[k] EXCEPT !.status = status]
                                                   ELSE x.recs[k]]
      OBVIOUS
    <2>3. /\ T!Save(p, [x EXCEPT !.recs = m], ok)
          /\ handled' = [k \in Keys |-> IF ok /\ k \in ks THEN status ELSE handled[k]]
          /\ UNCHANGED <<hour, raised, called, overlapped>>
      BY <1>9, <2>1, <2>2 DEF T!Record
    <2>4. /\ m \in Recommendations
          /\ \A k \in ks : m[k] # NoRec /\ m[k].status = status
          /\ \A k \in Keys \ ks : m[k] = x.recs[k]
      <3>1. ASSUME NEW k \in ks PROVE m[k] \in T!Recs /\ m[k].status = status
        <4>1. PICK rec \in T!Recs : rec = x.recs[k]
          BY <1>9, <2>1 DEF Documents, Recommendations
        <4>2. [rec EXCEPT !.status = status] \in T!Recs
              /\ [rec EXCEPT !.status = status].status = status
          BY DEF T!Recs
        <4> QED
          BY <2>2, <4>1, <4>2
      <3>2. ASSUME NEW k \in Keys \ ks PROVE m[k] = x.recs[k] /\ m[k] \in T!Recs \cup {NoRec}
        BY <2>2 DEF Documents, Recommendations
      <3>3. \A k \in Keys : m[k] \in T!Recs \cup {NoRec}
        BY <3>1, <3>2
      <3>4. m = [k \in Keys |-> m[k]]
        BY <2>2
      <3> QED
        BY <3>1, <3>2, <3>3, <3>4, TriageAssumption DEF Recommendations
    <2>5. PICK d \in Documents : d = [x EXCEPT !.recs = m] /\ d.ai = x.ai /\ d.recs = m
      <3>1. [x EXCEPT !.recs = m] \in Documents
        BY <2>4 DEF Documents
      <3> QED
        BY <3>1 DEF Documents
    <2>6. T!Save(p, d, ok)
      BY <2>3, <2>5
    <2>7. (ok /\ doc' = d) \/ (~ ok /\ doc' = doc)
      BY <2>6 DEF T!Save
    <2>8. ~ overlapped => DecisionsStay'
      <3> SUFFICES ASSUME ~ overlapped, NEW k \in Keys, handled'[k] # "pending"
                   PROVE  doc'.recs[k] # NoRec /\ doc'.recs[k].status = handled'[k]
        BY <2>3 DEF DecisionsStay
      <3>1. handled[k] # "pending" => doc.recs[k] # NoRec /\ doc.recs[k].status = handled[k]
        BY <1>0 DEF DecisionsStay
      <3>2. x.recs[k] = doc.recs[k]
        BY <1>9, <1>b, <2>0, <2>1
      <3>3. CASE ok /\ k \in ks
        BY <2>3, <2>4, <2>5, <2>7, <3>3
      <3>4. CASE ~ (ok /\ k \in ks)
        BY <2>3, <2>4, <2>5, <2>7, <3>1, <3>2, <3>4
      <3> QED
        BY <3>3, <3>4
    <2>9. handled' \in [Keys -> {"pending", "applied", "dismissed"}]
      BY <1>0, <2>3 DEF TriageTypes
    <2> QED
      BY <1>6, <1>9, <2>0, <2>1, <2>3, <2>5, <2>6, <2>8, <2>9
  <1>10. ASSUME NEW p \in Analysts, NEW ok \in BOOLEAN, T!SaveApply(p, ok) \/ T!SaveDismiss(p, ok)
         PROVE  TriageInv'
    <2>1. CASE T!SaveApply(p, ok)
      <3>1. PICK ks : ks = T!Covered(run[p].doc, run[p].key)
        OBVIOUS
      <3>2. run[p].pc = "suppressed" /\ T!Record(p, ks, "applied", ok)
        BY <2>1, <3>1 DEF T!SaveApply
      <3>3. ks \in SUBSET Keys /\ \A k \in ks : run[p].doc.recs[k] # NoRec
        BY <3>1 DEF T!Covered, T!Pending
      <3> QED
        BY <1>9, <3>2, <3>3
    <2>2. CASE T!SaveDismiss(p, ok)
      <3>1. PICK ks : ks = {run[p].key}
        OBVIOUS
      <3>2. run[p].pc = "dismissing" /\ T!Record(p, ks, "dismissed", ok)
        BY <2>2, <3>1 DEF T!SaveDismiss
      <3>3. ks \in SUBSET Keys /\ \A k \in ks : run[p].doc.recs[k] # NoRec
        BY <1>a, <1>b, <3>1, <3>2 DEF Proper
      <3> QED
        BY <1>9, <3>2, <3>3
    <2> QED
      BY <1>10, <2>1, <2>2
  <1>11. ASSUME NEW j \in T!Jobs, T!Crash(j) PROVE TriageInv'
    BY <1>3, <1>11 DEF T!Crash, T!Busy
  (* What the jobs hold and the document stay as they were. *)
  <1>12. ASSUME UNCHANGED <<hour, doc, run, called, handled, overlapped, triageFaults>>,
                raised' \subseteq GroupAlerts
         PROVE  TriageInv'
    <2>1. TriageTypes'
      BY <1>0, <1>12 DEF TriageTypes, Proper
    <2>2. (\A j \in T!Jobs : Fits(run[j])') /\ Alone' /\ (~ overlapped' => DecisionsStay')
      BY <1>0, <1>12 DEF Fits, Alone, DecisionsStay
    <2>3. BudgetStays'
      BY <1>0, <1>12 DEF BudgetStays, Affords
    <2> QED
      BY <2>1, <2>2, <2>3 DEF TriageInv
  <1>13. ASSUME NEW a \in GroupAlerts, T!Raise(a) PROVE TriageInv'
    BY <1>0, <1>12, <1>13 DEF T!Raise, T!history, TriageTypes
  <1>14. ASSUME NEW k \in Keys, T!Age(k) PROVE TriageInv'
    BY <1>0, <1>12, <1>14 DEF T!Age, T!history, TriageTypes
  <1>15. ASSUME NEW pr \in T!Pairs, T!ExpireSuppression(pr) PROVE TriageInv'
    BY <1>0, <1>12, <1>15 DEF T!ExpireSuppression, T!history, TriageTypes
  (* No call of the new hour has been made. *)
  <1>16. ASSUME T!HourPasses PROVE TriageInv'
    <2>1. hour' = hour + 1 /\ called' = 0 /\ hour \in Nat
          /\ UNCHANGED <<raised, doc, run, handled, overlapped, triageFaults>>
      BY <1>0, <1>16 DEF T!HourPasses, TriageTypes
    <2>2. TriageTypes'
      <3>1. doc.ai.hour \in Nat
        BY <1>0 DEF TriageTypes, Documents
      <3> QED
        BY <1>0, <2>1, <3>1 DEF TriageTypes, Proper
    <2>3. ASSUME NEW j \in T!Jobs PROVE Fits(run[j])'
      <3>1. run[j].pc # "idle" => run[j].began \in Nat
        BY <1>b, <2>3
      <3> QED
        BY <1>0, <2>1, <2>3, <3>1 DEF Fits
    <2>4. Alone' /\ (~ overlapped' => DecisionsStay')
      BY <1>0, <2>1 DEF Alone, DecisionsStay
    <2>5. ASSUME NEW ai \in [hour : Nat, calls : Nat] PROVE 0 <= T!Used(ai, hour')
      BY <2>5 DEF T!Used
    <2>6. BudgetStays'
      <3> SUFFICES ASSUME ~ overlapped, triageFaults = 0
                   PROVE  /\ doc.ai.calls <= Limit
                          /\ \A j \in T!Jobs : Affords(run[j])'
                          /\ called' <= T!Used(doc.ai, hour')
        BY <2>1 DEF BudgetStays
      <3>1. doc.ai.calls <= Limit /\ \A j \in T!Jobs : Affords(run[j])
        BY <1>0 DEF BudgetStays
      <3>2. doc.ai \in [hour : Nat, calls : Nat]
        BY <1>0 DEF TriageTypes, Documents
      <3>3. ASSUME NEW j \in T!Jobs PROVE Affords(run[j])'
        <4>1. run[j].pc # "idle" => run[j].doc.ai \in [hour : Nat, calls : Nat]
          BY <1>b, <3>3 DEF Documents
        <4> QED
          BY <2>1, <2>5, <3>1, <3>3, <4>1 DEF Affords
      <3> QED
        BY <2>1, <2>5, <3>1, <3>2, <3>3
    <2> QED
      BY <2>2, <2>3, <2>4, <2>6 DEF TriageInv
  <1>17. CASE UNCHANGED T!vars
    BY <1>0, <1>12, <1>17 DEF T!vars, TriageTypes
  <1>18. CASE T!Next
    BY <1>1, <1>2, <1>4, <1>5, <1>7, <1>8, <1>10, <1>11, <1>13, <1>14, <1>15, <1>16, <1>18, Zenon
       DEF T!Next
  <1> QED
    BY <1>17, <1>18

(* The document that runs and analysts share loses neither a call to the   *)
(* AI nor a decision of a person, as long as one of them at a time has it  *)
(* in hand.                                                                *)
THEOREM DocumentIsAlwaysKept == T!Spec => []DocumentIsKept
  <1>1. TriageInv => DocumentIsKept
    <2> SUFFICES ASSUME TriageInv PROVE DocumentIsKept
      OBVIOUS
    <2>1. ASSUME ~ overlapped, triageFaults = 0 PROVE called <= Limit
      <3>1. doc.ai.calls \in Nat /\ called \in Nat /\ Limit \in Nat
        BY TriageAssumption DEF TriageInv, TriageTypes, Documents
      <3>2. doc.ai.calls <= Limit /\ \A j \in T!Jobs : Affords(run[j])
        BY <2>1 DEF TriageInv, BudgetStays
      <3>3. CASE \A j \in T!Jobs : run[j].pc = "idle"
        BY <2>1, <3>1, <3>2, <3>3 DEF TriageInv, BudgetStays, T!Used
      <3>4. CASE \E j \in T!Jobs : run[j].pc # "idle"
        <4>1. PICK j \in T!Jobs : run[j].pc # "idle"
          BY <3>4
        <4>2. run[j].doc.ai.calls \in Nat
          BY <4>1 DEF TriageInv, TriageTypes, Proper, Documents
        <4>3. run[j].doc.ai.calls <= Limit /\ called <= T!Used(run[j].doc.ai, hour)
          BY <3>2, <4>1 DEF Affords
        <4> QED
          BY <3>1, <4>2, <4>3 DEF T!Used
      <3> QED
        BY <3>3, <3>4
    <2> QED
      BY <2>1 DEF DocumentIsKept, T!DocumentIsKept, T!BudgetHolds, T!DecisionIsKept, TriageInv,
                  DecisionsStay
  <1> QED
    BY TriageInit, TriageStep, <1>1, PTL DEF T!Spec

-----------------------------------------------------------------------------
(* SiemRules.                                                              *)

LogRows == [log : R!Logged, at : Nat]

RulesTypes ==
  /\ ruleClock \in 1..RuleTime /\ disabled \subseteq R!Rules /\ toggles \in 0..MaxToggles
  /\ reached \in {NoWindow} \union [hosts : SUBSET Machines, from : 1..ruleClock]
  /\ contacts \in Seq(Int)
  /\ \A x \in DOMAIN contacts : contacts[x] \in 1..ruleClock
  /\ \A x, y \in DOMAIN contacts : x <= y => contacts[x] <= contacts[y]
  /\ logs \in Seq(LogRows)
  /\ fired \subseteq [rule : R!Rules, after : 1..Len(logs), at : Int]

(* A log that no firing of the rule stood on.                              *)
Unspent(rule, i) == i \in DOMAIN logs /\ \A f \in fired : f.rule = rule => i > f.after

(* The hosts in the window are those of logs received since it began, and  *)
(* each contact is that of a log of its own.                               *)
HostsLogged ==
  reached # NoWindow =>
    \A h \in reached.hosts : \E i \in DOMAIN logs :
      Unspent("SIEM-003", i) /\ logs[i].log.host = h /\ logs[i].at >= reached.from
ContactsLogged ==
  \E log \in [DOMAIN contacts -> DOMAIN logs] :
    /\ \A x, y \in DOMAIN contacts : log[x] = log[y] => x = y
    /\ \A x \in DOMAIN contacts :
         /\ Unspent("SIEM-010", log[x])
         /\ logs[log[x]].log.type = "network_activity" /\ logs[log[x]].at = contacts[x]

RulesInv == RulesTypes /\ HostsLogged /\ ContactsLogged /\ FiresOnItsOwnLogs

LEMMA RulesInit == R!Init => RulesInv
  <1> SUFFICES ASSUME R!Init PROVE RulesInv
    OBVIOUS
  <1> USE DEF R!Init, R!Empty
  <1>1. RulesTypes
    <2>1. 1 \in 1 .. RuleTime /\ 0 \in 0 .. MaxToggles
      BY RulesAssumption
    <2>2. contacts \in Seq(Int) /\ DOMAIN contacts = {} /\ logs \in Seq(LogRows)
      OBVIOUS
    <2> QED
      BY <2>1, <2>2 DEF RulesTypes
  <1>2. HostsLogged /\ FiresOnItsOwnLogs
    BY DEF HostsLogged, FiresOnItsOwnLogs, R!FiresOnItsOwnLogs
  <1>3. ContactsLogged
    <2>1. [x \in DOMAIN contacts |-> x] \in [DOMAIN contacts -> DOMAIN logs]
      OBVIOUS
    <2>2. DOMAIN contacts = {}
      OBVIOUS
    <2> QED
      BY <2>1, <2>2 DEF ContactsLogged
  <1> QED
    BY <1>1, <1>2, <1>3 DEF RulesInv

LEMMA RulesCardinality == \A B : R!Cardinality(B) = Cardinality(B)
  BY DEF R!Cardinality, Cardinality

(* What leaves the window is a beginning of the contacts: they are in      *)
(* order, so a contact beyond as many as are old is not old itself.        *)
LEMMA RecentIsSuffix ==
  ASSUME RulesTypes
  PROVE  \E c \in 0 .. Len(contacts) :
           /\ R!Recent(contacts) = SubSeq(contacts, c + 1, Len(contacts))
           /\ \A x \in c + 1 .. Len(contacts) : ruleClock - contacts[x] <= BeaconWindow
  <1>0. PICK old : old = R!Old(contacts)
    OBVIOUS
  <1> DEFINE c == Cardinality(old)
  <1>1. contacts \in Seq(Int) /\ Len(contacts) \in Nat /\ DOMAIN contacts = 1 .. Len(contacts)
    BY DEF RulesTypes
  <1>2. IsFiniteSet(1 .. Len(contacts)) /\ Cardinality(1 .. Len(contacts)) = Len(contacts)
    BY <1>1, FS_Interval
  <1>3. IsFiniteSet(old) /\ c <= Len(contacts) /\ c \in Nat
    <2>1. old \subseteq 1 .. Len(contacts)
      BY <1>0, <1>1 DEF R!Old
    <2>2. IsFiniteSet(old) /\ c <= Cardinality(1 .. Len(contacts))
      BY <2>1, <1>2, FS_Subset
    <2>3. c \in Nat
      BY <2>2, FS_CardinalityType
    <2> QED
      BY <2>2, <2>3, <1>2
  <1>4. ASSUME NEW x \in c + 1 .. Len(contacts) PROVE ruleClock - contacts[x] <= BeaconWindow
    <2> SUFFICES ASSUME x \in old PROVE FALSE
      BY <1>0, <1>1, <1>3, RulesAssumption DEF RulesTypes, R!Old
    <2>1. x \in Nat /\ x > c /\ x <= Len(contacts)
      BY <1>1, <1>3
    <2>2. 1 .. x \subseteq old
      <3> SUFFICES ASSUME NEW y \in 1 .. x PROVE y \in old
        OBVIOUS
      <3>1. y \in DOMAIN contacts /\ x \in DOMAIN contacts /\ y <= x
        BY <1>1, <2>1
      <3>2. contacts[y] <= contacts[x] /\ contacts[y] \in Int /\ contacts[x] \in Int /\ ruleClock \in Int
        BY <3>1 DEF RulesTypes
      <3> QED
        BY <3>1, <3>2, <1>0, RulesAssumption DEF R!Old
    <2>3. Cardinality(1 .. x) = x
      BY <2>1, FS_Interval
    <2>4. Cardinality(1 .. x) <= c
      BY <2>2, <1>3, FS_Subset
    <2> QED
      BY <2>1, <2>3, <2>4, <1>3
  <1>5. R!Recent(contacts) = SubSeq(contacts, c + 1, Len(contacts))
    BY <1>0, RulesCardinality DEF R!Recent
  <1> HIDE DEF c
  <1>6. c \in 0 .. Len(contacts)
    BY <1>1, <1>3
  <1> QED
    BY <1>4, <1>5, <1>6

(* Contacts that are forgotten leave the others as they were.              *)
LEMMA RecentKeeps ==
  ASSUME RulesTypes, ContactsLogged, NEW times, times = R!Recent(contacts)
  PROVE  /\ times \in Seq(Int)
         /\ \A x \in DOMAIN times : /\ times[x] \in 1 .. ruleClock
                                    /\ ruleClock - times[x] <= BeaconWindow
         /\ \A x, y \in DOMAIN times : x <= y => times[x] <= times[y]
         /\ \E log \in [DOMAIN times -> DOMAIN logs] :
              /\ \A x, y \in DOMAIN times : log[x] = log[y] => x = y
              /\ \A x \in DOMAIN times :
                   /\ Unspent("SIEM-010", log[x])
                   /\ logs[log[x]].log.type = "network_activity" /\ logs[log[x]].at = times[x]
  <1>1. contacts \in Seq(Int) /\ Len(contacts) \in Nat /\ DOMAIN contacts = 1 .. Len(contacts)
    BY DEF RulesTypes
  <1>2. PICK c \in 0 .. Len(contacts) :
          /\ times = SubSeq(contacts, c + 1, Len(contacts))
          /\ \A x \in c + 1 .. Len(contacts) : ruleClock - contacts[x] <= BeaconWindow
    BY RecentIsSuffix
  <1>3. /\ times \in Seq(Int) /\ DOMAIN times = 1 .. (Len(contacts) - c)
        /\ \A x \in DOMAIN times : times[x] = contacts[x + c] /\ x + c \in DOMAIN contacts
                                   /\ x + c \in c + 1 .. Len(contacts)
    BY <1>1, <1>2
  <1>4. \A x \in DOMAIN times : times[x] \in 1 .. ruleClock /\ ruleClock - times[x] <= BeaconWindow
    BY <1>2, <1>3 DEF RulesTypes
  <1>5. \A x, y \in DOMAIN times : x <= y => times[x] <= times[y]
    <2> SUFFICES ASSUME NEW x \in DOMAIN times, NEW y \in DOMAIN times, x <= y
                 PROVE  times[x] <= times[y]
      OBVIOUS
    <2>1. x + c \in DOMAIN contacts /\ y + c \in DOMAIN contacts /\ x + c <= y + c
      BY <1>3
    <2> QED
      BY <2>1, <1>3 DEF RulesTypes
  <1>6. PICK log \in [DOMAIN contacts -> DOMAIN logs] :
          /\ \A x, y \in DOMAIN contacts : log[x] = log[y] => x = y
          /\ \A x \in DOMAIN contacts :
               /\ Unspent("SIEM-010", log[x])
               /\ logs[log[x]].log.type = "network_activity" /\ logs[log[x]].at = contacts[x]
    BY DEF ContactsLogged
  <1> DEFINE later == [x \in DOMAIN times |-> log[x + c]]
  <1>7. later \in [DOMAIN times -> DOMAIN logs]
    BY <1>3, <1>6
  <1>8. \A x, y \in DOMAIN times : later[x] = later[y] => x = y
    <2> SUFFICES ASSUME NEW x \in DOMAIN times, NEW y \in DOMAIN times, later[x] = later[y]
                 PROVE  x = y
      OBVIOUS
    <2>1. x + c = y + c
      BY <1>3, <1>6
    <2> QED
      BY <2>1, <1>3
  <1>9. \A x \in DOMAIN times :
          /\ Unspent("SIEM-010", later[x])
          /\ logs[later[x]].log.type = "network_activity" /\ logs[later[x]].at = times[x]
    BY <1>3, <1>6
  <1> QED
    BY <1>3, <1>4, <1>5, <1>7, <1>8, <1>9

(* What an earlier firing stood on is what it stands on still.             *)
LEMMA OwnStays ==
  ASSUME RulesTypes, NEW f \in fired, NEW length,
         \A i \in DOMAIN logs : i \in DOMAIN logs' /\ logs'[i] = logs[i],
         \A i \in DOMAIN logs' \ DOMAIN logs : i \in Nat /\ i > Len(logs),
         fired \subseteq fired',
         \A g \in fired' \ fired : g.after \in Nat /\ g.after > Len(logs)
  PROVE  R!Own(f, length)' = R!Own(f, length)
  <1>1. f.after \in 1 .. Len(logs) /\ Len(logs) \in Nat /\ DOMAIN logs = 1 .. Len(logs)
    BY DEF RulesTypes
  <1>2. R!Before(f)' = R!Before(f)
    <2>1. \A g \in fired' : g.after < f.after => g \in fired
      <3> SUFFICES ASSUME NEW g \in fired' \ fired, g.after < f.after PROVE FALSE
        OBVIOUS
      <3> QED
        BY <1>1
    <2> QED
      BY <2>1 DEF R!Before
  <1>3. \A i : i \in DOMAIN logs' /\ i <= f.after <=> i \in DOMAIN logs /\ i <= f.after
    BY <1>1
  <1> QED
    BY <1>2, <1>3 DEF R!Own

(* A firing stands on enough logs of its own.                              *)
Stands(f) ==
  /\ f.rule = "SIEM-003" =>
       Cardinality({logs[i].log.host : i \in R!Own(f, LateralWindow)} \ {R!None}) >= LateralMin
  /\ f.rule = "SIEM-010" =>
       Cardinality({i \in R!Own(f, BeaconWindow) : logs[i].log.type = "network_activity"}) >= BeaconMin

LEMMA StandsIsIt == FiresOnItsOwnLogs <=> \A f \in fired : Stands(f)
  BY RulesCardinality DEF FiresOnItsOwnLogs, R!FiresOnItsOwnLogs, Stands

LEMMA StandsStill ==
  ASSUME RulesTypes, NEW f \in fired, Stands(f),
         \A i \in DOMAIN logs : i \in DOMAIN logs' /\ logs'[i] = logs[i],
         \A i \in DOMAIN logs' \ DOMAIN logs : i \in Nat /\ i > Len(logs),
         fired \subseteq fired',
         \A g \in fired' \ fired : g.after \in Nat /\ g.after > Len(logs)
  PROVE  Stands(f)'
  <1>1. /\ R!Own(f, LateralWindow)' = R!Own(f, LateralWindow)
        /\ R!Own(f, BeaconWindow)' = R!Own(f, BeaconWindow)
    BY OwnStays
  <1>2. /\ \A i \in R!Own(f, LateralWindow) : logs'[i] = logs[i]
        /\ \A i \in R!Own(f, BeaconWindow) : logs'[i] = logs[i]
    BY DEF R!Own
  <1>3. {logs[i].log.host : i \in R!Own(f, LateralWindow)}'
          = {logs[i].log.host : i \in R!Own(f, LateralWindow)}
    BY <1>1, <1>2
  <1>4. {i \in R!Own(f, BeaconWindow) : logs[i].log.type = "network_activity"}'
          = {i \in R!Own(f, BeaconWindow) : logs[i].log.type = "network_activity"}
    BY <1>1, <1>2
  <1> QED
    BY <1>3, <1>4 DEF Stands

(* What a log does to the history: it is appended, and the rules that fire *)
(* with it fire after it.                                                  *)
Appends(l, n, e) ==
  /\ n \in Nat /\ DOMAIN logs = 1 .. (n - 1) /\ DOMAIN logs' = 1 .. n
  /\ \A i \in DOMAIN logs : i \in DOMAIN logs' /\ logs'[i] = logs[i] /\ i # n
  /\ \A i \in DOMAIN logs' \ DOMAIN logs : i \in Nat /\ i > Len(logs)
  /\ logs'[n] = [log |-> l, at |-> ruleClock]
  /\ logs' \in Seq(LogRows)
  /\ \A i \in DOMAIN logs' : logs'[i].at \in Nat
  /\ fired \subseteq fired'
  /\ \A g \in fired' \ fired :
       /\ g.after = n /\ g.at = ruleClock /\ g.rule \in R!Rules
       /\ g \in [rule : R!Rules, after : 1 .. n, at : Int]
       /\ g.rule = "SIEM-003" => R!LateralMovement(e).fires
       /\ g.rule = "SIEM-010" => R!Beacon(e).fires
  /\ \A g \in fired' : g.rule = "SIEM-003" /\ ~ R!LateralMovement(e).fires => g \in fired
  /\ \A g \in fired' : g.rule = "SIEM-010" /\ ~ R!Beacon(e).fires => g \in fired
  /\ reached' = R!LateralMovement(e).window /\ contacts' = R!Beacon(e).window
  /\ UNCHANGED <<ruleClock, disabled, toggles>>
  /\ e.type = l.type /\ e.host = l.host

LEMMA EvaluateAppends ==
  ASSUME RulesTypes, NEW l \in R!Logged, R!Evaluate(l), NEW n, n = Len(logs) + 1, NEW e, e = R!ToSiemEvent(l)
  PROVE  Appends(l, n, e)
  <1>1. logs \in Seq(LogRows) /\ Len(logs) \in Nat /\ ruleClock \in Nat /\ ruleClock > 0
    BY DEF RulesTypes
  <1>2. [log |-> l, at |-> ruleClock] \in LogRows
    BY <1>1 DEF LogRows
  <1>3. logs' = Append(logs, [log |-> l, at |-> ruleClock])
    BY DEF R!Evaluate
  <1>4. /\ n \in Nat /\ DOMAIN logs = 1 .. (n - 1) /\ DOMAIN logs' = 1 .. n
        /\ logs' \in Seq(LogRows)
        /\ logs'[n] = [log |-> l, at |-> ruleClock]
    BY <1>1, <1>2, <1>3
  <1>5. \A i \in DOMAIN logs : i \in DOMAIN logs' /\ logs'[i] = logs[i] /\ i # n
    BY <1>1, <1>2, <1>3
  <1>11. \A i \in DOMAIN logs : logs[i].at \in Nat
    <2>1. \A i \in DOMAIN logs : logs[i] \in LogRows
      BY <1>1
    <2> QED
      BY <2>1 DEF LogRows
  <1>12. \A i \in DOMAIN logs' : logs'[i].at \in Nat
    BY <1>1, <1>4, <1>5, <1>11
  <1>6. PICK fires \in SUBSET R!Rules :
          /\ "SIEM-003" \in fires <=> R!LateralMovement(e).fires
          /\ "SIEM-010" \in fires <=> R!Beacon(e).fires
          /\ fired' = fired \union {[rule |-> r, after |-> n, at |-> ruleClock] : r \in fires}
    <2> DEFINE fires == {r \in R!Rules : CASE r = "SIEM-001" -> R!BruteForce(e).fires
                                           [] r = "SIEM-002" -> R!PrivEscalation(e).fires
                                           [] r = "SIEM-003" -> R!LateralMovement(e).fires
                                           [] r = "SIEM-010" -> R!Beacon(e).fires}
    <2>1. fired' = fired \union {[rule |-> r, after |-> n, at |-> ruleClock] : r \in fires}
      BY DEF R!Evaluate
    <2>2. "SIEM-003" \in fires <=> R!LateralMovement(e).fires
      BY DEF R!Rules
    <2>3. "SIEM-010" \in fires <=> R!Beacon(e).fires
      BY DEF R!Rules
    <2>4. fires \in SUBSET R!Rules
      OBVIOUS
    <2> HIDE DEF fires
    <2> QED
      BY <2>1, <2>2, <2>3, <2>4
  <1>7. \A r \in R!Rules :
          [rule |-> r, after |-> n, at |-> ruleClock] \in [rule : R!Rules, after : 1 .. n, at : Int]
    BY <1>1, <1>4
  <1>8. /\ reached' = R!LateralMovement(e).window /\ contacts' = R!Beacon(e).window
        /\ UNCHANGED <<ruleClock, disabled, toggles>>
    BY DEF R!Evaluate
  <1>9. e.type = l.type /\ e.host = l.host
    BY DEF R!ToSiemEvent, R!Logged
  <1>10. \A i \in DOMAIN logs' \ DOMAIN logs : i \in Nat /\ i > Len(logs)
    BY <1>1, <1>4
  <1> QED
    BY <1>4, <1>5, <1>6, <1>7, <1>8, <1>9, <1>10, <1>12 DEF Appends

(* What a host does to the window of a source: nothing, or it joins the    *)
(* hosts of a window that is not past, which are cleared when they are     *)
(* enough.                                                                 *)
LEMMA LateralResult ==
  ASSUME RulesTypes, NEW e, e.host \in Machines \union {R!None}
  PROVE  \/ R!LateralMovement(e) = [window |-> reached, fires |-> FALSE]
         \/ \E v \in [hosts : SUBSET Machines, from : 1 .. ruleClock] :
              /\ e.host \in Machines
              /\ v.hosts # {} => v = reached /\ reached # NoWindow
              /\ ruleClock - v.from <= LateralWindow
              /\ R!LateralMovement(e).fires <=> Cardinality(v.hosts \union {e.host}) >= LateralMin
              /\ R!LateralMovement(e).window =
                   [hosts |-> IF R!LateralMovement(e).fires THEN {} ELSE v.hosts \union {e.host},
                    from |-> v.from]
  <1>1. CASE ~ R!On("SIEM-003") \/ e.host = R!None
    BY <1>1 DEF R!LateralMovement
  <1>2. CASE R!On("SIEM-003") /\ e.host # R!None
    <2> DEFINE w == R!Entry(reached, [hosts |-> {}, from |-> ruleClock])
               v == IF R!Past(w, LateralWindow) THEN [hosts |-> {}, from |-> ruleClock] ELSE w
               hosts == v.hosts \union {e.host}
    <2>1. ruleClock \in Nat /\ ruleClock \in 1 .. ruleClock
      BY DEF RulesTypes
    <2>2. w \in [hosts : SUBSET Machines, from : 1 .. ruleClock] /\ (w.hosts # {} => w = reached /\ reached # NoWindow)
      BY <2>1 DEF R!Entry, RulesTypes
    <2> HIDE DEF w
    <2>3. v \in [hosts : SUBSET Machines, from : 1 .. ruleClock]
      BY <2>1, <2>2
    <2>4. v.hosts # {} => v = reached /\ reached # NoWindow
      BY <2>2
    <2>5. ruleClock - v.from <= LateralWindow
      BY <2>1, <2>2, RulesAssumption DEF R!Past
    <2>6. R!LateralMovement(e) = [window |-> [v EXCEPT !.hosts = R!Reach(hosts)],
                                  fires |-> Cardinality(hosts) >= LateralMin]
      BY <1>2, RulesCardinality DEF R!LateralMovement, w
    <2> HIDE DEF v
    <2>7. [v EXCEPT !.hosts = R!Reach(hosts)] =
            [hosts |-> IF Cardinality(hosts) >= LateralMin THEN {} ELSE hosts, from |-> v.from]
      BY <2>3, RulesCardinality DEF R!Reach
    <2>8. e.host \in Machines
      BY <1>2
    <2>9. /\ R!LateralMovement(e).fires <=> Cardinality(hosts) >= LateralMin
          /\ R!LateralMovement(e).window = [v EXCEPT !.hosts = R!Reach(hosts)]
      <3>1. PICK u : u = [v EXCEPT !.hosts = R!Reach(hosts)]
        OBVIOUS
      <3>2. PICK b : b = (Cardinality(hosts) >= LateralMin)
        OBVIOUS
      <3>3. R!LateralMovement(e) = [window |-> u, fires |-> b]
        BY <2>6, <3>1, <3>2, Zenon
      <3>4. R!LateralMovement(e).window = u /\ R!LateralMovement(e).fires = b
        BY <3>3
      <3> QED
        BY <3>1, <3>2, <3>4, Zenon
    <2>10. R!LateralMovement(e).window =
             [hosts |-> IF R!LateralMovement(e).fires THEN {} ELSE hosts, from |-> v.from]
      <3>1. CASE Cardinality(hosts) >= LateralMin
        BY <2>7, <2>9, <3>1
      <3>2. CASE ~ Cardinality(hosts) >= LateralMin
        BY <2>7, <2>9, <3>2
      <3> QED
        BY <3>1, <3>2
    <2> QED
      BY <2>3, <2>4, <2>5, <2>8, <2>9, <2>10
  <1> QED
    BY <1>1, <1>2

LEMMA FiniteImage ==
  ASSUME NEW n \in Nat, NEW g, DOMAIN g = 1 .. n
  PROVE  IsFiniteSet({g[i] : i \in 1 .. n})
  <1> DEFINE B == {g[i] : i \in 1 .. n}
             h == [i \in 1 .. n |-> g[i]]
  <1>1. IsFiniteSet(1 .. n)
    BY FS_Interval
  <1>2. h \in Surjection(1 .. n, B)
    BY DEF Surjection
  <1>3. \E f : f \in Surjection(1 .. n, B)
    BY <1>2
  <1>4. ASSUME NEW D, IsFiniteSet(D), NEW U, \E f : f \in Surjection(D, U) PROVE IsFiniteSet(U)
    BY <1>4, FS_Surjection
  <1> HIDE DEF B
  <1>5. IsFiniteSet(B)
    BY <1>1, <1>3, <1>4
  <1> QED
    BY <1>5 DEF B

(* The window and the firings of SIEM-003 after a log.                     *)
LEMMA LateralKeeps ==
  ASSUME RulesInv, NEW l \in R!Logged, R!Evaluate(l)
  PROVE  /\ reached' \in {NoWindow} \union [hosts : SUBSET Machines, from : 1 .. ruleClock]
         /\ HostsLogged'
         /\ \A f \in fired' \ fired : f.rule = "SIEM-003" =>
              Cardinality({logs'[i].log.host : i \in R!Own(f, LateralWindow)'} \ {R!None}) >= LateralMin
  <1>1. PICK n, e : n = Len(logs) + 1 /\ e = R!ToSiemEvent(l)
    OBVIOUS
  <1>2. RulesTypes /\ HostsLogged
    BY DEF RulesInv
  <1>0. Appends(l, n, e)
    BY <1>1, <1>2, EvaluateAppends
  <1>3. /\ n \in Nat /\ DOMAIN logs = 1 .. (n - 1) /\ DOMAIN logs' = 1 .. n
        /\ \A i \in DOMAIN logs : i \in DOMAIN logs' /\ logs'[i] = logs[i] /\ i # n
        /\ logs'[n] = [log |-> l, at |-> ruleClock]
        /\ \A i \in DOMAIN logs' : logs'[i].at \in Nat
        /\ fired \subseteq fired'
        /\ reached' = R!LateralMovement(e).window /\ ruleClock' = ruleClock
        /\ e.host = l.host
    BY <1>0 DEF Appends
  <1>4. /\ \A f \in fired' \ fired : /\ f.after = n /\ f.at = ruleClock
                                     /\ f.rule = "SIEM-003" => R!LateralMovement(e).fires
        /\ \A f \in fired' : f.rule = "SIEM-003" /\ ~ R!LateralMovement(e).fires => f \in fired
    BY <1>0 DEF Appends
  <1>5. e.host \in Machines \union {R!None}
    BY <1>3 DEF R!Logged
  <1>6. /\ ruleClock \in Nat /\ Len(logs) \in Nat
        /\ \A f \in fired : f.after \in 1 .. Len(logs)
    BY <1>2 DEF RulesTypes
  <1>7. CASE R!LateralMovement(e) = [window |-> reached, fires |-> FALSE]
    <2>1. reached' = reached /\ ~ R!LateralMovement(e).fires
      BY <1>3, <1>7
    <2>2. \A i : Unspent("SIEM-003", i) => Unspent("SIEM-003", i)'
      BY <2>1, <1>3, <1>4 DEF Unspent
    <2>3. HostsLogged'
      BY <2>1, <2>2, <1>2, <1>3 DEF HostsLogged
    <2> QED
      BY <2>1, <2>3, <1>2, <1>4 DEF RulesTypes
  <1>8. ASSUME NEW v \in [hosts : SUBSET Machines, from : 1 .. ruleClock],
               e.host \in Machines,
               v.hosts # {} => v = reached /\ reached # NoWindow,
               ruleClock - v.from <= LateralWindow,
               R!LateralMovement(e).fires <=> Cardinality(v.hosts \union {e.host}) >= LateralMin,
               R!LateralMovement(e).window =
                 [hosts |-> IF R!LateralMovement(e).fires THEN {} ELSE v.hosts \union {e.host},
                  from |-> v.from]
        PROVE  /\ reached' \in {NoWindow} \union [hosts : SUBSET Machines, from : 1 .. ruleClock]
               /\ HostsLogged'
               /\ \A f \in fired' \ fired : f.rule = "SIEM-003" =>
                    Cardinality({logs'[i].log.host : i \in R!Own(f, LateralWindow)'} \ {R!None}) >= LateralMin
    <2> DEFINE hosts == v.hosts \union {e.host}
    <2>0. ruleClock - v.from <= LateralWindow
      BY <1>8
    <2>1. hosts \subseteq Machines /\ v.from \in 1 .. ruleClock /\ v.from \in Nat
      BY <1>6, <1>8
    <2>2. reached' \in [hosts : SUBSET Machines, from : 1 .. ruleClock] /\ reached'.from = v.from
      BY <2>1, <1>3, <1>8
    <2>3. ASSUME NEW h \in hosts
          PROVE  \E i \in DOMAIN logs' : /\ logs'[i].log.host = h /\ logs'[i].at >= v.from
                                         /\ i = n \/ Unspent("SIEM-003", i)
      <3>1. CASE h = e.host
        BY <3>1, <2>1, <1>1, <1>3, <1>6
      <3>2. CASE h \in v.hosts
        <4>1. PICK i \in DOMAIN logs :
                Unspent("SIEM-003", i) /\ logs[i].log.host = h /\ logs[i].at >= reached.from
          BY <3>2, <1>2, <1>8 DEF HostsLogged
        <4>2. reached.from = v.from
          BY <3>2, <1>8
        <4> QED
          BY <4>1, <4>2, <1>3
      <3> QED
        BY <3>1, <3>2
    <2>4. HostsLogged'
      <3>1. CASE R!LateralMovement(e).fires
        <4>1. reached'.hosts = {}
          BY <3>1, <1>3, <1>8
        <4> QED
          BY <4>1 DEF HostsLogged
      <3>2. CASE ~ R!LateralMovement(e).fires
        <4>1. reached'.hosts = hosts
          BY <3>2, <1>3, <1>8
        <4>2. \A i \in DOMAIN logs' : i = n \/ Unspent("SIEM-003", i) => Unspent("SIEM-003", i)'
          BY <3>2, <1>1, <1>3, <1>4, <1>6 DEF Unspent
        <4> QED
          BY <4>1, <4>2, <2>2, <2>3 DEF HostsLogged
      <3> QED
        BY <3>1, <3>2
    <2>5. ASSUME NEW f \in fired' \ fired, f.rule = "SIEM-003"
          PROVE  Cardinality({logs'[i].log.host : i \in R!Own(f, LateralWindow)'} \ {R!None}) >= LateralMin
      <3>0. PICK own : own = R!Own(f, LateralWindow)'
        OBVIOUS
      <3> DEFINE seen3 == {logs'[i].log.host : i \in own} \ {R!None}
      <3>1. f.after = n /\ f.at = ruleClock /\ Cardinality(hosts) >= LateralMin
        BY <2>5, <1>4, <1>8
      <3>2. ASSUME NEW h \in hosts PROVE h \in seen3
        <4>1. PICK i \in DOMAIN logs' : /\ logs'[i].log.host = h /\ logs'[i].at >= v.from
                                        /\ i = n \/ Unspent("SIEM-003", i)
          BY <2>3
        <4>2. i \in Nat /\ i <= n /\ i > 0
          BY <1>3
        <4>3. \A b \in R!Before(f)' : i > b
          <5> SUFFICES ASSUME NEW g \in fired', g.rule = "SIEM-003", g.after < n PROVE i > g.after
            BY <2>5, <3>1, <4>2 DEF R!Before
          <5>1. g \in fired
            BY <1>3, <1>4
          <5> QED
            BY <5>1, <4>1, <1>1, <1>6 DEF Unspent
        <4>4. f.at - logs'[i].at <= LateralWindow
          <5>1. logs'[i].at \in Nat
            BY <1>3
          <5> QED
            BY <5>1, <4>1, <3>1, <2>0, <2>1, <1>6, RulesAssumption
        <4>5. i \in own
          BY <4>2, <4>3, <4>4, <3>0, <3>1 DEF R!Own
        <4>6. h # R!None
          BY <2>1, RulesAssumption
        <4>7. h \in {logs'[x].log.host : x \in own}
          BY <4>1, <4>5
        <4> QED
          BY <4>6, <4>7
      <3>3. IsFiniteSet(seen3)
        <4> DEFINE g == [i \in 1 .. n |-> logs'[i].log.host]
        <4>1. IsFiniteSet({g[i] : i \in 1 .. n})
          <5> HIDE DEF g
          <5>1. DOMAIN g = 1 .. n
            BY DEF g
          <5> QED
            BY <5>1, <1>3, FiniteImage
        <4>2. seen3 \subseteq {g[i] : i \in 1 .. n}
          BY <1>3, <3>0 DEF R!Own
        <4> QED
          BY <4>1, <4>2, FS_Subset
      <3> HIDE DEF seen3
      <3>4. hosts \in SUBSET seen3
        BY <3>2
      <3> HIDE DEF hosts
      <3>5. Cardinality(hosts) <= Cardinality(seen3) /\ IsFiniteSet(hosts)
        BY <3>3, <3>4, FS_Subset
      <3>6. Cardinality(hosts) \in Nat /\ Cardinality(seen3) \in Nat
        BY <3>3, <3>5, FS_CardinalityType
      <3> QED
        BY <3>0, <3>1, <3>5, <3>6, RulesAssumption DEF seen3
    <2> QED
      BY <2>2, <2>4, <2>5
  <1> QED
    BY <1>2, <1>5, <1>7, <1>8, LateralResult

(* What a connection does to the contacts of a pair: nothing, or it is     *)
(* added to the recent ones, which are cleared when they are regular.      *)
LEMMA BeaconResult ==
  ASSUME NEW e
  PROVE  \/ R!Beacon(e) = [window |-> contacts, fires |-> FALSE]
         \/ \E times :
              /\ times = Append(R!Recent(contacts), ruleClock)
              /\ e.type = "network_activity"
              /\ R!Beacon(e).fires => Len(times) >= BeaconMin /\ R!Beacon(e).window = <<>>
              /\ ~ R!Beacon(e).fires => R!Beacon(e).window = times
  <1>1. CASE ~ R!On("SIEM-010") \/ e.type # "network_activity"
    BY <1>1 DEF R!Beacon
  <1>2. CASE R!On("SIEM-010") /\ e.type = "network_activity"
    <2>1. PICK times : times = Append(R!Recent(contacts), ruleClock)
      OBVIOUS
    <2>2. PICK b \in BOOLEAN : b <=> Len(times) >= BeaconMin /\ R!IsRegular(times)
      BY Zenon
    <2>3. PICK u : u = IF b THEN <<>> ELSE times
      OBVIOUS
    <2>4. R!Beacon(e) = [window |-> u, fires |-> b]
      BY <1>2, <2>1, <2>2, <2>3 DEF R!Beacon
    <2>5. R!Beacon(e).window = u /\ R!Beacon(e).fires = b
      BY <2>4
    <2> QED
      BY <1>2, <2>1, <2>2, <2>3, <2>5
  <1> QED
    BY <1>1, <1>2

(* The contacts and the firings of SIEM-010 after a log.                   *)
LEMMA BeaconKeeps ==
  ASSUME RulesInv, NEW l \in R!Logged, R!Evaluate(l)
  PROVE  /\ contacts' \in Seq(Int)
         /\ \A x \in DOMAIN contacts' : contacts'[x] \in 1 .. ruleClock
         /\ \A x, y \in DOMAIN contacts' : x <= y => contacts'[x] <= contacts'[y]
         /\ ContactsLogged'
         /\ \A f \in fired' \ fired : f.rule = "SIEM-010" =>
              Cardinality({i \in R!Own(f, BeaconWindow)' : logs'[i].log.type = "network_activity"}) >= BeaconMin
  <1>1. PICK n, e : n = Len(logs) + 1 /\ e = R!ToSiemEvent(l)
    OBVIOUS
  <1>2. RulesTypes /\ ContactsLogged
    BY DEF RulesInv
  <1>3. Appends(l, n, e)
    BY <1>1, <1>2, EvaluateAppends
  <1>4. /\ n \in Nat /\ DOMAIN logs = 1 .. (n - 1) /\ DOMAIN logs' = 1 .. n
        /\ \A i \in DOMAIN logs : i \in DOMAIN logs' /\ logs'[i] = logs[i] /\ i # n
        /\ logs'[n] = [log |-> l, at |-> ruleClock]
        /\ fired \subseteq fired' /\ contacts' = R!Beacon(e).window /\ e.type = l.type
    BY <1>3 DEF Appends
  <1>5. /\ \A f \in fired' \ fired : /\ f.after = n /\ f.at = ruleClock
                                     /\ f.rule = "SIEM-010" => R!Beacon(e).fires
        /\ \A f \in fired' : f.rule = "SIEM-010" /\ ~ R!Beacon(e).fires => f \in fired
    BY <1>3 DEF Appends
  <1>6. /\ ruleClock \in Nat /\ ruleClock > 0 /\ Len(logs) \in Nat /\ n \in DOMAIN logs'
        /\ \A f \in fired : f.after \in 1 .. Len(logs)
    BY <1>1, <1>2, <1>4 DEF RulesTypes
  <1>7. CASE R!Beacon(e) = [window |-> contacts, fires |-> FALSE]
    <2>1. contacts' = contacts /\ ~ R!Beacon(e).fires
      BY <1>4, <1>7
    <2>2. \A i : Unspent("SIEM-010", i) => Unspent("SIEM-010", i)'
      BY <2>1, <1>4, <1>5 DEF Unspent
    <2>3. ContactsLogged'
      <3>1. PICK log \in [DOMAIN contacts -> DOMAIN logs] :
              /\ \A x, y \in DOMAIN contacts : log[x] = log[y] => x = y
              /\ \A x \in DOMAIN contacts :
                   /\ Unspent("SIEM-010", log[x])
                   /\ logs[log[x]].log.type = "network_activity" /\ logs[log[x]].at = contacts[x]
        BY <1>2 DEF ContactsLogged
      <3>2. log \in [DOMAIN contacts' -> DOMAIN logs']
        BY <2>1, <1>4
      <3>3. \A x \in DOMAIN contacts' :
              /\ Unspent("SIEM-010", log[x])'
              /\ logs'[log[x]].log.type = "network_activity" /\ logs'[log[x]].at = contacts'[x]
        BY <2>1, <2>2, <3>1, <1>4
      <3>4. \A x, y \in DOMAIN contacts' : log[x] = log[y] => x = y
        BY <2>1, <3>1
      <3> QED
        BY <3>2, <3>3, <3>4 DEF ContactsLogged
    <2> QED
      BY <2>1, <2>3, <1>2, <1>5 DEF RulesTypes
  <1>8. ASSUME NEW times,
               times = Append(R!Recent(contacts), ruleClock),
               e.type = "network_activity",
               R!Beacon(e).fires => Len(times) >= BeaconMin /\ R!Beacon(e).window = <<>>,
               ~ R!Beacon(e).fires => R!Beacon(e).window = times
        PROVE  /\ contacts' \in Seq(Int)
               /\ \A x \in DOMAIN contacts' : contacts'[x] \in 1 .. ruleClock
               /\ \A x, y \in DOMAIN contacts' : x <= y => contacts'[x] <= contacts'[y]
               /\ ContactsLogged'
               /\ \A f \in fired' \ fired : f.rule = "SIEM-010" =>
                    Cardinality({i \in R!Own(f, BeaconWindow)' : logs'[i].log.type = "network_activity"})
                      >= BeaconMin
    <2>1. PICK rest : rest = R!Recent(contacts)
      OBVIOUS
    <2>2. /\ rest \in Seq(Int)
          /\ \A x \in DOMAIN rest : rest[x] \in 1 .. ruleClock /\ ruleClock - rest[x] <= BeaconWindow
          /\ \A x, y \in DOMAIN rest : x <= y => rest[x] <= rest[y]
          /\ \E log \in [DOMAIN rest -> DOMAIN logs] :
               /\ \A x, y \in DOMAIN rest : log[x] = log[y] => x = y
               /\ \A x \in DOMAIN rest :
                    /\ Unspent("SIEM-010", log[x])
                    /\ logs[log[x]].log.type = "network_activity" /\ logs[log[x]].at = rest[x]
      BY <2>1, <1>2, RecentKeeps
    <2>3. PICK log \in [DOMAIN rest -> DOMAIN logs] :
            /\ \A x, y \in DOMAIN rest : log[x] = log[y] => x = y
            /\ \A x \in DOMAIN rest :
                 /\ Unspent("SIEM-010", log[x])
                 /\ logs[log[x]].log.type = "network_activity" /\ logs[log[x]].at = rest[x]
      BY <2>2
    <2>4. PICK m \in Nat : m = Len(rest) + 1 /\ DOMAIN rest = 1 .. (m - 1)
      BY <2>2
    <2>5. /\ times \in Seq(Int) /\ Len(times) = m /\ DOMAIN times = 1 .. m /\ times[m] = ruleClock
          /\ \A x \in 1 .. (m - 1) : times[x] = rest[x]
      BY <2>1, <2>2, <2>4, <1>6, <1>8
    <2>6. /\ \A x \in 1 .. m : times[x] \in 1 .. ruleClock /\ ruleClock - times[x] <= BeaconWindow
          /\ \A x, y \in 1 .. m : x <= y => times[x] <= times[y]
      <3>1. \A x \in 1 .. m : x = m \/ x \in 1 .. (m - 1)
        BY <2>4
      <3>2. \A x \in 1 .. (m - 1) : times[x] \in 1 .. ruleClock /\ ruleClock - times[x] <= BeaconWindow
        BY <2>2, <2>4, <2>5
      <3>3. times[m] \in 1 .. ruleClock /\ ruleClock - times[m] <= BeaconWindow
        BY <2>5, <1>6, RulesAssumption
      <3>4. \A x \in 1 .. m : times[x] \in 1 .. ruleClock /\ ruleClock - times[x] <= BeaconWindow
        BY <3>1, <3>2, <3>3
      <3>5. \A x, y \in 1 .. m : x <= y => times[x] <= times[y]
        <4> SUFFICES ASSUME NEW x \in 1 .. m, NEW y \in 1 .. m, x <= y PROVE times[x] <= times[y]
          OBVIOUS
        <4>1. CASE y = m
          BY <4>1, <3>4, <2>5
        <4>2. CASE y # m
          <5>1. x \in 1 .. (m - 1) /\ y \in 1 .. (m - 1)
            BY <4>2, <2>4
          <5> QED
            BY <5>1, <2>2, <2>4, <2>5
        <4> QED
          BY <4>1, <4>2
      <3> QED
        BY <3>4, <3>5
    <2> DEFINE all == [x \in 1 .. m |-> IF x = m THEN n ELSE log[x]]
    <2>7. \A x \in 1 .. m :
            /\ all[x] \in DOMAIN logs' /\ (x = m \/ Unspent("SIEM-010", all[x]))
            /\ (x = m <=> all[x] = n)
            /\ logs'[all[x]].log.type = "network_activity" /\ logs'[all[x]].at = times[x]
      <3> SUFFICES ASSUME NEW x \in 1 .. m
                   PROVE  /\ all[x] \in DOMAIN logs' /\ (x = m \/ Unspent("SIEM-010", all[x]))
                          /\ (x = m <=> all[x] = n)
                          /\ logs'[all[x]].log.type = "network_activity" /\ logs'[all[x]].at = times[x]
        OBVIOUS
      <3>1. CASE x = m
        <4>1. all[x] = n /\ logs'[n].log = l /\ logs'[n].at = ruleClock
          BY <3>1, <1>4
        <4> QED
          BY <3>1, <4>1, <2>5, <1>4, <1>6, <1>8
      <3>2. CASE x # m
        <4>1. x \in 1 .. (m - 1) /\ all[x] = log[x] /\ log[x] \in DOMAIN logs
          BY <3>2, <2>3, <2>4
        <4> QED
          BY <3>2, <4>1, <2>3, <2>4, <2>5, <1>4
      <3> QED
        BY <3>1, <3>2
    <2>8. \A x, y \in 1 .. m : all[x] = all[y] => x = y
      <3> SUFFICES ASSUME NEW x \in 1 .. m, NEW y \in 1 .. m, all[x] = all[y] PROVE x = y
        OBVIOUS
      <3>1. CASE x = m \/ y = m
        BY <3>1, <2>7
      <3>2. CASE x # m /\ y # m
        BY <3>2, <2>3, <2>4
      <3> QED
        BY <3>1, <3>2
    <2>9. all \in [1 .. m -> DOMAIN logs']
      BY <2>7
    <2> HIDE DEF all
    <2>10. /\ contacts' \in Seq(Int)
           /\ \A x \in DOMAIN contacts' : contacts'[x] \in 1 .. ruleClock
           /\ \A x, y \in DOMAIN contacts' : x <= y => contacts'[x] <= contacts'[y]
      <3>1. CASE contacts' = times
        BY <3>1, <2>5, <2>6
      <3>2. CASE contacts' = <<>>
        BY <3>2
      <3> QED
        BY <3>1, <3>2, <1>4, <1>8
    <2>11. ContactsLogged'
      <3>1. CASE R!Beacon(e).fires
        <4>1. contacts' = <<>> /\ DOMAIN contacts' = {}
          BY <3>1, <1>4, <1>8
        <4>2. [x \in {} |-> x] \in [DOMAIN contacts' -> DOMAIN logs']
          BY <4>1
        <4> QED
          BY <4>1, <4>2 DEF ContactsLogged
      <3>2. CASE ~ R!Beacon(e).fires
        <4>1. contacts' = times
          BY <3>2, <1>4, <1>8
        <4>2. \A i : Unspent("SIEM-010", i) => Unspent("SIEM-010", i)'
          BY <3>2, <1>4, <1>5 DEF Unspent
        <4>3. Unspent("SIEM-010", n)'
          BY <3>2, <1>1, <1>5, <1>6 DEF Unspent
        <4>4. \A x \in 1 .. m : Unspent("SIEM-010", all[x])'
          BY <4>2, <4>3, <2>7
        <4> QED
          BY <4>1, <4>4, <2>5, <2>7, <2>8, <2>9 DEF ContactsLogged
      <3> QED
        BY <3>1, <3>2
    <2>12. ASSUME NEW f \in fired' \ fired, f.rule = "SIEM-010"
           PROVE  Cardinality({i \in R!Own(f, BeaconWindow)' : logs'[i].log.type = "network_activity"})
                    >= BeaconMin
      <3>1. PICK own : own = {i \in R!Own(f, BeaconWindow)' : logs'[i].log.type = "network_activity"}
        OBVIOUS
      <3>2. f.after = n /\ f.at = ruleClock /\ m >= BeaconMin
        BY <2>5, <2>12, <1>5, <1>8
      <3>3. ASSUME NEW x \in 1 .. m PROVE all[x] \in own
        <4>1. all[x] \in 1 .. n
          BY <2>7, <1>4
        <4>2. \A b \in R!Before(f)' : all[x] > b
          <5> SUFFICES ASSUME NEW g \in fired', g.rule = "SIEM-010", g.after < n PROVE all[x] > g.after
            BY <2>12, <3>2, <4>1 DEF R!Before
          <5>1. g \in fired
            BY <1>4, <1>5
          <5> QED
            BY <5>1, <2>7, <1>1, <1>6 DEF Unspent
        <4>3. f.at - logs'[all[x]].at <= BeaconWindow
          BY <3>2, <2>6, <2>7
        <4> QED
          BY <3>1, <3>2, <4>1, <4>2, <4>3, <2>7, <1>4 DEF R!Own
      <3>4. IsFiniteSet(own)
        <4>1. own \subseteq 1 .. n
          BY <3>1, <1>4 DEF R!Own
        <4>2. IsFiniteSet(1 .. n)
          <5>1. n \in Int
            BY <1>4
          <5> QED
            BY <5>1, FS_Interval
        <4> QED
          BY <4>1, <4>2, FS_Subset
      <3>5. all \in Injection(1 .. m, own)
        BY <3>3, <2>8, <2>9 DEF Injection, IsInjective
      <3>6. Cardinality(1 .. m) <= Cardinality(own)
        BY <3>4, <3>5, FS_Injection
      <3>7. Cardinality(1 .. m) = m /\ Cardinality(own) \in Nat
        BY <3>4, <2>4, FS_Interval, FS_CardinalityType
      <3> QED
        BY <3>1, <3>2, <3>6, <3>7, RulesAssumption
    <2> QED
      BY <2>10, <2>11, <2>12
  <1> QED
    BY <1>7, <1>8, BeaconResult

LEMMA EvaluateKeeps == ASSUME RulesInv, NEW l \in R!Logged, R!Evaluate(l) PROVE RulesInv'
  <1>1. PICK n, e : n = Len(logs) + 1 /\ e = R!ToSiemEvent(l)
    OBVIOUS
  <1>2. RulesTypes /\ (\A f \in fired : Stands(f))
    BY StandsIsIt DEF RulesInv
  <1>3. Appends(l, n, e)
    BY <1>1, <1>2, EvaluateAppends
  <1>4. RulesTypes'
    <2>1. Len(logs') = n /\ logs' \in Seq(LogRows)
      <3>1. logs' \in Seq(LogRows) /\ n \in Nat /\ DOMAIN logs' = 1 .. n
        BY <1>3 DEF Appends
      <3> QED
        BY <3>1
    <2>2. fired' \subseteq [rule : R!Rules, after : 1 .. n, at : Int]
      <3>1. fired \subseteq [rule : R!Rules, after : 1 .. n, at : Int]
        BY <1>1, <1>2, <1>3 DEF RulesTypes, Appends
      <3> QED
        BY <3>1, <1>3 DEF Appends
    <2>3. UNCHANGED <<ruleClock, disabled, toggles>>
      BY <1>3 DEF Appends
    <2> QED
      BY <2>1, <2>2, <2>3, <1>2, LateralKeeps, BeaconKeeps DEF RulesTypes
  <1>5. FiresOnItsOwnLogs'
    <2>1. ASSUME NEW f \in fired PROVE Stands(f)'
      BY <1>2, <1>3, StandsStill DEF Appends
    <2>2. ASSUME NEW f \in fired' \ fired PROVE Stands(f)'
      BY LateralKeeps, BeaconKeeps DEF Stands
    <2>3. FiresOnItsOwnLogs' <=> \A f \in fired' : Stands(f)'
      BY RulesCardinality DEF FiresOnItsOwnLogs, R!FiresOnItsOwnLogs, Stands
    <2> QED
      BY <2>1, <2>2, <2>3
  <1> QED
    BY <1>4, <1>5, LateralKeeps, BeaconKeeps DEF RulesInv

(* The history is left alone.                                              *)
LEMMA HistoryStays ==
  ASSUME FiresOnItsOwnLogs, UNCHANGED <<logs, fired>>
  PROVE  FiresOnItsOwnLogs' /\ \A rule, i : Unspent(rule, i)' <=> Unspent(rule, i)
  BY DEF FiresOnItsOwnLogs, R!FiresOnItsOwnLogs, R!Own, R!Before, Unspent

LEMMA WindowsStay ==
  ASSUME RulesInv, UNCHANGED <<logs, fired>>
  PROVE  /\ reached' \in {reached, NoWindow} => HostsLogged'
         /\ contacts' \in {contacts, <<>>} => ContactsLogged'
         /\ contacts' = R!Recent(contacts) => ContactsLogged'
  <1>1. \A rule, i : Unspent(rule, i)' <=> Unspent(rule, i)
    BY HistoryStays DEF RulesInv
  <1>2. ASSUME reached' \in {reached, NoWindow} PROVE HostsLogged'
    BY <1>1, <1>2 DEF RulesInv, HostsLogged
  <1>3. ASSUME contacts' = contacts PROVE ContactsLogged'
    BY <1>1, <1>3 DEF RulesInv, ContactsLogged
  <1>4. ASSUME contacts' = <<>> PROVE ContactsLogged'
    <2>1. DOMAIN contacts' = {} /\ [x \in {} |-> x] \in [DOMAIN contacts' -> DOMAIN logs']
      BY <1>4
    <2> QED
      BY <2>1 DEF ContactsLogged
  <1>5. ASSUME contacts' = R!Recent(contacts) PROVE ContactsLogged'
    <2>1. \E log \in [DOMAIN contacts' -> DOMAIN logs] :
            /\ \A x, y \in DOMAIN contacts' : log[x] = log[y] => x = y
            /\ \A x \in DOMAIN contacts' :
                 /\ Unspent("SIEM-010", log[x])
                 /\ logs[log[x]].log.type = "network_activity" /\ logs[log[x]].at = contacts'[x]
      BY <1>5, RecentKeeps DEF RulesInv
    <2> QED
      BY <2>1, <1>1 DEF ContactsLogged
  <1> QED
    BY <1>2, <1>3, <1>4, <1>5

LEMMA RulesStep == RulesInv /\ [R!Next]_(R!vars) => RulesInv'
  <1> SUFFICES ASSUME RulesInv, [R!Next]_(R!vars) PROVE RulesInv'
    OBVIOUS
  <1>1. ASSUME NEW l \in R!Logged, R!Evaluate(l) PROVE RulesInv'
    BY <1>1, EvaluateKeeps
  <1>2. ASSUME UNCHANGED <<logs, fired>>,
               ruleClock' \in {ruleClock, ruleClock + 1} /\ ruleClock' <= RuleTime,
               reached' \in {reached, NoWindow},
               contacts' \in {contacts, <<>>} \/ contacts' = R!Recent(contacts),
               disabled' \subseteq R!Rules, toggles' \in 0 .. MaxToggles
        PROVE  RulesInv'
    <2>1. RulesTypes
      BY DEF RulesInv
    <2>2. /\ contacts' \in Seq(Int)
          /\ \A x \in DOMAIN contacts' : contacts'[x] \in 1 .. ruleClock
          /\ \A x, y \in DOMAIN contacts' : x <= y => contacts'[x] <= contacts'[y]
      <3>1. CASE contacts' = contacts
        BY <3>1, <2>1 DEF RulesTypes
      <3>2. CASE contacts' = <<>>
        BY <3>2
      <3>3. CASE contacts' = R!Recent(contacts)
        BY <3>3, <2>1, RecentKeeps DEF RulesInv
      <3> QED
        BY <3>1, <3>2, <3>3, <1>2
    <2>3. ruleClock' \in 1 .. RuleTime /\ 1 .. ruleClock \subseteq 1 .. ruleClock'
      BY <1>2, <2>1 DEF RulesTypes
    <2>4. reached' \in {NoWindow} \union [hosts : SUBSET Machines, from : 1 .. ruleClock']
      BY <1>2, <2>1, <2>3 DEF RulesTypes
    <2>5. RulesTypes'
      BY <1>2, <2>1, <2>2, <2>3, <2>4 DEF RulesTypes
    <2> QED
      BY <1>2, <2>5, WindowsStay, HistoryStays DEF RulesInv
  <1>3. ruleClock \in 1 .. RuleTime /\ disabled \subseteq R!Rules /\ toggles \in 0 .. MaxToggles
    BY DEF RulesInv, RulesTypes
  <1>4. CASE R!Sweep
    BY <1>2, <1>3, <1>4 DEF R!Sweep, R!Kept
  <1>5. CASE R!Restart
    BY <1>2, <1>3, <1>5, RulesAssumption DEF R!Restart
  <1>6. CASE R!Tick
    BY <1>2, <1>3, <1>6, RulesAssumption DEF R!Tick, R!windows
  <1>7. ASSUME NEW rule \in R!Rules, R!Switch(rule) PROVE RulesInv'
    BY <1>2, <1>3, <1>7, RulesAssumption DEF R!Switch, R!windows
  <1>8. CASE UNCHANGED R!vars
    BY <1>2, <1>3, <1>8 DEF R!vars
  <1> QED
    BY <1>1, <1>4, <1>5, <1>6, <1>7, <1>8 DEF R!Next

(* However logs, sweeps, switched rules and restarts fall, an alert of     *)
(* SIEM-003 or SIEM-010 stands on enough logs of its window, none of which *)
(* an earlier alert of the rule stood on.                                  *)
THEOREM FiringsStandAlone == R!Spec => []FiresOnItsOwnLogs
  <1>1. R!Spec => []RulesInv
    BY RulesInit, RulesStep, PTL DEF R!Spec
  <1>2. RulesInv => FiresOnItsOwnLogs
    BY DEF RulesInv
  <1> QED
    BY <1>1, <1>2, PTL

-----------------------------------------------------------------------------
(* Types of the state: what the invariants above leave out.                *)

LEMMA EachOfServices ==
  MCSpec => T!Spec /\ E!Spec /\ C!Spec /\ M!Spec /\ G!Spec /\ S!Spec /\ R!Spec
  <1> DEFINE moved == <<side, triage, evidence, captures, commands, guardian, siem, rules>>
  <1>1. MCInit => /\ T!Init /\ E!Init /\ C!Init /\ M!Init /\ G!Init /\ S!Init /\ R!Init
    BY DEF MCInit
  <1>2. [MCNext]_moved => [T!Next]_T!vars
    BY DEF MCNext, triage, T!vars
  <1>3. [MCNext]_moved => [E!Next]_E!vars
    BY DEF MCNext, evidence, E!vars
  <1>4. [MCNext]_moved => [C!Next]_C!vars
    BY DEF MCNext, captures, C!vars
  <1>5. [MCNext]_moved => [M!Next]_M!vars
    BY DEF MCNext, commands, M!vars
  <1>6. [MCNext]_moved => [G!Next]_G!vars
    BY DEF MCNext, guardian, G!vars
  <1>7. [MCNext]_moved => [S!Next]_S!vars
    BY DEF MCNext, siem, S!vars
  <1>8. [MCNext]_moved => [R!Next]_R!vars
    BY DEF MCNext, rules, R!vars
  <1> QED
    BY <1>1, <1>2, <1>3, <1>4, <1>5, <1>6, <1>7, <1>8, PTL
       DEF MCSpec, T!Spec, E!Spec, C!Spec, M!Spec, G!Spec, S!Spec, R!Spec

(* Guardian.                                                               *)
GuardianBounds ==
  /\ day \in 0 .. MaxDays /\ edits \in 0 .. MaxEdits /\ leader \in Engines
  /\ compressed \in BOOLEAN /\ ttl \in RawDays \union {FirstTTL} /\ files \subseteq Bundles

LEMMA GuardianBoundsStep ==
  GuardianInv /\ GuardianBounds /\ [G!Next]_G!vars => GuardianBounds'
  <1> SUFFICES ASSUME GuardianInv, GuardianBounds, [G!Next]_G!vars PROVE GuardianBounds'
    BY Zenon
  <1> USE GuardianAssumption DEF GuardianBounds
  <1>1. ASSUME NEW a \in G!Modes, NEW d \in RawDays, G!SetMode(a, d) PROVE GuardianBounds'
    BY <1>1 DEF G!SetMode, G!Change, G!table
  <1>2. ASSUME NEW l \in G!Levels, G!DiskFills(l) PROVE GuardianBounds'
    BY <1>2 DEF G!DiskFills, G!Change, G!table
  <1>3. ASSUME NEW b \in Bundles,
               \/ G!DropRow(b) \/ \E held \in BOOLEAN : G!Hold(b, held)
               \/ \E c \in Sessions : G!Capture(b, c)
        PROVE  GuardianBounds'
    BY <1>3 DEF G!DropRow, G!Hold, G!Capture, G!settings, G!table
  <1>4. ASSUME NEW c \in Sessions, G!OpenCase(c) \/ G!CloseCase(c) PROVE GuardianBounds'
    BY <1>4 DEF G!OpenCase, G!CloseCase, G!settings, G!table
  <1>5. ASSUME NEW g \in Engines,
               \/ G!LeaderChanges(g) \/ G!Begin(g) \/ G!ReadTTL(g) \/ G!ListExpired(g)
               \/ G!ListCases(g)
        PROVE  GuardianBounds'
    BY <1>5 DEF G!LeaderChanges, G!Begin, G!ReadTTL, G!ListExpired, G!ListCases, G!settings, G!table
  <1>6. ASSUME NEW g \in Engines, G!CompressRaw(g) PROVE GuardianBounds'
    <2>1. compressed' \in BOOLEAN
      BY <1>6 DEF G!CompressRaw
    <2> QED
      BY <1>6, <2>1 DEF G!CompressRaw, G!settings
  <1>7. ASSUME NEW g \in Engines, G!AlterTTL(g) PROVE GuardianBounds'
    <2>1. pass[g] \in Passes
      BY <1>7 DEF GuardianInv, GuardianTypes, G!AlterTTL, G!At, G!Idle
    <2>2. ttl' \in RawDays
      BY <1>7, <2>1 DEF G!AlterTTL, Passes
    <2> QED
      BY <1>7, <2>2 DEF G!AlterTTL, G!settings
  <1>8. ASSUME NEW g \in Engines, NEW b \in Bundles, G!RemoveFile(g, b) PROVE GuardianBounds'
    BY <1>8 DEF G!RemoveFile, G!settings, G!table
  <1>9. CASE G!NextDay
    BY <1>9 DEF G!NextDay, G!settings, G!table
  <1>10. CASE UNCHANGED G!vars
    BY <1>10 DEF G!vars
  <1> QED
    BY <1>1, <1>2, <1>3, <1>4, <1>5, <1>6, <1>7, <1>8, <1>9, <1>10 DEF G!Next

LEMMA GuardianTyped == G!Spec => []G!TypeOK
  <1>1. G!Init => GuardianBounds
    <2> SUFFICES ASSUME G!Init PROVE GuardianBounds
      OBVIOUS
    <2>1. day = 0 /\ edits = 0 /\ leader \in Engines /\ compressed = FALSE /\ ttl = FirstTTL /\ files = {}
      BY DEF G!Init
    <2>2. 0 \in 0 .. MaxDays /\ 0 \in 0 .. MaxEdits
      BY GuardianAssumption
    <2>3. FALSE \in BOOLEAN /\ {} \subseteq Bundles
      OBVIOUS
    <2> QED
      BY <2>1, <2>2, <2>3 DEF GuardianBounds
  <1>2. GuardianInv /\ GuardianBounds => G!TypeOK
    BY DEF GuardianInv, GuardianTypes, GuardianBounds, Passes, G!Idle, G!TypeOK
  <1> QED
    BY <1>1, <1>2, GuardianInit, GuardianStep, GuardianBoundsStep, PTL DEF G!Spec

-----------------------------------------------------------------------------
(* SensorCommands.                                                         *)

CommandBounds ==
  /\ second <= CommandTime /\ count <= MaxCommands /\ commandFaults \in 0 .. CommandFaults
  /\ pending \subseteq M!Rows /\ doomed \subseteq M!Rows
  /\ answered \in [Probes -> M!Rows \union {Nothing}]
  /\ registering \subseteq Probes

LEMMA QueueBounds ==
  ASSUME CommandInv, CommandBounds, NEW scope \in M!Scopes, M!Queue(scope)
  PROVE  count' <= MaxCommands /\ pending' \subseteq M!Rows
  <1>1. count' \in 1 .. MaxCommands /\ second \in 0 .. CommandTime
    BY CommandAssumption DEF M!Queue, CommandBounds, CommandInv, CommandTypes
  <1>2. [scope |-> scope, at |-> second, serial |-> count'] \in M!Rows
    BY <1>1 DEF M!Rows
  <1> QED
    BY <1>1, <1>2 DEF M!Queue, CommandBounds

LEMMA CommandBoundsStep ==
  CommandInv /\ CommandBounds /\ [M!Next]_M!vars => CommandBounds'
  <1> SUFFICES ASSUME CommandInv, CommandBounds, [M!Next]_M!vars PROVE CommandBounds'
    BY Zenon
  <1> USE CommandAssumption
  <1>1. ASSUME NEW scope \in M!Scopes, M!Control(scope) PROVE CommandBounds'
    BY <1>1, QueueBounds DEF M!Control, CommandBounds
  <1>2. ASSUME NEW s \in Probes, M!Register(s) PROVE CommandBounds'
    <2>1. registering' \subseteq Probes
      BY <1>2 DEF M!Register, CommandBounds
    <2>2. s \in M!Scopes
      BY DEF M!Scopes
    <2>3. count' <= MaxCommands /\ pending' \subseteq M!Rows /\ commandFaults' \in 0 .. CommandFaults
      BY <1>2, <2>2, QueueBounds DEF M!Register, M!Fault, CommandBounds
    <2> QED
      BY <1>2, <2>1, <2>3 DEF M!Register, CommandBounds
  <1>3. ASSUME NEW s \in Probes, M!Ask(s) PROVE CommandBounds'
    <2>1. M!Candidates(s) \subseteq M!Rows
      BY DEF M!Candidates, M!Own, CommandBounds
    <2> QED
      BY <1>3, <2>1 DEF M!Ask, CommandBounds
  <1>4. ASSUME NEW s \in Probes, M!Answer(s) PROVE CommandBounds'
    <2>1. doomed' \subseteq M!Rows
      BY <1>4 DEF M!Answer, M!Cleared, CommandBounds
    <2>2. commandFaults' \in 0 .. CommandFaults
      BY <1>4 DEF M!Answer, M!Fault, CommandBounds
    <2> QED
      BY <1>4, <2>1, <2>2 DEF M!Answer, CommandBounds
  <1>5. CASE M!Mutate
    BY <1>5 DEF M!Mutate, CommandBounds
  <1>6. CASE M!Tick
    BY <1>6 DEF M!Tick, CommandBounds, CommandInv, CommandTypes
  <1>7. CASE UNCHANGED M!vars
    BY <1>7 DEF M!vars, CommandBounds
  <1> QED
    BY <1>1, <1>2, <1>3, <1>4, <1>5, <1>6, <1>7 DEF M!Next

LEMMA CommandsTyped == M!Spec => []M!TypeOK
  <1>1. M!Init => CommandBounds
    BY CommandAssumption DEF M!Init, CommandBounds
  <1>2. CommandInv /\ CommandBounds => M!TypeOK
    <2> SUFFICES ASSUME CommandInv, CommandBounds PROVE M!TypeOK
      OBVIOUS
    <2>1. \A s \in Probes : newest[s] \in 0 .. MaxCommands
      BY CommandAssumption DEF CommandInv, CommandTypes, Past, CommandBounds
    <2> QED
      BY <2>1, CommandAssumption DEF CommandInv, CommandTypes, CommandBounds, M!TypeOK
  <1>3. CommandInv /\ [M!Next]_M!vars => CommandInv'
    BY CommandStep
  <1> QED
    BY <1>1, <1>2, <1>3, CommandInit, CommandBoundsStep, PTL DEF M!Spec

-----------------------------------------------------------------------------
(* Triage: every copy of the document is within the budget, overlapping    *)
(* work or not; what is lost when work overlaps are the calls, not the     *)
(* bound.                                                                  *)
Holding(t) ==
  /\ t.pc = "idle" => t.doc = NoDoc
  /\ t.pc # "idle" => t.doc.ai.calls <= Limit
  /\ t.pc = "asking" => T!Used(t.doc.ai, t.began) + Cardinality(t.todo) <= Limit
  /\ t.pc # "asking" => t.todo = {}
  /\ t.key # NoRec <=> t.pc \in {"applying", "suppressed", "dismissing"}

TriageBounds ==
  /\ hour <= MaxHour /\ hidden \subseteq T!Pairs /\ doc.ai.calls <= Limit
  /\ \A j \in T!Jobs : Holding(run[j])

LEMMA ErrandBounds ==
  ASSUME TriageTypes, TriageBounds, NEW j \in T!Jobs, NEW t, run' = [run EXCEPT ![j] = t], Holding(t),
         hour' <= MaxHour, hidden' \subseteq T!Pairs, doc'.ai.calls <= Limit
  PROVE  TriageBounds'
  <1> HIDE DEF T!Jobs, Holding
  <1>1. \A i \in T!Jobs : run'[i] = IF i = j THEN t ELSE run[i]
    BY DEF TriageTypes
  <1>2. \A i \in T!Jobs : Holding(run'[i])
    BY <1>1 DEF TriageBounds
  <1>3. \A i \in T!Jobs : Holding(run[i])'
    BY <1>2 DEF Holding
  <1> QED
    BY <1>3 DEF TriageBounds

LEMMA FinishBounds ==
  ASSUME TriageTypes, TriageBounds, NEW j \in T!Jobs, T!Finish(j),
         hour' <= MaxHour, hidden' \subseteq T!Pairs, doc'.ai.calls <= Limit
  PROVE  TriageBounds'
  <1>1. PICK t : t = T!Idle
    OBVIOUS
  <1>2. run' = [run EXCEPT ![j] = t] /\ Holding(t)
    BY <1>1 DEF T!Finish, T!Idle, Holding
  <1> QED
    BY <1>2, ErrandBounds

LEMMA LoadBounds ==
  ASSUME TriageTypes, TriageBounds, NEW j \in T!Jobs, NEW pc \in {"loaded", "applying", "dismissing"},
         NEW k \in Keys \cup {NoRec}, T!Load(j, pc, k), k = NoRec <=> pc = "loaded"
  PROVE  TriageBounds'
  <1>1. PICK t : t = [T!Idle EXCEPT !.pc = pc, !.doc = doc, !.began = hour, !.key = k]
    OBVIOUS
  <1>2. t.pc = pc /\ t.doc = doc /\ t.began = hour /\ t.key = k /\ t.todo = {}
    BY <1>1 DEF T!Idle
  <1>3. Holding(t)
    BY <1>2, TriageAssumption DEF Holding, TriageBounds
  <1>4. run' = [run EXCEPT ![j] = t] /\ UNCHANGED <<hour, hidden, doc>>
    BY <1>1 DEF T!Load
  <1> QED
    BY <1>3, <1>4, ErrandBounds DEF TriageBounds

(* The budget of a copy, and what is left of it for a run.                 *)
LEMMA UsedBounds ==
  ASSUME NEW ai \in [hour : Nat, calls : Nat], NEW h \in Nat, ai.calls <= Limit
  PROVE  T!Used(ai, h) \in Nat /\ T!Used(ai, h) <= Limit
  BY TriageAssumption DEF T!Used

LEMMA TriageBoundsStep ==
  TriageInv /\ TriageBounds /\ [T!Next]_T!vars => TriageBounds'
  <1> SUFFICES ASSUME TriageInv, TriageBounds, [T!Next]_T!vars PROVE TriageBounds'
    BY Zenon
  <1> HIDE DEF T!Jobs
  <1>0. /\ TriageTypes /\ \A j \in T!Jobs : Holding(run[j]) /\ run[j] \in Errands
        /\ hour <= MaxHour /\ hidden \subseteq T!Pairs /\ doc.ai.calls <= Limit
    BY DEF TriageInv, TriageTypes, TriageBounds
  <1>a. /\ \A r \in T!Runners : r \in T!Jobs
        /\ \A p \in Analysts : p \in T!Jobs
    BY DEF T!Jobs
  <1>b. ASSUME NEW j \in T!Jobs, run[j].pc # "idle"
        PROVE  /\ run[j].doc \in Documents /\ run[j].began \in Nat /\ run[j].doc.ai.calls <= Limit
               /\ run[j].doc.ai \in [hour : Nat, calls : Nat]
    <2>1. Proper(run[j])
      BY <1>0 DEF TriageTypes
    <2> QED
      BY <1>0, <1>b, <2>1 DEF Proper, Errands, Documents, Holding
  <1>1. ASSUME NEW r \in T!Runners, T!BeginRun(r) PROVE TriageBounds'
    BY <1>0, <1>a, <1>1, LoadBounds DEF T!BeginRun
  <1>2. ASSUME NEW p \in Analysts, NEW k \in Keys, T!BeginApply(p, k) \/ T!BeginDismiss(p, k)
        PROVE  TriageBounds'
    <2>1. T!Load(p, "applying", k) \/ T!Load(p, "dismissing", k)
      BY <1>2 DEF T!BeginApply, T!BeginDismiss
    <2> QED
      BY <1>0, <1>a, <2>1, LoadBounds, TriageAssumption
  (* What the AI is to be asked fits what is left. *)
  <1>3. ASSUME NEW r \in T!Runners, T!Collect(r) PROVE TriageBounds'
    <2>0. /\ r \in T!Jobs /\ run[r].pc = "loaded" /\ UNCHANGED <<hour, hidden, doc>>
          /\ \/ T!Finish(r)
             \/ \E todo \in SUBSET T!Open(T!Fresh(r)) :
                  /\ T!Cardinality(todo) = T!Allowed(r, T!Open(T!Fresh(r))) \/ todo = {}
                  /\ T!Ask(r, T!Fresh(r), todo)
      BY <1>a, <1>3, Zenon DEF T!Collect, T!history
    <2>1. CASE T!Finish(r)
      BY <1>0, <2>0, <2>1, FinishBounds
    <2>2. PICK f, o : f = T!Fresh(r) /\ o = T!Open(f)
      OBVIOUS
    <2>3. o \subseteq Keys
      BY <2>2 DEF T!Open
    <2>4. PICK a : a = T!Allowed(r, o)
      OBVIOUS
    <2>5. ASSUME NEW todo \in SUBSET o, T!Cardinality(todo) = a \/ todo = {}, T!Ask(r, f, todo)
          PROVE  TriageBounds'
      <3>1. PICK t : t = [run[r] EXCEPT !.pc = "asking", !.fresh = f, !.todo = todo]
        OBVIOUS
      <3>2. /\ run' = [run EXCEPT ![r] = t] /\ t.pc = "asking" /\ t.todo = todo
            /\ t.doc = run[r].doc /\ t.began = run[r].began /\ t.key = run[r].key
        BY <1>0, <2>0, <2>5, <3>1 DEF T!Ask, Errands, TriageTypes
      <3>3. PICK ai \in [hour : Nat, calls : Nat], b \in Nat : ai = t.doc.ai /\ b = t.began
        BY <1>b, <2>0, <3>2
      <3>4. ai.calls <= Limit
        BY <1>b, <2>0, <3>2, <3>3
      <3>5. T!Used(ai, b) \in Nat /\ T!Used(ai, b) <= Limit
        BY <3>4, UsedBounds
      <3>6. IsFiniteSet(o) /\ Cardinality(o) \in Nat /\ Cardinality(todo) \in Nat
        BY <2>3, TriageAssumption, FS_Subset, FS_CardinalityType
      <3>7. a = T!Min({T!Remaining(ai, b), PerRun, Cardinality(o)})
        BY <2>4, <3>2, <3>3, SameCardinality DEF T!Allowed
      <3>8. a + T!Used(ai, b) <= Limit
        BY <3>5, <3>6, <3>7, AllowedIsLeft, TriageAssumption
      <3>9. T!Used(ai, b) + Cardinality(todo) <= Limit
        <4>1. CASE Cardinality(todo) = a
          BY <3>5, <3>6, <3>8, <4>1
        <4>2. CASE todo = {}
          BY <3>5, <4>2, FS_EmptySet, TriageAssumption
        <4> QED
          BY <2>5, <4>1, <4>2, SameCardinality
      <3>10. t.key = NoRec
        BY <1>0, <2>0, <3>2 DEF Holding
      <3>11. Holding(t)
        BY <3>2, <3>3, <3>4, <3>9, <3>10 DEF Holding
      <3> QED
        BY <1>0, <2>0, <3>2, <3>11, ErrandBounds
    <2> QED
      BY <2>0, <2>1, <2>2, <2>4, <2>5
  (* A call is counted, and one group less is to be asked about. *)
  <1>4. ASSUME NEW r \in T!Runners, NEW k \in Keys, NEW answer \in Answers, T!AskAi(r, k, answer)
        PROVE  TriageBounds'
    <2>1. /\ r \in T!Jobs /\ run[r].pc = "asking" /\ k \in run[r].todo
          /\ run' = [run EXCEPT ![r] = T!Asked(r, k, answer)]
          /\ UNCHANGED <<hour, hidden, doc>>
      BY <1>a, <1>4 DEF T!AskAi
    <2>2. PICK ai \in [hour : Nat, calls : Nat], b \in Nat : ai = run[r].doc.ai /\ b = run[r].began
      BY <1>b, <2>1
    <2>3. PICK u \in Nat : u = T!Used(ai, b)
      BY DEF T!Used
    <2>4. PICK n : n = T!NoteCall(ai, b)
      OBVIOUS
    <2>5. n.hour = b /\ n.calls = u + 1 /\ T!Used(n, b) = u + 1
      BY <2>3, <2>4 DEF T!NoteCall, T!Used
    <2>6. PICK t : t = T!Asked(r, k, answer)
      OBVIOUS
    <2>7. run[r] \in Errands /\ run[r].doc \in Documents
      BY <1>0, <1>b, <2>1
    <2>8. /\ t.pc = run[r].pc /\ t.todo = run[r].todo \ {k} /\ t.began = run[r].began
          /\ t.key = run[r].key /\ t.doc = [run[r].doc EXCEPT !.ai = n]
      <3> HIDE DEF T!NoteCall, T!DecisionFromAi
      <3>1. t = [run[r] EXCEPT !.doc.ai = T!NoteCall(@, run[r].began), !.todo = @ \ {k},
                               !.fresh[k].decision = T!DecisionFromAi(@, answer)]
        BY <2>6, Zenon DEF T!Asked
      <3> QED
        BY <2>2, <2>4, <2>7, <3>1 DEF Errands
    <2>9. t.doc.ai = n
      BY <2>7, <2>8 DEF Documents
    <2>10. u + Cardinality(run[r].todo) <= Limit
      BY <1>0, <2>1, <2>2, <2>3 DEF Holding
    <2>11. /\ Cardinality(run[r].todo) \in Nat /\ Cardinality(run[r].todo \ {k}) \in Nat
           /\ Cardinality(run[r].todo) = Cardinality(run[r].todo \ {k}) + 1
      <3>1. IsFiniteSet(run[r].todo)
        BY <2>7, TriageAssumption, FS_Subset DEF Errands
      <3>2. IsFiniteSet(run[r].todo \ {k})
            /\ Cardinality(run[r].todo \ {k}) = Cardinality(run[r].todo) - 1
        BY <2>1, <3>1, FS_RemoveElement
      <3>3. Cardinality(run[r].todo) \in Nat /\ Cardinality(run[r].todo \ {k}) \in Nat
        BY <3>1, <3>2, FS_CardinalityType
      <3> QED
        BY <3>2, <3>3
    <2>12. n.calls <= Limit /\ T!Used(n, b) + Cardinality(run[r].todo \ {k}) <= Limit
      BY <2>3, <2>5, <2>10, <2>11, TriageAssumption
    <2>13. t.key = NoRec
      BY <1>0, <2>1, <2>8 DEF Holding
    <2>14. Holding(t)
      BY <2>1, <2>2, <2>8, <2>9, <2>12, <2>13 DEF Holding
    <2> QED
      BY <1>0, <2>1, <2>6, <2>14, ErrandBounds
  (* The document is written back with the copy's budget, or not at all. *)
  <1>5. ASSUME NEW j \in T!Jobs, run[j].pc # "idle", NEW d, NEW ok \in BOOLEAN, T!Save(j, d, ok),
               d.ai = run[j].doc.ai, UNCHANGED <<hour, hidden>>
        PROVE  TriageBounds'
    <2>1. T!Finish(j) /\ (doc' = d \/ doc' = doc)
      BY <1>5 DEF T!Save
    <2>2. doc'.ai.calls <= Limit
      BY <1>0, <1>b, <1>5, <2>1
    <2> QED
      BY <1>0, <1>5, <2>1, <2>2, FinishBounds
  <1>6. ASSUME NEW r \in T!Runners, NEW ok \in BOOLEAN, T!SaveRun(r, ok) PROVE TriageBounds'
    <2>1. PICK m : m = T!Merge(run[r].doc.recs, run[r].fresh)
      OBVIOUS
    <2>2. /\ r \in T!Jobs /\ run[r].pc = "asking" /\ UNCHANGED <<hour, hidden>>
          /\ T!Save(r, [run[r].doc EXCEPT !.recs = m], ok)
      BY <1>a, <1>6, <2>1 DEF T!SaveRun
    <2>3. [run[r].doc EXCEPT !.recs = m].ai = run[r].doc.ai
      BY <1>b, <2>2 DEF Documents
    <2> QED
      BY <1>5, <2>2, <2>3
  <1>7. ASSUME NEW p \in Analysts, NEW ok \in BOOLEAN, T!Suppress(p, ok) PROVE TriageBounds'
    <2>1. p \in T!Jobs /\ run[p].pc = "applying" /\ UNCHANGED <<hour, doc>>
      BY <1>a, <1>7 DEF T!Suppress
    <2>2. run[p] \in Errands /\ run[p].key \in Keys
      BY <1>0, <2>1 DEF Holding, Errands
    <2>3. CASE ok
      <3>1. hidden' = hidden \cup {GroupPair[run[p].key]}
            /\ run' = [run EXCEPT ![p] = [run[p] EXCEPT !.pc = "suppressed"]]
        BY <1>7, <2>3 DEF T!Suppress
      <3>2. hidden' \subseteq T!Pairs
        BY <1>0, <2>2, <3>1 DEF T!Pairs
      <3>3. PICK t : t = [run[p] EXCEPT !.pc = "suppressed"]
        OBVIOUS
      <3>4. t.pc = "suppressed" /\ t.doc = run[p].doc /\ t.todo = run[p].todo /\ t.key = run[p].key
        BY <2>2, <3>3 DEF Errands
      <3>5. Holding(t)
        BY <1>0, <2>1, <3>4 DEF Holding
      <3> QED
        BY <1>0, <2>1, <3>1, <3>2, <3>3, <3>5, ErrandBounds
    <2>4. CASE ~ ok
      <3>1. T!Finish(p) /\ UNCHANGED hidden
        BY <1>7, <2>4 DEF T!Suppress
      <3> QED
        BY <1>0, <2>1, <3>1, FinishBounds
    <2> QED
      BY <2>3, <2>4
  <1>8. ASSUME NEW p \in Analysts, run[p].pc # "idle", NEW ks, NEW status, NEW ok \in BOOLEAN,
               T!Record(p, ks, status, ok)
        PROVE  TriageBounds'
    <2>1. PICK m : m = [k \in Keys |-> IF k \in ks THEN [run[p].doc.recs[k] EXCEPT !.status = status]
                                                   ELSE run[p].doc.recs[k]]
      OBVIOUS
    <2>2. /\ p \in T!Jobs /\ UNCHANGED <<hour, hidden>>
          /\ T!Save(p, [run[p].doc EXCEPT !.recs = m], ok)
      BY <1>a, <1>8, <2>1 DEF T!Record
    <2>3. [run[p].doc EXCEPT !.recs = m].ai = run[p].doc.ai
      BY <1>8, <1>b, <2>2 DEF Documents
    <2> QED
      BY <1>5, <1>8, <2>2, <2>3
  <1>9. ASSUME NEW p \in Analysts, NEW ok \in BOOLEAN, T!SaveApply(p, ok) \/ T!SaveDismiss(p, ok)
        PROVE  TriageBounds'
    <2>1. run[p].pc # "idle" /\ \E ks, status : T!Record(p, ks, status, ok)
      BY <1>9 DEF T!SaveApply, T!SaveDismiss
    <2> QED
      BY <1>8, <2>1
  <1>10. ASSUME NEW j \in T!Jobs, T!Crash(j) PROVE TriageBounds'
    BY <1>0, <1>10, FinishBounds DEF T!Crash
  (* What the jobs hold and the document stay as they were. *)
  <1>11. ASSUME UNCHANGED <<doc, run>>, hour' <= MaxHour, hidden' \subseteq T!Pairs PROVE TriageBounds'
    <2>1. \A j \in T!Jobs : Holding(run[j])'
      BY <1>0, <1>11 DEF Holding
    <2> QED
      BY <1>0, <1>11, <2>1 DEF TriageBounds
  <1>12. ASSUME \/ \E a \in GroupAlerts : T!Raise(a)
                \/ \E k \in Keys : T!Age(k)
                \/ \E pr \in T!Pairs : T!ExpireSuppression(pr)
         PROVE  TriageBounds'
    <2>1. UNCHANGED <<doc, run, hour>> /\ hidden' \subseteq hidden
      BY <1>12 DEF T!Raise, T!Age, T!ExpireSuppression
    <2> QED
      BY <1>0, <1>11, <2>1
  <1>13. CASE T!HourPasses
    <2>1. UNCHANGED <<doc, run, hidden>> /\ hour < MaxHour /\ hour' = hour + 1
      BY <1>13 DEF T!HourPasses
    <2>2. hour' <= MaxHour
      BY <1>0, <2>1, TriageAssumption DEF TriageTypes
    <2> QED
      BY <1>0, <1>11, <2>1, <2>2
  <1>14. CASE UNCHANGED T!vars
    BY <1>0, <1>11, <1>14 DEF T!vars
  <1>15. CASE T!Next
    BY <1>1, <1>2, <1>3, <1>4, <1>6, <1>7, <1>9, <1>10, <1>12, <1>13, <1>15, Zenon DEF T!Next
  <1> QED
    BY <1>14, <1>15

(* The stored document and the copies are documents of the bounded kind.   *)
LEMMA IsDocument ==
  ASSUME NEW d \in Documents, d.ai.hour <= MaxHour, d.ai.calls <= Limit
  PROVE  d \in T!Docs
  <1>1. PICK n \in Nat : n = Cardinality(T!Jobs) /\ n # 0
    BY TriageAssumption, FS_CardinalityType, FS_EmptySet
  <1>2. Limit <= Limit * n /\ Limit * n \in Nat
    BY <1>1, TriageAssumption
  <1>3. d.ai.calls \in 0 .. Limit * n /\ d.ai.hour \in 0 .. MaxHour
    BY <1>2, TriageAssumption DEF Documents
  <1>4. d.ai \in [hour : 0 .. MaxHour, calls : 0 .. Limit * n]
    BY <1>3 DEF Documents
  <1>5. T!Docs = [ai : [hour : 0 .. MaxHour, calls : 0 .. Limit * n], recs : Recommendations]
    BY <1>1, SameCardinality DEF T!Docs, Recommendations
  <1> HIDE DEF Recommendations
  <1> QED
    BY <1>4, <1>5 DEF Documents

LEMMA TriageTyped == T!Spec => []T!TypeOK
  <1> USE TriageAssumption
  <1>1. T!Init => TriageBounds
    <2> SUFFICES ASSUME T!Init PROVE TriageBounds
      OBVIOUS
    <2>1. /\ hour = 0 /\ hidden = {} /\ doc.ai.calls = 0
          /\ \A j \in T!Jobs : run[j] = T!Idle
      BY DEF T!Init
    <2>2. Holding(T!Idle)
      BY DEF Holding, T!Idle
    <2> QED
      BY <2>1, <2>2 DEF TriageBounds
  <1>2. TriageInv /\ TriageBounds => T!TypeOK
    <2> SUFFICES ASSUME TriageInv, TriageBounds PROVE T!TypeOK
      OBVIOUS
    <2> HIDE DEF T!Jobs
    <2>0. TriageTypes
      BY DEF TriageInv
    <2>1. hour \in 0 .. MaxHour /\ raised \subseteq GroupAlerts /\ hidden \subseteq T!Pairs
      BY <2>0 DEF TriageTypes, TriageBounds
    <2>2. doc \in T!Docs
      <3>2. doc \in Documents /\ doc.ai.hour \in Nat /\ doc.ai.hour <= hour /\ hour \in Nat
        BY <2>0 DEF TriageTypes, Documents
      <3>3. doc.ai.hour <= MaxHour /\ doc.ai.calls <= Limit
        BY <3>2 DEF TriageBounds
      <3> QED
        BY <3>2, <3>3, IsDocument
    <2>3. ASSUME NEW j \in T!Jobs, run[j].pc # "idle" PROVE run[j].doc \in T!Docs
      <3>1. Proper(run[j]) /\ Fits(run[j]) /\ Holding(run[j]) /\ hour \in Nat
        BY <2>0 DEF TriageInv, TriageTypes, TriageBounds
      <3>2. run[j].doc \in Documents /\ run[j].doc.ai.hour \in Nat /\ run[j].began \in Nat
            /\ run[j].doc.ai.hour <= run[j].began /\ run[j].began <= hour
        BY <2>3, <3>1 DEF Proper, Fits, Documents, Errands
      <3>3. run[j].doc.ai.hour <= MaxHour /\ run[j].doc.ai.calls <= Limit
        BY <2>3, <3>1, <3>2 DEF Holding, TriageBounds
      <3> QED
        BY <3>2, <3>3, IsDocument
    <2>4. ASSUME NEW j \in T!Jobs
          PROVE  /\ T!Busy(j) = (run[j].doc # NoDoc)
                 /\ (run[j].key # NoRec) = (run[j].pc \in {"applying", "suppressed", "dismissing"})
                 /\ T!Busy(j) => run[j].doc \in T!Docs
                 /\ \A k \in Keys : run[j].fresh[k] \in T!Recs \cup {NoRec}
                 /\ run[j].todo \subseteq {k \in Keys : run[j].fresh[k] # NoRec}
      <3>1. Proper(run[j]) /\ Holding(run[j])
        BY <2>0 DEF TriageTypes, TriageBounds
      <3>2. T!Busy(j) = (run[j].doc # NoDoc) /\ (T!Busy(j) => run[j].doc \in T!Docs)
        BY <2>3, <3>1 DEF Holding, T!Busy
      <3>3. (run[j].key # NoRec) = (run[j].pc \in {"applying", "suppressed", "dismissing"})
        BY <3>1 DEF Holding
      <3>4. run[j].fresh \in Recommendations /\ run[j].todo \subseteq Keys
        BY <3>1 DEF Proper, Errands
      <3>5. \A k \in run[j].todo : run[j].fresh[k] # NoRec
        BY <3>1 DEF Proper, Holding
      <3> QED
        BY <3>2, <3>3, <3>4, <3>5 DEF Recommendations
    <2> QED
      BY <2>1, <2>2, <2>4 DEF T!TypeOK
  <1> QED
    BY <1>1, <1>2, TriageInit, TriageStep, TriageBoundsStep, PTL DEF T!Spec

-----------------------------------------------------------------------------
(* Evidence: an hourly slot is a job's that is past taking it.             *)
Slotted ==
  {j \in Processes : /\ job[j] # NoJob
                     /\ job[j].pc \in {"expire", "release", "ai", "erase", "note", "ended", "crashed"}}

EvidenceBounds ==
  /\ clock \in 1 .. EvidenceTime /\ evidenceFaults \in 0 .. EvidenceFaults
  /\ recorded \subseteq Processes /\ zips \subseteq Processes
  /\ \A r \in bundles : r.id \in recorded
  /\ \A n \in notes : n.bundle \in Processes
  /\ slots \in [E!Hosts -> [n : Nat, until : Nat \cup {NoTime}]]
  /\ \A h \in E!Hosts : slots[h].n <= Cardinality(Slotted)

LEMMA EvidenceFaultBounds ==
  ASSUME EvidenceBounds, E!Fault \/ E!NoFault PROVE evidenceFaults' \in 0 .. EvidenceFaults
  BY EvidenceAssumption DEF EvidenceBounds, E!Fault, E!NoFault

LEMMA SlottedGrows ==
  ASSUME Slotted \subseteq Slotted'
  PROVE  /\ Cardinality(Slotted) \in Nat /\ Cardinality(Slotted') \in Nat
         /\ Cardinality(Slotted) <= Cardinality(Slotted')
         /\ \A j \in Processes : j \in Slotted' /\ j \notin Slotted =>
              Cardinality(Slotted) + 1 <= Cardinality(Slotted')
  <1>1. IsFiniteSet(Processes) /\ Slotted \subseteq Processes /\ Slotted' \subseteq Processes
    BY EvidenceAssumption DEF Slotted
  <1>2. IsFiniteSet(Slotted) /\ IsFiniteSet(Slotted')
    BY <1>1, FS_Subset
  <1>3. ASSUME NEW j \in Processes, j \in Slotted', j \notin Slotted
        PROVE  Cardinality(Slotted) + 1 <= Cardinality(Slotted')
    <2>1. IsFiniteSet(Slotted \cup {j}) /\ Cardinality(Slotted \cup {j}) = Cardinality(Slotted) + 1
      BY <1>2, <1>3, FS_AddElement
    <2>2. Slotted \cup {j} \subseteq Slotted'
      BY <1>3
    <2> QED
      BY <1>2, <2>1, <2>2, FS_Subset
  <1> QED
    BY <1>2, <1>3, FS_Subset, FS_CardinalityType

(* A step of one job that leaves the slots alone.                          *)
LEMMA JobBounds ==
  ASSUME EvidenceTypes, EvidenceBounds, NEW j \in Processes, NEW t \in Works,
         job' = [job EXCEPT ![j] = t],
         j \in Slotted => t.pc \in {"expire", "release", "ai", "erase", "note", "ended", "crashed"},
         evidenceFaults' \in 0 .. EvidenceFaults, recorded' \subseteq Processes, zips' \subseteq Processes,
         \A r \in bundles' : r.id \in recorded', \A n \in notes' : n.bundle \in Processes,
         UNCHANGED <<clock, slots>>
  PROVE  EvidenceBounds'
  <1>1. Slotted \subseteq Slotted'
    BY EvidenceAssumption DEF Slotted, EvidenceTypes, Works
  <1>2. \A h \in E!Hosts : slots'[h].n <= Cardinality(Slotted')
    BY <1>1, SlottedGrows DEF EvidenceBounds
  <1> QED
    BY <1>2 DEF EvidenceBounds

LEMMA WorkChanges ==
  ASSUME EvidenceTypes, NEW j \in Processes, job[j] # NoJob
  PROVE  /\ job[j] \in Works
         /\ \A pc \in E!Pcs : /\ [job[j] EXCEPT !.pc = pc] \in Works
                              /\ [job[j] EXCEPT !.pc = pc].pc = pc
         /\ \A pc \in E!Pcs, i \in Processes : /\ [job[j] EXCEPT !.pc = pc, !.id = i] \in Works
                                               /\ [job[j] EXCEPT !.pc = pc, !.id = i].pc = pc
         /\ \A pc \in E!Pcs : /\ [job[j] EXCEPT !.pc = pc, !.lost = TRUE] \in Works
                              /\ [job[j] EXCEPT !.pc = pc, !.lost = TRUE].pc = pc
         /\ \A pc \in E!Pcs : /\ [job[j] EXCEPT !.pc = pc, !.off = TRUE] \in Works
                              /\ [job[j] EXCEPT !.pc = pc, !.off = TRUE].pc = pc
         /\ \A pc \in E!Pcs : /\ [job[j] EXCEPT !.pc = pc, !.did = TRUE] \in Works
                              /\ [job[j] EXCEPT !.pc = pc, !.did = TRUE].pc = pc
         /\ E!Host(j) \in E!Hosts
  <1>1. job[j] \in Works
    BY DEF EvidenceTypes
  <1>2. E!Host(j) \in E!Hosts
    BY <1>1 DEF Works, E!Host, E!Pair, E!Hosts, E!Pairs
  <1> QED
    BY <1>1, <1>2 DEF Works

LEMMA JobPcs ==
  /\ "look" \in E!Pcs /\ "insert" \in E!Pcs /\ "settle" \in E!Pcs /\ "slot" \in E!Pcs
  /\ "expire" \in E!Pcs /\ "release" \in E!Pcs /\ "ai" \in E!Pcs /\ "erase" \in E!Pcs
  /\ "note" \in E!Pcs /\ "ended" \in E!Pcs /\ "crashed" \in E!Pcs
  BY DEF E!Pcs

LEMMA EvidenceBoundsStep ==
  EvidenceInv /\ EvidenceBounds /\ [E!Next]_E!vars => EvidenceBounds'
  <1> SUFFICES ASSUME EvidenceInv, EvidenceBounds, [E!Next]_E!vars PROVE EvidenceBounds'
    BY Zenon
  <1>0. EvidenceTypes
    BY DEF EvidenceInv
  <1>1. ASSUME NEW j \in Processes, NEW c \in Cids, NEW path \in E!Paths, E!Begin(j, path, c),
               evidenceFaults' \in 0 .. EvidenceFaults, UNCHANGED slots
        PROVE  EvidenceBounds'
    <2>1. PICK t \in Works : job' = [job EXCEPT ![j] = t]
      <3>1. [pc |-> "build", path |-> path, cid |-> c, id |-> j,
             lost |-> FALSE, off |-> FALSE, did |-> FALSE] \in Works
        BY DEF Works, E!Pcs
      <3> QED
        BY <1>1, <3>1 DEF E!Begin
    <2>2. j \notin Slotted
      BY <1>1 DEF E!Begin, Slotted
    <2> QED
      BY <1>0, <1>1, <2>1, <2>2, JobBounds DEF E!Begin, E!store, EvidenceBounds
  <1>2. ASSUME NEW j \in Processes, NEW c \in Cids,
               \/ E!StartCorrelated(j, c) \/ E!StartDirect(j, c)
               \/ \E path \in {"beacon", "manual", "download"} : E!StartOther(j, c, path)
        PROVE  EvidenceBounds'
    <2>1. UNCHANGED slots /\ \E path \in E!Paths : E!Begin(j, path, c)
      BY <1>2 DEF E!StartCorrelated, E!StartDirect, E!StartOther, E!claims, E!Paths
    <2>2. E!Fault \/ E!NoFault
      BY <1>2 DEF E!StartCorrelated, E!StartDirect, E!StartOther, E!Claim, E!NoFault
    <2> QED
      BY <1>1, <2>1, <2>2, EvidenceFaultBounds
  (* The steps that leave the slots alone. *)
  <1>3. ASSUME NEW j \in Processes, E!Build(j) PROVE EvidenceBounds'
    <2>1. /\ job[j] # NoJob /\ j \notin Slotted
          /\ \E pc \in {"look", "ended"} : job' = [job EXCEPT ![j] = [job[j] EXCEPT !.pc = pc]]
      BY <1>3 DEF E!Build, E!At, E!Busy, E!Goto, Slotted
    <2>2. PICK t \in Works : job' = [job EXCEPT ![j] = t]
      BY <1>0, <2>1, WorkChanges, JobPcs
    <2>3. zips' \subseteq Processes
      BY <1>3 DEF E!Build, EvidenceBounds
    <2>4. evidenceFaults' \in 0 .. EvidenceFaults
      BY <1>3, EvidenceFaultBounds DEF E!Build
    <2> QED
      BY <1>0, <1>3, <2>1, <2>2, <2>3, <2>4, JobBounds DEF E!Build, E!store, E!claims, EvidenceBounds
  <1>4. ASSUME NEW j \in Processes, E!Look(j) PROVE EvidenceBounds'
    <2>1. job[j] # NoJob /\ j \notin Slotted
      BY <1>4 DEF E!Look, E!At, E!Busy, Slotted
    <2>2. PICK t \in Works : job' = [job EXCEPT ![j] = t]
      <3>1. PICK B : B = E!BundlesOf(job[j].cid)
        OBVIOUS
      <3>2. B \subseteq Saved
        BY <1>0, <3>1 DEF E!BundlesOf, EvidenceTypes
      <3>3. IF B = {} THEN job' = [job EXCEPT ![j] = [job[j] EXCEPT !.pc = "insert"]]
            ELSE job' = [job EXCEPT ![j] = [job[j] EXCEPT !.pc = "settle", !.id = E!Oldest(B).id]]
        BY <1>4, <3>1 DEF E!Look, E!Goto
      <3>4. B # {} => E!Oldest(B).id \in Processes
        BY <3>2, OldestIsOne
      <3> QED
        BY <1>0, <2>1, <3>3, <3>4, WorkChanges, JobPcs
    <2> QED
      BY <1>0, <1>4, <2>1, <2>2, JobBounds DEF E!Look, E!store, E!claims, EvidenceBounds
  <1>5. ASSUME NEW j \in Processes, E!InsertRow(j) PROVE EvidenceBounds'
    <2>1. job[j] # NoJob /\ j \notin Slotted
      BY <1>5 DEF E!InsertRow, E!At, E!Busy, Slotted
    <2>2. PICK t \in Works : job' = [job EXCEPT ![j] = t]
      <3>1. \/ job' = [job EXCEPT ![j] = [job[j] EXCEPT !.pc = "settle"]]
            \/ job' = [job EXCEPT ![j] = [job[j] EXCEPT !.pc = "settle", !.lost = TRUE]]
        BY <1>5 DEF E!InsertRow, E!Goto
      <3> QED
        BY <1>0, <2>1, <3>1, WorkChanges, JobPcs
    <2>3. recorded' \subseteq Processes /\ \A r \in bundles' : r.id \in recorded'
      <3>1. E!NewRow(j).id = j
        BY DEF E!NewRow
      <3>2. \/ bundles' = bundles \cup {E!NewRow(j)} /\ recorded' = recorded \cup {j}
            \/ UNCHANGED <<bundles, recorded>>
        BY <1>5 DEF E!InsertRow
      <3> QED
        BY <3>1, <3>2 DEF EvidenceBounds
    <2>4. evidenceFaults' \in 0 .. EvidenceFaults
      BY <1>5, EvidenceFaultBounds DEF E!InsertRow
    <2> QED
      BY <1>0, <1>5, <2>1, <2>2, <2>3, <2>4, JobBounds DEF E!InsertRow, E!claims, EvidenceBounds
  <1>6. ASSUME NEW j \in Processes, E!Settle(j) PROVE EvidenceBounds'
    <2>1. job[j] # NoJob /\ j \notin Slotted
      BY <1>6 DEF E!Settle, E!At, E!Busy, Slotted
    <2>2. PICK t \in Works : job' = [job EXCEPT ![j] = t]
      <3>1. E!AfterSettle(j) \subseteq E!Pcs
        BY DEF E!AfterSettle, E!Pcs
      <3>2. job[j].id \in Processes
        BY <1>0, <2>1, WorkChanges DEF Works
      <3>3. PICK i \in Processes : i = IF E!KeepsOwn(j) THEN j ELSE job[j].id
        BY <3>2
      <3>4. PICK pc \in E!Pcs : job' = [job EXCEPT ![j] = [job[j] EXCEPT !.pc = pc, !.id = i]]
        BY <1>6, <3>1, <3>3 DEF E!Settle
      <3> QED
        BY <1>0, <2>1, <3>4, WorkChanges
    <2>3. zips' \subseteq Processes
      BY <1>6 DEF E!Settle, EvidenceBounds
    <2> QED
      BY <1>0, <1>6, <2>1, <2>2, <2>3, JobBounds DEF E!Settle, E!store, E!claims, EvidenceBounds
  <1>7. ASSUME NEW j \in Processes, E!ClaimPair(j) PROVE EvidenceBounds'
    <2>1. job[j] # NoJob /\ j \notin Slotted
      BY <1>7 DEF E!ClaimPair, E!At, E!Busy, Slotted
    <2>2. PICK t \in Works : job' = [job EXCEPT ![j] = t]
      <3>1. \E pc \in {"slot", "ended"} : job' = [job EXCEPT ![j] = [job[j] EXCEPT !.pc = pc]]
        BY <1>7 DEF E!ClaimPair, E!Goto
      <3> QED
        BY <1>0, <2>1, <3>1, WorkChanges, JobPcs
    <2>3. E!Fault \/ E!NoFault
      BY <1>7 DEF E!ClaimPair, E!Claim, E!NoFault
    <2> QED
      BY <1>0, <1>7, <2>1, <2>2, <2>3, EvidenceFaultBounds, JobBounds
         DEF E!ClaimPair, E!store, EvidenceBounds
  <1>8. ASSUME NEW j \in Processes, E!ReleasePair(j) PROVE EvidenceBounds'
    <2>1. job[j] # NoJob /\ job' = [job EXCEPT ![j] = [job[j] EXCEPT !.pc = "ended"]]
      BY <1>8 DEF E!ReleasePair, E!At, E!Busy, E!Goto
    <2>2. PICK t \in Works : job' = [job EXCEPT ![j] = t] /\ t.pc = "ended"
      <3>1. PICK x : x = [job[j] EXCEPT !.pc = "ended"]
        OBVIOUS
      <3>2. x \in Works /\ x.pc = "ended"
        BY <1>0, <2>1, <3>1, WorkChanges, JobPcs
      <3> QED
        BY <2>1, <3>1, <3>2
    <2> QED
      BY <1>0, <1>8, <2>2, JobBounds DEF E!ReleasePair, E!store, EvidenceBounds
  <1>9. ASSUME NEW j \in Processes, E!Ask(j) PROVE EvidenceBounds'
    <2>1. job[j] # NoJob
      BY <1>9 DEF E!Ask, E!At, E!Busy
    <2>2. PICK t \in Works : job' = [job EXCEPT ![j] = t] /\ t.pc \in {"erase", "ended"}
      <3>1. \/ job' = [job EXCEPT ![j] = [job[j] EXCEPT !.pc = "erase"]]
            \/ job' = [job EXCEPT ![j] = [job[j] EXCEPT !.pc = "ended", !.lost = TRUE]]
            \/ job' = [job EXCEPT ![j] = [job[j] EXCEPT !.pc = "ended", !.off = TRUE]]
        BY <1>9 DEF E!Ask, E!Goto
      <3>2. PICK x, y, z : /\ x = [job[j] EXCEPT !.pc = "erase"]
                           /\ y = [job[j] EXCEPT !.pc = "ended", !.lost = TRUE]
                           /\ z = [job[j] EXCEPT !.pc = "ended", !.off = TRUE]
        OBVIOUS
      <3>3. x \in Works /\ x.pc = "erase"
        BY <1>0, <2>1, <3>2, WorkChanges, JobPcs
      <3>4. y \in Works /\ y.pc = "ended"
        BY <1>0, <2>1, <3>2, WorkChanges, JobPcs
      <3>5. z \in Works /\ z.pc = "ended"
        BY <1>0, <2>1, <3>2, WorkChanges, JobPcs
      <3> QED
        BY <3>1, <3>2, <3>3, <3>4, <3>5
    <2>3. evidenceFaults' \in 0 .. EvidenceFaults
      BY <1>9, EvidenceFaultBounds DEF E!Ask
    <2> QED
      BY <1>0, <1>9, <2>2, <2>3, JobBounds DEF E!Ask, E!store, E!claims, EvidenceBounds
  <1>10. ASSUME NEW j \in Processes, E!Erase(j) PROVE EvidenceBounds'
    <2>1. job[j] # NoJob /\ job' = [job EXCEPT ![j] = [job[j] EXCEPT !.pc = "note"]]
      BY <1>10 DEF E!Erase, E!At, E!Busy, E!Goto
    <2>2. PICK t \in Works : job' = [job EXCEPT ![j] = t] /\ t.pc = "note"
      <3>1. PICK x : x = [job[j] EXCEPT !.pc = "note"]
        OBVIOUS
      <3>2. x \in Works /\ x.pc = "note"
        BY <1>0, <2>1, <3>1, WorkChanges, JobPcs
      <3> QED
        BY <2>1, <3>1, <3>2
    <2>3. \A n \in notes' : n.bundle \in Processes
      BY <1>10 DEF E!Erase, EvidenceBounds
    <2> QED
      BY <1>0, <1>10, <2>2, <2>3, JobBounds DEF E!Erase, E!claims, EvidenceBounds
  <1>11. ASSUME NEW j \in Processes, E!Note(j) PROVE EvidenceBounds'
    <2>1. job[j] # NoJob
      BY <1>11 DEF E!Note, E!At, E!Busy
    <2>2. PICK t \in Works : job' = [job EXCEPT ![j] = t] /\ t.pc = "ended"
      <3>1. job' = [job EXCEPT ![j] = [job[j] EXCEPT !.pc = "ended", !.did = TRUE]]
        BY <1>11 DEF E!Note
      <3>2. PICK x : x = [job[j] EXCEPT !.pc = "ended", !.did = TRUE]
        OBVIOUS
      <3>3. x \in Works /\ x.pc = "ended"
        BY <1>0, <2>1, <3>2, WorkChanges, JobPcs
      <3> QED
        BY <3>1, <3>2, <3>3
    <2>3. \A n \in notes' : n.bundle \in Processes
      <3>1. job[j].id \in Processes
        BY <1>0, <2>1, WorkChanges DEF Works
      <3> QED
        BY <1>11, <3>1 DEF E!Note, EvidenceBounds
    <2> QED
      BY <1>0, <1>11, <2>2, <2>3, JobBounds DEF E!Note, E!claims, EvidenceBounds
  (* The slots. *)
  <1>12. ASSUME NEW j \in Processes, E!TakeSlot(j) PROVE EvidenceBounds'
    <2>1. job[j] # NoJob /\ j \notin Slotted
      BY <1>12 DEF E!TakeSlot, E!At, E!Busy, Slotted
    <2>2. PICK h \in E!Hosts : h = E!Host(j)
      BY <1>0, <2>1, WorkChanges
    <2>3. PICK n \in Nat : n = slots[h].n
      BY DEF EvidenceBounds
    <2>4. PICK t \in Works : /\ job' = [job EXCEPT ![j] = t]
                             /\ t.pc \in {"expire", "ai", "release"}
      <3>1. \E pc \in {"expire", "ai", "release"} : job' = [job EXCEPT ![j] = [job[j] EXCEPT !.pc = pc]]
        BY <1>12 DEF E!TakeSlot, E!Goto
      <3>2. PICK pc \in {"expire", "ai", "release"} :
               job' = [job EXCEPT ![j] = [job[j] EXCEPT !.pc = pc]]
        BY <3>1
      <3>3. pc \in E!Pcs
        BY JobPcs
      <3>4. PICK x : x = [job[j] EXCEPT !.pc = pc]
        OBVIOUS
      <3>5. x \in Works /\ x.pc = pc
        BY <1>0, <2>1, <3>3, <3>4, WorkChanges
      <3> QED
        BY <3>2, <3>4, <3>5
    <2>5. Slotted \subseteq Slotted' /\ j \in Slotted'
      BY <1>0, <2>4, EvidenceAssumption DEF Slotted, EvidenceTypes, Works
    <2>6. slots' = [slots EXCEPT ![h] = [slots[h] EXCEPT !.n = n + 1]]
      BY <1>12, <2>2, <2>3 DEF E!TakeSlot
    <2>7. [slots[h] EXCEPT !.n = n + 1] \in [n : Nat, until : Nat \cup {NoTime}]
          /\ [slots[h] EXCEPT !.n = n + 1].n = n + 1
      BY <2>3 DEF EvidenceBounds
    <2>8. slots' \in [E!Hosts -> [n : Nat, until : Nat \cup {NoTime}]]
      BY <2>6, <2>7 DEF EvidenceBounds
    <2>9. ASSUME NEW x \in E!Hosts PROVE slots'[x].n <= Cardinality(Slotted')
      <3>1. slots[x].n \in Nat /\ slots[x].n <= Cardinality(Slotted)
        BY DEF EvidenceBounds
      <3>2. Cardinality(Slotted) \in Nat /\ Cardinality(Slotted') \in Nat
            /\ Cardinality(Slotted) + 1 <= Cardinality(Slotted')
        BY <2>1, <2>5, SlottedGrows
      <3>3. slots'[x].n = IF x = h THEN n + 1 ELSE slots[x].n
        BY <2>6, <2>7 DEF EvidenceBounds
      <3> QED
        BY <2>3, <3>1, <3>2, <3>3
    <2> QED
      BY <1>12, <2>8, <2>9 DEF E!TakeSlot, E!store, EvidenceBounds
  <1>13. ASSUME NEW j \in Processes, E!SetExpiry(j) PROVE EvidenceBounds'
    <2>1. job[j] # NoJob
      BY <1>13 DEF E!SetExpiry, E!At, E!Busy
    <2>2. PICK h \in E!Hosts : h = E!Host(j)
      BY <1>0, <2>1, WorkChanges
    <2>3. PICK t \in Works : job' = [job EXCEPT ![j] = t] /\ t.pc = "ai"
      <3>1. job' = [job EXCEPT ![j] = [job[j] EXCEPT !.pc = "ai"]]
        BY <1>13 DEF E!SetExpiry, E!Goto
      <3>2. PICK x : x = [job[j] EXCEPT !.pc = "ai"]
        OBVIOUS
      <3>3. x \in Works /\ x.pc = "ai"
        BY <1>0, <2>1, <3>2, WorkChanges, JobPcs
      <3> QED
        BY <3>1, <3>2, <3>3
    <2>4. Slotted \subseteq Slotted'
      BY <1>0, <2>3, EvidenceAssumption DEF Slotted, EvidenceTypes, Works
    <2>5. PICK u \in Nat : u = clock + HourTTL
      BY <1>0, EvidenceAssumption DEF EvidenceTypes
    <2>6. slots' = [slots EXCEPT ![h] = [slots[h] EXCEPT !.until = u]]
      BY <1>13, <2>2, <2>5 DEF E!SetExpiry
    <2>7. [slots[h] EXCEPT !.until = u] \in [n : Nat, until : Nat \cup {NoTime}]
          /\ [slots[h] EXCEPT !.until = u].n = slots[h].n
      BY DEF EvidenceBounds
    <2>8. slots' \in [E!Hosts -> [n : Nat, until : Nat \cup {NoTime}]]
      BY <2>6, <2>7 DEF EvidenceBounds
    <2>9. ASSUME NEW x \in E!Hosts PROVE slots'[x].n <= Cardinality(Slotted')
      <3>1. slots'[x].n = slots[x].n
        BY <2>6, <2>7 DEF EvidenceBounds
      <3>2. slots[x].n \in Nat /\ slots[x].n <= Cardinality(Slotted)
        BY DEF EvidenceBounds
      <3> QED
        BY <2>4, <3>1, <3>2, SlottedGrows
    <2> QED
      BY <1>13, <2>8, <2>9 DEF E!SetExpiry, E!store, EvidenceBounds
  <1>14. ASSUME NEW P \in SUBSET Processes, E!Crash(P) PROVE EvidenceBounds'
    <2>1. evidenceFaults' \in 0 .. EvidenceFaults
      BY <1>14, EvidenceFaultBounds DEF E!Crash
    <2>2. \A i \in Processes : job'[i] = IF i \in P THEN [job[i] EXCEPT !.pc = "crashed"] ELSE job[i]
      BY <1>14 DEF E!Crash
    <2>3. ASSUME NEW i \in P
          PROVE  [job[i] EXCEPT !.pc = "crashed"].pc = "crashed" /\ [job[i] EXCEPT !.pc = "crashed"] # NoJob
      <3>1. i \in Processes /\ job[i] # NoJob
        BY <1>14, <2>3 DEF E!Crash, E!Busy
      <3> QED
        <4>1. [job[i] EXCEPT !.pc = "crashed"] \in Works
              /\ [job[i] EXCEPT !.pc = "crashed"].pc = "crashed"
          BY <1>0, <3>1, WorkChanges, JobPcs
        <4> QED
          BY <4>1, EvidenceAssumption DEF Works
    <2>4. Slotted \subseteq Slotted'
      BY <2>2, <2>3 DEF Slotted
    <2>5. \A h \in E!Hosts : slots'[h].n <= Cardinality(Slotted')
      BY <1>14, <2>4, SlottedGrows DEF E!Crash, E!claims, EvidenceBounds
    <2> QED
      BY <1>14, <2>1, <2>5 DEF E!Crash, E!store, E!claims, EvidenceBounds
  <1>15. CASE E!Tick
    <2>1. Slotted' = Slotted
      BY <1>15 DEF E!Tick, Slotted
    <2>2. E!Counter \in [n : Nat, until : Nat \cup {NoTime}] /\ E!Counter.n = 0
      BY DEF E!Counter
    <2>3. slots' = [h \in E!Hosts |-> IF slots[h].until = clock' THEN E!Counter ELSE slots[h]]
      BY <1>15 DEF E!Tick
    <2>4. slots' \in [E!Hosts -> [n : Nat, until : Nat \cup {NoTime}]]
      BY <2>2, <2>3 DEF EvidenceBounds
    <2>5. ASSUME NEW x \in E!Hosts PROVE slots'[x].n <= Cardinality(Slotted')
      <3>1. slots'[x].n = 0 \/ slots'[x].n = slots[x].n
        BY <2>2, <2>3
      <3>2. slots[x].n <= Cardinality(Slotted) /\ Cardinality(Slotted) \in Nat
        BY <2>1, SlottedGrows DEF EvidenceBounds
      <3> QED
        BY <2>1, <3>1, <3>2
    <2>6. clock' \in 1 .. EvidenceTime
      BY <1>15, EvidenceAssumption DEF E!Tick, EvidenceBounds
    <2> QED
      BY <1>15, <2>4, <2>5, <2>6 DEF E!Tick, E!store, EvidenceBounds
  <1>16. CASE UNCHANGED E!vars
    <2>1. Slotted' = Slotted
      BY <1>16 DEF E!vars, Slotted
    <2> QED
      BY <1>16, <2>1 DEF E!vars, EvidenceBounds
  <1> QED
    BY <1>2, <1>3, <1>4, <1>5, <1>6, <1>7, <1>8, <1>9, <1>10, <1>11, <1>12, <1>13, <1>14, <1>15, <1>16
       DEF E!Next

LEMMA EvidenceTyped == E!Spec => []E!TypeOK
  <1>1. E!Init => EvidenceBounds
    <2> SUFFICES ASSUME E!Init PROVE EvidenceBounds
      OBVIOUS
    <2>1. Slotted = {}
      BY DEF E!Init, Slotted
    <2>2. Cardinality(Slotted) = 0
      BY <2>1, FS_EmptySet
    <2>3. E!Counter \in [n : Nat, until : Nat \cup {NoTime}] /\ E!Counter.n = 0
      BY DEF E!Counter
    <2>4. slots = [h \in E!Hosts |-> E!Counter]
      BY DEF E!Init
    <2>5. slots \in [E!Hosts -> [n : Nat, until : Nat \cup {NoTime}]]
          /\ \A h \in E!Hosts : slots[h].n <= Cardinality(Slotted)
      BY <2>2, <2>3, <2>4
    <2> QED
      BY <2>5, EvidenceAssumption DEF E!Init, EvidenceBounds
  <1>2. EvidenceInv /\ EvidenceBounds => E!TypeOK
    <2> SUFFICES ASSUME EvidenceTypes, EvidenceBounds PROVE E!TypeOK
      BY DEF EvidenceInv
    <2>1. Slotted \subseteq Processes /\ IsFiniteSet(Processes)
      BY EvidenceAssumption DEF Slotted
    <2>2. Cardinality(Slotted) <= Cardinality(Processes) /\ Cardinality(Slotted) \in Nat
          /\ Cardinality(Processes) \in Nat
      BY <2>1, FS_Subset, FS_CardinalityType
    <2>3. \A h \in E!Hosts : slots[h].n \in 0 .. Cardinality(Processes)
      BY <2>2 DEF EvidenceBounds
    <2>4. \A h \in E!Hosts : slots[h].n \in 0 .. E!Cardinality(Processes)
      BY <2>3 DEF E!Cardinality, Cardinality
    <2>5. \A j \in Processes : job[j] # NoJob =>
            job[j].pc \in E!Pcs /\ job[j].path \in E!Paths /\ job[j].cid \in Cids /\ job[j].id \in Processes
      BY DEF EvidenceTypes, Works
    <2> QED
      BY <2>4, <2>5 DEF EvidenceBounds, E!TypeOK
  <1> QED
    BY <1>1, <1>2, EvidenceInit, EvidenceStep, EvidenceBoundsStep, PTL DEF E!Spec

-----------------------------------------------------------------------------
(* Captures.                                                               *)
Rows == [at : 1 .. CaptureTime, state : {C!Open, C!Fulfilled, C!GivenUp}, tries : 0 .. MaxTries]

CaptureBounds ==
  /\ captureClock <= CaptureTime /\ captureFaults \in 0 .. CaptureFaults
  /\ request \in [Flows -> {NoRow} \cup Rows]
  /\ reports \in [Flows -> 0 .. MaxTries]
  /\ missed \in [Probes -> [Flows -> 0 .. Misses - 1]]
  /\ captured \in [Flows -> Nat]
  /\ ended \in [Flows -> 0 .. CaptureTime]

(* A sensor's step, by which it may report that it has no packets.         *)
LEMMA SensorBounds ==
  ASSUME CaptureBounds, UNCHANGED <<captureClock, request, ended>>,
         captureFaults' \in 0 .. CaptureFaults,
         reports' = reports \/ \E f \in Flows : C!Report(f),
         missed' \in [Probes -> [Flows -> 0 .. Misses - 1]],
         captured' \in [Flows -> Nat]
  PROVE  CaptureBounds'
  <1>1. ASSUME NEW f \in Flows, C!Report(f) PROVE reports' \in [Flows -> 0 .. MaxTries]
    <2>1. PICK n : n = reports[f]
      OBVIOUS
    <2>2. n \in 0 .. MaxTries /\ reports \in [Flows -> 0 .. MaxTries]
      BY <2>1 DEF CaptureBounds
    <2>3. reports' = [reports EXCEPT ![f] = IF n = MaxTries THEN n ELSE n + 1]
      BY <1>1, <2>1 DEF C!Report
    <2>4. (IF n = MaxTries THEN n ELSE n + 1) \in 0 .. MaxTries
      BY <2>2, CapturesAssumption
    <2> QED
      BY <2>2, <2>3, <2>4
  <1> QED
    BY <1>1 DEF CaptureBounds

LEMMA InsertBounds ==
  ASSUME CaptureTypes, CaptureBounds, NEW f \in Flows,
         NEW state \in {C!Open, C!Fulfilled, C!GivenUp}, C!Insert(f, state)
  PROVE  request' \in [Flows -> {NoRow} \cup Rows] /\ reports' \in [Flows -> 0 .. MaxTries]
  <1>1. captureClock \in 1 .. CaptureTime /\ 0 \in 0 .. MaxTries
    BY CapturesAssumption DEF CaptureTypes, CaptureBounds
  <1>2. [at |-> captureClock, state |-> state, tries |-> 0] \in Rows
    BY <1>1 DEF Rows
  <1> QED
    BY <1>1, <1>2 DEF C!Insert, CaptureBounds

LEMMA CaptureBoundsStep ==
  CaptureInv /\ CaptureBounds /\ [C!Next]_C!vars => CaptureBounds'
  <1> SUFFICES ASSUME CaptureInv, CaptureBounds, [C!Next]_C!vars PROVE CaptureBounds'
    BY Zenon
  <1> USE CapturesAssumption
  <1>0. CaptureTypes
    BY DEF CaptureInv
  <1>1. ASSUME NEW w \in Processes, NEW f \in Flows, C!Count(w, f) PROVE CaptureBounds'
    BY <1>1 DEF C!Count, C!Fault, CaptureBounds
  <1>2. ASSUME NEW w \in Processes, C!Request(w) PROVE CaptureBounds'
    <2>1. caller[w] \in Flows
      BY <1>0, <1>2 DEF C!Request, CaptureTypes
    <2>2. request' \in [Flows -> {NoRow} \cup Rows] /\ reports' \in [Flows -> 0 .. MaxTries]
      <3>1. CASE C!Insert(caller[w], C!Open)
        BY <1>0, <2>1, <3>1, InsertBounds
      <3>2. CASE UNCHANGED <<request, reports>>
        BY <3>2 DEF CaptureBounds
      <3> QED
        BY <1>2, <3>1, <3>2 DEF C!Request
    <2>3. captureFaults' \in 0 .. CaptureFaults
      BY <1>2 DEF C!Request, C!Fault, CaptureBounds
    <2> QED
      BY <1>2, <2>2, <2>3 DEF C!Request, C!history, CaptureBounds
  <1>3. ASSUME NEW s \in Probes, C!CheckIn(s) PROVE CaptureBounds'
    BY <1>3 DEF C!CheckIn, C!engine, C!history, CaptureBounds
  <1>4. ASSUME NEW s \in Probes, sensor[s].pc \in {"search", "upload", "store", "fulfil"}
        PROVE  sensor[s].flow \in Flows
    BY <1>0, <1>4 DEF CaptureTypes, C!Idle, Work
  <1>5. ASSUME NEW s \in Probes, C!Miss(s) PROVE CaptureBounds'
    <2>1. PICK f : f = sensor[s].flow
      OBVIOUS
    <2>2. /\ f \in Flows /\ missed[s][f] \in 0 .. Misses - 1
          /\ missed[s] \in [Flows -> 0 .. Misses - 1]
      BY <1>4, <1>5, <2>1 DEF C!Miss, CaptureBounds
    <2>3. \/ /\ missed[s][f] < Misses - 1
             /\ missed' = [missed EXCEPT ![s][f] = @ + 1] /\ reports' = reports
          \/ missed' = [missed EXCEPT ![s][f] = 0] /\ C!Report(f)
      BY <1>5, <2>1 DEF C!Miss
    <2>4. missed[s][f] < Misses - 1 => missed[s][f] + 1 \in 0 .. Misses - 1
      BY <2>2
    <2>5. missed' \in [Probes -> [Flows -> 0 .. Misses - 1]]
      BY <2>2, <2>3, <2>4 DEF CaptureBounds
    <2>6. reports' = reports \/ \E x \in Flows : C!Report(x)
      BY <2>2, <2>3
    <2> QED
      BY <1>5, <2>5, <2>6, SensorBounds DEF C!Miss, C!history, CaptureBounds
  <1>6. ASSUME NEW s \in Probes, C!Find(s) PROVE CaptureBounds'
    <2>1. missed' \in [Probes -> [Flows -> 0 .. Misses - 1]]
      BY <1>4, <1>6 DEF C!Find, CaptureBounds
    <2> QED
      BY <1>6, <2>1, SensorBounds DEF C!Find, C!engine, C!history, CaptureBounds
  <1>7. ASSUME NEW s \in Probes, C!GiveUp(s) PROVE CaptureBounds'
    <2>1. \E x \in Flows : C!Report(x)
      BY <1>4, <1>7 DEF C!GiveUp
    <2>2. captureFaults' \in 0 .. CaptureFaults
      BY <1>7 DEF C!GiveUp, C!Fault, CaptureBounds
    <2> QED
      BY <1>7, <2>1, <2>2, SensorBounds DEF C!GiveUp, C!history, CaptureBounds
  <1>8. ASSUME NEW s \in Probes, C!Dedup(s) PROVE CaptureBounds'
    BY <1>8 DEF C!Dedup, C!engine, C!history, CaptureBounds
  <1>9. ASSUME NEW s \in Probes, C!Store(s) PROVE CaptureBounds'
    <2>1. captured' \in [Flows -> Nat]
      BY <1>4, <1>9 DEF C!Store, CaptureBounds
    <2>2. captureFaults' \in 0 .. CaptureFaults
      BY <1>9 DEF C!Store, C!Fault, CaptureBounds
    <2> QED
      BY <1>9, <2>1, <2>2, SensorBounds DEF C!Store, C!engine, C!history, CaptureBounds
  <1>10. ASSUME NEW s \in Probes, C!Fulfil(s) PROVE CaptureBounds'
    <2>1. PICK f : f = sensor[s].flow
      OBVIOUS
    <2>2. f \in Flows
      BY <1>4, <1>10, <2>1 DEF C!Fulfil
    <2>3. captureFaults' \in 0 .. CaptureFaults
      BY <1>10 DEF C!Fulfil, C!Fault, CaptureBounds
    <2>4. CASE C!Insert(f, C!Fulfilled) /\ ended' = [ended EXCEPT ![f] = captureClock]
      <3>1. request' \in [Flows -> {NoRow} \cup Rows] /\ reports' \in [Flows -> 0 .. MaxTries]
        BY <1>0, <2>2, <2>4, InsertBounds
      <3>2. ended' \in [Flows -> 0 .. CaptureTime]
        <4>1. captureClock \in 0 .. CaptureTime
          BY <1>0 DEF CaptureTypes, CaptureBounds
        <4> QED
          BY <2>4, <4>1 DEF CaptureBounds
      <3> QED
        BY <1>10, <2>3, <3>1, <3>2 DEF C!Fulfil, CaptureBounds
    <2>5. CASE UNCHANGED <<request, reports, ended>>
      BY <1>10, <2>3, <2>5 DEF C!Fulfil, CaptureBounds
    <2> QED
      BY <1>10, <2>1, <2>4, <2>5 DEF C!Fulfil, C!history
  <1>11. ASSUME NEW f \in Flows, C!Mutate(f) PROVE CaptureBounds'
    <2>1. PICK n : n = request[f].tries + reports[f]
      OBVIOUS
    <2>2. /\ reports' = [reports EXCEPT ![f] = 0]
          /\ request' = IF ~ C!Reported(f) THEN request
                        ELSE IF n >= MaxTries
                        THEN [request EXCEPT ![f].tries = MaxTries, ![f].state = C!GivenUp]
                        ELSE [request EXCEPT ![f].tries = n, ![f].state = C!Open]
      BY <1>11, <2>1 DEF C!Mutate
    <2>3. request' \in [Flows -> {NoRow} \cup Rows]
      <3>1. CASE ~ C!Reported(f)
        BY <2>2, <3>1 DEF CaptureBounds
      <3>2. CASE C!Reported(f)
        <4>1. request[f] \in Rows /\ reports[f] \in 0 .. MaxTries
          BY <3>2 DEF C!Reported, CaptureBounds
        <4>2. n \in Nat
          BY <2>1, <4>1 DEF Rows
        <4>3. ASSUME NEW t \in 0 .. MaxTries, NEW z \in {C!Open, C!Fulfilled, C!GivenUp}
              PROVE  [request[f] EXCEPT !.tries = t, !.state = z] \in Rows
          BY <4>1 DEF Rows
        <4>4. MaxTries \in 0 .. MaxTries /\ (~ (n >= MaxTries) => n \in 0 .. MaxTries)
          BY <4>2
        <4>5. \E t \in 0 .. MaxTries, z \in {C!Open, C!Fulfilled, C!GivenUp} :
                request' = [request EXCEPT ![f] = [request[f] EXCEPT !.tries = t, !.state = z]]
          BY <2>2, <3>2, <4>4 DEF CaptureBounds
        <4>6. PICK r \in Rows : request' = [request EXCEPT ![f] = r]
          BY <4>3, <4>5
        <4> QED
          BY <4>6 DEF CaptureBounds
      <3> QED
        BY <3>1, <3>2
    <2>4. reports' \in [Flows -> 0 .. MaxTries]
      BY <2>2 DEF CaptureBounds
    <2> QED
      BY <1>11, <2>3, <2>4 DEF C!Mutate, C!history, CaptureBounds
  <1>12. CASE C!Tick
    BY <1>0, <1>12 DEF C!Tick, C!engine, C!history, CaptureBounds, CaptureTypes
  <1>13. CASE UNCHANGED C!vars
    BY <1>13 DEF C!vars, CaptureBounds
  <1> QED
    BY <1>1, <1>2, <1>3, <1>5, <1>6, <1>7, <1>8, <1>9, <1>10, <1>11, <1>12, <1>13 DEF C!Next

LEMMA CapturesTyped == C!Spec => []C!TypeOK
  <1>1. C!Init => CaptureBounds
    BY CapturesAssumption DEF C!Init, CaptureBounds
  <1>2. CaptureInv /\ CaptureBounds => C!TypeOK
    <2> SUFFICES ASSUME CaptureInv, CaptureBounds PROVE C!TypeOK
      OBVIOUS
    <2>1. captureClock \in 1 .. CaptureTime
      BY CapturesAssumption DEF CaptureInv, CaptureTypes, CaptureBounds
    <2>2. ASSUME NEW w \in Work
          PROVE  w \in {C!At(pc, f) : pc \in {"search", "upload", "store", "fulfil"}, f \in Flows}
      <3>1. w = C!At(w.pc, w.flow)
        BY DEF Work, C!At
      <3> QED
        BY <3>1 DEF Work
    <2>3. sensor \in [Probes -> {C!Idle} \union
                   {C!At(pc, f) : pc \in {"search", "upload", "store", "fulfil"}, f \in Flows}]
      BY <2>2 DEF CaptureInv, CaptureTypes
    <2> QED
      BY <2>1, <2>3 DEF CaptureInv, CaptureTypes, CaptureBounds, Rows, C!TypeOK
  <1>3. CaptureInv /\ [C!Next]_C!vars => CaptureInv'
    BY CaptureStep
  <1> QED
    BY <1>1, <1>2, <1>3, CaptureInit, CaptureBoundsStep, PTL DEF C!Spec

-----------------------------------------------------------------------------
(* SiemRules.                                                              *)
LEMMA RulesTyped == R!Spec => []R!TypeOK
  <1>1. RulesInv => R!TypeOK
    <2> SUFFICES ASSUME RulesTypes PROVE R!TypeOK
      BY DEF RulesInv
    <2>1. reached # NoWindow => reached.hosts \subseteq Machines /\ reached.from \in 1 .. ruleClock
      BY DEF RulesTypes
    <2>2. {f.rule : f \in fired} \subseteq R!Rules
      BY DEF RulesTypes
    <2> QED
      BY <2>1, <2>2 DEF RulesTypes, R!TypeOK
  <1> QED
    BY <1>1, RulesInit, RulesStep, PTL DEF R!Spec

-----------------------------------------------------------------------------
(* Siem: what the group, the table and the consumers hold is of the topic. *)

SiemBounds ==
  /\ logClock \in 1 .. SiemTime /\ siemFaults \in 0 .. SiemFaults
  /\ owner \in S!Consumers \cup {Nobody}
  /\ position <= Len(topic) + 1 /\ committed <= Len(topic) + 1
  /\ marks \subseteq 1 .. Len(topic) /\ stored \subseteq seen /\ seen \subseteq Logs
  /\ silenced \subseteq Matching /\ cache \in [Processes -> SUBSET Matching]
  /\ \A c \in Processes : task[c] # NoJob => task[c].offset \in 1 .. Len(topic)

LEMMA LogsInTopic ==
  ASSUME SiemTypes, NEW i \in 1 .. Len(topic) PROVE topic[i].log \in Logs
  <1> DEFINE Msgs == [log : Logs, format : {"SiemEvent"}]
  <1>1. topic \in Seq(Msgs) /\ \A x \in Msgs : x.log \in Logs
    BY DEF SiemTypes
  <1> HIDE DEF Msgs
  <1> QED
    BY <1>1

LEMMA SiemFaultBounds ==
  ASSUME SiemBounds, S!Fault \/ S!NoFault PROVE siemFaults' \in 0 .. SiemFaults
  BY SiemAssumption DEF SiemBounds, S!Fault, S!NoFault

(* A step about one message: the consumer's place in the topic stays.      *)
LEMMA SameMessage ==
  ASSUME SiemTypes, SiemBounds, siemFaults' \in 0 .. SiemFaults, marks' \subseteq 1 .. Len(topic),
         \A d \in Processes : task'[d] # NoJob => task[d] # NoJob /\ task'[d].offset = task[d].offset,
         UNCHANGED <<logClock, topic, owner, position, committed, seen, stored, silenced, cache>>
  PROVE  SiemBounds'
  BY DEF SiemBounds

LEMMA SiemBoundsStep ==
  SiemInv /\ SiemBounds /\ [S!Next]_S!vars => SiemBounds'
  <1> SUFFICES ASSUME SiemInv, SiemBounds, [S!Next]_S!vars PROVE SiemBounds'
    BY Zenon
  <1> USE SiemAssumption
  <1>0. SiemTypes /\ Len(topic) \in Nat /\ position \in Nat \ {0} /\ committed \in Nat
    BY DEF SiemInv, SiemTypes
  <1>1. ASSUME NEW l \in Logs, S!Publish(l) PROVE SiemBounds'
    <2>1. Len(topic') = Len(topic) + 1
      BY <1>0, <1>1 DEF S!Publish, SiemTypes
    <2>2. 1 .. Len(topic) \subseteq 1 .. Len(topic')
      BY <1>0, <2>1
    <2> QED
      BY <1>0, <1>1, <2>1, <2>2 DEF S!Publish, S!group, SiemBounds
  <1>2. ASSUME NEW c \in S!Consumers, S!Assign(c) PROVE SiemBounds'
    <2>1. S!StartOf(c) <= Len(topic) + 1
      BY <1>0 DEF S!StartOf, SiemBounds
    <2>2. siemFaults' \in 0 .. SiemFaults
      BY <1>2, SiemFaultBounds DEF S!Assign
    <2> QED
      BY <1>2, <2>1, <2>2 DEF S!Assign, SiemBounds
  <1>3. CASE S!AutoCommit
    BY <1>3 DEF S!AutoCommit, SiemBounds
  <1>4. ASSUME NEW c \in S!Consumers, S!Store(c) PROVE SiemBounds'
    <2>1. position \in 1 .. Len(topic) /\ position' = position + 1
      BY <1>0, <1>4 DEF S!Store, S!Deliverable
    <2>2. position' <= Len(topic) + 1
      BY <1>0, <2>1
    <2>3. committed' \in {committed, position + 1}
      BY <1>4 DEF S!Store
    <2>4. committed' <= Len(topic) + 1
      BY <1>0, <2>1, <2>3 DEF SiemBounds
    <2>5. topic[position].log \in Logs
      BY <1>0, <2>1, LogsInTopic
    <2>6. stored' \subseteq seen' /\ seen' \subseteq Logs
      BY <1>4, <2>5 DEF S!Store, SiemBounds
    <2>7. siemFaults' \in 0 .. SiemFaults
      BY <1>4, SiemFaultBounds DEF S!Store
    <2> QED
      BY <1>4, <2>2, <2>4, <2>6, <2>7 DEF S!Store, SiemBounds
  <1>5. ASSUME NEW c \in S!Consumers, S!Receive(c) PROVE SiemBounds'
    <2>1. position \in 1 .. Len(topic) /\ position' = position + 1
      BY <1>0, <1>5 DEF S!Receive, S!Deliverable
    <2>2. position' <= Len(topic) + 1
      BY <1>0, <2>1
    <2>3. marks' \subseteq 1 .. Len(topic)
      BY <1>5, <2>1 DEF S!Receive, SiemBounds
    <2>4. ASSUME NEW d \in Processes, task'[d] # NoJob PROVE task'[d].offset \in 1 .. Len(topic)
      <3>1. CASE task' = task
        BY <2>4, <3>1 DEF SiemBounds
      <3>2. CASE task' = [task EXCEPT ![c] = [offset |-> position, log |-> topic[position].log,
                            todo |-> MatchesOf[topic[position].log], write |-> NoAlert]]
        BY <1>0, <2>1, <2>4, <3>2 DEF SiemTypes, SiemBounds
      <3> QED
        BY <1>5, <3>1, <3>2 DEF S!Receive
    <2> QED
      BY <1>5, <2>2, <2>3, <2>4 DEF S!Receive, SiemBounds
  (* What a consumer does about its message. *)
  <1>6. ASSUME NEW c \in Processes, NEW w \in Tasks, w.offset = task[c].offset, task[c] # NoJob,
               task' = [task EXCEPT ![c] = w]
        PROVE  \A d \in Processes : task'[d] # NoJob => task[d] # NoJob /\ task'[d].offset = task[d].offset
    BY <1>0, <1>6 DEF SiemTypes
  <1>7. ASSUME NEW c \in Processes, NEW r, task[c] # NoJob,
               task' = [task EXCEPT ![c].todo = @ \ {r}]
        PROVE  \A d \in Processes : task'[d] # NoJob => task[d] # NoJob /\ task'[d].offset = task[d].offset
    <2>1. task[c] \in Tasks
      BY <1>0, <1>7 DEF SiemTypes
    <2>2. PICK w : w = [task[c] EXCEPT !.todo = @ \ {r}]
      OBVIOUS
    <2>3. w \in Tasks /\ w.offset = task[c].offset
      BY <2>1, <2>2 DEF Tasks
    <2> QED
      BY <1>6, <1>7, <2>2, <2>3
  <1>8. ASSUME NEW c \in Processes, NEW a \in {NoAlert} \cup Alerts, task[c] # NoJob,
               task' = [task EXCEPT ![c].write = a]
        PROVE  \A d \in Processes : task'[d] # NoJob => task[d] # NoJob /\ task'[d].offset = task[d].offset
    <2>1. task[c] \in Tasks
      BY <1>0, <1>8 DEF SiemTypes
    <2>2. PICK w : w = [task[c] EXCEPT !.write = a]
      OBVIOUS
    <2>3. w \in Tasks /\ w.offset = task[c].offset
      BY <2>1, <2>2 DEF Tasks
    <2> QED
      BY <1>6, <1>8, <2>2, <2>3
  <1>9. ASSUME NEW c \in Processes, NEW r \in Matching, S!Suppress(c, r) PROVE SiemBounds'
    <2>1. task[c] # NoJob /\ task' = [task EXCEPT ![c].todo = @ \ {r}]
      BY <1>9 DEF S!Suppress, S!Done
    <2>2. \A d \in Processes : task'[d] # NoJob => task[d] # NoJob /\ task'[d].offset = task[d].offset
      BY <1>7, <2>1
    <2> QED
      BY <1>0, <1>9, <2>2, SameMessage DEF S!Suppress, S!group, SiemBounds
  <1>10. ASSUME NEW c \in Processes, NEW r \in Matching, S!CheckOrInsert(c, r) PROVE SiemBounds'
    <2>1. task[c] # NoJob /\ task[c] \in Tasks
      BY <1>0, <1>10 DEF S!CheckOrInsert, SiemTypes
    <2>2. ASSUME NEW k \in BOOLEAN PROVE S!NewAlert(c, r, k) \in Alerts
      BY <1>0, <2>1 DEF Alerts, Tasks, SiemTypes, S!NewAlert, S!Entities
    <2>3. \/ task' = [task EXCEPT ![c].todo = @ \ {r}]
          \/ \E a \in Alerts : task' = [task EXCEPT ![c].write = a]
      BY <1>10, <2>2 DEF S!CheckOrInsert, S!Done
    <2>4. \A d \in Processes : task'[d] # NoJob => task[d] # NoJob /\ task'[d].offset = task[d].offset
      BY <1>7, <1>8, <2>1, <2>3
    <2>5. siemFaults' \in 0 .. SiemFaults
      BY <1>10, SiemFaultBounds DEF S!CheckOrInsert
    <2> QED
      BY <1>0, <1>10, <2>4, <2>5, SameMessage DEF S!CheckOrInsert, S!group, SiemBounds
  <1>11. ASSUME NEW c \in Processes, S!WriteAlert(c) PROVE SiemBounds'
    <2>1. task[c] # NoJob /\ task[c] \in Tasks
      BY <1>0, <1>11 DEF S!WriteAlert, SiemTypes
    <2>2. PICK w : w = [task[c] EXCEPT !.todo = @ \ {task[c].write.rule}, !.write = NoAlert]
      OBVIOUS
    <2>3. w \in Tasks /\ w.offset = task[c].offset
      BY <2>1, <2>2 DEF Tasks
    <2>4. task' = [task EXCEPT ![c] = w]
      BY <1>11, <2>2 DEF S!WriteAlert
    <2>5. \A d \in Processes : task'[d] # NoJob => task[d] # NoJob /\ task'[d].offset = task[d].offset
      BY <1>6, <2>1, <2>3, <2>4
    <2>6. siemFaults' \in 0 .. SiemFaults
      BY <1>11, SiemFaultBounds DEF S!WriteAlert
    <2> QED
      BY <1>0, <1>11, <2>5, <2>6, SameMessage DEF S!WriteAlert, S!group, SiemBounds
  <1>12. ASSUME NEW c \in Processes, S!Mark(c) PROVE SiemBounds'
    <2>1. marks' \subseteq 1 .. Len(topic)
      <3>1. task[c].offset \in 1 .. Len(topic)
        BY <1>12 DEF S!Mark, S!Finished, SiemBounds
      <3>2. marks' = marks \cup {task[c].offset} \/ marks' = marks
        BY <1>12 DEF S!Mark
      <3> QED
        BY <3>1, <3>2 DEF SiemBounds
    <2>2. \A d \in Processes : task'[d] # NoJob => task[d] # NoJob /\ task'[d].offset = task[d].offset
      BY <1>0, <1>12 DEF S!Mark, SiemTypes
    <2>3. siemFaults' \in 0 .. SiemFaults
      BY <1>12, SiemFaultBounds DEF S!Mark
    <2> QED
      BY <1>0, <1>12, <2>1, <2>2, <2>3, SameMessage DEF S!Mark, S!group, SiemBounds
  <1>13. ASSUME NEW c \in S!Consumers, S!Crash(c) PROVE SiemBounds'
    <2>1. siemFaults' \in 0 .. SiemFaults
      BY <1>13, SiemFaultBounds DEF S!Crash
    <2>2. cache' \in [Processes -> SUBSET Matching] /\ owner' \in S!Consumers \cup {Nobody}
      BY <1>13 DEF S!Crash, SiemBounds
    <2>3. \A d \in Processes : task'[d] # NoJob => task'[d] = task[d]
      BY <1>13 DEF S!Crash
    <2> QED
      BY <1>13, <2>1, <2>2, <2>3 DEF S!Crash, SiemBounds
  <1>14. ASSUME NEW r \in Matching, S!Silence(r) PROVE SiemBounds'
    <2>1. siemFaults' \in 0 .. SiemFaults
      BY <1>14, SiemFaultBounds DEF S!Silence
    <2>2. silenced' \subseteq Matching
      BY <1>14 DEF S!Silence, SiemBounds
    <2> QED
      BY <1>14, <2>1, <2>2 DEF S!Silence, S!group, SiemBounds
  <1>15. ASSUME NEW c \in Processes, S!Refresh(c) PROVE SiemBounds'
    BY <1>15 DEF S!Refresh, S!group, SiemBounds
  <1>16. CASE S!Tick
    BY <1>16 DEF S!Tick, S!group, SiemBounds
  <1>17. CASE UNCHANGED S!vars
    BY <1>17 DEF S!vars, SiemBounds
  <1> QED
    BY <1>1, <1>2, <1>3, <1>4, <1>5, <1>9, <1>10, <1>11, <1>12, <1>13, <1>14, <1>15, <1>16, <1>17
       DEF S!Next

LEMMA SiemTyped == S!Spec => []S!TypeOK
  <1>1. S!Init => SiemBounds
    BY SiemAssumption DEF S!Init, SiemBounds
  <1>2. SiemInv /\ SiemBounds => S!TypeOK
    <2> SUFFICES ASSUME SiemTypes, SiemBounds PROVE S!TypeOK
      BY DEF SiemInv
    <2>1. DOMAIN topic = 1 .. Len(topic) /\ Len(topic) \in Nat
      BY DEF SiemTypes
    <2>2. position \in 1 .. Len(topic) + 1 /\ committed \in 0 .. Len(topic) + 1
      BY <2>1 DEF SiemTypes, SiemBounds
    <2> QED
      BY <2>1, <2>2 DEF SiemBounds, S!TypeOK
  <1> QED
    BY <1>1, <1>2, SiemInit, SiemStep, SiemBoundsStep, PTL DEF S!Spec

-----------------------------------------------------------------------------
Moves == side \in {"triage", "evidence", "captures", "commands", "guardian", "siem", "rules"}

(* For every set of groups, sessions, processes, sensors, flows, bundles   *)
(* and logs, every limit and every lifetime, the variables of the seven    *)
(* components keep their types: among them that no copy of the triage      *)
(* document is over the budget of AI calls, that an hourly slot of the     *)
(* evidence is some job's, that a sensor never counts more tries than the  *)
(* request allows, and that the group is nowhere past the end of its topic.*)
THEOREM ServicesTypesCorrect == MCSpec => []TypesOK
<1>1. MCSpec => []Moves
  <2> DEFINE moved == <<side, triage, evidence, captures, commands, guardian, siem, rules>>
  <2>1. MCInit => Moves
    BY DEF MCInit, Moves
  <2>2. Moves /\ [MCNext]_moved => Moves'
    BY DEF MCNext, Moves
  <2> QED
    BY <2>1, <2>2, PTL DEF MCSpec
<1>2. Moves /\ T!TypeOK /\ E!TypeOK /\ C!TypeOK /\ M!TypeOK /\ G!TypeOK /\ S!TypeOK /\ R!TypeOK
        => TypesOK
  BY DEF Moves, TypesOK
<1> QED
  BY <1>1, <1>2, EachOfServices, TriageTyped, EvidenceTyped, CapturesTyped, CommandsTyped,
     GuardianTyped, SiemTyped, RulesTyped, PTL
=============================================================================
