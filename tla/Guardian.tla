------------------------------ MODULE Guardian ------------------------------
(***************************************************************************)
(* The storage guardian: how full the disk is decides which of three       *)
(* measures a pass takes, compression, a shorter life of raw events and    *)
(* the removal of the files of expired evidence, around analysts who open  *)
(* cases and hold evidence and ClickHouse which drops expired rows.        *)
(***************************************************************************)
EXTENDS Integers, FiniteSets

CONSTANTS
  Engines,   \* one pass each; only the leader begins one
  Bundles, Sessions, NoBundle,
  RawDays,   \* the settings of storage_guardian_raw_days that are tried
  FirstTTL,  \* days that raw events are kept in the table as installed
  Life,      \* days a bundle is kept
  MaxTime,   \* bound on the days
  MaxEdits   \* bound on changes of the settings and the disk level

VARIABLES
  now, edits, leader,
  mode, days,    \* settings
  level,         \* of the disk
  compressed, ttl,  \* of ndr_events
  row,           \* evidence_bundles
  files,         \* zip files on disk
  cases,         \* sessions of open cases
  pass,          \* run_once of each engine
  spared         \* sessions whose case was open, and bundles held, all through the pass

vars == <<now, edits, leader, mode, days, level, compressed, ttl, row, files, cases, pass, spared>>

settings == <<edits, mode, days, level>>
table == <<compressed, ttl>>
Modes == {"off", "dry_run", "enforce"}
Levels == {"ok", "compress", "shorten"}  \* critical plans what shorten plans
Idle == [pc |-> "idle"]

Init ==
  /\ now = 0 /\ edits = 0
  /\ leader \in Engines
  /\ mode = "dry_run" /\ days \in RawDays /\ level = "ok"
  /\ compressed = FALSE /\ ttl = FirstTTL
  /\ row = [b \in Bundles |-> NoBundle] /\ files = {} /\ cases = {}
  /\ pass = [g \in Engines |-> Idle]
  /\ spared = [g \in Engines |-> {}]

Change == edits < MaxEdits /\ edits' = edits + 1

(* set_mode_handler: anything but the two other words is dry_run.          *)
SetMode(m, d) ==
  /\ Change
  /\ mode' = m /\ days' = d
  /\ UNCHANGED <<now, leader, level, table, row, files, cases, pass, spared>>

DiskFills(l) ==
  /\ Change
  /\ level' = l
  /\ UNCHANGED <<now, leader, mode, days, table, row, files, cases, pass, spared>>

(* A pass goes on when its engine is leader no longer.                     *)
LeaderChanges(g) ==
  /\ g # leader /\ leader' = g
  /\ UNCHANGED <<now, settings, table, row, files, cases, pass, spared>>

-----------------------------------------------------------------------------
(* Evidence and cases.                                                     *)

Capture(b, c) ==
  /\ row[b] = NoBundle /\ b \notin files
  /\ row' = [row EXCEPT ![b] = [cid |-> c, expires |-> now + Life, held |-> FALSE]]
  /\ files' = files \union {b}
  /\ UNCHANGED <<now, leader, settings, table, cases, pass, spared>>

(* set_evidence_legal_hold *)
Hold(b, held) ==
  /\ row[b] # NoBundle /\ row[b].held # held
  /\ row' = [row EXCEPT ![b].held = held]
  /\ spared' = IF held THEN spared ELSE [g \in Engines |-> spared[g] \ {b}]
  /\ UNCHANGED <<now, leader, settings, table, files, cases, pass>>

OpenCase(c) ==
  /\ c \notin cases /\ cases' = cases \union {c}
  /\ UNCHANGED <<now, leader, settings, table, row, files, pass, spared>>

CloseCase(c) ==
  /\ c \in cases /\ cases' = cases \ {c}
  /\ spared' = [g \in Engines |-> spared[g] \ {c}]
  /\ UNCHANGED <<now, leader, settings, table, row, files, pass>>

Expired(b) == row[b] # NoBundle /\ row[b].expires < now /\ ~ row[b].held

(* TTL expires_at WHERE legal_hold = 0 *)
DropRow(b) ==
  /\ Expired(b)
  /\ row' = [row EXCEPT ![b] = NoBundle]
  /\ UNCHANGED <<now, leader, settings, table, files, cases, pass, spared>>

-----------------------------------------------------------------------------
(* run_once                                                                *)

At(g, pc) == pass[g].pc = pc
Goto(g, pc) == pass' = [pass EXCEPT ![g].pc = pc]
End(g) == pass' = [pass EXCEPT ![g] = Idle] /\ spared' = [spared EXCEPT ![g] = {}]
Enforced(g) == pass[g].mode = "enforce"

(* Mode, level and days are read once, at the beginning.                   *)
Begin(g) ==
  /\ At(g, "idle") /\ g = leader
  /\ mode # "off" /\ level # "ok"
  /\ pass' = [pass EXCEPT ![g] = [pc |-> "codec", mode |-> mode, level |-> level, days |-> days,
                                  todo |-> {}, cids |-> [b \in {} |-> NoBundle]]]
  /\ spared' = [spared EXCEPT ![g] = cases \union {b \in Bundles : row[b] # NoBundle /\ row[b].held}]
  /\ UNCHANGED <<now, leader, settings, table, row, files, cases>>

AfterCodec(g) == IF pass[g].level = "compress" THEN End(g) ELSE Goto(g, "ttl") /\ UNCHANGED spared

CompressRaw(g) ==
  /\ At(g, "codec")
  /\ compressed' = (compressed \/ Enforced(g))
  /\ AfterCodec(g)
  /\ UNCHANGED <<now, leader, settings, ttl, row, files, cases>>

KeepsLess(g) == ttl <= pass[g].days

(* ShortenRawTtl reads the life the table has, then alters it.             *)
ReadTTL(g) ==
  /\ At(g, "ttl")
  /\ Goto(g, IF KeepsLess(g) \/ ~ Enforced(g) THEN "list" ELSE "alter")
  /\ UNCHANGED <<now, leader, settings, table, row, files, cases, spared>>

AlterTTL(g) ==
  /\ At(g, "alter")
  /\ ttl' = pass[g].days
  /\ Goto(g, "list")
  /\ UNCHANGED <<now, leader, settings, compressed, row, files, cases, spared>>

(* DeleteExpiredEvidence: the expired bundles, then the open cases, then   *)
(* one file after the other.                                               *)
Listed_Held(b) == row[b] # NoBundle /\ row[b].expires < now   \* mutant
Listed(b) == Expired(b)

ListExpired(g) ==
  LET B == {b \in Bundles : Listed(b)}
  IN /\ At(g, "list")
     /\ IF B = {} THEN End(g)
        ELSE /\ pass' = [pass EXCEPT ![g].pc = "cases", ![g].todo = B,
                                     ![g].cids = [b \in B |-> row[b].cid]]
             /\ UNCHANGED spared
     /\ UNCHANGED <<now, leader, settings, table, row, files, cases>>

Deletable(g) == {b \in pass[g].todo : pass[g].cids[b] \notin cases}

ListCases(g) ==
  /\ At(g, "cases")
  /\ IF Deletable(g) = {} \/ ~ Enforced(g) THEN End(g)
     ELSE /\ pass' = [pass EXCEPT ![g].pc = "remove", ![g].todo = Deletable(g)]
          /\ UNCHANGED spared
  /\ UNCHANGED <<now, leader, settings, table, row, files, cases>>

RemoveFile(g, b) ==
  /\ At(g, "remove") /\ b \in pass[g].todo
  /\ files' = files \ {b}
  /\ IF pass[g].todo = {b} THEN End(g)
     ELSE pass' = [pass EXCEPT ![g].todo = @ \ {b}] /\ UNCHANGED spared
  /\ UNCHANGED <<now, leader, settings, table, row, cases>>

NextDay ==
  /\ now < MaxTime /\ now' = now + 1
  /\ UNCHANGED <<leader, settings, table, row, files, cases, pass, spared>>

Next ==
  \/ \E m \in Modes, d \in RawDays : SetMode(m, d)
  \/ \E l \in Levels : DiskFills(l)
  \/ \E b \in Bundles : \/ DropRow(b) \/ \E held \in BOOLEAN : Hold(b, held)
                        \/ \E c \in Sessions : Capture(b, c)
  \/ \E c \in Sessions : OpenCase(c) \/ CloseCase(c)
  \/ \E g \in Engines : \/ LeaderChanges(g) \/ Begin(g) \/ CompressRaw(g)
                        \/ ReadTTL(g) \/ AlterTTL(g) \/ ListExpired(g) \/ ListCases(g)
                        \/ \E b \in Bundles : RemoveFile(g, b)
  \/ NextDay

Spec == Init /\ [][Next]_vars

-----------------------------------------------------------------------------
(* Types of the state.                                                     *)
TypeOK ==
  /\ now \in 0..MaxTime /\ edits \in 0..MaxEdits /\ leader \in Engines
  /\ mode \in Modes /\ days \in RawDays /\ level \in Levels
  /\ compressed \in BOOLEAN /\ ttl \in RawDays \union {FirstTTL}
  /\ files \subseteq Bundles /\ cases \subseteq Sessions
  /\ \A g \in Engines : /\ pass[g].pc \in {"idle", "codec", "ttl", "alter", "list", "cases", "remove"}
                        /\ spared[g] \subseteq Bundles \union Sessions

(* What was on hold, or belongs to a session whose case was open, from the *)
(* beginning of a pass until now is not on its list of files to remove,    *)
(* whatever analysts and ClickHouse did to the rest meanwhile              *)
(* (deletable_bundles).                                                    *)
SparedIsKept ==
  \A g \in Engines : At(g, "remove") =>
    \A b \in pass[g].todo : b \notin spared[g] /\ pass[g].cids[b] \notin spared[g]

-----------------------------------------------------------------------------
(* Statements that this code does not keep: TLC finds a counterexample to  *)
(* each (README).                                                          *)

(* The guardian only shortens the time raw events are kept: two engines    *)
(* between their read and their ALTER undo one another.                    *)
NeverLengthened == [][ttl' <= ttl]_vars

(* No file of a session with an open case is removed: the case may be      *)
(* opened after the pass has listed the cases.                             *)
OpenCaseKeepsFile ==
  [][\A b \in files : row[b] # NoBundle /\ row[b].cid \in cases => b \in files']_vars

(* A file can be found by its row: the table's TTL drops the row of a file *)
(* that the guardian spared.                                               *)
FileHasRow == \A b \in files : row[b] # NoBundle
=============================================================================
