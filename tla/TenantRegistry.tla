--------------------------- MODULE TenantRegistry ---------------------------
(***************************************************************************)
(* The row of one tenant in tenants, a ReplacingMergeTree: a change inserts*)
(* a row that repeats the columns it does not set, the newest row counts,  *)
(* and the older ones stay until a merge removes them.  now() of a         *)
(* statement is the second it began in.  Administrators change the row     *)
(* concurrently; auth-service asks at login and ndr-engine through a cache *)
(* whether the tenant is active.                                           *)
(***************************************************************************)
EXTENDS Integers, Sequences, FiniteSets, SequencesExt

CONSTANTS
  Admins,     \* super_admin requests being served at the same time
  Features,   \* values of the features column
  NewTenant,  \* the one a new tenant has
  Sockets,    \* WebSockets of users of the tenant
  NoRow,
  GateTTL,    \* lifetime of a cached answer, and the time between two looks
              \* of a WebSocket at whether it may stay
  MaxTime,    \* bound on the clock
  MaxRows     \* bound on the rows ever inserted

VARIABLES
  now,
  rows,        \* the rows on disk, in the order of their insertion
  inserted,    \* how many were ever inserted
  job,         \* the statement of each administrator: the row it inserts and
               \* the columns it is to set
  wanted,      \* the columns as the completed changes set them
  overlapped,  \* two statements were under way at once
  tied,        \* two rows were ever of the same second
  offSince,    \* when the tenant was last deactivated, 0 while active
  wsGate,      \* ndr:ws_tenant_active:<id>
  due,         \* when each WebSocket looks next, 0 while it is closed
  login        \* auth-service found the tenant active since the last change

vars == <<now, rows, inserted, job, wanted, overlapped, tied, offSince,
          wsGate, due, login>>
history == <<wanted, overlapped, tied, offSince>>
readers == <<wsGate, due>>

Names == {"active", "features"}
Columns == [active : BOOLEAN, features : Features]
New == [active |-> TRUE, features |-> NewTenant]
Row(c, ver) == [columns |-> c, ver |-> ver]
NoAnswer == [answer |-> FALSE, until |-> 0]

(* SELECT ... FINAL: the highest version, of equals the last inserted.     *)
FinalIndex ==
  CHOOSE i \in DOMAIN rows :
    \A k \in DOMAIN rows : \/ rows[k].ver < rows[i].ver
                           \/ rows[k].ver = rows[i].ver /\ k <= i
Final == rows[FinalIndex].columns
Exists == rows # <<>>
Busy == \E a \in Admins : job[a] # NoRow

(* A tenant whose users are connected, or none yet.                        *)
Init ==
  /\ now = 1
  /\ \/ /\ rows = <<>> /\ due = [k \in Sockets |-> 0]
     \/ /\ rows = <<Row(New, 0)>>
        /\ due \in [Sockets -> 0 .. GateTTL]
  /\ inserted = Len(rows)
  /\ job = [a \in Admins |-> NoRow]
  /\ wanted = New
  /\ overlapped = FALSE /\ tied = FALSE
  /\ offSince = 0
  /\ wsGate = NoAnswer
  /\ login = FALSE

-----------------------------------------------------------------------------
(* Changes.  Each is one INSERT, alone or from a SELECT of the row that    *)
(* counts.                                                                 *)

Begin(a, columns, sets) ==
  /\ job[a] = NoRow
  /\ inserted + Cardinality({b \in Admins : job[b] # NoRow}) < MaxRows
  /\ overlapped' = (overlapped \/ Busy)
  /\ job' = [job EXCEPT ![a] = [row |-> Row(columns, now), sets |-> sets]]
  /\ UNCHANGED <<now, rows, inserted, wanted, tied, offSince, readers, login>>

(* POST /tenants looks for the identifier before it inserts.               *)
CreateTenant(a) == ~ Exists /\ Begin(a, New, Names)

DbSetTenantActive(a, b) == Exists /\ Begin(a, [Final EXCEPT !.active = b], {"active"})

(* PUT /tenants/:id renames; an absent active is true.                     *)
UpdateTenant(a, b) == DbSetTenantActive(a, b)

SetStatus(a, b) == DbSetTenantActive(a, b)

(* POST /tenants/:id/features, of auth-service or of ndr-engine.           *)
SetTenantFeatures(a, f) == Exists /\ Begin(a, [Final EXCEPT !.features = f], {"features"})

(* The statement inserts what it has read.                                 *)
Insert(a) ==
  /\ job[a] # NoRow
  /\ rows' = Append(rows, job[a].row)
  /\ inserted' = inserted + 1
  /\ job' = [job EXCEPT ![a] = NoRow]
  /\ wanted' = [c \in Names |-> IF c \in job[a].sets THEN job[a].row.columns[c]
                                                    ELSE wanted[c]]
  /\ tied' = (tied \/ \E i \in DOMAIN rows : rows[i].ver = job[a].row.ver)
  /\ offSince' = CASE wanted'.active -> 0
                   [] ~ wanted'.active /\ wanted.active -> now
                   [] OTHER -> offSince
  /\ login' = FALSE
  /\ UNCHANGED <<now, overlapped, readers>>

(* A merge in the background drops rows that do not count.                 *)
Merge ==
  /\ Exists
  /\ \E i \in DOMAIN rows \ {FinalIndex} : rows' = RemoveAt(rows, i)
  /\ UNCHANGED <<now, inserted, job, readers, login, history>>

-----------------------------------------------------------------------------
(* Readers.                                                                *)

(* auth-service asks for any row of the tenant, without FINAL.             *)
AuthIsTenantActive(answer) ==
  IF Exists THEN \E i \in DOMAIN rows : answer = rows[i].columns.active
            ELSE answer = FALSE

Login(answer) ==
  /\ AuthIsTenantActive(answer)
  /\ login' = (login \/ answer)
  /\ UNCHANGED <<now, rows, inserted, job, readers, history>>

(* ndr-engine asks for the row of the newest second; a tenant without one  *)
(* counts as active.                                                       *)
IsTenantActive(answer) ==
  IF Exists
  THEN \E i \in DOMAIN rows : /\ \A k \in DOMAIN rows : rows[k].ver <= rows[i].ver
                              /\ answer = rows[i].columns.active
  ELSE answer = TRUE

Cached(answer) == [answer |-> answer, until |-> now + GateTTL]

(* A WebSocket asks for itself when it connects ...                        *)
Connect(k) ==
  /\ due[k] = 0
  /\ IsTenantActive(TRUE)
  /\ due' = [due EXCEPT ![k] = now + GateTTL]
  /\ UNCHANGED <<now, rows, inserted, job, wsGate, login, history>>

Stay(k, answer) ==
  due' = [due EXCEPT ![k] = IF answer THEN now + GateTTL ELSE 0]

ShouldForceDisconnect_Slides(k) ==                            \* mutant
  /\ due[k] = now
  /\ \/ /\ wsGate.until > now
        /\ Stay(k, wsGate.answer)
        /\ wsGate' = Cached(wsGate.answer)
     \/ \E answer \in BOOLEAN :
          /\ wsGate.until <= now
          /\ IsTenantActive(answer)
          /\ wsGate' = Cached(answer)
          /\ Stay(k, answer)
  /\ UNCHANGED <<now, rows, inserted, job, login, history>>

(* ... and later looks at an answer that all of the tenant share.          *)
ShouldForceDisconnect(k) ==
  /\ due[k] = now
  /\ \/ /\ wsGate.until > now
        /\ Stay(k, wsGate.answer)
        /\ UNCHANGED wsGate
     \/ \E answer \in BOOLEAN :
          /\ wsGate.until <= now
          /\ IsTenantActive(answer)
          /\ wsGate' = Cached(answer)
          /\ Stay(k, answer)
  /\ UNCHANGED <<now, rows, inserted, job, login, history>>

(* A WebSocket looks in time, and a statement takes less than one unit.    *)
Tick ==
  /\ now < MaxTime
  /\ ~ Busy
  /\ \A k \in Sockets : due[k] # now
  /\ now' = now + 1
  /\ wsGate' = IF wsGate.until > now + 1 THEN wsGate ELSE NoAnswer
  /\ UNCHANGED <<rows, inserted, job, due, login, history>>

-----------------------------------------------------------------------------
Next ==
  \/ \E a \in Admins :
       \/ CreateTenant(a)
       \/ \E b \in BOOLEAN : UpdateTenant(a, b) \/ SetStatus(a, b)
       \/ \E f \in Features : SetTenantFeatures(a, f)
       \/ Insert(a)
  \/ \E answer \in BOOLEAN : Login(answer)
  \/ \E k \in Sockets : Connect(k) \/ ShouldForceDisconnect(k)
  \/ Merge
  \/ Tick

Spec == Init /\ [][Next]_vars

-----------------------------------------------------------------------------
(* The values each variable takes.                                         *)
TypeOK ==
  /\ now \in 1 .. MaxTime
  /\ \A i \in DOMAIN rows : rows[i] \in [columns : Columns, ver : 0 .. now]
  /\ inserted \in Len(rows) .. MaxRows
  /\ \A a \in Admins : \/ job[a] = NoRow
                       \/ job[a] \in [row : [columns : Columns, ver : 1 .. now],
                                      sets : SUBSET Names]
  /\ wanted \in Columns
  /\ offSince \in 0 .. now
  /\ wsGate \in [answer : BOOLEAN, until : 0 .. MaxTime + GateTTL]
  /\ due \in [Sockets -> 0 .. MaxTime + GateTTL]
  /\ login \in BOOLEAN

(* Changes made one after the other are all kept: each repeats what the    *)
(* earlier ones set (db.rs:526-580), whichever rows have been merged.      *)
ChangesAreKept == Exists /\ ~ Busy /\ ~ overlapped => Final = wanted

(* A deactivation reaches the WebSockets of the tenant in less than two    *)
(* lifetimes of the shared answer, if no change of the same second hides   *)
(* it (websocket.rs:381-432).                                              *)
DeactivationReaches ==
  offSince # 0 /\ ~ overlapped /\ ~ tied =>
    \A k \in Sockets : due[k] # 0 => now < offSince + 2 * GateTTL

(* Both: what administrators change stays changed and takes effect.        *)
ChangesTakeHold == ChangesAreKept /\ DeactivationReaches

-----------------------------------------------------------------------------
(* Statements that this code does not keep: TLC finds a counterexample to  *)
(* each (README).                                                          *)

(* "Check whether a tenant is active." (db.rs:77): once the change is made,*)
(* a login of a deactivated tenant is refused.                             *)
LoginSeesDeactivation ==
  offSince # 0 /\ ~ overlapped /\ ~ tied => ~ login
=============================================================================
