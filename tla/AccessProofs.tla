---------------------------- MODULE AccessProofs ----------------------------
(***************************************************************************)
(* Proofs about Accounts, TenantRegistry and Sessions, for every set of    *)
(* accounts, tenants, administrators, WebSockets, tokens and requests, and *)
(* every lifetime and bound; at the end the types of the three together.   *)
(***************************************************************************)
EXTENDS MCAccess, FiniteSetTheorems, SequenceTheorems, TLAPS

-----------------------------------------------------------------------------
(* Accounts.                                                               *)

LEMMA WriteTypes ==
  ASSUME TypeOK, NEW new \in [Ids -> Rows \cup {NoUser}], Write(new)
  PROVE  TypeOK'
  <1>1. now \in 0 .. MaxTime + 1 /\ 0 \in 0 .. MaxTime + 1
    BY AccountsAssumption DEF TypeOK
  <1>2. stale' \in [Ids -> 0 .. MaxTime + 1] /\ offSince' \in [Ids -> 0 .. MaxTime + 1]
    BY <1>1 DEF TypeOK, Write
  <1> QED
    BY <1>2 DEF TypeOK, Write

(* What a handler writes: rows, of which none comes into being disabled,   *)
(* and the root account's is as it was.                                    *)
Written(new) ==
  /\ new \in [Ids -> Rows \cup {NoUser}]
  /\ \A i \in Ids : new[i] # NoUser /\ ~ new[i].active => Exists(i)
  /\ users[Root].role = "super_admin" => new[Root] = users[Root]

LEMMA HandlersWrite ==
  ASSUME TypeOK, users[Root].role = "super_admin", NEW caller \in Ids, HandledFor(caller)
  PROVE  \E new : Written(new) /\ Write(new)
  <1> USE AccountsAssumption DEF TypeOK, Written, Exists
  <1>0. PICK id \in Ids :
          \/ \E role \in Roles, tenant \in Tenants :
               \/ Create(caller, id, role, tenant)
               \/ \E active \in BOOLEAN : Update(caller, id, role, tenant, active)
          \/ \E active \in BOOLEAN : SetStatus(caller, id, active)
          \/ Delete(caller, id)
    BY DEF HandledFor
  <1>1. ASSUME NEW role \in Roles, NEW tenant \in Tenants, Create(caller, id, role, tenant)
        PROVE  \E new : Written(new) /\ Write(new)
    <2> DEFINE row == [role |-> role, tenant |-> tenant, active |-> TRUE]
               new == [users EXCEPT ![id] = row]
    <2>1. row \in Rows /\ row.active
      BY DEF Rows
    <2>2. users[id] = NoUser /\ id # Root /\ Write(new)
      BY <1>1 DEF Create, NoUser
    <2> HIDE DEF row
    <2>3. Written(new)
      BY <2>1, <2>2
    <2> HIDE DEF new
    <2> QED
      BY <2>2, <2>3
  <1>2. ASSUME NEW role \in Roles, NEW tenant \in Tenants, NEW active \in BOOLEAN,
               Update(caller, id, role, tenant, active)
        PROVE  \E new : Written(new) /\ Write(new)
    <2> DEFINE row == [role |-> role, tenant |-> tenant, active |-> active]
               new == [users EXCEPT ![id] = row]
    <2>1. row \in Rows
      BY DEF Rows
    <2>2. users[id] # NoUser /\ id # Root /\ Write(new)
      BY <1>2 DEF Update
    <2> HIDE DEF row
    <2>3. Written(new)
      BY <2>1, <2>2
    <2> HIDE DEF new
    <2> QED
      BY <2>2, <2>3
  <1>3. ASSUME NEW active \in BOOLEAN, SetStatus(caller, id, active)
        PROVE  \E new : Written(new) /\ Write(new)
    <2> DEFINE new == [users EXCEPT ![id].active = active]
    <2>1. users[id] # NoUser /\ id # Root /\ Write(new)
      BY <1>3 DEF SetStatus
    <2>2. [users[id] EXCEPT !.active = active] \in Rows
      BY <2>1 DEF Rows
    <2>3. Written(new)
      BY <2>1, <2>2
    <2> HIDE DEF new
    <2> QED
      BY <2>1, <2>3
  <1>4. ASSUME Delete(caller, id) PROVE \E new : Written(new) /\ Write(new)
    <2> DEFINE new == [users EXCEPT ![id] = NoUser]
    <2>1. id # Root /\ Write(new)
      BY <1>4 DEF Delete
    <2>2. Written(new)
      BY <2>1
    <2> HIDE DEF new
    <2> QED
      BY <2>1, <2>2
  <1> QED
    BY <1>0, <1>1, <1>2, <1>3, <1>4

(* Who has what: only clients read their rows, and only they but Root get  *)
(* an analyst's token and a cached answer.                                 *)
Holders ==
  /\ users[Root].role = "super_admin" /\ users[Root].active
  /\ token[Root] = NoToken \/ token[Root].role = "super_admin"
  /\ \A i \in Ids : reading[i] # NoUser \/ token[i].role = "analyst" \/ cache[i].answer
                      => i \in Clients \ {Root}

(* How far ahead a token and an answer reach, and that a row which changed *)
(* since a login has read it changed at this very time.                    *)
Lifetimes ==
  /\ \A i \in Ids \ {Root} : token[i].exp <= now + TokenTTL
  /\ \A i \in Ids : cache[i].until <= now + UserTTL
  /\ \A i \in Ids : reading[i] # NoUser /\ reading[i].role # users[i].role => stale[i] = now

NoticedInv == TypeOK /\ Holders /\ Lifetimes /\ ChangesAreNoticed

LEMMA NoticedInit == Init => NoticedInv
  <1> SUFFICES ASSUME Init PROVE NoticedInv
    OBVIOUS
  <1> USE AccountsAssumption DEF Init
  <1>1. PICK t \in Tenants :
          /\ users = [i \in Ids |->
               IF i = Root THEN [role |-> "super_admin", tenant |-> t, active |-> TRUE]
               ELSE NoUser]
          /\ token = [i \in Ids |->
               IF i = Root
               THEN [role |-> "super_admin", tenant |-> t, exp |-> MaxTime + TokenTTL]
               ELSE NoToken]
    OBVIOUS
  <1>2. [role |-> "super_admin", tenant |-> t, active |-> TRUE] \in Rows
    BY DEF Rows, Roles
  <1>3. [role |-> "super_admin", tenant |-> t, exp |-> MaxTime + TokenTTL] \in Tokens
    BY DEF Tokens, Roles
  <1>4. users \in [Ids -> Rows \cup {NoUser}] /\ token \in [Ids -> Tokens \cup {NoToken}]
    BY <1>1, <1>2, <1>3
  <1>5. cache \in [Ids -> [answer : BOOLEAN, until : 0 .. MaxTime + UserTTL + 1]]
    BY DEF NoAnswer
  <1>6. TypeOK
    <2>1. now \in 1 .. MaxTime + 1 /\ 0 \in 0 .. MaxTime + 1
      OBVIOUS
    <2>2. stale \in [Ids -> 0 .. MaxTime + 1] /\ offSince \in [Ids -> 0 .. MaxTime + 1]
      BY <2>1
    <2>3. reading \in [Ids -> Rows \cup {NoUser}]
      OBVIOUS
    <2> QED
      BY <1>4, <1>5, <2>1, <2>2, <2>3 DEF TypeOK
  <1>7. Holders
    BY <1>1 DEF Holders, NoUser, NoToken, NoAnswer
  <1>8. Lifetimes
    BY <1>1 DEF Lifetimes, NoToken, NoAnswer
  <1>9. ChangesAreNoticed
    BY <1>1 DEF ChangesAreNoticed, Valid, Exists, NoToken, NoAnswer, NoUser
  <1> QED
    BY <1>6, <1>7, <1>8, <1>9 DEF NoticedInv

LEMMA NoticedStep == NoticedInv /\ [Next]_vars => NoticedInv'
  <1> SUFFICES ASSUME NoticedInv, [Next]_vars PROVE NoticedInv'
    BY Zenon
  <1>0. TypeOK /\ Holders /\ Lifetimes /\ ChangesAreNoticed
    BY DEF NoticedInv
  <1>N. now \in Nat /\ now >= 1 /\ MaxTime \in Nat /\ TokenTTL \in Nat /\ UserTTL \in Nat
    BY <1>0, AccountsAssumption DEF TypeOK
  <1>1. ASSUME NEW i \in Ids, LookUp(i) PROVE NoticedInv'
    <2> USE <1>0, <1>1, AccountsAssumption DEF LookUp, history
    <2>1. TypeOK'
      BY DEF TypeOK
    <2>2. Holders'
      BY DEF Holders, TypeOK
    <2>3. Lifetimes'
      BY DEF Lifetimes, TypeOK
    <2>4. ChangesAreNoticed'
      BY DEF ChangesAreNoticed, Valid, Exists
    <2> QED
      BY <2>1, <2>2, <2>3, <2>4 DEF NoticedInv
  <1>2. ASSUME NEW i \in Ids, IssueToken(i) PROVE NoticedInv'
    <2> DEFINE new == [role |-> reading[i].role, tenant |-> reading[i].tenant,
                       exp |-> now + TokenTTL]
    <2>1. /\ reading[i] # NoUser /\ token' = [token EXCEPT ![i] = new]
          /\ reading' = [reading EXCEPT ![i] = NoUser]
          /\ stale' = [stale EXCEPT ![i] = IF reading[i].role = users[i].role THEN 0 ELSE @]
          /\ UNCHANGED <<now, users, cache, offSince>>
      BY <1>2 DEF IssueToken
    <2>2. new \in Tokens
      BY <1>0, <1>N, <2>1, AccountsAssumption DEF TypeOK, Rows, Tokens
    <2>3. new.role = reading[i].role /\ new.exp = now + TokenTTL
      OBVIOUS
    <2>4. i \in Clients \ {Root}
      BY <1>0, <2>1 DEF Holders
    <2> HIDE DEF new
    <2>5. TypeOK'
      <3>1. stale' \in [Ids -> 0 .. MaxTime + 1]
        BY <1>0, <1>N, <2>1 DEF TypeOK
      <3> QED
        BY <1>0, <2>1, <2>2, <3>1 DEF TypeOK
    <2>6. Holders'
      BY <1>0, <2>1, <2>4 DEF Holders, TypeOK
    <2>7. Lifetimes'
      BY <1>0, <1>N, <2>1, <2>3 DEF Lifetimes, TypeOK
    <2>8. ChangesAreNoticed'
      <3>1. ASSUME NEW j \in Ids, Valid(j)', token'[j].role # users'[j].role
            PROVE  token'[j].exp <= stale'[j] + TokenTTL
        <4>1. CASE j = i
          BY <1>0, <1>N, <2>1, <2>3, <3>1, <4>1 DEF TypeOK, Lifetimes
        <4>2. CASE j # i
          BY <1>0, <2>1, <3>1, <4>2 DEF TypeOK, ChangesAreNoticed, Valid
        <4> QED
          BY <4>1, <4>2
      <3> QED
        BY <1>0, <2>1, <3>1 DEF ChangesAreNoticed, Exists
    <2> QED
      BY <2>5, <2>6, <2>7, <2>8 DEF NoticedInv
  <1>3. ASSUME NEW i \in Ids, FillCache(i) PROVE NoticedInv'
    <2> DEFINE new == [answer |-> IsUserActive(i), until |-> now + UserTTL]
    <2>1. /\ token[i].role = "analyst" /\ cache' = [cache EXCEPT ![i] = new]
          /\ UNCHANGED <<now, users, token, reading, stale, offSince>>
      BY <1>3 DEF FillCache, history
    <2>2. new.answer = IsUserActive(i) /\ new.until = now + UserTTL
      OBVIOUS
    <2>3. IsUserActive(i) \in BOOLEAN
      BY <1>0 DEF IsUserActive, TypeOK, Exists, Rows
    <2>4. new \in [answer : BOOLEAN, until : 0 .. MaxTime + UserTTL + 1]
      BY <1>0, <1>N, <2>3 DEF TypeOK
    <2> HIDE DEF new
    <2>5. TypeOK'
      BY <1>0, <2>1, <2>4 DEF TypeOK
    <2>6. Holders'
      BY <1>0, <2>1 DEF Holders, TypeOK
    <2>7. Lifetimes'
      BY <1>0, <1>N, <2>1, <2>2 DEF Lifetimes, TypeOK
    <2>8. ChangesAreNoticed'
      BY <1>0, <2>1, <2>2 DEF ChangesAreNoticed, TypeOK, IsUserActive, Exists, Valid
    <2> QED
      BY <2>5, <2>6, <2>7, <2>8 DEF NoticedInv
  <1>4. ASSUME NEW i \in Ids, HandledFor(i) PROVE NoticedInv'
    <2>1. PICK new : Written(new) /\ Write(new)
      BY <1>0, <1>4, HandlersWrite DEF Holders
    <2>2. /\ users' = new /\ UNCHANGED <<now, token, reading, cache>>
          /\ stale' = [j \in Ids |-> IF ~ Valid(j) /\ reading[j] = NoUser THEN 0
                                     ELSE IF new[j].role # users[j].role THEN now
                                     ELSE stale[j]]
          /\ offSince' = [j \in Ids |-> IF new[j].active \/ j \notin Clients THEN 0
                                        ELSE IF users[j].active THEN now
                                        ELSE offSince[j]]
      BY <2>1 DEF Write
    <2>3. TypeOK'
      BY <1>0, <2>1, WriteTypes DEF Written
    <2>4. Holders'
      BY <1>0, <2>1, <2>2 DEF Holders, Written
    <2>5. Lifetimes'
      BY <1>0, <2>2 DEF Lifetimes
    <2>6. ChangesAreNoticed'
      <3>1. ASSUME NEW j \in Ids, Valid(j)', token'[j].role # users'[j].role
            PROVE  token'[j].exp <= stale'[j] + TokenTTL
        <4>1. j # Root
          BY <1>0, <2>1, <2>2, <3>1, <1>N DEF Holders, Written, Valid, NoToken
        <4>2. Valid(j)
          BY <2>2, <3>1 DEF Valid
        <4>3. CASE new[j].role # users[j].role
          BY <1>0, <2>2, <4>1, <4>2, <4>3 DEF Lifetimes
        <4>4. CASE new[j].role = users[j].role
          BY <1>0, <2>2, <3>1, <4>2, <4>4 DEF ChangesAreNoticed
        <4> QED
          BY <4>3, <4>4
      <3>2. ASSUME NEW j \in Ids, Exists(j)', ~ users'[j].active, cache'[j].answer
            PROVE  cache'[j].until <= offSince'[j] + UserTTL
        <4>1. j \in Clients /\ Exists(j)
          BY <1>0, <2>1, <2>2, <3>2 DEF Holders, Written, Exists
        <4>2. CASE users[j].active
          BY <1>0, <2>2, <3>2, <4>1, <4>2 DEF Lifetimes
        <4>3. CASE ~ users[j].active
          BY <1>0, <2>2, <3>2, <4>1, <4>3 DEF ChangesAreNoticed
        <4> QED
          BY <4>2, <4>3
      <3> QED
        BY <3>1, <3>2 DEF ChangesAreNoticed
    <2> QED
      BY <2>3, <2>4, <2>5, <2>6 DEF NoticedInv
  <1>5. CASE Tick
    <2>1. /\ now' = now + 1 /\ now < MaxTime /\ UNCHANGED <<users, reading, stale, offSince>>
          /\ \A i \in Ids : reading[i] = NoUser
          /\ \A i \in Ids : token'[i] = IF token[i].exp > now + 1 THEN token[i] ELSE NoToken
          /\ \A i \in Ids : cache'[i] = IF cache[i].until > now + 1 THEN cache[i] ELSE NoAnswer
          /\ token' = [i \in Ids |-> token'[i]] /\ cache' = [i \in Ids |-> cache'[i]]
      BY <1>5 DEF Tick, history
    <2>2. NoAnswer \in [answer : BOOLEAN, until : 0 .. MaxTime + UserTTL + 1]
      BY <1>N DEF NoAnswer
    <2>3. TypeOK'
      BY <1>0, <1>N, <2>1, <2>2 DEF TypeOK
    <2>4. Holders'
      BY <1>0, <2>1, AccountsAssumption DEF Holders, NoToken, NoAnswer
    <2>5. Lifetimes'
      <3>1. \A i \in Ids : cache[i].until \in Nat
        BY <1>0, <1>N DEF TypeOK
      <3>2. \A i \in Ids : token[i].exp \in Nat
        BY <1>0, <1>N DEF TypeOK, Tokens, NoToken
      <3> QED
        BY <1>0, <1>N, <2>1, <3>1, <3>2 DEF Lifetimes, NoToken, NoAnswer
    <2>6. ChangesAreNoticed'
      <3>1. \A i \in Ids : token[i].exp \in Nat
        BY <1>0, <1>N DEF TypeOK, Tokens, NoToken
      <3>2. \A i \in Ids : Valid(i)' => Valid(i) /\ token'[i] = token[i]
        BY <1>N, <2>1, <3>1 DEF Valid, NoToken
      <3>3. \A i \in Ids : cache'[i].answer => cache'[i] = cache[i]
        BY <2>1 DEF NoAnswer
      <3> QED
        BY <1>0, <2>1, <3>2, <3>3 DEF ChangesAreNoticed, Exists
    <2> QED
      BY <2>3, <2>4, <2>5, <2>6 DEF NoticedInv
  <1>6. CASE UNCHANGED vars
    BY <1>0, <1>6 DEF vars, NoticedInv, TypeOK, Holders, Lifetimes, ChangesAreNoticed,
                      Valid, Exists
  <1> QED
    BY <1>1, <1>2, <1>3, <1>4, <1>5, <1>6 DEF Next

LEMMA Noticed == Spec => []NoticedInv
  BY NoticedInit, NoticedStep, PTL DEF Spec

(* For any number of accounts, administrators and tenants: a token keeps a *)
(* role that was taken away for one lifetime at most, and ndr-engine       *)
(* admits a disabled analyst for one lifetime of its answer at most.       *)
THEOREM ChangesAreAlwaysNoticed == Spec => []ChangesAreNoticed
<1>1. NoticedInv => ChangesAreNoticed
  BY DEF NoticedInv
<1> QED
  BY <1>1, Noticed, PTL

(* No sequence of calls of any number of administrators leaves the         *)
(* installation without an active super_admin: every handler spares        *)
(* accounts of that role, Root's among them.                               *)
THEOREM RootAlwaysRemains == Spec => []RootRemains
<1>1. NoticedInv => RootRemains
  BY AccountsAssumption DEF NoticedInv, Holders, RootRemains
<1> QED
  BY <1>1, Noticed, PTL

-----------------------------------------------------------------------------
(* TenantRegistry.                                                         *)

(* What a merge leaves.                                                   *)
LEMMA RemovedAt ==
  ASSUME NEW R, NEW s \in Seq(R), NEW i \in DOMAIN s
  PROVE  LET t == T!RemoveAt(s, i)
         IN /\ t \in Seq(R) /\ Len(t) = Len(s) - 1
            /\ \A k \in DOMAIN t : t[k] = IF k < i THEN s[k] ELSE s[k + 1]
  <1>1. Len(s) \in Nat /\ i \in 1 .. Len(s)
    OBVIOUS
  <1> DEFINE a == SubSeq(s, 1, i - 1)
             b == SubSeq(s, i + 1, Len(s))
  <1>2. /\ a \in Seq(R) /\ Len(a) = i - 1
        /\ \A k \in 1 .. i - 1 : a[k] = s[k]
    BY <1>1, SubSeqProperties
  <1>3. /\ b \in Seq(R) /\ Len(b) = Len(s) - i
        /\ \A k \in 1 .. Len(s) - i : b[k] = s[k + i]
    BY <1>1, SubSeqProperties
  <1>4. T!RemoveAt(s, i) = a \o b
    BY DEF T!RemoveAt
  <1> HIDE DEF a, b
  <1>5. a \o b \in Seq(R) /\ Len(a \o b) = Len(s) - 1
    BY <1>1, <1>2, <1>3
  <1>6. ASSUME NEW k \in 1 .. Len(s) - 1 PROVE (a \o b)[k] = IF k < i THEN s[k] ELSE s[k + 1]
    BY <1>1, <1>2, <1>3, ConcatProperties
  <1>7. DOMAIN (a \o b) = 1 .. Len(s) - 1
    BY <1>1, <1>5
  <1> QED
    BY <1>1, <1>4, <1>5, <1>6, <1>7

(* The row SELECT ... FINAL gives, without a choice.                       *)
Latest(i) ==
  /\ i \in DOMAIN rows
  /\ \A k \in DOMAIN rows : \/ rows[k].ver < rows[i].ver
                            \/ rows[k].ver = rows[i].ver /\ k <= i

(* The values of rows and of statements.                                   *)
TenantRows == [columns : T!Columns, ver : Nat]
TenantJobs == [row : TenantRows, sets : SUBSET T!Names]

RegistryTypes ==
  /\ clock \in Nat \ {0} /\ deactivated \in Nat
  /\ rows \in Seq(TenantRows)
  /\ \A i \in DOMAIN rows : rows[i].ver <= clock
  /\ job \in [Admins -> TenantJobs \cup {NoRow}]
  /\ wanted \in T!Columns
  /\ overlapped \in BOOLEAN /\ tied \in BOOLEAN
  /\ wsGate \in [answer : BOOLEAN, until : 0 .. clock + GateTTL]
  /\ due \in [Sockets -> Nat]

(* One statement at a time, of this second, with what it does not set as   *)
(* it is wanted.                                                           *)
Statements ==
  /\ \A a \in Admins : job[a] # NoRow => job[a].row.ver = clock
  /\ ~ overlapped =>
       /\ \A a, b \in Admins : job[a] # NoRow /\ job[b] # NoRow => a = b
       /\ \A a \in Admins : job[a] # NoRow =>
            \A c \in T!Names \ job[a].sets : job[a].row.columns[c] = wanted[c]

(* The row that counts has the columns that are wanted, and is the newest  *)
(* alone unless two are of one second.                                     *)
Counted ==
  /\ rows # <<>> => \E i \in DOMAIN rows :
       Latest(i) /\ (~ overlapped => rows[i].columns = wanted)
  /\ ~ overlapped /\ rows = <<>> => wanted = T!New
  /\ ~ tied => \A i, k \in DOMAIN rows : rows[i].ver = rows[k].ver => i = k
  /\ wanted.active <=> deactivated = 0

(* How late the WebSockets learn of a deactivation.                        *)
Told ==
  /\ \A k \in Sockets : due[k] # 0 => clock <= due[k] /\ due[k] <= clock + GateTTL
  /\ deactivated # 0 /\ ~ overlapped /\ ~ tied =>
       /\ \A k \in Sockets : due[k] < deactivated + 2 * GateTTL
       /\ wsGate.answer /\ wsGate.until > clock => wsGate.until <= deactivated + GateTTL

RegistryInv == RegistryTypes /\ Statements /\ Counted /\ Told

LEMMA RowTypes ==
  ASSUME NEW s \in Seq(TenantRows), NEW i \in DOMAIN s
  PROVE  i \in Nat /\ s[i] \in TenantRows /\ s[i].ver \in Nat /\ s[i].columns \in T!Columns
  <1>1. i \in Nat /\ s[i] \in TenantRows
    OBVIOUS
  <1> QED
    BY <1>1 DEF TenantRows

LEMMA LatestCounts ==
  ASSUME RegistryTypes, NEW i \in DOMAIN rows, Latest(i)
  PROVE  T!FinalIndex = i /\ T!Final = rows[i].columns
  <1>1. \A k \in DOMAIN rows : k \in Nat /\ rows[k].ver \in Nat
    BY RowTypes DEF RegistryTypes
  <1>2. T!FinalIndex = i
    BY <1>1 DEF T!FinalIndex, Latest
  <1> QED
    BY <1>2 DEF T!Final

(* A statement that repeats what is wanted keeps the invariant.            *)
LEMMA BeginKeeps ==
  ASSUME RegistryInv, NEW a \in Admins, NEW columns \in T!Columns,
         NEW sets \in SUBSET T!Names, T!Begin(a, columns, sets),
         ~ overlapped => \A c \in T!Names \ sets : columns[c] = wanted[c]
  PROVE  RegistryInv'
  <1>0. RegistryTypes /\ Statements /\ Counted /\ Told
    BY DEF RegistryInv
  <1> DEFINE new == [row |-> [columns |-> columns, ver |-> clock], sets |-> sets]
  <1>1. /\ job[a] = NoRow /\ job' = [job EXCEPT ![a] = new]
        /\ overlapped' = (overlapped \/ \E b \in Admins : job[b] # NoRow)
        /\ UNCHANGED <<clock, deactivated, rows, wanted, tied, wsGate, due>>
    BY DEF T!Begin, T!Row, T!Busy, T!readers
  <1>2. /\ new \in TenantJobs /\ new.row.ver = clock /\ new.sets = sets
        /\ new.row.columns = columns
    BY <1>0 DEF RegistryTypes, TenantRows, TenantJobs
  <1> HIDE DEF new
  <1>3. RegistryTypes'
    BY <1>0, <1>1, <1>2 DEF RegistryTypes
  <1>4. Statements'
    <2>1. job'[a] = new /\ \A b \in Admins \ {a} : job'[b] = job[b]
      BY <1>0, <1>1 DEF RegistryTypes
    <2>2. \A b \in Admins : job'[b] # NoRow => job'[b].row.ver = clock'
      BY <1>0, <1>1, <1>2, <2>1 DEF Statements
    <2>3. ~ overlapped' => ~ overlapped /\ \A b \in Admins \ {a} : job'[b] = NoRow
      BY <1>1, <2>1
    <2> QED
      BY <1>1, <1>2, <2>1, <2>2, <2>3 DEF Statements
  <1>5. Counted'
    BY <1>0, <1>1 DEF Counted, Latest
  <1>6. Told'
    BY <1>0, <1>1 DEF Told
  <1> QED
    BY <1>3, <1>4, <1>5, <1>6 DEF RegistryInv

LEMMA RegistryInit == T!Init => RegistryInv
  <1> SUFFICES ASSUME T!Init PROVE RegistryInv
    BY Zenon
  <1> USE RegistryAssumption
  <1>1. /\ clock = 1 /\ job = [a \in Admins |-> NoRow] /\ wanted = T!New
        /\ overlapped = FALSE /\ tied = FALSE /\ deactivated = 0
        /\ wsGate = [answer |-> FALSE, until |-> 0]
        /\ \/ rows = <<>> /\ due = [k \in Sockets |-> 0]
           \/ /\ rows = <<[columns |-> T!New, ver |-> 0]>>
              /\ due \in [Sockets -> 0 .. GateTTL]
    BY DEF T!Init, T!NoAnswer, T!Row
  <1>2. T!New \in T!Columns /\ T!New.active = TRUE
    BY DEF T!New, T!Columns
  <1>3. RegistryTypes
    <2>1. rows \in Seq(TenantRows) /\ \A i \in DOMAIN rows : rows[i].ver <= clock
      <3> DEFINE row == [columns |-> T!New, ver |-> 0]
      <3>1. row \in TenantRows /\ row.ver = 0
        BY <1>2 DEF TenantRows
      <3> HIDE DEF row
      <3>2. rows = <<>> \/ rows = <<row>>
        BY <1>1 DEF row
      <3>3. <<row>> \in Seq(TenantRows) /\ \A i \in DOMAIN <<row>> : <<row>>[i] = row
        BY <3>1
      <3>4. CASE rows = <<>>
        BY <3>4
      <3>5. CASE rows = <<row>>
        BY <1>1, <3>1, <3>3, <3>5
      <3> QED
        BY <3>2, <3>4, <3>5
    <2>2. due \in [Sockets -> Nat]
      BY <1>1
    <2>3. job \in [Admins -> TenantJobs \cup {NoRow}]
      BY <1>1
    <2>4. wsGate \in [answer : BOOLEAN, until : 0 .. clock + GateTTL]
      BY <1>1
    <2>5. clock \in Nat \ {0} /\ deactivated \in Nat /\ wanted \in T!Columns
      BY <1>1, <1>2
    <2>6. overlapped \in BOOLEAN /\ tied \in BOOLEAN
      BY <1>1
    <2> QED
      BY <2>1, <2>2, <2>3, <2>4, <2>5, <2>6 DEF RegistryTypes
  <1>4. Statements
    BY <1>1 DEF Statements
  <1>5. Counted
    BY <1>1, <1>2 DEF Counted, Latest
  <1>6. Told
    BY <1>1 DEF Told
  <1> QED
    BY <1>3, <1>4, <1>5, <1>6 DEF RegistryInv

(* What ndr-engine reads of a deactivated tenant.                          *)
LEMMA FreshAnswer ==
  ASSUME RegistryInv, deactivated # 0, ~ overlapped, ~ tied,
         NEW answer \in BOOLEAN, T!IsTenantActive(answer)
  PROVE  answer = FALSE
  <1>0. RegistryTypes /\ Counted
    BY DEF RegistryInv
  <1>1. wanted.active = FALSE
    BY <1>0 DEF RegistryTypes, Counted, T!Columns
  <1>2. CASE rows = <<>>
    BY <1>0, <1>1, <1>2 DEF Counted, T!New
  <1>3. CASE rows # <<>>
    <2>1. PICK i \in DOMAIN rows : /\ \A k \in DOMAIN rows : rows[k].ver <= rows[i].ver
                                   /\ answer = rows[i].columns.active
      BY <1>3 DEF T!IsTenantActive, T!Exists
    <2>2. PICK l \in DOMAIN rows : Latest(l) /\ rows[l].columns = wanted
      BY <1>0, <1>3 DEF Counted
    <2>3. rows[i].ver \in Nat /\ rows[l].ver \in Nat
      BY <1>0, RowTypes DEF RegistryTypes
    <2>4. rows[i].ver = rows[l].ver
      BY <2>1, <2>2, <2>3 DEF Latest
    <2>5. i = l
      BY <1>0, <2>4 DEF Counted
    <2> QED
      BY <1>1, <2>1, <2>2, <2>5
  <1> QED
    BY <1>2, <1>3

LEMMA RegistryStep == RegistryInv /\ [T!Next]_T!vars => RegistryInv'
  <1> SUFFICES ASSUME RegistryInv, [T!Next]_T!vars PROVE RegistryInv'
    BY Zenon
  <1> USE RegistryAssumption
  <1>0. RegistryTypes /\ Statements /\ Counted /\ Told
    BY DEF RegistryInv
  <1>1. ASSUME NEW a \in Admins, T!CreateTenant(a) PROVE RegistryInv'
    <2>1. T!New \in T!Columns /\ T!Names \in SUBSET T!Names
      BY DEF T!New, T!Columns
    <2> QED
      BY <1>1, <2>1, BeginKeeps DEF T!CreateTenant
  <1>2. ASSUME NEW a \in Admins, NEW b \in BOOLEAN, T!DbSetTenantActive(a, b)
        PROVE  RegistryInv'
    <2>1. PICK i \in DOMAIN rows : Latest(i) /\ (~ overlapped => rows[i].columns = wanted)
      BY <1>0, <1>2 DEF Counted, T!DbSetTenantActive, T!Exists
    <2>2. T!Final = rows[i].columns /\ T!Final \in T!Columns
      BY <1>0, <2>1, LatestCounts, RowTypes DEF RegistryTypes
    <2> DEFINE columns == [T!Final EXCEPT !.active = b]
    <2>3. columns \in T!Columns /\ columns["features"] = T!Final["features"]
      BY <2>2 DEF T!Columns
    <2>4. T!Begin(a, columns, {"active"})
      BY <1>2 DEF T!DbSetTenantActive
    <2> HIDE DEF columns
    <2> QED
      BY <2>1, <2>2, <2>3, <2>4, BeginKeeps DEF T!Names
  <1>3. ASSUME NEW a \in Admins, NEW f \in Features, T!SetTenantFeatures(a, f)
        PROVE  RegistryInv'
    <2>1. PICK i \in DOMAIN rows : Latest(i) /\ (~ overlapped => rows[i].columns = wanted)
      BY <1>0, <1>3 DEF Counted, T!SetTenantFeatures, T!Exists
    <2>2. T!Final = rows[i].columns /\ T!Final \in T!Columns
      BY <1>0, <2>1, LatestCounts, RowTypes DEF RegistryTypes
    <2> DEFINE columns == [T!Final EXCEPT !.features = f]
    <2>3. columns \in T!Columns /\ columns["active"] = T!Final["active"]
      BY <2>2 DEF T!Columns
    <2>4. T!Begin(a, columns, {"features"})
      BY <1>3 DEF T!SetTenantFeatures
    <2> HIDE DEF columns
    <2> QED
      BY <2>1, <2>2, <2>3, <2>4, BeginKeeps DEF T!Names
  <1>4. ASSUME NEW a \in Admins, T!Insert(a) PROVE RegistryInv'
    <2>1. PICK r \in TenantRows, n \in Nat :
            /\ r = job[a].row /\ r.ver = clock /\ n = Len(rows) /\ job[a] # NoRow
            /\ rows' = Append(rows, r)
      <3>1. job[a] \in TenantJobs /\ job[a] # NoRow /\ rows' = Append(rows, job[a].row)
        BY <1>0, <1>4 DEF T!Insert, RegistryTypes
      <3>2. job[a].row \in TenantRows /\ job[a].row.ver = clock /\ Len(rows) \in Nat
        BY <1>0, <3>1 DEF Statements, TenantJobs, RegistryTypes
      <3> QED
        BY <3>1, <3>2
    <2>2. /\ job' = [job EXCEPT ![a] = NoRow]
          /\ wanted' = [c \in T!Names |-> IF c \in job[a].sets THEN r.columns[c]
                                                              ELSE wanted[c]]
          /\ tied' = (tied \/ \E i \in DOMAIN rows : rows[i].ver = r.ver)
          /\ deactivated' = CASE wanted'.active -> 0
                              [] ~ wanted'.active /\ wanted.active -> clock
                              [] OTHER -> deactivated
          /\ UNCHANGED <<clock, overlapped, wsGate, due>>
      BY <1>4, <2>1 DEF T!Insert, T!readers
    <2>3. wanted' \in T!Columns
      BY <1>0, <2>1, <2>2 DEF RegistryTypes, TenantRows, T!Columns, T!Names
    <2>4. ~ overlapped => wanted' = r.columns
      BY <1>0, <2>1, <2>2, <2>3 DEF RegistryTypes, TenantRows, Statements, T!Columns, T!Names
    <2>5. /\ rows' \in Seq(TenantRows)
          /\ DOMAIN rows = 1 .. n /\ DOMAIN rows' = 1 .. n + 1 /\ rows'[n + 1] = r
          /\ \A i \in 1 .. n : rows'[i] = rows[i]
          /\ \A i \in 1 .. n : rows[i].ver \in Nat /\ rows[i].ver <= clock
      <3>1. rows \in Seq(TenantRows)
        BY <1>0 DEF RegistryTypes
      <3>2. DOMAIN rows = 1 .. n
        BY <2>1, <3>1
      <3>3. \A i \in 1 .. n : rows[i].ver \in Nat /\ rows[i].ver <= clock
        BY <1>0, <3>1, <3>2, RowTypes DEF RegistryTypes
      <3> QED
        BY <2>1, <3>1, <3>2, <3>3
    <2>6. deactivated' \in Nat /\ (wanted'.active <=> deactivated' = 0)
      BY <1>0, <2>2, <2>3 DEF RegistryTypes, Counted, T!Columns
    <2>7. RegistryTypes'
      <3>1. \A i \in DOMAIN rows' : rows'[i].ver <= clock
        <4>1. clock \in Nat
          BY <1>0 DEF RegistryTypes
        <4> QED
          BY <2>1, <2>5, <4>1
      <3>2. job' \in [Admins -> TenantJobs \cup {NoRow}]
        BY <1>0, <2>2 DEF RegistryTypes
      <3>3. tied' \in BOOLEAN
        BY <2>2
      <3> QED
        BY <1>0, <2>2, <2>3, <2>5, <2>6, <3>1, <3>2, <3>3 DEF RegistryTypes
    <2>8. Statements'
      BY <1>0, <2>1, <2>2 DEF RegistryTypes, Statements
    <2>9. Counted'
      <3>1. Latest(n + 1)'
        BY <1>0, <2>1, <2>2, <2>5 DEF Latest, RegistryTypes
      <3>2. n + 1 \in DOMAIN rows' /\ rows' # <<>>
        BY <2>5
      <3>3. ~ tied' => \A i, k \in DOMAIN rows' : rows'[i].ver = rows'[k].ver => i = k
        <4>1. \A i \in 1 .. n : ~ tied' => rows[i].ver # r.ver
          BY <2>2, <2>5
        <4>2. ASSUME NEW i \in 1 .. n + 1, NEW k \in 1 .. n + 1, ~ tied',
                     rows'[i].ver = rows'[k].ver
              PROVE  i = k
          <5>1. CASE i \in 1 .. n /\ k \in 1 .. n
            BY <1>0, <2>2, <2>5, <4>2, <5>1 DEF Counted
          <5>2. CASE i = n + 1 \/ k = n + 1
            BY <2>5, <4>1, <4>2, <5>2
          <5> QED
            BY <5>1, <5>2
        <4> QED
          BY <2>5, <4>2
      <3> QED
        BY <2>2, <2>4, <2>5, <2>6, <3>1, <3>2, <3>3 DEF Counted
    <2>10. Told'
      <3>1. \A k \in Sockets : due'[k] # 0 => clock' <= due'[k] /\ due'[k] <= clock' + GateTTL
        BY <1>0, <2>2 DEF Told
      <3>2. ~ overlapped' /\ ~ tied' => ~ overlapped /\ ~ tied
        BY <2>2
      <3>3. deactivated' # 0 => 
                deactivated' = clock \/ (deactivated # 0 /\ deactivated' = deactivated)
        <4>1. wanted'.active \in BOOLEAN /\ wanted.active \in BOOLEAN
          BY <1>0, <2>3 DEF RegistryTypes, T!Columns
        <4>2. CASE wanted'.active
          BY <2>2, <4>2
        <4>3. CASE ~ wanted'.active /\ wanted.active
          BY <2>2, <4>1, <4>3
        <4>4. CASE ~ wanted'.active /\ ~ wanted.active
          <5>1. deactivated' = deactivated
            BY <2>2, <4>4
          <5> QED
            BY <5>1
        <4> QED
          BY <4>1, <4>2, <4>3, <4>4
      <3>4. \A k \in Sockets : due[k] \in Nat /\ due[k] < clock + 2 * GateTTL
        BY <1>0 DEF Told, RegistryTypes
      <3>5. wsGate.until \in Nat /\ wsGate.until <= clock + GateTTL /\ clock \in Nat
        BY <1>0 DEF RegistryTypes
      <3> QED
        BY <1>0, <2>2, <3>1, <3>2, <3>3, <3>4, <3>5 DEF Told
    <2> QED
      BY <2>7, <2>8, <2>9, <2>10 DEF RegistryInv
  <1>5. CASE T!Merge
    <2>1. /\ rows # <<>> /\ UNCHANGED <<clock, deactivated, job, wanted, overlapped, tied, wsGate, due>>
          /\ \E x \in DOMAIN rows \ {T!FinalIndex} : rows' = T!RemoveAt(rows, x)
      BY <1>5 DEF T!Merge, T!Exists, T!history, T!readers
    <2>2. PICK l \in DOMAIN rows : Latest(l) /\ (~ overlapped => rows[l].columns = wanted)
      BY <1>0, <2>1 DEF Counted
    <2>3. PICK x \in DOMAIN rows : x # l /\ rows' = T!RemoveAt(rows, x)
      BY <1>0, <2>1, <2>2, LatestCounts
    <2>4. PICK n \in Nat :
            /\ DOMAIN rows = 1 .. n /\ DOMAIN rows' = 1 .. n - 1
            /\ rows' \in Seq(TenantRows)
            /\ \A k \in 1 .. n - 1 : rows'[k] = IF k < x THEN rows[k] ELSE rows[k + 1]
            /\ \A k \in 1 .. n : rows[k].ver \in Nat /\ rows[k].ver <= clock
      <3>1. rows \in Seq(TenantRows)
        BY <1>0 DEF RegistryTypes
      <3>2. Len(rows) \in Nat /\ DOMAIN rows = 1 .. Len(rows)
        BY <3>1
      <3>3. \A k \in DOMAIN rows : rows[k].ver \in Nat /\ rows[k].ver <= clock
        BY <1>0, <3>1, RowTypes DEF RegistryTypes
      <3>4. /\ rows' \in Seq(TenantRows) /\ Len(rows') = Len(rows) - 1
            /\ \A k \in DOMAIN rows' : rows'[k] = IF k < x THEN rows[k] ELSE rows[k + 1]
        BY <2>3, <3>1, RemovedAt
      <3>5. DOMAIN rows' = 1 .. Len(rows) - 1
        BY <3>4
      <3> QED
        BY <3>2, <3>3, <3>4, <3>5
    <2>5. RegistryTypes'
      BY <1>0, <2>1, <2>4 DEF RegistryTypes
    <2>6. Statements'
      BY <1>0, <2>1 DEF Statements
    <2>7. Counted'
      <3> DEFINE m == IF l < x THEN l ELSE l - 1
      <3>1. m \in 1 .. n - 1 /\ rows'[m] = rows[l]
        BY <2>3, <2>4
      <3>2. ASSUME NEW k \in 1 .. n - 1
            PROVE  rows'[k].ver < rows[l].ver \/ (rows'[k].ver = rows[l].ver /\ k <= m)
        <4>1. CASE k < x
          <5>1. rows'[k] = rows[k] /\ k \in 1 .. n
            BY <2>4, <4>1
          <5> QED
            BY <2>2, <2>3, <2>4, <4>1, <5>1 DEF Latest
        <4>2. CASE ~ k < x
          <5>1. rows'[k] = rows[k + 1] /\ k + 1 \in 1 .. n
            BY <2>4, <4>2
          <5>2. rows[k + 1].ver < rows[l].ver \/ (rows[k + 1].ver = rows[l].ver /\ k + 1 <= l)
            BY <2>2, <2>4, <5>1 DEF Latest
          <5>3. k + 1 <= l => k <= m
            BY <2>3, <2>4, <4>2
          <5> QED
            BY <5>1, <5>2, <5>3
        <4> QED
          BY <4>1, <4>2
      <3>3. ~ tied => \A i, k \in 1 .. n - 1 : rows'[i].ver = rows'[k].ver => i = k
        <4> DEFINE from(i) == IF i < x THEN i ELSE i + 1
        <4>1. \A i \in 1 .. n - 1 : from(i) \in 1 .. n /\ rows'[i] = rows[from(i)]
          BY <2>4
        <4>2. \A i, k \in 1 .. n - 1 : from(i) = from(k) => i = k
          BY <2>3, <2>4
        <4> HIDE DEF from
        <4> QED
          BY <1>0, <2>4, <4>1, <4>2 DEF Counted
      <3> HIDE DEF m
      <3>4. Latest(m)'
        BY <2>4, <3>1, <3>2 DEF Latest
      <3>5. m \in DOMAIN rows' /\ rows' # <<>> /\ (~ overlapped => rows'[m].columns = wanted)
        BY <2>2, <2>4, <3>1
      <3>6. ~ tied => \A i, k \in DOMAIN rows' : rows'[i].ver = rows'[k].ver => i = k
        BY <2>4, <3>3
      <3> QED
        BY <1>0, <2>1, <3>4, <3>5, <3>6 DEF Counted
    <2>8. Told'
      BY <1>0, <2>1 DEF Told
    <2> QED
      BY <2>5, <2>6, <2>7, <2>8 DEF RegistryInv
  <1>6. ASSUME NEW k \in Sockets, T!Connect(k) PROVE RegistryInv'
    <2>1. /\ due' = [due EXCEPT ![k] = clock + GateTTL] /\ T!IsTenantActive(TRUE)
          /\ UNCHANGED <<clock, deactivated, rows, job, wanted, overlapped, tied, wsGate>>
      BY <1>6 DEF T!Connect, T!history
    <2>2. ~ (deactivated # 0 /\ ~ overlapped /\ ~ tied)
      BY <2>1, FreshAnswer
    <2>3. RegistryTypes' /\ Statements' /\ Counted'
      BY <1>0, <2>1 DEF RegistryTypes, Statements, Counted, Latest
    <2>4. Told'
      BY <1>0, <2>1, <2>2 DEF RegistryTypes, Told
    <2> QED
      BY <2>3, <2>4 DEF RegistryInv
  <1>7. ASSUME NEW k \in Sockets, T!ShouldForceDisconnect(k) PROVE RegistryInv'
    <2>1. /\ due[k] = clock
          /\ UNCHANGED <<clock, deactivated, rows, job, wanted, overlapped, tied>>
      BY <1>7 DEF T!ShouldForceDisconnect, T!history
    <2>2. Statements' /\ Counted'
      BY <1>0, <2>1 DEF Statements, Counted, Latest
    <2>3. CASE /\ wsGate.until > clock /\ wsGate' = wsGate
               /\ due' = [due EXCEPT ![k] = IF wsGate.answer THEN clock + GateTTL ELSE 0]
      <3>1. RegistryTypes'
        BY <1>0, <2>1, <2>3 DEF RegistryTypes
      <3>2. Told'
        BY <1>0, <2>1, <2>3 DEF RegistryTypes, Told
      <3> QED
        BY <2>2, <3>1, <3>2 DEF RegistryInv
    <2>4. ASSUME NEW answer \in BOOLEAN, T!IsTenantActive(answer),
                 wsGate' = [answer |-> answer, until |-> clock + GateTTL],
                 due' = [due EXCEPT ![k] = IF answer THEN clock + GateTTL ELSE 0]
          PROVE  RegistryInv'
      <3>1. wsGate'.answer = answer /\ wsGate' \in [answer : BOOLEAN, until : 0 .. clock + GateTTL]
        BY <1>0, <2>4 DEF RegistryTypes
      <3>2. RegistryTypes'
        BY <1>0, <2>1, <2>4, <3>1 DEF RegistryTypes
      <3>3. deactivated # 0 /\ ~ overlapped /\ ~ tied => answer = FALSE
        BY <2>4, FreshAnswer
      <3>4. Told'
        BY <1>0, <2>1, <2>4, <3>1, <3>3 DEF RegistryTypes, Told
      <3> QED
        BY <2>2, <3>2, <3>4 DEF RegistryInv
    <2> QED
      BY <1>7, <2>3, <2>4 DEF T!ShouldForceDisconnect, T!Stay, T!Cached
  <1>8. CASE T!Tick
    <2>1. /\ clock' = clock + 1 /\ \A a \in Admins : job[a] = NoRow
          /\ \A k \in Sockets : due[k] # clock
          /\ wsGate' = IF wsGate.until > clock + 1 THEN wsGate ELSE [answer |-> FALSE, until |-> 0]
          /\ UNCHANGED <<deactivated, rows, job, wanted, overlapped, tied, due>>
      BY <1>8 DEF T!Tick, T!Busy, T!history, T!NoAnswer
    <2>2. wsGate' \in [answer : BOOLEAN, until : 0 .. clock' + GateTTL]
      BY <1>0, <2>1 DEF RegistryTypes
    <2>3. RegistryTypes'
      <3>1. \A i \in DOMAIN rows : rows[i].ver \in Nat /\ rows[i].ver <= clock
        BY <1>0, RowTypes DEF RegistryTypes
      <3> QED
        BY <1>0, <2>1, <2>2, <3>1 DEF RegistryTypes
    <2>4. Statements' /\ Counted'
      BY <1>0, <2>1 DEF Statements, Counted, Latest
    <2>5. Told'
      BY <1>0, <2>1 DEF RegistryTypes, Told
    <2> QED
      BY <2>3, <2>4, <2>5 DEF RegistryInv
  <1>9. ASSUME (\E answer \in BOOLEAN : T!Login(answer)) \/ UNCHANGED T!vars PROVE RegistryInv'
    <2>1. UNCHANGED <<clock, deactivated, rows, job, wanted, overlapped, tied, wsGate, due>>
      BY <1>9 DEF T!Login, T!vars, T!history, T!readers
    <2> QED
      BY <1>0, <2>1 DEF RegistryInv, RegistryTypes, Statements, Counted, Latest, Told
  <1> QED
    BY <1>1, <1>2, <1>3, <1>4, <1>5, <1>6, <1>7, <1>8, <1>9
       DEF T!Next, T!UpdateTenant, T!SetStatus

LEMMA RegistryKeeps == RegistryInv => ChangesTakeHold
  <1> SUFFICES ASSUME RegistryInv PROVE ChangesTakeHold
    BY Zenon
  <1>0. RegistryTypes /\ Counted /\ Told
    BY DEF RegistryInv
  <1>1. T!ChangesAreKept
    BY <1>0, LatestCounts DEF T!ChangesAreKept, T!Exists, Counted
  <1>2. T!DeactivationReaches
    BY <1>0, RegistryAssumption DEF T!DeactivationReaches, RegistryTypes, Told
  <1> QED
    BY <1>1, <1>2 DEF ChangesTakeHold, T!ChangesTakeHold

(* For any number of administrators, WebSockets and changes: changes of a  *)
(* tenant made one after the other are all kept, and a deactivation        *)
(* reaches its WebSockets within two lifetimes of the shared answer.       *)
THEOREM TenantChangesTakeHold == T!Spec => []ChangesTakeHold
<1> QED
  BY RegistryInit, RegistryStep, RegistryKeeps, PTL DEF T!Spec

-----------------------------------------------------------------------------
(* Sessions.                                                               *)

(* A token nobody but the request that makes it can name: not created, or  *)
(* not yet in a set of ndr-engine's.                                       *)
Hidden(j) ==
  \/ S!Unused(j)
  \/ \E w \in Workers : /\ req[w].at \in {"auth_hash", "ndr_hash", "ndr_set"}
                        /\ req[w].jti = j

(* A request that will report the end of r.old.                            *)
Ends(r) == r.at \in {"revoke", "revoke_rest"} /\ r.next # "evict"

(* A token that is handed out, listed, reported, or about to be.           *)
Known(j) ==
  \/ j \in sessionIssued \cup ndrSet \cup over
  \/ \E w \in Workers : \/ req[w].at = "force" /\ j \in req[w].todo
                        \/ Ends(req[w]) /\ req[w].old = j

SessionTypes ==
  /\ sessionClock \in Nat \ {0}
  /\ loginAt \in [Jtis -> Nat]
  /\ authSession \in [Jtis -> Nat]
  /\ ndrSession \in [Jtis -> Nat]
  /\ authSet \subseteq Jtis /\ ndrSet \subseteq Jtis
  /\ sessionIssued \subseteq Jtis /\ over \subseteq Jtis
  /\ req \in [Workers -> S!Requests]

Carries(r) ==
  \/ r.at \in {"auth_hash", "ndr_hash", "ndr_set", "cap", "evict"}
  \/ r.at \in {"revoke", "revoke_rest"} /\ r.next = "evict"

(* What a request has to have with it at each of its steps.                *)
Sound(r) ==
  /\ Carries(r) => r.jti \in Jtis
  /\ r.at \in {"revoke", "revoke_rest"} => r.old \in Jtis
  /\ r.jti \in Jtis => loginAt[r.jti] # 0
  /\ r.at = "auth_hash" => loginAt[r.jti] = sessionClock
  /\ r.at = "revoke_rest" /\ r.next # "evict" => authSession[r.old] <= sessionClock

Requested ==
  /\ \A w \in Workers : Sound(req[w])
  /\ \A v, w \in Workers : v # w /\ req[v].jti = req[w].jti => req[w].jti = NoJti

Apart == \A j \in Jtis : Known(j) => ~ Hidden(j)

SessionsInv == SessionTypes /\ Requested /\ Apart /\ SessionsEnd

(* A request moves on to r, and nobody's session comes to life again.      *)
LEMMA MovesOn ==
  ASSUME SessionTypes, Requested,
         NEW w \in Workers, NEW r \in S!Requests, req' = [req EXCEPT ![w] = r],
         r.jti = req[w].jti \/ r.jti = NoJti, Sound(r)',
         UNCHANGED <<loginAt, sessionClock>>,
         \A v \in Workers \ {w} : Ends(req[v]) /\ authSession[req[v].old] <= sessionClock
                             => authSession'[req[v].old] <= sessionClock
  PROVE  req' \in [Workers -> S!Requests] /\ Requested'
  <1>1. req' \in [Workers -> S!Requests]
    BY DEF SessionTypes
  <1>2. req'[w] = r /\ \A v \in Workers \ {w} : req'[v] = req[v]
    BY DEF SessionTypes
  <1>3. ASSUME NEW v \in Workers PROVE Sound(req[v])'
    BY <1>2 DEF Sound, Requested, Carries, Ends
  <1>4. ASSUME NEW u \in Workers, NEW v \in Workers, u # v, req'[u].jti = req'[v].jti
        PROVE  req'[v].jti = NoJti
    BY <1>2, <1>4 DEF Requested
  <1> QED
    BY <1>1, <1>3, <1>4 DEF Requested

(* What it knows of then was known, or is hidden no more.                  *)
LEMMA StaysApart ==
  ASSUME SessionTypes, Apart,
         NEW w \in Workers, NEW r \in S!Requests, req' = [req EXCEPT ![w] = r],
         UNCHANGED loginAt,
         \A j \in Jtis : r.at \in {"auth_hash", "ndr_hash", "ndr_set"} /\ r.jti = j
                           => req[w].jti = j /\ req[w].at \in {"auth_hash", "ndr_hash", "ndr_set"},
         \A j \in Jtis : (r.at = "force" /\ j \in r.todo) \/ (Ends(r) /\ r.old = j)
                           => Known(j),
         \A j \in (sessionIssued \cup ndrSet \cup over)' :
            Known(j) \/ (j \in Jtis => ~ Hidden(j)')
  PROVE  Apart'
  <1>2. req'[w] = r /\ \A v \in Workers \ {w} : req'[v] = req[v]
    BY DEF SessionTypes
  <1>3. ASSUME NEW j \in Jtis, Hidden(j)' PROVE Hidden(j)
    BY <1>2, <1>3 DEF Hidden, S!Unused
  <1>4. ASSUME NEW j \in Jtis, Known(j)', Hidden(j)' PROVE Known(j)
    <2>1. CASE j \in (sessionIssued \cup ndrSet \cup over)'
      BY <2>1, <1>4
    <2>2. CASE \E v \in Workers : \/ req'[v].at = "force" /\ j \in req'[v].todo
                                  \/ Ends(req'[v]) /\ req'[v].old = j
      BY <2>2, <1>2 DEF Known
    <2> QED
      BY <1>4, <2>1, <2>2 DEF Known, Ends
  <1> QED
    BY <1>3, <1>4 DEF Apart

LEMMA SessionsInit == S!Init => SessionsInv
  <1> SUFFICES ASSUME S!Init PROVE SessionsInv
    BY Zenon
  <1> USE SessionsAssumption DEF S!Init
  <1>1. S!Idle \in S!Requests
    BY DEF S!Idle, S!Requests, S!Steps, S!Afterwards
  <1>2. \A w \in Workers : req[w] = S!Idle
    OBVIOUS
  <1>3. SessionTypes
    BY <1>1 DEF SessionTypes
  <1>4. Requested
    BY <1>2 DEF Requested, Sound, Carries, S!Idle
  <1>5. Apart
    BY <1>2 DEF Apart, Known, Hidden, S!Unused, Ends, S!Idle
  <1>6. SessionsEnd
    BY DEF SessionsEnd, S!SessionsEnd, S!OverInBoth, S!SlidingIsBounded
  <1> QED
    BY <1>3, <1>4, <1>5, <1>6 DEF SessionsInv
LEMMA SessionsStep == SessionsInv /\ [S!Next]_S!vars => SessionsInv'
  <1> SUFFICES ASSUME SessionsInv, [S!Next]_S!vars PROVE SessionsInv'
    BY Zenon
  <1>0. SessionTypes /\ Requested /\ Apart /\ SessionsEnd
    BY DEF SessionsInv
  <1>1. ASSUME NEW w \in Workers, S!Login(w) PROVE SessionsInv'
    <2>1. PICK r \in S!Requests :
          /\ req' = [req EXCEPT ![w] = r] /\ req[w].at = "idle"
          /\ r.at = "create" /\ r.jti = NoJti
          /\ UNCHANGED <<sessionClock, loginAt, authSession, ndrSession, authSet, ndrSet, sessionIssued, over>>
      <3> DEFINE new == [S!Idle EXCEPT !.at = "create"]
      <3>0. req[w].at = "idle"
        BY <1>1 DEF S!Login, S!Become, S!Now, S!sets
      <3>1. new \in S!Requests /\ new.at = "create" /\ new.jti = NoJti
        BY <1>0, <3>0 DEF SessionTypes, S!Requests, S!Steps, S!Afterwards, S!Idle
      <3> QED
        BY <1>1, <3>1 DEF S!Login, S!Become, S!Now, S!sets
    <2>2. Sound(r)'
      BY <1>0, <2>1, SessionsAssumption DEF SessionTypes, Requested, Sound, Carries
    <2>3. req' \in [Workers -> S!Requests] /\ Requested'
      BY <1>0, <2>1, <2>2, MovesOn DEF SessionTypes
    <2>4. SessionTypes'
      BY <1>0, <2>1, <2>3, SessionsAssumption DEF SessionTypes
    <2>5. Apart'
      BY <1>0, <2>1, StaysApart DEF Ends, Known
    <2>6. SessionsEnd'
      BY <1>0, <2>1, SessionsAssumption DEF SessionTypes, SessionsEnd, S!SessionsEnd,
        S!OverInBoth, S!SlidingIsBounded, S!InAuth, S!InNdr
    <2> QED
      BY <2>3, <2>4, <2>5, <2>6 DEF SessionsInv
  <1>2. ASSUME NEW w \in Workers, NEW j \in Jtis, S!CreateToken(w, j) PROVE SessionsInv'
    <2>1. PICK r \in S!Requests :
          /\ req' = [req EXCEPT ![w] = r] /\ S!Unused(j)
          /\ r.at = "auth_hash" /\ r.jti = j
          /\ loginAt' = [loginAt EXCEPT ![j] = sessionClock]
          /\ UNCHANGED <<sessionClock, authSession, ndrSession, authSet, ndrSet, sessionIssued, over>>
      <3> DEFINE new == [S!Idle EXCEPT !.at = "auth_hash", !.jti = j]
      <3>1. new \in S!Requests /\ new.at = "auth_hash" /\ new.jti = j
        BY DEF S!Requests, S!Steps, S!Afterwards, S!Idle
      <3> QED
        BY <1>2, <3>1 DEF S!CreateToken, S!Become, S!Now, S!sets
    <2>2. /\ req'[w] = r /\ \A v \in Workers \ {w} : req'[v] = req[v]
          /\ loginAt'[j] = sessionClock /\ \A k \in Jtis \ {j} : loginAt'[k] = loginAt[k]
      BY <1>0, <2>1 DEF SessionTypes
    <2>3. \A v \in Workers : req[v].jti # j
      BY <1>0, <2>1 DEF Requested, Sound, S!Unused
    <2>4. SessionTypes'
      BY <1>0, <2>1 DEF SessionTypes
    <2>5. Requested'
      <3>1. ASSUME NEW v \in Workers PROVE Sound(req[v])'
        <4>1. CASE v = w
          BY <1>0, <2>1, <2>2, <4>1, SessionsAssumption DEF SessionTypes, Sound, Carries
        <4>2. CASE v # w
          BY <1>0, <2>1, <2>2, <2>3, <4>2 DEF SessionTypes, Requested, Sound, Carries
        <4> QED
          BY <4>1, <4>2
      <3>2. ASSUME NEW u \in Workers, NEW v \in Workers, u # v, req'[u].jti = req'[v].jti
            PROVE  req'[v].jti = NoJti
        BY <1>0, <2>1, <2>2, <2>3, <3>2 DEF Requested
      <3> QED
        BY <3>1, <3>2 DEF Requested
    <2>6. Apart'
      <3>1. ~ Known(j)
        BY <1>0, <2>1 DEF Apart, Hidden
      <3>2. \A k \in Jtis : Known(k)' => Known(k)
        BY <2>1, <2>2 DEF Known, Ends
      <3>3. \A k \in Jtis : k # j /\ Hidden(k)' => Hidden(k)
        BY <2>1, <2>2 DEF Hidden, S!Unused
      <3> QED
        BY <1>0, <3>1, <3>2, <3>3 DEF Apart
    <2>7. SessionsEnd'
      <3>1. \A k \in Jtis : loginAt[k] \in Nat /\ loginAt'[k] >= loginAt[k]
        BY <1>0, <2>1, <2>2 DEF SessionTypes, S!Unused
      <3> QED
        BY <1>0, <2>1, <2>4, <3>1, SessionsAssumption DEF SessionTypes, SessionsEnd, S!SessionsEnd,
          S!OverInBoth, S!SlidingIsBounded, S!InAuth, S!InNdr
    <2> QED
      BY <2>4, <2>5, <2>6, <2>7 DEF SessionsInv
  <1>3. ASSUME NEW w \in Workers, S!PutAuthSession(w) PROVE SessionsInv'
    <2>0. req[w].jti \in Jtis /\ loginAt[req[w].jti] = sessionClock /\ ~ Known(req[w].jti)
      BY <1>0, <1>3 DEF S!PutAuthSession, S!Goto, S!Now, S!sets, SessionTypes, Requested, Sound, Carries, Apart, Hidden
    <2>1. PICK r \in S!Requests :
          /\ req' = [req EXCEPT ![w] = r] /\ req[w].at = "auth_hash"
          /\ r.at = "ndr_hash" /\ r.jti = req[w].jti
          /\ authSession' = [authSession EXCEPT ![req[w].jti] = sessionClock + SessionTTL]
          /\ authSet' = authSet \cup {req[w].jti}
          /\ UNCHANGED <<sessionClock, loginAt, ndrSession, ndrSet, sessionIssued, over>>
      <3> DEFINE new == [req[w] EXCEPT !.at = "ndr_hash"]
      <3>0. req[w].at = "auth_hash"
        BY <1>3 DEF S!PutAuthSession, S!Goto, S!Now, S!sets
      <3>1. new \in S!Requests /\ new.at = "ndr_hash" /\ new.jti = req[w].jti
        BY <1>0, <3>0, <2>0 DEF SessionTypes, S!Requests, S!Steps, S!Afterwards, S!Idle
      <3> QED
        BY <1>3, <3>1 DEF S!PutAuthSession, S!Goto, S!Now, S!sets
    <2>2. Sound(r)'
      BY <1>0, <2>1, <2>0 DEF SessionTypes, Requested, Sound, Carries
    <2>3. req' \in [Workers -> S!Requests] /\ Requested'
      <3>1. \A j \in Jtis : Known(j) => authSession'[j] = authSession[j]
        BY <1>0, <2>1, <2>0 DEF SessionTypes
      <3>2. \A v \in Workers : Ends(req[v]) => req[v].old \in Jtis /\ Known(req[v].old)
        BY <1>0 DEF Known, Ends, Requested, Sound
      <3> QED
        BY <1>0, <2>1, <2>2, <3>1, <3>2, MovesOn DEF SessionTypes
    <2>4. SessionTypes'
      BY <1>0, <2>1, <2>3, <2>0, SessionsAssumption DEF SessionTypes
    <2>5. Apart'
      BY <1>0, <2>1, <2>0, StaysApart DEF Ends, Known
    <2>6. SessionsEnd'
      <3>1. \A j \in Jtis : j # req[w].jti => authSession'[j] = authSession[j]
        BY <1>0, <2>1, <2>0 DEF SessionTypes
      <3>2. authSession'[req[w].jti] = sessionClock + SessionTTL /\ req[w].jti \notin over
        BY <1>0, <2>1, <2>0 DEF SessionTypes, Known
      <3> QED
        BY <1>0, <2>1, <2>0, <3>1, <3>2, SessionsAssumption DEF SessionTypes, SessionsEnd, S!SessionsEnd,
          S!OverInBoth, S!SlidingIsBounded, S!InAuth, S!InNdr
    <2> QED
      BY <2>3, <2>4, <2>5, <2>6 DEF SessionsInv
  <1>4. ASSUME NEW w \in Workers, S!PutNdrSession(w) PROVE SessionsInv'
    <2>0. req[w].jti \in Jtis /\ ~ Known(req[w].jti)
      BY <1>0, <1>4 DEF S!PutNdrSession, S!Goto, S!Now, S!sets, SessionTypes, Requested, Sound, Carries, Apart, Hidden
    <2>1. PICK r \in S!Requests :
          /\ req' = [req EXCEPT ![w] = r] /\ req[w].at = "ndr_hash"
          /\ r.at = "ndr_set" /\ r.jti = req[w].jti
          /\ ndrSession' = [ndrSession EXCEPT ![req[w].jti] = sessionClock + SessionTTL]
          /\ UNCHANGED <<sessionClock, loginAt, authSession, authSet, ndrSet, sessionIssued, over>>
      <3> DEFINE new == [req[w] EXCEPT !.at = "ndr_set"]
      <3>0. req[w].at = "ndr_hash"
        BY <1>4 DEF S!PutNdrSession, S!Goto, S!Now, S!sets
      <3>1. new \in S!Requests /\ new.at = "ndr_set" /\ new.jti = req[w].jti
        BY <1>0, <3>0, <2>0 DEF SessionTypes, S!Requests, S!Steps, S!Afterwards, S!Idle
      <3> QED
        BY <1>4, <3>1 DEF S!PutNdrSession, S!Goto, S!Now, S!sets
    <2>2. Sound(r)'
      BY <1>0, <2>1, <2>0 DEF SessionTypes, Requested, Sound, Carries
    <2>3. req' \in [Workers -> S!Requests] /\ Requested'
      BY <1>0, <2>1, <2>2, <2>0, MovesOn DEF SessionTypes
    <2>4. SessionTypes'
      BY <1>0, <2>1, <2>3, <2>0, SessionsAssumption DEF SessionTypes
    <2>5. Apart'
      BY <1>0, <2>1, <2>0, StaysApart DEF Ends, Known
    <2>6. SessionsEnd'
      <3>1. \A j \in over : j \in Jtis /\ ndrSession'[j] = ndrSession[j]
        BY <1>0, <2>1, <2>0 DEF SessionTypes, Known
      <3> QED
        BY <1>0, <2>1, <3>1 DEF SessionTypes, SessionsEnd, S!SessionsEnd,
          S!OverInBoth, S!SlidingIsBounded, S!InAuth, S!InNdr
    <2> QED
      BY <2>3, <2>4, <2>5, <2>6 DEF SessionsInv
  <1>5. ASSUME NEW w \in Workers, S!ListNdrSession(w) PROVE SessionsInv'
    <2>0. req[w].jti \in Jtis /\ loginAt[req[w].jti] # 0
      BY <1>0, <1>5 DEF S!ListNdrSession, S!Goto, S!Now, S!sets, SessionTypes, Requested, Sound, Carries
    <2>1. PICK r \in S!Requests :
          /\ req' = [req EXCEPT ![w] = r] /\ req[w].at = "ndr_set"
          /\ r.at = "cap" /\ r.jti = req[w].jti
          /\ ndrSet' = ndrSet \cup {req[w].jti}
          /\ UNCHANGED <<sessionClock, loginAt, authSession, ndrSession, authSet, sessionIssued, over>>
      <3> DEFINE new == [req[w] EXCEPT !.at = "cap"]
      <3>0. req[w].at = "ndr_set"
        BY <1>5 DEF S!ListNdrSession, S!Goto, S!Now, S!sets
      <3>1. new \in S!Requests /\ new.at = "cap" /\ new.jti = req[w].jti
        BY <1>0, <3>0, <2>0 DEF SessionTypes, S!Requests, S!Steps, S!Afterwards, S!Idle
      <3> QED
        BY <1>5, <3>1 DEF S!ListNdrSession, S!Goto, S!Now, S!sets
    <2>2. Sound(r)'
      BY <1>0, <2>1, <2>0 DEF SessionTypes, Requested, Sound, Carries
    <2>3. req' \in [Workers -> S!Requests] /\ Requested'
      BY <1>0, <2>1, <2>2, <2>0, MovesOn DEF SessionTypes
    <2>4. SessionTypes'
      BY <1>0, <2>1, <2>3, <2>0, SessionsAssumption DEF SessionTypes
    <2>5. Apart'
      <3>1. req'[w] = r /\ \A v \in Workers \ {w} : req'[v] = req[v]
        BY <1>0, <2>1 DEF SessionTypes
      <3>2. ~ Hidden(req[w].jti)'
        BY <1>0, <2>1, <2>0, <3>1, SessionsAssumption DEF Hidden, Requested, S!Unused
      <3>3. \A j \in (sessionIssued \cup ndrSet \cup over)' : Known(j) \/ ~ Hidden(j)'
        BY <2>1, <3>2 DEF Known
      <3> QED
        BY <1>0, <2>1, <3>3, StaysApart DEF Ends
    <2>6. SessionsEnd'
      BY <1>0, <2>1, <2>0, SessionsAssumption DEF SessionTypes, SessionsEnd, S!SessionsEnd,
        S!OverInBoth, S!SlidingIsBounded, S!InAuth, S!InNdr
    <2> QED
      BY <2>3, <2>4, <2>5, <2>6 DEF SessionsInv
  <1>6. ASSUME NEW w \in Workers, S!EnforceCap(w) PROVE SessionsInv'
    <2>0. PICK V \in SUBSET Jtis : req' = [req EXCEPT ![w].at = "evict", ![w].todo = V]
      BY <1>0, <1>6 DEF S!EnforceCap, S!Now, S!sets, S!Oldest, SessionTypes, Requested, Sound, Carries
    <2>1. PICK r \in S!Requests :
          /\ req' = [req EXCEPT ![w] = r] /\ req[w].at = "cap"
          /\ r.at = "evict" /\ r.jti = req[w].jti
          /\ UNCHANGED <<sessionClock, loginAt, authSession, ndrSession, authSet, ndrSet, sessionIssued, over>>
      <3> DEFINE new == [req[w] EXCEPT !.at = "evict", !.todo = V]
      <3>0. req[w].at = "cap"
        BY <1>6 DEF S!EnforceCap, S!Now, S!sets, S!Oldest
      <3>1. new \in S!Requests /\ new.at = "evict" /\ new.jti = req[w].jti
        BY <1>0, <3>0, <2>0 DEF SessionTypes, S!Requests, S!Steps, S!Afterwards, S!Idle
      <3>2. req' = [req EXCEPT ![w] = new]
        BY <1>0, <2>0 DEF SessionTypes, S!Requests
      <3> QED
        BY <1>6, <3>1, <3>2, <2>0 DEF S!EnforceCap, S!Now, S!sets, S!Oldest
    <2>2. Sound(r)'
      BY <1>0, <2>1, <2>0 DEF SessionTypes, Requested, Sound, Carries
    <2>3. req' \in [Workers -> S!Requests] /\ Requested'
      BY <1>0, <2>1, <2>2, <2>0, MovesOn DEF SessionTypes
    <2>4. SessionTypes'
      BY <1>0, <2>1, <2>3, <2>0, SessionsAssumption DEF SessionTypes
    <2>5. Apart'
      BY <1>0, <2>1, <2>0, StaysApart DEF Ends, Known
    <2>6. SessionsEnd'
      BY <1>0, <2>1, <2>0, SessionsAssumption DEF SessionTypes, SessionsEnd, S!SessionsEnd,
        S!OverInBoth, S!SlidingIsBounded, S!InAuth, S!InNdr
    <2> QED
      BY <2>3, <2>4, <2>5, <2>6 DEF SessionsInv
  <1>7. ASSUME NEW w \in Workers, S!Issue(w) PROVE SessionsInv'
    <2>0. PICK j \in Jtis : j = req[w].jti /\ loginAt[j] # 0
      BY <1>0, <1>7 DEF S!Issue, S!Become, S!Now, S!sets, SessionTypes, Requested, Sound, Carries
    <2>1. PICK r \in S!Requests :
          /\ req' = [req EXCEPT ![w] = r] /\ req[w].at = "evict"
          /\ r.at = "idle" /\ r.jti = NoJti
          /\ sessionIssued' = sessionIssued \cup {req[w].jti}
          /\ UNCHANGED <<sessionClock, loginAt, authSession, ndrSession, authSet, ndrSet, over>>
      <3> DEFINE new == S!Idle
      <3>0. req[w].at = "evict"
        BY <1>7 DEF S!Issue, S!Become, S!Now, S!sets
      <3>1. new \in S!Requests /\ new.at = "idle" /\ new.jti = NoJti
        BY <1>0, <3>0, <2>0 DEF SessionTypes, S!Requests, S!Steps, S!Afterwards, S!Idle
      <3> QED
        BY <1>7, <3>1 DEF S!Issue, S!Become, S!Now, S!sets
    <2>2. Sound(r)'
      BY <1>0, <2>1, <2>0, SessionsAssumption DEF SessionTypes, Requested, Sound, Carries
    <2>3. req' \in [Workers -> S!Requests] /\ Requested'
      BY <1>0, <2>1, <2>2, <2>0, MovesOn DEF SessionTypes
    <2>4. SessionTypes'
      BY <1>0, <2>1, <2>3, <2>0, SessionsAssumption DEF SessionTypes
    <2>5. Apart'
      <3>1. req'[w] = r /\ \A v \in Workers \ {w} : req'[v] = req[v]
        BY <1>0, <2>1 DEF SessionTypes
      <3>2. ~ Hidden(j)'
        BY <1>0, <2>1, <2>0, <3>1, SessionsAssumption DEF Hidden, Requested, S!Unused
      <3>3. \A k \in (sessionIssued \cup ndrSet \cup over)' : Known(k) \/ ~ Hidden(k)'
        BY <2>1, <2>0, <3>2 DEF Known
      <3> QED
        BY <1>0, <2>1, <3>3, StaysApart DEF Ends
    <2>6. SessionsEnd'
      BY <1>0, <2>1, <2>0, SessionsAssumption DEF SessionTypes, SessionsEnd, S!SessionsEnd,
        S!OverInBoth, S!SlidingIsBounded, S!InAuth, S!InNdr
    <2> QED
      BY <2>3, <2>4, <2>5, <2>6 DEF SessionsInv
  <1>8. ASSUME NEW w \in Workers, NEW j \in Jtis, S!RevokeAuth(w, j) PROVE SessionsInv'
    <2>1. PICK r \in S!Requests :
          /\ req' = [req EXCEPT ![w] = r] /\ ((req[w].at = "revoke" /\ j = req[w].old) \/ req[w].at = "evict")
          /\ r.at = "revoke_rest" /\ r.jti = req[w].jti /\ r.old = j
          /\ (req[w].at = "evict" => r.next = "evict")
          /\ (req[w].at # "evict" => r.next = req[w].next)
          /\ authSession' = [authSession EXCEPT ![j] = 0]
          /\ UNCHANGED <<sessionClock, loginAt, ndrSession, authSet, ndrSet, sessionIssued, over>>
      <3> DEFINE new == [req[w] EXCEPT !.at = "revoke_rest", !.old = j,
                                  !.known = S!InAuth(j), !.todo = @ \ {j},
                                  !.next = IF S!Now(w, "evict") THEN "evict" ELSE @]
      <3>0. ((req[w].at = "revoke" /\ j = req[w].old) \/ req[w].at = "evict")
        BY <1>8 DEF S!RevokeAuth, S!Become, S!Now, S!sets
      <3>1. new \in S!Requests /\ new.at = "revoke_rest" /\ new.jti = req[w].jti /\ new.old = j
          /\ (req[w].at = "evict" => new.next = "evict")
          /\ (req[w].at # "evict" => new.next = req[w].next)
        <4>1. S!InAuth(j) \in BOOLEAN
          BY DEF S!InAuth
        <4>2. req[w] \in S!Requests /\ (S!Now(w, "evict") <=> req[w].at = "evict")
          BY <1>0 DEF SessionTypes, S!Now
        <4> QED
          BY <4>1, <4>2 DEF S!Requests, S!Steps, S!Afterwards
      <3> QED
        BY <1>8, <3>1 DEF S!RevokeAuth, S!Become, S!Now, S!sets
    <2>2. Sound(r)'
      BY <1>0, <2>1 DEF SessionTypes, Requested, Sound, Carries
    <2>3. req' \in [Workers -> S!Requests] /\ Requested'
      <3>1. \A k \in Jtis : authSession'[k] <= authSession[k]
        BY <1>0, <2>1 DEF SessionTypes
      <3>2. \A v \in Workers : Ends(req[v]) => req[v].old \in Jtis
        BY <1>0 DEF Ends, Requested, Sound
      <3>3. \A v \in Workers : Ends(req[v]) /\ authSession[req[v].old] <= sessionClock
                             => authSession'[req[v].old] <= sessionClock
        BY <1>0, <2>1, <3>1, <3>2 DEF SessionTypes
      <3> QED
        BY <1>0, <2>1, <2>2, <3>3, MovesOn DEF SessionTypes
    <2>4. SessionTypes'
      BY <1>0, <2>1, <2>3, SessionsAssumption DEF SessionTypes
    <2>5. Apart'
      <3>1. Ends(r) => Known(j)
        BY <2>1 DEF Ends, Known
      <3>2. \A k \in (sessionIssued \cup ndrSet \cup over)' : Known(k)
        BY <2>1 DEF Known
      <3> QED
        BY <1>0, <2>1, <3>1, <3>2, StaysApart
    <2>6. SessionsEnd'
      BY <1>0, <2>1, SessionsAssumption DEF SessionTypes, SessionsEnd, S!SessionsEnd,
        S!OverInBoth, S!SlidingIsBounded, S!InAuth, S!InNdr
    <2> QED
      BY <2>3, <2>4, <2>5, <2>6 DEF SessionsInv
  <1>9. ASSUME NEW w \in Workers, S!RevokeNdr(w) PROVE SessionsInv'
    <2>1. PICK j \in Jtis, gone \in SUBSET Jtis, r \in S!Requests :
          /\ j = req[w].old /\ req[w].at = "revoke_rest"
          /\ req' = [req EXCEPT ![w] = r]
          /\ r.at \in {"idle", "create", "evict"}
          /\ r.jti = req[w].jti \/ r.jti = NoJti
          /\ r.at = "evict" => req[w].next = "evict" /\ r.jti = req[w].jti
          /\ ndrSession' = [ndrSession EXCEPT ![j] = 0]
          /\ authSet' = authSet \ gone /\ ndrSet' = ndrSet \ gone
          /\ over' = IF req[w].next = "evict" THEN over ELSE over \cup {j}
          /\ UNCHANGED <<sessionClock, loginAt, authSession, sessionIssued>>
      <3> DEFINE new == IF req[w].next = "idle" THEN S!Idle
                        ELSE [req[w] EXCEPT !.at = req[w].next, !.old = NoJti,
                                            !.known = FALSE, !.next = "idle"]
      <3>1. req[w] \in S!Requests /\ req[w].old \in Jtis /\ req[w].at = "revoke_rest"
        BY <1>0, <1>9 DEF S!RevokeNdr, S!Now, SessionTypes, Requested, Sound
      <3>2. /\ new \in S!Requests
            /\ new.at \in {"idle", "create", "evict"}
            /\ new.jti = req[w].jti \/ new.jti = NoJti
            /\ new.at = "evict" => req[w].next = "evict" /\ new.jti = req[w].jti
        <4>1. CASE req[w].next = "idle"
          BY <4>1 DEF S!Requests, S!Steps, S!Afterwards, S!Idle
        <4>2. CASE req[w].next # "idle"
          BY <3>1, <4>2 DEF S!Requests, S!Steps, S!Afterwards
        <4> QED
          BY <4>1, <4>2
      <3> HIDE DEF new
      <3>3. req' = [req EXCEPT ![w] = new]
        BY <1>9 DEF S!RevokeNdr, S!Become, new
      <3> DEFINE dropped == IF req[w].known \/ req[w].next = "evict" THEN {req[w].old} ELSE {}
      <3>4. /\ dropped \in SUBSET Jtis
            /\ authSet' = authSet \ dropped /\ ndrSet' = ndrSet \ dropped
            /\ ndrSession' = [ndrSession EXCEPT ![req[w].old] = 0]
            /\ over' = IF req[w].next = "evict" THEN over ELSE over \cup {req[w].old}
            /\ UNCHANGED <<sessionClock, loginAt, authSession, sessionIssued>>
        BY <1>9, <3>1 DEF S!RevokeNdr
      <3> QED
        BY <3>1, <3>2, <3>3, <3>4
    <2>2. Sound(r)'
      BY <1>0, <2>1, SessionsAssumption DEF SessionTypes, Requested, Sound, Carries
    <2>3. req' \in [Workers -> S!Requests] /\ Requested'
      BY <1>0, <2>1, <2>2, MovesOn DEF SessionTypes
    <2>4. SessionTypes'
      BY <1>0, <2>1, <2>3 DEF SessionTypes
    <2>5. Apart'
      <3>1. over' \subseteq over \cup {j} /\ (j \in over' => j \in over \/ Ends(req[w]))
        BY <2>1 DEF Ends
      <3>2. \A k \in (sessionIssued \cup ndrSet \cup over)' : Known(k)
        BY <2>1, <3>1 DEF Known
      <3> QED
        BY <1>0, <2>1, <3>2, StaysApart DEF Ends
    <2>6. SessionsEnd'
      <3>1. req[w].next # "evict" => authSession[j] <= sessionClock
        BY <1>0, <2>1 DEF Requested, Sound
      <3>2. \A k \in Jtis : ndrSession'[k] = IF k = j THEN 0 ELSE ndrSession[k]
        BY <1>0, <2>1 DEF SessionTypes
      <3>3. \A k \in Jtis : authSession[k] \in Nat /\ ndrSession[k] \in Nat /\ sessionClock \in Nat
        BY <1>0 DEF SessionTypes
      <3> QED
        BY <1>0, <2>1, <2>4, <3>1, <3>2, <3>3 DEF SessionTypes, SessionsEnd, S!SessionsEnd,
          S!OverInBoth, S!SlidingIsBounded, S!InAuth, S!InNdr
    <2> QED
      BY <2>3, <2>4, <2>5, <2>6 DEF SessionsInv
  <1>10. ASSUME NEW w \in Workers, NEW j \in Jtis, S!Logout(w, j) PROVE SessionsInv'
    <2>1. PICK r \in S!Requests :
          /\ req' = [req EXCEPT ![w] = r] /\ j \in sessionIssued
          /\ r.at = "revoke" /\ r.jti = NoJti /\ r.old = j /\ r.next # "evict"
          /\ UNCHANGED <<sessionClock, loginAt, authSession, ndrSession, authSet, ndrSet, sessionIssued, over>>
      <3> DEFINE new == [S!Idle EXCEPT !.at = "revoke", !.old = j]
      <3>0. j \in sessionIssued
        BY <1>10 DEF S!Logout, S!Become, S!Now, S!sets
      <3>1. new \in S!Requests /\ new.at = "revoke" /\ new.jti = NoJti /\ new.old = j /\ new.next # "evict"
        BY <1>0, <3>0 DEF SessionTypes, S!Requests, S!Steps, S!Afterwards, S!Idle
      <3> QED
        BY <1>10, <3>1 DEF S!Logout, S!Become, S!Now, S!sets
    <2>2. Sound(r)'
      BY <1>0, <2>1, SessionsAssumption DEF SessionTypes, Requested, Sound, Carries
    <2>3. req' \in [Workers -> S!Requests] /\ Requested'
      BY <1>0, <2>1, <2>2, MovesOn DEF SessionTypes
    <2>4. SessionTypes'
      BY <1>0, <2>1, <2>3, SessionsAssumption DEF SessionTypes
    <2>5. Apart'
      BY <1>0, <2>1, StaysApart DEF Ends, Known
    <2>6. SessionsEnd'
      BY <1>0, <2>1, SessionsAssumption DEF SessionTypes, SessionsEnd, S!SessionsEnd,
        S!OverInBoth, S!SlidingIsBounded, S!InAuth, S!InNdr
    <2> QED
      BY <2>3, <2>4, <2>5, <2>6 DEF SessionsInv
  <1>11. ASSUME NEW w \in Workers, NEW j \in Jtis, S!Refresh(w, j) PROVE SessionsInv'
    <2>0. PICK next \in {"create", "idle"} :
            req' = [req EXCEPT ![w] = [S!Idle EXCEPT !.at = "revoke", !.old = j, !.next = next]]
      BY <1>0, <1>11 DEF S!Refresh, S!Become, S!Now, S!sets, SessionTypes, Requested, Sound, Carries
    <2>1. PICK r \in S!Requests :
          /\ req' = [req EXCEPT ![w] = r] /\ j \in sessionIssued
          /\ r.at = "revoke" /\ r.jti = NoJti /\ r.old = j /\ r.next # "evict"
          /\ UNCHANGED <<sessionClock, loginAt, authSession, ndrSession, authSet, ndrSet, sessionIssued, over>>
      <3> DEFINE new == [S!Idle EXCEPT !.at = "revoke", !.old = j, !.next = next]
      <3>0. j \in sessionIssued
        BY <1>11 DEF S!Refresh, S!Become, S!Now, S!sets
      <3>1. new \in S!Requests /\ new.at = "revoke" /\ new.jti = NoJti /\ new.old = j /\ new.next # "evict"
        BY <1>0, <3>0, <2>0 DEF SessionTypes, S!Requests, S!Steps, S!Afterwards, S!Idle
      <3>2. req' = [req EXCEPT ![w] = new]
        BY <2>0
      <3> QED
        BY <1>11, <3>1, <3>2, <2>0 DEF S!Refresh, S!Become, S!Now, S!sets
    <2>2. Sound(r)'
      BY <1>0, <2>1, <2>0, SessionsAssumption DEF SessionTypes, Requested, Sound, Carries
    <2>3. req' \in [Workers -> S!Requests] /\ Requested'
      BY <1>0, <2>1, <2>2, <2>0, MovesOn DEF SessionTypes
    <2>4. SessionTypes'
      BY <1>0, <2>1, <2>3, <2>0, SessionsAssumption DEF SessionTypes
    <2>5. Apart'
      <3>1. Known(j)
        BY <2>1 DEF Known
      <3> QED
        BY <1>0, <2>1, <3>1, StaysApart DEF Known
    <2>6. SessionsEnd'
      BY <1>0, <2>1, <2>0, SessionsAssumption DEF SessionTypes, SessionsEnd, S!SessionsEnd,
        S!OverInBoth, S!SlidingIsBounded, S!InAuth, S!InNdr
    <2> QED
      BY <2>3, <2>4, <2>5, <2>6 DEF SessionsInv
  <1>12. ASSUME NEW j \in Jtis, S!Me(j) PROVE SessionsInv'
    <2>1. /\ authSession[j] > sessionClock /\ sessionClock < loginAt[j] + SessionTTL
          /\ authSession' = [authSession EXCEPT ![j] = sessionClock + SessionTTL]
          /\ UNCHANGED <<sessionClock, loginAt, ndrSession, authSet, ndrSet, sessionIssued, over, req>>
      BY <1>12 DEF S!Me, S!JwtValid, S!InAuth, S!sets
    <2>2. SessionTypes' /\ \A k \in Jtis \ {j} : authSession'[k] = authSession[k]
      BY <1>0, <2>1, SessionsAssumption DEF SessionTypes
    <2>3. Requested'
      <3>1. ASSUME NEW v \in Workers PROVE Sound(req[v])'
        <4>1. req[v].at = "revoke_rest" /\ req[v].next # "evict" => req[v].old \in Jtis \ {j}
          BY <1>0, <2>1 DEF Requested, Sound, SessionTypes
        <4> QED
          BY <1>0, <2>1, <2>2, <4>1 DEF Requested, Sound, Carries
      <3> QED
        BY <1>0, <2>1, <3>1 DEF Requested
    <2>4. Apart'
      BY <1>0, <2>1 DEF Apart, Known, Hidden, S!Unused, Ends
    <2>5. SessionsEnd'
      <3>1. j \notin over
        BY <1>0, <2>1 DEF SessionsEnd, S!SessionsEnd, S!OverInBoth, S!InAuth
      <3>2. authSession'[j] = sessionClock + SessionTTL
        BY <1>0, <2>1 DEF SessionTypes
      <3> QED
        BY <1>0, <2>1, <2>2, <3>1, <3>2, SessionsAssumption DEF SessionTypes, SessionsEnd,
          S!SessionsEnd, S!OverInBoth, S!SlidingIsBounded, S!InAuth, S!InNdr
    <2> QED
      BY <2>2, <2>3, <2>4, <2>5 DEF SessionsInv
  <1>13. ASSUME NEW w \in Workers, S!ForceLogoutUser(w) PROVE SessionsInv'
    <2>1. PICK r \in S!Requests :
          /\ req' = [req EXCEPT ![w] = r] /\ req[w].at = "idle"
          /\ r.at = "force" /\ r.jti = NoJti /\ r.todo = ndrSet
          /\ UNCHANGED <<sessionClock, loginAt, authSession, ndrSession, authSet, ndrSet, sessionIssued, over>>
      <3> DEFINE new == [S!Idle EXCEPT !.at = "force", !.todo = ndrSet]
      <3>0. req[w].at = "idle"
        BY <1>13 DEF S!ForceLogoutUser, S!Become, S!Now, S!sets
      <3>1. new \in S!Requests /\ new.at = "force" /\ new.jti = NoJti /\ new.todo = ndrSet
        BY <1>0, <3>0 DEF SessionTypes, S!Requests, S!Steps, S!Afterwards, S!Idle
      <3> QED
        BY <1>13, <3>1 DEF S!ForceLogoutUser, S!Become, S!Now, S!sets
    <2>2. Sound(r)'
      BY <1>0, <2>1, SessionsAssumption DEF SessionTypes, Requested, Sound, Carries
    <2>3. req' \in [Workers -> S!Requests] /\ Requested'
      BY <1>0, <2>1, <2>2, MovesOn DEF SessionTypes
    <2>4. SessionTypes'
      BY <1>0, <2>1, <2>3, SessionsAssumption DEF SessionTypes
    <2>5. Apart'
      BY <1>0, <2>1, StaysApart DEF Ends, Known
    <2>6. SessionsEnd'
      BY <1>0, <2>1, SessionsAssumption DEF SessionTypes, SessionsEnd, S!SessionsEnd,
        S!OverInBoth, S!SlidingIsBounded, S!InAuth, S!InNdr
    <2> QED
      BY <2>3, <2>4, <2>5, <2>6 DEF SessionsInv
  <1>14. ASSUME NEW w \in Workers, S!ForceOne(w) PROVE SessionsInv'
    <2>0. PICK j \in req[w].todo :
            /\ ndrSession' = [ndrSession EXCEPT ![j] = 0]
            /\ authSession' = [authSession EXCEPT ![j] = 0]
            /\ req' = [req EXCEPT ![w].todo = @ \ {j}]
            /\ over' = over \cup {j}
      BY <1>0, <1>14 DEF S!ForceOne, S!Now, S!sets, SessionTypes, Requested, Sound, Carries
    <2>1. PICK r \in S!Requests :
          /\ req' = [req EXCEPT ![w] = r] /\ req[w].at = "force"
          /\ r.at = "force" /\ r.jti = req[w].jti /\ r.todo = req[w].todo \ {j}
          /\ ndrSession' = [ndrSession EXCEPT ![j] = 0]
          /\ authSession' = [authSession EXCEPT ![j] = 0]
          /\ over' = over \cup {j}
          /\ UNCHANGED <<sessionClock, loginAt, authSet, ndrSet, sessionIssued>>
      <3> DEFINE new == [req[w] EXCEPT !.todo = @ \ {j}]
      <3>0. req[w].at = "force"
        BY <1>14 DEF S!ForceOne, S!Now, S!sets
      <3>1. new \in S!Requests /\ new.at = "force" /\ new.jti = req[w].jti /\ new.todo = req[w].todo \ {j}
        BY <1>0, <3>0, <2>0 DEF SessionTypes, S!Requests, S!Steps, S!Afterwards, S!Idle
      <3>2. req' = [req EXCEPT ![w] = new]
        BY <1>0, <2>0 DEF SessionTypes, S!Requests
      <3> QED
        BY <1>14, <3>1, <3>2, <2>0 DEF S!ForceOne, S!Now, S!sets
    <2>2. Sound(r)'
      BY <1>0, <2>1, <2>0 DEF SessionTypes, Requested, Sound, Carries
    <2>9. /\ j \in Jtis
          /\ \A k \in Jtis : authSession'[k] = IF k = j THEN 0 ELSE authSession[k]
          /\ \A k \in Jtis : ndrSession'[k] = IF k = j THEN 0 ELSE ndrSession[k]
          /\ authSession' \in [Jtis -> Nat] /\ ndrSession' \in [Jtis -> Nat]
      BY <1>0, <2>0, <2>1 DEF SessionTypes, S!Requests
    <2>3. req' \in [Workers -> S!Requests] /\ Requested'
      <3>2. \A v \in Workers : Ends(req[v]) => req[v].old \in Jtis
        BY <1>0 DEF Ends, Requested, Sound
      <3>3. \A v \in Workers : Ends(req[v]) /\ authSession[req[v].old] <= sessionClock
                             => authSession'[req[v].old] <= sessionClock
        BY <1>0, <2>9, <3>2 DEF SessionTypes
      <3> QED
        BY <1>0, <2>1, <2>2, <3>3, MovesOn DEF SessionTypes
    <2>4. SessionTypes'
      BY <1>0, <2>1, <2>3, <2>9 DEF SessionTypes
    <2>5. Apart'
      BY <1>0, <2>1, <2>0, StaysApart DEF Ends, Known
    <2>6. SessionsEnd'
      BY <1>0, <2>1, <2>9, SessionsAssumption DEF SessionTypes, SessionsEnd, S!SessionsEnd,
        S!OverInBoth, S!SlidingIsBounded, S!InAuth, S!InNdr
    <2> QED
      BY <2>3, <2>4, <2>5, <2>6 DEF SessionsInv
  <1>15. ASSUME NEW w \in Workers, S!ForceDone(w) PROVE SessionsInv'
    <2>1. PICK r \in S!Requests :
          /\ req' = [req EXCEPT ![w] = r] /\ req[w].at = "force"
          /\ r.at = "idle" /\ r.jti = NoJti
          /\ ndrSet' = {} /\ authSet' = {}
          /\ UNCHANGED <<sessionClock, loginAt, authSession, ndrSession, sessionIssued, over>>
      <3> DEFINE new == S!Idle
      <3>0. req[w].at = "force"
        BY <1>15 DEF S!ForceDone, S!Become, S!Now, S!sets
      <3>1. new \in S!Requests /\ new.at = "idle" /\ new.jti = NoJti
        BY <1>0, <3>0 DEF SessionTypes, S!Requests, S!Steps, S!Afterwards, S!Idle
      <3> QED
        BY <1>15, <3>1 DEF S!ForceDone, S!Become, S!Now, S!sets
    <2>2. Sound(r)'
      BY <1>0, <2>1, SessionsAssumption DEF SessionTypes, Requested, Sound, Carries
    <2>3. req' \in [Workers -> S!Requests] /\ Requested'
      BY <1>0, <2>1, <2>2, MovesOn DEF SessionTypes
    <2>4. SessionTypes'
      BY <1>0, <2>1, <2>3, SessionsAssumption DEF SessionTypes
    <2>5. Apart'
      BY <1>0, <2>1, StaysApart DEF Ends, Known
    <2>6. SessionsEnd'
      BY <1>0, <2>1, SessionsAssumption DEF SessionTypes, SessionsEnd, S!SessionsEnd,
        S!OverInBoth, S!SlidingIsBounded, S!InAuth, S!InNdr
    <2> QED
      BY <2>3, <2>4, <2>5, <2>6 DEF SessionsInv
  <1>16. ASSUME NEW J \in SUBSET ndrSet, S!ForceLogoutDevice(J) PROVE SessionsInv'
    <2>1. /\ authSession' = [k \in Jtis |-> IF k \in J THEN 0 ELSE authSession[k]]
          /\ ndrSession' = [k \in Jtis |-> IF k \in J THEN 0 ELSE ndrSession[k]]
          /\ ndrSet' = ndrSet \ J /\ authSet' = authSet \ J /\ over' = over \cup J
          /\ UNCHANGED <<sessionClock, loginAt, sessionIssued, req>>
      BY <1>16 DEF S!ForceLogoutDevice
    <2>2. SessionTypes'
      BY <1>0, <2>1 DEF SessionTypes
    <2>3. Requested'
      <3>1. ASSUME NEW v \in Workers PROVE Sound(req[v])'
        BY <1>0, <2>1 DEF SessionTypes, Requested, Sound, Carries
      <3> QED
        BY <1>0, <2>1, <3>1 DEF Requested
    <2>4. Apart'
      BY <1>0, <2>1 DEF Apart, Known, Hidden, S!Unused, Ends
    <2>5. SessionsEnd'
      BY <1>0, <2>1 DEF SessionTypes, SessionsEnd, S!SessionsEnd, S!OverInBoth,
                        S!SlidingIsBounded, S!InAuth, S!InNdr
    <2> QED
      BY <2>2, <2>3, <2>4, <2>5 DEF SessionsInv
  <1>17. CASE S!GetActiveSessions \/ UNCHANGED S!vars
    <2>1. UNCHANGED <<sessionClock, loginAt, authSession, ndrSession, authSet, ndrSet, sessionIssued, over, req>>
      BY <1>17 DEF S!GetActiveSessions, S!vars
    <2> QED
      BY <1>0, <2>1 DEF SessionsInv, SessionTypes, Requested, Sound, Carries, Apart, Known, Hidden,
                        Ends, S!Unused, SessionsEnd, S!SessionsEnd, S!OverInBoth,
                        S!SlidingIsBounded, S!InAuth, S!InNdr
  <1>18. CASE S!Tick
    <2>1. /\ sessionClock' = sessionClock + 1
          /\ \A w \in Workers : req[w].at = "idle"
          /\ authSession' = [j \in Jtis |-> IF authSession[j] > sessionClock + 1 THEN authSession[j] ELSE 0]
          /\ ndrSession' = [j \in Jtis |-> IF ndrSession[j] > sessionClock + 1 THEN ndrSession[j] ELSE 0]
          /\ UNCHANGED <<loginAt, authSet, ndrSet, sessionIssued, over, req>>
      BY <1>18 DEF S!Tick, S!Unexpired, S!Now, S!sets
    <2>2. SessionTypes'
      BY <1>0, <2>1 DEF SessionTypes
    <2>3. Requested'
      BY <1>0, <2>1 DEF Requested, Sound, Carries
    <2>4. Apart'
      BY <1>0, <2>1 DEF Apart, Known, Hidden, S!Unused, Ends
    <2>5. SessionsEnd'
      BY <1>0, <2>1 DEF SessionTypes, SessionsEnd, S!SessionsEnd, S!OverInBoth,
                        S!SlidingIsBounded, S!InAuth, S!InNdr
    <2> QED
      BY <2>2, <2>3, <2>4, <2>5 DEF SessionsInv
  <1> QED
    BY <1>1, <1>2, <1>3, <1>4, <1>5, <1>6, <1>7, <1>8, <1>9, <1>10, <1>11, <1>12, <1>13,
       <1>14, <1>15, <1>16, <1>17, <1>18 DEF S!Next

(* For any number of sessions, requests, WebSockets and any cap: a session *)
(* whose end was reported is accepted by neither service again, and none   *)
(* slides past two lifetimes of its token.                                 *)
THEOREM SessionsAlwaysEnd == S!Spec => []SessionsEnd
<1>1. SessionsInv => SessionsEnd
  BY DEF SessionsInv
<1> QED
  BY <1>1, SessionsInit, SessionsStep, PTL DEF S!Spec

-----------------------------------------------------------------------------
(* The three side by side: the types and bounds of all their variables.   *)

(* The bounds of the counters, and that a statement may begin only while   *)
(* its row would still be among MaxRows.                                   *)
UnderWay == {a \in Admins : job[a] # NoRow}
RegistryBounds ==
  /\ clock <= RegistryTime /\ deactivated <= clock
  /\ inserted \in Nat /\ Len(rows) <= inserted
  /\ inserted + Cardinality(UnderWay) <= MaxRows
  /\ login \in BOOLEAN

LEMMA UnderWayCounts ==
  /\ IsFiniteSet(UnderWay) /\ Cardinality(UnderWay) \in Nat
  /\ T!Cardinality(UnderWay) = Cardinality(UnderWay)
  /\ \A a \in Admins : \A V :
       /\ V \subseteq UnderWay \cup {a} => Cardinality(V) \in Nat /\ Cardinality(V) <= Cardinality(UnderWay) + 1
       /\ a \in UnderWay /\ V \subseteq UnderWay \ {a} => 
            Cardinality(V) \in Nat /\ Cardinality(V) <= Cardinality(UnderWay) - 1
  <1>1. IsFiniteSet(UnderWay)
    BY RegistryAssumption, FS_Subset DEF UnderWay
  <1>2. Cardinality(UnderWay) \in Nat
    BY <1>1, FS_CardinalityType
  <1>3. T!Cardinality(UnderWay) = Cardinality(UnderWay)
    BY DEF T!Cardinality, Cardinality
  <1>4. ASSUME NEW a \in Admins, NEW V, V \subseteq UnderWay \cup {a}
        PROVE  Cardinality(V) \in Nat /\ Cardinality(V) <= Cardinality(UnderWay) + 1
    <2>1. /\ IsFiniteSet(UnderWay \cup {a})
          /\ Cardinality(UnderWay \cup {a}) \in {Cardinality(UnderWay), Cardinality(UnderWay) + 1}
      BY <1>1, FS_AddElement
    <2>2. /\ IsFiniteSet(V) /\ Cardinality(V) <= Cardinality(UnderWay \cup {a})
      BY <1>4, <2>1, FS_Subset
    <2>3. Cardinality(V) \in Nat
      BY <2>2, FS_CardinalityType
    <2> QED
      BY <1>2, <2>1, <2>2, <2>3
  <1>5. ASSUME NEW a \in UnderWay, NEW V, V \subseteq UnderWay \ {a}
        PROVE  Cardinality(V) \in Nat /\ Cardinality(V) <= Cardinality(UnderWay) - 1
    <2>1. /\ IsFiniteSet(UnderWay \ {a})
          /\ Cardinality(UnderWay \ {a}) = Cardinality(UnderWay) - 1
      BY <1>1, FS_RemoveElement
    <2>2. /\ IsFiniteSet(V) /\ Cardinality(V) <= Cardinality(UnderWay \ {a})
      BY <1>5, <2>1, FS_Subset
    <2>3. Cardinality(V) \in Nat
      BY <2>2, FS_CardinalityType
    <2> QED
      BY <1>2, <2>1, <2>2, <2>3
  <1> QED
    BY <1>1, <1>2, <1>3, <1>4, <1>5

LEMMA BoundsInit == T!Init => RegistryBounds
  <1> SUFFICES ASSUME T!Init PROVE RegistryBounds
    BY Zenon
  <1> USE RegistryAssumption
  <1>1. /\ clock = 1 /\ job = [a \in Admins |-> NoRow] /\ deactivated = 0 /\ login = FALSE
        /\ rows = <<>> \/ rows = <<T!Row(T!New, 0)>>
        /\ inserted = Len(rows)
    BY DEF T!Init
  <1>2. UnderWay = {}
    BY <1>1 DEF UnderWay
  <1>3. Cardinality(UnderWay) = 0
    BY <1>2, FS_EmptySet
  <1>4. Len(rows) \in {0, 1}
    BY <1>1
  <1>5. inserted \in Nat /\ inserted <= MaxRows /\ Len(rows) <= inserted
    BY <1>1, <1>4
  <1>6. inserted + Cardinality(UnderWay) <= MaxRows
    BY <1>3, <1>5
  <1>7. login \in BOOLEAN
    BY <1>1
  <1>8. clock <= RegistryTime /\ deactivated <= clock
    BY <1>1
  <1> QED
    BY <1>5, <1>6, <1>7, <1>8 DEF RegistryBounds

LEMMA BeginBounds ==
  ASSUME RegistryTypes, RegistryBounds, NEW a \in Admins, NEW columns, NEW sets,
         T!Begin(a, columns, sets)
  PROVE  RegistryBounds'
  <1> USE RegistryAssumption
  <1>1. /\ inserted + T!Cardinality(UnderWay) < MaxRows
        /\ UNCHANGED <<clock, deactivated, rows, inserted, login>>
    BY DEF T!Begin, T!readers, UnderWay
  <1>2. UnderWay' \subseteq UnderWay \cup {a}
    BY DEF T!Begin, UnderWay, RegistryTypes
  <1>3. Cardinality(UnderWay') \in Nat /\ Cardinality(UnderWay') <= Cardinality(UnderWay) + 1
    BY <1>2, UnderWayCounts
  <1>4. inserted + Cardinality(UnderWay') <= MaxRows
    BY <1>1, <1>3, UnderWayCounts DEF RegistryBounds
  <1> QED
    BY <1>1, <1>4 DEF RegistryBounds

LEMMA BoundsStep == RegistryTypes /\ RegistryBounds /\ [T!Next]_T!vars => RegistryBounds'
  <1> SUFFICES ASSUME RegistryTypes, RegistryBounds, [T!Next]_T!vars PROVE RegistryBounds'
    BY Zenon
  <1> USE RegistryAssumption
  <1>1. ASSUME NEW a \in Admins, T!CreateTenant(a) PROVE RegistryBounds'
    BY <1>1, BeginBounds DEF T!CreateTenant
  <1>2. ASSUME NEW a \in Admins, NEW b \in BOOLEAN, T!DbSetTenantActive(a, b)
        PROVE  RegistryBounds'
    BY <1>2, BeginBounds DEF T!DbSetTenantActive
  <1>3. ASSUME NEW a \in Admins, NEW f \in Features, T!SetTenantFeatures(a, f)
        PROVE  RegistryBounds'
    BY <1>3, BeginBounds DEF T!SetTenantFeatures
  <1>4. ASSUME NEW a \in Admins, T!Insert(a) PROVE RegistryBounds'
    <2>1. /\ a \in UnderWay /\ UnderWay' \subseteq UnderWay \ {a}
          /\ inserted' = inserted + 1 /\ clock' = clock /\ login' = FALSE
          /\ rows' = Append(rows, job[a].row)
      BY <1>4 DEF T!Insert, T!readers, RegistryTypes, UnderWay
    <2>2. deactivated' \in {0, clock, deactivated}
      <3>1. deactivated' = CASE wanted'.active -> 0
                             [] ~ wanted'.active /\ wanted.active -> clock
                             [] OTHER -> deactivated
        BY <1>4 DEF T!Insert
      <3>2. CASE wanted'.active
        BY <3>1, <3>2
      <3>3. CASE ~ wanted'.active /\ wanted.active
        BY <3>1, <3>3
      <3>4. CASE ~ wanted'.active /\ ~ wanted.active
        BY <3>1, <3>4
      <3> QED
        BY <3>2, <3>3, <3>4
    <2>3. /\ Cardinality(UnderWay') \in Nat
          /\ Cardinality(UnderWay') <= Cardinality(UnderWay) - 1
      BY <2>1, UnderWayCounts DEF UnderWay
    <2>4. Len(rows') = Len(rows) + 1 /\ Len(rows) \in Nat
      BY <2>1 DEF RegistryTypes
    <2>5. deactivated' <= clock'
      BY <2>1, <2>2 DEF RegistryBounds, RegistryTypes
    <2>6. inserted \in Nat /\ Len(rows) <= inserted /\ inserted + Cardinality(UnderWay) <= MaxRows
      BY DEF RegistryBounds
    <2>7. inserted' + Cardinality(UnderWay') <= MaxRows
      BY <2>1, <2>3, <2>6, UnderWayCounts
    <2>8. inserted' \in Nat /\ Len(rows') <= inserted'
      BY <2>1, <2>4, <2>6
    <2>9. clock' <= RegistryTime /\ login' \in BOOLEAN
      BY <2>1 DEF RegistryBounds
    <2> QED
      BY <2>5, <2>7, <2>8, <2>9 DEF RegistryBounds
  <1>5. CASE T!Merge
    <2>1. PICK x \in DOMAIN rows : rows' = T!RemoveAt(rows, x)
      BY <1>5 DEF T!Merge
    <2>2. Len(rows') = Len(rows) - 1 /\ Len(rows) \in Nat
      BY <2>1, RemovedAt DEF RegistryTypes
    <2>3. UNCHANGED <<clock, deactivated, inserted, job, login>>
      BY <1>5 DEF T!Merge, T!readers, T!history
    <2> QED
      BY <2>2, <2>3 DEF RegistryBounds, UnderWay
  <1>6. CASE T!Tick
    BY <1>6 DEF T!Tick, T!history, RegistryBounds, RegistryTypes, UnderWay
  <1>7. ASSUME NEW answer \in BOOLEAN, T!Login(answer) PROVE RegistryBounds'
    BY <1>7 DEF T!Login, T!history, T!readers, RegistryBounds, UnderWay
  <1>8. ASSUME NEW k \in Sockets, T!Connect(k) \/ T!ShouldForceDisconnect(k) PROVE RegistryBounds'
    BY <1>8 DEF T!Connect, T!ShouldForceDisconnect, T!history, RegistryBounds, UnderWay
  <1>9. CASE UNCHANGED T!vars
    BY <1>9 DEF T!vars, RegistryBounds, UnderWay
  <1> QED
    BY <1>1, <1>2, <1>3, <1>4, <1>5, <1>6, <1>7, <1>8, <1>9
    DEF T!Next, T!UpdateTenant, T!SetStatus

LEMMA RegistryTyped == RegistryInv /\ RegistryBounds => T!TypeOK
  <1> SUFFICES ASSUME RegistryInv, RegistryBounds PROVE T!TypeOK
    BY Zenon
  <1> USE RegistryAssumption
  <1>1. RegistryTypes /\ Statements /\ Told
    BY DEF RegistryInv
  <1>2. \A i \in DOMAIN rows : rows[i] \in [columns : T!Columns, ver : 0 .. clock]
    <2>1. ASSUME NEW i \in DOMAIN rows
          PROVE  rows[i] \in [columns : T!Columns, ver : 0 .. clock]
      <3>1. rows[i] \in TenantRows /\ rows[i].ver \in Nat /\ rows[i].ver <= clock
        BY <1>1, RowTypes DEF RegistryTypes
      <3> QED
        BY <1>1, <3>1 DEF TenantRows, RegistryTypes
    <2> QED
      BY <2>1
  <1>3. \A a \in Admins : job[a] # NoRow =>
          job[a] \in [row : [columns : T!Columns, ver : 1 .. clock], sets : SUBSET T!Names]
    BY <1>1 DEF RegistryTypes, Statements, TenantJobs, TenantRows
  <1>4. inserted \in Len(rows) .. MaxRows
    BY <1>1, UnderWayCounts DEF RegistryBounds, RegistryTypes
  <1>5. due \in [Sockets -> 0 .. RegistryTime + GateTTL]
    <2>1. \A k \in Sockets : due[k] \in Nat /\ due[k] <= RegistryTime + GateTTL
      BY <1>1 DEF Told, RegistryTypes, RegistryBounds
    <2> QED
      BY <1>1, <2>1 DEF RegistryTypes
  <1>6. wsGate \in [answer : BOOLEAN, until : 0 .. RegistryTime + GateTTL]
    BY <1>1 DEF RegistryTypes, RegistryBounds
  <1>7. /\ clock \in 1 .. RegistryTime /\ deactivated \in 0 .. clock
        /\ wanted \in T!Columns /\ login \in BOOLEAN
    BY <1>1 DEF RegistryTypes, RegistryBounds
  <1> QED
    BY <1>2, <1>3, <1>4, <1>5, <1>6, <1>7 DEF T!TypeOK

(* Sessions.                                                               *)

SessionBounds ==
  /\ sessionClock <= SessionTime /\ tenantSet \subseteq Jtis
  /\ loginAt \in [Jtis -> S!Times] /\ authSession \in [Jtis -> S!Times]
  /\ ndrSession \in [Jtis -> S!Times]

LEMMA TimesReach ==
  ASSUME SessionTypes, SessionBounds
  PROVE  /\ sessionClock \in S!Times /\ sessionClock + SessionTTL \in S!Times
         /\ 0 \in S!Times
  BY SessionsAssumption DEF SessionTypes, SessionBounds, S!Times

LEMMA SessionBoundsInit == S!Init => SessionBounds
  BY SessionsAssumption DEF S!Init, SessionBounds, S!Times

LEMMA SessionBoundsStep == SessionsInv /\ SessionBounds /\ [S!Next]_S!vars => SessionBounds'
  <1> SUFFICES ASSUME SessionsInv, SessionBounds, [S!Next]_S!vars PROVE SessionBounds'
    BY Zenon
  <1>0. SessionTypes /\ Requested
    BY DEF SessionsInv
  <1> USE TimesReach
  <1>1. ASSUME NEW w \in Workers, S!Login(w) \/ S!EnforceCap(w) \/ S!Issue(w) \/ S!ForceLogoutUser(w)
        PROVE  SessionBounds'
    BY <1>1 DEF S!Login, S!EnforceCap, S!Issue, S!ForceLogoutUser, S!sets, SessionBounds
  <1>2. ASSUME NEW w \in Workers, NEW j \in Jtis,
               S!CreateToken(w, j) \/ S!Logout(w, j) \/ S!Refresh(w, j) \/ S!RevokeAuth(w, j)
        PROVE  SessionBounds'
    BY <1>0, <1>2 DEF S!CreateToken, S!Logout, S!Refresh, S!RevokeAuth, S!sets, SessionBounds
  <1>3. ASSUME NEW w \in Workers,
               S!PutAuthSession(w) \/ S!PutNdrSession(w) \/ S!ListNdrSession(w)
        PROVE  SessionBounds'
    <2>1. req[w].jti \in Jtis
      BY <1>0, <1>3 DEF Requested, Sound, Carries, S!PutAuthSession, S!PutNdrSession,
                        S!ListNdrSession, S!Now
    <2> QED
      BY <1>0, <1>3, <2>1 DEF S!PutAuthSession, S!PutNdrSession, S!ListNdrSession, S!sets,
                              SessionBounds
  <1>4. ASSUME NEW w \in Workers, S!RevokeNdr(w) \/ S!ForceOne(w) \/ S!ForceDone(w)
        PROVE  SessionBounds'
    BY <1>0, <1>4 DEF S!RevokeNdr, S!ForceOne, S!ForceDone, SessionBounds
  <1>5. ASSUME NEW j \in Jtis, S!Me(j) PROVE SessionBounds'
    BY <1>0, <1>5 DEF S!Me, S!sets, SessionBounds
  <1>6. ASSUME NEW J \in SUBSET ndrSet, S!ForceLogoutDevice(J) PROVE SessionBounds'
    BY <1>0, <1>6 DEF S!ForceLogoutDevice, SessionBounds
  <1>7. CASE S!GetActiveSessions
    BY <1>7 DEF S!GetActiveSessions, S!ActiveSessions, SessionBounds
  <1>8. CASE S!Tick
    <2>1. /\ sessionClock < SessionTime /\ sessionClock' = sessionClock + 1
          /\ authSession' = S!Unexpired(authSession) /\ ndrSession' = S!Unexpired(ndrSession)
          /\ UNCHANGED <<loginAt, tenantSet>>
      BY <1>8 DEF S!Tick, S!sets
    <2>2. ASSUME NEW f \in [Jtis -> S!Times] PROVE S!Unexpired(f) \in [Jtis -> S!Times]
      BY <1>0 DEF S!Unexpired
    <2>3. sessionClock' <= SessionTime
      BY <1>0, <2>1, SessionsAssumption DEF SessionTypes
    <2> QED
      BY <2>1, <2>2, <2>3 DEF SessionBounds
  <1>9. CASE UNCHANGED S!vars
    BY <1>9 DEF S!vars, SessionBounds
  <1> QED
    BY <1>1, <1>2, <1>3, <1>4, <1>5, <1>6, <1>7, <1>8, <1>9 DEF S!Next

LEMMA SessionsTyped == SessionsInv /\ SessionBounds => S!TypeOK
  BY SessionsAssumption DEF SessionsInv, SessionTypes, SessionBounds, S!TypeOK

-----------------------------------------------------------------------------
(* The three side by side.  A behaviour of MCSpec shows each component one *)
(* of its own behaviours.                                                  *)

LEMMA EachOfAccess == MCSpec => Spec /\ T!Spec /\ S!Spec
  <1>1. MCInit => Init /\ T!Init /\ S!Init
    BY DEF MCInit
  <1>2. [MCNext]_<<side, vars, registry, sessions>> => [Next]_vars
    BY DEF MCNext
  <1>3. [MCNext]_<<side, vars, registry, sessions>> => [T!Next]_T!vars
    BY DEF MCNext, registry, T!vars
  <1>4. [MCNext]_<<side, vars, registry, sessions>> => [S!Next]_S!vars
    BY DEF MCNext, sessions, S!vars
  <1> QED
    BY <1>1, <1>2, <1>3, <1>4, PTL DEF MCSpec, Spec, T!Spec, S!Spec

Moves == side \in {"accounts", "tenants", "sessions"}

(* For every set of accounts, tenants, administrators, WebSockets, tokens  *)
(* and requests and every lifetime, the variables of the three components  *)
(* keep their types.                                                       *)
THEOREM AccessTypeCorrect == MCSpec => []TypesOK
<1>1. MCSpec => []Moves
  <2>1. MCInit => Moves
    BY DEF MCInit, Moves
  <2>2. Moves /\ [MCNext]_<<side, vars, registry, sessions>> => Moves'
    BY DEF MCNext, Moves
  <2> QED
    BY <2>1, <2>2, PTL DEF MCSpec
<1>2. NoticedInv => TypeOK
  BY DEF NoticedInv
<1>3. T!Spec => [](RegistryInv /\ RegistryBounds)
  <2>1. RegistryInv => RegistryTypes
    BY DEF RegistryInv
  <2> QED
    BY <2>1, RegistryInit, RegistryStep, BoundsInit, BoundsStep, PTL DEF T!Spec
<1>4. S!Spec => [](SessionsInv /\ SessionBounds)
  BY SessionsInit, SessionsStep, SessionBoundsInit, SessionBoundsStep, PTL DEF S!Spec
<1>5. Moves /\ TypeOK /\ T!TypeOK /\ S!TypeOK => TypesOK
  BY DEF Moves, TypesOK
<1> QED
  BY <1>1, <1>2, <1>3, <1>4, <1>5, EachOfAccess, Noticed, RegistryTyped, SessionsTyped, PTL
=============================================================================
