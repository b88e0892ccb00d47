------------------------------ MODULE Accounts ------------------------------
(***************************************************************************)
(* The rows of the users table, the handlers of auth-service that create,  *)
(* edit, disable and delete them, and the tokens that were issued from     *)
(* them.  A token repeats the role and tenant its user had when it was     *)
(* issued, and every handler decides by the token, so a handler may act on *)
(* what is no longer true.  ndr-engine asks whether the user is active     *)
(* through a cache of UserTTL.                                             *)
(*                                                                         *)
(* Abstracted: names, passwords and addresses; all roles below the         *)
(* administrators are one role, "analyst"; the session keys (Sessions).    *)
(* Changes of the table are mutations that are waited for.                 *)
(***************************************************************************)
EXTENDS Integers, FiniteSets

CONSTANTS
  Ids,         \* accounts that may exist
  Root,        \* the account of the installation, a super_admin
  Clients,     \* those that log in; the others are only managed
  Tenants,
  TokenTTL,    \* lifetime of a token
  UserTTL,     \* lifetime of the engine's answer
  MaxTime      \* bound on the clock

ASSUME AccountsAssumption ==
  /\ Root \in Ids /\ Clients \subseteq Ids
  /\ Tenants # {}
  /\ TokenTTL \in Nat \ {0}
  /\ UserTTL \in Nat \ {0}
  /\ MaxTime \in Nat

VARIABLES
  now,
  users,      \* the rows, NoUser for an account that does not exist
  token,      \* the claims each account last got a token with
  reading,    \* a login or refresh that has read its row, by account
  stale,      \* when the row last stopped agreeing with its token's role
  offSince,   \* when the row was last disabled
  cache       \* ndr:active:user:<name>

vars == <<now, users, token, reading, stale, offSince, cache>>
history == <<stale, offSince>>

Roles == {"super_admin", "tenant_admin", "analyst"}
NoUser == [role |-> "none", tenant |-> "none", active |-> FALSE]
NoToken == [role |-> "none", tenant |-> "none", exp |-> 0]
NoAnswer == [answer |-> FALSE, until |-> 0]
Rows == [role : Roles, tenant : Tenants, active : BOOLEAN]
Tokens == [role : Roles, tenant : Tenants, exp : 1 .. MaxTime + TokenTTL + 1]

Exists(i) == users[i] # NoUser
Valid(i) == token[i].exp > now

Init ==
  /\ now = 1
  /\ \E t \in Tenants :
       /\ users = [i \in Ids |->
            IF i = Root
            THEN [role |-> "super_admin", tenant |-> t, active |-> TRUE]
            ELSE NoUser]
       /\ token = [i \in Ids |->
            IF i = Root
            THEN [role |-> "super_admin", tenant |-> t, exp |-> MaxTime + TokenTTL]
            ELSE NoToken]
  /\ reading = [i \in Ids |-> NoUser]
  /\ stale = [i \in Ids |-> 0]
  /\ offSince = [i \in Ids |-> 0]
  /\ cache = [i \in Ids |-> NoAnswer]

-----------------------------------------------------------------------------
(* Tokens.                                                                 *)

LookUp_KeepsRole(i) ==                                        \* mutant
  /\ i \in Clients \ {Root} /\ Exists(i) /\ users[i].active /\ reading[i] = NoUser
  /\ reading' = [reading EXCEPT ![i] =
       [users[i] EXCEPT !.role = IF Valid(i) THEN token[i].role ELSE @]]
  /\ UNCHANGED <<now, users, token, cache, history>>

(* A login or a refresh looks the row up, and refuses a disabled user ...  *)
(* Root's token is taken to be renewed whenever it runs out.               *)
LookUp(i) ==
  /\ i \in Clients \ {Root} /\ Exists(i) /\ users[i].active /\ reading[i] = NoUser
  /\ reading' = [reading EXCEPT ![i] = users[i]]
  /\ UNCHANGED <<now, users, token, cache, history>>

IssueToken_Rereads(i) ==                                      \* mutant
  /\ reading[i] # NoUser
  /\ token' = [token EXCEPT ![i] = [role |-> users[i].role,
                                    tenant |-> users[i].tenant,
                                    exp |-> now + TokenTTL]]
  /\ reading' = [reading EXCEPT ![i] = NoUser]
  /\ stale' = [stale EXCEPT ![i] = 0]
  /\ UNCHANGED <<now, users, cache, offSince>>

(* ... and issues a token from what it has read.                           *)
IssueToken(i) ==
  /\ reading[i] # NoUser
  /\ token' = [token EXCEPT ![i] = [role |-> reading[i].role,
                                    tenant |-> reading[i].tenant,
                                    exp |-> now + TokenTTL]]
  /\ reading' = [reading EXCEPT ![i] = NoUser]
  /\ stale' = [stale EXCEPT ![i] = IF reading[i].role = users[i].role THEN 0 ELSE @]
  /\ UNCHANGED <<now, users, cache, offSince>>

-----------------------------------------------------------------------------
(* The handlers of routes/users.rs.  c is the caller's claims.             *)

Claims(i) == token[i]
IsSuper(c) == c.role = "super_admin"
IsTenantAdmin(c) == c.role = "tenant_admin"
IsAdmin(c) == IsSuper(c) \/ IsTenantAdmin(c)

(* A super_admin names the tenant; a tenant administrator has no choice.   *)
TenantChoice(c, own) == IF IsSuper(c) THEN Tenants ELSE {own}

(* A change of rows, and what it means to the history.                     *)
Write(new) ==
  /\ users' = new
  /\ stale' = [i \in Ids |-> IF ~ Valid(i) /\ reading[i] = NoUser THEN 0
                             ELSE IF new[i].role # users[i].role THEN now
                             ELSE stale[i]]
  /\ offSince' = [i \in Ids |-> IF new[i].active \/ i \notin Clients THEN 0
                                ELSE IF users[i].active THEN now
                                ELSE offSince[i]]
  /\ UNCHANGED <<now, token, reading, cache>>

Create(caller, id, role, tenant) ==
  LET c == Claims(caller)
  IN /\ Valid(caller) /\ IsAdmin(c) /\ ~ Exists(id)
     /\ ~ (IsTenantAdmin(c) /\ role = "super_admin")
     /\ tenant \in TenantChoice(c, c.tenant)
     /\ Write([users EXCEPT ![id] =
          [role |-> role, tenant |-> tenant, active |-> TRUE]])

(* PUT /users/:id.  An absent role or tenant is kept, an absent active is  *)
(* true.                                                                   *)
Update(caller, id, role, tenant, active) ==
  LET c == Claims(caller)
  IN /\ Valid(caller) /\ IsAdmin(c) /\ Exists(id)
     /\ id # caller /\ users[id].role # "super_admin"
     /\ IsTenantAdmin(c) => /\ users[id].tenant = c.tenant
                            /\ role = "analyst"
     /\ tenant \in TenantChoice(c, users[id].tenant)
     /\ Write([users EXCEPT ![id] =
          [role |-> role, tenant |-> tenant, active |-> active]])

SetStatus_AnyRole(caller, id, active) ==                      \* mutant
  LET c == Claims(caller)
  IN /\ Valid(caller) /\ IsAdmin(c) /\ Exists(id)
     /\ id # caller
     /\ IsTenantAdmin(c) => /\ users[id].tenant = c.tenant
                            /\ users[id].role # "tenant_admin"
     /\ Write([users EXCEPT ![id].active = active])

SetStatus(caller, id, active) ==
  LET c == Claims(caller)
  IN /\ Valid(caller) /\ IsAdmin(c) /\ Exists(id)
     /\ id # caller /\ users[id].role # "super_admin"
     /\ IsTenantAdmin(c) => /\ users[id].tenant = c.tenant
                            /\ users[id].role # "tenant_admin"
     /\ Write([users EXCEPT ![id].active = active])

Delete(caller, id) ==
  LET c == Claims(caller)
  IN /\ Valid(caller) /\ Exists(id) /\ users[id].role # "super_admin"
     /\ \/ IsSuper(c) /\ id # caller
        \/ /\ IsTenantAdmin(c) /\ users[id].tenant = c.tenant
           /\ users[id].role = "analyst"
     /\ Write([users EXCEPT ![id] = NoUser])

-----------------------------------------------------------------------------
(* auth_middleware's gate: an analyst's request with no cached answer asks *)
(* the table, and an account without a row counts as active.               *)
IsUserActive(i) == Exists(i) => users[i].active

FillCache(i) ==
  /\ Valid(i) /\ token[i].role = "analyst" /\ cache[i].until <= now
  /\ cache' = [cache EXCEPT ![i] = [answer |-> IsUserActive(i),
                                    until |-> now + UserTTL]]
  /\ UNCHANGED <<now, users, token, reading, history>>

Admitted(i) ==
  Valid(i) /\ (token[i].role = "analyst" => cache[i].answer /\ cache[i].until > now)

(* Time.  A request that has read a row is answered within one unit, and   *)
(* what has expired is as good as absent.                                  *)
Tick ==
  /\ now < MaxTime
  /\ \A i \in Ids : reading[i] = NoUser
  /\ now' = now + 1
  /\ token' = [i \in Ids |-> IF token[i].exp > now + 1 THEN token[i] ELSE NoToken]
  /\ cache' = [i \in Ids |-> IF cache[i].until > now + 1 THEN cache[i] ELSE NoAnswer]
  /\ UNCHANGED <<users, reading, history>>

-----------------------------------------------------------------------------
HandledFor(caller) ==
  \E id \in Ids :
    \/ \E role \in Roles, tenant \in Tenants :
         \/ Create(caller, id, role, tenant)
         \/ \E active \in BOOLEAN : Update(caller, id, role, tenant, active)
    \/ \E active \in BOOLEAN : SetStatus(caller, id, active)
    \/ Delete(caller, id)

Next ==
  \/ \E i \in Ids : LookUp(i) \/ IssueToken(i) \/ FillCache(i) \/ HandledFor(i)
  \/ Tick

Spec == Init /\ [][Next]_vars

-----------------------------------------------------------------------------
(* The values each variable takes.                                         *)
TypeOK ==
  /\ now \in 1 .. MaxTime + 1
  /\ users \in [Ids -> Rows \cup {NoUser}]
  /\ token \in [Ids -> Tokens \cup {NoToken}]
  /\ reading \in [Ids -> Rows \cup {NoUser}]
  /\ stale \in [Ids -> 0 .. MaxTime + 1]
  /\ offSince \in [Ids -> 0 .. MaxTime + 1]
  /\ cache \in [Ids -> [answer : BOOLEAN, until : 0 .. MaxTime + UserTTL + 1]]

(* What an administrator takes away works no longer than one lifetime: a  *)
(* role that of the token, since refreshing reads the row again and        *)
(* polling /me renews nothing (refresh.rs:60-67, auth.rs:59), and a        *)
(* disabled analyst's access to ndr-engine UserTTL (api/mod.rs:571-596).   *)
ChangesAreNoticed ==
  \A i \in Ids :
    /\ Valid(i) /\ token[i].role # users[i].role =>
         token[i].exp <= stale[i] + TokenTTL
    /\ Exists(i) /\ ~ users[i].active /\ cache[i].answer =>
         cache[i].until <= offSince[i] + UserTTL

(* No sequence of calls of these handlers leaves the installation without  *)
(* an active super_admin.                                                  *)
RootRemains == \E i \in Ids : users[i].role = "super_admin" /\ users[i].active

=============================================================================
