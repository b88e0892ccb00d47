------------------------------ MODULE Sessions ------------------------------
(***************************************************************************)
(* The login sessions of one user.  auth-service issues a token and writes *)
(* its session twice in Valkey, as provigil:session:<jti> for itself and   *)
(* as ndr:session:<jti> for ndr-engine, each with a time to live, and      *)
(* lists it in a set per user and per tenant of each of the two names.     *)
(* Requests to log in, refresh, poll /me, log out, list and force out run  *)
(* concurrently, and every Valkey call of theirs that another request can  *)
(* fall between is a step of its own.                                      *)
(*                                                                         *)
(* Abstracted: roles, permissions and the other contents of a token; the   *)
(* expiry of the sets, a week against the hour of a session; the set       *)
(* provigil:tenant_sessions, which nothing reads; consecutive calls on the *)
(* sets of one name, taken together; calls that fail.                      *)
(***************************************************************************)
EXTENDS Integers, FiniteSets

CONSTANTS
  Jtis,          \* token identifiers, each used once
  Workers,       \* requests being served at the same time
  NoJti,
  MaxSessions,   \* MAX_CONCURRENT_SESSIONS
  TokenTTL,      \* lifetime of a token and of both its session keys
  MaxTime        \* bound on the clock

VARIABLES
  now,
  loginAt,      \* login_time and iat of each token, 0 before it is created
  authSession,  \* expiry of provigil:session:<jti>, 0 when absent
  ndrSession,   \* expiry of ndr:session:<jti>, 0 when absent
  authSet,      \* provigil:user_sessions
  ndrSet,       \* ndr:user_sessions
  tenantSet,    \* ndr:tenant_sessions
  issued,       \* tokens handed to the client
  over,         \* tokens whose end has been reported to whoever asked for it
  req           \* what each worker is doing

vars == <<now, loginAt, authSession, ndrSession, authSet,
          ndrSet, tenantSet, issued, over, req>>
sets == <<authSet, ndrSet, tenantSet>>

Steps == {"idle", "create", "auth_hash", "ndr_hash", "ndr_set", "cap",
          "evict", "revoke", "revoke_rest", "force"}
Afterwards == {"idle", "create", "evict"}

Idle == [at |-> "idle", jti |-> NoJti, old |-> NoJti, todo |-> {},
         known |-> FALSE, next |-> "idle"]

Requests == [at : Steps, jti : Jtis \cup {NoJti}, old : Jtis \cup {NoJti},
             todo : SUBSET Jtis, known : BOOLEAN, next : Afterwards]

InAuth(j) == authSession[j] > now
InNdr(j) == ndrSession[j] > now
JwtValid(j) == now < loginAt[j] + TokenTTL
Unused(j) == loginAt[j] = 0
Now(w, step) == req[w].at = step
Become(w, r) == req' = [req EXCEPT ![w] = r]
Goto(w, step) == req' = [req EXCEPT ![w].at = step]

Init ==
  /\ now = 1
  /\ loginAt = [j \in Jtis |-> 0]
  /\ authSession = [j \in Jtis |-> 0]
  /\ ndrSession = [j \in Jtis |-> 0]
  /\ authSet = {} /\ ndrSet = {} /\ tenantSet = {}
  /\ issued = {}
  /\ over = {}
  /\ req = [w \in Workers |-> Idle]

-----------------------------------------------------------------------------
(* Issuing a token.                                                        *)

(* A password login that has passed its checks.                            *)
Login(w) ==
  /\ Now(w, "idle")
  /\ Become(w, [Idle EXCEPT !.at = "create"])
  /\ UNCHANGED <<now, loginAt, authSession, ndrSession, sets, issued,
                 over>>

(* The token is created with its time of issue and its time of login.      *)
CreateToken(w, j) ==
  /\ Now(w, "create") /\ Unused(j)
  /\ loginAt' = [loginAt EXCEPT ![j] = now]
  /\ Become(w, [Idle EXCEPT !.at = "auth_hash", !.jti = j])
  /\ UNCHANGED <<now, authSession, ndrSession, sets, issued, over>>

(* Nobody knows the token yet, so nothing can come between its hash and    *)
(* its place in the set.                                                   *)
PutAuthSession(w) ==
  /\ Now(w, "auth_hash")
  /\ authSession' = [authSession EXCEPT ![req[w].jti] = now + TokenTTL]
  /\ authSet' = authSet \cup {req[w].jti}
  /\ Goto(w, "ndr_hash")
  /\ UNCHANGED <<now, loginAt, ndrSession, ndrSet, tenantSet, issued, over>>

PutNdrSession(w) ==
  /\ Now(w, "ndr_hash")
  /\ ndrSession' = [ndrSession EXCEPT ![req[w].jti] = now + TokenTTL]
  /\ Goto(w, "ndr_set")
  /\ UNCHANGED <<now, loginAt, authSession, sets, issued, over>>

ListNdrSession(w) ==
  /\ Now(w, "ndr_set")
  /\ tenantSet' = tenantSet \cup {req[w].jti}
  /\ ndrSet' = ndrSet \cup {req[w].jti}
  /\ Goto(w, "cap")
  /\ UNCHANGED <<now, loginAt, authSession, ndrSession, authSet,
                 issued, over>>

(* A session whose hash is gone counts as logged in at time zero.          *)
LoginTime(j) == IF InAuth(j) THEN loginAt[j] ELSE 0

(* The choices of k members of S with the oldest logins; a stable sort of  *)
(* what SMEMBERS returns leaves the order of equal times open.             *)
Oldest(S, k) ==
  {V \in SUBSET S : /\ Cardinality(V) = k
                    /\ \A v \in V, s \in S \ V : LoginTime(v) <= LoginTime(s)}

(* Past the cap, the oldest of the sessions listed are to be evicted.      *)
EnforceCap(w) ==
  /\ Now(w, "cap")
  /\ LET excess == Cardinality(authSet) - MaxSessions
     IN \E V \in Oldest(authSet, IF excess > 0 THEN excess ELSE 0) :
          req' = [req EXCEPT ![w].at = "evict", ![w].todo = V]
  /\ UNCHANGED <<now, loginAt, authSession, ndrSession, sets, issued,
                 over>>

(* The response carries the token and the cookie.                          *)
Issue(w) ==
  /\ Now(w, "evict") /\ req[w].todo = {}
  /\ issued' = issued \cup {req[w].jti}
  /\ Become(w, Idle)
  /\ UNCHANGED <<now, loginAt, authSession, ndrSession, sets, over>>

-----------------------------------------------------------------------------
(* Ending a session: revoke_session, in its two halves.                    *)

RevokeAuth(w, j) ==
  /\ \/ Now(w, "revoke") /\ j = req[w].old
     \/ Now(w, "evict") /\ j \in req[w].todo
  /\ authSession' = [authSession EXCEPT ![j] = 0]
  /\ Become(w, [req[w] EXCEPT !.at = "revoke_rest", !.old = j,
                              !.known = InAuth(j), !.todo = @ \ {j},
                              !.next = IF Now(w, "evict") THEN "evict" ELSE @])
  /\ UNCHANGED <<now, loginAt, ndrSession, sets, issued, over>>

RevokeNdr_KeepsHash(w) ==                                     \* mutant
  LET j == req[w].old
      gone == IF req[w].known \/ req[w].next = "evict" THEN {j} ELSE {}
  IN /\ Now(w, "revoke_rest")
     /\ authSet' = authSet \ gone
     /\ ndrSet' = ndrSet \ gone
     /\ tenantSet' = tenantSet \ gone
     /\ over' = IF req[w].next = "evict" THEN over ELSE over \cup {j}
     /\ Become(w, IF req[w].next = "idle" THEN Idle
                  ELSE [req[w] EXCEPT !.at = req[w].next, !.old = NoJti,
                                      !.known = FALSE, !.next = "idle"])
     /\ UNCHANGED <<now, loginAt, authSession, ndrSession, issued>>

(* The sets to clean are learnt from the hash; the eviction of a login     *)
(* names them itself.                                                      *)
RevokeNdr(w) ==
  LET j == req[w].old
      gone == IF req[w].known \/ req[w].next = "evict" THEN {j} ELSE {}
  IN /\ Now(w, "revoke_rest")
     /\ ndrSession' = [ndrSession EXCEPT ![j] = 0]
     /\ authSet' = authSet \ gone
     /\ ndrSet' = ndrSet \ gone
     /\ tenantSet' = tenantSet \ gone
     /\ over' = IF req[w].next = "evict" THEN over ELSE over \cup {j}
     /\ Become(w, IF req[w].next = "idle" THEN Idle
                  ELSE [req[w] EXCEPT !.at = req[w].next, !.old = NoJti,
                                      !.known = FALSE, !.next = "idle"])
     /\ UNCHANGED <<now, loginAt, authSession, issued>>

Logout(w, j) ==
  /\ Now(w, "idle") /\ j \in issued
  /\ Become(w, [Idle EXCEPT !.at = "revoke", !.old = j])
  /\ UNCHANGED <<now, loginAt, authSession, ndrSession, sets, issued,
                 over>>

(* The token's expiry is not looked at, only its session.  A user disabled *)
(* by now loses the session; anyone else gets a new token for the old one. *)
Refresh(w, j) ==
  /\ Now(w, "idle") /\ j \in issued /\ InAuth(j)
  /\ \E next \in {"create", "idle"} :
       Become(w, [Idle EXCEPT !.at = "revoke", !.old = j, !.next = next])
  /\ UNCHANGED <<now, loginAt, authSession, ndrSession, sets, issued,
                 over>>

(* The poll of /me: a valid token whose session lives slides that session. *)
Me(j) ==
  /\ j \in issued /\ JwtValid(j) /\ InAuth(j)
  /\ authSession' = [authSession EXCEPT ![j] = now + TokenTTL]
  /\ UNCHANGED <<now, loginAt, ndrSession, sets, issued, over, req>>

-----------------------------------------------------------------------------
(* The administrator's side, in ndr-engine.                                *)

(* Every session listed for the user.                                      *)
ForceLogoutUser(w) ==
  /\ Now(w, "idle")
  /\ Become(w, [Idle EXCEPT !.at = "force", !.todo = ndrSet])
  /\ UNCHANGED <<now, loginAt, authSession, ndrSession, sets, issued,
                 over>>

ForceOne(w) ==
  /\ Now(w, "force")
  /\ \E j \in req[w].todo :
       /\ ndrSession' = [ndrSession EXCEPT ![j] = 0]
       /\ authSession' = [authSession EXCEPT ![j] = 0]
       /\ tenantSet' = tenantSet \ {j}
       /\ req' = [req EXCEPT ![w].todo = @ \ {j}]
       /\ over' = over \cup {j}
  /\ UNCHANGED <<now, loginAt, authSet, ndrSet, issued>>

(* Both sets of the user are deleted whole.                                *)
ForceDone(w) ==
  /\ Now(w, "force") /\ req[w].todo = {}
  /\ ndrSet' = {} /\ authSet' = {}
  /\ Become(w, Idle)
  /\ UNCHANGED <<now, loginAt, authSession, ndrSession, tenantSet,
                 issued, over>>

(* The live sessions of one address and browser; any of them may be those. *)
ForceLogoutDevice(J) ==
  LET without(f) == [j \in Jtis |-> IF j \in J THEN 0 ELSE f[j]]
  IN /\ J # {} /\ \A j \in J : InNdr(j)
     /\ ndrSession' = without(ndrSession)
     /\ authSession' = without(authSession)
     /\ ndrSet' = ndrSet \ J /\ authSet' = authSet \ J
     /\ tenantSet' = tenantSet \ J
     /\ over' = over \cup J
     /\ UNCHANGED <<now, loginAt, issued, req>>

(* Listing the active sessions drops the expired ones from the tenant's    *)
(* set.                                                                    *)
ActiveSessions == {j \in tenantSet : InNdr(j)}

GetActiveSessions ==
  /\ tenantSet # ActiveSessions
  /\ tenantSet' = ActiveSessions
  /\ UNCHANGED <<now, loginAt, authSession, ndrSession, authSet,
                 ndrSet, issued, over, req>>

Unexpired(f) == [j \in Jtis |-> IF f[j] > now + 1 THEN f[j] ELSE 0]

(* Time, in which keys expire.  A request takes less than a unit of it.    *)
Tick ==
  /\ now < MaxTime
  /\ \A w \in Workers : Now(w, "idle")
  /\ now' = now + 1
  /\ authSession' = Unexpired(authSession)
  /\ ndrSession' = Unexpired(ndrSession)
  /\ UNCHANGED <<loginAt, sets, issued, over, req>>

-----------------------------------------------------------------------------
Next ==
  \/ \E w \in Workers :
       \/ Login(w)
       \/ \E j \in Jtis : CreateToken(w, j)
       \/ PutAuthSession(w) \/ PutNdrSession(w) \/ ListNdrSession(w)
       \/ EnforceCap(w) \/ Issue(w) \/ RevokeNdr(w)
       \/ \E j \in Jtis : RevokeAuth(w, j) \/ Logout(w, j) \/ Refresh(w, j)
       \/ ForceLogoutUser(w) \/ ForceOne(w) \/ ForceDone(w)
  \/ \E j \in Jtis : Me(j)
  \/ \E J \in SUBSET ndrSet : ForceLogoutDevice(J)
  \/ GetActiveSessions
  \/ Tick

Spec == Init /\ [][Next]_vars

-----------------------------------------------------------------------------
(* The values each variable takes.                                         *)
Times == 0 .. MaxTime + TokenTTL

TypeOK ==
  /\ now \in 1 .. MaxTime + 1
  /\ loginAt \in [Jtis -> Times]
  /\ authSession \in [Jtis -> Times]
  /\ ndrSession \in [Jtis -> Times]
  /\ authSet \subseteq Jtis /\ ndrSet \subseteq Jtis
  /\ tenantSet \subseteq Jtis
  /\ issued \subseteq Jtis /\ over \subseteq Jtis
  /\ req \in [Workers -> Requests]

(* A worker between listing its new session and having enforced the cap.   *)
Issuing(w) ==
  \/ req[w].at \in {"ndr_hash", "ndr_set", "cap", "evict"}
  \/ Now(w, "revoke_rest") /\ req[w].next = "evict"

(* A session whose end was reported, by a logout, a refresh or a forced    *)
(* logout, is accepted by neither service again (jwt.rs:56-60).            *)
OverInBoth == \A j \in over : ~ InAuth(j) /\ ~ InNdr(j)

(* Sliding ends: however often /me is polled, a session is dead before two *)
(* token lifetimes have passed since its login (me.rs:26-48, auth.rs:59).  *)
SlidingIsBounded ==
  \A j \in Jtis : authSession[j] # 0 => authSession[j] < loginAt[j] + 2 * TokenTTL

(* Both: a session ends, for whoever ends it and at the latest by itself.   *)
SessionsEnd == OverInBoth /\ SlidingIsBounded

-----------------------------------------------------------------------------
(* Statements that this code does not keep: TLC finds a counterexample to  *)
(* each (README).                                                          *)

(* The cap as the comment at login.rs:398-401 states it, over the sessions *)
(* that are alive and not only over those still listed.                    *)
AliveWithinCap ==
  (\A w \in Workers : ~ Issuing(w)) =>
    Cardinality({j \in Jtis : InAuth(j)}) <= MaxSessions

(* A session that slides keeps both services' consent (me.rs:47).          *)
PolledStaysAlive ==
  \A j \in issued : InAuth(j) => InNdr(j)
=============================================================================
