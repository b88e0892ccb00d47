------------------------------ MODULE MCAccess ------------------------------
(* Accounts, TenantRegistry and Sessions, checked side by side: none reads *)
(* what another writes, so a behaviour moves one of them, chosen at its    *)
(* start, and leaves the others in their first state.                      *)
EXTENDS Accounts, TLC

CONSTANTS
  root, u1, u2, t1, t2,
  a1, a2, k1, k2,
  Admins, Features, NewTenant, Sockets, NoRow, GateTTL, RegistryTime, MaxRows,
  j1, j2, w1, w2,
  Jtis, Workers, NoJti, MaxSessions, SessionTTL, SessionTime

ASSUME RegistryAssumption ==
  /\ NewTenant \in Features
  /\ GateTTL \in Nat \ {0}
  /\ IsFiniteSet(Admins)
  /\ RegistryTime \in Nat \ {0} /\ MaxRows \in Nat \ {0}

ASSUME SessionsAssumption ==
  /\ NoJti \notin Jtis
  /\ SessionTTL \in Nat \ {0}
  /\ SessionTime \in Nat \ {0}

VARIABLES
  side,        \* the component that moves
  clock, deactivated, rows, inserted, job, wanted, overlapped, tied,
  wsGate, due, login,
  sessionClock, loginAt, authSession, ndrSession, authSet, ndrSet, tenantSet,
  sessionIssued, over, req

registry == <<clock, deactivated, rows, inserted, job, wanted, overlapped, tied,
              wsGate, due, login>>
sessions == <<sessionClock, loginAt, authSession, ndrSession, authSet, ndrSet,
              tenantSet, sessionIssued, over, req>>

T == INSTANCE TenantRegistry
       WITH now <- clock, offSince <- deactivated, MaxTime <- RegistryTime
S == INSTANCE Sessions
       WITH now <- sessionClock, issued <- sessionIssued,
            TokenTTL <- SessionTTL, MaxTime <- SessionTime

MCInit ==
  /\ Init /\ T!Init /\ S!Init
  /\ side \in {"accounts", "tenants", "sessions"}
  /\ side = "tenants" \/ rows = <<>>

MCNext ==
  /\ UNCHANGED side
  /\ \/ side = "accounts" /\ Next /\ UNCHANGED <<registry, sessions>>
     \/ side = "tenants" /\ T!Next /\ UNCHANGED <<vars, sessions>>
     \/ side = "sessions" /\ S!Next /\ UNCHANGED <<vars, registry>>

MCSpec == MCInit /\ [][MCNext]_<<side, vars, registry, sessions>>

Symmetry == UNION {Permutations({t1, t2}), Permutations({a1, a2}),
                   Permutations({k1, k2})}

TypesOK ==
  CASE side = "accounts" -> TypeOK
    [] side = "tenants" -> T!TypeOK
    [] side = "sessions" -> S!TypeOK
ChangesTakeHold == T!ChangesTakeHold
SessionsEnd == S!SessionsEnd
=============================================================================
