----------------------------- MODULE SensorKeys -----------------------------
(***************************************************************************)
(* Sensor key authentication in ndr-engine: the shared Redis cache of key  *)
(* verdicts (src/rust/ndr-engine/src/auth/sensor_cache.rs), the row of the *)
(* key in ndr.sensor_keys, the check-in request that authenticates and     *)
(* then writes a heartbeat, and the administrator's revoke and reactivate  *)
(* calls (src/rust/ndr-engine/src/api/mod.rs).                             *)
(*                                                                         *)
(* One key.  A request is served by any engine; each of its Redis and      *)
(* ClickHouse calls is a step.  All engines use one ClickHouse server, so  *)
(* the row is what SELECT ... FINAL returns there.                         *)
(***************************************************************************)
EXTENDS Naturals

CONSTANTS Request,    \* concurrent requests with the key
          MaxAdmin,   \* bound: revoke and reactivate calls
          MaxFaults   \* bound: failed Redis and ClickHouse calls

ASSUME KeysAssumption == MaxAdmin \in Nat /\ MaxFaults \in Nat

VARIABLES
    row,        \* ndr.sensor_keys FINAL: active = 1
    queued,     \* a mutation active = 1 is accepted and not yet applied
    cache,      \* Redis "sensorkey:<key>"
    pc,         \* [Request -> Pc]
    told,       \* [Request -> Told] what the administrator knew at its start
    admin,      \* where the administrator's call is
    known,      \* outcome of the administrator's last completed call
    clean,      \* the revocation met no request in flight and evicted the key
    adminLeft, faultsLeft

db   == <<row, queued>>
reqs == <<pc, told>>
adm  == <<admin, known, clean>>
vars == <<db, cache, reqs, adm, adminLeft, faultsLeft>>

Cached == {"none", "active", "revoked"}
Pc     == {"idle", "get", "read", "fill", "accepted", "heartbeat", "rejected",
           "vread", "vfill", "refused", "uninstall"}
Told   == {"active", "revoked", "unsure"}
Admin  == {"idle", "revoke", "evictRevoked", "reactivate", "evictActive"}

TypeOK ==
    /\ row \in BOOLEAN /\ queued \in BOOLEAN /\ clean \in BOOLEAN
    /\ cache \in Cached
    /\ pc \in [Request -> Pc]
    /\ told \in [Request -> Told]
    /\ admin \in Admin
    /\ known \in Told
    /\ adminLeft \in 0..MaxAdmin
    /\ faultsLeft \in 0..MaxFaults

Init ==
    /\ row = TRUE /\ queued = FALSE /\ cache = "none"
    /\ pc = [r \in Request |-> "idle"]
    /\ told = [r \in Request |-> "unsure"]
    /\ admin = "idle" /\ known = "active" /\ clean = TRUE
    /\ adminLeft = MaxAdmin /\ faultsLeft = MaxFaults

Fault == faultsLeft > 0 /\ faultsLeft' = faultsLeft - 1
NoFault == UNCHANGED faultsLeft

Goto(r, from, to) == pc[r] = from /\ pc' = [pc EXCEPT ![r] = to]

-----------------------------------------------------------------------------
(* resolve_tenant: the cache, then the row (the bcrypt check of the hash    *)
(* follows the read), then the cache is filled.                             *)

Begin(r) ==
    /\ Goto(r, "idle", "get")
    /\ told' = [told EXCEPT ![r] = known]
    /\ UNCHANGED <<db, cache, adm, adminLeft, faultsLeft>>

Get_Refreshes(r) ==                               \* mutant of Get
    /\ \/ cache = "active" /\ Goto(r, "get", "fill") /\ NoFault
       \/ cache = "revoked" /\ Goto(r, "get", "rejected") /\ NoFault
       \/ cache = "none" /\ Goto(r, "get", "read") /\ NoFault
       \/ Goto(r, "get", "read") /\ Fault
    /\ UNCHANGED <<db, cache, told, adm, adminLeft>>

(* A Redis error is a miss.                                                 *)
Get(r) ==
    /\ \/ cache = "active" /\ Goto(r, "get", "accepted") /\ NoFault
       \/ cache = "revoked" /\ Goto(r, "get", "rejected") /\ NoFault
       \/ cache = "none" /\ Goto(r, "get", "read") /\ NoFault
       \/ Goto(r, "get", "read") /\ Fault
    /\ UNCHANGED <<db, cache, told, adm, adminLeft>>

Read(r) ==
    /\ \/ Goto(r, "read", IF row THEN "fill" ELSE "rejected") /\ NoFault
       \/ Goto(r, "read", "rejected") /\ Fault
    /\ UNCHANGED <<db, cache, told, adm, adminLeft>>

Fill_CachesTenant(r) ==                           \* mutant of Fill
    /\ Goto(r, "fill", "accepted")
    /\ cache' = "tenant" /\ NoFault
    /\ UNCHANGED <<db, told, adm, adminLeft>>

Fill(r) ==
    /\ Goto(r, "fill", "accepted")
    /\ \/ cache' = "active" /\ NoFault
       \/ UNCHANGED cache /\ Fault
    /\ UNCHANGED <<db, told, adm, adminLeft>>

-----------------------------------------------------------------------------
(* is_revoked, asked once the key was rejected: a revoked key is answered   *)
(* with the command to uninstall.                                           *)

RevokedGet(r) ==
    /\ \/ cache = "active" /\ Goto(r, "rejected", "refused") /\ NoFault
       \/ cache = "revoked" /\ Goto(r, "rejected", "uninstall") /\ NoFault
       \/ cache = "none" /\ Goto(r, "rejected", "vread") /\ NoFault
       \/ Goto(r, "rejected", "vread") /\ Fault
    /\ UNCHANGED <<db, cache, told, adm, adminLeft>>

RevokedRead(r) ==
    /\ \/ Goto(r, "vread", IF row THEN "refused" ELSE "vfill") /\ NoFault
       \/ Goto(r, "vread", "refused") /\ Fault
    /\ UNCHANGED <<db, cache, told, adm, adminLeft>>

RevokedFill(r) ==
    /\ Goto(r, "vfill", "uninstall")
    /\ \/ cache' = "revoked" /\ NoFault
       \/ UNCHANGED cache /\ Fault
    /\ UNCHANGED <<db, told, adm, adminLeft>>

-----------------------------------------------------------------------------
(* update_sensor_heartbeat of an accepted check-in: INSERT ... SELECT of    *)
(* the row where active = 1, with a newer last_seen; FINAL then returns the *)
(* inserted row.  A mutation changes only the rows there when it started.   *)

HeartbeatSelect(r) ==
    /\ Goto(r, "accepted", IF row THEN "heartbeat" ELSE "idle")
    /\ UNCHANGED <<db, cache, told, adm, adminLeft, faultsLeft>>

HeartbeatInsert(r) ==
    /\ Goto(r, "heartbeat", "idle")
    /\ \/ row' = TRUE /\ NoFault
       \/ UNCHANGED row /\ Fault
    /\ UNCHANGED <<queued, cache, told, adm, adminLeft>>

(* The answer is sent; a check-in may skip the throttled heartbeat.         *)
Finish(r) ==
    /\ pc[r] \in {"accepted", "refused", "uninstall"}
    /\ pc' = [pc EXCEPT ![r] = "idle"]
    /\ UNCHANGED <<db, cache, told, adm, adminLeft, faultsLeft>>

-----------------------------------------------------------------------------
(* The administrator.  Revoke waits for its mutation, which comes after any *)
(* accepted before it; reactivate does not wait.  Both then evict the key,  *)
(* found by its prefix; a failed lookup or eviction is not reported.        *)

Call(kind) ==
    /\ admin = "idle" /\ adminLeft > 0
    /\ admin' = kind
    /\ adminLeft' = adminLeft - 1
    /\ known' = "unsure"
    /\ told' = [r \in Request |-> "unsure"]
    /\ UNCHANGED <<db, cache, pc, clean, faultsLeft>>

RevokeKey ==
    /\ admin = "revoke"
    /\ row' = FALSE /\ queued' = FALSE
    /\ clean' = \A r \in Request : pc[r] # "heartbeat"
    /\ admin' = "evictRevoked"
    /\ UNCHANGED <<cache, reqs, known, adminLeft, faultsLeft>>

(* The mutation's call fails, and it may have been applied all the same; the *)
(* error is reported and the cache is left alone.                           *)
CallFails ==
    /\ \/ admin = "revoke" /\ (UNCHANGED db \/ (row' = FALSE /\ queued' = FALSE))
       \/ admin = "reactivate" /\ queued' \in {queued, TRUE} /\ UNCHANGED row
    /\ admin' = "idle" /\ Fault
    /\ UNCHANGED <<cache, reqs, known, clean, adminLeft>>

ReactivateKey ==
    /\ admin = "reactivate"
    /\ queued' = TRUE
    /\ admin' = "evictActive"
    /\ UNCHANGED <<row, cache, reqs, known, clean, adminLeft, faultsLeft>>

Evicted ==
    /\ known' = IF admin = "evictRevoked" THEN "revoked" ELSE "active"
    /\ clean' = (clean /\ NoFault /\ \A r \in Request : pc[r] # "fill")
    /\ admin' = "idle"
    /\ UNCHANGED <<db, reqs, adminLeft>>

Evict_NoDelete ==                                 \* mutant of Evict
    /\ admin \in {"evictRevoked", "evictActive"}
    /\ UNCHANGED cache /\ (NoFault \/ Fault)
    /\ Evicted

Evict ==
    /\ admin \in {"evictRevoked", "evictActive"}
    /\ \/ cache' = "none" /\ NoFault
       \/ UNCHANGED cache /\ Fault
    /\ Evicted

-----------------------------------------------------------------------------
(* ClickHouse applies the queued mutation; Redis expires the entry (after   *)
(* SENSOR_KEY_CACHE_TTL_SECS; reads do not extend it).                      *)

Mutate ==
    /\ queued
    /\ row' = TRUE /\ queued' = FALSE
    /\ UNCHANGED <<cache, reqs, adm, adminLeft, faultsLeft>>

Expire ==
    /\ cache # "none"
    /\ cache' = "none"
    /\ UNCHANGED <<db, reqs, adm, adminLeft, faultsLeft>>

RequestStep(r) ==
    \/ Get(r) \/ Read(r) \/ Fill(r)
    \/ RevokedGet(r) \/ RevokedRead(r) \/ RevokedFill(r)
    \/ HeartbeatSelect(r) \/ HeartbeatInsert(r) \/ Finish(r)

Next ==
    \/ \E r \in Request : Begin(r) \/ RequestStep(r)
    \/ \E kind \in {"revoke", "reactivate"} : Call(kind)
    \/ RevokeKey \/ ReactivateKey \/ CallFails \/ Evict \/ Mutate \/ Expire

Spec == Init /\ [][Next]_vars

(* A request that was begun is served, and Redis expires entries.           *)
Fairness == WF_vars(Expire) /\ \A r \in Request : WF_vars(RequestStep(r))

FairSpec == Spec /\ Fairness

-----------------------------------------------------------------------------
(* Properties.                                                              *)

(* A request begun after the administrator was told that the key is revoked *)
(* is accepted, with no newer call since.                                   *)
StillAccepted == \E r \in Request : told[r] = "revoked" /\ pc[r] = "accepted"

(* A revocation is final, whatever runs later on any engine, if its         *)
(* mutation met no heartbeat between its select and its insert, and its     *)
(* eviction worked and met no request between its read and its fill.        *)
CleanRevocationHolds == known = "revoked" /\ clean => ~row /\ cache # "active" /\ ~StillAccepted

(* A revoked key whose row stays inactive is not served from the cache      *)
(* forever, not even when the eviction failed or a late fill undid it.      *)
StaleEntryExpires ==
    <>[](known = "revoked" /\ ~row) => <>[](cache # "active")

-----------------------------------------------------------------------------
(* Statements that this code does not keep: TLC finds a counterexample to  *)
(* each (README).                                                          *)

(* api/mod.rs:6263-6265, "Immediately evict from shared Redis cache so ALL  *)
(* engine instances reject this key on their next request".                 *)
RevocationIsImmediate == ~StillAccepted
=============================================================================
