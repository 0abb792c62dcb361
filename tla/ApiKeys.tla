------------------------------- MODULE ApiKeys -------------------------------
(***************************************************************************)
(* API keys in Postgres and their cache in Redis: api_key:fp:<fingerprint> *)
(* holds the permission codes of a key, the set api_keys the fingerprints  *)
(* that are cached.  A key stands for its id and its fingerprint, which    *)
(* never change.  Each action is the code of ApiKeysService or of          *)
(* ApiKeysCacheReconciliationService from one await to the next.           *)
(***************************************************************************)
EXTENDS Integers

CONSTANTS
    Key, Perm,
    Req,             \* requests and cron invocations in flight at once
    MaxEdits,        \* bound: creations, activations and changes
    MaxFaults,       \* bound: failed calls and Redis restarts
    None

ASSUME ApiKeysConstants ==
    /\ MaxEdits \in Nat
    /\ MaxFaults \in Nat
    /\ \A Q \in SUBSET Perm : None # Q
    /\ None \notin [active : BOOLEAN, perms : SUBSET Perm]

VARIABLES
    row,      \* row[k]: the api key's row in Postgres, None before its creation
    cache,    \* cache[k]: permissionCodes in api_key:fp:k, None when missing
    tracked,  \* members of the set api_keys
    job,      \* job[p]: what request p is waiting for
    edits, faults,
    alone     \* history: no request started while another was in flight

redis == <<cache, tracked>>
vars == <<row, cache, tracked, job, edits, faults, alone>>

Row == [active : BOOLEAN, perms : SUBSET Perm]
MaybeRow == Row \union {None}

At == {"idle", "lookupFind", "lookupFill", "deactivateInvalidate", "deactivateSave",
       "activateSave", "load", "changeSave", "changeInvalidate", "warmFill",
       "reconcileFind", "reconcileDelete"}

\* keys: the keys the request is about; rows: the entities it has loaded.
Job == [at : At, keys : SUBSET Key, rows : [Key -> MaybeRow]]

NoRows == [k \in Key |-> None]
IdleJob == [at |-> "idle", keys |-> {}, rows |-> NoRows]

Exists(k) == row[k] # None
Active(k) == Exists(k) /\ row[k].active

Init ==
    /\ row = NoRows
    /\ cache = NoRows
    /\ tracked = {}
    /\ job = [p \in Req |-> IdleJob]
    /\ edits = 0
    /\ faults = 0
    /\ alone = TRUE

-----------------------------------------------------------------------------
Quiet == \A p \in Req : job[p].at = "idle"

CanStart(p) ==
    /\ job[p].at = "idle"
    /\ alone' = (alone /\ Quiet)

Edit ==
    /\ edits < MaxEdits
    /\ edits' = edits + 1

Goto(p, j) == job' = [job EXCEPT ![p] = j]
Advance(p, at) == job' = [job EXCEPT ![p].at = at]
Done(p) == Goto(p, IdleJob)

\* The request goes on with the entity r of key k.
Carry(p, at, k, r) ==
    Goto(p, [at |-> at, keys |-> {k}, rows |-> [NoRows EXCEPT ![k] = r]])

\* Mutant of FillCache: SADD of a fingerprint that is undefined.
FillCacheUndefined(p) ==
    /\ cache' = [k \in Key |-> IF k \in job[p].keys THEN job[p].rows[k].perms ELSE cache[k]]
    /\ tracked' = tracked \union {None}

\* MULTI: SET api_key:fp:<k> and SADD api_keys for the loaded entities.
FillCache(p) ==
    /\ cache' = [k \in Key |-> IF k \in job[p].keys THEN job[p].rows[k].perms ELSE cache[k]]
    /\ tracked' = tracked \union job[p].keys

\* Mutant of DropCache: DEL without SREM.
DropCacheOnly(p) ==
    /\ cache' = [k \in Key |-> IF k \in job[p].keys THEN None ELSE cache[k]]
    /\ UNCHANGED tracked

\* MULTI: DEL api_key:fp:<k> and SREM api_keys for the keys of the request.
DropCache(p) ==
    /\ cache' = [k \in Key |-> IF k \in job[p].keys THEN None ELSE cache[k]]
    /\ tracked' = tracked \ job[p].keys

\* save(entity): TypeORM writes every loaded column and relation that differs
\* from the row, so the entity as loaded and edited replaces the row.
Save(p) ==
    row' = [k \in Key |-> IF k \in job[p].keys THEN job[p].rows[k] ELSE row[k]]

-----------------------------------------------------------------------------
(* create: one transaction; the cache is left to the first lookup.         *)

Create(p) == \E k \in Key, Q \in SUBSET Perm :
    /\ CanStart(p)
    /\ ~Exists(k)
    /\ Edit
    /\ row' = [row EXCEPT ![k] = [active |-> TRUE, perms |-> Q]]
    /\ UNCHANGED <<redis, job, faults>>

-----------------------------------------------------------------------------
(* findActiveByPlainKey; a cache hit answers at once and changes nothing.  *)

\* GET misses, or rejects and the lookup falls back to the database.
Lookup(p) == \E k \in Key :
    /\ CanStart(p)
    /\ \/ cache[k] = None /\ UNCHANGED faults
       \/ cache[k] # None /\ faults < MaxFaults /\ faults' = faults + 1
    /\ Goto(p, [IdleJob EXCEPT !.at = "lookupFind", !.keys = {k}])
    /\ UNCHANGED <<row, redis, edits>>

\* findByFingerprint: only active keys are found.
LookupFind(p) == \E k \in job[p].keys :
    /\ job[p].at = "lookupFind"
    /\ IF Active(k) THEN Carry(p, "lookupFill", k, row[k]) ELSE Done(p)
    /\ UNCHANGED <<row, redis, edits, faults, alone>>

LookupFill(p) ==
    /\ job[p].at = "lookupFill"
    /\ FillCache(p)
    /\ Done(p)
    /\ UNCHANGED <<row, edits, faults, alone>>

-----------------------------------------------------------------------------
(* deactivate: the cache entry goes first, then the row.                   *)

Deactivate(p) == \E k \in Key :
    /\ CanStart(p)
    /\ Active(k)
    /\ Edit
    /\ Carry(p, "deactivateInvalidate", k, [row[k] EXCEPT !.active = FALSE])
    /\ UNCHANGED <<row, redis, faults>>

DeactivateInvalidate(p) ==
    /\ job[p].at = "deactivateInvalidate"
    /\ DropCache(p)
    /\ Advance(p, "deactivateSave")
    /\ UNCHANGED <<row, edits, faults, alone>>

DeactivateSave(p) ==
    /\ job[p].at = "deactivateSave"
    /\ Save(p)
    /\ Done(p)
    /\ UNCHANGED <<redis, edits, faults, alone>>

-----------------------------------------------------------------------------
(* activate                                                                *)

Activate(p) == \E k \in Key :
    /\ CanStart(p)
    /\ Exists(k)
    /\ ~Active(k)
    /\ Edit
    /\ Carry(p, "activateSave", k, [row[k] EXCEPT !.active = TRUE])
    /\ UNCHANGED <<row, redis, faults>>

ActivateSave(p) ==
    /\ job[p].at = "activateSave"
    /\ Save(p)
    /\ Advance(p, "load")
    /\ UNCHANGED <<redis, edits, faults, alone>>

\* loadApiKeyToRedis, the last step of activate and of changePermissions.
Load(p) ==
    /\ job[p].at = "load"
    /\ FillCache(p)
    /\ Done(p)
    /\ UNCHANGED <<row, edits, faults, alone>>

-----------------------------------------------------------------------------
(* changePermissions: for active and inactive keys alike.                  *)

\* Mutant of ChangePermissions: the entity is created anew, active by default.
ChangePermissionsRecreates(p) == \E k \in Key, Q \in SUBSET Perm :
    /\ CanStart(p)
    /\ Exists(k)
    /\ Edit
    /\ Carry(p, "changeSave", k, [active |-> TRUE, perms |-> Q])
    /\ UNCHANGED <<row, redis, faults>>

ChangePermissions(p) == \E k \in Key, Q \in SUBSET Perm :
    /\ CanStart(p)
    /\ Exists(k)
    /\ Edit
    /\ Carry(p, "changeSave", k, [row[k] EXCEPT !.perms = Q])
    /\ UNCHANGED <<row, redis, faults>>

\* Mutant of ChangeSave: the cache is left as it is.
ChangeSaveOnly(p) ==
    /\ job[p].at = "changeSave"
    /\ Save(p)
    /\ Done(p)
    /\ UNCHANGED <<redis, edits, faults, alone>>

ChangeSave(p) ==
    /\ job[p].at = "changeSave"
    /\ Save(p)
    /\ Advance(p, "changeInvalidate")
    /\ UNCHANGED <<redis, edits, faults, alone>>

ChangeInvalidate(p) ==
    /\ job[p].at = "changeInvalidate"
    /\ DropCache(p)
    /\ Advance(p, "load")
    /\ UNCHANGED <<row, edits, faults, alone>>

-----------------------------------------------------------------------------
(* warmUpCache, when an instance starts                                    *)

WarmUp(p) == LET active == {k \in Key : Active(k)} IN
    /\ CanStart(p)
    /\ active # {}
    /\ Goto(p, [at |-> "warmFill", keys |-> active,
                rows |-> [k \in Key |-> IF k \in active THEN row[k] ELSE None]])
    /\ UNCHANGED <<row, redis, edits, faults>>

WarmFill(p) ==
    /\ job[p].at = "warmFill"
    /\ FillCache(p)
    /\ Done(p)
    /\ UNCHANGED <<row, edits, faults, alone>>

-----------------------------------------------------------------------------
(* handleCacheReconciliation: drops the entries of keys that are inactive. *)

\* SMEMBERS api_keys; an empty set ends the invocation.
Reconcile(p) ==
    /\ CanStart(p)
    /\ tracked # {}
    /\ Goto(p, [IdleJob EXCEPT !.at = "reconcileFind", !.keys = tracked])
    /\ UNCHANGED <<row, redis, edits, faults>>

\* Mutant of ReconcileFind: the fingerprints found are taken for the stale ones.
ReconcileFindInverted(p) == LET stale == {k \in job[p].keys : Active(k)} IN
    /\ job[p].at = "reconcileFind"
    /\ Goto(p, IF stale = {} THEN IdleJob
               ELSE [IdleJob EXCEPT !.at = "reconcileDelete", !.keys = stale])
    /\ UNCHANGED <<row, redis, edits, faults, alone>>

\* findActiveFingerprintsIn, and the difference.
ReconcileFind(p) == LET stale == {k \in job[p].keys : ~Active(k)} IN
    /\ job[p].at = "reconcileFind"
    /\ Goto(p, IF stale = {} THEN IdleJob
               ELSE [IdleJob EXCEPT !.at = "reconcileDelete", !.keys = stale])
    /\ UNCHANGED <<row, redis, edits, faults, alone>>

ReconcileDelete(p) ==
    /\ job[p].at = "reconcileDelete"
    /\ DropCache(p)
    /\ Done(p)
    /\ UNCHANGED <<row, edits, faults, alone>>

-----------------------------------------------------------------------------
(* The environment.                                                        *)

\* A call rejects: the request ends there, whether the code rethrows (save,
\* invalidateApiKeyCache) or logs and gives up (the fills, the cron job).
Fail(p) ==
    /\ job[p].at # "idle"
    /\ faults < MaxFaults
    /\ faults' = faults + 1
    /\ Done(p)
    /\ UNCHANGED <<row, redis, edits, alone>>

\* Redis comes back empty.
RedisRestart ==
    /\ tracked # {}
    /\ faults < MaxFaults
    /\ faults' = faults + 1
    /\ cache' = NoRows
    /\ tracked' = {}
    /\ UNCHANGED <<row, job, edits, alone>>

-----------------------------------------------------------------------------
Step(p) ==
    \/ LookupFind(p) \/ LookupFill(p)
    \/ DeactivateInvalidate(p) \/ DeactivateSave(p)
    \/ ActivateSave(p) \/ Load(p)
    \/ ChangeSave(p) \/ ChangeInvalidate(p)
    \/ WarmFill(p)
    \/ ReconcileFind(p) \/ ReconcileDelete(p)

Start(p) ==
    \/ Create(p) \/ Lookup(p) \/ Deactivate(p) \/ Activate(p)
    \/ ChangePermissions(p) \/ WarmUp(p) \/ Reconcile(p)

Next ==
    \/ \E p \in Req : Start(p) \/ Step(p) \/ Fail(p)
    \/ RedisRestart

Spec == Init /\ [][Next]_vars

\* A call that was made returns or rejects, and the hourly job is started
\* again and again, whatever else is running.
FairSpec ==
    /\ Spec
    /\ \A p \in Req : WF_vars(Step(p))
    /\ SF_vars(\E p \in Req : Reconcile(p))

-----------------------------------------------------------------------------
(* Properties.                                                             *)

\* What the database, Redis and the suspended requests may hold.
StateOK ==
    /\ row \in [Key -> MaybeRow]
    /\ cache \in [Key -> (SUBSET Perm) \union {None}]
    /\ tracked \subseteq Key
    /\ job \in [Req -> Job]
    /\ edits \in 0..MaxEdits
    /\ faults \in 0..MaxFaults

\* Type invariant of the database, the Redis keys and the suspended requests.
TypeOK == StateOK /\ alone \in BOOLEAN

\* The reconciliation finds every entry: a fingerprint is in api_keys exactly
\* when it is cached, after any interleaving, failure or Redis restart.
CacheTracked == \A k \in Key : cache[k] # None <=> k \in tracked

\* One request at a time and no failed call: between requests a cached entry
\* has the permissions of the row.
CachedPermissionsCurrent ==
    Quiet /\ alone /\ faults = 0 =>
        \A k \in Key : cache[k] # None => Exists(k) /\ cache[k] = row[k].perms

\* Every cached entry in the end belongs to an active key: the hourly job
\* makes up for lookups that fill the cache behind a deactivation's back, for
\* failed calls and for keys that were re-cached while inactive.
RevokedKeysEventuallyEvicted ==
    <>[](\A k \in Key : cache[k] # None => Active(k))

\* Request p holds a loaded entity of key k that says it is active.
HoldsActive(p, k) == job[p].rows[k] # None /\ job[p].rows[k].active

\* A revoked key becomes active again only when somebody activates it, or by
\* the late save of a changePermissions that loaded the key while it was still
\* active: as long as the key is revoked, no request other than activate comes
\* to hold an active copy of it.
RevocationHolds ==
    [][\A k \in Key : Exists(k) /\ ~Active(k) =>
        /\ Active(k)' =>
            \E p \in Req :
                /\ k \in job[p].keys
                /\ \/ job[p].at = "activateSave"
                   \/ job[p].at = "changeSave" /\ HoldsActive(p, k)
        /\ \A p \in Req :
            HoldsActive(p, k)' => HoldsActive(p, k) \/ job'[p].at = "activateSave"]_vars
=============================================================================
