--------------------------- MODULE EndpointRules ---------------------------
(***************************************************************************)
(* Endpoint permission rules in Postgres and their cache in Redis:         *)
(* epr:<endpoint_key_name> holds the codes a caller needs, the set         *)
(* epr_keys the names that are cached.  Unlike the API keys' cache, most   *)
(* writers change the two Redis keys by two separate commands.  Each       *)
(* action is the code of EndpointPermissionRulesService or of              *)
(* EprCacheReconciliationService from one await to the next.               *)
(***************************************************************************)
EXTENDS Integers

CONSTANTS
    Rule,            \* ids of rules
    Name,            \* values of endpoint_key_name
    Perm,
    Req,             \* requests and cron invocations in flight at once
    MaxEdits,        \* bound: changes to rules
    MaxFaults,       \* bound: failed calls and Redis restarts
    None

ASSUME EndpointRulesConstants ==
    /\ MaxEdits \in Nat
    /\ MaxFaults \in Nat
    /\ None \notin Rule
    /\ None \notin Name
    /\ \A Q \in SUBSET Perm : None # Q
    /\ None \notin [name : Name, enabled : BOOLEAN, perms : SUBSET Perm]

VARIABLES
    rule,     \* rule[i]: the row with id i, None when there is none
    cache,    \* cache[n]: permissionCodes in epr:n, None when missing
    tracked,  \* members of the set epr_keys
    job,      \* job[p]: what request p is waiting for
    edits, faults,
    alone     \* history: no request started while another was in flight

redis == <<cache, tracked>>
vars == <<rule, cache, tracked, job, edits, faults, alone>>

Row == [name : Name, enabled : BOOLEAN, perms : SUBSET Perm]
Codes == (SUBSET Perm) \union {None}

At == {"idle", "updateFind", "save", "remove", "del", "sRem", "find", "lookupFind", "set", "sAdd",
       "deleteStale", "warmFind", "warmFill"}

\* id, row: the loaded and edited entity; drop: name to invalidate; load:
\* name to load afterwards; codes: what will be cached, by name.
Job == [at : At, id : Rule \union {None}, row : Row \union {None},
        drop : Name \union {None}, load : Name \union {None}, codes : [Name -> Codes]]

NoCodes == [n \in Name |-> None]
IdleJob == [at |-> "idle", id |-> None, row |-> None, drop |-> None, load |-> None,
            codes |-> NoCodes]

Exists(i) == rule[i] # None
Named(n) == {i \in Rule : Exists(i) /\ rule[i].name = n}
EnabledRules == {i \in Rule : Exists(i) /\ rule[i].enabled}

Init ==
    /\ rule = [i \in Rule |-> None]
    /\ cache = NoCodes
    /\ tracked = {}
    /\ job = [p \in Req |-> IdleJob]
    /\ edits = 0
    /\ faults = 0
    /\ alone = TRUE

-----------------------------------------------------------------------------
Quiet == \A p \in Req : job[p].at = "idle"

CanStart(p) ==
    /\ job[p].at = "idle"
    /\ alone' = (alone /\ Quiet)

Goto(p, j) == job' = [job EXCEPT ![p] = j]
Advance(p, at) == job' = [job EXCEPT ![p].at = at]
Done(p) == Goto(p, IdleJob)

\* A mutation has loaded row i, edited it to r and is about to save it; then
\* it invalidates the name `drop' and loads the name `load' (None: neither).
Edit(p, i, r, drop, load) ==
    /\ CanStart(p)
    /\ edits < MaxEdits
    /\ edits' = edits + 1
    /\ Goto(p, [IdleJob EXCEPT !.at = "save", !.id = i, !.row = r,
                               !.drop = drop, !.load = load])
    /\ UNCHANGED <<rule, redis, faults>>

\* What follows the save or the removal.
AfterWrite(j) ==
    [j EXCEPT !.at = IF j.drop = None THEN "find" ELSE "del", !.id = None, !.row = None]

\* What follows invalidateRuleCache: the load of a renamed rule, or nothing.
AfterInvalidate(j) ==
    IF j.load = None THEN IdleJob ELSE [j EXCEPT !.at = "find", !.drop = None]

-----------------------------------------------------------------------------
(* create, update, assignPermissions, enableRule, disableRule, delete      *)

\* The DTO's IsUniqueEndpointKeyName has found no rule of that name; the id is
\* a new one, so no request still holds an entity with it.
Create(p) == \E i \in Rule, n \in Name :
    /\ ~Exists(i)
    /\ \A q \in Req : job[q].id # i
    /\ Named(n) = {}
    /\ Edit(p, i, [name |-> n, enabled |-> TRUE, perms |-> {}], None, n)

\* The same validator, before the rule is loaded.
Update(p) == \E i \in Rule, n \in Name :
    /\ CanStart(p)
    /\ Exists(i)
    /\ Named(n) = {}
    /\ edits < MaxEdits
    /\ edits' = edits + 1
    /\ Goto(p, [IdleJob EXCEPT !.at = "updateFind", !.id = i, !.load = n])
    /\ UNCHANGED <<rule, redis, faults>>

\* Mutant of UpdateFind: the new name is invalidated instead of the old one.
UpdateFindDropsNewName(p) == LET j == job[p]  i == j.id IN
    /\ j.at = "updateFind"
    /\ Goto(p, IF ~Exists(i) THEN IdleJob
               ELSE [j EXCEPT !.at = "save", !.row = [rule[i] EXCEPT !.name = j.load],
                              !.drop = j.load])
    /\ UNCHANGED <<rule, redis, edits, faults, alone>>

\* findOne and merge.  A rule that meanwhile got that very name has no old
\* name to invalidate; one that is gone ends the request.
UpdateFind(p) == LET j == job[p]  i == j.id IN
    /\ j.at = "updateFind"
    /\ Goto(p, IF ~Exists(i) THEN IdleJob
               ELSE [j EXCEPT !.at = "save", !.row = [rule[i] EXCEPT !.name = j.load],
                              !.drop = IF rule[i].name = j.load THEN None
                                       ELSE rule[i].name])
    /\ UNCHANGED <<rule, redis, edits, faults, alone>>

AssignPermissions(p) == \E i \in Rule, Q \in SUBSET Perm :
    /\ Exists(i)
    /\ Edit(p, i, [rule[i] EXCEPT !.perms = Q], None, rule[i].name)

EnableRule(p) == \E i \in Rule :
    /\ Exists(i)
    /\ ~rule[i].enabled
    /\ Edit(p, i, [rule[i] EXCEPT !.enabled = TRUE], None, rule[i].name)

DisableRule(p) == \E i \in Rule :
    /\ Exists(i)
    /\ rule[i].enabled
    /\ Edit(p, i, [rule[i] EXCEPT !.enabled = FALSE], rule[i].name, None)

Delete(p) == \E i \in Rule :
    /\ CanStart(p)
    /\ Exists(i)
    /\ edits < MaxEdits
    /\ edits' = edits + 1
    /\ Goto(p, [IdleJob EXCEPT !.at = "remove", !.id = i, !.drop = rule[i].name])
    /\ UNCHANGED <<rule, redis, faults>>

\* save(entity): the entity as loaded and edited replaces the row, or inserts
\* it again when it was deleted meanwhile; UQ_endpoint_permission_key_name
\* makes it throw when another rule took the name.
SaveRule(p) == LET j == job[p] IN
    /\ j.at = "save"
    /\ IF Named(j.row.name) \subseteq {j.id}
       THEN /\ rule' = [rule EXCEPT ![j.id] = j.row]
            /\ Goto(p, AfterWrite(j))
       ELSE /\ Done(p)
            /\ UNCHANGED rule
    /\ UNCHANGED <<redis, edits, faults, alone>>

RemoveRule(p) ==
    /\ job[p].at = "remove"
    /\ rule' = [rule EXCEPT ![job[p].id] = None]
    /\ Goto(p, AfterWrite(job[p]))
    /\ UNCHANGED <<redis, edits, faults, alone>>

-----------------------------------------------------------------------------
(* invalidateRuleCache: DEL, then SREM                                     *)

InvalidateDel(p) ==
    /\ job[p].at = "del"
    /\ cache' = [cache EXCEPT ![job[p].drop] = None]
    /\ Advance(p, "sRem")
    /\ UNCHANGED <<rule, tracked, edits, faults, alone>>

InvalidateSRem(p) ==
    /\ job[p].at = "sRem"
    /\ tracked' = tracked \ {job[p].drop}
    /\ Goto(p, AfterInvalidate(job[p]))
    /\ UNCHANGED <<rule, cache, edits, faults, alone>>

-----------------------------------------------------------------------------
(* loadRuleToRedis and the backfill of getPermissionsForEndpoint           *)

\* The permission codes of the rule of that name.
EnabledCodes(n) == UNION {rule[i].perms : i \in Named(n)}
IsEnabled(n) == Named(n) \intersect EnabledRules # {}

Fill(n) == [IdleJob EXCEPT !.at = "set", !.load = n, !.codes[n] = EnabledCodes(n)]

\* loadRuleToRedis reads the rule again by its name.
LoadFind(p) == LET n == job[p].load IN
    /\ job[p].at = "find"
    /\ Goto(p, IF IsEnabled(n) THEN Fill(n)
               ELSE [IdleJob EXCEPT !.at = "del", !.drop = n])
    /\ UNCHANGED <<rule, redis, edits, faults, alone>>

\* GET misses, or rejects and the lookup falls back to the database; a hit
\* answers at once and changes nothing.
Lookup(p) == \E n \in Name :
    /\ CanStart(p)
    /\ \/ cache[n] = None /\ UNCHANGED faults
       \/ cache[n] # None /\ faults < MaxFaults /\ faults' = faults + 1
    /\ Goto(p, [IdleJob EXCEPT !.at = "lookupFind", !.load = n])
    /\ UNCHANGED <<rule, redis, edits>>

\* No rule, or a disabled one: the endpoint is refused.
LookupFind(p) == LET n == job[p].load IN
    /\ job[p].at = "lookupFind"
    /\ Goto(p, IF IsEnabled(n) THEN Fill(n) ELSE IdleJob)
    /\ UNCHANGED <<rule, redis, edits, faults, alone>>

FillSet(p) == LET n == job[p].load IN
    /\ job[p].at = "set"
    /\ cache' = [cache EXCEPT ![n] = job[p].codes[n]]
    /\ Goto(p, [IdleJob EXCEPT !.at = "sAdd", !.load = n])
    /\ UNCHANGED <<rule, tracked, edits, faults, alone>>

\* Mutant of FillSAdd: SADD of the wrong field.
FillSAddWrongField(p) ==
    /\ job[p].at = "sAdd"
    /\ tracked' = tracked \union {job[p].drop}
    /\ Done(p)
    /\ UNCHANGED <<rule, cache, edits, faults, alone>>

FillSAdd(p) ==
    /\ job[p].at = "sAdd"
    /\ tracked' = tracked \union {job[p].load}
    /\ Done(p)
    /\ UNCHANGED <<rule, cache, edits, faults, alone>>

-----------------------------------------------------------------------------
(* handleCacheReconciliation and warmUpCache                               *)

\* Mutant of Reconcile: the rebuild only warms up.
ReconcileWarmsOnly(p) ==
    /\ CanStart(p)
    /\ Goto(p, [IdleJob EXCEPT !.at = "warmFind"])
    /\ UNCHANGED <<rule, redis, edits, faults>>

\* SMEMBERS epr_keys; with an empty set the deletion is skipped.
Reconcile(p) ==
    /\ CanStart(p)
    /\ Goto(p, IF tracked = {} THEN [IdleJob EXCEPT !.at = "warmFind"]
               ELSE [IdleJob EXCEPT !.at = "deleteStale",
                        !.codes = [n \in Name |-> IF n \in tracked THEN {} ELSE None]])
    /\ UNCHANGED <<rule, redis, edits, faults>>

\* Mutant of DeleteStale: only epr_keys is deleted.
DeleteStaleSetOnly(p) ==
    /\ job[p].at = "deleteStale"
    /\ tracked' = {}
    /\ Goto(p, [IdleJob EXCEPT !.at = "warmFind"])
    /\ UNCHANGED <<rule, cache, edits, faults, alone>>

\* MULTI: DEL of the names that were read, and of epr_keys as a whole.
DeleteStale(p) ==
    /\ job[p].at = "deleteStale"
    /\ cache' = [n \in Name |-> IF job[p].codes[n] # None THEN None ELSE cache[n]]
    /\ tracked' = {}
    /\ Goto(p, [IdleJob EXCEPT !.at = "warmFind"])
    /\ UNCHANGED <<rule, edits, faults, alone>>

\* onModuleInit of a starting instance.
WarmUp(p) ==
    /\ CanStart(p)
    /\ Goto(p, [IdleJob EXCEPT !.at = "warmFind"])
    /\ UNCHANGED <<rule, redis, edits, faults>>

\* findAllEnabled
WarmFind(p) ==
    /\ job[p].at = "warmFind"
    /\ Goto(p, IF EnabledRules = {} THEN IdleJob
               ELSE [IdleJob EXCEPT !.at = "warmFill",
                        !.codes = [n \in Name |-> IF IsEnabled(n) THEN EnabledCodes(n) ELSE None]])
    /\ UNCHANGED <<rule, redis, edits, faults, alone>>

\* Mutant of WarmFill: SET NX, what is cached stays.
WarmFillMissing(p) == LET found == {n \in Name : job[p].codes[n] # None} IN
    /\ job[p].at = "warmFill"
    /\ cache' = [n \in Name |-> IF n \in found /\ cache[n] = None
                               THEN job[p].codes[n] ELSE cache[n]]
    /\ tracked' = tracked \union found
    /\ Done(p)
    /\ UNCHANGED <<rule, edits, faults, alone>>

\* MULTI: SET and SADD for every rule that was found.
WarmFill(p) == LET found == {n \in Name : job[p].codes[n] # None} IN
    /\ job[p].at = "warmFill"
    /\ cache' = [n \in Name |-> IF n \in found THEN job[p].codes[n] ELSE cache[n]]
    /\ tracked' = tracked \union found
    /\ Done(p)
    /\ UNCHANGED <<rule, edits, faults, alone>>

-----------------------------------------------------------------------------
(* The environment.                                                        *)

\* A call rejects.  The errors of invalidateRuleCache and of deleteStaleKeys
\* are caught, so a rename goes on to its load and the cron job to its
\* warm-up; everything else ends, with an answer or with an exception.
Fail(p) ==
    /\ job[p].at # "idle"
    /\ faults < MaxFaults
    /\ faults' = faults + 1
    /\ Goto(p, CASE job[p].at \in {"del", "sRem"} -> AfterInvalidate(job[p])
                 [] job[p].at = "deleteStale" -> [IdleJob EXCEPT !.at = "warmFind"]
                 [] OTHER -> IdleJob)
    /\ UNCHANGED <<rule, redis, edits, alone>>

\* Redis comes back empty.
RedisRestart ==
    /\ faults < MaxFaults
    /\ faults' = faults + 1
    /\ cache' = NoCodes
    /\ tracked' = {}
    /\ UNCHANGED <<rule, job, edits, alone>>

-----------------------------------------------------------------------------
Start(p) ==
    \/ Create(p) \/ Update(p) \/ AssignPermissions(p)
    \/ EnableRule(p) \/ DisableRule(p) \/ Delete(p)
    \/ Lookup(p) \/ Reconcile(p) \/ WarmUp(p)

Step(p) ==
    \/ UpdateFind(p) \/ SaveRule(p) \/ RemoveRule(p)
    \/ InvalidateDel(p) \/ InvalidateSRem(p)
    \/ LoadFind(p) \/ LookupFind(p) \/ FillSet(p) \/ FillSAdd(p)
    \/ DeleteStale(p) \/ WarmFind(p) \/ WarmFill(p)

Next ==
    \/ \E p \in Req : Start(p) \/ Step(p) \/ Fail(p)
    \/ RedisRestart

Spec == Init /\ [][Next]_vars

\* A call that was made returns or rejects, and the hourly job is started
\* again and again, whatever else is running.
FairSpec ==
    /\ Spec
    /\ \A p \in Req : WF_vars(Step(p))
    /\ SF_vars(\E p \in Req : Reconcile(p))

-----------------------------------------------------------------------------
(* Properties.                                                             *)

\* Type invariant of the rows, the cache and the jobs.
TypeOK ==
    /\ rule \in [Rule -> Row \union {None}]
    /\ cache \in [Name -> Codes]
    /\ tracked \subseteq Name
    /\ job \in [Req -> Job]
    /\ edits \in 0..MaxEdits
    /\ faults \in 0..MaxFaults
    /\ alone \in BOOLEAN

\* One request at a time and no failed call: between requests a cached name
\* is the name of an enabled rule with exactly the cached permissions, through
\* renames, deletions and re-creations, and the reconciliation can find it.
CacheAgreesWithRules ==
    Quiet /\ alone /\ faults = 0 =>
        \A n \in Name : cache[n] # None =>
            /\ n \in tracked
            /\ IsEnabled(n)
            /\ cache[n] = EnabledCodes(n)

\* Whatever interleaves or fails: once the edits stop, the cached codes of an
\* enabled rule are in the end the codes of the rule.
EnabledRulesEventuallyCurrent ==
    <>[](\A n \in Name : IsEnabled(n) /\ cache[n] # None => cache[n] = EnabledCodes(n))

\* Every cached name is that of an enabled rule.
OnlyEnabledCached == \A n \in Name : cache[n] # None => IsEnabled(n)

\* An endpoint whose rule was disabled, deleted or renamed is in the end no
\* longer answered from the cache.
DisabledEventuallyDenied == <>[]OnlyEnabledCached

\* Whatever interleaves or fails: in the end every entry that epr_keys lists is
\* that of an enabled rule, so the hourly job makes up for every missed
\* invalidation except that of an entry epr_keys has lost.
TrackedDisabledDenied ==
    <>[](\A n \in tracked : cache[n] # None => IsEnabled(n))

\* One request at a time, a single call that fails or a single Redis restart is
\* not enough to lose an entry for good.  It takes an overlap, or two failures:
\* the SADD of a fill and the DEL of the invalidation.
SerialDisabledDenied == [](alone /\ faults <= 1) => <>[]OnlyEnabledCached
=============================================================================
