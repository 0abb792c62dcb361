--------------------------- MODULE ApiKeysProofs ----------------------------
(***************************************************************************)
(* Theorems about ApiKeys, for any set of keys and permissions and any     *)
(* number of concurrent requests, failures and Redis restarts: the type    *)
(* invariant, that the set api_keys lists exactly the cached keys, what it *)
(* takes to readmit a revoked key, that entries are current as long as     *)
(* requests do not overlap, and what one pass of the reconciliation does   *)
(* to any cache.  All rest on what a suspended request carries:            *)
(* entities that were loaded, and that agree with their rows as long as    *)
(* the request is alone.                                                   *)
(***************************************************************************)
EXTENDS ApiKeys, TLAPS

\* The requests that hold loaded entities.
Loaded == {"lookupFill", "deactivateInvalidate", "deactivateSave", "activateSave",
           "load", "changeSave", "changeInvalidate", "warmFill"}

Revoking == {"deactivateInvalidate", "deactivateSave"}

JobOK(j) ==
    /\ j.at \in Loaded => \A k \in j.keys : j.rows[k] # None
    /\ j.at \in Revoking => \A k \in j.keys : j.rows[k].active = FALSE

\* The inductive invariant.
Inv ==
    /\ StateOK
    /\ CacheTracked
    /\ \A p \in Req : JobOK(job[p])

LEMMA IdleJobOK == IdleJob \in Job /\ JobOK(IdleJob)
  BY DEF IdleJob, Job, At, NoRows, MaybeRow, JobOK, Loaded, Revoking

LEMMA InvInit == Init => Inv
  BY IdleJobOK, ApiKeysConstants
     DEF Init, Inv, StateOK, CacheTracked, NoRows, MaybeRow

-----------------------------------------------------------------------------
\* One request goes on with job j.  The row and the cache stay well typed and
\* the cache tracked: then the invariant is kept.
LEMMA JobStep ==
  ASSUME Inv, NEW p \in Req, NEW j \in Job, JobOK(j), Goto(p, j),
         row' \in [Key -> MaybeRow], cache' \in [Key -> (SUBSET Perm) \union {None}],
         tracked' \subseteq Key, CacheTracked',
         edits' \in 0..MaxEdits, faults' \in 0..MaxFaults
  PROVE  Inv'
<1>1. job \in [Req -> Job]
  BY DEF Inv, StateOK
<1>2. job' \in [Req -> Job] /\ job'[p] = j /\ \A q \in Req \ {p} : job'[q] = job[q]
  BY <1>1 DEF Goto
<1>3. StateOK'
  BY <1>2 DEF StateOK
<1>4. \A q \in Req : JobOK(job'[q])
  BY <1>2 DEF Inv
<1> QED BY <1>3, <1>4 DEF Inv, JobOK

\* A job that only moves to another await keeps what it carries.
LEMMA AdvanceFacts ==
  ASSUME Inv, NEW p \in Req, NEW at \in At, job[p].at \in Loaded, Advance(p, at),
         at \in Revoking => job[p].at \in Revoking
  PROVE  LET j == [job[p] EXCEPT !.at = at] IN j \in Job /\ JobOK(j) /\ Goto(p, j)
<1>1. job \in [Req -> Job] /\ job[p] \in Job /\ JobOK(job[p])
  BY DEF Inv, StateOK
<1> DEFINE j == [job[p] EXCEPT !.at = at]
<1>2. j \in Job /\ j.at = at /\ j.keys = job[p].keys /\ j.rows = job[p].rows
  BY <1>1 DEF Job
<1>3. JobOK(j)
  BY <1>1, <1>2 DEF JobOK
<1>4. Goto(p, j)
  BY <1>1 DEF Advance, Goto
<1> QED BY <1>2, <1>3, <1>4

\* A job that carries one loaded entity.
LEMMA CarryFacts ==
  ASSUME NEW p \in Req, NEW at \in At, NEW k \in Key, NEW r \in Row, Carry(p, at, k, r),
         at \in Revoking => r.active = FALSE
  PROVE  LET j == [at |-> at, keys |-> {k}, rows |-> [NoRows EXCEPT ![k] = r]] IN
         j \in Job /\ JobOK(j) /\ Goto(p, j)
<1> DEFINE f == [NoRows EXCEPT ![k] = r]
           j == [at |-> at, keys |-> {k}, rows |-> f]
<1>1. f \in [Key -> MaybeRow] /\ f[k] = r /\ r # None
  BY ApiKeysConstants DEF NoRows, MaybeRow, Row
<1> HIDE DEF f
<1>2. j \in Job /\ JobOK(j)
  BY <1>1 DEF Job, JobOK
<1> QED BY <1>2 DEF Carry, f

\* The facts of the invariant that the steps below use.
LEMMA Facts ==
  ASSUME Inv
  PROVE  /\ row \in [Key -> MaybeRow] /\ cache \in [Key -> (SUBSET Perm) \union {None}]
         /\ tracked \subseteq Key /\ CacheTracked
         /\ edits \in 0..MaxEdits /\ faults \in 0..MaxFaults
         /\ \A p \in Req : job[p] \in Job /\ JobOK(job[p])
         /\ \A p \in Req : job[p].keys \subseteq Key /\ job[p].rows \in [Key -> MaybeRow]
  BY DEF Inv, StateOK, Job

\* A step that leaves the cache alone leaves it tracked.
LEMMA SameCache ==
  ASSUME Inv, UNCHANGED redis
  PROVE  /\ cache' \in [Key -> (SUBSET Perm) \union {None}]
         /\ tracked' \subseteq Key /\ CacheTracked'
  BY Facts DEF redis, CacheTracked

\* MULTI of SET and SADD.
LEMMA FillFacts ==
  ASSUME Inv, NEW p \in Req, job[p].at \in Loaded, FillCache(p)
  PROVE  /\ cache' \in [Key -> (SUBSET Perm) \union {None}]
         /\ tracked' \subseteq Key /\ CacheTracked'
<1>1. \A k \in job[p].keys : job[p].rows[k].perms \in SUBSET Perm
  BY Facts DEF JobOK, MaybeRow, Row
<1>2. \A k \in job[p].keys : job[p].rows[k].perms # None
  BY <1>1, ApiKeysConstants
<1>3. cache' \in [Key -> (SUBSET Perm) \union {None}] /\ tracked' \subseteq Key
  BY <1>1, Facts DEF FillCache
<1>4. CacheTracked'
  BY <1>2, Facts DEF FillCache, CacheTracked
<1> QED BY <1>3, <1>4

\* MULTI of DEL and SREM.
LEMMA DropFacts ==
  ASSUME Inv, NEW p \in Req, DropCache(p)
  PROVE  /\ cache' \in [Key -> (SUBSET Perm) \union {None}]
         /\ tracked' \subseteq Key /\ CacheTracked'
  BY Facts DEF DropCache, CacheTracked

\* save(entity)
LEMMA SaveFacts ==
  ASSUME Inv, NEW p \in Req, Save(p)
  PROVE  row' \in [Key -> MaybeRow]
  BY Facts DEF Save

LEMMA EditFacts ==
  ASSUME Inv, Edit
  PROVE  edits' \in 0..MaxEdits
  BY Facts, ApiKeysConstants DEF Edit

-----------------------------------------------------------------------------
LEMMA StartInv ==
  ASSUME Inv, NEW p \in Req, Start(p)
  PROVE  Inv'
<1>1. CASE Create(p)
  <2>1. row' \in [Key -> MaybeRow]
    BY <1>1, Facts DEF Create, MaybeRow, Row
  <2>2. edits' \in 0..MaxEdits
    BY <1>1, EditFacts DEF Create
  <2> QED BY <1>1, <2>1, <2>2, Facts, SameCache DEF Create, Inv, StateOK, redis
<1>2. CASE Lookup(p)
  <2>1. PICK k \in Key : Goto(p, [IdleJob EXCEPT !.at = "lookupFind", !.keys = {k}])
    BY <1>2 DEF Lookup
  <2> DEFINE j == [IdleJob EXCEPT !.at = "lookupFind", !.keys = {k}]
  <2>2. j \in Job /\ JobOK(j)
    BY IdleJobOK DEF IdleJob, Job, At, JobOK, Loaded, Revoking
  <2>3. faults' \in 0..MaxFaults /\ UNCHANGED <<row, redis, edits>>
    BY <1>2, Facts, ApiKeysConstants DEF Lookup
  <2> HIDE DEF j
  <2>4. Goto(p, j)
    BY <2>1 DEF j
  <2> QED BY <2>2, <2>3, <2>4, Facts, SameCache, JobStep
<1>3. CASE Deactivate(p) \/ Activate(p) \/ ChangePermissions(p)
  <2>1. PICK at \in At, k \in Key, r \in Row :
          /\ Carry(p, at, k, r) /\ Edit /\ UNCHANGED <<row, redis, faults>>
          /\ at \in Revoking => r.active = FALSE
    <3>1. \A k \in Key : Exists(k) => row[k] \in Row
      BY Facts DEF Exists, MaybeRow
    <3>2. CASE Deactivate(p)
      <4>1. PICK k \in Key : /\ Active(k) /\ Edit /\ UNCHANGED <<row, redis, faults>>
                             /\ Carry(p, "deactivateInvalidate", k, [row[k] EXCEPT !.active = FALSE])
        BY <3>2 DEF Deactivate
      <4>2. [row[k] EXCEPT !.active = FALSE] \in Row
            /\ [row[k] EXCEPT !.active = FALSE].active = FALSE
        BY <3>1, <4>1 DEF Active, Row
      <4>3. "deactivateInvalidate" \in At
        BY DEF At
      <4> QED BY <4>1, <4>2, <4>3
    <3>3. CASE Activate(p)
      <4>1. PICK k \in Key : /\ Exists(k) /\ Edit /\ UNCHANGED <<row, redis, faults>>
                             /\ Carry(p, "activateSave", k, [row[k] EXCEPT !.active = TRUE])
        BY <3>3 DEF Activate
      <4>2. [row[k] EXCEPT !.active = TRUE] \in Row
        BY <3>1, <4>1 DEF Row
      <4>3. "activateSave" \in At \ Revoking
        BY DEF At, Revoking
      <4> QED BY <4>1, <4>2, <4>3
    <3>4. CASE ChangePermissions(p)
      <4>1. PICK k \in Key, Q \in SUBSET Perm :
                /\ Exists(k) /\ Edit /\ UNCHANGED <<row, redis, faults>>
                /\ Carry(p, "changeSave", k, [row[k] EXCEPT !.perms = Q])
        BY <3>4 DEF ChangePermissions
      <4>2. [row[k] EXCEPT !.perms = Q] \in Row
        BY <3>1, <4>1 DEF Row
      <4>3. "changeSave" \in At \ Revoking
        BY DEF At, Revoking
      <4> QED BY <4>1, <4>2, <4>3
    <3> QED BY <1>3, <3>2, <3>3, <3>4
  <2> DEFINE j == [at |-> at, keys |-> {k}, rows |-> [NoRows EXCEPT ![k] = r]]
  <2>2. j \in Job /\ JobOK(j) /\ Goto(p, j)
    BY <2>1, CarryFacts
  <2> HIDE DEF j
  <2> QED BY <2>1, <2>2, Facts, EditFacts, SameCache, JobStep
<1>4. CASE WarmUp(p)
  <2> DEFINE active == {k \in Key : Active(k)}
             f == [k \in Key |-> IF k \in active THEN row[k] ELSE None]
             j == [at |-> "warmFill", keys |-> active, rows |-> f]
  <2>1. f \in [Key -> MaybeRow] /\ \A k \in active : f[k] # None
    BY Facts DEF MaybeRow, Active, Exists
  <2>2. Goto(p, j) /\ UNCHANGED <<row, redis, edits, faults>>
    BY <1>4 DEF WarmUp
  <2>3. active \subseteq Key
    OBVIOUS
  <2> HIDE DEF f, active
  <2>4. j \in Job /\ JobOK(j)
    BY <2>1, <2>3 DEF Job, At, JobOK, Revoking
  <2> HIDE DEF j
  <2> QED BY <2>2, <2>4, Facts, SameCache, JobStep
<1>5. CASE Reconcile(p)
  <2> DEFINE j == [IdleJob EXCEPT !.at = "reconcileFind", !.keys = tracked]
  <2>1. j \in Job /\ JobOK(j)
    BY Facts, IdleJobOK DEF IdleJob, Job, At, JobOK, Loaded, Revoking
  <2>2. Goto(p, j) /\ UNCHANGED <<row, redis, edits, faults>>
    BY <1>5 DEF Reconcile
  <2> HIDE DEF j
  <2> QED BY <2>1, <2>2, Facts, SameCache, JobStep
<1> QED BY <1>1, <1>2, <1>3, <1>4, <1>5 DEF Start

LEMMA StepInv ==
  ASSUME Inv, NEW p \in Req, Step(p) \/ Fail(p)
  PROVE  Inv'
<1>1. CASE LookupFind(p)
  <2>1. PICK k \in job[p].keys :
          IF Active(k) THEN Carry(p, "lookupFill", k, row[k]) ELSE Done(p)
    BY <1>1 DEF LookupFind
  <2>2. UNCHANGED <<row, redis, edits, faults>>
    BY <1>1 DEF LookupFind
  <2>3. CASE Active(k)
    <3>1. k \in Key /\ row[k] \in Row /\ "lookupFill" \in At \ Revoking
      BY <2>3, Facts DEF Active, Exists, MaybeRow, At, Revoking
    <3> DEFINE j == [at |-> "lookupFill", keys |-> {k}, rows |-> [NoRows EXCEPT ![k] = row[k]]]
    <3>2. j \in Job /\ JobOK(j) /\ Goto(p, j)
      BY <2>1, <2>3, <3>1, CarryFacts
    <3> HIDE DEF j
    <3> QED BY <2>2, <3>2, Facts, SameCache, JobStep
  <2>4. CASE ~Active(k)
    BY <2>1, <2>2, <2>4, Facts, SameCache, IdleJobOK, JobStep DEF Done
  <2> QED BY <2>3, <2>4
<1>2. CASE LookupFill(p) \/ Load(p) \/ WarmFill(p)
  <2>1. job[p].at \in Loaded /\ FillCache(p) /\ Goto(p, IdleJob) /\ UNCHANGED <<row, edits, faults>>
    BY <1>2 DEF LookupFill, Load, WarmFill, Done, Loaded
  <2> QED BY <2>1, Facts, FillFacts, IdleJobOK, JobStep
<1>3. CASE DeactivateInvalidate(p) \/ ChangeInvalidate(p)
  <2>1. PICK at \in At : /\ job[p].at \in Loaded /\ DropCache(p) /\ Advance(p, at)
                         /\ at \in Revoking => job[p].at \in Revoking
                         /\ UNCHANGED <<row, edits, faults>>
    BY <1>3 DEF DeactivateInvalidate, ChangeInvalidate, Loaded, Revoking, At
  <2> DEFINE j == [job[p] EXCEPT !.at = at]
  <2>2. j \in Job /\ JobOK(j) /\ Goto(p, j)
    BY <2>1, AdvanceFacts
  <2> HIDE DEF j
  <2> QED BY <2>1, <2>2, Facts, DropFacts, JobStep
<1>4. CASE ActivateSave(p) \/ ChangeSave(p)
  <2>1. PICK at \in At \ Revoking : /\ job[p].at \in Loaded /\ Save(p) /\ Advance(p, at)
                         /\ UNCHANGED <<redis, edits, faults>>
    BY <1>4 DEF ActivateSave, ChangeSave, Loaded, Revoking, At
  <2> DEFINE j == [job[p] EXCEPT !.at = at]
  <2>2. j \in Job /\ JobOK(j) /\ Goto(p, j)
    BY <2>1, AdvanceFacts
  <2> HIDE DEF j
  <2> QED BY <2>1, <2>2, Facts, SameCache, SaveFacts, JobStep
<1>5. CASE DeactivateSave(p)
  <2>1. Save(p) /\ Goto(p, IdleJob) /\ UNCHANGED <<redis, edits, faults>>
    BY <1>5 DEF DeactivateSave, Done
  <2> QED BY <2>1, Facts, SameCache, SaveFacts, IdleJobOK, JobStep
<1>6. CASE ReconcileFind(p)
  <2> DEFINE stale == {k \in job[p].keys : ~Active(k)}
             k == [IdleJob EXCEPT !.at = "reconcileDelete", !.keys = stale]
             j == IF stale = {} THEN IdleJob ELSE k
  <2>1. stale \subseteq Key
    BY Facts
  <2>2. Goto(p, j) /\ UNCHANGED <<row, redis, edits, faults>>
    BY <1>6 DEF ReconcileFind
  <2> HIDE DEF stale
  <2>3. k \in Job /\ JobOK(k)
    BY <2>1, IdleJobOK DEF IdleJob, Job, At, JobOK, Loaded, Revoking
  <2>4. j \in Job /\ JobOK(j)
    BY <2>3, IdleJobOK
  <2> HIDE DEF j
  <2> QED BY <2>2, <2>4, Facts, SameCache, JobStep
<1>7. CASE ReconcileDelete(p)
  <2>1. DropCache(p) /\ Goto(p, IdleJob) /\ UNCHANGED <<row, edits, faults>>
    BY <1>7 DEF ReconcileDelete, Done
  <2> QED BY <2>1, Facts, DropFacts, IdleJobOK, JobStep
<1>8. CASE Fail(p)
  <2>1. Goto(p, IdleJob) /\ UNCHANGED <<row, redis, edits>> /\ faults' \in 0..MaxFaults
    BY <1>8, Facts, ApiKeysConstants DEF Fail, Done
  <2> QED BY <2>1, Facts, SameCache, IdleJobOK, JobStep
<1> QED BY <1>1, <1>2, <1>3, <1>4, <1>5, <1>6, <1>7, <1>8 DEF Step

LEMMA RestartInv ==
  ASSUME Inv, RedisRestart
  PROVE  Inv'
<1>1. /\ cache' = NoRows /\ tracked' = {} /\ UNCHANGED <<row, job, edits>>
      /\ faults' \in 0..MaxFaults
  BY Facts, ApiKeysConstants DEF RedisRestart
<1>2. cache' \in [Key -> (SUBSET Perm) \union {None}] /\ CacheTracked'
  BY <1>1 DEF NoRows, CacheTracked
<1> QED BY <1>1, <1>2 DEF Inv, StateOK

LEMMA Invariance == Spec => []Inv
<1>1. Inv /\ [Next]_vars => Inv'
  <2> SUFFICES ASSUME Inv, [Next]_vars PROVE Inv'
    OBVIOUS
  <2>1. CASE UNCHANGED vars
    BY <2>1 DEF vars, Inv, StateOK, CacheTracked, JobOK
  <2> QED BY <2>1, StartInv, StepInv, RestartInv DEF Next
<1> QED BY <1>1, InvInit, PTL DEF Spec

-----------------------------------------------------------------------------
\* `alone' is a Boolean: a request that starts may clear it, a step of a
\* request leaves it as it is.
LEMMA AloneBoolean == Spec => [](alone \in BOOLEAN)
<1>1. ASSUME NEW p \in Req, Start(p) PROVE alone' \in BOOLEAN
  BY <1>1
     DEF Start, CanStart,
         Create, Lookup, Deactivate, Activate, ChangePermissions,
         WarmUp, Reconcile
<1>2. ASSUME NEW p \in Req, Step(p) \/ Fail(p) PROVE alone' = alone
  BY <1>2
     DEF Step, Fail,
         LookupFind, LookupFill, DeactivateInvalidate, DeactivateSave,
         ActivateSave, Load, ChangeSave, ChangeInvalidate, WarmFill,
         ReconcileFind, ReconcileDelete
<1>3. ASSUME RedisRestart PROVE alone' = alone
  BY <1>3 DEF RedisRestart
<1>4. alone \in BOOLEAN /\ [Next]_vars => (alone \in BOOLEAN)'
  BY <1>1, <1>2, <1>3 DEF Next, vars
<1>5. Init => alone \in BOOLEAN
  BY DEF Init
<1> QED BY <1>4, <1>5, PTL DEF Spec

\* The rows, the cache and what the suspended requests carry stay well typed.
THEOREM TypeCorrect == Spec => []TypeOK
<1>1. Inv /\ alone \in BOOLEAN => TypeOK
  BY DEF Inv, TypeOK
<1> QED BY <1>1, Invariance, AloneBoolean, PTL

\* The MULTI blocks keep api_keys and the entries in step: after any
\* interleaving, failed call or Redis restart the reconciliation, which reads
\* api_keys only, sees every cached key.
THEOREM EveryEntryTracked == Spec => []CacheTracked
<1>1. Inv => CacheTracked
  BY DEF Inv
<1> QED BY <1>1, Invariance, PTL

-----------------------------------------------------------------------------
(* As long as no request started while another was in flight.              *)

Single == \A p, q \in Req : job[p].at # "idle" /\ job[q].at # "idle" => p = q

\* The entities that a request holds agree with the rows.
Agrees(j) ==
    /\ j.at \in {"lookupFill", "warmFill", "load", "changeInvalidate"} =>
            \A k \in j.keys : j.rows[k] = row[k]
    /\ j.at \in Revoking \union {"activateSave"} =>
            \A k \in j.keys : Exists(k) /\ j.rows[k].perms = row[k].perms
    /\ j.at = "changeSave" =>
            \A k \in j.keys : Exists(k) /\ j.rows[k].active = row[k].active

\* Between its save and its invalidation changePermissions leaves an entry
\* that is not current.
Changed(k) == \E p \in Req : job[p].at = "changeInvalidate" /\ k \in job[p].keys

EntriesCurrent ==
    \A k \in Key : cache[k] # None => Exists(k) /\ (cache[k] = row[k].perms \/ Changed(k))

Undisturbed ==
    /\ Single
    /\ \A p \in Req : Agrees(job[p])
    /\ faults = 0 => EntriesCurrent

\* The only request in flight goes on with job j.
LEMMA SingleStep ==
  ASSUME Inv, Single, NEW p \in Req, job[p].at # "idle" \/ Quiet,
         NEW j \in Job, Goto(p, j), Agrees(j)'
  PROVE  /\ Single' /\ \A q \in Req : Agrees(job[q])'
         /\ job'[p] = j
         /\ \A q \in Req \ {p} : job[q].at = "idle" /\ job'[q] = job[q]
<1>1. job' = [job EXCEPT ![p] = j] /\ job \in [Req -> Job]
  BY DEF Goto, Inv, StateOK
<1>2. job'[p] = j /\ \A q \in Req \ {p} : job'[q] = job[q]
  BY <1>1
<1>3. \A q \in Req \ {p} : job[q].at = "idle"
  BY DEF Single, Quiet
<1>4. Single'
  BY <1>2, <1>3 DEF Single
<1>5. \A q \in Req : Agrees(job[q])'
  BY <1>2, <1>3 DEF Agrees, Revoking
<1> QED BY <1>2, <1>3, <1>4, <1>5

\* No entry is out of date when the only request is elsewhere.
LEMMA NoneChanged ==
  ASSUME Single, NEW p \in Req, job[p].at # "changeInvalidate", job[p].at # "idle" \/ Quiet,
         NEW k \in Key
  PROVE  ~Changed(k)
  BY DEF Single, Quiet, Changed

\* A step that changes neither rows nor cache.
LEMMA EntriesKept ==
  ASSUME Single, NEW p \in Req, job[p].at # "changeInvalidate", job[p].at # "idle" \/ Quiet,
         EntriesCurrent, UNCHANGED <<row, redis>>
  PROVE  EntriesCurrent'
  BY NoneChanged DEF EntriesCurrent, Exists, redis

LEMMA FaultFree ==
  ASSUME Inv, Undisturbed, faults' = faults \/ faults' = faults + 1, faults' = 0
  PROVE  EntriesCurrent
<1>1. faults = 0
  BY Facts, ApiKeysConstants
<1> QED BY <1>1 DEF Undisturbed

LEMMA StartUndisturbed ==
  ASSUME Inv, Undisturbed, Quiet, NEW p \in Req, Start(p)
  PROVE  Undisturbed'
<1>0. Single /\ job[p].at = "idle" /\ \A k \in Key : Exists(k) => row[k] \in Row
  BY Facts DEF Undisturbed, Quiet, Exists, MaybeRow
<1>1. CASE Create(p)
  <2>1. PICK k \in Key, Q \in SUBSET Perm :
          ~Exists(k) /\ row' = [row EXCEPT ![k] = [active |-> TRUE, perms |-> Q]]
    BY <1>1 DEF Create
  <2>2. job' = job /\ cache' = cache /\ faults' = faults
    BY <1>1 DEF Create, redis
  <2>3. Single' /\ \A q \in Req : Agrees(job[q])'
    BY <2>2 DEF Single, Quiet, Agrees, Revoking
  <2>4. ASSUME faults' = 0 PROVE EntriesCurrent'
    <3>1. EntriesCurrent
      BY <2>2, <2>4 DEF Undisturbed
    <3>2. \A n \in Key : Exists(n) => row'[n] = row[n]
      BY <2>1, Facts
    <3> QED BY <2>2, <3>1, <3>2 DEF EntriesCurrent, Changed, Exists
  <2> QED BY <2>3, <2>4 DEF Undisturbed
<1>2. ASSUME NEW j \in Job, Goto(p, j), Agrees(j), UNCHANGED <<row, redis>>,
             faults' = faults \/ faults' = faults + 1
      PROVE  Undisturbed'
  <2>1. Agrees(j)'
    BY <1>2 DEF Agrees, Exists
  <2>2. Single' /\ \A q \in Req : Agrees(job[q])'
    BY <1>0, <1>2, <2>1, SingleStep
  <2>3. faults' = 0 => EntriesCurrent'
    <3>1. job[p].at # "changeInvalidate"
      BY <1>0
    <3> QED BY <1>0, <1>2, <3>1, FaultFree, EntriesKept
  <2> QED BY <2>2, <2>3 DEF Undisturbed
<1>3. CASE Lookup(p) \/ Reconcile(p)
  <2>1. PICK at \in {"lookupFind", "reconcileFind"}, K \in SUBSET Key :
          /\ Goto(p, [IdleJob EXCEPT !.at = at, !.keys = K])
          /\ UNCHANGED <<row, redis>>
          /\ faults' = faults \/ faults' = faults + 1
    <3>1. CASE Lookup(p)
      <4>1. PICK k \in Key : Goto(p, [IdleJob EXCEPT !.at = "lookupFind", !.keys = {k}])
        BY <3>1 DEF Lookup
      <4> QED BY <3>1, <4>1 DEF Lookup
    <3>2. CASE Reconcile(p)
      BY <3>2, Facts DEF Reconcile
    <3> QED BY <1>3, <3>1, <3>2
  <2>2. PICK j : j = [IdleJob EXCEPT !.at = at, !.keys = K]
    OBVIOUS
  <2>3. j \in Job /\ j.at = at
    BY <2>2, IdleJobOK DEF IdleJob, Job, At
  <2>4. Agrees(j)
    BY <2>3 DEF Agrees, Revoking
  <2> QED BY <1>2, <2>1, <2>2, <2>3, <2>4
<1>4. CASE WarmUp(p)
  <2>1. PICK j : j = [at |-> "warmFill", keys |-> {k \in Key : Active(k)},
                      rows |-> [k \in Key |-> IF k \in {n \in Key : Active(n)}
                                              THEN row[k] ELSE None]]
    OBVIOUS
  <2>2. Goto(p, j) /\ UNCHANGED <<row, redis, faults>>
    BY <1>4, <2>1 DEF WarmUp
  <2>3. j \in Job
    BY <2>1, Facts DEF Job, At, MaybeRow
  <2>4. Agrees(j)
    BY <2>1 DEF Agrees, Revoking
  <2> QED BY <1>2, <2>2, <2>3, <2>4
<1>5. CASE Deactivate(p) \/ Activate(p) \/ ChangePermissions(p)
  <2>1. PICK k \in Key, r \in Row, at \in {"deactivateInvalidate", "activateSave", "changeSave"} :
          /\ Carry(p, at, k, r) /\ Exists(k) /\ UNCHANGED <<row, redis, faults>>
          /\ at = "changeSave" => r.active = row[k].active
          /\ at # "changeSave" => r.perms = row[k].perms
    <3>1. CASE Deactivate(p)
      <4>1. PICK k \in Key : /\ Active(k) /\ UNCHANGED <<row, redis, faults>>
                             /\ Carry(p, "deactivateInvalidate", k, [row[k] EXCEPT !.active = FALSE])
        BY <3>1 DEF Deactivate
      <4>2. Exists(k) /\ [row[k] EXCEPT !.active = FALSE] \in Row
            /\ [row[k] EXCEPT !.active = FALSE].perms = row[k].perms
        BY <1>0, <4>1 DEF Active, Row
      <4> QED BY <4>1, <4>2
    <3>2. CASE Activate(p)
      <4>1. PICK k \in Key : /\ Exists(k) /\ UNCHANGED <<row, redis, faults>>
                             /\ Carry(p, "activateSave", k, [row[k] EXCEPT !.active = TRUE])
        BY <3>2 DEF Activate
      <4>2. [row[k] EXCEPT !.active = TRUE] \in Row
            /\ [row[k] EXCEPT !.active = TRUE].perms = row[k].perms
        BY <1>0, <4>1 DEF Row
      <4> QED BY <4>1, <4>2
    <3>3. CASE ChangePermissions(p)
      <4>1. PICK k \in Key, Q \in SUBSET Perm :
                /\ Exists(k) /\ UNCHANGED <<row, redis, faults>>
                /\ Carry(p, "changeSave", k, [row[k] EXCEPT !.perms = Q])
        BY <3>3 DEF ChangePermissions
      <4>2. [row[k] EXCEPT !.perms = Q] \in Row
            /\ [row[k] EXCEPT !.perms = Q].active = row[k].active
        BY <1>0, <4>1 DEF Row
      <4> QED BY <4>1, <4>2
    <3> QED BY <1>5, <3>1, <3>2, <3>3
  <2>2. PICK f : f = [NoRows EXCEPT ![k] = r]
    OBVIOUS
  <2>3. f \in [Key -> MaybeRow] /\ f[k] = r
    BY <2>2 DEF NoRows, MaybeRow
  <2>4. PICK j : j = [at |-> at, keys |-> {k}, rows |-> f]
    OBVIOUS
  <2>5. j \in Job /\ Goto(p, j)
    BY <2>1, <2>2, <2>3, <2>4 DEF Job, At, Carry
  <2>6. Agrees(j)
    BY <2>1, <2>3, <2>4 DEF Agrees, Revoking
  <2> QED BY <1>2, <2>1, <2>5, <2>6
<1> QED BY <1>1, <1>3, <1>4, <1>5 DEF Start

LEMMA StepUndisturbed ==
  ASSUME Inv, Undisturbed, NEW p \in Req, Step(p) \/ Fail(p)
  PROVE  Undisturbed'
<1>0. /\ Single /\ job[p] \in Job /\ JobOK(job[p]) /\ Agrees(job[p])
      /\ job[p].keys \subseteq Key /\ job[p].rows \in [Key -> MaybeRow]
      /\ job \in [Req -> Job] /\ IdleJob \in Job /\ IdleJob.at = "idle"
  BY Facts, IdleJobOK DEF Undisturbed, Inv, StateOK, IdleJob
<1>i. Agrees(IdleJob)'
  BY DEF Agrees, IdleJob, Revoking
<1>1. CASE LookupFind(p)
  <2>1. PICK k \in job[p].keys :
          IF Active(k) THEN Carry(p, "lookupFill", k, row[k]) ELSE Goto(p, IdleJob)
    BY <1>1 DEF LookupFind, Done
  <2>2. job[p].at = "lookupFind" /\ UNCHANGED <<row, redis, faults>>
    BY <1>1 DEF LookupFind
  <2>3. PICK f : f = [NoRows EXCEPT ![k] = row[k]]
    OBVIOUS
  <2>4. k \in Key /\ f \in [Key -> MaybeRow] /\ f[k] = row[k]
    BY <1>0, <2>3, Facts DEF NoRows, MaybeRow
  <2>5. PICK j : j = IF Active(k) THEN [at |-> "lookupFill", keys |-> {k}, rows |-> f] ELSE IdleJob
    OBVIOUS
  <2>6. j \in Job
    BY <1>0, <2>4, <2>5 DEF Job, At
  <2>7. Goto(p, j)
    BY <2>1, <2>3, <2>5 DEF Carry
  <2>8. Agrees(j)'
    BY <1>i, <2>2, <2>4, <2>5 DEF Agrees, Revoking
  <2>9. Single' /\ \A q \in Req : Agrees(job[q])'
    BY <1>0, <2>2, <2>6, <2>7, <2>8, SingleStep
  <2>10. faults' = 0 => EntriesCurrent'
    BY <1>0, <2>2, EntriesKept DEF Undisturbed
  <2> QED BY <2>9, <2>10 DEF Undisturbed
<1>2. CASE LookupFill(p) \/ Load(p) \/ WarmFill(p)
  <2>1. /\ job[p].at \in {"lookupFill", "warmFill", "load"}
        /\ FillCache(p) /\ Goto(p, IdleJob) /\ UNCHANGED <<row, faults>>
    BY <1>2 DEF LookupFill, Load, WarmFill, Done
  <2>2. Single' /\ \A q \in Req : Agrees(job[q])'
    BY <1>0, <1>i, <2>1, SingleStep
  <2>3. \A k \in job[p].keys : row[k] # None /\ job[p].rows[k] = row[k]
    BY <1>0, <2>1 DEF Agrees, JobOK, Loaded
  <2>4. ASSUME faults' = 0 PROVE EntriesCurrent'
    <3>1. EntriesCurrent /\ \A k \in Key : ~Changed(k)
      BY <1>0, <2>1, <2>4, NoneChanged DEF Undisturbed
    <3> QED BY <2>1, <2>3, <3>1 DEF EntriesCurrent, FillCache, Exists
  <2> QED BY <2>2, <2>4 DEF Undisturbed
<1>3. CASE DeactivateInvalidate(p) \/ ChangeInvalidate(p)
  <2>1. PICK at \in {"deactivateSave", "load"} :
          /\ job[p].at = IF at = "load" THEN "changeInvalidate" ELSE "deactivateInvalidate"
          /\ DropCache(p) /\ Advance(p, at) /\ UNCHANGED <<row, faults>>
    BY <1>3 DEF DeactivateInvalidate, ChangeInvalidate
  <2>2. PICK j : j = [job[p] EXCEPT !.at = at]
    OBVIOUS
  <2>3. j \in Job /\ j.at = at /\ j.keys = job[p].keys /\ j.rows = job[p].rows
    BY <1>0, <2>2 DEF Job, At
  <2>4. Goto(p, j)
    BY <1>0, <2>1, <2>2 DEF Advance, Goto
  <2>5. Agrees(j)'
    BY <1>0, <2>1, <2>3 DEF Agrees, Exists, Revoking
  <2>6. Single' /\ \A q \in Req : Agrees(job[q])'
    BY <1>0, <2>1, <2>3, <2>4, <2>5, SingleStep
  <2>7. ASSUME faults' = 0 PROVE EntriesCurrent'
    <3>1. EntriesCurrent
      BY <2>1, <2>7 DEF Undisturbed
    <3>2. \A k \in Key : Changed(k) => k \in job[p].keys
      BY <1>0, <2>1 DEF Single, Changed
    <3> QED BY <2>1, <3>1, <3>2 DEF EntriesCurrent, DropCache, Exists
  <2> QED BY <2>6, <2>7 DEF Undisturbed
<1>4. CASE ActivateSave(p) \/ ChangeSave(p)
  <2>1. PICK at \in {"load", "changeInvalidate"} :
          /\ job[p].at = IF at = "load" THEN "activateSave" ELSE "changeSave"
          /\ Save(p) /\ Advance(p, at) /\ UNCHANGED <<redis, faults>>
    BY <1>4 DEF ActivateSave, ChangeSave
  <2>2. PICK j : j = [job[p] EXCEPT !.at = at]
    OBVIOUS
  <2>3. j \in Job /\ j.at = at /\ j.keys = job[p].keys /\ j.rows = job[p].rows
    BY <1>0, <2>2 DEF Job, At
  <2>4. Goto(p, j)
    BY <1>0, <2>1, <2>2 DEF Advance, Goto
  <2>5. \A k \in Key : row'[k] = IF k \in job[p].keys THEN job[p].rows[k] ELSE row[k]
    BY <2>1 DEF Save
  <2>6. Agrees(j)'
    BY <1>0, <2>1, <2>3, <2>5 DEF Agrees, Revoking
  <2>7. Single' /\ (\A q \in Req : Agrees(job[q])') /\ job'[p] = j
    BY <1>0, <2>1, <2>3, <2>4, <2>6, SingleStep
  <2>8. ASSUME faults' = 0 PROVE EntriesCurrent'
    <3>1. EntriesCurrent /\ cache' = cache
      BY <2>1, <2>8 DEF Undisturbed, redis
    <3>2. \A k \in Key : ~Changed(k)
      BY <1>0, <2>1, NoneChanged
    <3>3. \A k \in job[p].keys : job[p].rows[k] # None
      BY <1>0, <2>1 DEF JobOK, Loaded
    <3>4. \A k \in job[p].keys : job[p].rows[k].perms = row[k].perms \/ Changed(k)'
      BY <1>0, <2>1, <2>3, <2>7 DEF Agrees, Changed
    <3> QED BY <2>5, <3>1, <3>2, <3>3, <3>4 DEF EntriesCurrent, Exists
  <2> QED BY <2>7, <2>8 DEF Undisturbed
<1>5. CASE DeactivateSave(p)
  <2>1. /\ job[p].at = "deactivateSave"
        /\ Save(p) /\ Goto(p, IdleJob) /\ UNCHANGED <<redis, faults>>
    BY <1>5 DEF DeactivateSave, Done
  <2>2. Single' /\ \A q \in Req : Agrees(job[q])'
    BY <1>0, <1>i, <2>1, SingleStep
  <2>3. \A k \in Key : row'[k] = IF k \in job[p].keys THEN job[p].rows[k] ELSE row[k]
    BY <2>1 DEF Save
  <2>4. ASSUME faults' = 0 PROVE EntriesCurrent'
    <3>1. EntriesCurrent /\ cache' = cache /\ \A k \in Key : ~Changed(k)
      BY <1>0, <2>1, <2>4, NoneChanged DEF Undisturbed, redis
    <3>2. \A k \in job[p].keys : job[p].rows[k] # None /\ job[p].rows[k].perms = row[k].perms
      BY <1>0, <2>1 DEF JobOK, Loaded, Agrees, Revoking
    <3> QED BY <2>3, <3>1, <3>2 DEF EntriesCurrent, Exists
  <2> QED BY <2>2, <2>4 DEF Undisturbed
<1>6. CASE ReconcileFind(p)
  <2>1. PICK K : K = {k \in job[p].keys : ~Active(k)}
    OBVIOUS
  <2>2. PICK j : j = IF K = {} THEN IdleJob
                     ELSE [IdleJob EXCEPT !.at = "reconcileDelete", !.keys = K]
    OBVIOUS
  <2>3. job[p].at = "reconcileFind" /\ Goto(p, j) /\ UNCHANGED <<row, redis, faults>>
    BY <1>6, <2>1, <2>2 DEF ReconcileFind
  <2>4. j \in Job /\ j.at \in {"idle", "reconcileDelete"}
    BY <1>0, <2>1, <2>2 DEF IdleJob, Job, At
  <2>5. Agrees(j)'
    BY <2>4 DEF Agrees, Revoking
  <2>6. Single' /\ \A q \in Req : Agrees(job[q])'
    BY <1>0, <2>3, <2>4, <2>5, SingleStep
  <2>7. faults' = 0 => EntriesCurrent'
    BY <1>0, <2>3, EntriesKept DEF Undisturbed
  <2> QED BY <2>6, <2>7 DEF Undisturbed
<1>7. CASE ReconcileDelete(p)
  <2>1. /\ job[p].at = "reconcileDelete"
        /\ DropCache(p) /\ Goto(p, IdleJob) /\ UNCHANGED <<row, faults>>
    BY <1>7 DEF ReconcileDelete, Done
  <2>2. Single' /\ \A q \in Req : Agrees(job[q])'
    BY <1>0, <1>i, <2>1, SingleStep
  <2>3. ASSUME faults' = 0 PROVE EntriesCurrent'
    <3>1. EntriesCurrent /\ \A k \in Key : ~Changed(k)
      BY <1>0, <2>1, <2>3, NoneChanged DEF Undisturbed
    <3> QED BY <2>1, <3>1 DEF EntriesCurrent, DropCache, Exists
  <2> QED BY <2>2, <2>3 DEF Undisturbed
<1>8. CASE Fail(p)
  <2>1. job[p].at # "idle" /\ Goto(p, IdleJob) /\ faults' = faults + 1
    BY <1>8 DEF Fail, Done
  <2>2. Single' /\ \A q \in Req : Agrees(job[q])'
    BY <1>0, <1>i, <2>1, SingleStep
  <2>3. faults' # 0
    BY <2>1, Facts, ApiKeysConstants
  <2> QED BY <2>2, <2>3 DEF Undisturbed
<1> QED BY <1>1, <1>2, <1>3, <1>4, <1>5, <1>6, <1>7, <1>8 DEF Step

LEMMA RestartUndisturbed ==
  ASSUME Inv, Undisturbed, RedisRestart
  PROVE  Undisturbed'
<1>1. faults' # 0 /\ UNCHANGED <<row, job>>
  BY Facts, ApiKeysConstants DEF RedisRestart
<1> QED BY <1>1 DEF Undisturbed, Single, Agrees, Exists

AloneOK == alone => Undisturbed

LEMMA AloneInvariance == Spec => []AloneOK
<1>1. Init => AloneOK
  <2> SUFFICES ASSUME Init PROVE Undisturbed
    BY Zenon DEF AloneOK
  <2>1. \A q \in Req : job[q] = IdleJob /\ job[q].at = "idle"
    BY DEF Init, IdleJob
  <2>2. Single /\ \A q \in Req : Agrees(job[q])
    BY <2>1 DEF Single, Agrees, Revoking
  <2>3. EntriesCurrent
    BY DEF Init, NoRows, EntriesCurrent
  <2> QED BY <2>2, <2>3 DEF Undisturbed
<1>2. Inv /\ AloneOK /\ [Next]_vars => AloneOK'
  <2> SUFFICES ASSUME Inv, AloneOK, [Next]_vars PROVE AloneOK'
    OBVIOUS
  <2>1. ASSUME NEW p \in Req, Start(p) PROVE AloneOK'
    <3>1. CanStart(p)
      BY <2>1 DEF Start, Create, Lookup, Deactivate, Activate, ChangePermissions,
                  WarmUp, Reconcile
    <3>2. alone' => alone /\ Quiet
      BY <3>1, Zenon DEF CanStart
    <3>3. Undisturbed /\ Quiet => Undisturbed'
      BY <2>1, StartUndisturbed
    <3> QED BY <3>2, <3>3, Zenon DEF AloneOK
  <2>2. ASSUME NEW p \in Req, Step(p) \/ Fail(p) PROVE AloneOK'
    <3>1. alone' = alone
      BY <2>2
         DEF Step, Fail,
             LookupFind, LookupFill, DeactivateInvalidate, DeactivateSave,
             ActivateSave, Load, ChangeSave, ChangeInvalidate, WarmFill,
             ReconcileFind, ReconcileDelete
    <3>2. Undisturbed => Undisturbed'
      BY <2>2, StepUndisturbed
    <3> QED BY <3>1, <3>2, Zenon DEF AloneOK
  <2>3. ASSUME RedisRestart PROVE AloneOK'
    <3>1. alone' = alone
      BY <2>3 DEF RedisRestart
    <3>2. Undisturbed => Undisturbed'
      BY <2>3, RestartUndisturbed
    <3> QED BY <3>1, <3>2, Zenon DEF AloneOK
  <2>4. ASSUME UNCHANGED vars PROVE AloneOK'
    <3>1. alone' = alone
      BY <2>4 DEF vars
    <3>2. Undisturbed => Undisturbed'
      BY <2>4 DEF vars, Undisturbed, Single, Agrees, Exists, EntriesCurrent, Changed
    <3> QED BY <3>1, <3>2, Zenon DEF AloneOK
  <2> QED BY <2>1, <2>2, <2>3, <2>4 DEF Next
<1> QED BY <1>1, <1>2, Invariance, PTL DEF Spec

\* For any number of keys and any sequence of requests that do not overlap:
\* between requests, unless a call failed, an entry has the permissions of
\* its row.
THEOREM SerialEntriesCurrent == Spec => []CachedPermissionsCurrent
<1>1. AloneOK => CachedPermissionsCurrent
  <2> SUFFICES ASSUME AloneOK, Quiet, alone, faults = 0,
                      NEW k \in Key, cache[k] # None
               PROVE  Exists(k) /\ cache[k] = row[k].perms
    BY DEF CachedPermissionsCurrent
  <2>1. Undisturbed
    BY Zenon DEF AloneOK
  <2> QED BY <2>1 DEF Undisturbed, EntriesCurrent, Changed, Quiet
<1> QED BY <1>1, AloneInvariance, PTL

-----------------------------------------------------------------------------
(* Revoked keys.                                                           *)

\* A request that goes on with one entity holds an active copy of nothing else.
LEMMA CarryHolds ==
  ASSUME Inv, NEW p \in Req, NEW at, NEW n \in Key, NEW r, Carry(p, at, n, r),
         NEW k \in Key, HoldsActive(p, k)'
  PROVE  k = n /\ r.active /\ job'[p].at = at
<1>1. PICK f : f = [NoRows EXCEPT ![n] = r]
  OBVIOUS
<1>2. PICK j : j = [at |-> at, keys |-> {n}, rows |-> f]
  OBVIOUS
<1>3. job'[p] = j
  BY <1>1, <1>2 DEF Carry, Goto, Inv, StateOK
<1>4. job'[p].rows = f /\ job'[p].at = at
  BY <1>2, <1>3
<1>5. f[k] # None /\ f[k].active
  BY <1>4 DEF HoldsActive
<1>6. k = n
  BY <1>1, <1>5 DEF NoRows
<1> QED BY <1>1, <1>4, <1>5, <1>6 DEF NoRows

\* A request that goes on without an entity holds none.
LEMMA BareHolds ==
  ASSUME Inv, NEW p \in Req, NEW j, Goto(p, j), j.rows = NoRows, NEW k \in Key
  PROVE  ~HoldsActive(p, k)'
<1>1. job'[p] = j
  BY DEF Goto, Inv, StateOK
<1> QED BY <1>1 DEF HoldsActive, NoRows

LEMMA StartHolds ==
  ASSUME Inv, NEW p \in Req, Start(p), NEW k \in Key, ~Active(k), Exists(k),
         ~HoldsActive(p, k), HoldsActive(p, k)'
  PROVE  job'[p].at = "activateSave"
<1>1. CASE Create(p)
  BY <1>1 DEF Create, HoldsActive
<1>2. CASE Lookup(p)
  <2>1. PICK n \in Key : Goto(p, [IdleJob EXCEPT !.at = "lookupFind", !.keys = {n}])
    BY <1>2 DEF Lookup
  <2>2. PICK j : j = [IdleJob EXCEPT !.at = "lookupFind", !.keys = {n}]
    OBVIOUS
  <2>3. Goto(p, j) /\ j.rows = NoRows
    BY <2>1, <2>2 DEF IdleJob
  <2> QED BY <2>3, BareHolds
<1>3. CASE Deactivate(p)
  <2>1. PICK n \in Key : Active(n) /\
            Carry(p, "deactivateInvalidate", n, [row[n] EXCEPT !.active = FALSE])
    BY <1>3 DEF Deactivate
  <2>2. k = n
    BY <2>1, CarryHolds
  <2> QED BY <2>1, <2>2
<1>4. CASE Activate(p)
  <2>1. PICK n \in Key : Carry(p, "activateSave", n, [row[n] EXCEPT !.active = TRUE])
    BY <1>4 DEF Activate
  <2> QED BY <2>1, CarryHolds
<1>5. CASE ChangePermissions(p)
  <2>1. PICK n \in Key, Q \in SUBSET Perm : Carry(p, "changeSave", n, [row[n] EXCEPT !.perms = Q])
    BY <1>5 DEF ChangePermissions
  <2>2. PICK r : r = [row[n] EXCEPT !.perms = Q]
    OBVIOUS
  <2>3. Carry(p, "changeSave", n, r)
    BY <2>1, <2>2, Zenon
  <2>4. k = n /\ r.active
    BY <2>3, CarryHolds
  <2>5. row[k] \in Row
    BY Facts DEF Exists, MaybeRow
  <2>6. r.active = row[k].active
    BY <2>2, <2>4, <2>5 DEF Row
  <2> QED BY <2>4, <2>6 DEF Active
<1>6. CASE WarmUp(p)
  <2>1. PICK A : A = {n \in Key : Active(n)}
    OBVIOUS
  <2>2. PICK f : f = [n \in Key |-> IF n \in A THEN row[n] ELSE None]
    OBVIOUS
  <2>3. PICK j : j = [at |-> "warmFill", keys |-> A, rows |-> f]
    OBVIOUS
  <2>4. Goto(p, j)
    BY <1>6, <2>1, <2>2, <2>3 DEF WarmUp
  <2>5. job'[p].rows = f
    BY <2>3, <2>4 DEF Goto, Inv, StateOK
  <2>6. f[k] = None
    BY <2>1, <2>2
  <2> QED BY <2>5, <2>6 DEF HoldsActive
<1>7. CASE Reconcile(p)
  <2>1. PICK j : j = [IdleJob EXCEPT !.at = "reconcileFind", !.keys = tracked]
    OBVIOUS
  <2>2. Goto(p, j) /\ j.rows = NoRows
    BY <1>7, <2>1 DEF Reconcile, IdleJob
  <2> QED BY <2>2, BareHolds
<1> QED BY <1>1, <1>2, <1>3, <1>4, <1>5, <1>6, <1>7 DEF Start

LEMMA StepHolds ==
  ASSUME Inv, NEW p \in Req, Step(p) \/ Fail(p), NEW k \in Key, ~Active(k),
         ~HoldsActive(p, k), HoldsActive(p, k)'
  PROVE  FALSE
<1>1. ASSUME Done(p) PROVE FALSE
  <2>1. Goto(p, IdleJob) /\ IdleJob.rows = NoRows
    BY <1>1 DEF Done, IdleJob
  <2> QED BY <2>1, BareHolds
<1>2. ASSUME NEW at, Advance(p, at) PROVE FALSE
  <2>1. job'[p].rows = job[p].rows
    BY <1>2, Facts DEF Advance, Inv, StateOK, Job
  <2> QED BY <2>1 DEF HoldsActive
<1>3. CASE LookupFind(p)
  <2>1. PICK n \in Key : IF Active(n) THEN Carry(p, "lookupFill", n, row[n]) ELSE Done(p)
    BY <1>3, Facts DEF LookupFind
  <2>2. Active(n) /\ Carry(p, "lookupFill", n, row[n])
    BY <1>1, <2>1
  <2>3. k = n
    BY <2>2, CarryHolds
  <2> QED BY <2>2, <2>3
<1>4. CASE ReconcileFind(p)
  <2>1. PICK S : S = {n \in job[p].keys : ~Active(n)}
    OBVIOUS
  <2>2. PICK j : j = [IdleJob EXCEPT !.at = "reconcileDelete", !.keys = S]
    OBVIOUS
  <2>3. j.rows = NoRows /\ IdleJob.rows = NoRows
    BY <2>2 DEF IdleJob
  <2>4. Goto(p, IdleJob) \/ Goto(p, j)
    BY <1>4, <2>1, <2>2 DEF ReconcileFind
  <2> QED BY <2>3, <2>4, BareHolds
<1>5. CASE LookupFill(p) \/ DeactivateSave(p) \/ Load(p) \/ WarmFill(p) \/ ReconcileDelete(p)
           \/ Fail(p)
  BY <1>1, <1>5 DEF LookupFill, DeactivateSave, Load, WarmFill, ReconcileDelete, Fail
<1>6. CASE DeactivateInvalidate(p) \/ ActivateSave(p) \/ ChangeSave(p) \/ ChangeInvalidate(p)
  BY <1>2, <1>6 DEF DeactivateInvalidate, ActivateSave, ChangeSave, ChangeInvalidate
<1> QED BY <1>3, <1>4, <1>5, <1>6 DEF Step

\* Only its own steps change what a request holds.
LEMMA OthersHold ==
  ASSUME Inv, NEW q \in Req, Start(q) \/ Step(q) \/ Fail(q), NEW p \in Req, p # q
  PROVE  job'[p] = job[p]
  BY DEF Start, Step, Create, Lookup, Deactivate, Activate, ChangePermissions, WarmUp, Reconcile,
         LookupFind, LookupFill, DeactivateInvalidate, DeactivateSave, ActivateSave, Load,
         ChangeSave, ChangeInvalidate, WarmFill, ReconcileFind, ReconcileDelete, Fail,
         Carry, Goto, Advance, Done, Inv, StateOK

LEMMA HoldsKept ==
  ASSUME Inv, Next, NEW k \in Key, Exists(k), ~Active(k), NEW p \in Req, HoldsActive(p, k)'
  PROVE  HoldsActive(p, k) \/ job'[p].at = "activateSave"
<1>1. ASSUME NEW q \in Req, Start(q) \/ Step(q) \/ Fail(q)
      PROVE  HoldsActive(p, k) \/ job'[p].at = "activateSave"
  <2>1. CASE q = p
    BY <1>1, <2>1, StartHolds, StepHolds
  <2>2. CASE q # p
    BY <1>1, <2>2, OthersHold DEF HoldsActive
  <2> QED BY <2>1, <2>2
<1>2. CASE RedisRestart
  BY <1>2 DEF RedisRestart, HoldsActive
<1> QED BY <1>1, <1>2 DEF Next

LEMMA OnlyTheseReadmit ==
  ASSUME Inv, Next, NEW k \in Key, Exists(k), ~Active(k), Active(k)'
  PROVE  \E p \in Req :
            /\ k \in job[p].keys
            /\ \/ job[p].at = "activateSave"
               \/ job[p].at = "changeSave" /\ HoldsActive(p, k)
<1>1. row'[k] # row[k]
  BY DEF Active, Exists
<1>2. PICK p \in Req : DeactivateSave(p) \/ ActivateSave(p) \/ ChangeSave(p)
  <2>1. row' # row
    BY <1>1
  <2>2. ASSUME NEW p \in Req, Start(p) PROVE FALSE
    <3>1. CASE Create(p)
      BY <1>1, <3>1, Facts DEF Create, Exists
    <3>2. CASE Lookup(p) \/ Deactivate(p) \/ Activate(p) \/ ChangePermissions(p)
               \/ WarmUp(p) \/ Reconcile(p)
      BY <2>1, <3>2 DEF Lookup, Deactivate, Activate, ChangePermissions, WarmUp, Reconcile
    <3> QED BY <2>2, <3>1, <3>2 DEF Start
  <2>3. ASSUME NEW p \in Req, Step(p) \/ Fail(p)
        PROVE  DeactivateSave(p) \/ ActivateSave(p) \/ ChangeSave(p)
    BY <2>1, <2>3
       DEF Step, Fail, LookupFind, LookupFill, DeactivateInvalidate, Load,
           ChangeInvalidate, WarmFill, ReconcileFind, ReconcileDelete
  <2>4. ~RedisRestart
    BY <2>1 DEF RedisRestart
  <2> QED BY <2>2, <2>3, <2>4 DEF Next
<1>3. Save(p)
  BY <1>2 DEF DeactivateSave, ActivateSave, ChangeSave
<1>4. k \in job[p].keys /\ row'[k] = job[p].rows[k]
  BY <1>1, <1>3 DEF Save
<1>5. HoldsActive(p, k)
  BY <1>4 DEF Active, Exists, HoldsActive
<1>6. CASE DeactivateSave(p)
  <2>1. job[p].rows[k].active = FALSE
    BY <1>4, <1>6, Facts DEF DeactivateSave, JobOK, Revoking
  <2> QED BY <1>5, <2>1 DEF HoldsActive
<1>7. CASE ActivateSave(p) \/ ChangeSave(p)
  <2>1. job[p].at = "activateSave" \/ job[p].at = "changeSave"
    BY <1>7 DEF ActivateSave, ChangeSave
  <2> QED BY <1>4, <1>5, <2>1
<1> QED BY <1>2, <1>6, <1>7

\* For any number of requests: only activate, or the late save of a
\* changePermissions that loaded the key before it was revoked, makes a revoked
\* key active again, because while it is revoked nobody else comes to hold an
\* active copy of it.
THEOREM RevocationIsKept == Spec => RevocationHolds
<1> DEFINE Revocation ==
        \A k \in Key : Exists(k) /\ ~Active(k) =>
            /\ Active(k)' =>
                \E p \in Req :
                    /\ k \in job[p].keys
                    /\ \/ job[p].at = "activateSave"
                       \/ job[p].at = "changeSave" /\ HoldsActive(p, k)
            /\ \A p \in Req :
                HoldsActive(p, k)' => HoldsActive(p, k) \/ job'[p].at = "activateSave"
<1>1. Inv /\ [Next]_vars => [Revocation]_vars
  BY HoldsKept, OnlyTheseReadmit
<1> QED BY <1>1, Invariance, PTL DEF Spec, RevocationHolds

-----------------------------------------------------------------------------
(* One pass of handleCacheReconciliation, from the answer of SMEMBERS on,  *)
(* while other requests look keys up, create them, activate them, change   *)
(* the permissions of active ones, reconcile as well or fail.  What has to *)
(* be kept apart is the request that carries an inactive entity: one that  *)
(* deactivates, changes the permissions of a revoked key, or fills the     *)
(* cache with an entity it loaded before the key was revoked.              *)

CarriesActive(q) ==
    \A k \in job[q].keys : job[q].rows[k] # None => job[q].rows[k].active

\* The requests whose entities are in the table.
Stored == {"lookupFill", "load", "changeInvalidate", "warmFill"}

Admitting(q) ==
    /\ CarriesActive(q)
    /\ job[q].at \in Stored => \A k \in job[q].keys : Active(k)

\* Any state of the cache: only what the invariant says is known of it.
PassInit(p) ==
    /\ Inv
    /\ job[p].at = "reconcileFind"
    /\ job[p].keys = tracked
    /\ \A q \in Req \ {p} : Admitting(q)

PassNext(p) ==
    \/ ReconcileFind(p)
    \/ ReconcileDelete(p)
    \/ \E q \in Req \ {p} : (Start(q) \/ Step(q) \/ Fail(q)) /\ CarriesActive(q)'
    \/ RedisRestart

Pass(p) == PassInit(p) /\ [][PassNext(p)]_vars

\* What is left to evict is in the hands of the pass.
PassOK(p) ==
    /\ Inv
    /\ job[p].at \in {"reconcileFind", "reconcileDelete", "idle"}
    /\ job[p].at = "idle" => job[p].keys = {}
    /\ \A k \in Key : cache[k] # None /\ ~Active(k) => k \in job[p].keys
    /\ \A q \in Req \ {p} : Admitting(q)

\* A request whose new job is j does no harm: it stores and caches active keys.
LEMMA AdmitStep ==
  ASSUME Inv, NEW q \in Req, NEW j, Goto(q, j), CarriesActive(q)',
         j.at \in Stored => \A k \in j.keys : Active(k)'
  PROVE  Admitting(q)'
<1>1. job'[q] = j
  BY DEF Goto, Inv, StateOK
<1> QED BY <1>1 DEF Admitting, Stored

\* Rows and entries stay as they are.
LEMMA AdmitQuiet ==
  ASSUME Inv, NEW q \in Req, NEW j, Goto(q, j), CarriesActive(q)', j.at \notin Stored,
         row' = row, \A k \in Key : cache'[k] # None => cache[k] # None
  PROVE  /\ Admitting(q)'
         /\ \A k \in Key : Active(k) => Active(k)'
         /\ \A k \in Key : cache'[k] # None => cache[k] # None \/ Active(k)'
<1>1. Admitting(q)'
  BY AdmitStep
<1>2. \A k \in Key : Active(k) => Active(k)'
  BY DEF Active, Exists
<1> QED BY <1>1, <1>2

LEMMA AdmitStart ==
  ASSUME Inv, NEW q \in Req, Admitting(q), Start(q), CarriesActive(q)'
  PROVE  /\ Admitting(q)'
         /\ \A k \in Key : Active(k) => Active(k)'
         /\ \A k \in Key : cache'[k] # None => cache[k] # None \/ Active(k)'
<1>1. CASE Create(q)
  <2>1. PICK n \in Key, Q \in SUBSET Perm :
          ~Exists(n) /\ row' = [row EXCEPT ![n] = [active |-> TRUE, perms |-> Q]]
    BY <1>1 DEF Create
  <2>2. UNCHANGED <<cache, job>>
    BY <1>1 DEF Create, redis
  <2>3. \A k \in Key : Active(k) => Active(k)'
    BY <2>1, Facts DEF Active, Exists
  <2>4. \A k \in job[q].keys : k \in Key
    BY Facts
  <2>5. Admitting(q)'
    BY <2>2, <2>3, <2>4 DEF Admitting, CarriesActive, Stored
  <2> QED BY <2>2, <2>3, <2>5
<1>2. CASE Lookup(q)
  <2>1. PICK k \in Key : Goto(q, [IdleJob EXCEPT !.at = "lookupFind", !.keys = {k}])
    BY <1>2 DEF Lookup
  <2>2. PICK j : j = [IdleJob EXCEPT !.at = "lookupFind", !.keys = {k}]
    OBVIOUS
  <2>3. j.at \notin Stored /\ row' = row /\ cache' = cache
    BY <1>2, <2>2 DEF Lookup, redis, IdleJob, Stored
  <2> QED BY <2>1, <2>2, <2>3, AdmitQuiet
<1>3. CASE Deactivate(q) \/ Activate(q) \/ ChangePermissions(q)
  <2>1. PICK at, k, r : /\ at \in {"deactivateInvalidate", "activateSave", "changeSave"}
                        /\ Carry(q, at, k, r)
    <3>1. CASE Deactivate(q)
      <4>1. \E k \in Key : Carry(q, "deactivateInvalidate", k, [row[k] EXCEPT !.active = FALSE])
        BY <3>1 DEF Deactivate
      <4> QED BY <4>1
    <3>2. CASE Activate(q)
      <4>1. \E k \in Key : Carry(q, "activateSave", k, [row[k] EXCEPT !.active = TRUE])
        BY <3>2 DEF Activate
      <4> QED BY <4>1
    <3>3. CASE ChangePermissions(q)
      <4>1. \E k \in Key, Q \in SUBSET Perm : Carry(q, "changeSave", k, [row[k] EXCEPT !.perms = Q])
        BY <3>3 DEF ChangePermissions
      <4> QED BY <4>1
    <3> QED BY <1>3, <3>1, <3>2, <3>3
  <2>2. PICK j : j = [at |-> at, keys |-> {k}, rows |-> [NoRows EXCEPT ![k] = r]]
    OBVIOUS
  <2>3. Goto(q, j) /\ j.at \notin Stored
    BY <2>1, <2>2 DEF Carry, Stored
  <2>4. row' = row /\ cache' = cache
    BY <1>3 DEF Deactivate, Activate, ChangePermissions, redis
  <2> QED BY <2>3, <2>4, AdmitQuiet
<1>4. CASE WarmUp(q)
  <2>1. PICK A : A = {k \in Key : Active(k)}
    OBVIOUS
  <2>2. PICK j : j = [at |-> "warmFill", keys |-> A,
                      rows |-> [k \in Key |-> IF k \in A THEN row[k] ELSE None]]
    OBVIOUS
  <2>3. Goto(q, j) /\ row' = row /\ cache' = cache
    BY <1>4, <2>1, <2>2 DEF WarmUp, redis
  <2>4. \A k \in Key : Active(k) => Active(k)'
    BY <2>3 DEF Active, Exists
  <2>5. \A k \in j.keys : Active(k)'
    BY <2>1, <2>2, <2>4
  <2>6. Admitting(q)'
    BY <2>3, <2>5, AdmitStep
  <2> QED BY <2>3, <2>4, <2>6
<1>5. CASE Reconcile(q)
  <2>1. PICK j : j = [IdleJob EXCEPT !.at = "reconcileFind", !.keys = tracked]
    OBVIOUS
  <2>2. j.at \notin Stored /\ Goto(q, j) /\ row' = row /\ cache' = cache
    BY <1>5, <2>1 DEF Reconcile, redis, IdleJob, Stored
  <2> QED BY <2>2, AdmitQuiet
<1> QED BY <1>1, <1>2, <1>3, <1>4, <1>5 DEF Start

LEMMA AdmitNext ==
  ASSUME Inv, NEW q \in Req, Admitting(q), Step(q) \/ Fail(q), CarriesActive(q)'
  PROVE  /\ Admitting(q)'
         /\ \A k \in Key : Active(k) => Active(k)'
         /\ \A k \in Key : cache'[k] # None => cache[k] # None \/ Active(k)'
<1>0. IdleJob.at \notin Stored
  BY DEF IdleJob, Stored
<1>1. CASE LookupFind(q)
  <2>1. PICK n \in job[q].keys : IF Active(n) THEN Carry(q, "lookupFill", n, row[n]) ELSE Done(q)
    BY <1>1 DEF LookupFind
  <2>2. row' = row /\ cache' = cache
    BY <1>1 DEF LookupFind, redis
  <2>3. CASE ~Active(n)
    BY <1>0, <2>1, <2>2, <2>3, AdmitQuiet DEF Done
  <2>4. CASE Active(n)
    <3>1. PICK j : j = [at |-> "lookupFill", keys |-> {n}, rows |-> [NoRows EXCEPT ![n] = row[n]]]
      OBVIOUS
    <3>2. Goto(q, j) /\ j.keys = {n}
      BY <2>1, <2>4, <3>1 DEF Carry
    <3>3. \A k \in Key : Active(k) => Active(k)'
      BY <2>2 DEF Active, Exists
    <3>4. n \in Key
      BY Facts
    <3>5. Admitting(q)'
      BY <2>4, <3>2, <3>3, <3>4, AdmitStep
    <3> QED BY <2>2, <3>3, <3>5
  <2> QED BY <2>3, <2>4
<1>2. CASE LookupFill(q) \/ Load(q) \/ WarmFill(q)
  <2>1. /\ job[q].at \in Stored /\ FillCache(q) /\ Goto(q, IdleJob) /\ row' = row
    BY <1>2 DEF LookupFill, Load, WarmFill, Done, Stored
  <2>2. \A k \in Key : Active(k) => Active(k)'
    BY <2>1 DEF Active, Exists
  <2>3. \A k \in job[q].keys : k \in Key /\ Active(k)'
    BY <2>1, <2>2, Facts DEF Admitting
  <2>4. \A k \in Key : cache'[k] # None => cache[k] # None \/ Active(k)'
    BY <2>1, <2>3 DEF FillCache
  <2>5. Admitting(q)'
    BY <1>0, <2>1, AdmitStep
  <2> QED BY <2>2, <2>4, <2>5
<1>3. CASE DeactivateInvalidate(q) \/ ChangeInvalidate(q)
  <2>1. PICK at \in {"deactivateSave", "load"} :
          /\ at = "load" => job[q].at \in Stored
          /\ DropCache(q) /\ Advance(q, at) /\ row' = row
    BY <1>3 DEF DeactivateInvalidate, ChangeInvalidate, Stored
  <2>2. PICK j : j = [job[q] EXCEPT !.at = at]
    OBVIOUS
  <2>3. Goto(q, j) /\ j.at = at /\ j.keys = job[q].keys
    BY <2>1, <2>2, Facts DEF Advance, Goto, Job
  <2>4. \A k \in Key : Active(k) => Active(k)'
    BY <2>1 DEF Active, Exists
  <2>5. j.at \in Stored => \A k \in j.keys : Active(k)'
    BY <2>1, <2>3, <2>4, Facts DEF Admitting, Stored
  <2>6. Admitting(q)'
    BY <2>3, <2>5, AdmitStep
  <2> QED BY <2>1, <2>4, <2>6 DEF DropCache
<1>4. CASE DeactivateSave(q) \/ ActivateSave(q) \/ ChangeSave(q)
  <2>1. Save(q) /\ cache' = cache /\ job[q].at \in Loaded
    BY <1>4 DEF DeactivateSave, ActivateSave, ChangeSave, redis, Loaded
  <2>2. \A k \in job[q].keys : k \in Key /\ job[q].rows[k] # None /\ job[q].rows[k].active
    BY <2>1, Facts DEF JobOK, Admitting, CarriesActive
  <2>3. \A k \in Key : row'[k] = IF k \in job[q].keys THEN job[q].rows[k] ELSE row[k]
    BY <2>1 DEF Save
  <2>4. \A k \in job[q].keys : Active(k)'
    BY <2>2, <2>3 DEF Active, Exists
  <2>5. \A k \in Key : Active(k) => Active(k)'
    BY <2>3, <2>4 DEF Active, Exists
  <2>6. PICK j : Goto(q, j) /\ (j.at \in Stored => j.keys = job[q].keys)
    <3>1. CASE DeactivateSave(q)
      BY <1>0, <3>1 DEF DeactivateSave, Done
    <3>2. CASE ActivateSave(q) \/ ChangeSave(q)
      <4>1. PICK at : Advance(q, at)
        BY <3>2 DEF ActivateSave, ChangeSave
      <4>2. PICK i : i = [job[q] EXCEPT !.at = at]
        OBVIOUS
      <4>3. Goto(q, i) /\ i.keys = job[q].keys
        BY <4>1, <4>2, Facts DEF Advance, Goto, Job
      <4> QED BY <4>3
    <3> QED BY <1>4, <3>1, <3>2
  <2>7. Admitting(q)'
    BY <2>4, <2>6, AdmitStep
  <2> QED BY <2>1, <2>5, <2>7
<1>5. CASE ReconcileFind(q)
  <2>1. PICK j : /\ j.at = "idle" \/ j.at = "reconcileDelete"
                 /\ Goto(q, j)
    BY <1>5 DEF ReconcileFind, IdleJob
  <2>2. row' = row /\ cache' = cache
    BY <1>5 DEF ReconcileFind, redis
  <2> QED BY <2>1, <2>2, AdmitQuiet DEF Stored
<1>6. CASE ReconcileDelete(q)
  <2>1. Goto(q, IdleJob) /\ row' = row /\ \A k \in Key : cache'[k] # None => cache[k] # None
    BY <1>6 DEF ReconcileDelete, Done, DropCache
  <2> QED BY <1>0, <2>1, AdmitQuiet
<1>7. CASE Fail(q)
  <2>1. Goto(q, IdleJob) /\ row' = row /\ cache' = cache
    BY <1>7 DEF Fail, Done, redis
  <2> QED BY <1>0, <2>1, AdmitQuiet
<1> QED BY <1>1, <1>2, <1>3, <1>4, <1>5, <1>6, <1>7 DEF Step

\* A request changes no other request.
LEMMA OthersKept ==
  ASSUME Inv, NEW q \in Req, Start(q) \/ Step(q) \/ Fail(q)
  PROVE  \A r \in Req : r # q => job'[r] = job[r]
<1>0. job \in [Req -> Job]
  BY DEF Inv, StateOK
<1>1. ASSUME NEW j, Goto(q, j) PROVE \A r \in Req : r # q => job'[r] = job[r]
  BY <1>0, <1>1 DEF Goto
<1>2. ASSUME NEW at, Advance(q, at) PROVE \A r \in Req : r # q => job'[r] = job[r]
  BY <1>0, <1>2 DEF Advance
<1>3. CASE Start(q)
  <2>1. job' = job \/ \E j : Goto(q, j)
    BY <1>3 DEF Start, Create, Lookup, Deactivate, Activate, ChangePermissions, WarmUp, Reconcile, Carry
  <2> QED BY <1>1, <2>1
<1>4. CASE Step(q)
  <2>1. (\E j : Goto(q, j)) \/ (\E at : Advance(q, at))
    <3>1. CASE LookupFind(q)
      BY <3>1 DEF LookupFind, Carry, Done
    <3>2. CASE LookupFill(q) \/ Load(q) \/ WarmFill(q) \/ DeactivateSave(q) \/ ReconcileDelete(q)
      BY <3>2 DEF LookupFill, Load, WarmFill, DeactivateSave, ReconcileDelete, Done
    <3>3. CASE DeactivateInvalidate(q) \/ ActivateSave(q) \/ ChangeSave(q) \/ ChangeInvalidate(q)
      BY <3>3 DEF DeactivateInvalidate, ActivateSave, ChangeSave, ChangeInvalidate
    <3>4. CASE ReconcileFind(q)
      BY <3>4 DEF ReconcileFind
    <3> QED BY <1>4, <3>1, <3>2, <3>3, <3>4 DEF Step
  <2> QED BY <1>1, <1>2, <2>1
<1>5. CASE Fail(q)
  BY <1>1, <1>5 DEF Fail, Done
<1> QED BY <1>3, <1>4, <1>5

LEMMA PassStep ==
  ASSUME NEW p \in Req, PassOK(p), PassNext(p)
  PROVE  PassOK(p)'
<1>0. Inv /\ job \in [Req -> Job]
  BY DEF PassOK, Inv, StateOK
<1>1. CASE ReconcileFind(p)
  <2>1. PICK S : S = {k \in job[p].keys : ~Active(k)}
    OBVIOUS
  <2>2. PICK j : j = IF S = {} THEN IdleJob ELSE [IdleJob EXCEPT !.at = "reconcileDelete", !.keys = S]
    OBVIOUS
  <2>3. Goto(p, j) /\ UNCHANGED <<row, cache>>
    BY <1>1, <2>1, <2>2 DEF ReconcileFind, redis
  <2>4. j.keys = S /\ ((j.at = "idle" /\ S = {}) \/ j.at = "reconcileDelete")
    BY <2>2 DEF IdleJob
  <2>5. job'[p] = j /\ \A q \in Req \ {p} : job'[q] = job[q]
    BY <1>0, <2>3 DEF Goto
  <2>6. \A k \in Key : cache'[k] # None /\ ~Active(k)' => k \in job'[p].keys
    BY <2>1, <2>3, <2>4, <2>5 DEF PassOK, Active, Exists
  <2>7. \A q \in Req \ {p} : Admitting(q)'
    BY <2>3, <2>5 DEF PassOK, Admitting, CarriesActive, Active, Exists, Stored
  <2>8. Inv'
    BY <1>0, <1>1, StepInv DEF Step
  <2> QED BY <2>4, <2>5, <2>6, <2>7, <2>8 DEF PassOK
<1>2. CASE ReconcileDelete(p)
  <2>1. Goto(p, IdleJob) /\ row' = row
        /\ \A k \in Key : cache'[k] # None => cache[k] # None /\ k \notin job[p].keys
    BY <1>2 DEF ReconcileDelete, Done, DropCache
  <2>2. job'[p] = IdleJob /\ \A q \in Req \ {p} : job'[q] = job[q]
    BY <1>0, <2>1 DEF Goto
  <2>3. IdleJob.at = "idle" /\ IdleJob.keys = {}
    BY DEF IdleJob
  <2>4. \A k \in Key : cache'[k] # None => Active(k)'
    BY <2>1 DEF PassOK, Active, Exists
  <2>5. \A q \in Req \ {p} : Admitting(q)'
    BY <2>1, <2>2 DEF PassOK, Admitting, CarriesActive, Active, Exists, Stored
  <2>6. Inv'
    BY <1>0, <1>2, StepInv DEF Step
  <2> QED BY <2>2, <2>3, <2>4, <2>5, <2>6 DEF PassOK
<1>3. ASSUME NEW q \in Req \ {p}, Start(q) \/ Step(q) \/ Fail(q), CarriesActive(q)'
      PROVE  PassOK(p)'
  <2>1. Admitting(q)
    BY DEF PassOK
  <2>2. /\ Admitting(q)'
        /\ \A k \in Key : Active(k) => Active(k)'
        /\ \A k \in Key : cache'[k] # None => cache[k] # None \/ Active(k)'
    BY <1>0, <1>3, <2>1, AdmitStart, AdmitNext
  <2>3. Inv'
    BY <1>0, <1>3, StartInv, StepInv
  <2>4. \A r \in Req : r # q => job'[r] = job[r]
    BY <1>0, <1>3, OthersKept
  <2>5. \A r \in Req \ {p} : Admitting(r)'
    <3> SUFFICES ASSUME NEW r \in Req, r # p, r # q PROVE Admitting(r)'
      BY <2>2
    <3>1. job'[r] = job[r] /\ Admitting(r) /\ job[r].keys \subseteq Key
      BY <1>0, <2>4, Facts DEF PassOK
    <3> QED BY <2>2, <3>1 DEF Admitting, CarriesActive, Stored
  <2>6. job'[p] = job[p]
    BY <2>4
  <2>7. \A k \in Key : cache'[k] # None /\ ~Active(k)' => k \in job'[p].keys
    BY <2>2, <2>6 DEF PassOK
  <2> QED BY <2>3, <2>5, <2>6, <2>7 DEF PassOK
<1>4. CASE RedisRestart
  <2>1. UNCHANGED <<row, job>> /\ \A k \in Key : cache'[k] = None
    BY <1>4 DEF RedisRestart, NoRows
  <2>2. \A q \in Req \ {p} : Admitting(q)'
    BY <2>1 DEF PassOK, Admitting, CarriesActive, Active, Exists, Stored
  <2>3. Inv'
    BY <1>0, <1>4, RestartInv
  <2> QED BY <2>1, <2>2, <2>3 DEF PassOK
<1> QED BY <1>1, <1>2, <1>3, <1>4 DEF PassNext

\* One pass of the hourly job, from whatever the cache holds, evicts every
\* revoked key, although lookups, activations, other passes and a Redis
\* restart run into it, and nothing comes back afterwards: the step that
\* RevokedKeysEventuallyEvicted takes again and again.  Only a request that
\* carries an inactive entity undoes it.
THEOREM ReconciliationEvicts ==
  ASSUME NEW p \in Req
  PROVE  Pass(p) => [](job[p].at = "idle" => \A k \in Key : cache[k] # None => Active(k))
<1>1. PassInit(p) => PassOK(p)
  BY DEF PassInit, PassOK, Inv, CacheTracked
<1>2. PassOK(p) /\ [PassNext(p)]_vars => PassOK(p)'
  <2> SUFFICES ASSUME PassOK(p), [PassNext(p)]_vars PROVE PassOK(p)'
    OBVIOUS
  <2>1. CASE UNCHANGED vars
    BY <2>1 DEF vars, PassOK, Inv, StateOK, CacheTracked, JobOK, Admitting, CarriesActive,
                Active, Exists
  <2> QED BY <2>1, PassStep
<1>3. PassOK(p) => (job[p].at = "idle" => \A k \in Key : cache[k] # None => Active(k))
  BY DEF PassOK
<1> QED BY <1>1, <1>2, <1>3, PTL DEF Pass
=============================================================================
