------------------------ MODULE EndpointRulesProofs -------------------------
(***************************************************************************)
(* Theorems about EndpointRules, for any set of rules, names and           *)
(* permissions and any number of concurrent requests, failures and Redis   *)
(* restarts: the type invariant, the uniqueness of endpoint_key_name, that *)
(* the cache agrees with the rules between requests that do not overlap,   *)
(* and that one pass of the reconciliation restores it.  The two Redis     *)
(* keys are written by two commands, so the proof of the third names what  *)
(* the running request still has to put right: the names it will           *)
(* invalidate or load.                                                     *)
(***************************************************************************)
EXTENDS EndpointRules, TLAPS

\* What a suspended request holds at each await.
JobOK(j) ==
    /\ j.at \in {"updateFind", "save", "remove"} => j.id \in Rule
    /\ j.at = "save" => j.row \in Row /\ (j.drop = None => j.load \in Name)
    /\ j.at \in {"remove", "del", "sRem"} => j.drop \in Name
    /\ j.at \in {"updateFind", "find", "lookupFind", "set", "sAdd"} => j.load \in Name
    /\ j.at \in {"find", "set", "sAdd"} => j.drop = None

StateOK ==
    /\ rule \in [Rule -> Row \union {None}]
    /\ cache \in [Name -> Codes]
    /\ tracked \subseteq Name
    /\ job \in [Req -> Job]
    /\ edits \in 0..MaxEdits
    /\ faults \in 0..MaxFaults

\* UQ_endpoint_permission_key_name
NamesUnique ==
    \A i, k \in Rule : Exists(i) /\ Exists(k) /\ rule[i].name = rule[k].name => i = k

\* The inductive invariant.
Inv ==
    /\ StateOK
    /\ NamesUnique
    /\ \A p \in Req : JobOK(job[p])

-----------------------------------------------------------------------------
(* As long as no request started while another was in flight.              *)

Single == \A p, q \in Req : job[p].at # "idle" /\ job[q].at # "idle" => p = q

Current(n) == IsEnabled(n) /\ cache[n] = EnabledCodes(n)

\* What the only request in flight knows of the rules and of the cache.
Agrees(j) ==
    /\ j.at = "save" =>
            /\ j.row.name \in {j.drop, j.load}
            /\ Exists(j.id) => rule[j.id].name \in {j.drop, j.load}
    /\ j.at = "remove" => (Exists(j.id) => rule[j.id].name = j.drop)
    /\ j.at = "sRem" => cache[j.drop] = None
    /\ j.at = "set" => IsEnabled(j.load) /\ j.codes[j.load] = EnabledCodes(j.load)
    /\ j.at = "sAdd" => Current(j.load)
    /\ j.at = "deleteStale" => \A n \in tracked : j.codes[n] # None
    /\ j.at = "warmFill" =>
            \A n \in Name : j.codes[n] # None => IsEnabled(n) /\ j.codes[n] = EnabledCodes(n)

\* After its write a request still has these names to invalidate or to load.
Dirty(j) == IF j.at \in {"del", "sRem", "find", "set", "sAdd"} THEN {j.drop, j.load} ELSE {}

EntriesCurrent ==
    \A n \in Name : cache[n] # None =>
        \/ n \in tracked /\ Current(n)
        \/ \E p \in Req : n \in Dirty(job[p])

Calm ==
    /\ Single
    /\ \A p \in Req : Agrees(job[p])
    /\ EntriesCurrent

Undisturbed == faults = 0 => Calm

AloneOK == alone => Undisturbed

-----------------------------------------------------------------------------
(* Types                                                                   *)

LEMMA IdleJobOK == IdleJob \in Job /\ JobOK(IdleJob) /\ IdleJob.at = "idle"
  BY DEF IdleJob, Job, At, NoCodes, Codes, JobOK

LEMMA InvInit == Init => Inv
<1> SUFFICES ASSUME Init PROVE Inv
  OBVIOUS
<1>1. StateOK
  BY IdleJobOK, EndpointRulesConstants DEF Init, StateOK, NoCodes, Codes
<1>2. NamesUnique
  BY DEF Init, NamesUnique, Exists
<1>3. \A p \in Req : JobOK(job[p])
  BY IdleJobOK DEF Init
<1> QED BY <1>1, <1>2, <1>3 DEF Inv

\* The facts of the invariant that the steps below use.
LEMMA Facts ==
  ASSUME Inv
  PROVE  /\ rule \in [Rule -> Row \union {None}] /\ cache \in [Name -> Codes]
         /\ tracked \subseteq Name /\ job \in [Req -> Job]
         /\ edits \in 0..MaxEdits /\ faults \in 0..MaxFaults
         /\ \A p \in Req : job[p] \in Job /\ JobOK(job[p])
         /\ \A i \in Rule : Exists(i) => rule[i] \in Row /\ rule[i].name \in Name
  BY DEF Inv, StateOK, Exists, Row

\* One request goes on with job j and the tables stay well typed.
LEMMA JobStep ==
  ASSUME Inv, NEW p \in Req, NEW j \in Job, JobOK(j), Goto(p, j),
         rule' \in [Rule -> Row \union {None}], NamesUnique',
         cache' \in [Name -> Codes], tracked' \subseteq Name,
         edits' \in 0..MaxEdits, faults' \in 0..MaxFaults
  PROVE  Inv'
<1>1. job' \in [Req -> Job] /\ job'[p] = j /\ \A q \in Req \ {p} : job'[q] = job[q]
  BY Facts DEF Goto
<1>2. StateOK'
  BY <1>1 DEF StateOK
<1>3. \A q \in Req : JobOK(job'[q])
  BY <1>1, Facts
<1> QED BY <1>2, <1>3 DEF Inv, JobOK

\* A step that leaves the rows alone leaves their names unique.
LEMMA SameRules ==
  ASSUME Inv, UNCHANGED rule
  PROVE  rule' \in [Rule -> Row \union {None}] /\ NamesUnique'
  BY DEF Inv, StateOK, NamesUnique, Exists

\* A step that changes no row and no Redis key.
LEMMA JobOnly ==
  ASSUME Inv, NEW p \in Req, NEW j \in Job, JobOK(j), Goto(p, j), UNCHANGED <<rule, redis>>,
         edits' \in 0..MaxEdits, faults' \in 0..MaxFaults
  PROVE  Inv'
  BY Facts, SameRules, JobStep DEF redis

LEMMA EditFacts ==
  ASSUME Inv, edits < MaxEdits, edits' = edits + 1
  PROVE  edits' \in 0..MaxEdits
  BY Facts, EndpointRulesConstants

LEMMA FaultFacts ==
  ASSUME Inv, faults < MaxFaults, faults' = faults + 1
  PROVE  faults' \in 0..MaxFaults /\ faults' # 0
  BY Facts, EndpointRulesConstants

\* The codes of a name are permissions.
LEMMA CodesFacts ==
  ASSUME Inv, NEW n
  PROVE  EnabledCodes(n) \in SUBSET Perm /\ EnabledCodes(n) # None
<1>1. \A i \in Named(n) : rule[i].perms \in SUBSET Perm
  BY Facts DEF Named, Row
<1>2. EnabledCodes(n) \in SUBSET Perm
  BY <1>1 DEF EnabledCodes
<1> QED BY <1>2, EndpointRulesConstants

\* The job that an edit of row i starts.
LEMMA EditJob ==
  ASSUME NEW i \in Rule, NEW r \in Row, NEW drop \in Name \union {None},
         NEW load \in Name \union {None}, drop = None => load \in Name
  PROVE  LET j == [IdleJob EXCEPT !.at = "save", !.id = i, !.row = r,
                                  !.drop = drop, !.load = load] IN
         j \in Job /\ JobOK(j)
  BY IdleJobOK DEF IdleJob, Job, At, JobOK

\* The job of a fill.
LEMMA FillJob ==
  ASSUME Inv, NEW n \in Name
  PROVE  /\ Fill(n) \in Job /\ JobOK(Fill(n)) /\ Fill(n).at = "set"
         /\ Fill(n).drop = None /\ Fill(n).load = n /\ Fill(n).codes[n] = EnabledCodes(n)
<1>1. PICK c : c = EnabledCodes(n)
  OBVIOUS
<1>2. c \in Codes /\ NoCodes \in [Name -> Codes]
  BY <1>1, CodesFacts DEF NoCodes, Codes
<1>3. PICK j : j = [IdleJob EXCEPT !.at = "set", !.load = n, !.codes[n] = c]
  OBVIOUS
<1>4. j \in Job /\ j.at = "set" /\ j.drop = None /\ j.load = n /\ j.codes[n] = c
  BY <1>2, <1>3 DEF IdleJob, Job, At
<1>5. JobOK(j)
  BY <1>4 DEF JobOK
<1>6. Fill(n) = j
  BY <1>1, <1>3 DEF Fill
<1> QED BY <1>1, <1>4, <1>5, <1>6

\* The job at another await that carries one name and nothing else.
LEMMA NameJob ==
  ASSUME NEW n \in Name, NEW at \in {"find", "lookupFind", "sAdd"}
  PROVE  LET j == [IdleJob EXCEPT !.at = at, !.load = n] IN
         /\ j \in Job /\ JobOK(j) /\ j.at = at /\ j.load = n /\ j.drop = None
  BY IdleJobOK DEF IdleJob, Job, At, JobOK

LEMMA DropJob ==
  ASSUME NEW n \in Name
  PROVE  LET j == [IdleJob EXCEPT !.at = "del", !.drop = n] IN
         /\ j \in Job /\ JobOK(j) /\ j.at = "del" /\ j.drop = n /\ j.load = None
  BY IdleJobOK DEF IdleJob, Job, At, JobOK

\* The jobs of the cron job carry codes and no name.
LEMMA StaleJob ==
  ASSUME NEW f \in [Name -> Codes]
  PROVE  LET j == [IdleJob EXCEPT !.at = "deleteStale", !.codes = f] IN
         /\ j \in Job /\ JobOK(j) /\ j.at = "deleteStale" /\ j.codes = f
  BY IdleJobOK DEF IdleJob, Job, At, JobOK

LEMMA WarmFillJob ==
  ASSUME NEW f \in [Name -> Codes]
  PROVE  LET j == [IdleJob EXCEPT !.at = "warmFill", !.codes = f] IN
         /\ j \in Job /\ JobOK(j) /\ j.at = "warmFill" /\ j.codes = f
  BY IdleJobOK DEF IdleJob, Job, At, JobOK

LEMMA WarmFindJob ==
  LET j == [IdleJob EXCEPT !.at = "warmFind"] IN j \in Job /\ JobOK(j) /\ j.at = "warmFind"
  BY IdleJobOK DEF IdleJob, Job, At, JobOK

\* What follows a write and an invalidation.
LEMMA AfterWriteJob ==
  ASSUME NEW j \in Job, JobOK(j), j.at \in {"save", "remove"}
  PROVE  /\ AfterWrite(j) \in Job /\ JobOK(AfterWrite(j))
         /\ AfterWrite(j).at \in {"find", "del"}
         /\ AfterWrite(j).drop = j.drop /\ AfterWrite(j).load = j.load
  BY EndpointRulesConstants DEF AfterWrite, Job, At, JobOK

LEMMA AfterInvalidateJob ==
  ASSUME NEW j \in Job, JobOK(j), j.at \in {"del", "sRem"}
  PROVE  /\ AfterInvalidate(j) \in Job /\ JobOK(AfterInvalidate(j))
         /\ AfterInvalidate(j).at \in {"find", "idle"}
         /\ j.load = None => AfterInvalidate(j).at = "idle"
         /\ j.load # None => AfterInvalidate(j).at = "find"
         /\ AfterInvalidate(j).load = j.load /\ AfterInvalidate(j).drop = None
<1>1. CASE j.load = None
  BY <1>1, IdleJobOK DEF AfterInvalidate, IdleJob
<1>2. CASE j.load # None
  BY <1>2, EndpointRulesConstants DEF AfterInvalidate, Job, At, JobOK
<1> QED BY <1>1, <1>2

LEMMA SRemJob ==
  ASSUME NEW j \in Job, JobOK(j), j.at = "del"
  PROVE  LET k == [j EXCEPT !.at = "sRem"] IN
         k \in Job /\ JobOK(k) /\ k.at = "sRem" /\ k.drop = j.drop /\ k.load = j.load
  BY DEF Job, At, JobOK

\* The rows that the mutations save.
LEMMA EditedRows ==
  ASSUME Inv, NEW i \in Rule, Exists(i)
  PROVE  /\ rule[i] \in Row /\ rule[i].name \in Name /\ rule[i].name # None
         /\ \A Q \in SUBSET Perm : /\ [rule[i] EXCEPT !.perms = Q] \in Row
                                   /\ [rule[i] EXCEPT !.perms = Q].name = rule[i].name
         /\ \A b \in BOOLEAN : /\ [rule[i] EXCEPT !.enabled = b] \in Row
                               /\ [rule[i] EXCEPT !.enabled = b].name = rule[i].name
         /\ \A n \in Name : /\ [rule[i] EXCEPT !.name = n] \in Row
                            /\ [rule[i] EXCEPT !.name = n].name = n
  BY Facts, EndpointRulesConstants DEF Row

\* What create, assignPermissions, enableRule and disableRule have in common:
\* the old and the new name of the row are among those to invalidate or load.
LEMMA EditStarts ==
  ASSUME Inv, NEW p \in Req,
         Create(p) \/ AssignPermissions(p) \/ EnableRule(p) \/ DisableRule(p)
  PROVE  \E i \in Rule, r \in Row, drop \in Name \union {None}, load \in Name \union {None} :
            /\ Edit(p, i, r, drop, load)
            /\ drop = None => load \in Name
            /\ r.name \in {drop, load}
            /\ Exists(i) => rule[i].name \in {drop, load}
<1>1. CASE Create(p)
  <2>1. PICK i \in Rule, n \in Name :
           /\ ~Exists(i)
           /\ Edit(p, i, [name |-> n, enabled |-> TRUE, perms |-> {}], None, n)
    BY <1>1 DEF Create
  <2>2. [name |-> n, enabled |-> TRUE, perms |-> {}] \in Row
        /\ [name |-> n, enabled |-> TRUE, perms |-> {}].name = n
    BY DEF Row
  <2> QED BY <2>1, <2>2
<1>2. CASE AssignPermissions(p)
  <2>1. PICK i \in Rule, Q \in SUBSET Perm :
           Exists(i) /\ Edit(p, i, [rule[i] EXCEPT !.perms = Q], None, rule[i].name)
    BY <1>2 DEF AssignPermissions
  <2> QED BY <2>1, EditedRows
<1>3. CASE EnableRule(p)
  <2>1. PICK i \in Rule :
           Exists(i) /\ Edit(p, i, [rule[i] EXCEPT !.enabled = TRUE], None, rule[i].name)
    BY <1>3 DEF EnableRule
  <2>2. PICK b \in BOOLEAN : b = TRUE
    OBVIOUS
  <2> QED BY <2>1, <2>2, EditedRows
<1>4. CASE DisableRule(p)
  <2>1. PICK i \in Rule :
           Exists(i) /\ Edit(p, i, [rule[i] EXCEPT !.enabled = FALSE], rule[i].name, None)
    BY <1>4 DEF DisableRule
  <2>2. PICK b \in BOOLEAN : b = FALSE
    OBVIOUS
  <2> QED BY <2>1, <2>2, EditedRows
<1> QED BY <1>1, <1>2, <1>3, <1>4

\* What update goes on with once it has loaded its rule.
UpdateJob(p, j) ==
    /\ Goto(p, j)
    /\ j \in Job
    /\ JobOK(j)
    /\ \/ j.at = "idle"
       \/ /\ j.at = "save" /\ j.id = job[p].id /\ Exists(j.id)
          /\ j.row.name = j.load /\ rule[j.id].name \in {j.drop, j.load}

LEMMA UpdateFindJob ==
  ASSUME Inv, NEW p \in Req, UpdateFind(p)
  PROVE  \E j : UpdateJob(p, j)
<1>0. job[p] \in Job /\ JobOK(job[p])
  BY Facts
<1>1. PICK i : i = job[p].id
  OBVIOUS
<1>2. PICK n : n = job[p].load
  OBVIOUS
<1>3. i \in Rule /\ n \in Name
  BY <1>0, <1>1, <1>2 DEF UpdateFind, JobOK
<1>4. CASE ~Exists(i)
  BY <1>1, <1>4, IdleJobOK DEF UpdateFind, UpdateJob
<1>5. CASE Exists(i)
  <2>1. PICK r : r = [rule[i] EXCEPT !.name = n]
    OBVIOUS
  <2>2. PICK d : d = IF rule[i].name = n THEN None ELSE rule[i].name
    OBVIOUS
  <2>3. r \in Row /\ r.name = n /\ d \in Name \union {None} /\ rule[i].name \in {d, n}
    BY <1>3, <1>5, <2>1, <2>2, EditedRows
  <2>4. PICK j : j = [job[p] EXCEPT !.at = "save", !.row = r, !.drop = d]
    OBVIOUS
  <2>5. j \in Job /\ j.at = "save" /\ j.row = r /\ j.drop = d /\ j.id = i /\ j.load = n
    BY <1>0, <1>1, <1>2, <2>3, <2>4 DEF Job, At
  <2>6. JobOK(j)
    BY <1>3, <2>3, <2>5 DEF JobOK
  <2>7. Goto(p, j)
    BY <1>1, <1>2, <1>5, <2>1, <2>2, <2>4 DEF UpdateFind
  <2> QED BY <1>1, <1>5, <2>3, <2>5, <2>6, <2>7 DEF UpdateJob
<1> QED BY <1>4, <1>5

LEMMA StartInv ==
  ASSUME Inv, NEW p \in Req, Start(p)
  PROVE  Inv'
<1>1. CASE Create(p) \/ AssignPermissions(p) \/ EnableRule(p) \/ DisableRule(p)
  <2>1. PICK i \in Rule, r \in Row, drop \in Name \union {None}, load \in Name \union {None} :
            /\ Edit(p, i, r, drop, load)
            /\ drop = None => load \in Name
    BY <1>1, EditStarts
  <2>2. PICK j : j = [IdleJob EXCEPT !.at = "save", !.id = i, !.row = r,
                                     !.drop = drop, !.load = load]
    OBVIOUS
  <2>3. j \in Job /\ JobOK(j)
    BY <2>1, <2>2, EditJob
  <2>4. Goto(p, j) /\ edits' \in 0..MaxEdits /\ UNCHANGED <<rule, redis, faults>>
    BY <2>1, <2>2, EditFacts DEF Edit
  <2> QED BY <2>3, <2>4, Facts, JobOnly
<1>2. CASE Update(p)
  <2>1. PICK i \in Rule, n \in Name :
            /\ Goto(p, [IdleJob EXCEPT !.at = "updateFind", !.id = i, !.load = n])
            /\ edits' \in 0..MaxEdits
            /\ UNCHANGED <<rule, redis, faults>>
    BY <1>2, EditFacts DEF Update
  <2>2. PICK j : j = [IdleJob EXCEPT !.at = "updateFind", !.id = i, !.load = n]
    OBVIOUS
  <2>3. j \in Job /\ JobOK(j)
    BY <2>2, IdleJobOK DEF IdleJob, Job, At, JobOK
  <2> QED BY <2>1, <2>2, <2>3, Facts, JobOnly
<1>3. CASE Delete(p)
  <2>1. PICK i \in Rule :
            /\ Exists(i)
            /\ Goto(p, [IdleJob EXCEPT !.at = "remove", !.id = i, !.drop = rule[i].name])
            /\ edits' \in 0..MaxEdits
            /\ UNCHANGED <<rule, redis, faults>>
    BY <1>3, EditFacts DEF Delete
  <2>2. PICK j : j = [IdleJob EXCEPT !.at = "remove", !.id = i, !.drop = rule[i].name]
    OBVIOUS
  <2>3. j \in Job /\ JobOK(j)
    BY <2>1, <2>2, EditedRows, IdleJobOK DEF IdleJob, Job, At, JobOK
  <2> QED BY <2>1, <2>2, <2>3, Facts, JobOnly
<1>4. CASE Lookup(p)
  <2>1. PICK n \in Name : Goto(p, [IdleJob EXCEPT !.at = "lookupFind", !.load = n])
    BY <1>4 DEF Lookup
  <2>2. faults' \in 0..MaxFaults /\ UNCHANGED <<rule, redis, edits>>
    BY <1>4, Facts, FaultFacts DEF Lookup
  <2>3. PICK j : j = [IdleJob EXCEPT !.at = "lookupFind", !.load = n]
    OBVIOUS
  <2>4. j \in Job /\ JobOK(j)
    BY <2>3, NameJob
  <2> QED BY <2>1, <2>2, <2>3, <2>4, Facts, JobOnly
<1>5. CASE Reconcile(p) \/ WarmUp(p)
  <2>1. PICK f : f = [n \in Name |-> IF n \in tracked THEN {} ELSE None]
    OBVIOUS
  <2>2. f \in [Name -> Codes]
    BY <2>1 DEF Codes
  <2>3. PICK j : /\ j = [IdleJob EXCEPT !.at = "warmFind"]
                     \/ j = [IdleJob EXCEPT !.at = "deleteStale", !.codes = f]
                 /\ Goto(p, j)
    BY <1>5, <2>1 DEF Reconcile, WarmUp
  <2>4. j \in Job /\ JobOK(j)
    BY <2>2, <2>3, StaleJob, WarmFindJob
  <2>5. UNCHANGED <<rule, redis, edits, faults>>
    BY <1>5 DEF Reconcile, WarmUp
  <2> QED BY <2>3, <2>4, <2>5, Facts, JobOnly
<1> QED BY <1>1, <1>2, <1>3, <1>4, <1>5 DEF Start

LEMMA StepInv ==
  ASSUME Inv, NEW p \in Req, Step(p)
  PROVE  Inv'
<1>0. job[p] \in Job /\ JobOK(job[p])
  BY Facts
<1>1. CASE UpdateFind(p)
  <2>1. PICK j : UpdateJob(p, j)
    BY <1>1, UpdateFindJob
  <2>2. UNCHANGED <<rule, redis, edits, faults>>
    BY <1>1 DEF UpdateFind
  <2> QED BY <2>1, <2>2, Facts, JobOnly DEF UpdateJob
<1>2. CASE SaveRule(p)
  <2>1. job[p].at = "save" /\ UNCHANGED <<redis, edits, faults>>
    BY <1>2 DEF SaveRule
  <2>2. CASE Named(job[p].row.name) \subseteq {job[p].id}
    <3>1. rule' = [rule EXCEPT ![job[p].id] = job[p].row] /\ Goto(p, AfterWrite(job[p]))
      BY <1>2, <2>2 DEF SaveRule
    <3>2. job[p].id \in Rule /\ job[p].row \in Row
      BY <1>0, <2>1 DEF JobOK
    <3>3. rule' \in [Rule -> Row \union {None}]
      BY <3>1, <3>2, Facts
    <3>4. NamesUnique'
      <4>1. NamesUnique
        BY DEF Inv
      <4>2. rule'[job[p].id] = job[p].row
            /\ \A i \in Rule \ {job[p].id} : rule'[i] = rule[i]
        BY <3>1, <3>2, Facts
      <4>3. \A i \in Rule \ {job[p].id} : Exists(i) => rule[i].name # job[p].row.name
        BY <2>2 DEF Named
      <4> QED BY <4>1, <4>2, <4>3 DEF NamesUnique, Exists
    <3>5. PICK j : j = AfterWrite(job[p])
      OBVIOUS
    <3>6. j \in Job /\ JobOK(j)
      BY <1>0, <2>1, <3>5, AfterWriteJob
    <3> QED BY <2>1, <3>1, <3>3, <3>4, <3>5, <3>6, Facts, JobStep DEF redis
  <2>3. CASE ~(Named(job[p].row.name) \subseteq {job[p].id})
    <3>1. Goto(p, IdleJob) /\ UNCHANGED rule
      BY <1>2, <2>3 DEF SaveRule, Done
    <3> QED BY <2>1, <3>1, IdleJobOK, Facts, JobOnly
  <2> QED BY <2>2, <2>3
<1>3. CASE RemoveRule(p)
  <2>1. /\ job[p].at = "remove" /\ UNCHANGED <<redis, edits, faults>>
        /\ rule' = [rule EXCEPT ![job[p].id] = None]
        /\ Goto(p, AfterWrite(job[p]))
    BY <1>3 DEF RemoveRule
  <2>2. PICK j : j = AfterWrite(job[p])
    OBVIOUS
  <2>3. j \in Job /\ JobOK(j)
    BY <1>0, <2>1, <2>2, AfterWriteJob
  <2>4. rule' \in [Rule -> Row \union {None}]
    BY <2>1, Facts
  <2>5. NamesUnique'
    <3>1. \A i \in Rule : rule'[i] # None => rule'[i] = rule[i]
      BY <2>1, Facts
    <3> QED BY <3>1 DEF Inv, NamesUnique, Exists
  <2> QED BY <2>1, <2>2, <2>3, <2>4, <2>5, Facts, JobStep DEF redis
<1>4. CASE InvalidateDel(p)
  <2>1. PICK j : j = [job[p] EXCEPT !.at = "sRem"]
    OBVIOUS
  <2>2. job[p].at = "del" /\ Goto(p, j) /\ UNCHANGED <<rule, tracked, edits, faults>>
    BY <1>4, <2>1, Facts DEF InvalidateDel, Advance, Goto
  <2>3. j \in Job /\ JobOK(j)
    BY <1>0, <2>1, <2>2, SRemJob
  <2>4. cache' \in [Name -> Codes]
    BY <1>4, Facts DEF InvalidateDel, Codes
  <2> QED BY <2>2, <2>3, <2>4, Facts, SameRules, JobStep
<1>5. CASE InvalidateSRem(p)
  <2>1. PICK j : j = AfterInvalidate(job[p])
    OBVIOUS
  <2>2. /\ job[p].at = "sRem" /\ Goto(p, j) /\ UNCHANGED <<rule, cache, edits, faults>>
        /\ tracked' \subseteq Name
    BY <1>5, <2>1, Facts DEF InvalidateSRem
  <2>3. j \in Job /\ JobOK(j)
    BY <1>0, <2>1, <2>2, AfterInvalidateJob
  <2> QED BY <2>2, <2>3, Facts, SameRules, JobStep
<1>6. CASE LoadFind(p) \/ LookupFind(p)
  <2>1. PICK n : n = job[p].load
    OBVIOUS
  <2>2. n \in Name /\ UNCHANGED <<rule, redis, edits, faults>>
    BY <1>0, <1>6, <2>1 DEF LoadFind, LookupFind, JobOK
  <2>3. PICK j : /\ j = Fill(n) \/ j = [IdleJob EXCEPT !.at = "del", !.drop = n] \/ j = IdleJob
                 /\ Goto(p, j)
    BY <1>6, <2>1 DEF LoadFind, LookupFind
  <2>4. j \in Job /\ JobOK(j)
    <3>1. CASE j = Fill(n)
      BY <2>2, <3>1, FillJob
    <3>2. CASE j = [IdleJob EXCEPT !.at = "del", !.drop = n]
      BY <2>2, <3>2, DropJob
    <3>3. CASE j = IdleJob
      BY <3>3, IdleJobOK
    <3> QED BY <2>3, <3>1, <3>2, <3>3
  <2> QED BY <2>2, <2>3, <2>4, Facts, JobOnly
<1>7. CASE FillSet(p)
  <2>1. PICK n : n = job[p].load
    OBVIOUS
  <2>2. /\ job[p].at = "set" /\ UNCHANGED <<rule, tracked, edits, faults>>
        /\ cache' = [cache EXCEPT ![n] = job[p].codes[n]]
        /\ Goto(p, [IdleJob EXCEPT !.at = "sAdd", !.load = n])
    BY <1>7, <2>1 DEF FillSet
  <2>3. n \in Name /\ job[p].codes \in [Name -> Codes]
    BY <1>0, <2>1, <2>2 DEF JobOK, Job
  <2>4. cache' \in [Name -> Codes]
    BY <2>2, <2>3, Facts
  <2>5. PICK j : j = [IdleJob EXCEPT !.at = "sAdd", !.load = n]
    OBVIOUS
  <2>6. j \in Job /\ JobOK(j)
    BY <2>3, <2>5, NameJob
  <2> QED BY <2>2, <2>4, <2>5, <2>6, Facts, SameRules, JobStep
<1>8. CASE FillSAdd(p)
  <2>1. /\ job[p].at = "sAdd" /\ UNCHANGED <<rule, cache, edits, faults>>
        /\ tracked' = tracked \union {job[p].load} /\ Goto(p, IdleJob)
    BY <1>8 DEF FillSAdd, Done
  <2>2. tracked' \subseteq Name
    BY <1>0, <2>1, Facts DEF JobOK
  <2> QED BY <2>1, <2>2, Facts, IdleJobOK, SameRules, JobStep
<1>9. CASE DeleteStale(p)
  <2>1. /\ UNCHANGED <<rule, edits, faults>> /\ tracked' \subseteq Name
        /\ cache' \in [Name -> Codes]
        /\ Goto(p, [IdleJob EXCEPT !.at = "warmFind"])
    BY <1>9, Facts DEF DeleteStale, Codes
  <2>2. PICK j : j = [IdleJob EXCEPT !.at = "warmFind"]
    OBVIOUS
  <2>3. j \in Job /\ JobOK(j)
    BY <2>2, WarmFindJob
  <2> QED BY <2>1, <2>2, <2>3, Facts, SameRules, JobStep
<1>10. CASE WarmFind(p)
  <2>1. PICK f : f = [n \in Name |-> IF IsEnabled(n) THEN EnabledCodes(n) ELSE None]
    OBVIOUS
  <2>2. \A n \in Name : EnabledCodes(n) \in Codes
    BY CodesFacts DEF Codes
  <2>3. f \in [Name -> Codes]
    BY <2>1, <2>2 DEF Codes
  <2>4. PICK j : /\ j = IdleJob \/ j = [IdleJob EXCEPT !.at = "warmFill", !.codes = f]
                 /\ Goto(p, j)
    BY <1>10, <2>1 DEF WarmFind
  <2>5. j \in Job /\ JobOK(j)
    BY <2>3, <2>4, WarmFillJob, IdleJobOK
  <2>6. UNCHANGED <<rule, redis, edits, faults>>
    BY <1>10 DEF WarmFind
  <2> QED BY <2>4, <2>5, <2>6, Facts, JobOnly
<1>11. CASE WarmFill(p)
  <2>1. job[p].codes \in [Name -> Codes]
    BY <1>0 DEF Job
  <2>2. UNCHANGED <<rule, edits, faults>> /\ Goto(p, IdleJob)
    BY <1>11 DEF WarmFill, Done
  <2>3. cache' \in [Name -> Codes] /\ tracked' \subseteq Name
    BY <1>11, <2>1, Facts DEF WarmFill
  <2> QED BY <2>2, <2>3, Facts, IdleJobOK, SameRules, JobStep
<1> QED BY <1>1, <1>2, <1>3, <1>4, <1>5, <1>6, <1>7, <1>8, <1>9, <1>10, <1>11 DEF Step

LEMMA FailInv ==
  ASSUME Inv, NEW p \in Req, Fail(p)
  PROVE  Inv'
<1>1. faults' \in 0..MaxFaults /\ UNCHANGED <<rule, redis, edits>>
  BY FaultFacts DEF Fail
<1>2. PICK j : /\ \/ job[p].at \in {"del", "sRem"} /\ j = AfterInvalidate(job[p])
                  \/ j = [IdleJob EXCEPT !.at = "warmFind"]
                  \/ j = IdleJob
               /\ Goto(p, j)
  BY DEF Fail
<1>3. j \in Job /\ JobOK(j)
  BY <1>2, Facts, AfterInvalidateJob, WarmFindJob, IdleJobOK
<1> QED BY <1>1, <1>2, <1>3, Facts, JobOnly

LEMMA RestartInv ==
  ASSUME Inv, RedisRestart
  PROVE  Inv'
<1>1. /\ cache' = NoCodes /\ tracked' = {} /\ UNCHANGED <<rule, job, edits>>
      /\ faults' \in 0..MaxFaults
  BY FaultFacts DEF RedisRestart
<1>2. cache' \in [Name -> Codes] /\ NamesUnique'
  BY <1>1, SameRules DEF NoCodes, Codes
<1> QED BY <1>1, <1>2 DEF Inv, StateOK

LEMMA Invariance == Spec => []Inv
<1>1. Inv /\ [Next]_vars => Inv'
  <2> SUFFICES ASSUME Inv, [Next]_vars PROVE Inv'
    OBVIOUS
  <2>1. CASE UNCHANGED vars
    BY <2>1 DEF vars, Inv, StateOK, NamesUnique, Exists, JobOK
  <2> QED BY <2>1, StartInv, StepInv, FailInv, RestartInv DEF Next
<1> QED BY <1>1, InvInit, PTL DEF Spec

\* A request that starts may clear `alone', nothing else touches it.
LEMMA AloneStep ==
  /\ \A p \in Req : Start(p) => CanStart(p)
  /\ \A p \in Req : Step(p) \/ Fail(p) => alone' = alone
  /\ RedisRestart => alone' = alone
<1>1. \A p \in Req : Start(p) => CanStart(p)
  BY DEF Start, Create, Update, AssignPermissions, EnableRule, DisableRule, Delete, Edit,
         Lookup, Reconcile, WarmUp
<1>2. \A p \in Req : Step(p) \/ Fail(p) => alone' = alone
  BY DEF Step, Fail, UpdateFind, SaveRule, RemoveRule, InvalidateDel, InvalidateSRem, LoadFind,
         LookupFind, FillSet, FillSAdd, DeleteStale, WarmFind, WarmFill
<1>3. RedisRestart => alone' = alone
  BY DEF RedisRestart
<1> QED BY <1>1, <1>2, <1>3

LEMMA AloneBoolean == Spec => [](alone \in BOOLEAN)
<1>1. alone \in BOOLEAN /\ [Next]_vars => (alone \in BOOLEAN)'
  BY AloneStep DEF Next, vars, CanStart
<1>2. Init => alone \in BOOLEAN
  BY DEF Init
<1> QED BY <1>1, <1>2, PTL DEF Spec

\* For any rules, names and requests: rows, cache, epr_keys and what every
\* suspended handler carries from one await to the next stay well typed; in
\* particular no handler reaches DEL, SREM, SET or SADD without a name.
THEOREM TypeCorrect == Spec => []TypeOK
<1>1. Inv /\ alone \in BOOLEAN => TypeOK
  BY DEF Inv, StateOK, TypeOK
<1> QED BY <1>1, Invariance, AloneBoolean, PTL

\* A lookup by endpoint_key_name finds at most one rule, whatever the creates,
\* renames and late saves that race for the name: what loadRuleToRedis caches
\* for the name of an enabled rule are the permissions of that very rule.
THEOREM OneRulePerName ==
  Spec => [](\A i \in Rule : Exists(i) =>
                /\ EnabledCodes(rule[i].name) = rule[i].perms
                /\ IsEnabled(rule[i].name) <=> rule[i].enabled)
<1>1. ASSUME Inv, NEW i \in Rule, Exists(i)
      PROVE  /\ EnabledCodes(rule[i].name) = rule[i].perms
             /\ IsEnabled(rule[i].name) <=> rule[i].enabled
  <2>1. Named(rule[i].name) = {i}
    BY <1>1 DEF Inv, NamesUnique, Named
  <2>2. EnabledCodes(rule[i].name) = rule[i].perms
    BY <2>1 DEF EnabledCodes
  <2>3. IsEnabled(rule[i].name) <=> rule[i].enabled
    BY <1>1, <2>1 DEF IsEnabled, EnabledRules
  <2> QED BY <2>2, <2>3
<1>2. Inv => \A i \in Rule : Exists(i) =>
                /\ EnabledCodes(rule[i].name) = rule[i].perms
                /\ IsEnabled(rule[i].name) <=> rule[i].enabled
  BY <1>1
<1> QED BY <1>2, Invariance, PTL

-----------------------------------------------------------------------------
(* The cache between requests that do not overlap                          *)

\* In a state that some request is about to change, only that request has
\* names left to put right.
LEMMA OnlyItsOwn ==
  ASSUME Calm, NEW p \in Req, job[p].at # "idle" \/ Quiet,
         NEW n \in Name, cache[n] # None
  PROVE  (n \in tracked /\ Current(n)) \/ n \in Dirty(job[p])
<1>1. \A q \in Req : q # p => Dirty(job[q]) = {}
  BY DEF Calm, Single, Quiet, Dirty
<1> QED BY <1>1 DEF Calm, EntriesCurrent

\* The only request in flight goes on with job j.
LEMMA CalmStep ==
  ASSUME Inv, Calm, NEW p \in Req, job[p].at # "idle" \/ Quiet,
         NEW j \in Job, Goto(p, j), Agrees(j)',
         \A n \in Name : cache'[n] # None => (n \in tracked' /\ Current(n)') \/ n \in Dirty(j)
  PROVE  Calm'
<1>1. job'[p] = j /\ \A q \in Req \ {p} : job'[q] = job[q]
  BY Facts DEF Goto
<1>2. \A q \in Req \ {p} : job[q].at = "idle"
  BY DEF Calm, Single, Quiet
<1>3. Single'
  BY <1>1, <1>2 DEF Single
<1>4. \A q \in Req : Agrees(job[q])'
  BY <1>1, <1>2 DEF Agrees
<1>5. EntriesCurrent'
  BY <1>1 DEF EntriesCurrent, Dirty
<1> QED BY <1>3, <1>4, <1>5 DEF Calm

\* What is cached for a name stays current as long as the rules of that name
\* and the entry stay.
LEMMA CurrentKept ==
  ASSUME NEW n, UNCHANGED rule, cache'[n] = cache[n]
  PROVE  Current(n)' <=> Current(n)
  BY DEF Current, IsEnabled, EnabledCodes, EnabledRules, Named, Exists

\* Neither rules nor cache change.
LEMMA CalmJobOnly ==
  ASSUME Inv, Calm, NEW p \in Req, job[p].at # "idle" \/ Quiet, UNCHANGED <<rule, redis>>,
         NEW j \in Job, Goto(p, j), Agrees(j), Dirty(job[p]) \ {None} \subseteq Dirty(j)
  PROVE  Calm'
<1>1. cache' = cache /\ tracked' = tracked /\ rule' = rule
  BY DEF redis
<1>2. Agrees(j)'
  BY <1>1 DEF Agrees, Current, IsEnabled, EnabledCodes, EnabledRules, Named, Exists
<1>3. \A n \in Name : cache'[n] # None => (n \in tracked' /\ Current(n)') \/ n \in Dirty(j)
  BY <1>1, OnlyItsOwn, CurrentKept, EndpointRulesConstants
<1> QED BY <1>2, <1>3, CalmStep

\* A row is written: the names that neither the old nor the new row has keep
\* their rules.
LEMMA WriteFacts ==
  ASSUME Inv, NEW i \in Rule, NEW r \in Row \union {None}, rule' = [rule EXCEPT ![i] = r],
         NEW n \in Name, cache'[n] = cache[n],
         Exists(i) => rule[i].name # n, r # None => r.name # n
  PROVE  Current(n)' <=> Current(n)
<1>1. rule'[i] = r /\ \A k \in Rule \ {i} : rule'[k] = rule[k]
  BY Facts
<1>2. Named(n)' = Named(n) /\ i \notin Named(n)
  BY <1>1 DEF Named, Exists
<1>3. \A k \in Named(n) : rule'[k] = rule[k] /\ k \in Rule \ {i}
  BY <1>1, <1>2 DEF Named
<1>4. EnabledCodes(n)' = EnabledCodes(n)
  BY <1>2, <1>3 DEF EnabledCodes
<1>5. IsEnabled(n)' <=> IsEnabled(n)
  BY <1>1, <1>2, <1>3 DEF IsEnabled, EnabledRules, Exists
<1> QED BY <1>4, <1>5 DEF Current

LEMMA StartCalm ==
  ASSUME Inv, Calm, Quiet, NEW p \in Req, Start(p), UNCHANGED faults
  PROVE  Calm'
<1>0. Dirty(job[p]) = {}
  BY DEF Quiet, Dirty
<1>1. CASE Create(p) \/ AssignPermissions(p) \/ EnableRule(p) \/ DisableRule(p)
  <2>1. PICK i \in Rule, r \in Row, drop \in Name \union {None}, load \in Name \union {None} :
            /\ Edit(p, i, r, drop, load)
            /\ drop = None => load \in Name
            /\ r.name \in {drop, load}
            /\ Exists(i) => rule[i].name \in {drop, load}
    BY <1>1, EditStarts
  <2>2. PICK j : j = [IdleJob EXCEPT !.at = "save", !.id = i, !.row = r,
                                     !.drop = drop, !.load = load]
    OBVIOUS
  <2>3. j \in Job /\ j.at = "save" /\ j.id = i /\ j.row = r /\ j.drop = drop /\ j.load = load
    BY <2>2, IdleJobOK DEF IdleJob, Job, At
  <2>4. Agrees(j)
    BY <2>1, <2>3 DEF Agrees
  <2>5. Goto(p, j) /\ UNCHANGED <<rule, redis>>
    BY <2>1, <2>2 DEF Edit
  <2> QED BY <1>0, <2>3, <2>4, <2>5, CalmJobOnly
<1>2. CASE Update(p)
  <2>1. PICK i \in Rule, n \in Name :
            /\ Goto(p, [IdleJob EXCEPT !.at = "updateFind", !.id = i, !.load = n])
            /\ UNCHANGED <<rule, redis>>
    BY <1>2 DEF Update
  <2>2. PICK j : j = [IdleJob EXCEPT !.at = "updateFind", !.id = i, !.load = n]
    OBVIOUS
  <2>3. j \in Job /\ j.at = "updateFind"
    BY <2>2, IdleJobOK DEF IdleJob, Job, At
  <2>4. Agrees(j)
    BY <2>3 DEF Agrees
  <2> QED BY <1>0, <2>1, <2>2, <2>3, <2>4, CalmJobOnly
<1>3. CASE Delete(p)
  <2>1. PICK i \in Rule :
            /\ Exists(i)
            /\ Goto(p, [IdleJob EXCEPT !.at = "remove", !.id = i, !.drop = rule[i].name])
            /\ UNCHANGED <<rule, redis>>
    BY <1>3 DEF Delete
  <2>2. PICK n \in Name : n = rule[i].name
    BY <2>1, EditedRows
  <2>3. PICK j : j = [IdleJob EXCEPT !.at = "remove", !.id = i, !.drop = n]
    OBVIOUS
  <2>4. j \in Job /\ j.at = "remove" /\ j.id = i /\ j.drop = n
    BY <2>3, IdleJobOK DEF IdleJob, Job, At
  <2>5. Agrees(j)
    BY <2>2, <2>4 DEF Agrees
  <2> QED BY <1>0, <2>1, <2>2, <2>3, <2>4, <2>5, CalmJobOnly
<1>4. CASE Lookup(p)
  <2>1. PICK n \in Name : Goto(p, [IdleJob EXCEPT !.at = "lookupFind", !.load = n])
    BY <1>4 DEF Lookup
  <2>2. PICK j : j = [IdleJob EXCEPT !.at = "lookupFind", !.load = n]
    OBVIOUS
  <2>3. j \in Job /\ j.at = "lookupFind"
    BY <2>2, NameJob
  <2>4. Agrees(j)
    BY <2>3 DEF Agrees
  <2>5. UNCHANGED <<rule, redis>>
    BY <1>4 DEF Lookup
  <2> QED BY <1>0, <2>1, <2>2, <2>3, <2>4, <2>5, CalmJobOnly
<1>5. CASE Reconcile(p) \/ WarmUp(p)
  <2>1. PICK f : f = [n \in Name |-> IF n \in tracked THEN {} ELSE None]
    OBVIOUS
  <2>2. f \in [Name -> Codes] /\ \A n \in tracked : f[n] # None
    <3>1. {} \in SUBSET Perm
      OBVIOUS
    <3>2. {} # None
      BY <3>1, EndpointRulesConstants
    <3> QED BY <2>1, <3>1, <3>2, Facts DEF Codes
  <2>3. PICK j : /\ j = [IdleJob EXCEPT !.at = "warmFind"]
                     \/ j = [IdleJob EXCEPT !.at = "deleteStale", !.codes = f]
                 /\ Goto(p, j)
    BY <1>5, <2>1 DEF Reconcile, WarmUp
  <2>4. j \in Job /\ (j.at = "warmFind" \/ (j.at = "deleteStale" /\ j.codes = f))
    BY <2>2, <2>3, StaleJob, WarmFindJob
  <2>5. Agrees(j)
    BY <2>2, <2>4 DEF Agrees
  <2>6. UNCHANGED <<rule, redis>>
    BY <1>5 DEF Reconcile, WarmUp
  <2> QED BY <1>0, <2>3, <2>4, <2>5, <2>6, CalmJobOnly
<1> QED BY <1>1, <1>2, <1>3, <1>4, <1>5 DEF Start

LEMMA StepCalm ==
  ASSUME Inv, Calm, NEW p \in Req, Step(p)
  PROVE  Calm'
<1>0. job[p] \in Job /\ JobOK(job[p]) /\ Agrees(job[p])
  BY Facts DEF Calm
<1>i. Agrees(IdleJob) /\ Agrees(IdleJob)' /\ Dirty(IdleJob) = {} /\ IdleJob \in Job
  BY IdleJobOK DEF Agrees, Dirty
<1>1. CASE UpdateFind(p)
  <2>1. PICK j : UpdateJob(p, j)
    BY <1>1, UpdateFindJob
  <2>2. job[p].at = "updateFind" /\ UNCHANGED <<rule, redis>>
    BY <1>1 DEF UpdateFind
  <2>3. Agrees(j)
    BY <2>1 DEF UpdateJob, Agrees
  <2>4. Dirty(job[p]) = {}
    BY <2>2 DEF Dirty
  <2> QED BY <2>1, <2>2, <2>3, <2>4, CalmJobOnly DEF UpdateJob
<1>2. CASE SaveRule(p)
  <2>1. job[p].at = "save" /\ UNCHANGED redis /\ Dirty(job[p]) = {}
    BY <1>2 DEF SaveRule, Dirty
  <2>2. CASE Named(job[p].row.name) \subseteq {job[p].id}
    <3>1. rule' = [rule EXCEPT ![job[p].id] = job[p].row] /\ Goto(p, AfterWrite(job[p]))
      BY <1>2, <2>2 DEF SaveRule
    <3>2. PICK j : j = AfterWrite(job[p])
      OBVIOUS
    <3>3. j \in Job /\ j.at \in {"find", "del"} /\ j.drop = job[p].drop /\ j.load = job[p].load
      BY <1>0, <2>1, <3>2, AfterWriteJob
    <3>4. Agrees(j)'
      BY <3>3 DEF Agrees
    <3>5. ASSUME NEW n \in Name, cache'[n] # None, n \notin {job[p].drop, job[p].load}
          PROVE  n \in tracked' /\ Current(n)'
      <4>1. n \in tracked /\ Current(n) /\ cache'[n] = cache[n] /\ tracked' = tracked
        BY <2>1, <3>5, OnlyItsOwn DEF redis
      <4>2. /\ job[p].id \in Rule /\ job[p].row \in Row /\ job[p].row.name # n
            /\ Exists(job[p].id) => rule[job[p].id].name # n
        BY <1>0, <2>1, <3>5 DEF JobOK, Agrees
      <4> QED BY <3>1, <4>1, <4>2, WriteFacts
    <3>6. Dirty(j) = {job[p].drop, job[p].load}
      BY <3>3 DEF Dirty
    <3> QED BY <2>1, <3>1, <3>2, <3>3, <3>4, <3>5, <3>6, CalmStep
  <2>3. CASE ~(Named(job[p].row.name) \subseteq {job[p].id})
    <3>1. Goto(p, IdleJob) /\ UNCHANGED rule
      BY <1>2, <2>3 DEF SaveRule, Done
    <3> QED BY <1>i, <2>1, <3>1, CalmJobOnly
  <2> QED BY <2>2, <2>3
<1>3. CASE RemoveRule(p)
  <2>1. /\ job[p].at = "remove" /\ UNCHANGED redis
        /\ rule' = [rule EXCEPT ![job[p].id] = None]
        /\ Goto(p, AfterWrite(job[p]))
    BY <1>3 DEF RemoveRule
  <2>2. PICK j : j = AfterWrite(job[p])
    OBVIOUS
  <2>3. j \in Job /\ j.at \in {"find", "del"} /\ j.drop = job[p].drop /\ j.load = job[p].load
    BY <1>0, <2>1, <2>2, AfterWriteJob
  <2>4. Agrees(j)'
    BY <2>3 DEF Agrees
  <2>5. ASSUME NEW n \in Name, cache'[n] # None, n \notin {job[p].drop, job[p].load}
        PROVE  n \in tracked' /\ Current(n)'
    <3>1. n \in tracked /\ Current(n) /\ cache'[n] = cache[n] /\ tracked' = tracked
      BY <2>1, <2>5, OnlyItsOwn DEF redis, Dirty
    <3>2. job[p].id \in Rule /\ (Exists(job[p].id) => rule[job[p].id].name # n)
      BY <1>0, <2>1, <2>5 DEF JobOK, Agrees
    <3> QED BY <2>1, <3>1, <3>2, WriteFacts
  <2>6. Dirty(j) = {job[p].drop, job[p].load}
    BY <2>3 DEF Dirty
  <2> QED BY <2>1, <2>2, <2>3, <2>4, <2>5, <2>6, CalmStep
<1>4. CASE InvalidateDel(p)
  <2>1. PICK j : j = [job[p] EXCEPT !.at = "sRem"]
    OBVIOUS
  <2>2. /\ job[p].at = "del" /\ Goto(p, j) /\ UNCHANGED <<rule, tracked>>
        /\ cache' = [cache EXCEPT ![job[p].drop] = None]
    BY <1>4, <2>1, Facts DEF InvalidateDel, Advance, Goto
  <2>3. j \in Job /\ j.at = "sRem" /\ j.drop = job[p].drop /\ j.load = job[p].load
    BY <1>0, <2>1, <2>2, SRemJob
  <2>4. cache'[j.drop] = None /\ \A n \in Name : n # j.drop => cache'[n] = cache[n]
    BY <1>0, <2>2, <2>3, Facts DEF JobOK
  <2>5. Agrees(j)'
    BY <2>3, <2>4 DEF Agrees
  <2>6. Dirty(j) = Dirty(job[p])
    BY <2>2, <2>3 DEF Dirty
  <2>7. \A n \in Name : cache'[n] # None => (n \in tracked' /\ Current(n)') \/ n \in Dirty(j)
    BY <2>2, <2>4, <2>6, OnlyItsOwn, CurrentKept
  <2> QED BY <2>2, <2>3, <2>5, <2>7, CalmStep
<1>5. CASE InvalidateSRem(p)
  <2>1. PICK j : j = AfterInvalidate(job[p])
    OBVIOUS
  <2>2. /\ job[p].at = "sRem" /\ Goto(p, j) /\ UNCHANGED <<rule, cache>>
        /\ tracked' = tracked \ {job[p].drop}
    BY <1>5, <2>1 DEF InvalidateSRem
  <2>3. /\ j \in Job /\ j.at \in {"find", "idle"} /\ j.load = job[p].load
        /\ job[p].load # None => j.at = "find"
    BY <1>0, <2>1, <2>2, AfterInvalidateJob
  <2>4. Agrees(j)'
    BY <2>3 DEF Agrees
  <2>5. cache[job[p].drop] = None
    BY <1>0, <2>2 DEF Agrees
  <2>6. ASSUME NEW n \in Name, cache'[n] # None
        PROVE  (n \in tracked' /\ Current(n)') \/ n \in Dirty(j)
    <3>1. cache[n] # None /\ n # job[p].drop
      BY <2>2, <2>5, <2>6
    <3>2. (n \in tracked /\ Current(n)) \/ n = job[p].load
      BY <2>2, <3>1, OnlyItsOwn DEF Dirty
    <3>3. Current(n)' <=> Current(n)
      BY <2>2, CurrentKept
    <3>4. n = job[p].load => n \in Dirty(j)
      BY <2>3, EndpointRulesConstants DEF Dirty
    <3> QED BY <2>2, <3>1, <3>2, <3>3, <3>4
  <2> QED BY <2>2, <2>3, <2>4, <2>6, CalmStep
<1>6. CASE LoadFind(p) \/ LookupFind(p)
  <2>1. PICK n : n = job[p].load
    OBVIOUS
  <2>2. n \in Name /\ UNCHANGED <<rule, redis>> /\ job[p].at # "idle"
    BY <1>0, <1>6, <2>1 DEF LoadFind, LookupFind, JobOK
  <2>3. Dirty(job[p]) \ {None} \subseteq {n}
    BY <1>0, <1>6, <2>1 DEF LoadFind, LookupFind, JobOK, Dirty
  <2>4. PICK j : /\ \/ IsEnabled(n) /\ j = Fill(n)
                    \/ j = [IdleJob EXCEPT !.at = "del", !.drop = n]
                    \/ j = IdleJob /\ LookupFind(p)
                 /\ Goto(p, j)
    BY <1>6, <2>1 DEF LoadFind, LookupFind
  <2>5. CASE IsEnabled(n) /\ j = Fill(n)
    <3>1. j \in Job /\ j.at = "set" /\ j.load = n /\ j.codes[n] = EnabledCodes(n)
      BY <2>2, <2>5, FillJob
    <3>2. Agrees(j) /\ n \in Dirty(j)
      BY <2>5, <3>1 DEF Agrees, Dirty
    <3> QED BY <2>2, <2>3, <2>4, <3>1, <3>2, CalmJobOnly
  <2>6. CASE j = [IdleJob EXCEPT !.at = "del", !.drop = n]
    <3>1. j \in Job /\ j.at = "del" /\ j.drop = n
      BY <2>2, <2>6, DropJob
    <3>2. Agrees(j) /\ n \in Dirty(j)
      BY <3>1 DEF Agrees, Dirty
    <3> QED BY <2>2, <2>3, <2>4, <3>1, <3>2, CalmJobOnly
  <2>7. CASE j = IdleJob /\ LookupFind(p)
    <3>1. Dirty(job[p]) = {}
      BY <2>7 DEF LookupFind, Dirty
    <3> QED BY <1>i, <2>2, <2>4, <2>7, <3>1, CalmJobOnly
  <2> QED BY <2>4, <2>5, <2>6, <2>7
<1>7. CASE FillSet(p)
  <2>1. PICK n : n = job[p].load
    OBVIOUS
  <2>2. /\ job[p].at = "set" /\ UNCHANGED <<rule, tracked>>
        /\ cache' = [cache EXCEPT ![n] = job[p].codes[n]]
        /\ Goto(p, [IdleJob EXCEPT !.at = "sAdd", !.load = n])
    BY <1>7, <2>1 DEF FillSet
  <2>3. /\ n \in Name /\ Dirty(job[p]) = {None, n}
        /\ IsEnabled(n) /\ job[p].codes[n] = EnabledCodes(n)
    BY <1>0, <2>1, <2>2 DEF JobOK, Agrees, Dirty
  <2>4. PICK j : j = [IdleJob EXCEPT !.at = "sAdd", !.load = n]
    OBVIOUS
  <2>5. j \in Job /\ j.at = "sAdd" /\ j.load = n
    BY <2>3, <2>4, NameJob
  <2>6. cache'[n] = EnabledCodes(n) /\ \A m \in Name : m # n => cache'[m] = cache[m]
    BY <2>2, <2>3, Facts
  <2>7. Current(n)'
    BY <2>2, <2>3, <2>6 DEF Current, IsEnabled, EnabledCodes, EnabledRules, Named, Exists
  <2>8. Agrees(j)' /\ n \in Dirty(j)
    BY <2>5, <2>7 DEF Agrees, Dirty
  <2>9. ASSUME NEW m \in Name, cache'[m] # None, m # n
        PROVE  m \in tracked' /\ Current(m)'
    <3>1. cache[m] # None /\ m \notin Dirty(job[p])
      BY <2>3, <2>6, <2>9, EndpointRulesConstants
    <3>2. m \in tracked /\ Current(m)
      BY <2>2, <3>1, OnlyItsOwn
    <3> QED BY <2>2, <2>6, <2>9, <3>2, CurrentKept
  <2> QED BY <2>2, <2>4, <2>5, <2>8, <2>9, CalmStep
<1>8. CASE FillSAdd(p)
  <2>1. /\ job[p].at = "sAdd" /\ UNCHANGED <<rule, cache>>
        /\ tracked' = tracked \union {job[p].load} /\ Goto(p, IdleJob)
    BY <1>8 DEF FillSAdd, Done
  <2>2. Current(job[p].load) /\ Dirty(job[p]) = {None, job[p].load}
    BY <1>0, <2>1 DEF Agrees, JobOK, Dirty
  <2>3. ASSUME NEW n \in Name, cache'[n] # None
        PROVE  n \in tracked' /\ Current(n)'
    <3>1. n \in tracked' /\ Current(n)
      BY <2>1, <2>2, <2>3, OnlyItsOwn, EndpointRulesConstants
    <3> QED BY <2>1, <3>1, CurrentKept
  <2> QED BY <1>i, <2>1, <2>3, CalmStep
<1>9. CASE DeleteStale(p)
  <2>1. /\ job[p].at = "deleteStale"
        /\ cache' = [n \in Name |-> IF job[p].codes[n] # None THEN None ELSE cache[n]]
        /\ Goto(p, [IdleJob EXCEPT !.at = "warmFind"])
    BY <1>9 DEF DeleteStale
  <2>2. PICK j : j = [IdleJob EXCEPT !.at = "warmFind"]
    OBVIOUS
  <2>3. j \in Job /\ j.at = "warmFind"
    BY <2>2, WarmFindJob
  <2>4. Agrees(j)'
    BY <2>3 DEF Agrees
  <2>5. \A n \in tracked : job[p].codes[n] # None
    BY <1>0, <2>1 DEF Agrees
  <2>6. \A n \in Name : cache[n] # None => n \in tracked
    BY <2>1, OnlyItsOwn DEF Dirty
  <2>7. \A n \in Name : cache'[n] = None
    BY <2>1, <2>5, <2>6
  <2> QED BY <2>1, <2>2, <2>3, <2>4, <2>7, CalmStep
<1>10. CASE WarmFind(p)
  <2>1. PICK f : f = [n \in Name |-> IF IsEnabled(n) THEN EnabledCodes(n) ELSE None]
    OBVIOUS
  <2>2. \A n \in Name : EnabledCodes(n) \in Codes
    BY CodesFacts DEF Codes
  <2>3. /\ f \in [Name -> Codes]
        /\ \A n \in Name : f[n] # None => IsEnabled(n) /\ f[n] = EnabledCodes(n)
    BY <2>1, <2>2 DEF Codes
  <2>4. PICK j : /\ j = IdleJob \/ j = [IdleJob EXCEPT !.at = "warmFill", !.codes = f]
                 /\ Goto(p, j)
    BY <1>10, <2>1 DEF WarmFind
  <2>5. CASE j = IdleJob
    <3>1. job[p].at = "warmFind" /\ UNCHANGED <<rule, redis>> /\ Dirty(job[p]) = {}
      BY <1>10 DEF WarmFind, Dirty
    <3> QED BY <1>i, <2>4, <2>5, <3>1, CalmJobOnly
  <2>6. CASE j = [IdleJob EXCEPT !.at = "warmFill", !.codes = f]
    <3>1. job[p].at = "warmFind" /\ UNCHANGED <<rule, redis>> /\ Dirty(job[p]) = {}
      BY <1>10 DEF WarmFind, Dirty
    <3>2. j \in Job /\ j.at = "warmFill" /\ j.codes = f
      BY <2>3, <2>6, WarmFillJob
    <3>3. Agrees(j)
      BY <2>3, <3>2 DEF Agrees
    <3> QED BY <2>4, <3>1, <3>2, <3>3, CalmJobOnly
  <2> QED BY <2>4, <2>5, <2>6
<1>11. CASE WarmFill(p)
  <2>1. PICK found : found = {n \in Name : job[p].codes[n] # None}
    OBVIOUS
  <2>2. /\ job[p].at = "warmFill" /\ UNCHANGED rule /\ Goto(p, IdleJob)
        /\ cache' = [n \in Name |-> IF n \in found THEN job[p].codes[n] ELSE cache[n]]
        /\ tracked' = tracked \union found
    BY <1>11, <2>1 DEF WarmFill, Done
  <2>3. \A n \in found : n \in Name /\ IsEnabled(n) /\ job[p].codes[n] = EnabledCodes(n)
    BY <1>0, <2>1, <2>2 DEF Agrees
  <2>4. ASSUME NEW n \in Name, cache'[n] # None
        PROVE  n \in tracked' /\ Current(n)'
    <3>1. CASE n \in found
      <4>1. cache'[n] = EnabledCodes(n) /\ IsEnabled(n)
        BY <2>2, <2>3, <3>1
      <4> QED BY <2>2, <3>1, <4>1
              DEF Current, IsEnabled, EnabledCodes, EnabledRules, Named, Exists
    <3>2. CASE n \notin found
      <4>1. cache'[n] = cache[n] /\ Dirty(job[p]) = {}
        BY <2>2, <3>2 DEF Dirty
      <4>2. n \in tracked /\ Current(n)
        BY <2>2, <2>4, <4>1, OnlyItsOwn
      <4> QED BY <2>2, <4>1, <4>2, CurrentKept
    <3> QED BY <3>1, <3>2
  <2> QED BY <1>i, <2>2, <2>4, CalmStep
<1> QED BY <1>1, <1>2, <1>3, <1>4, <1>5, <1>6, <1>7, <1>8, <1>9, <1>10, <1>11 DEF Step

\* A failed call is counted, and nothing takes it back.
LEMMA FaultsGrow ==
  ASSUME Inv
  PROVE  /\ \A p \in Req : Start(p) => faults' = faults \/ faults' # 0
         /\ \A p \in Req : Step(p) => faults' = faults
         /\ \A p \in Req : Fail(p) => faults' # 0
         /\ RedisRestart => faults' # 0
<1>1. \A p \in Req : Start(p) => faults' = faults \/ faults' # 0
  <2>1. \A p \in Req : Lookup(p) => faults' = faults \/ faults' # 0
    BY FaultFacts DEF Lookup
  <2> QED BY <2>1 DEF Start, Create, Update, AssignPermissions, EnableRule, DisableRule,
                      Delete, Edit, Reconcile, WarmUp
<1>2. \A p \in Req : Step(p) => faults' = faults
  BY DEF Step, UpdateFind, SaveRule, RemoveRule, InvalidateDel, InvalidateSRem, LoadFind,
         LookupFind, FillSet, FillSAdd, DeleteStale, WarmFind, WarmFill
<1>3. \A p \in Req : Fail(p) => faults' # 0
  BY FaultFacts DEF Fail
<1>4. RedisRestart => faults' # 0
  BY FaultFacts DEF RedisRestart
<1> QED BY <1>1, <1>2, <1>3, <1>4

LEMMA AloneInvariance == Spec => []AloneOK
<1>1. Init => AloneOK
  <2> SUFFICES ASSUME Init PROVE Calm
    BY Zenon DEF AloneOK, Undisturbed
  <2>1. \A q \in Req : job[q] = IdleJob /\ job[q].at = "idle"
    BY DEF Init, IdleJob
  <2>2. Single /\ \A q \in Req : Agrees(job[q])
    BY <2>1 DEF Single, Agrees
  <2>3. EntriesCurrent
    BY DEF Init, NoCodes, EntriesCurrent
  <2> QED BY <2>2, <2>3 DEF Calm
<1>2. Inv /\ AloneOK /\ [Next]_vars => AloneOK'
  <2> SUFFICES ASSUME Inv, AloneOK, [Next]_vars PROVE AloneOK'
    OBVIOUS
  <2>1. ASSUME NEW p \in Req, Start(p) PROVE AloneOK'
    <3>1. CanStart(p)
      BY <2>1, AloneStep
    <3>2. alone' => alone /\ Quiet
      BY <3>1, Zenon DEF CanStart
    <3>3. Undisturbed /\ Quiet => Undisturbed'
      BY <2>1, StartCalm, FaultsGrow DEF Undisturbed
    <3> QED BY <3>2, <3>3, Zenon DEF AloneOK
  <2>2. ASSUME NEW p \in Req, Step(p) PROVE AloneOK'
    <3>1. alone' = alone
      BY <2>2, AloneStep
    <3>2. Undisturbed => Undisturbed'
      BY <2>2, StepCalm, FaultsGrow DEF Undisturbed
    <3> QED BY <3>1, <3>2, Zenon DEF AloneOK
  <2>3. ASSUME (\E p \in Req : Fail(p)) \/ RedisRestart PROVE AloneOK'
    <3>1. Undisturbed'
      BY <2>3, FaultsGrow DEF Undisturbed
    <3> QED BY <3>1, Zenon DEF AloneOK
  <2>4. ASSUME UNCHANGED vars PROVE AloneOK'
    <3>1. alone' = alone
      BY <2>4 DEF vars
    <3>2. Undisturbed => Undisturbed'
      BY <2>4 DEF vars, Undisturbed, Calm, Single, Agrees, EntriesCurrent, Current, IsEnabled,
                  EnabledCodes, EnabledRules, Named, Exists
    <3> QED BY <3>1, <3>2, Zenon DEF AloneOK
  <2> QED BY <2>1, <2>2, <2>3, <2>4 DEF Next
<1> QED BY <1>1, <1>2, Invariance, PTL DEF Spec

\* For any rules and names and any sequence of requests and cron runs that do
\* not overlap, none of whose calls failed: between them every cached name is
\* in epr_keys and is that of an enabled rule with exactly the cached codes.
\* The DEL, SREM, SET and SADD that the handlers issue one by one, and the
\* order of a rename's invalidation and load, leave nothing behind.
THEOREM SerialCacheAgrees == Spec => []CacheAgreesWithRules
<1>1. AloneOK => CacheAgreesWithRules
  <2> SUFFICES ASSUME AloneOK, Quiet, alone, faults = 0,
                      NEW n \in Name, cache[n] # None
               PROVE  n \in tracked /\ IsEnabled(n) /\ cache[n] = EnabledCodes(n)
    BY DEF CacheAgreesWithRules
  <2>1. Undisturbed
    BY Zenon DEF AloneOK
  <2>2. \A p \in Req : Dirty(job[p]) = {}
    BY DEF Quiet, Dirty
  <2> QED BY <2>1, <2>2 DEF Undisturbed, Calm, EntriesCurrent, Current
<1> QED BY <1>1, AloneInvariance, PTL

-----------------------------------------------------------------------------
(* One pass of handleCacheReconciliation, from the answer of SMEMBERS on,  *)
(* while other requests look endpoints up, other instances warm their      *)
(* cache, and calls of these fail.  No rule is edited meanwhile.           *)

\* A lookup or a warm-up; what it is about to cache is what the rules say.
Reading(q) ==
    /\ job[q].at \in {"idle", "lookupFind", "set", "sAdd", "warmFind", "warmFill"}
    /\ job[q].at = "set" =>
            IsEnabled(job[q].load) /\ job[q].codes[job[q].load] = EnabledCodes(job[q].load)
    /\ job[q].at = "warmFill" =>
            \A n \in Name : job[q].codes[n] # None =>
                IsEnabled(n) /\ job[q].codes[n] = EnabledCodes(n)

\* Any cache, as long as an entry that is wrong is in epr_keys.
PassInit(p) ==
    /\ Inv
    /\ \/ job[p].at = "deleteStale" /\ \A n \in tracked : job[p].codes[n] # None
       \/ job[p].at = "warmFind" /\ tracked = {}
    /\ \A n \in Name : cache[n] # None => n \in tracked \/ Current(n)
    /\ \A q \in Req \ {p} : Reading(q)

Read(q) ==
    \/ Lookup(q) \/ LookupFind(q) \/ FillSet(q) \/ FillSAdd(q)
    \/ WarmUp(q) \/ WarmFind(q) \/ WarmFill(q) \/ Fail(q)

PassNext(p) ==
    \/ DeleteStale(p) \/ WarmFind(p) \/ WarmFill(p)
    \/ \E q \in Req \ {p} : Read(q)

Pass(p) == PassInit(p) /\ [][PassNext(p)]_vars

\* An entry for every enabled rule, with its codes, and no other.
CacheIsTable == \A n \in Name : cache[n] = IF IsEnabled(n) THEN EnabledCodes(n) ELSE None

\* What the pass has still to put right.
PassJobOK(j) ==
    /\ j.at \in {"deleteStale", "warmFind", "warmFill", "idle"}
    /\ j.at = "deleteStale" => \A n \in Name : cache[n] # None => j.codes[n] # None \/ Current(n)
    /\ j.at \in {"warmFind", "warmFill"} => \A n \in Name : cache[n] # None => Current(n)
    /\ j.at = "warmFill" =>
            \A n \in Name : j.codes[n] = IF IsEnabled(n) THEN EnabledCodes(n) ELSE None
    /\ j.at = "idle" => CacheIsTable

PassOK(p) ==
    /\ Inv
    /\ PassJobOK(job[p])
    /\ \A q \in Req \ {p} : Reading(q)

\* Nobody edits a rule.
LEMMA SameTable ==
  ASSUME rule' = rule
  PROVE  \A n : EnabledCodes(n)' = EnabledCodes(n) /\ (IsEnabled(n)' <=> IsEnabled(n))
<1>1. \A n : Named(n)' = Named(n)
  BY DEF Named, Exists
<1>2. EnabledRules' = EnabledRules
  BY DEF EnabledRules, Exists
<1>3. \A n : EnabledCodes(n)' = EnabledCodes(n)
  BY <1>1 DEF EnabledCodes
<1>4. \A n : IsEnabled(n)' <=> IsEnabled(n)
  BY <1>1, <1>2 DEF IsEnabled
<1> QED BY <1>3, <1>4

LEMMA OtherJobs ==
  ASSUME Inv, NEW q \in Req, NEW j, Goto(q, j)
  PROVE  job'[q] = j /\ \A r \in Req : r # q => job'[r] = job[r]
  BY Facts DEF Goto

LEMMA ReadingKept ==
  ASSUME Inv, NEW r \in Req, Reading(r), rule' = rule, job'[r] = job[r]
  PROVE  Reading(r)'
  BY SameTable DEF Reading

\* The job of a warm-up that has found the enabled rules.
WarmJob(j) ==
    /\ j.at = "warmFill"
    /\ \A n \in Name : j.codes[n] = IF IsEnabled(n) THEN EnabledCodes(n) ELSE None

LEMMA WarmFound ==
  ASSUME Inv, NEW q \in Req, WarmFind(q), EnabledRules # {}
  PROVE  \E j : WarmJob(j) /\ Goto(q, j)
<1>1. PICK f : f = [n \in Name |-> IF IsEnabled(n) THEN EnabledCodes(n) ELSE None]
  OBVIOUS
<1>2. PICK j : j = [IdleJob EXCEPT !.at = "warmFill", !.codes = f]
  OBVIOUS
<1>3. Goto(q, j)
  BY <1>1, <1>2 DEF WarmFind
<1>4. j.at = "warmFill" /\ j.codes = f
  BY <1>2 DEF IdleJob
<1> QED BY <1>1, <1>3, <1>4 DEF WarmJob

\* A reader's new job, and what it does to the cache.
LEMMA ReadStep ==
  ASSUME Inv, NEW q \in Req, Reading(q), Read(q)
  PROVE  /\ rule' = rule
         /\ Reading(q)'
         /\ \A r \in Req : r # q => job'[r] = job[r]
         /\ \A n \in Name : \/ cache'[n] = cache[n]
                            \/ IsEnabled(n) /\ cache'[n] = EnabledCodes(n)
<1>0. rule' = rule
  BY DEF Read, Lookup, LookupFind, FillSet, FillSAdd, WarmUp, WarmFind, WarmFill, Fail
<1>1. ASSUME NEW j, Goto(q, j), j.at \in {"idle", "lookupFind", "sAdd", "warmFind"}
      PROVE  Reading(q)' /\ \A r \in Req : r # q => job'[r] = job[r]
  <2>1. job'[q] = j /\ \A r \in Req : r # q => job'[r] = job[r]
    BY <1>1, OtherJobs
  <2> QED BY <1>1, <2>1 DEF Reading
<1>2. IdleJob.at = "idle"
  BY IdleJobOK
<1>3. CASE Lookup(q)
  <2>1. PICK n \in Name : Goto(q, [IdleJob EXCEPT !.at = "lookupFind", !.load = n])
    BY <1>3 DEF Lookup
  <2>2. PICK j : j = [IdleJob EXCEPT !.at = "lookupFind", !.load = n]
    OBVIOUS
  <2>3. Goto(q, j) /\ j.at = "lookupFind" /\ cache' = cache
    BY <1>3, <2>1, <2>2 DEF IdleJob, Lookup, redis
  <2> QED BY <1>0, <1>1, <2>3
<1>4. CASE LookupFind(q)
  <2>1. PICK n : n = job[q].load
    OBVIOUS
  <2>2. n \in Name /\ cache' = cache /\ Goto(q, IF IsEnabled(n) THEN Fill(n) ELSE IdleJob)
    BY <1>4, <2>1, Facts DEF LookupFind, JobOK, redis
  <2>3. CASE ~IsEnabled(n)
    BY <1>0, <1>1, <1>2, <2>2, <2>3
  <2>4. CASE IsEnabled(n)
    <3>1. PICK j : j = Fill(n)
      OBVIOUS
    <3>2. Goto(q, j) /\ j.at = "set" /\ j.load = n /\ j.codes[n] = EnabledCodes(n)
      BY <2>2, <2>4, <3>1, FillJob
    <3>3. job'[q] = j /\ \A r \in Req : r # q => job'[r] = job[r]
      BY <3>2, OtherJobs
    <3>4. Reading(q)'
      BY <1>0, <2>4, <3>2, <3>3, SameTable DEF Reading
    <3> QED BY <1>0, <2>2, <3>3, <3>4
  <2> QED BY <2>3, <2>4
<1>5. CASE FillSet(q)
  <2>1. PICK n : n = job[q].load
    OBVIOUS
  <2>2. n \in Name /\ IsEnabled(n) /\ job[q].codes[n] = EnabledCodes(n)
    BY <1>5, <2>1, Facts DEF FillSet, JobOK, Reading
  <2>3. cache' = [cache EXCEPT ![n] = EnabledCodes(n)]
    BY <1>5, <2>1, <2>2 DEF FillSet
  <2>4. PICK j : j = [IdleJob EXCEPT !.at = "sAdd", !.load = n]
    OBVIOUS
  <2>5. Goto(q, j) /\ j.at = "sAdd"
    BY <1>5, <2>1, <2>4 DEF FillSet, IdleJob
  <2>6. \A m \in Name : cache'[m] = cache[m] \/ (IsEnabled(m) /\ cache'[m] = EnabledCodes(m))
    BY <2>2, <2>3, Facts
  <2> QED BY <1>0, <1>1, <2>5, <2>6
<1>6. CASE FillSAdd(q)
  BY <1>0, <1>1, <1>2, <1>6 DEF FillSAdd, Done
<1>7. CASE WarmUp(q)
  <2>1. PICK j : j = [IdleJob EXCEPT !.at = "warmFind"]
    OBVIOUS
  <2>2. Goto(q, j) /\ j.at = "warmFind" /\ cache' = cache
    BY <1>7, <2>1 DEF WarmUp, IdleJob, redis
  <2> QED BY <1>0, <1>1, <2>2
<1>8. CASE WarmFind(q)
  <2>1. cache' = cache
    BY <1>8 DEF WarmFind, redis
  <2>2. CASE EnabledRules = {}
    BY <1>0, <1>1, <1>2, <1>8, <2>1, <2>2 DEF WarmFind
  <2>3. CASE EnabledRules # {}
    <3>1. PICK j : WarmJob(j) /\ Goto(q, j)
      BY <1>8, <2>3, WarmFound
    <3>2. job'[q] = j /\ \A r \in Req : r # q => job'[r] = job[r]
      BY <3>1, OtherJobs
    <3>3. Reading(q)'
      BY <1>0, <3>1, <3>2, SameTable DEF Reading, WarmJob
    <3> QED BY <1>0, <2>1, <3>2, <3>3
  <2> QED BY <2>2, <2>3
<1>9. CASE WarmFill(q)
  <2>1. \A n \in Name : cache'[n] = IF job[q].codes[n] # None THEN job[q].codes[n] ELSE cache[n]
    BY <1>9 DEF WarmFill
  <2>2. \A n \in Name : cache'[n] = cache[n] \/ (IsEnabled(n) /\ cache'[n] = EnabledCodes(n))
    BY <1>9, <2>1 DEF Reading, WarmFill
  <2> QED BY <1>0, <1>1, <1>2, <1>9, <2>2 DEF WarmFill, Done
<1>10. CASE Fail(q)
  <2>1. Goto(q, IdleJob) /\ cache' = cache
    BY <1>10 DEF Fail, Reading, redis
  <2> QED BY <1>0, <1>1, <1>2, <2>1
<1> QED BY <1>3, <1>4, <1>5, <1>6, <1>7, <1>8, <1>9, <1>10 DEF Read

LEMMA PassStep ==
  ASSUME NEW p \in Req, PassOK(p), PassNext(p)
  PROVE  PassOK(p)'
<1>0. Inv /\ PassJobOK(job[p])
  BY DEF PassOK
<1>1. ASSUME NEW j, Goto(p, j), rule' = rule, Inv', PassJobOK(j)' PROVE PassOK(p)'
  <2>1. job'[p] = j /\ \A r \in Req : r # p => job'[r] = job[r]
    BY <1>0, <1>1, OtherJobs
  <2>2. \A r \in Req \ {p} : Reading(r)'
    BY <1>0, <1>1, <2>1, ReadingKept DEF PassOK
  <2>3. PassJobOK(job[p])'
    BY <1>1, <2>1 DEF PassJobOK
  <2> QED BY <1>1, <2>2, <2>3 DEF PassOK
<1>2. CASE DeleteStale(p)
  <2>1. PICK j : j = [IdleJob EXCEPT !.at = "warmFind"]
    OBVIOUS
  <2>2. Goto(p, j) /\ j.at = "warmFind" /\ rule' = rule /\ job[p].at = "deleteStale"
    BY <1>2, <2>1 DEF DeleteStale, IdleJob
  <2>3. \A n \in Name : cache'[n] # None => cache'[n] = cache[n] /\ job[p].codes[n] = None
    BY <1>2 DEF DeleteStale
  <2>4. \A n \in Name : cache'[n] # None => Current(n)'
    BY <1>0, <2>2, <2>3, SameTable DEF PassJobOK, Current
  <2>5. PassJobOK(j)'
    BY <2>2, <2>4 DEF PassJobOK
  <2>6. Inv'
    BY <1>0, <1>2, StepInv DEF Step
  <2> QED BY <1>1, <2>2, <2>5, <2>6
<1>3. CASE WarmFind(p)
  <2>1. cache' = cache /\ rule' = rule /\ job[p].at = "warmFind"
    BY <1>3 DEF WarmFind, redis
  <2>2. Inv'
    BY <1>0, <1>3, StepInv DEF Step
  <2>3. \A n \in Name : cache'[n] # None => Current(n)'
    BY <1>0, <2>1, SameTable DEF PassJobOK, Current
  <2>4. CASE EnabledRules = {}
    <3>1. Goto(p, IdleJob) /\ IdleJob.at = "idle"
      BY <1>3, <2>4, IdleJobOK DEF WarmFind
    <3>2. \A n : ~IsEnabled(n)'
      BY <2>1, <2>4, SameTable DEF IsEnabled
    <3>3. CacheIsTable'
      BY <2>3, <3>2 DEF CacheIsTable, Current
    <3>4. PassJobOK(IdleJob)'
      BY <3>1, <3>3 DEF PassJobOK
    <3> QED BY <1>1, <2>1, <2>2, <3>1, <3>4
  <2>5. CASE EnabledRules # {}
    <3>1. PICK j : WarmJob(j) /\ Goto(p, j)
      BY <1>3, <2>5, <1>0, WarmFound
    <3>2. PassJobOK(j)'
      BY <2>1, <2>3, <3>1, SameTable DEF PassJobOK, WarmJob
    <3> QED BY <1>1, <2>1, <2>2, <3>1, <3>2
  <2> QED BY <2>4, <2>5
<1>4. CASE WarmFill(p)
  <2>1. /\ job[p].at = "warmFill" /\ rule' = rule /\ Goto(p, IdleJob)
        /\ \A n \in Name : cache'[n] = IF job[p].codes[n] # None THEN job[p].codes[n] ELSE cache[n]
    BY <1>4 DEF WarmFill, Done
  <2>2. \A n \in Name : cache'[n] = IF IsEnabled(n) THEN EnabledCodes(n) ELSE None
    <3> SUFFICES ASSUME NEW n \in Name
                 PROVE  cache'[n] = IF IsEnabled(n) THEN EnabledCodes(n) ELSE None
      OBVIOUS
    <3>1. CASE IsEnabled(n)
      BY <1>0, <2>1, <3>1, CodesFacts DEF PassJobOK
    <3>2. CASE ~IsEnabled(n)
      BY <1>0, <2>1, <3>2 DEF PassJobOK, Current
    <3> QED BY <3>1, <3>2
  <2>3. CacheIsTable'
    BY <2>1, <2>2, SameTable DEF CacheIsTable
  <2>4. PassJobOK(IdleJob)'
    BY <2>3, IdleJobOK DEF PassJobOK
  <2>5. Inv'
    BY <1>0, <1>4, StepInv DEF Step
  <2> QED BY <1>1, <2>1, <2>4, <2>5
<1>5. ASSUME NEW q \in Req, q # p, Read(q) PROVE PassOK(p)'
  <2>1. Reading(q)
    BY <1>5 DEF PassOK
  <2>2. /\ rule' = rule /\ Reading(q)' /\ \A r \in Req : r # q => job'[r] = job[r]
        /\ \A n \in Name : cache'[n] = cache[n] \/ (IsEnabled(n) /\ cache'[n] = EnabledCodes(n))
    BY <1>0, <1>5, <2>1, ReadStep
  <2>3. Inv'
    BY <1>0, <1>5, StartInv, StepInv, FailInv DEF Read, Start, Step
  <2>4. \A r \in Req \ {p} : Reading(r)'
    <3> SUFFICES ASSUME NEW r \in Req, r # p, r # q PROVE Reading(r)'
      BY <2>2
    <3> QED BY <1>0, <2>2, ReadingKept DEF PassOK
  <2>5. PICK j : j = job[p] /\ j = job'[p]
    BY <1>5, <2>2
  <2>6. \A n \in Name : cache'[n] = cache[n] \/ Current(n)'
    BY <2>2, SameTable DEF Current
  <2>7. \A n \in Name : Current(n) => Current(n)'
    BY <2>2, SameTable DEF Current
  <2>8. CacheIsTable => CacheIsTable'
    BY <2>2, SameTable DEF CacheIsTable
  <2>9. PassJobOK(j)'
    <3>1. j.at = "deleteStale" => \A n \in Name : cache'[n] # None => j.codes[n] # None \/ Current(n)'
      BY <1>0, <2>5, <2>6, <2>7 DEF PassJobOK
    <3>2. j.at \in {"warmFind", "warmFill"} => \A n \in Name : cache'[n] # None => Current(n)'
      BY <1>0, <2>5, <2>6, <2>7 DEF PassJobOK
    <3>3. j.at = "warmFill" =>
            \A n \in Name : j.codes[n] = IF IsEnabled(n)' THEN EnabledCodes(n)' ELSE None
      BY <1>0, <2>2, <2>5, SameTable DEF PassJobOK
    <3>4. j.at \in {"deleteStale", "warmFind", "warmFill", "idle"} /\ (j.at = "idle" => CacheIsTable')
      BY <1>0, <2>5, <2>8 DEF PassJobOK
    <3> QED BY <3>1, <3>2, <3>3, <3>4 DEF PassJobOK
  <2>10. PassJobOK(job[p])'
    BY <2>5, <2>9 DEF PassJobOK
  <2> QED BY <2>3, <2>4, <2>10 DEF PassOK
<1> QED BY <1>2, <1>3, <1>4, <1>5 DEF PassNext

\* One pass of the hourly job, from any cache whose wrong entries are listed
\* in epr_keys, leaves an entry with the right codes for every enabled rule and
\* no other entry, although lookups and warm-ups of other instances write to
\* the same keys meanwhile, and their calls fail; and so it stays until a rule
\* is edited.  (The run EndpointRulesUntracked shows that the condition on
\* epr_keys is needed.)
THEOREM ReconciliationRestores ==
  ASSUME NEW p \in Req
  PROVE  Pass(p) => [](job[p].at = "idle" => CacheIsTable)
<1>1. PassInit(p) => PassOK(p)
  <2> SUFFICES ASSUME PassInit(p) PROVE PassJobOK(job[p])
    BY DEF PassInit, PassOK
  <2> QED BY DEF PassInit, PassJobOK
<1>2. PassOK(p) /\ [PassNext(p)]_vars => PassOK(p)'
  <2> SUFFICES ASSUME PassOK(p), [PassNext(p)]_vars PROVE PassOK(p)'
    OBVIOUS
  <2>1. CASE UNCHANGED vars
    <3>1. rule' = rule /\ cache' = cache /\ job' = job /\ Inv'
      BY <2>1 DEF vars, PassOK, Inv, StateOK, NamesUnique, Exists, JobOK
    <3>2. \A r \in Req \ {p} : Reading(r)'
      BY <3>1, ReadingKept DEF PassOK
    <3>3. PassJobOK(job[p])'
      BY <3>1, SameTable DEF PassOK, PassJobOK, CacheIsTable, Current
    <3> QED BY <3>1, <3>2, <3>3 DEF PassOK
  <2> QED BY <2>1, PassStep
<1>3. PassOK(p) => (job[p].at = "idle" => CacheIsTable)
  BY DEF PassOK, PassJobOK
<1> QED BY <1>1, <1>2, <1>3, PTL DEF Pass
=============================================================================
