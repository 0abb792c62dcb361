--------------------------- MODULE SessionsProofs ---------------------------
(***************************************************************************)
(* Theorems about Sessions, for any users, roles, permissions and any      *)
(* number of requests, failures and expiries.  Whatever interleaves:       *)
(*   - the type invariant,                                                 *)
(*   - sessions and index entries never change hands,                      *)
(*   - a session never holds a permission that no role of its user had,    *)
(*   - an ended session comes back only from a copy that is in flight,     *)
(*   - after the last assignment a refresh heals its session for good,     *)
(*   - every step of a request brings it nearer to its end.                *)
(* None is inductive: late writes put back what a request read earlier, so *)
(* Inv says what every suspended request may carry (JobOK), and            *)
(* LoginsApart that a login writes to no session that a client knows.      *)
(*                                                                         *)
(* One request at a time (alone):                                          *)
(*   - every usable session expires and is in its user's index,            *)
(*   - no session allows more than the roles once assignments are through, *)
(*   - an ended session stays ended.                                       *)
(* The invariant behind these is Calm: what the one request in flight has  *)
(* read is still so (Agrees), an index outlives its sessions (Stored), and *)
(* a session that allows too much is one the request is going to reach     *)
(* (Grants, Pending).                                                      *)
(***************************************************************************)
EXTENDS Sessions, FiniteSetTheorems, TLAPS

\* The codes a set of roles has ever stood for.
EverOf(R) == UNION {everPerms[r] : r \in R}

\* A session value, in Redis or in a request, belongs to the owner of its id
\* and holds only what that user was ever granted.
SessionOK(s, x) ==
    x # None => x.user = owner[s] /\ x.perms \subseteq EverGranted(x.user)

UserIsSet == {"loginSet", "loginAdd", "loginExpire", "refreshFind", "refreshSet",
              "logoutDel", "logoutRem", "deactivateSet", "listGet", "listRem",
              "roleSave", "mGet", "exec"}

\* What a suspended request may carry.
JobOK(j) ==
    /\ \A s \in Sid : SessionOK(s, j.raws[s])
    /\ j.at \in UserIsSet => j.user \in User
    /\ j.at \in {"loginSet", "loginAdd", "refreshFind", "refreshSet", "mGet", "exec"} =>
            \A s \in j.sids : owner[s] = j.user
    /\ j.at \in {"refreshFind", "refreshSet", "deactivateSet"} =>
            \A s \in j.sids : j.raws[s] # None
    /\ j.at \in {"loginSet", "refreshSet"} => j.perms \subseteq EverGranted(j.user)
    /\ j.at = "roleSave" => j.perms \subseteq EverOf(j.roles)
    /\ j.at \in {"sMembers", "mGet", "exec"} =>
            \A u \in j.todo : j.perms \subseteq EverGranted(u)
    /\ j.at \in {"mGet", "exec"} => j.user \in j.todo

JobsOK == \A p \in Req : JobOK(job[p])

\* The histories cover the present.
HistoriesOK ==
    /\ \A u \in User : userRoles[u] \subseteq everRoles[u]
    /\ \A r \in Role : rolePerms[r] \subseteq everPerms[r]

StoreOK ==
    /\ \A s \in Sid : SessionOK(s, session[s])
    /\ \A u \in User : \A s \in index[u] : owner[s] = u

\* The inductive invariant.
Inv == StateOK /\ HistoriesOK /\ StoreOK /\ JobsOK

LEMMA IdleJobOK == IdleJob \in Job /\ JobOK(IdleJob)
  BY DEF IdleJob, Job, NoRaws, At, MaybeSession, JobOK, SessionOK, UserIsSet

\* The job of a propagation carries the users and the codes, and nothing read.
LEMMA PropagationFacts ==
  ASSUME NEW T \in SUBSET User, NEW Q \in SUBSET Perm, NEW k, k = Propagation(T, Q)
  PROVE  /\ k \in Job
         /\ k.at = "sMembers" /\ k.todo = T /\ k.perms = Q /\ k.raws = NoRaws
<1> PICK i : i = IdleJob
  OBVIOUS
<1>1. i \in Job /\ i.raws = NoRaws
  BY IdleJobOK DEF IdleJob
<1>2. k = [i EXCEPT !.at = "sMembers", !.todo = T, !.perms = Q]
  BY DEF Propagation
<1>3. k.at = "sMembers" /\ k.todo = T /\ k.perms = Q /\ k.raws = NoRaws
  BY <1>1, <1>2 DEF Job
<1>4. "sMembers" \in At
  BY DEF At
<1>5. k \in Job
  BY <1>1, <1>2, <1>4 DEF Job
<1> QED BY <1>3, <1>5

LEMMA InvInit == Init => Inv
<1> SUFFICES ASSUME Init PROVE Inv
  OBVIOUS
<1>1. StateOK
  BY IdleJobOK, SessionsConstants DEF Init, StateOK, NoRaws, MaybeSession
<1>2. HistoriesOK
  BY DEF Init, HistoriesOK
<1>3. StoreOK
  BY DEF Init, StoreOK, SessionOK, NoRaws
<1>4. JobsOK
  BY IdleJobOK DEF Init, JobsOK
<1> QED BY <1>1, <1>2, <1>3, <1>4 DEF Inv

-----------------------------------------------------------------------------
(* Histories only grow, and ids keep their owner.                          *)

Grows ==
    /\ \A s \in Sid : owner[s] # None => owner'[s] = owner[s]
    /\ \A u \in User : everRoles[u] \subseteq everRoles'[u]
    /\ \A r \in Role : everPerms[r] \subseteq everPerms'[r]

LEMMA GrantsGrow ==
  ASSUME StateOK, Grows
  PROVE  /\ \A u \in User : EverGranted(u) \subseteq EverGranted(u)'
         /\ \A R \in SUBSET Role : EverOf(R) \subseteq EverOf(R)'
  BY DEF StateOK, Grows, EverGranted, EverOf

\* A well-formed session value stays well formed.
LEMMA SessionStable ==
  ASSUME StateOK, Grows, NEW s \in Sid, NEW x \in MaybeSession, SessionOK(s, x)
  PROVE  SessionOK(s, x)'
<1>1. CASE x = None
  BY <1>1 DEF SessionOK
<1>2. CASE x # None
  <2>1. x \in Session
    BY <1>2 DEF MaybeSession
  <2>2. x.user \in User /\ owner[s] = x.user /\ x.perms \subseteq EverGranted(x.user)
    BY <1>2, <2>1 DEF SessionOK, Session
  <2>3. owner'[s] = x.user
    BY <2>2, SessionsConstants DEF Grows
  <2>4. x.perms \subseteq EverGranted(x.user)'
    BY <2>2, GrantsGrow
  <2> QED BY <2>3, <2>4 DEF SessionOK
<1> QED BY <1>1, <1>2

\* A request that is not scheduled keeps carrying what it may.
LEMMA JobStable ==
  ASSUME StateOK, Grows, NEW j \in Job, JobOK(j)
  PROVE  JobOK(j)'
<1>1. \A s \in Sid : SessionOK(s, j.raws[s])'
  BY SessionStable DEF JobOK, Job
<1>2. ASSUME j.at \in {"loginSet", "loginAdd", "refreshFind", "refreshSet", "mGet", "exec"},
             NEW s \in j.sids
      PROVE  owner'[s] = j.user
  <2>1. owner[s] = j.user /\ j.user \in User /\ s \in Sid
    BY <1>2 DEF JobOK, UserIsSet, Job
  <2> QED BY <2>1, SessionsConstants DEF Grows
<1>3. ASSUME j.at \in {"loginSet", "refreshSet"}
      PROVE  j.perms \subseteq EverGranted(j.user)'
  <2>1. j.user \in User /\ j.perms \subseteq EverGranted(j.user)
    BY <1>3 DEF JobOK, UserIsSet
  <2> QED BY <2>1, GrantsGrow
<1>4. ASSUME j.at = "roleSave"
      PROVE  j.perms \subseteq EverOf(j.roles)'
  <2>1. j.roles \in SUBSET Role /\ j.perms \subseteq EverOf(j.roles)
    BY <1>4 DEF JobOK, Job
  <2> QED BY <2>1, GrantsGrow
<1>5. ASSUME j.at \in {"sMembers", "mGet", "exec"}, NEW u \in j.todo
      PROVE  j.perms \subseteq EverGranted(u)'
  <2>1. u \in User /\ j.perms \subseteq EverGranted(u)
    BY <1>5 DEF JobOK, Job
  <2> QED BY <2>1, GrantsGrow
<1> QED BY <1>1, <1>2, <1>3, <1>4, <1>5 DEF JobOK

\* The requests after one of them went on with job j.
LEMMA JobsAfter ==
  ASSUME Inv, Grows, NEW p \in Req, NEW j \in Job, Goto(p, j), JobOK(j)'
  PROVE  job' \in [Req -> Job] /\ JobsOK'
<1>1. job \in [Req -> Job] /\ StateOK
  BY DEF Inv, StateOK
<1>2. job' \in [Req -> Job]
  BY <1>1 DEF Goto
<1>3. ASSUME NEW q \in Req PROVE JobOK(job[q])'
  <2>1. CASE q = p
    <3>1. job'[q] = j
      BY <1>1, <2>1 DEF Goto
    <3> QED BY <3>1 DEF JobOK, SessionOK, EverGranted, EverOf
  <2>2. CASE q # p
    <3>1. job'[q] = job[q] /\ job[q] \in Job /\ JobOK(job[q])
      BY <1>1, <2>2 DEF Goto, Inv, JobsOK
    <3> DEFINE k == job[q]
    <3>2. k \in Job /\ JobOK(k)
      BY <3>1
    <3>3. JobOK(job[q])'
      BY <1>1, <3>1, <3>2, JobStable DEF JobOK, SessionOK, EverGranted, EverOf
    <3> QED BY <3>3
  <2> QED BY <2>1, <2>2
<1> QED BY <1>2, <1>3 DEF JobsOK

-----------------------------------------------------------------------------
(* Steps that only read, or only change the counters.                      *)

LEMMA ReadOnlyStep ==
  ASSUME Inv, NEW p \in Req, NEW j \in Job, JobOK(j), Goto(p, j),
         UNCHANGED <<userRoles, rolePerms, everRoles, everPerms, session, ttl,
                     index, indexTtl, owner, issued>>,
         edits' \in 0..MaxEdits, faults' \in 0..MaxFaults
  PROVE  Inv'
<1>1. Grows
  BY DEF Grows
<1>2. JobOK(j)'
  BY DEF JobOK, SessionOK, EverGranted, EverOf
<1>3. job' \in [Req -> Job] /\ JobsOK'
  BY <1>1, <1>2, JobsAfter
<1>4. StateOK'
  BY <1>3 DEF Inv, StateOK
<1>5. HistoriesOK' /\ StoreOK'
  BY DEF Inv, HistoriesOK, StoreOK, SessionOK, EverGranted
<1> QED BY <1>3, <1>4, <1>5 DEF Inv

\* The permissions a request loads for a user are among those ever granted.
LEMMA CodesGranted ==
  ASSUME Inv
  PROVE  /\ \A u \in User : permissionCodes(u) \subseteq EverGranted(u)
         /\ \A u \in User : permissionCodes(u) \in SUBSET Perm
         /\ \A R \in SUBSET Role : UNION {rolePerms[r] : r \in R} \subseteq EverOf(R)
         /\ \A R \in SUBSET Role : UNION {rolePerms[r] : r \in R} \in SUBSET Perm
  BY DEF Inv, StateOK, HistoriesOK, permissionCodes, EverGranted, EverOf

\* A live session as a request reads it.
LEMMA LiveSession ==
  ASSUME Inv, NEW s \in Sid, Live(s)
  PROVE  /\ session[s] \in Session
         /\ session[s].user \in User
         /\ session[s].user = owner[s]
         /\ session[s].perms \subseteq EverGranted(session[s].user)
  BY DEF Inv, StateOK, MaybeSession, Session, Live, StoreOK, SessionOK

\* A request that starts by reading one live session.
LEMMA ReadSession ==
  ASSUME Inv, NEW p \in Req, NEW s \in Sid, Live(s),
         NEW at \in {"refreshFind", "deactivateSet"},
         Goto(p, [IdleJob EXCEPT !.at = at, !.user = session[s].user,
                    !.sids = {s}, !.raws = [NoRaws EXCEPT ![s] = session[s]]]),
         UNCHANGED <<db, redis, clients, faults>>
  PROVE  Inv'
<1> DEFINE j == [IdleJob EXCEPT !.at = at, !.user = session[s].user,
                    !.sids = {s}, !.raws = [NoRaws EXCEPT ![s] = session[s]]]
<1>1. session[s] \in Session /\ session[s].user \in User /\ session[s].user = owner[s]
      /\ session[s].perms \subseteq EverGranted(session[s].user)
  BY LiveSession
<1> DEFINE rw == [NoRaws EXCEPT ![s] = session[s]]
<1>2. /\ rw \in [Sid -> MaybeSession]
      /\ rw[s] = session[s] /\ session[s] # None
      /\ \A x \in Sid : SessionOK(x, rw[x])
  BY <1>1 DEF NoRaws, MaybeSession, SessionOK, Live
<1> HIDE DEF rw
<1>3. j \in Job
  BY <1>1, <1>2 DEF rw, IdleJob, Job, At
<1>4. JobOK(j)
  <2>1. /\ j.at = at /\ j.user = session[s].user
        /\ j.sids = {s} /\ j.raws = rw
    BY DEF IdleJob, rw
  <2> QED BY <1>1, <1>2, <2>1 DEF JobOK, UserIsSet
<1>5. edits' \in 0..MaxEdits /\ faults' \in 0..MaxFaults
  BY DEF Inv, StateOK, db
<1> HIDE DEF j
<1>6. Goto(p, j)
  BY DEF j
<1> QED BY <1>3, <1>4, <1>5, <1>6, ReadOnlyStep DEF db, redis, clients

LEMMA StartInv ==
  ASSUME Inv, NEW p \in Req,
         Refresh(p) \/ LogOut(p) \/ Deactivate(p) \/ List(p) \/ AssignRole(p)
            \/ AssignPermissions(p)
  PROVE  Inv'
<1>1. CASE Refresh(p)
  <2>1. PICK s \in issued :
          /\ Live(s)
          /\ Goto(p, [IdleJob EXCEPT !.at = "refreshFind", !.user = session[s].user,
                    !.sids = {s}, !.raws = [NoRaws EXCEPT ![s] = session[s]]])
    BY <1>1 DEF Refresh
  <2>2. s \in Sid
    BY DEF Inv, StateOK
  <2> QED BY <1>1, <2>1, <2>2, ReadSession DEF Refresh
<1>2. CASE Deactivate(p)
  <2>1. PICK s \in Sid :
          /\ Live(s)
          /\ Goto(p, [IdleJob EXCEPT !.at = "deactivateSet", !.user = session[s].user,
                    !.sids = {s}, !.raws = [NoRaws EXCEPT ![s] = session[s]]])
    BY <1>2 DEF Deactivate
  <2> QED BY <1>2, <2>1, ReadSession DEF Deactivate
<1>3. CASE LogOut(p)
  <2>1. PICK s \in issued :
          /\ Live(s)
          /\ Goto(p, [IdleJob EXCEPT !.at = "logoutDel", !.user = session[s].user, !.sids = {s}])
    BY <1>3 DEF LogOut
  <2> DEFINE j == [IdleJob EXCEPT !.at = "logoutDel", !.user = session[s].user, !.sids = {s}]
  <2>2. s \in Sid
    BY DEF Inv, StateOK
  <2>3. session[s].user \in User
    BY <2>1, <2>2, LiveSession
  <2>4. j \in Job /\ JobOK(j)
    BY <2>2, <2>3, IdleJobOK DEF IdleJob, Job, At, JobOK, SessionOK, NoRaws, UserIsSet
  <2>5. edits' \in 0..MaxEdits /\ faults' \in 0..MaxFaults
    BY <1>3 DEF LogOut, Inv, StateOK, db
  <2> HIDE DEF j
  <2>6. Goto(p, j)
    BY <2>1 DEF j
  <2> QED BY <1>3, <2>4, <2>5, <2>6, ReadOnlyStep DEF LogOut, db, redis, clients
<1>4. CASE List(p)
  <2>1. PICK u \in User :
          Goto(p, [IdleJob EXCEPT !.at = "listGet", !.user = u, !.sids = index[u]])
    BY <1>4 DEF List
  <2> DEFINE j == [IdleJob EXCEPT !.at = "listGet", !.user = u, !.sids = index[u]]
  <2>2. index[u] \in SUBSET Sid
    BY DEF Inv, StateOK
  <2>4. j \in Job /\ JobOK(j)
    BY <2>2, IdleJobOK DEF IdleJob, Job, At, JobOK, SessionOK, NoRaws, UserIsSet
  <2>5. edits' \in 0..MaxEdits /\ faults' \in 0..MaxFaults
    BY <1>4 DEF List, Inv, StateOK, db
  <2> HIDE DEF j
  <2>6. Goto(p, j)
    BY <2>1 DEF j
  <2> QED BY <1>4, <2>4, <2>5, <2>6, ReadOnlyStep DEF List, db, redis, clients
<1>5. CASE AssignRole(p)
  <2>1. PICK u \in User, R \in SUBSET Role :
          Goto(p, [IdleJob EXCEPT !.at = "roleSave", !.user = u, !.roles = R,
                    !.perms = UNION {rolePerms[r] : r \in R}])
    BY <1>5 DEF AssignRole
  <2> DEFINE Q == UNION {rolePerms[r] : r \in R}
             j == [IdleJob EXCEPT !.at = "roleSave", !.user = u, !.roles = R, !.perms = Q]
  <2>2. Q \in SUBSET Perm /\ Q \subseteq EverOf(R)
    BY CodesGranted
  <2> HIDE DEF Q
  <2>4. j \in Job /\ JobOK(j)
    BY <2>2, IdleJobOK DEF IdleJob, Job, At, JobOK, SessionOK, NoRaws, UserIsSet
  <2>5. edits' \in 0..MaxEdits /\ faults' \in 0..MaxFaults
    <3>1. edits \in 0..MaxEdits /\ edits < MaxEdits /\ edits' = edits + 1 /\ faults' = faults
      BY <1>5 DEF AssignRole, Edit, Inv, StateOK
    <3> QED BY <3>1, SessionsConstants DEF Inv, StateOK
  <2> HIDE DEF j
  <2>6. Goto(p, j)
    BY <2>1 DEF j, Q
  <2> QED BY <1>5, <2>4, <2>5, <2>6, ReadOnlyStep DEF AssignRole, redis, clients
<1>6. CASE AssignPermissions(p)
  <2>1. PICK r \in Role, Q \in SUBSET Perm :
          Goto(p, [IdleJob EXCEPT !.at = "permsSave", !.roles = {r}, !.perms = Q])
    BY <1>6 DEF AssignPermissions
  <2> DEFINE j == [IdleJob EXCEPT !.at = "permsSave", !.roles = {r}, !.perms = Q]
  <2>4. j \in Job /\ JobOK(j)
    BY IdleJobOK DEF IdleJob, Job, At, JobOK, SessionOK, NoRaws, UserIsSet
  <2>5. edits' \in 0..MaxEdits /\ faults' \in 0..MaxFaults
    <3>1. edits \in 0..MaxEdits /\ edits < MaxEdits /\ edits' = edits + 1 /\ faults' = faults
      BY <1>6 DEF AssignPermissions, Edit, Inv, StateOK
    <3> QED BY <3>1, SessionsConstants DEF Inv, StateOK
  <2> HIDE DEF j
  <2>6. Goto(p, j)
    BY <2>1 DEF j
  <2> QED BY <1>6, <2>4, <2>5, <2>6, ReadOnlyStep DEF AssignPermissions, redis, clients
<1> QED BY <1>1, <1>2, <1>3, <1>4, <1>5, <1>6

LEMMA ReadStepInv ==
  ASSUME Inv, NEW p \in Req,
         RefreshFind(p) \/ ListGet(p) \/ FindByRole(p) \/ RefreshMembers(p)
            \/ RefreshGet(p) \/ Fail(p)
  PROVE  Inv'
<1>0. /\ job[p] \in Job /\ JobOK(job[p]) /\ StateOK
      /\ edits \in 0..MaxEdits /\ faults \in 0..MaxFaults
  BY DEF Inv, StateOK, JobsOK
<1>1. CASE RefreshFind(p)
  <2> DEFINE j == [job[p] EXCEPT !.at = "refreshSet", !.perms = permissionCodes(job[p].user)]
  <2>1. job[p].at = "refreshFind" /\ job[p].user \in User
    BY <1>0, <1>1 DEF RefreshFind, JobOK, UserIsSet
  <2>2. permissionCodes(job[p].user) \in SUBSET Perm
        /\ permissionCodes(job[p].user) \subseteq EverGranted(job[p].user)
    BY <2>1, CodesGranted
  <2>3. j \in Job
    BY <1>0, <2>2 DEF Job, At
  <2>4. JobOK(j)
    <3>1. /\ j.at = "refreshSet" /\ j.user = job[p].user /\ j.sids = job[p].sids
          /\ j.raws = job[p].raws /\ j.perms = permissionCodes(job[p].user)
      BY <1>0 DEF Job
    <3> QED BY <1>0, <2>1, <2>2, <3>1 DEF JobOK
  <2> HIDE DEF j
  <2>5. Goto(p, j) /\ UNCHANGED <<db, redis, clients, faults>>
    BY <1>1 DEF RefreshFind, j
  <2> QED BY <1>0, <2>3, <2>4, <2>5, ReadOnlyStep DEF db, redis, clients
<1>2. CASE ListGet(p)
  <2> DEFINE gone == {s \in job[p].sids : ~Live(s)}
             j == IF gone = {} THEN IdleJob
                  ELSE [job[p] EXCEPT !.at = "listRem", !.sids = gone]
  <2>1. job[p].at = "listGet" /\ job[p].user \in User
    BY <1>0, <1>2 DEF ListGet, JobOK, UserIsSet
  <2>2. gone \in SUBSET Sid
    BY <1>0 DEF Job
  <2> HIDE DEF gone
  <2>3. j \in Job
    BY <1>0, <2>2, IdleJobOK DEF Job, At
  <2>4. JobOK(j)
    <3>1. CASE gone = {}
      BY <3>1, IdleJobOK
    <3>2. CASE gone # {}
      <4>1. j.at = "listRem" /\ j.user = job[p].user /\ j.raws = job[p].raws
        BY <1>0, <3>2 DEF Job
      <4> QED BY <1>0, <2>1, <4>1 DEF JobOK
    <3> QED BY <3>1, <3>2
  <2> HIDE DEF j
  <2>5. Goto(p, j) /\ UNCHANGED <<db, redis, clients, faults>>
    BY <1>2 DEF ListGet, j, gone
  <2> QED BY <1>0, <2>3, <2>4, <2>5, ReadOnlyStep DEF db, redis, clients
<1>3. CASE FindByRole(p)
  <2> DEFINE R == job[p].roles
             Q == UNION {rolePerms[r] : r \in R}
             found == {u \in User : R \subseteq userRoles[u]}
             k == Propagation(found, Q)
             j == IF found = {} THEN IdleJob ELSE k
  <2>1. R \in SUBSET Role
    BY <1>0 DEF Job
  <2>2. Q \in SUBSET Perm /\ Q \subseteq EverOf(R)
    BY <2>1, CodesGranted
  <2>3. \A u \in found : Q \subseteq EverGranted(u)
    BY <2>1, <2>2 DEF Inv, StateOK, HistoriesOK, EverOf, EverGranted
  <2>4. found \in SUBSET User
    OBVIOUS
  <2> HIDE DEF Q, found
  <2>5. k \in Job /\ JobOK(k)
    BY <2>2, <2>3, <2>4, IdleJobOK
       DEF Propagation, IdleJob, Job, At, JobOK, SessionOK, NoRaws, UserIsSet
  <2>6. j \in Job /\ JobOK(j)
    BY <2>5, IdleJobOK
  <2> HIDE DEF j, k
  <2>7. Goto(p, j) /\ UNCHANGED <<db, redis, clients, faults>>
    BY <1>3 DEF FindByRole, j, k, Q, found
  <2> QED BY <1>0, <2>6, <2>7, ReadOnlyStep DEF db, redis, clients
<1>4. CASE RefreshMembers(p)
  <2>1. PICK u \in job[p].todo :
          /\ job[p].at = "sMembers"
          /\ Goto(p, IF index[u] = {} THEN NextUser(p, u)
                     ELSE [job[p] EXCEPT !.at = "mGet", !.user = u, !.sids = index[u]])
    BY <1>4 DEF RefreshMembers
  <2> DEFINE k == [job[p] EXCEPT !.at = "mGet", !.user = u, !.sids = index[u]]
             j == IF index[u] = {} THEN NextUser(p, u) ELSE k
  <2>2. u \in User
    BY <1>0 DEF Job
  <2>3. index[u] \in SUBSET Sid /\ \A s \in index[u] : owner[s] = u
    BY <2>2 DEF Inv, StateOK, StoreOK
  <2>4. k \in Job
    BY <1>0, <2>2, <2>3 DEF Job, At
  <2>5. JobOK(k)
    <3>1. /\ k.at = "mGet" /\ k.user = u /\ k.sids = index[u]
          /\ k.raws = job[p].raws /\ k.todo = job[p].todo /\ k.perms = job[p].perms
      BY <1>0 DEF Job
    <3> QED BY <1>0, <2>1, <2>2, <2>3, <3>1 DEF JobOK
  <2>6. NextUser(p, u) \in Job /\ JobOK(NextUser(p, u))
    BY <1>0, <2>1, IdleJobOK
       DEF NextUser, Propagation, IdleJob, Job, At, JobOK, SessionOK, NoRaws, UserIsSet
  <2>7. j \in Job /\ JobOK(j)
    BY <2>4, <2>5, <2>6
  <2> HIDE DEF j, k
  <2>8. Goto(p, j) /\ UNCHANGED <<db, redis, clients, faults>>
    BY <1>4, <2>1 DEF RefreshMembers, j, k
  <2> QED BY <1>0, <2>7, <2>8, ReadOnlyStep DEF db, redis, clients
<1>5. CASE RefreshGet(p)
  <2> DEFINE rw == [s \in Sid |-> IF s \in job[p].sids THEN session[s] ELSE None]
             j == [job[p] EXCEPT !.at = "exec", !.raws = rw]
  <2>1. job[p].at = "mGet"
    BY <1>5 DEF RefreshGet
  <2>2. rw \in [Sid -> MaybeSession] /\ \A s \in Sid : SessionOK(s, rw[s])
    BY DEF Inv, StateOK, MaybeSession, StoreOK, SessionOK
  <2> HIDE DEF rw
  <2>3. j \in Job
    BY <1>0, <2>2 DEF Job, At
  <2>4. JobOK(j)
    <3>1. /\ j.at = "exec" /\ j.user = job[p].user /\ j.sids = job[p].sids
          /\ j.raws = rw /\ j.todo = job[p].todo /\ j.perms = job[p].perms
      BY <1>0 DEF Job
    <3> QED BY <1>0, <2>1, <2>2, <3>1 DEF JobOK, UserIsSet
  <2> HIDE DEF j
  <2>5. Goto(p, j) /\ UNCHANGED <<db, redis, clients, faults>>
    BY <1>5 DEF RefreshGet, j, rw
  <2> QED BY <1>0, <2>3, <2>4, <2>5, ReadOnlyStep DEF db, redis, clients
<1>6. CASE Fail(p)
  <2>1. Goto(p, IdleJob) /\ UNCHANGED <<db, redis, clients>>
    BY <1>6 DEF Fail, Done
  <2>2. faults' \in 0..MaxFaults
    BY <1>0, <1>6, SessionsConstants DEF Fail
  <2> QED BY <1>0, <2>1, <2>2, IdleJobOK, ReadOnlyStep DEF db, redis, clients
<1> QED BY <1>1, <1>2, <1>3, <1>4, <1>5, <1>6

-----------------------------------------------------------------------------
(* Steps that write to Redis.                                              *)

LEMMA StoreStep ==
  ASSUME Inv, NEW p \in Req, NEW j \in Job, JobOK(j), Goto(p, j),
         UNCHANGED <<userRoles, rolePerms, everRoles, everPerms, owner, edits, faults>>,
         issued' \subseteq Sid,
         session' \in [Sid -> MaybeSession], ttl' \in [Sid -> 0..SessionTtl],
         index' \in [User -> SUBSET Sid], indexTtl' \in [User -> 0..SessionTtl],
         \A s \in Sid : SessionOK(s, session'[s]),
         \A u \in User : \A s \in index'[u] : owner[s] = u
  PROVE  Inv'
<1>1. Grows
  BY DEF Grows
<1>2. JobOK(j)'
  BY DEF JobOK, SessionOK, EverGranted, EverOf
<1>3. job' \in [Req -> Job] /\ JobsOK'
  BY <1>1, <1>2, JobsAfter
<1>4. StateOK'
  BY <1>3 DEF Inv, StateOK
<1>5. HistoriesOK' /\ StoreOK'
  BY DEF Inv, HistoriesOK, StoreOK, SessionOK, EverGranted
<1> QED BY <1>3, <1>4, <1>5 DEF Inv

\* What a command leaves alone is still well formed.
LEMMA StoreFacts ==
  ASSUME Inv
  PROVE  /\ session \in [Sid -> MaybeSession] /\ ttl \in [Sid -> 0..SessionTtl]
         /\ index \in [User -> SUBSET Sid] /\ indexTtl \in [User -> 0..SessionTtl]
         /\ issued \subseteq Sid
         /\ \A s \in Sid : SessionOK(s, session[s])
         /\ \A u \in User : \A s \in index[u] : owner[s] = u
         /\ 0 \in 0..SessionTtl /\ SessionTtl \in 0..SessionTtl
         /\ \A p \in Req : job[p] \in Job /\ JobOK(job[p])
  BY SessionsConstants DEF Inv, StateOK, StoreOK, JobsOK

\* SREM keeps the index well formed.
LEMMA SRemFacts ==
  ASSUME Inv, NEW u \in User, NEW S \in SUBSET Sid, sRem(u, S)
  PROVE  /\ index' \in [User -> SUBSET Sid] /\ indexTtl' \in [User -> 0..SessionTtl]
         /\ \A v \in User : \A s \in index'[v] : owner[s] = v
<1>1. index' \in [User -> SUBSET Sid] /\ indexTtl' \in [User -> 0..SessionTtl]
  BY StoreFacts DEF sRem
<1>2. \A v \in User : index'[v] \subseteq index[v]
  BY StoreFacts DEF sRem
<1> QED BY <1>1, <1>2, StoreFacts

\* SET KEEPTTL of well-formed values keeps the sessions well formed.
LEMMA SetFacts ==
  ASSUME Inv, NEW f, DOMAIN f \subseteq Sid, SetKeepTtl(f),
         \A s \in DOMAIN f : f[s] \in MaybeSession /\ SessionOK(s, f[s])
  PROVE  /\ session' \in [Sid -> MaybeSession] /\ ttl' \in [Sid -> 0..SessionTtl]
         /\ \A s \in Sid : SessionOK(s, session'[s])
<1>1. session' = [s \in Sid |-> IF s \in DOMAIN f THEN f[s] ELSE session[s]] /\ ttl' = ttl
  BY DEF SetKeepTtl
<1> QED BY <1>1, StoreFacts

LEMMA LogInStepInv ==
  ASSUME Inv, NEW p \in Req, LogInSet(p) \/ LogInAdd(p) \/ LogInExpire(p)
  PROVE  Inv'
<1>0. job[p] \in Job /\ JobOK(job[p])
  BY StoreFacts
<1>1. CASE LogInSet(p)
  <2> DEFINE x == [user |-> job[p].user, perms |-> job[p].perms, active |-> TRUE]
             j == [job[p] EXCEPT !.at = "loginAdd"]
  <2>1. /\ job[p].at = "loginSet" /\ job[p].user \in User /\ job[p].perms \in SUBSET Perm
        /\ \A s \in job[p].sids : owner[s] = job[p].user
        /\ job[p].perms \subseteq EverGranted(job[p].user)
    BY <1>0, <1>1 DEF LogInSet, JobOK, UserIsSet, Job
  <2>2. x \in MaybeSession /\ \A s \in job[p].sids : SessionOK(s, x)
    BY <2>1 DEF MaybeSession, Session, SessionOK
  <2>3. /\ session' = [s \in Sid |-> IF s \in job[p].sids THEN x ELSE session[s]]
        /\ ttl' = [s \in Sid |-> IF s \in job[p].sids THEN SessionTtl ELSE ttl[s]]
    BY <1>1 DEF LogInSet
  <2> HIDE DEF x
  <2>4. session' \in [Sid -> MaybeSession] /\ ttl' \in [Sid -> 0..SessionTtl]
        /\ \A s \in Sid : SessionOK(s, session'[s])
    BY <2>2, <2>3, StoreFacts
  <2>5. j \in Job
    BY <1>0 DEF Job, At
  <2>6. JobOK(j)
    <3>1. j.at = "loginAdd" /\ j.user = job[p].user /\ j.sids = job[p].sids /\ j.raws = job[p].raws
      BY <1>0 DEF Job
    <3> QED BY <1>0, <2>1, <3>1 DEF JobOK
  <2>7. Goto(p, j)
    BY <1>0, <1>1 DEF LogInSet, Advance, Goto, Inv, StateOK
  <2> HIDE DEF j
  <2> QED BY <1>1, <2>4, <2>5, <2>6, <2>7, StoreFacts, StoreStep DEF LogInSet, db, clients
<1>2. CASE LogInAdd(p)
  <2> DEFINE j == [job[p] EXCEPT !.at = "loginExpire"]
  <2>1. /\ job[p].at = "loginAdd" /\ job[p].user \in User /\ job[p].sids \in SUBSET Sid
        /\ \A s \in job[p].sids : owner[s] = job[p].user
    BY <1>0, <1>2 DEF LogInAdd, JobOK, UserIsSet, Job
  <2>2. index' = [index EXCEPT ![job[p].user] = @ \union job[p].sids]
    BY <1>2 DEF LogInAdd
  <2>3. index' \in [User -> SUBSET Sid] /\ \A u \in User : \A s \in index'[u] : owner[s] = u
    BY <2>1, <2>2, StoreFacts
  <2>5. j \in Job
    BY <1>0 DEF Job, At
  <2>6. JobOK(j)
    <3>1. j.at = "loginExpire" /\ j.user = job[p].user /\ j.raws = job[p].raws
      BY <1>0 DEF Job
    <3> QED BY <1>0, <2>1, <3>1 DEF JobOK
  <2>7. Goto(p, j)
    BY <1>0, <1>2 DEF LogInAdd, Advance, Goto, Inv, StateOK
  <2> HIDE DEF j
  <2> QED BY <1>2, <2>3, <2>5, <2>6, <2>7, StoreFacts, StoreStep DEF LogInAdd, db, clients
<1>3. CASE LogInExpire(p)
  <2>1. job[p].sids \in SUBSET Sid
    BY <1>0 DEF Job
  <2>2. issued' \subseteq Sid
    BY <1>3, <2>1, StoreFacts DEF LogInExpire
  <2>3. indexTtl' \in [User -> 0..SessionTtl]
    BY <1>3, StoreFacts DEF LogInExpire
  <2> QED BY <1>3, <2>2, <2>3, StoreFacts, StoreStep, IdleJobOK DEF LogInExpire, Done, db
<1> QED BY <1>1, <1>2, <1>3

LEMMA LogOutStepInv ==
  ASSUME Inv, NEW p \in Req, LogOutDel(p) \/ LogOutRem(p) \/ ListRem(p)
  PROVE  Inv'
<1>0. job[p] \in Job /\ JobOK(job[p]) /\ job[p].sids \in SUBSET Sid
  BY StoreFacts DEF Job
<1>1. CASE LogOutDel(p)
  <2> DEFINE j == [job[p] EXCEPT !.at = "logoutRem"]
  <2>1. job[p].at = "logoutDel" /\ job[p].user \in User
    BY <1>0, <1>1 DEF LogOutDel, JobOK, UserIsSet
  <2>2. /\ session' = [s \in Sid |-> IF s \in job[p].sids THEN None ELSE session[s]]
        /\ ttl' = [s \in Sid |-> IF s \in job[p].sids THEN 0 ELSE ttl[s]]
    BY <1>1 DEF LogOutDel
  <2>3. session' \in [Sid -> MaybeSession] /\ ttl' \in [Sid -> 0..SessionTtl]
        /\ \A s \in Sid : SessionOK(s, session'[s])
    BY <2>2, StoreFacts DEF MaybeSession, SessionOK
  <2>5. j \in Job
    BY <1>0 DEF Job, At
  <2>6. JobOK(j)
    <3>1. j.at = "logoutRem" /\ j.user = job[p].user /\ j.raws = job[p].raws
      BY <1>0 DEF Job
    <3> QED BY <1>0, <2>1, <3>1 DEF JobOK
  <2>7. Goto(p, j)
    BY <1>0, <1>1 DEF LogOutDel, Advance, Goto, Inv, StateOK
  <2> HIDE DEF j
  <2> QED BY <1>1, <2>3, <2>5, <2>6, <2>7, StoreFacts, StoreStep DEF LogOutDel, db, clients
<1>2. CASE LogOutRem(p)
  <2>1. job[p].user \in User /\ sRem(job[p].user, job[p].sids)
    BY <1>0, <1>2 DEF LogOutRem, JobOK, UserIsSet
  <2>2. index' \in [User -> SUBSET Sid] /\ indexTtl' \in [User -> 0..SessionTtl]
        /\ \A v \in User : \A s \in index'[v] : owner[s] = v
    BY <1>0, <2>1, SRemFacts
  <2> QED BY <1>2, <2>2, StoreFacts, StoreStep, IdleJobOK DEF LogOutRem, Done, db, clients
<1>3. CASE ListRem(p)
  <2>1. PICK s \in job[p].sids :
          /\ sRem(job[p].user, {s})
          /\ Goto(p, IF job[p].sids = {s} THEN IdleJob ELSE [job[p] EXCEPT !.sids = @ \ {s}])
    BY <1>3 DEF ListRem
  <2> DEFINE k == [job[p] EXCEPT !.sids = @ \ {s}]
             j == IF job[p].sids = {s} THEN IdleJob ELSE k
  <2>2. job[p].at = "listRem" /\ job[p].user \in User
    BY <1>0, <1>3 DEF ListRem, JobOK, UserIsSet
  <2>3. index' \in [User -> SUBSET Sid] /\ indexTtl' \in [User -> 0..SessionTtl]
        /\ \A v \in User : \A x \in index'[v] : owner[x] = v
    BY <1>0, <2>1, <2>2, SRemFacts
  <2>4. k \in Job
    BY <1>0 DEF Job
  <2>5. JobOK(k)
    <3>1. k.at = "listRem" /\ k.user = job[p].user /\ k.raws = job[p].raws
      BY <1>0, <2>2 DEF Job
    <3> QED BY <1>0, <2>2, <3>1 DEF JobOK
  <2>6. j \in Job /\ JobOK(j)
    BY <2>4, <2>5, IdleJobOK
  <2> HIDE DEF j, k
  <2>7. Goto(p, j)
    BY <2>1 DEF j, k
  <2> QED BY <1>3, <2>3, <2>6, <2>7, StoreFacts, StoreStep DEF ListRem, db, clients
<1> QED BY <1>1, <1>2, <1>3

\* The late writes: refreshToken, deactivateSession and the propagation put
\* back a session they read, with other permissions or deactivated.
LEMMA WriteBackInv ==
  ASSUME Inv, NEW p \in Req, RefreshSet(p) \/ DeactivateSet(p) \/ RefreshExec(p)
  PROVE  Inv'
<1>0. /\ job[p] \in Job /\ JobOK(job[p]) /\ job[p].sids \in SUBSET Sid
      /\ job[p].perms \in SUBSET Perm
  BY StoreFacts DEF Job
<1>1. \A s \in Sid : job[p].raws[s] # None =>
        /\ job[p].raws[s] \in Session
        /\ job[p].raws[s].user = owner[s]
        /\ job[p].raws[s].perms \subseteq EverGranted(job[p].raws[s].user)
  BY <1>0 DEF Job, MaybeSession, JobOK, SessionOK
<1>2. CASE RefreshSet(p)
  <2> DEFINE f == [s \in job[p].sids |-> [job[p].raws[s] EXCEPT !.perms = job[p].perms]]
  <2>1. /\ job[p].at = "refreshSet" /\ job[p].user \in User
        /\ job[p].perms \subseteq EverGranted(job[p].user)
        /\ \A s \in job[p].sids : owner[s] = job[p].user /\ job[p].raws[s] # None
    BY <1>0, <1>2 DEF RefreshSet, JobOK, UserIsSet
  <2>2. \A s \in job[p].sids : f[s] \in MaybeSession /\ SessionOK(s, f[s])
    BY <1>0, <1>1, <2>1 DEF MaybeSession, Session, SessionOK
  <2>3. DOMAIN f = job[p].sids
    OBVIOUS
  <2> HIDE DEF f
  <2>4. SetKeepTtl(f)
    BY <1>2 DEF RefreshSet, f
  <2>5. session' \in [Sid -> MaybeSession] /\ ttl' \in [Sid -> 0..SessionTtl]
        /\ \A s \in Sid : SessionOK(s, session'[s])
    BY <1>0, <2>2, <2>3, <2>4, SetFacts
  <2> QED BY <1>2, <2>5, StoreFacts, StoreStep, IdleJobOK DEF RefreshSet, Done, db, clients
<1>3. CASE DeactivateSet(p)
  <2> DEFINE f == [s \in job[p].sids |-> [job[p].raws[s] EXCEPT !.active = FALSE]]
  <2>1. \A s \in job[p].sids : job[p].raws[s] # None
    BY <1>0, <1>3 DEF DeactivateSet, JobOK
  <2>2. \A s \in job[p].sids : f[s] \in MaybeSession /\ SessionOK(s, f[s])
    BY <1>0, <1>1, <2>1 DEF MaybeSession, Session, SessionOK
  <2>3. DOMAIN f = job[p].sids
    OBVIOUS
  <2> HIDE DEF f
  <2>4. SetKeepTtl(f)
    BY <1>3 DEF DeactivateSet, f
  <2>5. session' \in [Sid -> MaybeSession] /\ ttl' \in [Sid -> 0..SessionTtl]
        /\ \A s \in Sid : SessionOK(s, session'[s])
    BY <1>0, <2>2, <2>3, <2>4, SetFacts
  <2> QED BY <1>3, <2>5, StoreFacts, StoreStep, IdleJobOK DEF DeactivateSet, Done, db, clients
<1>4. CASE RefreshExec(p)
  <2> DEFINE seen == {s \in job[p].sids : job[p].raws[s] # None}
             f == [s \in seen |-> [job[p].raws[s] EXCEPT !.perms = job[p].perms]]
             j == NextUser(p, job[p].user)
  <2>1. /\ job[p].at = "exec" /\ job[p].user \in User /\ job[p].user \in job[p].todo
        /\ job[p].perms \subseteq EverGranted(job[p].user)
        /\ \A s \in job[p].sids : owner[s] = job[p].user
    BY <1>0, <1>4 DEF RefreshExec, JobOK, UserIsSet
  <2>2. \A s \in seen : f[s] \in MaybeSession /\ SessionOK(s, f[s])
    BY <1>0, <1>1, <2>1 DEF MaybeSession, Session, SessionOK
  <2>3. DOMAIN f = seen /\ seen \subseteq Sid /\ job[p].sids \ seen \in SUBSET Sid
    BY <1>0
  <2> HIDE DEF f, seen
  <2>4. SetKeepTtl(f) /\ sRem(job[p].user, job[p].sids \ seen)
    BY <1>4 DEF RefreshExec, f, seen
  <2>5. session' \in [Sid -> MaybeSession] /\ ttl' \in [Sid -> 0..SessionTtl]
        /\ \A s \in Sid : SessionOK(s, session'[s])
    BY <2>2, <2>3, <2>4, SetFacts
  <2>6. index' \in [User -> SUBSET Sid] /\ indexTtl' \in [User -> 0..SessionTtl]
        /\ \A v \in User : \A s \in index'[v] : owner[s] = v
    BY <2>1, <2>3, <2>4, SRemFacts
  <2>7. j \in Job /\ JobOK(j)
    <3>1. CASE job[p].todo = {job[p].user}
      BY <3>1, IdleJobOK DEF NextUser
    <3>2. CASE job[p].todo # {job[p].user}
      <4> PICK k, T, Q : k = j /\ T = job[p].todo \ {job[p].user} /\ Q = job[p].perms
        OBVIOUS
      <4>1. k = Propagation(T, Q)
        BY <3>2 DEF NextUser
      <4>2. T \subseteq User /\ Q \subseteq Perm /\ \A v \in T : Q \subseteq EverGranted(v)
        BY <1>0, <2>1 DEF Job, JobOK
      <4>3. k \in Job /\ k.at = "sMembers" /\ k.todo = T /\ k.perms = Q /\ k.raws = NoRaws
        BY <4>1, <4>2, PropagationFacts
      <4>4. JobOK(k)
        BY <4>2, <4>3 DEF JobOK, SessionOK, NoRaws, UserIsSet
      <4> QED BY <4>3, <4>4
    <3> QED BY <3>1, <3>2
  <2> HIDE DEF j
  <2>8. Goto(p, j)
    BY <1>4 DEF RefreshExec, j
  <2> QED BY <1>4, <2>5, <2>6, <2>7, <2>8, StoreFacts, StoreStep DEF RefreshExec, db, clients
<1> QED BY <1>2, <1>3, <1>4

-----------------------------------------------------------------------------
(* Steps that make a history grow: a login draws a session id, a save puts  *)
(* new roles or permissions into the database.                              *)

LEMMA GrowStep ==
  ASSUME Inv, Grows, NEW p \in Req, NEW j \in Job, JobOK(j)', Goto(p, j), HistoriesOK',
         userRoles' \in [User -> SUBSET Role], rolePerms' \in [Role -> SUBSET Perm],
         everRoles' \in [User -> SUBSET Role], everPerms' \in [Role -> SUBSET Perm],
         owner' \in [Sid -> User \union {None}],
         UNCHANGED <<redis, issued, edits, faults>>
  PROVE  Inv'
<1>1. job' \in [Req -> Job] /\ JobsOK'
  BY JobsAfter
<1>2. StateOK'
  BY <1>1 DEF Inv, StateOK, redis
<1>3. ASSUME NEW s \in Sid PROVE SessionOK(s, session[s])'
  <2> DEFINE x == session[s]
  <2>1. x \in MaybeSession /\ SessionOK(s, x) /\ StateOK
    BY StoreFacts DEF Inv
  <2>2. x' = x
    BY DEF redis
  <2> QED BY <2>1, <2>2, SessionStable DEF SessionOK, EverGranted
<1>4. ASSUME NEW u \in User, NEW s \in index'[u] PROVE owner'[s] = u
  <2>1. s \in Sid /\ owner[s] = u
    BY <1>4, StoreFacts DEF redis
  <2> QED BY <2>1, SessionsConstants DEF Grows
<1> QED BY <1>1, <1>2, <1>3, <1>4 DEF Inv, StoreOK

LEMMA LogInInv ==
  ASSUME Inv, NEW p \in Req, LogIn(p)
  PROVE  Inv'
<1>1. PICK u \in User, s \in Sid :
        /\ owner[s] = None
        /\ owner' = [owner EXCEPT ![s] = u]
        /\ Goto(p, [IdleJob EXCEPT !.at = "loginSet", !.user = u, !.sids = {s},
                                   !.perms = permissionCodes(u)])
  BY DEF LogIn
<1>2. UNCHANGED <<userRoles, rolePerms, everRoles, everPerms, edits, redis, issued, faults>>
  BY DEF LogIn, db
\* PICK names today's values, so that priming does not touch them.
<1> PICK Q : Q = permissionCodes(u)
  OBVIOUS
<1> PICK j : j = [IdleJob EXCEPT !.at = "loginSet", !.user = u, !.sids = {s}, !.perms = Q]
  OBVIOUS
<1>3. Q \in SUBSET Perm /\ Q \subseteq EverGranted(u)
  BY CodesGranted
<1>4. EverGranted(u)' = EverGranted(u)
  BY <1>2 DEF EverGranted
<1>5. owner \in [Sid -> User \union {None}]
  BY DEF Inv, StateOK
<1>6. Grows /\ HistoriesOK' /\ owner' \in [Sid -> User \union {None}] /\ owner'[s] = u
  BY <1>1, <1>2, <1>5 DEF Grows, HistoriesOK, Inv
<1>7. Goto(p, j)
  BY <1>1
<1>8. j \in Job
  BY <1>3, IdleJobOK DEF IdleJob, Job, At
<1>9. JobOK(j)'
  <2>1. /\ j.at = "loginSet" /\ j.user = u /\ j.sids = {s} /\ j.perms = Q
        /\ \A x \in Sid : j.raws[x] = None
    BY DEF IdleJob, NoRaws
  <2>2. Q \subseteq EverGranted(u)'
    BY <1>3, <1>4
  <2> QED BY <1>6, <2>1, <2>2 DEF JobOK, SessionOK, UserIsSet
<1> QED BY <1>2, <1>6, <1>7, <1>8, <1>9, GrowStep DEF Inv, StateOK

LEMMA SaveInv ==
  ASSUME Inv, NEW p \in Req, AssignRoleSave(p) \/ AssignPermissionsSave(p)
  PROVE  Inv'
<1>0. /\ job[p] \in Job /\ JobOK(job[p]) /\ StateOK
      /\ job[p].roles \in SUBSET Role /\ job[p].perms \in SUBSET Perm
  BY StoreFacts DEF Job, Inv
<1>1. CASE AssignRoleSave(p)
  <2> PICK u, Q, R : u = job[p].user /\ Q = job[p].perms /\ R = job[p].roles
    OBVIOUS
  <2> PICK j : j = Propagation({u}, Q)
    OBVIOUS
  <2>1. u \in User /\ Q \subseteq EverOf(R)
    BY <1>0, <1>1 DEF AssignRoleSave, JobOK, UserIsSet
  <2>2. /\ userRoles' = [userRoles EXCEPT ![u] = R]
        /\ everRoles' = [everRoles EXCEPT ![u] = @ \union R]
        /\ UNCHANGED <<rolePerms, edits, everPerms, redis, owner, issued, faults>>
        /\ Goto(p, j)
    BY <1>1 DEF AssignRoleSave, clients
  <2>3. /\ userRoles' \in [User -> SUBSET Role] /\ everRoles' \in [User -> SUBSET Role]
        /\ R \subseteq everRoles'[u]
    BY <1>0, <2>1, <2>2 DEF StateOK
  <2>4. Grows
    BY <1>0, <2>2 DEF Grows, StateOK
  <2>5. HistoriesOK'
    BY <1>0, <2>1, <2>2 DEF HistoriesOK, Inv, StateOK
  <2>6. Q \subseteq EverGranted(u)'
    BY <2>1, <2>2, <2>3 DEF EverOf, EverGranted
  <2>7. j \in Job
    BY <1>0, <2>1, IdleJobOK DEF Propagation, IdleJob, Job, At
  <2>8. JobOK(j)'
    <3>1. /\ j.at = "sMembers" /\ j.todo = {u} /\ j.perms = Q
          /\ \A x \in Sid : j.raws[x] = None
      BY DEF Propagation, IdleJob, NoRaws
    <3> QED BY <2>6, <3>1 DEF JobOK, SessionOK, UserIsSet
  <2> QED BY <1>0, <2>2, <2>3, <2>4, <2>5, <2>7, <2>8, GrowStep DEF StateOK
<1>2. CASE AssignPermissionsSave(p)
  <2> DEFINE R == job[p].roles
             Q == job[p].perms
  <2> PICK j : j = [job[p] EXCEPT !.at = "permsFind"]
    OBVIOUS
  <2>1. /\ rolePerms' = [r \in Role |-> IF r \in R THEN Q ELSE rolePerms[r]]
        /\ everPerms' = [r \in Role |-> IF r \in R THEN everPerms[r] \union Q ELSE everPerms[r]]
        /\ UNCHANGED <<userRoles, edits, everRoles, redis, owner, issued, faults>>
    BY <1>2 DEF AssignPermissionsSave, clients
  <2>2. rolePerms' \in [Role -> SUBSET Perm] /\ everPerms' \in [Role -> SUBSET Perm]
    BY <1>0, <2>1 DEF StateOK
  <2>3. Grows
    BY <1>0, <2>1 DEF Grows, StateOK
  <2>4. HistoriesOK'
    BY <1>0, <2>1 DEF HistoriesOK, Inv, StateOK
  <2>5. Goto(p, j)
    BY <1>0, <1>2 DEF AssignPermissionsSave, Advance, Goto, StateOK
  <2> HIDE DEF R, Q
  <2>6. j \in Job
    BY <1>0 DEF Job, At
  <2>7. JobOK(j)'
    <3>1. j.at = "permsFind" /\ j.raws = job[p].raws
      BY <1>0 DEF Job
    <3>2. \A s \in Sid : j.raws[s] \in MaybeSession /\ SessionOK(s, j.raws[s])
      BY <1>0, <3>1 DEF Job, JobOK
    <3>3. \A s \in Sid : SessionOK(s, j.raws[s])'
      BY <1>0, <2>3, <3>2, SessionStable
    <3> QED BY <3>1, <3>3 DEF JobOK, UserIsSet
  <2> QED BY <1>0, <2>1, <2>2, <2>3, <2>4, <2>5, <2>6, <2>7, GrowStep DEF StateOK
<1> QED BY <1>1, <1>2

-----------------------------------------------------------------------------
(* Expiry, and steps that change nothing.                                  *)

LEMMA TickInv ==
  ASSUME Inv, Tick
  PROVE  Inv'
<1>1. UNCHANGED <<userRoles, rolePerms, everRoles, everPerms, edits, owner, issued, job, faults>>
  BY DEF Tick, db, clients
<1>2. /\ session' \in [Sid -> MaybeSession]
      /\ \A s \in Sid : SessionOK(s, session'[s])
  BY StoreFacts DEF Tick, MaybeSession, SessionOK
<1>3. ttl' \in [Sid -> 0..SessionTtl] /\ indexTtl' \in [User -> 0..SessionTtl]
  <2>1. SessionTtl \in Nat /\ ttl \in [Sid -> 0..SessionTtl]
        /\ indexTtl \in [User -> 0..SessionTtl]
    BY StoreFacts, SessionsConstants
  <2>2. /\ ttl' = [s \in Sid |-> IF ttl[s] > 0 THEN ttl[s] - 1 ELSE 0]
        /\ indexTtl' = [u \in User |-> IF indexTtl[u] > 0 THEN indexTtl[u] - 1 ELSE 0]
    BY DEF Tick
  <2> QED BY <2>1, <2>2
<1>4. index' \in [User -> SUBSET Sid] /\ \A u \in User : \A s \in index'[u] : owner[s] = u
  BY StoreFacts DEF Tick
<1>5. StateOK'
  BY <1>1, <1>2, <1>3, <1>4 DEF Inv, StateOK
<1>6. HistoriesOK' /\ StoreOK'
  BY <1>1, <1>2, <1>4 DEF Inv, HistoriesOK, StoreOK, SessionOK, EverGranted
<1>7. JobsOK'
  BY <1>1 DEF Inv, JobsOK, JobOK, SessionOK, EverGranted, EverOf
<1> QED BY <1>5, <1>6, <1>7 DEF Inv

LEMMA InvNext == Inv /\ [Next]_vars => Inv'
<1> SUFFICES ASSUME Inv, [Next]_vars PROVE Inv'
  OBVIOUS
<1>1. ASSUME NEW p \in Req, Start(p) PROVE Inv'
  BY <1>1, StartInv, LogInInv DEF Start
<1>2. ASSUME NEW p \in Req, Step(p) PROVE Inv'
  BY <1>2, ReadStepInv, LogInStepInv, LogOutStepInv, WriteBackInv, SaveInv DEF Step
<1>3. ASSUME NEW p \in Req, Fail(p) PROVE Inv'
  BY <1>3, ReadStepInv
<1>4. CASE Tick
  BY <1>4, TickInv
<1>5. CASE UNCHANGED vars
  BY <1>5 DEF vars, Inv, StateOK, HistoriesOK, StoreOK, JobsOK, JobOK, SessionOK,
              EverGranted, EverOf
<1> QED BY <1>1, <1>2, <1>3, <1>4, <1>5 DEF Next

LEMMA Invariance == Spec => []Inv
  BY InvInit, InvNext, PTL DEF Spec

-----------------------------------------------------------------------------
\* `alone' is a Boolean: a request that starts may clear it, a step of a
\* request leaves it as it is.
LEMMA AloneBoolean == Spec => [](alone \in BOOLEAN)
<1>1. ASSUME NEW p \in Req, Start(p) PROVE alone' \in BOOLEAN
  BY <1>1
     DEF Start, CanStart,
         LogIn, Refresh, LogOut, Deactivate, List, AssignRole,
         AssignPermissions
<1>2. ASSUME NEW p \in Req, Step(p) \/ Fail(p) PROVE alone' = alone
  BY <1>2
     DEF Step, Fail,
         LogInSet, LogInAdd, LogInExpire, RefreshFind, RefreshSet,
         LogOutDel, LogOutRem, DeactivateSet, ListGet, ListRem,
         AssignRoleSave, AssignPermissionsSave, FindByRole,
         RefreshMembers, RefreshGet, RefreshExec
<1>3. ASSUME Tick PROVE alone' \in BOOLEAN
  BY <1>3 DEF Tick
<1>4. alone \in BOOLEAN /\ [Next]_vars => (alone \in BOOLEAN)'
  BY <1>1, <1>2, <1>3 DEF Next, vars
<1>5. Init => alone \in BOOLEAN
  BY DEF Init
<1> QED BY <1>4, <1>5, PTL DEF Spec

\* The keys in Redis, the relations in Postgres and what the suspended
\* requests carry stay well typed, for any number of requests.
THEOREM TypeCorrect == Spec => []TypeOK
<1>1. Inv /\ alone \in BOOLEAN => TypeOK
  BY DEF Inv, TypeOK
<1> QED BY <1>1, Invariance, AloneBoolean, PTL

\* However late a refresh, a deactivation or a propagation writes back what
\* it read, auth_session:<sid> and user_sessions:<user> stay with their user.
THEOREM NoSessionChangesHands == Spec => []SessionsKeepTheirOwner
<1>1. Inv => SessionsKeepTheirOwner
  BY DEF Inv, StoreOK, SessionOK, SessionsKeepTheirOwner, Live
<1> QED BY <1>1, Invariance, PTL

\* No interleaving of logins, refreshes and assignments gives a session a
\* permission that no role of its user ever had.
THEOREM NothingForeignGranted == Spec => []NoForeignPermissions
<1>1. Inv => NoForeignPermissions
  BY DEF Inv, StoreOK, SessionOK, NoForeignPermissions, Live
<1> QED BY <1>1, Invariance, PTL
-----------------------------------------------------------------------------
(* Session ids are fresh: no two logins share one, and none has been issued. *)

LoggingIn == {"loginSet", "loginAdd", "loginExpire"}

LoginsApart ==
    /\ \A s \in issued : owner[s] # None
    /\ \A p \in Req : job[p].at \in LoggingIn =>
            \A s \in job[p].sids : owner[s] = job[p].user /\ s \notin issued
    /\ \A p, q \in Req : job[p].at \in LoggingIn /\ job[q].at \in LoggingIn /\ p # q =>
            job[p].sids \intersect job[q].sids = {}

\* Steps that neither draw nor issue a session id.
LEMMA ApartStep ==
  ASSUME LoginsApart, NEW p \in Req,
         \A q \in Req : q # p => job'[q] = job[q],
         job'[p].at \in LoggingIn =>
            job[p].at \in LoggingIn /\ job'[p].sids = job[p].sids /\ job'[p].user = job[p].user,
         UNCHANGED <<owner, issued>>
  PROVE  LoginsApart'
<1>1. \A q \in Req : job'[q].at \in LoggingIn =>
         job[q].at \in LoggingIn /\ job'[q].sids = job[q].sids /\ job'[q].user = job[q].user
  OBVIOUS
<1>2. LoggingIn' = LoggingIn
  BY DEF LoggingIn
<1> QED BY <1>1, <1>2 DEF LoginsApart

LEMMA OthersWait ==
  ASSUME Inv, NEW p \in Req, (\E j : Goto(p, j)) \/ (\E at : Advance(p, at))
  PROVE  \A q \in Req : q # p => job'[q] = job[q]
  BY DEF Inv, StateOK, Goto, Advance

\* Everything but the first and the last step of a login.
LEMMA OtherStepsApart ==
  ASSUME Inv, LoginsApart, NEW p \in Req,
         \/ Refresh(p) \/ LogOut(p) \/ Deactivate(p) \/ List(p)
         \/ AssignRole(p) \/ AssignPermissions(p) \/ Fail(p)
         \/ LogInSet(p) \/ LogInAdd(p) \/ RefreshFind(p) \/ RefreshSet(p)
         \/ LogOutDel(p) \/ LogOutRem(p) \/ DeactivateSet(p) \/ ListGet(p) \/ ListRem(p)
         \/ AssignRoleSave(p) \/ AssignPermissionsSave(p) \/ FindByRole(p)
         \/ RefreshMembers(p) \/ RefreshGet(p) \/ RefreshExec(p)
  PROVE  LoginsApart'
<1>0. job \in [Req -> Job] /\ job[p] \in Job
  BY StoreFacts DEF Inv, StateOK
<1>1. UNCHANGED <<owner, issued>>
  BY DEF Refresh, LogOut, Deactivate, List, AssignRole, AssignPermissions, Fail,
         LogInSet, LogInAdd, RefreshFind, RefreshSet, LogOutDel, LogOutRem,
         DeactivateSet, ListGet, ListRem, AssignRoleSave, AssignPermissionsSave,
         FindByRole, RefreshMembers, RefreshGet, RefreshExec, clients
<1>2. (\E j : Goto(p, j)) \/ (\E at : Advance(p, at))
  BY DEF Refresh, LogOut, Deactivate, List, AssignRole, AssignPermissions, Fail,
         LogInSet, LogInAdd, RefreshFind, RefreshSet, LogOutDel, LogOutRem,
         DeactivateSet, ListGet, ListRem, AssignRoleSave, AssignPermissionsSave,
         FindByRole, RefreshMembers, RefreshGet, RefreshExec, Done
<1>3. CASE LogInSet(p) \/ LogInAdd(p)
  <2>1. job[p].at \in LoggingIn /\ job'[p].sids = job[p].sids /\ job'[p].user = job[p].user
    BY <1>0, <1>3 DEF LogInSet, LogInAdd, Advance, Job, LoggingIn
  <2> QED BY <1>1, <1>2, <2>1, OthersWait, ApartStep
<1>4. CASE job'[p].at \notin LoggingIn
  BY <1>1, <1>2, <1>4, OthersWait, ApartStep
<1>5. ASSUME Refresh(p) PROVE job'[p].at \notin LoggingIn
  <2>1. PICK s : Goto(p, [IdleJob EXCEPT !.at = "refreshFind", !.user = session[s].user,
                    !.sids = {s}, !.raws = [NoRaws EXCEPT ![s] = session[s]]])
    BY <1>5 DEF Refresh
  <2> QED BY <1>0, <2>1 DEF Goto, IdleJob, LoggingIn
<1>6. ASSUME LogOut(p) PROVE job'[p].at \notin LoggingIn
  <2>1. PICK s : Goto(p, [IdleJob EXCEPT !.at = "logoutDel", !.user = session[s].user,
                    !.sids = {s}])
    BY <1>6 DEF LogOut
  <2> QED BY <1>0, <2>1 DEF Goto, IdleJob, LoggingIn
<1>7. ASSUME Deactivate(p) PROVE job'[p].at \notin LoggingIn
  BY <1>0, <1>7 DEF Deactivate, Goto, IdleJob, LoggingIn
<1>8. ASSUME List(p) PROVE job'[p].at \notin LoggingIn
  BY <1>0, <1>8 DEF List, Goto, IdleJob, LoggingIn
<1>9. ASSUME AssignRole(p) PROVE job'[p].at \notin LoggingIn
  BY <1>0, <1>9 DEF AssignRole, Goto, IdleJob, LoggingIn
<1>10. ASSUME AssignPermissions(p) PROVE job'[p].at \notin LoggingIn
  BY <1>0, <1>10 DEF AssignPermissions, Goto, IdleJob, LoggingIn
<1>11. ASSUME RefreshFind(p) PROVE job'[p].at \notin LoggingIn
  BY <1>0, <1>11 DEF RefreshFind, Job, Goto, IdleJob, LoggingIn
<1>12. ASSUME RefreshSet(p) PROVE job'[p].at \notin LoggingIn
  BY <1>0, <1>12 DEF RefreshSet, Done, Goto, IdleJob, LoggingIn
<1>13. ASSUME LogOutDel(p) PROVE job'[p].at \notin LoggingIn
  BY <1>0, <1>13 DEF LogOutDel, Advance, Job, Goto, IdleJob, LoggingIn
<1>14. ASSUME LogOutRem(p) PROVE job'[p].at \notin LoggingIn
  BY <1>0, <1>14 DEF LogOutRem, Done, Goto, IdleJob, LoggingIn
<1>15. ASSUME DeactivateSet(p) PROVE job'[p].at \notin LoggingIn
  BY <1>0, <1>15 DEF DeactivateSet, Done, Goto, IdleJob, LoggingIn
<1>16. ASSUME ListGet(p) PROVE job'[p].at \notin LoggingIn
  BY <1>0, <1>16 DEF ListGet, Job, Goto, IdleJob, LoggingIn
<1>17. ASSUME Fail(p) PROVE job'[p].at \notin LoggingIn
  BY <1>0, <1>17 DEF Fail, Done, Goto, IdleJob, LoggingIn
<1>18. ASSUME ListRem(p) PROVE job'[p].at \notin LoggingIn
  BY <1>0, <1>18 DEF ListRem, Job, Goto, IdleJob, LoggingIn
<1>19. ASSUME AssignRoleSave(p) PROVE job'[p].at \notin LoggingIn
  BY <1>0, <1>19 DEF AssignRoleSave, Propagation, Goto, IdleJob, LoggingIn
<1>20. ASSUME AssignPermissionsSave(p) PROVE job'[p].at \notin LoggingIn
  BY <1>0, <1>20 DEF AssignPermissionsSave, Advance, Job, Goto, IdleJob, LoggingIn
<1>21. ASSUME FindByRole(p) PROVE job'[p].at \notin LoggingIn
  BY <1>0, <1>21 DEF FindByRole, Propagation, Goto, IdleJob, LoggingIn
<1>22. ASSUME RefreshMembers(p) PROVE job'[p].at \notin LoggingIn
  <2>1. PICK u : Goto(p, IF index[u] = {} THEN NextUser(p, u)
               ELSE [job[p] EXCEPT !.at = "mGet", !.user = u, !.sids = index[u]])
    BY <1>22 DEF RefreshMembers
  <2>2. NextUser(p, u).at \notin LoggingIn
    BY DEF NextUser, Propagation, IdleJob, LoggingIn
  <2> QED BY <1>0, <2>1, <2>2 DEF Goto, Job, LoggingIn
<1>23. ASSUME RefreshGet(p) PROVE job'[p].at \notin LoggingIn
  BY <1>0, <1>23 DEF RefreshGet, Job, Goto, IdleJob, LoggingIn
<1>24. ASSUME RefreshExec(p) PROVE job'[p].at \notin LoggingIn
  BY <1>0, <1>24 DEF RefreshExec, NextUser, Propagation, Goto, IdleJob, LoggingIn
<1> QED BY <1>3, <1>4, <1>5, <1>6, <1>7, <1>8, <1>9, <1>10, <1>11, <1>12, <1>13, <1>14,
           <1>15, <1>16, <1>17, <1>18, <1>19, <1>20, <1>21, <1>22, <1>23, <1>24

LEMMA LogInApart ==
  ASSUME Inv, LoginsApart, NEW p \in Req, LogIn(p)
  PROVE  LoginsApart'
<1>0. PICK u \in User, s \in Sid :
        /\ owner[s] = None
        /\ owner' = [owner EXCEPT ![s] = u]
        /\ Goto(p, [IdleJob EXCEPT !.at = "loginSet", !.user = u, !.sids = {s},
                                   !.perms = permissionCodes(u)])
  BY DEF LogIn
<1> PICK j : j = [IdleJob EXCEPT !.at = "loginSet", !.user = u, !.sids = {s},
                                 !.perms = permissionCodes(u)]
  OBVIOUS
<1>1. /\ owner[s] = None
      /\ owner' = [owner EXCEPT ![s] = u]
      /\ Goto(p, j)
      /\ j.at = "loginSet" /\ j.user = u /\ j.sids = {s}
  BY <1>0 DEF IdleJob
<1>2. issued' = issued
  BY DEF LogIn
<1>3. job'[p] = j /\ \A q \in Req : q # p => job'[q] = job[q]
  BY <1>1, OthersWait DEF Goto, Inv, StateOK
<1>4. owner \in [Sid -> User \union {None}] /\ issued \subseteq Sid
  BY DEF Inv, StateOK
<1>5. owner'[s] = u /\ \A x \in Sid : owner[x] # None => owner'[x] = owner[x]
  BY <1>1, <1>4
<1>6. ASSUME NEW q \in Req, q # p, job'[q].at \in LoggingIn
      PROVE  /\ \A x \in job'[q].sids : owner'[x] = job'[q].user /\ x \notin issued'
             /\ s \notin job'[q].sids
  <2>1. job[q].user \in User /\ job[q].sids \subseteq Sid
        /\ \A x \in job[q].sids : owner[x] = job[q].user /\ x \notin issued
    BY <1>3, <1>6, StoreFacts DEF JobOK, UserIsSet, Job, LoginsApart, LoggingIn
  <2> QED BY <1>1, <1>2, <1>3, <1>5, <1>6, <2>1, SessionsConstants
<1>7. u # None
  BY SessionsConstants
<1>8. LoggingIn' = LoggingIn
  BY DEF LoggingIn
<1>9. \A x \in issued' : owner'[x] # None
  BY <1>2, <1>4, <1>5 DEF LoginsApart
<1>10. ASSUME NEW q \in Req, job'[q].at \in LoggingIn
       PROVE  \A x \in job'[q].sids : owner'[x] = job'[q].user /\ x \notin issued'
  <2>1. s \notin issued'
    BY <1>1, <1>2 DEF LoginsApart
  <2>2. CASE q = p
    BY <1>1, <1>3, <1>5, <2>1, <2>2
  <2>3. CASE q # p
    BY <1>6, <1>10, <2>3
  <2> QED BY <2>2, <2>3
<1>11. ASSUME NEW q \in Req, NEW r \in Req, q # r,
              job'[q].at \in LoggingIn, job'[r].at \in LoggingIn
       PROVE  job'[q].sids \intersect job'[r].sids = {}
  <2>1. CASE q = p
    <3>1. s \notin job'[r].sids /\ job'[q].sids = {s}
      BY <1>1, <1>3, <1>6, <1>11, <2>1
    <3> QED BY <3>1
  <2>2. CASE r = p
    <3>1. s \notin job'[q].sids /\ job'[r].sids = {s}
      BY <1>1, <1>3, <1>6, <1>11, <2>2
    <3> QED BY <3>1
  <2>3. CASE q # p /\ r # p
    BY <1>3, <1>11, <2>3 DEF LoginsApart
  <2> QED BY <2>1, <2>2, <2>3
<1> QED BY <1>8, <1>9, <1>10, <1>11 DEF LoginsApart

LEMMA LogInExpireApart ==
  ASSUME Inv, LoginsApart, NEW p \in Req, LogInExpire(p)
  PROVE  LoginsApart'
<1>1. /\ job[p].at \in LoggingIn /\ job[p].user \in User
      /\ issued' = issued \union job[p].sids /\ owner' = owner
      /\ Goto(p, IdleJob)
  BY StoreFacts DEF LogInExpire, LoggingIn, JobOK, UserIsSet, Done
<1>2. job'[p].at = "idle" /\ \A q \in Req : q # p => job'[q] = job[q]
  BY <1>1, OthersWait DEF Goto, Inv, StateOK, IdleJob
<1>3. LoggingIn' = LoggingIn /\ "idle" \notin LoggingIn
  BY DEF LoggingIn
<1>4. \A x \in issued' : owner'[x] # None
  BY <1>1, SessionsConstants DEF LoginsApart
<1>5. \A q \in Req : job'[q].at \in LoggingIn =>
         q # p /\ job[q].at \in LoggingIn /\ job'[q] = job[q]
  BY <1>2, <1>3
<1>6. \A q \in Req : job'[q].at \in LoggingIn =>
         \A x \in job'[q].sids : owner'[x] = job'[q].user /\ x \notin issued'
  BY <1>1, <1>5 DEF LoginsApart
<1>7. \A q, r \in Req : job'[q].at \in LoggingIn /\ job'[r].at \in LoggingIn /\ q # r =>
         job'[q].sids \intersect job'[r].sids = {}
  BY <1>5 DEF LoginsApart
<1> QED BY <1>3, <1>4, <1>6, <1>7 DEF LoginsApart

LEMMA ApartInvariance == Spec => []LoginsApart
<1>1. Init => LoginsApart
  BY DEF Init, LoginsApart, LoggingIn, IdleJob
<1>2. Inv /\ LoginsApart /\ [Next]_vars => LoginsApart'
  <2> SUFFICES ASSUME Inv, LoginsApart, [Next]_vars PROVE LoginsApart'
    OBVIOUS
  <2>1. ASSUME NEW p \in Req, Start(p) \/ Step(p) \/ Fail(p) PROVE LoginsApart'
    BY <2>1, OtherStepsApart, LogInApart, LogInExpireApart DEF Start, Step
  <2>2. CASE Tick \/ UNCHANGED vars
    BY <2>2 DEF Tick, vars, clients, LoginsApart, LoggingIn
  <2> QED BY <2>1, <2>2 DEF Next
<1> QED BY <1>1, <1>2, Invariance, PTL DEF Spec

-----------------------------------------------------------------------------
(* What ended a session.                                                   *)

\* A request writes back what it read, or the session is new.
LEMMA Revival ==
  ASSUME Inv, LoginsApart, [Next]_vars, NEW s \in issued, Ended(s),
         \A p \in Req : job[p].at \in {"refreshSet", "exec"} /\ Holds(p, s) =>
            ~job[p].raws[s].active
  PROVE  Ended(s)'
<1>0. s \in Sid /\ session \in [Sid -> MaybeSession]
  BY DEF Inv, StateOK
<1>1. \/ session' = session
      \/ Tick
      \/ \E p \in Req : \/ LogInSet(p) \/ LogOutDel(p) \/ RefreshSet(p)
                        \/ DeactivateSet(p) \/ RefreshExec(p)
  <2>1. ASSUME NEW p \in Req, Start(p) PROVE session' = session
    BY <2>1 DEF Start, LogIn, Refresh, LogOut, Deactivate, List, AssignRole, AssignPermissions, redis
  <2>2. ASSUME NEW p \in Req, Step(p)
        PROVE  \/ session' = session
               \/ LogInSet(p) \/ LogOutDel(p) \/ RefreshSet(p) \/ DeactivateSet(p) \/ RefreshExec(p)
    <3>1. CASE LogInAdd(p) \/ LogInExpire(p) \/ RefreshFind(p) \/ LogOutRem(p)
      BY <3>1 DEF LogInAdd, LogInExpire, RefreshFind, LogOutRem, redis
    <3>2. CASE ListGet(p) \/ ListRem(p)
      BY <3>2 DEF ListGet, ListRem, redis
    <3>3. CASE AssignRoleSave(p) \/ AssignPermissionsSave(p) \/ FindByRole(p)
      BY <3>3 DEF AssignRoleSave, AssignPermissionsSave, FindByRole, redis
    <3>4. CASE RefreshMembers(p) \/ RefreshGet(p)
      BY <3>4 DEF RefreshMembers, RefreshGet, redis
    <3> QED BY <2>2, <3>1, <3>2, <3>3, <3>4 DEF Step
  <2>3. ASSUME NEW p \in Req, Fail(p) PROVE session' = session
    BY <2>3 DEF Fail, redis
  <2>4. CASE UNCHANGED vars
    BY <2>4 DEF vars
  <2> QED BY <2>1, <2>2, <2>3, <2>4 DEF Next
<1>2. CASE session' = session
  BY <1>2 DEF Ended, Live
<1>3. CASE Tick
  BY <1>0, <1>3 DEF Tick, Ended, Live
<1>4. ASSUME NEW p \in Req, LogInSet(p) PROVE Ended(s)'
  <2>1. s \notin job[p].sids
    BY <1>4 DEF LogInSet, LoginsApart, LoggingIn
  <2> QED BY <1>0, <1>4, <2>1 DEF LogInSet, Ended, Live
<1>5. ASSUME NEW p \in Req, LogOutDel(p) PROVE Ended(s)'
  BY <1>0, <1>5 DEF LogOutDel, Ended, Live
<1>6. ASSUME NEW p \in Req, RefreshSet(p) \/ DeactivateSet(p) PROVE Ended(s)'
  <2>1. s \in job[p].sids => job[p].raws[s] # None /\ job[p].raws[s] \in Session
    BY <1>0, <1>6, StoreFacts DEF RefreshSet, DeactivateSet, JobOK, Job, MaybeSession
  <2>2. CASE RefreshSet(p)
    <3>1. s \in job[p].sids => ~job[p].raws[s].active
      BY <2>1, <2>2 DEF RefreshSet, Holds
    <3> QED BY <1>0, <2>1, <2>2, <3>1 DEF RefreshSet, SetKeepTtl, Ended, Live, Session
  <2>3. CASE DeactivateSet(p)
    BY <1>0, <2>1, <2>3 DEF DeactivateSet, SetKeepTtl, Ended, Live, Session
  <2> QED BY <1>6, <2>2, <2>3
<1>7. ASSUME NEW p \in Req, RefreshExec(p) PROVE Ended(s)'
  <2>0. job[p] \in Job
    BY StoreFacts
  <2> DEFINE seen == {x \in job[p].sids : job[p].raws[x] # None}
  <2>1. s \in seen => job[p].raws[s] \in Session /\ ~job[p].raws[s].active
    BY <1>0, <1>7, <2>0 DEF RefreshExec, Holds, Job, MaybeSession
  <2>2. SetKeepTtl([x \in seen |-> [job[p].raws[x] EXCEPT !.perms = job[p].perms]])
    BY <1>7 DEF RefreshExec
  <2> HIDE DEF seen
  <2> QED BY <1>0, <2>1, <2>2 DEF SetKeepTtl, Ended, Live, Session
<1> QED BY <1>1, <1>2, <1>3, <1>4, <1>5, <1>6, <1>7

\* Whatever interleaves: logOut, deactivateSession and the expiry end a session
\* for good, unless refreshToken or a propagation had read it while it was usable
\* and writes its copy back.
THEOREM EndedUnlessInFlight == Spec => OnlyInFlightRevives
<1>1. Inv /\ LoginsApart /\ [Next]_vars =>
        [\A s \in issued :
            /\ Ended(s)
            /\ \A p \in Req : Holds(p, s) => ~job[p].raws[s].active
            => Ended(s)']_vars
  <2> SUFFICES ASSUME Inv, LoginsApart, [Next]_vars, NEW s \in issued, Ended(s),
                      \A p \in Req : Holds(p, s) => ~job[p].raws[s].active
               PROVE  Ended(s)'
    OBVIOUS
  <2> QED BY Revival
<1> QED BY <1>1, Invariance, ApartInvariance, PTL DEF Spec, OnlyInFlightRevives
-----------------------------------------------------------------------------
(* As long as nothing ran or expired while a request was in flight.        *)

Single == \A p, q \in Req : job[p].at # "idle" /\ job[q].at # "idle" => p = q

\* What the only request in flight has read is still so.
Agrees(j) ==
    /\ j.at \in {"refreshFind", "refreshSet", "deactivateSet", "exec"} =>
            \A s \in j.sids : j.raws[s] = session[s]
    /\ j.at \in {"logoutRem", "listRem"} => \A s \in j.sids : ~Live(s)
    /\ j.at = "loginExpire" => j.sids \subseteq index[j.user]
    /\ j.at \in {"mGet", "exec"} => j.sids = index[j.user]
    /\ j.at \in {"loginSet", "refreshSet"} => j.perms \subseteq permissionCodes(j.user)
    /\ j.at \in {"loginAdd", "loginExpire"} =>
            \A s \in j.sids : Live(s) => session[s].perms \subseteq permissionCodes(owner[s])
    /\ j.at = "roleSave" => j.perms \subseteq UNION {rolePerms[r] : r \in j.roles}
    /\ j.at \in {"permsSave", "permsFind"} => \E r \in Role : j.roles = {r}
    /\ j.at \in {"sMembers", "mGet", "exec"} =>
            \A u \in j.todo : j.perms \subseteq permissionCodes(u)

\* Every session expires; its id is in the index, which does not expire before it.
Stored ==
    /\ \A s \in Sid : Live(s) => ttl[s] > 0
    /\ \A s \in issued : Live(s) =>
            /\ s \in index[owner[s]]
            /\ indexTtl[owner[s]] = 0 \/ ttl[s] <= indexTtl[owner[s]]

\* The users whose sessions an assignment has still to reach.
Pending(j) ==
    {u \in User : \/ j.at = "permsFind" /\ j.roles \intersect userRoles[u] # {}
                  \/ j.at \in {"sMembers", "mGet", "exec"} /\ u \in j.todo}

\* A session allows more than the roles only while an assignment is to reach it.
Grants ==
    \A s \in issued : ~Ended(s) =>
        \/ session[s].perms \subseteq permissionCodes(owner[s])
        \/ \E p \in Req : owner[s] \in Pending(job[p])

Calm ==
    /\ Single
    /\ \A p \in Req : Agrees(job[p])
    /\ Stored
    /\ faults = 0 => Grants

AloneOK == alone => Calm

LEMMA IdleAgrees ==
  ASSUME NEW j, j.at = "idle"
  PROVE  Agrees(j)
  BY DEF Agrees

\* The request in flight, or the one that starts when none is, goes on with job j.
LEMMA CalmStep ==
  ASSUME Inv, Calm, NEW p \in Req, job[p].at # "idle" \/ Quiet,
         NEW j, Goto(p, j), Agrees(j)', Stored',
         faults' = 0 => \A s \in issued' : ~Ended(s)' =>
            \/ (session[s].perms \subseteq permissionCodes(owner[s]))'
            \/ owner'[s] \in Pending(j)'
  PROVE  Calm'
<1>1. job'[p] = j /\ \A q \in Req : q # p => job'[q] = job[q]
  BY OthersWait DEF Goto, Inv, StateOK
<1>2. \A q \in Req : q # p => job'[q].at = "idle"
  BY <1>1 DEF Calm, Single, Quiet
<1>3. Single'
  BY <1>2 DEF Single
<1>4. ASSUME NEW q \in Req PROVE Agrees(job[q])'
  <2>1. CASE q = p
    BY <1>1, <2>1 DEF Agrees, Live, permissionCodes
  <2>2. CASE q # p
    <3>1. job'[q].at = "idle"
      BY <1>2, <2>2
    <3> QED BY <3>1 DEF Agrees
  <2> QED BY <2>1, <2>2
<1>5. Pending(job[p])' = Pending(j)'
  BY <1>1 DEF Pending
<1>6. faults' = 0 => Grants'
  BY <1>5 DEF Grants
<1> QED BY <1>3, <1>4, <1>6 DEF Calm

\* Only the request in flight can be about to reach a user.
LEMMA OnePending ==
  ASSUME Calm, NEW p \in Req, job[p].at # "idle" \/ Quiet, faults = 0
  PROVE  \A s \in issued : ~Ended(s) => \/ session[s].perms \subseteq permissionCodes(owner[s])
                                        \/ owner[s] \in Pending(job[p])
<1>1. \A q \in Req : q # p => job[q].at = "idle"
  BY DEF Calm, Single, Quiet
<1>2. \A q \in Req : q # p => Pending(job[q]) = {}
  BY <1>1 DEF Pending
<1>3. \A s \in issued : (\E q \in Req : owner[s] \in Pending(job[q])) => owner[s] \in Pending(job[p])
  BY <1>2
<1> QED BY <1>3 DEF Calm, Grants

\* Steps that only read.
LEMMA CalmRead ==
  ASSUME Inv, Calm, NEW p \in Req, job[p].at # "idle" \/ Quiet,
         NEW j, Goto(p, j), Agrees(j),
         UNCHANGED <<userRoles, rolePerms, session, ttl, index, indexTtl, owner, issued>>,
         faults' = 0 => faults = 0,
         faults' = 0 => \A s \in issued : ~Ended(s) /\ owner[s] \in Pending(job[p]) =>
            \/ session[s].perms \subseteq permissionCodes(owner[s])
            \/ owner[s] \in Pending(j)
  PROVE  Calm'
<1>1. Agrees(j)' /\ Stored'
  BY DEF Agrees, Live, permissionCodes, Calm, Stored
<1>2. ASSUME faults' = 0, NEW s \in issued', ~Ended(s)'
      PROVE  \/ (session[s].perms \subseteq permissionCodes(owner[s]))'
             \/ owner'[s] \in Pending(j)'
  <2>1. s \in issued /\ ~Ended(s) /\ faults = 0
    BY <1>2 DEF Ended, Live
  <2>2. \/ session[s].perms \subseteq permissionCodes(owner[s])
        \/ owner[s] \in Pending(j)
    BY <1>2, <2>1, OnePending
  <2> QED BY <2>2 DEF permissionCodes, Pending
<1> QED BY <1>1, <1>2, CalmStep

-----------------------------------------------------------------------------
(* A request starts while none is in flight.                               *)

LEMMA CalmStart ==
  ASSUME Inv, Calm, Quiet, NEW p \in Req,
         Refresh(p) \/ LogOut(p) \/ Deactivate(p) \/ List(p) \/ AssignRole(p)
            \/ AssignPermissions(p)
  PROVE  Calm'
<1>0. /\ UNCHANGED <<userRoles, rolePerms, session, ttl, index, indexTtl, owner, issued, faults>>
      /\ Pending(job[p]) = {}
  BY DEF Refresh, LogOut, Deactivate, List, AssignRole, AssignPermissions, db, redis, clients,
         Pending, Quiet
<1>1. ASSUME NEW j, Goto(p, j), Agrees(j) PROVE Calm'
  BY <1>0, <1>1, CalmRead
<1>2. CASE Refresh(p)
  <2>1. PICK s \in issued :
          Goto(p, [IdleJob EXCEPT !.at = "refreshFind", !.user = session[s].user,
                    !.sids = {s}, !.raws = [NoRaws EXCEPT ![s] = session[s]]])
    BY <1>2 DEF Refresh
  <2> PICK j : j = [IdleJob EXCEPT !.at = "refreshFind", !.user = session[s].user,
                    !.sids = {s}, !.raws = [NoRaws EXCEPT ![s] = session[s]]]
    OBVIOUS
  <2>2. s \in Sid
    BY DEF Inv, StateOK
  <2>3. j.at = "refreshFind" /\ j.sids = {s} /\ j.raws[s] = session[s]
    BY <2>2 DEF IdleJob, NoRaws
  <2>4. Agrees(j)
    BY <2>3 DEF Agrees
  <2> QED BY <1>1, <2>1, <2>4
<1>3. CASE Deactivate(p)
  <2>1. PICK s \in Sid :
          Goto(p, [IdleJob EXCEPT !.at = "deactivateSet", !.user = session[s].user,
                    !.sids = {s}, !.raws = [NoRaws EXCEPT ![s] = session[s]]])
    BY <1>3 DEF Deactivate
  <2> PICK j : j = [IdleJob EXCEPT !.at = "deactivateSet", !.user = session[s].user,
                    !.sids = {s}, !.raws = [NoRaws EXCEPT ![s] = session[s]]]
    OBVIOUS
  <2>3. j.at = "deactivateSet" /\ j.sids = {s} /\ j.raws[s] = session[s]
    BY DEF IdleJob, NoRaws
  <2>4. Agrees(j)
    BY <2>3 DEF Agrees
  <2> QED BY <1>1, <2>1, <2>4
<1>4. CASE LogOut(p)
  <2>1. PICK s \in issued :
          Goto(p, [IdleJob EXCEPT !.at = "logoutDel", !.user = session[s].user, !.sids = {s}])
    BY <1>4 DEF LogOut
  <2> PICK j : j = [IdleJob EXCEPT !.at = "logoutDel", !.user = session[s].user, !.sids = {s}]
    OBVIOUS
  <2>4. Agrees(j)
    BY DEF Agrees, IdleJob
  <2> QED BY <1>1, <2>1, <2>4
<1>5. CASE List(p)
  <2>1. PICK u \in User :
          Goto(p, [IdleJob EXCEPT !.at = "listGet", !.user = u, !.sids = index[u]])
    BY <1>5 DEF List
  <2> PICK j : j = [IdleJob EXCEPT !.at = "listGet", !.user = u, !.sids = index[u]]
    OBVIOUS
  <2>4. Agrees(j)
    BY DEF Agrees, IdleJob
  <2> QED BY <1>1, <2>1, <2>4
<1>6. CASE AssignRole(p)
  <2>1. PICK u \in User, R \in SUBSET Role :
          Goto(p, [IdleJob EXCEPT !.at = "roleSave", !.user = u, !.roles = R,
                    !.perms = UNION {rolePerms[r] : r \in R}])
    BY <1>6 DEF AssignRole
  <2> PICK Q : Q = UNION {rolePerms[r] : r \in R}
    OBVIOUS
  <2> PICK j : j = [IdleJob EXCEPT !.at = "roleSave", !.user = u, !.roles = R, !.perms = Q]
    OBVIOUS
  <2>3. j.at = "roleSave" /\ j.roles = R /\ j.perms = Q
    BY DEF IdleJob
  <2>4. Agrees(j)
    BY <2>3 DEF Agrees
  <2>5. Goto(p, j)
    BY <2>1
  <2> QED BY <1>1, <2>5, <2>4
<1>7. CASE AssignPermissions(p)
  <2>1. PICK r \in Role, Q \in SUBSET Perm :
          Goto(p, [IdleJob EXCEPT !.at = "permsSave", !.roles = {r}, !.perms = Q])
    BY <1>7 DEF AssignPermissions
  <2> PICK j : j = [IdleJob EXCEPT !.at = "permsSave", !.roles = {r}, !.perms = Q]
    OBVIOUS
  <2>3. j.at = "permsSave" /\ j.roles = {r}
    BY DEF IdleJob
  <2>4. Agrees(j)
    BY <2>3 DEF Agrees
  <2> QED BY <1>1, <2>1, <2>4
<1> QED BY <1>2, <1>3, <1>4, <1>5, <1>6, <1>7

\* A login: the session id it draws is not an issued one.
LEMMA CalmLogIn ==
  ASSUME Inv, LoginsApart, Calm, Quiet, NEW p \in Req, LogIn(p)
  PROVE  Calm'
<1>0. PICK u \in User, s \in Sid :
        /\ owner[s] = None
        /\ owner' = [owner EXCEPT ![s] = u]
        /\ Goto(p, [IdleJob EXCEPT !.at = "loginSet", !.user = u, !.sids = {s},
                                   !.perms = permissionCodes(u)])
  BY DEF LogIn
<1> PICK Q : Q = permissionCodes(u)
  OBVIOUS
<1> PICK j : j = [IdleJob EXCEPT !.at = "loginSet", !.user = u, !.sids = {s}, !.perms = Q]
  OBVIOUS
<1>1. j.at = "loginSet" /\ j.user = u /\ j.perms = Q /\ Goto(p, j)
  BY <1>0 DEF IdleJob
<1>2. UNCHANGED <<userRoles, rolePerms, session, ttl, index, indexTtl, issued, faults>>
  BY DEF LogIn, db, redis
<1>3. /\ permissionCodes(u)' = permissionCodes(u)
      /\ \A x \in issued : owner'[x] = owner[x]
  BY <1>0, <1>2, StoreFacts DEF permissionCodes, LoginsApart
<1>4. Agrees(j)'
  BY <1>1, <1>3 DEF Agrees
<1>5. Stored'
  BY <1>2, <1>3 DEF Calm, Stored, Live
<1>6. Pending(job[p]) = {}
  BY DEF Quiet, Pending
<1>7. ASSUME faults' = 0, NEW x \in issued', ~Ended(x)'
      PROVE  (session[x].perms \subseteq permissionCodes(owner[x]))'
  <2>1. x \in issued /\ ~Ended(x) /\ faults = 0
    BY <1>2, <1>7 DEF Ended, Live
  <2>2. session[x].perms \subseteq permissionCodes(owner[x])
    BY <1>6, <2>1, OnePending
  <2> QED BY <1>2, <1>3, <2>1, <2>2 DEF permissionCodes
<1> QED BY <1>1, <1>4, <1>5, <1>7, CalmStep

-----------------------------------------------------------------------------
(* Steps of the request in flight that only read.                          *)

\* What a request in flight carries, in the store it reads.
LEMMA InFlight ==
  ASSUME Inv, Calm, NEW p \in Req
  PROVE  /\ job[p] \in Job /\ JobOK(job[p]) /\ Agrees(job[p])
         /\ job[p].sids \subseteq Sid /\ job[p].todo \subseteq User
  BY StoreFacts DEF Job, Calm

LEMMA CalmRefreshFind ==
  ASSUME Inv, Calm, NEW p \in Req, RefreshFind(p)
  PROVE  Calm'
<1> PICK Q : Q = permissionCodes(job[p].user)
  OBVIOUS
<1> PICK j : j = [job[p] EXCEPT !.at = "refreshSet", !.perms = Q]
  OBVIOUS
<1>1. /\ j.at = "refreshSet" /\ j.user = job[p].user /\ j.perms = Q
      /\ j.sids = job[p].sids /\ j.raws = job[p].raws
  BY InFlight DEF Job
<1>2. job[p].at = "refreshFind" /\ Goto(p, j)
      /\ UNCHANGED <<userRoles, rolePerms, session, ttl, index, indexTtl, owner, issued, faults>>
  BY DEF RefreshFind, db, redis, clients
<1>3. Agrees(j)
  <2>1. \A s \in job[p].sids : job[p].raws[s] = session[s]
    BY <1>2, InFlight DEF Agrees
  <2> QED BY <1>1, <2>1 DEF Agrees
<1>4. Pending(job[p]) = {}
  BY <1>2 DEF Pending
<1> QED BY <1>2, <1>3, <1>4, CalmRead

LEMMA CalmListGet ==
  ASSUME Inv, Calm, NEW p \in Req, ListGet(p)
  PROVE  Calm'
<1> PICK gone : gone = {s \in job[p].sids : ~Live(s)}
  OBVIOUS
<1> PICK j : j = IF gone = {} THEN IdleJob
                 ELSE [job[p] EXCEPT !.at = "listRem", !.sids = gone]
  OBVIOUS
<1>1. j.at = "idle" \/ (j.at = "listRem" /\ j.sids = gone)
  BY InFlight DEF Job, IdleJob
<1>2. job[p].at = "listGet" /\ Goto(p, j)
      /\ UNCHANGED <<userRoles, rolePerms, session, ttl, index, indexTtl, owner, issued, faults>>
  BY DEF ListGet, db, redis, clients
<1>3. Agrees(j)
  BY <1>1 DEF Agrees
<1>4. Pending(job[p]) = {}
  BY <1>2 DEF Pending
<1> QED BY <1>2, <1>3, <1>4, CalmRead

\* find by role returns every user with the role.
LEMMA CalmFindByRole ==
  ASSUME Inv, Calm, NEW p \in Req, FindByRole(p)
  PROVE  Calm'
<1> PICK R, found : R = job[p].roles /\ found = {u \in User : R \subseteq userRoles[u]}
  OBVIOUS
<1> PICK Q : Q = UNION {rolePerms[r] : r \in R}
  OBVIOUS
<1> PICK j : j = IF found = {} THEN IdleJob ELSE Propagation(found, Q)
  OBVIOUS
<1>1. (found = {} /\ j.at = "idle") \/ (j.at = "sMembers" /\ j.todo = found /\ j.perms = Q)
  BY DEF Propagation, IdleJob
<1>2. job[p].at = "permsFind" /\ Goto(p, j)
      /\ UNCHANGED <<userRoles, rolePerms, session, ttl, index, indexTtl, owner, issued, faults>>
  BY DEF FindByRole, db, redis, clients
<1>3. PICK r \in Role : R = {r}
  BY <1>2, InFlight DEF Agrees
<1>4. \A u \in found : Q \subseteq permissionCodes(u)
  BY <1>3 DEF permissionCodes
<1>5. Agrees(j)
  BY <1>1, <1>4 DEF Agrees
<1>6. Pending(job[p]) \subseteq Pending(j)
  <2>1. Pending(job[p]) \subseteq found
    BY <1>2, <1>3 DEF Pending
  <2>2. found \subseteq Pending(j)
    BY <1>1 DEF Pending
  <2> QED BY <2>1, <2>2
<1> QED BY <1>2, <1>5, <1>6, CalmRead

\* Going on with the next user, or ending, once the sessions of u are dealt with.
LEMMA NextUserFacts ==
  ASSUME Inv, Calm, NEW p \in Req, job[p].at \in {"sMembers", "mGet", "exec"},
         NEW u \in job[p].todo, NEW j, j = NextUser(p, u)
  PROVE  /\ j.at = "idle" \/ (j.at = "sMembers" /\ j.todo = job[p].todo \ {u} /\ j.perms = job[p].perms)
         /\ Pending(job[p]) \ {u} \subseteq Pending(j)
         /\ Agrees(j)
<1>1. \/ job[p].todo = {u} /\ j.at = "idle"
      \/ j.at = "sMembers" /\ j.todo = job[p].todo \ {u} /\ j.perms = job[p].perms
  BY DEF NextUser, Propagation, IdleJob
<1>2. \A v \in job[p].todo : job[p].perms \subseteq permissionCodes(v)
  BY InFlight DEF Agrees
<1>3. Agrees(j)
  BY <1>1, <1>2 DEF Agrees
<1>4. Pending(job[p]) \ {u} \subseteq Pending(j)
  BY <1>1 DEF Pending
<1> QED BY <1>1, <1>3, <1>4

LEMMA CalmRefreshMembers ==
  ASSUME Inv, Calm, NEW p \in Req, RefreshMembers(p)
  PROVE  Calm'
<1>1. PICK u \in job[p].todo :
        /\ job[p].at = "sMembers"
        /\ Goto(p, IF index[u] = {} THEN NextUser(p, u)
                   ELSE [job[p] EXCEPT !.at = "mGet", !.user = u, !.sids = index[u]])
  BY DEF RefreshMembers
<1>2. UNCHANGED <<userRoles, rolePerms, session, ttl, index, indexTtl, owner, issued, faults>>
  BY DEF RefreshMembers, db, redis, clients
<1>3. CASE index[u] = {}
  <2> PICK j : j = NextUser(p, u)
    OBVIOUS
  <2>1. Goto(p, j)
    BY <1>1, <1>3
  <2>2. Agrees(j) /\ Pending(job[p]) \ {u} \subseteq Pending(j)
    BY <1>1, NextUserFacts
  <2>3. \A s \in issued : ~Ended(s) => owner[s] # u
    BY <1>3 DEF Calm, Stored, Ended
  <2> QED BY <1>1, <1>2, <2>1, <2>2, <2>3, CalmRead
<1>4. CASE index[u] # {}
  <2> PICK j : j = [job[p] EXCEPT !.at = "mGet", !.user = u, !.sids = index[u]]
    OBVIOUS
  <2>1. Goto(p, j)
    BY <1>1, <1>4
  <2>2. /\ j.at = "mGet" /\ j.user = u /\ j.sids = index[u] /\ j.todo = job[p].todo
        /\ j.perms = job[p].perms
    BY InFlight DEF Job
  <2>3. Agrees(j)
    <3>1. \A v \in job[p].todo : job[p].perms \subseteq permissionCodes(v)
      BY <1>1, InFlight DEF Agrees
    <3> QED BY <2>2, <3>1 DEF Agrees
  <2>4. Pending(job[p]) \subseteq Pending(j)
    BY <1>1, <2>2 DEF Pending
  <2> QED BY <1>1, <1>2, <2>1, <2>3, <2>4, CalmRead
<1> QED BY <1>3, <1>4

LEMMA CalmRefreshGet ==
  ASSUME Inv, Calm, NEW p \in Req, RefreshGet(p)
  PROVE  Calm'
<1> PICK rw : rw = [s \in Sid |-> IF s \in job[p].sids THEN session[s] ELSE None]
  OBVIOUS
<1> PICK j : j = [job[p] EXCEPT !.at = "exec", !.raws = rw]
  OBVIOUS
<1>1. /\ j.at = "exec" /\ j.user = job[p].user /\ j.perms = job[p].perms
      /\ j.sids = job[p].sids /\ j.raws = rw /\ j.todo = job[p].todo
  BY InFlight DEF Job
<1>2. job[p].at = "mGet" /\ Goto(p, j)
      /\ UNCHANGED <<userRoles, rolePerms, session, ttl, index, indexTtl, owner, issued, faults>>
  BY DEF RefreshGet, db, redis, clients
<1>3. Agrees(j)
  <2>1. /\ job[p].sids = index[job[p].user]
        /\ \A v \in job[p].todo : job[p].perms \subseteq permissionCodes(v)
    BY <1>2, InFlight DEF Agrees
  <2>2. \A s \in j.sids : j.raws[s] = session[s]
    BY <1>1, InFlight
  <2> QED BY <1>1, <2>1, <2>2 DEF Agrees
<1>4. Pending(job[p]) \subseteq Pending(j)
  BY <1>1, <1>2 DEF Pending
<1> QED BY <1>2, <1>3, <1>4, CalmRead

\* A request that fails leaves what it did; later sessions may be stale.
LEMMA CalmFail ==
  ASSUME Inv, Calm, NEW p \in Req, Fail(p)
  PROVE  Calm'
<1>1. /\ job[p].at # "idle" /\ Goto(p, IdleJob) /\ faults' = faults + 1 /\ faults \in Nat
      /\ UNCHANGED <<userRoles, rolePerms, session, ttl, index, indexTtl, owner, issued>>
  BY DEF Fail, Done, db, redis, clients, Inv, StateOK
<1>2. Agrees(IdleJob)
  BY IdleAgrees DEF IdleJob
<1>3. faults' # 0
  BY <1>1
<1> QED BY <1>1, <1>2, <1>3, CalmRead

-----------------------------------------------------------------------------
(* Steps that write to Redis.                                              *)

\* Writes of requests that propagate nothing: an issued session is usable
\* afterwards only with permissions that it had or that its user has.
LEMMA CalmWrite ==
  ASSUME Inv, Calm, NEW p \in Req, job[p].at # "idle", Pending(job[p]) = {},
         NEW j, Goto(p, j), Agrees(j)', Stored',
         UNCHANGED <<userRoles, rolePerms, owner, issued, faults>>,
         \A s \in issued : ~Ended(s)' =>
            \/ session'[s].perms \subseteq permissionCodes(owner[s])
            \/ ~Ended(s) /\ session'[s].perms = session[s].perms
  PROVE  Calm'
<1>1. \A u : permissionCodes(u)' = permissionCodes(u)
  BY DEF permissionCodes
<1>2. ASSUME faults' = 0, NEW s \in issued', ~Ended(s)'
      PROVE  (session[s].perms \subseteq permissionCodes(owner[s]))'
  <2>1. s \in issued /\ faults = 0
    BY <1>2
  <2>2. ~Ended(s) => session[s].perms \subseteq permissionCodes(owner[s])
    BY <2>1, OnePending
  <2>3. session'[s].perms \subseteq permissionCodes(owner[s])
    BY <1>2, <2>1, <2>2
  <2> QED BY <1>1, <2>3 DEF permissionCodes
<1> QED BY <1>2, CalmStep

LEMMA CalmLogInSet ==
  ASSUME Inv, LoginsApart, Calm, NEW p \in Req, LogInSet(p)
  PROVE  Calm'
<1> PICK j : j = [job[p] EXCEPT !.at = "loginAdd"]
  OBVIOUS
<1> PICK x : x = [user |-> job[p].user, perms |-> job[p].perms, active |-> TRUE]
  OBVIOUS
<1>1. /\ job[p].at = "loginSet" /\ Goto(p, j)
      /\ UNCHANGED <<userRoles, rolePerms, index, indexTtl, owner, issued, faults>>
  BY DEF LogInSet, Advance, Goto, db, clients, Inv, StateOK
<1>2. /\ session' = [s \in Sid |-> IF s \in job[p].sids THEN x ELSE session[s]]
      /\ ttl' = [s \in Sid |-> IF s \in job[p].sids THEN SessionTtl ELSE ttl[s]]
  BY DEF LogInSet
<1>3. /\ j.at = "loginAdd" /\ j.sids = job[p].sids
      /\ x.perms = job[p].perms
  BY InFlight DEF Job
<1>4. \A s \in job[p].sids : s \in Sid /\ s \notin issued /\ owner[s] = job[p].user
  BY <1>1, InFlight DEF LoginsApart, LoggingIn
<1>5. Agrees(j)'
  <2>1. x.perms \subseteq permissionCodes(job[p].user)
    BY <1>1, <1>3, InFlight DEF Agrees
  <2>2. \A s \in j.sids : session'[s] = x /\ owner'[s] = job[p].user
    BY <1>1, <1>2, <1>3, <1>4
  <2>3. \A u : permissionCodes(u)' = permissionCodes(u)
    BY <1>1 DEF permissionCodes
  <2>4. \A s \in j.sids : session'[s].perms \subseteq permissionCodes(owner[s])'
    BY <1>1, <1>4, <1>3, <2>1, <2>2, <2>3 DEF permissionCodes
  <2> QED BY <1>3, <2>4 DEF Agrees
<1>6. Stored'
  <2>1. \A s \in issued : session'[s] = session[s] /\ ttl'[s] = ttl[s]
    BY <1>2, <1>4, StoreFacts
  <2>2. \A s \in Sid : Live(s)' => ttl'[s] > 0
    BY <1>2, SessionsConstants DEF Live, Calm, Stored
  <2> QED BY <1>1, <2>1, <2>2 DEF Calm, Stored, Live
<1>7. \A s \in issued : ~Ended(s)' => ~Ended(s) /\ session'[s].perms = session[s].perms
  BY <1>2, <1>4, StoreFacts DEF Ended, Live
<1>8. Pending(job[p]) = {}
  BY <1>1 DEF Pending
<1> QED BY <1>1, <1>5, <1>6, <1>7, <1>8, CalmWrite

LEMMA CalmLogInAdd ==
  ASSUME Inv, Calm, NEW p \in Req, LogInAdd(p)
  PROVE  Calm'
<1> PICK j : j = [job[p] EXCEPT !.at = "loginExpire"]
  OBVIOUS
<1>1. /\ job[p].at = "loginAdd" /\ Goto(p, j)
      /\ UNCHANGED <<userRoles, rolePerms, session, ttl, indexTtl, owner, issued, faults>>
      /\ index' = [index EXCEPT ![job[p].user] = @ \union job[p].sids]
  BY DEF LogInAdd, Advance, Goto, db, clients, Inv, StateOK
<1>2. j.at = "loginExpire" /\ j.sids = job[p].sids /\ j.user = job[p].user
  BY InFlight DEF Job
<1>3. /\ job[p].user \in User /\ index \in [User -> SUBSET Sid]
      /\ \A s \in job[p].sids : Live(s) => session[s].perms \subseteq permissionCodes(owner[s])
  BY <1>1, InFlight, StoreFacts DEF JobOK, UserIsSet, Agrees
<1>4. j.sids \subseteq index'[j.user] /\ \A u \in User : index[u] \subseteq index'[u]
  BY <1>1, <1>2, <1>3
<1>5. Agrees(j)'
  BY <1>1, <1>2, <1>3, <1>4 DEF Agrees, Live, permissionCodes
<1>6. Stored'
  <2>1. \A s \in issued : Live(s) => owner[s] \in User
    BY StoreFacts, LiveSession
  <2> QED BY <1>1, <1>4, <2>1 DEF Calm, Stored, Live
<1>7. \A s \in issued : ~Ended(s)' => ~Ended(s) /\ session'[s].perms = session[s].perms
  BY <1>1 DEF Ended, Live
<1>8. Pending(job[p]) = {}
  BY <1>1 DEF Pending
<1> QED BY <1>1, <1>5, <1>6, <1>7, <1>8, CalmWrite

\* The tokens are handed out: from now on the session counts.
LEMMA CalmLogInExpire ==
  ASSUME Inv, Calm, LoginsApart, NEW p \in Req, LogInExpire(p)
  PROVE  Calm'
<1>1. /\ job[p].at = "loginExpire" /\ Goto(p, IdleJob)
      /\ UNCHANGED <<userRoles, rolePerms, session, ttl, index, owner, faults>>
      /\ issued' = issued \union job[p].sids
      /\ indexTtl' = [indexTtl EXCEPT ![job[p].user] =
            IF index[job[p].user] = {} THEN 0 ELSE SessionTtl]
  BY DEF LogInExpire, Done, db
<1>2. /\ job[p].user \in User /\ job[p].sids \subseteq index[job[p].user]
      /\ \A s \in job[p].sids : Live(s) => session[s].perms \subseteq permissionCodes(owner[s])
  BY <1>1, InFlight DEF JobOK, UserIsSet, Agrees
<1>3. \A s \in job[p].sids : owner[s] = job[p].user
  BY <1>1 DEF LoginsApart, LoggingIn
<1>4. Agrees(IdleJob)'
  BY DEF Agrees, IdleJob
<1>5. Stored'
  <2>1. \A s \in Sid : Live(s) => ttl[s] > 0
    BY DEF Calm, Stored
  <2>2. SessionTtl \in Nat /\ ttl \in [Sid -> 0..SessionTtl] /\ indexTtl \in [User -> 0..SessionTtl]
        /\ job[p].sids \subseteq Sid /\ issued \subseteq Sid
    BY StoreFacts, InFlight, SessionsConstants
  <2>3. ASSUME NEW s \in issued', Live(s)
        PROVE  /\ s \in index[owner[s]]
               /\ indexTtl'[owner[s]] = 0 \/ ttl[s] <= indexTtl'[owner[s]]
    <3>1. CASE owner[s] = job[p].user
      <4>1. s \in index[owner[s]]
        BY <1>1, <1>2, <1>3, <2>3 DEF Calm, Stored
      <4>2. indexTtl'[owner[s]] = 0 \/ indexTtl'[owner[s]] = SessionTtl
        BY <1>1, <1>2, <2>2, <3>1
      <4>3. ttl[s] <= SessionTtl
        BY <1>1, <2>2, <2>3
      <4> QED BY <4>1, <4>2, <4>3
    <3>2. CASE owner[s] # job[p].user
      <4>1. s \in issued
        BY <1>1, <1>3, <2>3, <3>2
      <4>2. owner[s] \in User
        BY <2>2, <2>3, <4>1, LiveSession
      <4>3. indexTtl'[owner[s]] = indexTtl[owner[s]]
        BY <1>1, <2>2, <3>2, <4>2
      <4> QED BY <2>3, <4>1, <4>3 DEF Calm, Stored
    <3> QED BY <3>1, <3>2
  <2> QED BY <1>1, <2>1, <2>3 DEF Stored, Live
<1>6. Pending(job[p]) = {}
  BY <1>1 DEF Pending
<1>7. ASSUME faults' = 0, NEW s \in issued', ~Ended(s)'
      PROVE  (session[s].perms \subseteq permissionCodes(owner[s]))'
  <2>1. ~Ended(s) /\ Live(s) /\ faults = 0
    BY <1>1, <1>7 DEF Ended, Live
  <2>2. session[s].perms \subseteq permissionCodes(owner[s])
    BY <1>1, <1>2, <1>6, <1>7, <2>1, OnePending
  <2> QED BY <1>1, <2>2 DEF permissionCodes
<1> QED BY <1>1, <1>4, <1>5, <1>7, CalmStep

\* What SREM of ids without session leaves.
LEMMA StoredAfterSRem ==
  ASSUME Inv, Stored, NEW u \in User, NEW S \in SUBSET Sid, sRem(u, S), \A s \in S : ~Live(s),
         UNCHANGED <<ttl, owner, issued>>, \A s \in Sid : Live(s)' => Live(s)
  PROVE  Stored'
<1>1. index \in [User -> SUBSET Sid] /\ indexTtl \in [User -> 0..SessionTtl] /\ issued \subseteq Sid
  BY StoreFacts
<1>2. ASSUME NEW s \in issued, Live(s)
      PROVE  /\ s \in index'[owner[s]]
             /\ indexTtl'[owner[s]] = 0 \/ ttl[s] <= indexTtl'[owner[s]]
  <2>1. /\ owner[s] \in User /\ s \in Sid /\ s \in index[owner[s]] /\ s \notin S
        /\ indexTtl[owner[s]] = 0 \/ ttl[s] <= indexTtl[owner[s]]
    BY <1>1, <1>2, LiveSession DEF Stored
  <2>2. CASE owner[s] = u
    <3>1. index'[u] = index[u] \ S /\ indexTtl'[u] = indexTtl[u]
      BY <1>1, <2>1, <2>2 DEF sRem
    <3> QED BY <2>1, <2>2, <3>1
  <2>3. CASE owner[s] # u
    BY <1>1, <2>1, <2>3 DEF sRem
  <2> QED BY <2>2, <2>3
<1>3. \A s \in Sid : Live(s)' => ttl'[s] > 0
  BY DEF Stored
<1> QED BY <1>1, <1>2, <1>3 DEF Stored

LEMMA CalmLogOutDel ==
  ASSUME Inv, Calm, NEW p \in Req, LogOutDel(p)
  PROVE  Calm'
<1> PICK j : j = [job[p] EXCEPT !.at = "logoutRem"]
  OBVIOUS
<1>1. /\ job[p].at = "logoutDel" /\ Goto(p, j)
      /\ UNCHANGED <<userRoles, rolePerms, index, indexTtl, owner, issued, faults>>
      /\ session' = [s \in Sid |-> IF s \in job[p].sids THEN None ELSE session[s]]
      /\ ttl' = [s \in Sid |-> IF s \in job[p].sids THEN 0 ELSE ttl[s]]
  BY DEF LogOutDel, Advance, Goto, db, clients, Inv, StateOK
<1>2. j.at = "logoutRem" /\ j.sids = job[p].sids /\ j.sids \subseteq Sid
  BY InFlight DEF Job
<1>3. \A s \in Sid : Live(s)' => Live(s) /\ session'[s] = session[s] /\ ttl'[s] = ttl[s]
  BY <1>1 DEF Live
<1>4. Agrees(j)'
  BY <1>1, <1>2 DEF Agrees, Live
<1>5. Stored'
  BY <1>1, <1>3, StoreFacts DEF Calm, Stored
<1>6. \A s \in issued : ~Ended(s)' => ~Ended(s) /\ session'[s].perms = session[s].perms
  BY <1>3, StoreFacts DEF Ended
<1>7. Pending(job[p]) = {}
  BY <1>1 DEF Pending
<1> QED BY <1>1, <1>4, <1>5, <1>6, <1>7, CalmWrite

LEMMA CalmLogOutRem ==
  ASSUME Inv, Calm, NEW p \in Req, LogOutRem(p)
  PROVE  Calm'
<1>1. /\ job[p].at = "logoutRem" /\ Goto(p, IdleJob) /\ sRem(job[p].user, job[p].sids)
      /\ UNCHANGED <<userRoles, rolePerms, session, ttl, owner, issued, faults>>
  BY DEF LogOutRem, Done, db, clients
<1>2. job[p].user \in User /\ job[p].sids \in SUBSET Sid /\ \A s \in job[p].sids : ~Live(s)
  BY <1>1, InFlight DEF JobOK, UserIsSet, Agrees
<1>3. Agrees(IdleJob)'
  BY DEF Agrees, IdleJob
<1>4. \A s \in Sid : Live(s)' => Live(s)
  BY <1>1 DEF Live
<1>5. Stored'
  BY <1>1, <1>2, <1>4, StoredAfterSRem DEF Calm
<1>6. \A s \in issued : ~Ended(s)' => ~Ended(s) /\ session'[s].perms = session[s].perms
  BY <1>1 DEF Ended, Live
<1>7. Pending(job[p]) = {}
  BY <1>1 DEF Pending
<1> QED BY <1>1, <1>3, <1>5, <1>6, <1>7, CalmWrite

LEMMA CalmListRem ==
  ASSUME Inv, Calm, NEW p \in Req, ListRem(p)
  PROVE  Calm'
<1>0. PICK s \in job[p].sids :
        /\ sRem(job[p].user, {s})
        /\ Goto(p, IF job[p].sids = {s} THEN IdleJob ELSE [job[p] EXCEPT !.sids = @ \ {s}])
  BY DEF ListRem
<1> PICK j : j = IF job[p].sids = {s} THEN IdleJob ELSE [job[p] EXCEPT !.sids = @ \ {s}]
  OBVIOUS
<1>1. /\ job[p].at = "listRem" /\ Goto(p, j)
      /\ UNCHANGED <<userRoles, rolePerms, session, ttl, owner, issued, faults>>
  BY <1>0 DEF ListRem, db, clients
<1>2. job[p].user \in User /\ job[p].sids \in SUBSET Sid /\ \A x \in job[p].sids : ~Live(x)
  BY <1>1, InFlight DEF JobOK, UserIsSet, Agrees
<1>3. j.at = "idle" \/ (j.at = "listRem" /\ j.sids \subseteq job[p].sids)
  BY <1>1, InFlight DEF IdleJob, Job
<1>4. \A x \in Sid : Live(x)' <=> Live(x)
  BY <1>1 DEF Live
<1>5. Agrees(j)'
  BY <1>2, <1>3, <1>4 DEF Agrees
<1>6. {s} \in SUBSET Sid
  BY <1>2
<1>7. Stored'
  BY <1>0, <1>1, <1>2, <1>4, <1>6, StoredAfterSRem DEF Calm
<1>8. \A x \in issued : ~Ended(x)' => ~Ended(x) /\ session'[x].perms = session[x].perms
  BY <1>1 DEF Ended, Live
<1>9. Pending(job[p]) = {}
  BY <1>1 DEF Pending
<1> QED BY <1>1, <1>5, <1>7, <1>8, <1>9, CalmWrite

\* SET KEEPTTL of sessions that are there takes no expiry away.
LEMMA StoredAfterSet ==
  ASSUME Stored, \A s \in Sid : Live(s)' => Live(s), issued \subseteq Sid,
         UNCHANGED <<ttl, index, indexTtl, owner, issued>>
  PROVE  Stored'
  BY DEF Stored

LEMMA CalmRefreshSet ==
  ASSUME Inv, Calm, NEW p \in Req, RefreshSet(p)
  PROVE  Calm'
<1>1. /\ job[p].at = "refreshSet" /\ Goto(p, IdleJob)
      /\ UNCHANGED <<userRoles, rolePerms, ttl, index, indexTtl, owner, issued, faults>>
      /\ session' = [s \in Sid |-> IF s \in job[p].sids
                                   THEN [job[p].raws[s] EXCEPT !.perms = job[p].perms]
                                   ELSE session[s]]
  BY DEF RefreshSet, SetKeepTtl, Done, db, clients
<1>2. /\ job[p].perms \subseteq permissionCodes(job[p].user)
      /\ \A s \in job[p].sids : /\ owner[s] = job[p].user
                                /\ job[p].raws[s] = session[s] /\ Live(s)
  BY <1>1, InFlight DEF JobOK, Agrees, Live
<1>3. \A s \in job[p].sids : session'[s].perms = job[p].perms
  <2>1. \A s \in job[p].sids : s \in Sid /\ job[p].raws[s] \in Session
    BY <1>2, InFlight, LiveSession
  <2> QED BY <1>1, <2>1 DEF Session
<1>4. Agrees(IdleJob)'
  BY DEF Agrees, IdleJob
<1>5. \A s \in Sid : Live(s)' => Live(s)
  BY <1>1, <1>2 DEF Live
<1>6. Stored'
  BY <1>1, <1>5, StoreFacts, StoredAfterSet DEF Calm
<1>7. ASSUME NEW s \in issued, ~Ended(s)'
      PROVE  \/ session'[s].perms \subseteq permissionCodes(owner[s])
             \/ ~Ended(s) /\ session'[s].perms = session[s].perms
  <2>1. CASE s \in job[p].sids
    BY <1>2, <1>3, <2>1
  <2>2. CASE s \notin job[p].sids
    BY <1>1, <1>7, <2>2, StoreFacts DEF Ended, Live
  <2> QED BY <2>1, <2>2
<1>8. Pending(job[p]) = {}
  BY <1>1 DEF Pending
<1> QED BY <1>1, <1>4, <1>6, <1>7, <1>8, CalmWrite

LEMMA CalmDeactivateSet ==
  ASSUME Inv, Calm, NEW p \in Req, DeactivateSet(p)
  PROVE  Calm'
<1>1. /\ job[p].at = "deactivateSet" /\ Goto(p, IdleJob)
      /\ UNCHANGED <<userRoles, rolePerms, ttl, index, indexTtl, owner, issued, faults>>
      /\ session' = [s \in Sid |-> IF s \in job[p].sids
                                   THEN [job[p].raws[s] EXCEPT !.active = FALSE]
                                   ELSE session[s]]
  BY DEF DeactivateSet, SetKeepTtl, Done, db, clients
<1>2. \A s \in job[p].sids : job[p].raws[s] = session[s] /\ Live(s)
  BY <1>1, InFlight DEF JobOK, Agrees, Live
<1>3. \A s \in job[p].sids : Ended(s)'
  <2>1. \A s \in job[p].sids : s \in Sid /\ job[p].raws[s] \in Session
    BY <1>2, InFlight, LiveSession
  <2> QED BY <1>1, <2>1 DEF Session, Ended
<1>4. Agrees(IdleJob)'
  BY DEF Agrees, IdleJob
<1>5. \A s \in Sid : Live(s)' => Live(s)
  BY <1>1, <1>2 DEF Live
<1>6. Stored'
  BY <1>1, <1>5, StoreFacts, StoredAfterSet DEF Calm
<1>7. ASSUME NEW s \in issued, ~Ended(s)'
      PROVE  ~Ended(s) /\ session'[s].perms = session[s].perms
  <2>1. s \notin job[p].sids
    BY <1>3, <1>7
  <2> QED BY <1>1, <1>7, <2>1, StoreFacts DEF Ended, Live
<1>8. Pending(job[p]) = {}
  BY <1>1 DEF Pending
<1> QED BY <1>1, <1>4, <1>6, <1>7, <1>8, CalmWrite

\* EXEC: the sessions of the user that are there get the new permissions, the
\* ids without session leave the index.
LEMMA CalmRefreshExec ==
  ASSUME Inv, Calm, NEW p \in Req, RefreshExec(p)
  PROVE  Calm'
<1> PICK u, Q, seen : /\ u = job[p].user /\ Q = job[p].perms
                      /\ seen = {s \in job[p].sids : job[p].raws[s] # None}
  OBVIOUS
<1> PICK j : j = NextUser(p, u)
  OBVIOUS
<1>1. /\ job[p].at = "exec" /\ Goto(p, j) /\ sRem(u, job[p].sids \ seen)
      /\ UNCHANGED <<userRoles, rolePerms, ttl, owner, issued, faults>>
      /\ session' = [s \in Sid |-> IF s \in seen
                                   THEN [job[p].raws[s] EXCEPT !.perms = Q]
                                   ELSE session[s]]
  BY DEF RefreshExec, SetKeepTtl, db, clients
<1>2. /\ u \in User /\ u \in job[p].todo /\ Q \subseteq permissionCodes(u)
      /\ job[p].sids = index[u]
      /\ \A s \in job[p].sids : s \in Sid /\ job[p].raws[s] = session[s]
  BY <1>1, InFlight DEF JobOK, UserIsSet, Agrees
<1>3. \A s \in seen : s \in Sid /\ Live(s) /\ session'[s].perms = Q
  <2>1. \A s \in seen : s \in Sid /\ Live(s) /\ job[p].raws[s] \in Session
    BY <1>2, LiveSession DEF Live
  <2> QED BY <1>1, <2>1 DEF Session
<1>4. /\ \A s \in Sid : Live(s)' => Live(s)
      /\ job[p].sids \ seen \in SUBSET Sid /\ \A s \in job[p].sids \ seen : ~Live(s)
  BY <1>1, <1>2, <1>3 DEF Live
<1>5. Stored'
  BY <1>1, <1>2, <1>4, StoredAfterSRem DEF Calm
<1>6. Agrees(j) /\ Pending(job[p]) \ {u} \subseteq Pending(j)
      /\ (j.at = "idle" \/ j.at = "sMembers")
  BY <1>1, <1>2, NextUserFacts
<1>7. Agrees(j)' /\ Pending(j)' = Pending(j)
  <2>1. \A v : permissionCodes(v)' = permissionCodes(v)
    BY <1>1 DEF permissionCodes
  <2>2. Pending(j)' = Pending(j)
    BY <1>1 DEF Pending
  <2>3. \A v \in j.todo : j.at = "sMembers" => j.perms \subseteq permissionCodes(v)'
    BY <1>6, <2>1 DEF Agrees
  <2>4. CASE j.at = "idle"
    BY <2>2, <2>4 DEF Agrees
  <2>5. CASE j.at = "sMembers"
    <3>1. \A v \in j.todo : j.perms \subseteq permissionCodes(v)'
      BY <2>3, <2>5
    <3> QED BY <2>2, <2>5, <3>1 DEF Agrees
  <2> QED BY <1>6, <2>4, <2>5
<1>8. ASSUME faults' = 0, NEW s \in issued', ~Ended(s)'
      PROVE  \/ (session[s].perms \subseteq permissionCodes(owner[s]))'
             \/ owner'[s] \in Pending(j)'
  <2>1. s \in issued /\ s \in Sid /\ faults = 0 /\ Live(s)
    BY <1>1, <1>4, <1>8, StoreFacts DEF Ended
  <2>2. s \in index[owner[s]] /\ \A x \in index[u] : owner[x] = u
    BY <1>2, <2>1, StoreFacts DEF Calm, Stored
  <2>3. CASE owner[s] = u
    <3>1. s \in seen
      BY <1>2, <2>1, <2>2, <2>3 DEF Live
    <3>2. permissionCodes(owner[s])' = permissionCodes(u)
      BY <1>1, <2>3 DEF permissionCodes
    <3>3. session'[s].perms \subseteq permissionCodes(owner[s])'
      BY <1>2, <1>3, <3>1, <3>2
    <3> QED BY <3>3
  <2>4. CASE owner[s] # u
    <3>1. session'[s] = session[s]
      BY <1>1, <1>2, <2>1, <2>2, <2>4
    <3>2. ~Ended(s)
      BY <1>8, <3>1 DEF Ended, Live
    <3>3. session[s].perms \subseteq permissionCodes(owner[s]) \/ owner[s] \in Pending(job[p])
      BY <1>1, <2>1, <3>2, OnePending
    <3>4. session[s].perms \subseteq permissionCodes(owner[s]) \/ owner[s] \in Pending(j)
      BY <1>6, <2>4, <3>3
    <3>5. permissionCodes(owner[s])' = permissionCodes(owner[s])
      BY <1>1 DEF permissionCodes
    <3> QED BY <1>1, <1>7, <3>1, <3>4, <3>5
  <2> QED BY <2>3, <2>4
<1> QED BY <1>1, <1>5, <1>7, <1>8, CalmStep

-----------------------------------------------------------------------------
(* Assignments: whose sessions hold more than the roles is to be reached.  *)

\* What a user may do depends only on the user's roles and on what these grant.
LEMMA CodesKept ==
  ASSUME NEW u, userRoles'[u] = userRoles[u],
         \A r \in userRoles[u] : rolePerms'[r] = rolePerms[r]
  PROVE  permissionCodes(u)' = permissionCodes(u)
<1> PICK R : R = userRoles[u]
  OBVIOUS
<1>1. {rolePerms'[r] : r \in R} = {rolePerms[r] : r \in R}
  OBVIOUS
<1>2. permissionCodes(u) = UNION {rolePerms[r] : r \in R}
  BY DEF permissionCodes
<1>3. permissionCodes(u)' = UNION {rolePerms'[r] : r \in R}
  BY DEF permissionCodes
<1> QED BY <1>1, <1>2, <1>3

LEMMA CalmAssignRoleSave ==
  ASSUME Inv, Calm, NEW p \in Req, AssignRoleSave(p)
  PROVE  Calm'
<1> PICK u, Q, R : u = job[p].user /\ Q = job[p].perms /\ R = job[p].roles
  OBVIOUS
<1> PICK j : j = Propagation({u}, Q)
  OBVIOUS
<1>1. /\ job[p].at = "roleSave" /\ Goto(p, j)
      /\ userRoles' = [userRoles EXCEPT ![u] = R]
      /\ UNCHANGED <<rolePerms, session, ttl, index, indexTtl, owner, issued, faults>>
  BY DEF AssignRoleSave, redis, clients
<1>2. u \in User /\ Q \subseteq UNION {rolePerms[r] : r \in R} /\ userRoles \in [User -> SUBSET Role]
  BY <1>1, InFlight DEF JobOK, UserIsSet, Agrees, Inv, StateOK
<1>3. j.at = "sMembers" /\ j.todo = {u} /\ j.perms = Q
  BY DEF Propagation, IdleJob
<1>4. Q \subseteq permissionCodes(u)'
  BY <1>1, <1>2 DEF permissionCodes
<1>5. Agrees(j)'
  <2>1. \A v \in j.todo : j.perms \subseteq permissionCodes(v)'
    BY <1>3, <1>4 DEF permissionCodes
  <2> QED BY <1>3, <2>1 DEF Agrees
<1>6. Stored'
  BY <1>1 DEF Calm, Stored, Live
<1>7. Pending(job[p]) = {} /\ u \in Pending(j)'
  BY <1>1, <1>2, <1>3 DEF Pending
<1>8. ASSUME faults' = 0, NEW s \in issued', ~Ended(s)'
      PROVE  \/ (session[s].perms \subseteq permissionCodes(owner[s]))'
             \/ owner'[s] \in Pending(j)'
  <2>1. s \in issued /\ s \in Sid /\ faults = 0 /\ ~Ended(s)
    BY <1>1, <1>8, StoreFacts DEF Ended, Live
  <2>2. owner[s] \in User
    BY <2>1, LiveSession DEF Ended
  <2>3. session[s].perms \subseteq permissionCodes(owner[s])
    BY <1>1, <1>7, <2>1, OnePending
  <2>4. CASE owner[s] = u
    BY <1>1, <1>7, <2>4
  <2>5. CASE owner[s] # u
    <3> PICK w : w = owner[s]
      OBVIOUS
    <3>1. userRoles'[w] = userRoles[w]
      BY <1>1, <1>2, <2>2, <2>5
    <3>2. permissionCodes(w)' = permissionCodes(w)
      BY <1>1, <3>1, CodesKept
    <3>3. permissionCodes(owner[s])' = permissionCodes(w)'
      BY <1>1 DEF permissionCodes
    <3> QED BY <1>1, <2>3, <3>2, <3>3
  <2> QED BY <2>4, <2>5
<1> QED BY <1>1, <1>5, <1>6, <1>8, CalmStep

LEMMA CalmAssignPermissionsSave ==
  ASSUME Inv, Calm, NEW p \in Req, AssignPermissionsSave(p)
  PROVE  Calm'
<1> PICK j : j = [job[p] EXCEPT !.at = "permsFind"]
  OBVIOUS
<1>1. /\ job[p].at = "permsSave" /\ Goto(p, j)
      /\ rolePerms' = [r \in Role |-> IF r \in job[p].roles THEN job[p].perms ELSE rolePerms[r]]
      /\ UNCHANGED <<userRoles, session, ttl, index, indexTtl, owner, issued, faults>>
  BY DEF AssignPermissionsSave, Advance, Goto, redis, clients, Inv, StateOK
<1>2. j.at = "permsFind" /\ j.roles = job[p].roles
  BY InFlight DEF Job
<1>3. \E r \in Role : j.roles = {r}
  BY <1>1, <1>2, InFlight DEF Agrees
<1>4. Agrees(j)'
  BY <1>2, <1>3 DEF Agrees
<1>5. Stored'
  BY <1>1 DEF Calm, Stored, Live
<1>6. Pending(job[p]) = {}
  BY <1>1 DEF Pending
<1>7. ASSUME faults' = 0, NEW s \in issued', ~Ended(s)'
      PROVE  \/ (session[s].perms \subseteq permissionCodes(owner[s]))'
             \/ owner'[s] \in Pending(j)'
  <2>1. s \in issued /\ s \in Sid /\ faults = 0 /\ ~Ended(s)
    BY <1>1, <1>7, StoreFacts DEF Ended, Live
  <2>2. owner[s] \in User /\ userRoles \in [User -> SUBSET Role]
    BY <2>1, LiveSession DEF Ended, Inv, StateOK
  <2>3. session[s].perms \subseteq permissionCodes(owner[s])
    BY <1>1, <1>6, <2>1, OnePending
  <2>4. CASE j.roles \intersect userRoles[owner[s]] # {}
    BY <1>1, <1>2, <2>2, <2>4 DEF Pending
  <2>5. CASE j.roles \intersect userRoles[owner[s]] = {}
    <3> PICK w : w = owner[s]
      OBVIOUS
    <3>1. userRoles'[w] = userRoles[w]
      BY <1>1
    <3>2. \A r \in userRoles[w] : rolePerms'[r] = rolePerms[r]
      BY <1>1, <1>2, <2>2, <2>5
    <3>3. permissionCodes(w)' = permissionCodes(w)
      BY <3>1, <3>2, CodesKept
    <3>4. permissionCodes(owner[s])' = permissionCodes(w)'
      BY <1>1 DEF permissionCodes
    <3> QED BY <1>1, <2>3, <3>3, <3>4
  <2> QED BY <2>4, <2>5
<1> QED BY <1>1, <1>4, <1>5, <1>7, CalmStep

-----------------------------------------------------------------------------
(* Expiry while no request is in flight.                                   *)

LEMMA CalmTick ==
  ASSUME Inv, Calm, Quiet, Tick
  PROVE  Calm'
<1>1. /\ UNCHANGED <<userRoles, rolePerms, owner, issued, job, faults>>
      /\ session' = [s \in Sid |-> IF ttl[s] = 1 THEN None ELSE session[s]]
      /\ ttl' = [s \in Sid |-> IF ttl[s] > 0 THEN ttl[s] - 1 ELSE 0]
      /\ index' = [u \in User |-> IF indexTtl[u] = 1 THEN {} ELSE index[u]]
      /\ indexTtl' = [u \in User |-> IF indexTtl[u] > 0 THEN indexTtl[u] - 1 ELSE 0]
  BY DEF Tick, db, clients
<1>2. Single' /\ \A p \in Req : Agrees(job[p])'
  BY <1>1 DEF Quiet, Single, Agrees
<1>3. \A s \in Sid : Live(s)' => Live(s) /\ session'[s] = session[s] /\ ttl[s] # 1
  BY <1>1 DEF Live
<1>4. SessionTtl \in Nat /\ ttl \in [Sid -> 0..SessionTtl] /\ indexTtl \in [User -> 0..SessionTtl]
      /\ issued \subseteq Sid
  BY StoreFacts, SessionsConstants
<1>5. ASSUME NEW s \in Sid, Live(s)' PROVE ttl[s] > 1 /\ ttl'[s] = ttl[s] - 1
  <2>1. ttl[s] > 0 /\ ttl[s] # 1 /\ ttl[s] \in Nat
    BY <1>3, <1>4, <1>5 DEF Calm, Stored
  <2> QED BY <1>1, <2>1
<1>6. ASSUME NEW s \in issued', Live(s)'
      PROVE  /\ s \in index'[owner[s]]
             /\ indexTtl'[owner[s]] = 0 \/ ttl'[s] <= indexTtl'[owner[s]]
  <2>1. s \in issued /\ s \in Sid /\ Live(s) /\ ttl[s] > 1 /\ ttl'[s] = ttl[s] - 1
    BY <1>1, <1>3, <1>4, <1>5, <1>6
  <2>2. /\ owner[s] \in User /\ s \in index[owner[s]] 
        /\ indexTtl[owner[s]] = 0 \/ ttl[s] <= indexTtl[owner[s]]
    BY <2>1, LiveSession DEF Calm, Stored
  <2>3. indexTtl[owner[s]] \in Nat /\ ttl[s] \in Nat
    BY <1>4, <2>1, <2>2
  <2>4. indexTtl[owner[s]] # 1
    BY <2>1, <2>2, <2>3
  <2>5. index'[owner[s]] = index[owner[s]]
    BY <1>1, <2>2, <2>4
  <2>6. indexTtl'[owner[s]] = IF indexTtl[owner[s]] > 0 THEN indexTtl[owner[s]] - 1 ELSE 0
    BY <1>1, <2>2
  <2> QED BY <2>1, <2>2, <2>3, <2>5, <2>6
<1>7. Stored'
  <2>1. \A s \in Sid : Live(s)' => ttl'[s] > 0
    <3> SUFFICES ASSUME NEW s \in Sid, Live(s)' PROVE ttl'[s] > 0
      OBVIOUS
    <3>1. ttl[s] \in Nat /\ ttl[s] > 1 /\ ttl'[s] = ttl[s] - 1
      BY <1>4, <1>5
    <3> QED BY <3>1
  <2> QED BY <1>1, <1>6, <2>1 DEF Stored
<1>8. ASSUME faults' = 0, NEW s \in issued', ~Ended(s)'
      PROVE  \/ (session[s].perms \subseteq permissionCodes(owner[s]))'
             \/ \E p \in Req : owner'[s] \in Pending(job[p])'
  <2>1. s \in issued /\ s \in Sid /\ ~Ended(s) /\ session'[s] = session[s] /\ faults = 0
    BY <1>1, <1>3, <1>4, <1>8 DEF Ended
  <2>2. session[s].perms \subseteq permissionCodes(owner[s]) \/ \E p \in Req : owner[s] \in Pending(job[p])
    BY <2>1 DEF Calm, Grants
  <2> QED BY <1>1, <2>1, <2>2 DEF permissionCodes, Pending
<1> QED BY <1>2, <1>7, <1>8 DEF Calm, Grants

-----------------------------------------------------------------------------
LEMMA CalmInit == Init => Calm
<1> SUFFICES ASSUME Init PROVE Calm
  OBVIOUS
<1>1. \A p \in Req : job[p].at = "idle"
  BY DEF Init, IdleJob
<1>2. Single /\ \A p \in Req : Agrees(job[p])
  BY <1>1, IdleAgrees DEF Single
<1>3. Stored /\ Grants
  BY DEF Init, Stored, Grants, Live, NoRaws
<1> QED BY <1>2, <1>3 DEF Calm

LEMMA CalmSteps ==
  ASSUME Inv, LoginsApart, Calm, NEW p \in Req, Step(p) \/ Fail(p)
  PROVE  Calm'
  BY CalmLogInSet, CalmLogInAdd, CalmLogInExpire, CalmRefreshFind, CalmRefreshSet,
     CalmLogOutDel, CalmLogOutRem, CalmDeactivateSet, CalmListGet, CalmListRem,
     CalmAssignRoleSave, CalmAssignPermissionsSave, CalmFindByRole,
     CalmRefreshMembers, CalmRefreshGet, CalmRefreshExec, CalmFail DEF Step

\* A request starts, and a key expires, with the history kept only when no
\* request is in flight.
LEMMA AloneKept ==
  ASSUME [Next]_vars, alone'
  PROVE  /\ alone
         /\ \/ Quiet /\ (Tick \/ \E p \in Req : Start(p))
            \/ \E p \in Req : Step(p) \/ Fail(p)
            \/ UNCHANGED vars
<1>1. ASSUME NEW p \in Req, Start(p) PROVE alone /\ Quiet
  BY <1>1, Zenon
     DEF Start, CanStart, LogIn, Refresh, LogOut, Deactivate, List, AssignRole, AssignPermissions
<1>2. ASSUME NEW p \in Req, Step(p) \/ Fail(p) PROVE alone' = alone
  BY <1>2
     DEF Step, Fail, LogInSet, LogInAdd, LogInExpire, RefreshFind, RefreshSet,
         LogOutDel, LogOutRem, DeactivateSet, ListGet, ListRem,
         AssignRoleSave, AssignPermissionsSave, FindByRole,
         RefreshMembers, RefreshGet, RefreshExec
<1>3. ASSUME Tick PROVE alone /\ Quiet
  BY <1>3, Zenon DEF Tick
<1>4. ASSUME UNCHANGED vars PROVE alone' = alone
  BY <1>4 DEF vars
<1> QED BY <1>1, <1>2, <1>3, <1>4, Zenon DEF Next

LEMMA AloneNext == Inv /\ LoginsApart /\ AloneOK /\ [Next]_vars => AloneOK'
<1> SUFFICES ASSUME Inv, LoginsApart, AloneOK, [Next]_vars, alone' PROVE Calm'
  BY Zenon DEF AloneOK
<1>1. /\ Calm
      /\ \/ Quiet /\ (Tick \/ \E p \in Req : Start(p))
         \/ \E p \in Req : Step(p) \/ Fail(p)
         \/ UNCHANGED vars
  BY AloneKept, Zenon DEF AloneOK
<1>2. ASSUME Quiet, NEW p \in Req, Start(p) PROVE Calm'
  BY <1>1, <1>2, CalmStart, CalmLogIn DEF Start
<1>3. CASE UNCHANGED vars
  BY <1>1, <1>3 DEF vars, Calm, Single, Agrees, Stored, Grants, Pending, Live, Ended,
                    permissionCodes
<1> QED BY <1>1, <1>2, <1>3, CalmSteps, CalmTick

LEMMA AloneInvariance == Spec => []AloneOK
<1>1. Init => AloneOK
  BY CalmInit, Zenon DEF AloneOK
<1> QED BY <1>1, AloneNext, Invariance, ApartInvariance, PTL DEF Spec

-----------------------------------------------------------------------------
(* One request at a time.                                                  *)

\* KEEPTTL of refreshToken, deactivateSession and the propagation never
\* leaves a usable session without an expiry, failed calls or not.
THEOREM SerialSessionsExpire == Spec => []EverySessionExpires
<1>1. Inv /\ AloneOK => EverySessionExpires
  <2> SUFFICES ASSUME Inv, AloneOK, alone PROVE \A s \in issued : ~Ended(s) => ttl[s] > 0
    BY Zenon DEF EverySessionExpires
  <2>1. Calm
    BY Zenon DEF AloneOK
  <2> QED BY <2>1, StoreFacts DEF Calm, Stored, Ended
<1> QED BY <1>1, Invariance, AloneInvariance, PTL

\* user_sessions:<user> holds every usable session id that was handed out,
\* although the set and the sessions expire on their own.
THEOREM SerialIndexComplete == Spec => []IndexIsComplete
<1>1. AloneOK => IndexIsComplete
  <2> SUFFICES ASSUME AloneOK, alone PROVE \A s \in issued : ~Ended(s) => s \in index[owner[s]]
    BY Zenon DEF IndexIsComplete
  <2>1. Calm
    BY Zenon DEF AloneOK
  <2> QED BY <2>1 DEF Calm, Stored, Ended
<1> QED BY <1>1, AloneInvariance, PTL

\* When no call failed, assignRole and assignPermissions have taken what the
\* roles no longer allow out of every usable session before they answer.
THEOREM SerialGrantsCurrent == Spec => []NoStaleGrant
<1>1. AloneOK => NoStaleGrant
  <2> SUFFICES ASSUME AloneOK, Quiet, alone, faults = 0,
                      NEW s \in issued, ~Ended(s)
               PROVE  session[s].perms \subseteq permissionCodes(owner[s])
    BY Zenon DEF NoStaleGrant
  <2>1. Calm
    BY Zenon DEF AloneOK
  <2>2. \A p \in Req : Pending(job[p]) = {}
    BY DEF Quiet, Pending
  <2> QED BY <2>1, <2>2 DEF Calm, Grants
<1> QED BY <1>1, AloneInvariance, PTL

\* A session that logOut, deactivateSession or the expiry ended stays ended,
\* whatever refreshes and propagations write back afterwards.
THEOREM SerialEndingsFinal == Spec => SerialEndingsAreFinal
<1>1. Inv /\ LoginsApart /\ AloneOK /\ [Next]_vars =>
        [alone' => \A s \in issued : Ended(s) => Ended(s)']_vars
  <2> SUFFICES ASSUME Inv, LoginsApart, AloneOK, [Next]_vars, alone',
                      NEW s \in issued, Ended(s)
               PROVE  Ended(s)'
    BY Zenon
  <2>1. Calm
    BY AloneKept, Zenon DEF AloneOK
  <2>2. ASSUME NEW p \in Req, job[p].at \in {"refreshSet", "exec"}, Holds(p, s)
        PROVE  ~job[p].raws[s].active
    BY <2>1, <2>2, InFlight DEF Agrees, Holds, Ended, Live
  <2> QED BY <2>2, Revival
<1> QED BY <1>1, Invariance, ApartInvariance, AloneInvariance, PTL DEF Spec, SerialEndingsAreFinal

-----------------------------------------------------------------------------
(* After the last assignment: the refresh of a session heals it.           *)

\* No assignment, propagation or deactivation is under way at q, and what q is
\* about to write was loaded after the last assignment was saved.
Fresh(q) ==
    /\ job[q].at \notin {"roleSave", "permsSave", "permsFind", "sMembers", "mGet", "exec",
                         "deactivateSet"}
    /\ job[q].at \in {"loginSet", "refreshSet"} => job[q].perms = permissionCodes(job[q].user)

\* The session, if it is there, allows exactly what the owner's roles allow.
Current(s) == Live(s) => session[s].perms = permissionCodes(owner[s])

\* Any sessions, whatever earlier assignments and late writes left in them.
SettledInit == Inv /\ \A q \in Req : Fresh(q)

\* Everything but new assignments and deactivations goes on, and calls fail.
SettledNext ==
    \/ \E p \in Req : \/ LogIn(p) \/ Refresh(p) \/ LogOut(p) \/ List(p)
                      \/ Step(p) \/ Fail(p)
    \/ Tick

Settled == SettledInit /\ [][SettledNext]_vars

\* A current session stays so, and a refresh that goes through makes its
\* session current.
Heals ==
    /\ \A s \in Sid : Current(s) => Current(s)'
    /\ \A p \in Req : RefreshSet(p) => \A s \in job[p].sids : Current(s)'

\* The steps that are left.
LEMMA SettledSteps ==
  ASSUME \A q \in Req : Fresh(q), NEW p \in Req, Step(p)
  PROVE  \/ LogInSet(p) \/ LogInAdd(p) \/ LogInExpire(p)
         \/ RefreshFind(p) \/ RefreshSet(p)
         \/ LogOutDel(p) \/ LogOutRem(p) \/ ListGet(p) \/ ListRem(p)
<1>1. ~DeactivateSet(p)
  BY DEF Fresh, DeactivateSet
<1>2. ~AssignRoleSave(p) /\ ~AssignPermissionsSave(p) /\ ~FindByRole(p)
  BY DEF Fresh, AssignRoleSave, AssignPermissionsSave, FindByRole
<1>3. ~RefreshMembers(p) /\ ~RefreshGet(p) /\ ~RefreshExec(p)
  BY DEF Fresh, RefreshMembers, RefreshGet, RefreshExec
<1> QED BY <1>1, <1>2, <1>3 DEF Step

\* Nobody edits roles.
LEMMA SettledCodes ==
  ASSUME \A q \in Req : Fresh(q), [SettledNext]_vars
  PROVE  \A u : permissionCodes(u)' = permissionCodes(u)
<1>1. ASSUME NEW p \in Req, LogIn(p) \/ Refresh(p) \/ LogOut(p) \/ List(p) \/ Fail(p)
      PROVE  userRoles' = userRoles /\ rolePerms' = rolePerms
  BY <1>1 DEF LogIn, Refresh, LogOut, List, Fail, db
<1>2. ASSUME NEW p \in Req, Step(p)
      PROVE  userRoles' = userRoles /\ rolePerms' = rolePerms
  <2>1. CASE LogInSet(p) \/ LogInAdd(p) \/ LogInExpire(p)
    BY <2>1 DEF LogInSet, LogInAdd, LogInExpire, db
  <2>2. CASE RefreshFind(p) \/ RefreshSet(p)
    BY <2>2 DEF RefreshFind, RefreshSet, db
  <2>3. CASE LogOutDel(p) \/ LogOutRem(p)
    BY <2>3 DEF LogOutDel, LogOutRem, db
  <2>4. CASE ListGet(p) \/ ListRem(p)
    BY <2>4 DEF ListGet, ListRem, db
  <2> QED BY <1>2, <2>1, <2>2, <2>3, <2>4, SettledSteps
<1>3. CASE Tick \/ UNCHANGED vars
  BY <1>3 DEF Tick, vars, db, permissionCodes
<1>4. CASE userRoles' = userRoles /\ rolePerms' = rolePerms
  BY <1>4 DEF permissionCodes
<1> QED BY <1>1, <1>2, <1>3, <1>4 DEF SettledNext

\* The request that takes the step is the only one whose job changes.
LEMMA FreshAfter ==
  ASSUME Inv, \A q \in Req : Fresh(q), NEW p \in Req, NEW j, Goto(p, j),
         \A u : permissionCodes(u)' = permissionCodes(u),
         j.at \notin {"roleSave", "permsSave", "permsFind", "sMembers", "mGet", "exec",
                      "deactivateSet"},
         j.at \in {"loginSet", "refreshSet"} => j.perms = permissionCodes(j.user)
  PROVE  \A q \in Req : Fresh(q)'
<1>1. job'[p] = j /\ \A q \in Req : q # p => job'[q] = job[q]
  BY OthersWait DEF Goto, Inv, StateOK
<1> SUFFICES ASSUME NEW q \in Req PROVE Fresh(q)'
  OBVIOUS
<1>2. CASE q = p
  BY <1>1, <1>2 DEF Fresh
<1>3. CASE q # p
  BY <1>1, <1>3 DEF Fresh
<1> QED BY <1>2, <1>3

LEMMA FreshIdle ==
  ASSUME Inv, \A q \in Req : Fresh(q), NEW p \in Req, Done(p),
         \A u : permissionCodes(u)' = permissionCodes(u)
  PROVE  \A q \in Req : Fresh(q)'
<1>1. PICK i : i = IdleJob
  OBVIOUS
<1>2. i.at = "idle" /\ Goto(p, i)
  BY <1>1 DEF Done, IdleJob
<1> QED BY <1>2, FreshAfter

\* An Advance changes nothing but the place.
LEMMA FreshAdvance ==
  ASSUME Inv, \A q \in Req : Fresh(q), NEW p \in Req,
         NEW at \in {"loginAdd", "loginExpire", "logoutRem"}, Advance(p, at),
         \A u : permissionCodes(u)' = permissionCodes(u)
  PROVE  \A q \in Req : Fresh(q)'
<1>1. PICK j : j = [job[p] EXCEPT !.at = at]
  OBVIOUS
<1>2. Goto(p, j) /\ j.at = at
  BY <1>1, StoreFacts DEF Advance, Goto, Job
<1> QED BY <1>2, FreshAfter

LEMMA FreshNext ==
  ASSUME Inv, \A q \in Req : Fresh(q), [SettledNext]_vars
  PROVE  \A q \in Req : Fresh(q)'
<1>0. \A u : permissionCodes(u)' = permissionCodes(u)
  BY SettledCodes
<1>1. ASSUME NEW p \in Req, LogIn(p) PROVE \A q \in Req : Fresh(q)'
  <2>1. PICK u \in User, s \in Sid :
          Goto(p, [IdleJob EXCEPT !.at = "loginSet", !.user = u, !.sids = {s},
                                  !.perms = permissionCodes(u)])
    BY <1>1 DEF LogIn
  <2>2. PICK j : j = [IdleJob EXCEPT !.at = "loginSet", !.user = u, !.sids = {s},
                                     !.perms = permissionCodes(u)]
    OBVIOUS
  <2>3. Goto(p, j)
    BY <2>1, <2>2
  <2>4. j.at = "loginSet" /\ j.perms = permissionCodes(u) /\ j.user = u
    BY <2>2 DEF IdleJob
  <2> QED BY <1>0, <2>3, <2>4, FreshAfter
<1>2. ASSUME NEW p \in Req, Refresh(p) PROVE \A q \in Req : Fresh(q)'
  <2>1. PICK s \in issued :
          Goto(p, [IdleJob EXCEPT !.at = "refreshFind", !.user = session[s].user,
                    !.sids = {s}, !.raws = [NoRaws EXCEPT ![s] = session[s]]])
    BY <1>2 DEF Refresh
  <2>2. PICK j : j = [IdleJob EXCEPT !.at = "refreshFind", !.user = session[s].user,
                    !.sids = {s}, !.raws = [NoRaws EXCEPT ![s] = session[s]]]
    OBVIOUS
  <2>3. Goto(p, j)
    BY <2>1, <2>2
  <2>4. j.at = "refreshFind"
    BY <2>2 DEF IdleJob
  <2> QED BY <1>0, <2>3, <2>4, FreshAfter
<1>3. ASSUME NEW p \in Req, LogOut(p) PROVE \A q \in Req : Fresh(q)'
  <2>1. PICK s \in issued :
          Goto(p, [IdleJob EXCEPT !.at = "logoutDel", !.user = session[s].user, !.sids = {s}])
    BY <1>3 DEF LogOut
  <2>2. PICK j : j = [IdleJob EXCEPT !.at = "logoutDel", !.user = session[s].user, !.sids = {s}]
    OBVIOUS
  <2>3. Goto(p, j)
    BY <2>1, <2>2
  <2>4. j.at = "logoutDel"
    BY <2>2 DEF IdleJob
  <2> QED BY <1>0, <2>3, <2>4, FreshAfter
<1>4. ASSUME NEW p \in Req, List(p) PROVE \A q \in Req : Fresh(q)'
  <2>1. PICK u \in User :
          Goto(p, [IdleJob EXCEPT !.at = "listGet", !.user = u, !.sids = index[u]])
    BY <1>4 DEF List
  <2>2. PICK j : j = [IdleJob EXCEPT !.at = "listGet", !.user = u, !.sids = index[u]]
    OBVIOUS
  <2>3. Goto(p, j)
    BY <2>1, <2>2
  <2>4. j.at = "listGet"
    BY <2>2 DEF IdleJob
  <2> QED BY <1>0, <2>3, <2>4, FreshAfter
<1>5. ASSUME NEW p \in Req, RefreshFind(p) PROVE \A q \in Req : Fresh(q)'
  <2>1. PICK j : j = [job[p] EXCEPT !.at = "refreshSet", !.perms = permissionCodes(job[p].user)]
    OBVIOUS
  <2>2. Goto(p, j)
    BY <1>5, <2>1 DEF RefreshFind
  <2>3. j.at = "refreshSet" /\ j.user = job[p].user /\ j.perms = permissionCodes(j.user)
    BY <2>1, StoreFacts DEF Job
  <2> QED BY <1>0, <2>2, <2>3, FreshAfter
<1>6. ASSUME NEW p \in Req, ListGet(p) PROVE \A q \in Req : Fresh(q)'
  <2>1. PICK G : G = {s \in job[p].sids : ~Live(s)}
    OBVIOUS
  <2>2. PICK j : j = IF G = {} THEN IdleJob ELSE [job[p] EXCEPT !.at = "listRem", !.sids = G]
    OBVIOUS
  <2>3. Goto(p, j)
    BY <1>6, <2>1, <2>2 DEF ListGet
  <2>4. j.at \in {"idle", "listRem"}
    BY <2>2, StoreFacts DEF Job, IdleJob
  <2> QED BY <1>0, <2>3, <2>4, FreshAfter
<1>7. ASSUME NEW p \in Req, ListRem(p) PROVE \A q \in Req : Fresh(q)'
  <2>1. PICK s \in job[p].sids :
          Goto(p, IF job[p].sids = {s} THEN IdleJob ELSE [job[p] EXCEPT !.sids = @ \ {s}])
    BY <1>7 DEF ListRem
  <2>2. PICK j : j = IF job[p].sids = {s} THEN IdleJob ELSE [job[p] EXCEPT !.sids = @ \ {s}]
    OBVIOUS
  <2>3. Goto(p, j)
    BY <2>1, <2>2
  <2>4. j.at \in {"idle", "listRem"}
    BY <1>7, <2>2, StoreFacts DEF ListRem, Job, IdleJob
  <2> QED BY <1>0, <2>3, <2>4, FreshAfter
<1>8. ASSUME NEW p \in Req, LogInSet(p) \/ LogInAdd(p) \/ LogOutDel(p)
      PROVE \A q \in Req : Fresh(q)'
  <2>1. Advance(p, "loginAdd") \/ Advance(p, "loginExpire") \/ Advance(p, "logoutRem")
    BY <1>8 DEF LogInSet, LogInAdd, LogOutDel
  <2> QED BY <1>0, <2>1, FreshAdvance
<1>9. ASSUME NEW p \in Req, LogInExpire(p) \/ RefreshSet(p) \/ LogOutRem(p) \/ Fail(p)
      PROVE \A q \in Req : Fresh(q)'
  <2>1. Done(p)
    BY <1>9 DEF LogInExpire, RefreshSet, LogOutRem, Fail
  <2> QED BY <1>0, <2>1, FreshIdle
<1>10. CASE Tick \/ UNCHANGED vars
  <2>1. job' = job
    BY <1>10 DEF Tick, vars
  <2> QED BY <1>0, <2>1 DEF Fresh
<1>11. ASSUME NEW p \in Req, Step(p) PROVE \A q \in Req : Fresh(q)'
  BY <1>5, <1>6, <1>7, <1>8, <1>9, <1>11, SettledSteps
<1> QED BY <1>1, <1>2, <1>3, <1>4, <1>9, <1>10, <1>11 DEF SettledNext

\* What is left of Next.
LEMMA SettledIsNext == [SettledNext]_vars => [Next]_vars
  BY DEF SettledNext, Next, Start

\* A step keeps the owners of the sessions that are there.
LEMMA OwnersKept ==
  ASSUME Inv, [SettledNext]_vars, NEW s \in Sid, owner[s] # None
  PROVE  owner'[s] = owner[s]
<1>0. owner \in [Sid -> User \union {None}]
  BY DEF Inv, StateOK
<1>1. ASSUME NEW p \in Req, LogIn(p) PROVE owner'[s] = owner[s]
  BY <1>0, <1>1 DEF LogIn
<1>2. ASSUME NEW p \in Req, Refresh(p) \/ LogOut(p) \/ List(p) \/ Fail(p)
      PROVE  owner' = owner
  BY <1>2 DEF Refresh, LogOut, List, Fail, clients
<1>3. ASSUME NEW p \in Req, Step(p) PROVE owner' = owner
  <2>1. CASE LogInSet(p) \/ LogInAdd(p) \/ LogInExpire(p)
    BY <2>1 DEF LogInSet, LogInAdd, LogInExpire, clients
  <2>2. CASE RefreshFind(p) \/ RefreshSet(p) \/ LogOutDel(p) \/ LogOutRem(p) \/ DeactivateSet(p)
    BY <2>2 DEF RefreshFind, RefreshSet, LogOutDel, LogOutRem, DeactivateSet, clients
  <2>3. CASE ListGet(p) \/ ListRem(p)
    BY <2>3 DEF ListGet, ListRem, clients
  <2>4. CASE AssignRoleSave(p) \/ AssignPermissionsSave(p) \/ FindByRole(p)
    BY <2>4 DEF AssignRoleSave, AssignPermissionsSave, FindByRole, clients
  <2>5. CASE RefreshMembers(p) \/ RefreshGet(p) \/ RefreshExec(p)
    BY <2>5 DEF RefreshMembers, RefreshGet, RefreshExec, clients
  <2> QED BY <1>3, <2>1, <2>2, <2>3, <2>4, <2>5 DEF Step
<1>4. CASE Tick \/ UNCHANGED vars
  BY <1>4 DEF Tick, vars, clients
<1> QED BY <1>1, <1>2, <1>3, <1>4 DEF SettledNext

\* refreshToken and logIn write what the roles allow.
LEMMA WritesCurrent ==
  ASSUME Inv, \A q \in Req : Fresh(q), [SettledNext]_vars, NEW p \in Req,
         LogInSet(p) \/ RefreshSet(p), NEW s \in job[p].sids
  PROVE  Current(s)'
<1>0. \A u : permissionCodes(u)' = permissionCodes(u)
  BY SettledCodes
<1>1. /\ job[p].at \in {"loginSet", "refreshSet"} /\ job[p] \in Job /\ s \in Sid
      /\ job[p].perms = permissionCodes(job[p].user)
  BY StoreFacts DEF LogInSet, RefreshSet, Fresh, Job
<1>2. owner[s] = job[p].user /\ owner' = owner
  BY <1>1, StoreFacts DEF JobOK, LogInSet, RefreshSet, clients
<1>3. CASE LogInSet(p)
  BY <1>0, <1>1, <1>2, <1>3 DEF LogInSet, Current, Live
<1>4. CASE RefreshSet(p)
  <2>1. job[p].raws[s] \in Session
    BY <1>1, <1>4, StoreFacts DEF RefreshSet, JobOK, Job, MaybeSession
  <2>2. session'[s] = [job[p].raws[s] EXCEPT !.perms = job[p].perms]
    BY <1>1, <1>4 DEF RefreshSet, SetKeepTtl
  <2>3. session'[s].perms = job[p].perms
    BY <2>1, <2>2 DEF Session
  <2> QED BY <1>0, <1>1, <1>2, <2>3 DEF Current
<1> QED BY <1>3, <1>4

\* Every other step leaves a session as it is, or removes it.
LEMMA OtherwiseKept ==
  ASSUME Inv, \A q \in Req : Fresh(q), [SettledNext]_vars, NEW s \in Sid,
         \A p \in Req : LogInSet(p) \/ RefreshSet(p) => s \notin job[p].sids
  PROVE  session'[s] \in {session[s], None}
<1>0. session \in [Sid -> MaybeSession]
  BY StoreFacts
<1>1. ASSUME NEW p \in Req, LogIn(p) \/ Refresh(p) \/ LogOut(p) \/ List(p) \/ Fail(p)
      PROVE  session' = session
  BY <1>1 DEF LogIn, Refresh, LogOut, List, Fail, redis
<1>2. ASSUME NEW p \in Req, LogInSet(p) PROVE session'[s] = session[s]
  <2>1. s \notin job[p].sids
    BY <1>2
  <2> QED BY <1>0, <1>2, <2>1 DEF LogInSet
<1>3. ASSUME NEW p \in Req, RefreshSet(p) PROVE session'[s] = session[s]
  <2>1. s \notin job[p].sids
    BY <1>3
  <2> QED BY <1>0, <1>3, <2>1 DEF RefreshSet, SetKeepTtl
<1>4. ASSUME NEW p \in Req, LogOutDel(p) PROVE session'[s] \in {session[s], None}
  BY <1>0, <1>4 DEF LogOutDel
<1>5. ASSUME NEW p \in Req, \/ LogInAdd(p) \/ LogInExpire(p) \/ RefreshFind(p)
                            \/ LogOutRem(p) \/ ListGet(p) \/ ListRem(p)
      PROVE  session' = session
  BY <1>5 DEF LogInAdd, LogInExpire, RefreshFind, LogOutRem, ListGet, ListRem, redis
<1>6. CASE Tick
  BY <1>0, <1>6 DEF Tick
<1>7. CASE UNCHANGED vars
  BY <1>7 DEF vars
<1>8. ASSUME NEW p \in Req, Step(p) PROVE session'[s] \in {session[s], None}
  BY <1>2, <1>3, <1>4, <1>5, <1>8, SettledSteps
<1> QED BY <1>1, <1>6, <1>7, <1>8 DEF SettledNext

LEMMA CurrentKept ==
  ASSUME Inv, \A q \in Req : Fresh(q), [SettledNext]_vars, NEW s \in Sid, Current(s)
  PROVE  Current(s)'
<1>1. CASE \E p \in Req : (LogInSet(p) \/ RefreshSet(p)) /\ s \in job[p].sids
  BY <1>1, WritesCurrent
<1>2. CASE \A p \in Req : LogInSet(p) \/ RefreshSet(p) => s \notin job[p].sids
  <2>1. session'[s] \in {session[s], None}
    BY <1>2, OtherwiseKept
  <2>2. CASE session'[s] = None
    BY <2>2 DEF Current, Live
  <2>3. CASE session'[s] = session[s] /\ session[s] # None
    <3>1. owner[s] # None
      BY <2>3, LiveSession, SessionsConstants DEF Live
    <3>2. owner'[s] = owner[s]
      BY <3>1, OwnersKept
    <3>3. permissionCodes(owner[s])' = permissionCodes(owner[s])
      BY <3>2, SettledCodes, CodesKept
    <3> QED BY <2>3, <3>2, <3>3 DEF Current, Live
  <2> QED BY <2>1, <2>2, <2>3
<1> QED BY <1>1, <1>2

\* Once the requests that read before the last assignment are through, every
\* refreshToken that completes leaves its session with exactly the permissions
\* of the user's roles, and no login, refresh, logout, listing, expiry or failed
\* call changes that again: what RefreshConverges needs of every single step.
THEOREM RefreshHeals == Settled => [][Heals]_vars
<1>1. SettledInit => Inv /\ \A q \in Req : Fresh(q)
  BY DEF SettledInit
<1>2. ASSUME Inv, \A q \in Req : Fresh(q), [SettledNext]_vars
      PROVE  Inv' /\ (\A q \in Req : Fresh(q))'
  <2>1. Inv'
    BY <1>2, SettledIsNext, InvNext
  <2>2. \A q \in Req : Fresh(q)'
    BY <1>2, FreshNext
  <2> QED BY <2>1, <2>2
<1>3. ASSUME Inv, \A q \in Req : Fresh(q), [SettledNext]_vars
      PROVE  Heals
  <2>1. \A s \in Sid : Current(s) => Current(s)'
    BY <1>3, CurrentKept
  <2>2. \A p \in Req : RefreshSet(p) => \A s \in job[p].sids : Current(s)'
    BY <1>3, WritesCurrent
  <2> QED BY <2>1, <2>2 DEF Heals
<1> QED BY <1>1, <1>2, <1>3, PTL DEF Settled

-----------------------------------------------------------------------------
(* Every request ends.                                                     *)

\* A bound on the calls to Redis and Postgres that the request is still going to
\* make: three per user to be refreshed, one per dead index entry.
CallsLeft(j) ==
    CASE j.at = "idle" -> 0
      [] j.at = "loginExpire" -> 1
      [] j.at = "loginAdd" -> 2
      [] j.at = "loginSet" -> 3
      [] j.at = "refreshSet" -> 1
      [] j.at = "refreshFind" -> 2
      [] j.at = "logoutRem" -> 1
      [] j.at = "logoutDel" -> 2
      [] j.at = "deactivateSet" -> 1
      [] j.at = "listRem" -> Cardinality(j.sids) + 1
      [] j.at = "listGet" -> Cardinality(j.sids) + 2
      [] j.at = "exec" -> 3 * Cardinality(j.todo) - 1
      [] j.at = "mGet" -> 3 * Cardinality(j.todo)
      [] j.at = "sMembers" -> 3 * Cardinality(j.todo) + 1
      [] j.at = "roleSave" -> 5
      [] j.at = "permsFind" -> 3 * Cardinality(User) + 2
      [] j.at = "permsSave" -> 3 * Cardinality(User) + 3

\* A request in flight changes only towards its end.
Advances(p) ==
    job[p].at # "idle" /\ (Step(p) \/ job'[p] # job[p])
        => CallsLeft(job'[p]) \in Nat /\ CallsLeft(job'[p]) < CallsLeft(job[p])

\* Postgres and Redis hold finitely many users and sessions.
FiniteStore == IsFiniteSet(User) /\ IsFiniteSet(Sid)

LEMMA OneLess ==
  ASSUME NEW S, IsFiniteSet(S), NEW x \in S
  PROVE  /\ Cardinality(S) \in Nat /\ Cardinality(S) > 0
         /\ IsFiniteSet(S \ {x}) /\ Cardinality(S \ {x}) = Cardinality(S) - 1
<1>1. Cardinality(S) \in Nat
  BY FS_CardinalityType
<1>2. Cardinality(S) # 0
  BY FS_EmptySet
<1>3. IsFiniteSet(S \ {x}) /\ Cardinality(S \ {x}) = Cardinality(S) - 1
  BY FS_RemoveElement
<1> QED BY <1>1, <1>2, <1>3

\* The sets that a request carries are finite.
LEMMA JobFinite ==
  ASSUME FiniteStore, NEW j \in Job
  PROVE  /\ IsFiniteSet(j.sids) /\ Cardinality(j.sids) \in Nat
         /\ IsFiniteSet(j.todo) /\ Cardinality(j.todo) \in Nat
<1>1. j.sids \in SUBSET Sid /\ j.todo \in SUBSET User
  BY DEF Job
<1>2. IsFiniteSet(j.sids) /\ IsFiniteSet(j.todo)
  BY <1>1, FS_Subset DEF FiniteStore
<1> QED BY <1>2, FS_CardinalityType

\* After the sessions of one user the request has three calls less to make.
LEMMA NextUserAdvances ==
  ASSUME Inv, FiniteStore, NEW p \in Req, NEW u \in job[p].todo, NEW k, k = NextUser(p, u)
  PROVE  /\ Cardinality(job[p].todo) \in Nat /\ Cardinality(job[p].todo) > 0
         /\ CallsLeft(k) \in Nat
         /\ CallsLeft(k) <= 3 * Cardinality(job[p].todo) - 2
<1>0. job[p] \in Job
  BY StoreFacts
<1> PICK T : T = job[p].todo
  OBVIOUS
<1>1. /\ Cardinality(T) \in Nat /\ Cardinality(T) > 0
      /\ Cardinality(T \ {u}) = Cardinality(T) - 1
  BY <1>0, JobFinite, OneLess
<1>2. CASE T = {u}
  <2>1. k.at = "idle"
    BY <1>2 DEF NextUser, IdleJob
  <2> QED BY <1>1, <2>1 DEF CallsLeft
<1>3. CASE T # {u}
  <2>1. k.at = "sMembers" /\ k.todo = T \ {u}
    BY <1>3 DEF NextUser, Propagation, IdleJob
  <2>2. CallsLeft(k) = 3 * Cardinality(T \ {u}) + 1
    BY <2>1 DEF CallsLeft
  <2> QED BY <1>1, <2>2
<1> QED BY <1>2, <1>3

\* A request in flight has a call to wait for.
LEMMA InFlightWaits ==
  ASSUME Inv, FiniteStore, NEW p \in Req, job[p].at # "idle"
  PROVE  CallsLeft(job[p]) \in Nat /\ CallsLeft(job[p]) > 0
<1>0. job[p] \in Job /\ job[p].at \in At
  BY StoreFacts DEF Job
<1>1. Cardinality(User) \in Nat
  BY FS_CardinalityType DEF FiniteStore
<1>2. Cardinality(job[p].sids) \in Nat /\ Cardinality(job[p].todo) \in Nat
  BY <1>0, JobFinite
<1>3. ASSUME job[p].at \in {"mGet", "exec"} PROVE Cardinality(job[p].todo) > 0
  BY <1>0, <1>3, StoreFacts, JobFinite, OneLess DEF JobOK
<1>4. CASE job[p].at = "listRem"
  BY <1>2, <1>4 DEF CallsLeft
<1>5. CASE job[p].at = "listGet"
  BY <1>2, <1>5 DEF CallsLeft
<1>6. CASE job[p].at = "mGet"
  BY <1>2, <1>3, <1>6 DEF CallsLeft
<1>7. CASE job[p].at = "exec"
  BY <1>2, <1>3, <1>7 DEF CallsLeft
<1>8. CASE job[p].at = "sMembers"
  BY <1>2, <1>8 DEF CallsLeft
<1>9. CASE job[p].at = "permsFind"
  BY <1>1, <1>9 DEF CallsLeft
<1>10. CASE job[p].at = "permsSave"
  BY <1>1, <1>10 DEF CallsLeft
<1>11. CASE job[p].at = "roleSave"
  BY <1>11 DEF CallsLeft
<1>12. CASE job[p].at = "loginSet"
  BY <1>12 DEF CallsLeft
<1>13. CASE job[p].at = "loginAdd"
  BY <1>13 DEF CallsLeft
<1>14. CASE job[p].at = "loginExpire"
  BY <1>14 DEF CallsLeft
<1>15. CASE job[p].at = "refreshFind"
  BY <1>15 DEF CallsLeft
<1>16. CASE job[p].at = "refreshSet"
  BY <1>16 DEF CallsLeft
<1>17. CASE job[p].at = "deactivateSet"
  BY <1>17 DEF CallsLeft
<1>18. CASE job[p].at = "logoutDel"
  BY <1>18 DEF CallsLeft
<1>19. CASE job[p].at = "logoutRem"
  BY <1>19 DEF CallsLeft
<1> QED BY <1>0, <1>4, <1>5, <1>6, <1>7, <1>8, <1>9, <1>10, <1>11,
           <1>12, <1>13, <1>14, <1>15, <1>16, <1>17, <1>18, <1>19 DEF At

\* The request is where Goto puts it.
LEMMA Arrives ==
  ASSUME Inv, NEW p \in Req, NEW k, Goto(p, k)
  PROVE  job'[p] = k
  BY DEF Goto, Inv, StateOK

LEMMA ArrivesIdle ==
  ASSUME Inv, NEW p \in Req, Done(p)
  PROVE  CallsLeft(job'[p]) = 0
<1>1. job'[p] = IdleJob
  BY Arrives DEF Done
<1>2. job'[p].at = "idle"
  BY <1>1 DEF IdleJob
<1> QED BY <1>2 DEF CallsLeft

LEMMA ArrivesAt ==
  ASSUME Inv, NEW p \in Req, NEW at \in At, Advance(p, at)
  PROVE  /\ job'[p].at = at /\ job'[p].sids = job[p].sids /\ job'[p].todo = job[p].todo
  BY StoreFacts DEF Advance, Job, Inv, StateOK

Falls(p) == CallsLeft(job'[p]) \in Nat /\ CallsLeft(job'[p]) < CallsLeft(job[p])

\* Whatever a request was doing, it is done.
LEMMA DoneFalls ==
  ASSUME Inv, FiniteStore, NEW p \in Req, Done(p), job[p].at # "idle"
  PROVE  Falls(p)
<1>1. CallsLeft(job'[p]) = 0
  BY ArrivesIdle
<1>2. CallsLeft(job[p]) \in Nat /\ CallsLeft(job[p]) > 0
  BY InFlightWaits
<1> QED BY <1>1, <1>2 DEF Falls

\* logIn, refreshToken, logOut.
LEMMA AdvanceFalls ==
  ASSUME Inv, NEW p \in Req,
         LogInSet(p) \/ LogInAdd(p) \/ LogOutDel(p) \/ RefreshFind(p)
  PROVE  Falls(p)
<1>1. CASE LogInSet(p)
  <2>1. job[p].at = "loginSet" /\ Advance(p, "loginAdd") /\ "loginAdd" \in At
    BY <1>1 DEF LogInSet, At
  <2>2. job'[p].at = "loginAdd"
    BY <2>1, ArrivesAt
  <2>3. CallsLeft(job[p]) = 3 /\ CallsLeft(job'[p]) = 2
    BY <2>1, <2>2 DEF CallsLeft
  <2> QED BY <2>3 DEF Falls
<1>2. CASE LogInAdd(p)
  <2>1. job[p].at = "loginAdd" /\ Advance(p, "loginExpire") /\ "loginExpire" \in At
    BY <1>2 DEF LogInAdd, At
  <2>2. job'[p].at = "loginExpire"
    BY <2>1, ArrivesAt
  <2>3. CallsLeft(job[p]) = 2 /\ CallsLeft(job'[p]) = 1
    BY <2>1, <2>2 DEF CallsLeft
  <2> QED BY <2>3 DEF Falls
<1>3. CASE LogOutDel(p)
  <2>1. job[p].at = "logoutDel" /\ Advance(p, "logoutRem") /\ "logoutRem" \in At
    BY <1>3 DEF LogOutDel, At
  <2>2. job'[p].at = "logoutRem"
    BY <2>1, ArrivesAt
  <2>3. CallsLeft(job[p]) = 2 /\ CallsLeft(job'[p]) = 1
    BY <2>1, <2>2 DEF CallsLeft
  <2> QED BY <2>3 DEF Falls
<1>4. CASE RefreshFind(p)
  <2> PICK k : k = [job[p] EXCEPT !.at = "refreshSet", !.perms = permissionCodes(job[p].user)]
    OBVIOUS
  <2>1. job[p].at = "refreshFind" /\ Goto(p, k)
    BY <1>4 DEF RefreshFind
  <2>2. k.at = "refreshSet" /\ job'[p] = k
    BY <2>1, StoreFacts, Arrives DEF Job
  <2>3. CallsLeft(job[p]) = 2 /\ CallsLeft(job'[p]) = 1
    BY <2>1, <2>2 DEF CallsLeft
  <2> QED BY <2>3 DEF Falls
<1> QED BY <1>1, <1>2, <1>3, <1>4

\* findUserSessions: the loop is over the ids read at the start.
LEMMA ListFalls ==
  ASSUME Inv, FiniteStore, NEW p \in Req, ListGet(p) \/ ListRem(p)
  PROVE  Falls(p)
<1>0. job[p] \in Job /\ job[p].sids \in SUBSET Sid
  BY StoreFacts DEF Job
<1>1. IsFiniteSet(job[p].sids) /\ Cardinality(job[p].sids) \in Nat
  BY <1>0, JobFinite
<1>2. CASE ListGet(p)
  <2> PICK G : G = {s \in job[p].sids : ~Live(s)}
    OBVIOUS
  <2>1. job[p].at = "listGet"
        /\ Goto(p, IF G = {} THEN IdleJob ELSE [job[p] EXCEPT !.at = "listRem", !.sids = G])
    BY <1>2 DEF ListGet
  <2>2. CallsLeft(job[p]) = Cardinality(job[p].sids) + 2
    BY <2>1 DEF CallsLeft
  <2>3. CASE G = {}
    <3>1. Done(p)
      BY <2>1, <2>3 DEF Done
    <3> QED BY <2>1, <3>1, DoneFalls
  <2>4. CASE G # {}
    <3>1. Cardinality(G) \in Nat /\ Cardinality(G) <= Cardinality(job[p].sids)
      <4>1. G \in SUBSET job[p].sids
        OBVIOUS
      <4> QED BY <1>1, <4>1, FS_Subset, FS_CardinalityType
    <3> PICK k : k = [job[p] EXCEPT !.at = "listRem", !.sids = G]
      OBVIOUS
    <3>2. job'[p] = k
      BY <2>1, <2>4, Arrives
    <3>3. job'[p].at = "listRem" /\ job'[p].sids = G
      BY <1>0, <3>2 DEF Job
    <3>4. CallsLeft(job'[p]) = Cardinality(G) + 1
      BY <3>3 DEF CallsLeft
    <3> QED BY <1>1, <2>2, <3>1, <3>4 DEF Falls
  <2> QED BY <2>3, <2>4
<1>3. CASE ListRem(p)
  <2>1. PICK s \in job[p].sids :
          /\ job[p].at = "listRem"
          /\ Goto(p, IF job[p].sids = {s} THEN IdleJob ELSE [job[p] EXCEPT !.sids = @ \ {s}])
    BY <1>3 DEF ListRem
  <2>2. CallsLeft(job[p]) = Cardinality(job[p].sids) + 1
    BY <2>1 DEF CallsLeft
  <2>3. CASE job[p].sids = {s}
    <3>1. Done(p)
      BY <2>1, <2>3 DEF Done
    <3> QED BY <2>1, <3>1, DoneFalls
  <2>4. CASE job[p].sids # {s}
    <3> PICK S : S = job[p].sids \ {s}
      OBVIOUS
    <3>1. Cardinality(S) \in Nat /\ Cardinality(S) < Cardinality(job[p].sids)
      <4>1. IsFiniteSet(S) /\ Cardinality(S) = Cardinality(job[p].sids) - 1
        BY <1>1, OneLess
      <4>2. Cardinality(S) \in Nat
        BY <4>1, FS_CardinalityType
      <4> QED BY <1>1, <4>1, <4>2
    <3> PICK k : k = [job[p] EXCEPT !.sids = S]
      OBVIOUS
    <3>2. job'[p] = k
      BY <2>1, <2>4, Arrives
    <3>3. job'[p].at = "listRem" /\ job'[p].sids = S
      BY <1>0, <2>1, <3>2 DEF Job
    <3>4. CallsLeft(job'[p]) = Cardinality(S) + 1
      BY <3>3 DEF CallsLeft
    <3> QED BY <1>1, <2>2, <3>1, <3>4 DEF Falls
  <2> QED BY <2>3, <2>4
<1> QED BY <1>2, <1>3

\* assignRole and assignPermissions up to the propagation.
LEMMA AssignFalls ==
  ASSUME Inv, FiniteStore, NEW p \in Req,
         AssignRoleSave(p) \/ AssignPermissionsSave(p) \/ FindByRole(p)
  PROVE  Falls(p)
<1>0. job[p] \in Job /\ job[p].perms \in SUBSET Perm /\ job[p].roles \in SUBSET Role
  BY StoreFacts DEF Job
<1>1. Cardinality(User) \in Nat
  BY FS_CardinalityType DEF FiniteStore
<1>2. CASE AssignRoleSave(p)
  <2>1. job[p].at = "roleSave" /\ Goto(p, Propagation({job[p].user}, job[p].perms))
    BY <1>2 DEF AssignRoleSave
  <2>2. job'[p] = Propagation({job[p].user}, job[p].perms)
    BY <2>1, Arrives
  <2>3. job'[p].at = "sMembers" /\ job'[p].todo = {job[p].user}
    BY <2>2 DEF Propagation, IdleJob
  <2>4. Cardinality(job'[p].todo) = 1
    BY <2>3, FS_Singleton
  <2>5. CallsLeft(job[p]) = 5
    BY <2>1 DEF CallsLeft
  <2>6. CallsLeft(job'[p]) = 3 * Cardinality(job'[p].todo) + 1
    BY <2>3 DEF CallsLeft
  <2> QED BY <2>4, <2>5, <2>6 DEF Falls
<1>3. CASE AssignPermissionsSave(p)
  <2>1. job[p].at = "permsSave" /\ Advance(p, "permsFind") /\ "permsFind" \in At
    BY <1>3 DEF AssignPermissionsSave, At
  <2>2. job'[p].at = "permsFind"
    BY <2>1, ArrivesAt
  <2>3. CallsLeft(job[p]) = 3 * Cardinality(User) + 3
    BY <2>1 DEF CallsLeft
  <2>4. CallsLeft(job'[p]) = 3 * Cardinality(User) + 2
    BY <2>2 DEF CallsLeft
  <2> QED BY <1>1, <2>3, <2>4 DEF Falls
<1>4. CASE FindByRole(p)
  <2> PICK F : F = {u \in User : job[p].roles \subseteq userRoles[u]}
    OBVIOUS
  <2> PICK Q : Q = UNION {rolePerms[r] : r \in job[p].roles}
    OBVIOUS
  <2>1. job[p].at = "permsFind" /\ Goto(p, IF F = {} THEN IdleJob ELSE Propagation(F, Q))
    BY <1>4 DEF FindByRole
  <2>2. CallsLeft(job[p]) = 3 * Cardinality(User) + 2
    BY <2>1 DEF CallsLeft
  <2>3. CASE F = {}
    <3>1. Done(p)
      BY <2>1, <2>3 DEF Done
    <3> QED BY <2>1, <3>1, DoneFalls
  <2>4. CASE F # {}
    <3>1. Cardinality(F) \in Nat /\ Cardinality(F) <= Cardinality(User)
      <4>1. F \in SUBSET User
        OBVIOUS
      <4> QED BY <4>1, FS_Subset, FS_CardinalityType DEF FiniteStore
    <3>2. job'[p] = Propagation(F, Q)
      BY <2>1, <2>4, Arrives
    <3>3. job'[p].at = "sMembers" /\ job'[p].todo = F
      BY <3>2 DEF Propagation, IdleJob
    <3>4. CallsLeft(job'[p]) = 3 * Cardinality(F) + 1
      BY <3>3 DEF CallsLeft
    <3> QED BY <1>1, <2>2, <3>1, <3>4 DEF Falls
  <2> QED BY <2>3, <2>4
<1> QED BY <1>2, <1>3, <1>4

\* refreshSessionPermissions: SMEMBERS, MGET and EXEC, user by user.
LEMMA PropagationFalls ==
  ASSUME Inv, FiniteStore, NEW p \in Req,
         RefreshMembers(p) \/ RefreshGet(p) \/ RefreshExec(p)
  PROVE  Falls(p)
<1>0. job[p] \in Job
  BY StoreFacts
<1>1. CASE RefreshMembers(p)
  <2>1. PICK u \in job[p].todo :
          /\ job[p].at = "sMembers"
          /\ Goto(p, IF index[u] = {} THEN NextUser(p, u)
                     ELSE [job[p] EXCEPT !.at = "mGet", !.user = u, !.sids = index[u]])
    BY <1>1 DEF RefreshMembers
  <2> PICK n : n = Cardinality(job[p].todo)
    OBVIOUS
  <2>2. n \in Nat /\ n > 0 /\ CallsLeft(NextUser(p, u)) \in Nat
        /\ CallsLeft(NextUser(p, u)) <= 3 * n - 2
    BY NextUserAdvances
  <2>3. CallsLeft(job[p]) = 3 * n + 1
    BY <2>1 DEF CallsLeft
  <2>4. CASE index[u] = {}
    <3>1. job'[p] = NextUser(p, u)
      BY <2>1, <2>4, Arrives
    <3> QED BY <2>2, <2>3, <3>1 DEF Falls
  <2>5. CASE index[u] # {}
    <3> PICK k : k = [job[p] EXCEPT !.at = "mGet", !.user = u, !.sids = index[u]]
      OBVIOUS
    <3>1. job'[p] = k
      BY <2>1, <2>5, Arrives
    <3>2. job'[p].at = "mGet" /\ job'[p].todo = job[p].todo
      BY <1>0, <3>1 DEF Job
    <3>3. CallsLeft(job'[p]) = 3 * n
      BY <3>2 DEF CallsLeft
    <3> QED BY <2>2, <2>3, <3>3 DEF Falls
  <2> QED BY <2>4, <2>5
<1>2. ASSUME job[p].at \in {"mGet", "exec"}
      PROVE  job[p].user \in job[p].todo
  BY <1>2, StoreFacts DEF JobOK
<1>3. CASE RefreshGet(p)
  <2>a. PICK R : R = [s \in Sid |-> IF s \in job[p].sids THEN session[s] ELSE None]
    OBVIOUS
  <2>b. PICK k : k = [job[p] EXCEPT !.at = "exec", !.raws = R]
    OBVIOUS
  <2>c. k.at = "exec" /\ k.todo = job[p].todo
    BY <1>0, <2>b DEF Job
  <2> PICK n : n = Cardinality(job[p].todo)
    OBVIOUS
  <2>1. job[p].at = "mGet" /\ Goto(p, k)
    BY <1>3, <2>a, <2>b DEF RefreshGet
  <2>2. job'[p].at = "exec" /\ job'[p].todo = job[p].todo
    BY <2>1, <2>c, Arrives
  <2>3. n \in Nat /\ n > 0
    BY <1>2, <2>1, NextUserAdvances
  <2>4. CallsLeft(job[p]) = 3 * n
    BY <2>1 DEF CallsLeft
  <2>5. CallsLeft(job'[p]) = 3 * n - 1
    BY <2>2 DEF CallsLeft
  <2> QED BY <2>3, <2>4, <2>5 DEF Falls
<1>4. CASE RefreshExec(p)
  <2> PICK u : u = job[p].user
    OBVIOUS
  <2> PICK n : n = Cardinality(job[p].todo)
    OBVIOUS
  <2>1. job[p].at = "exec" /\ Goto(p, NextUser(p, u))
    BY <1>4 DEF RefreshExec
  <2>2. job'[p] = NextUser(p, u)
    BY <2>1, Arrives
  <2>3. n \in Nat /\ n > 0 /\ CallsLeft(NextUser(p, u)) \in Nat
        /\ CallsLeft(NextUser(p, u)) <= 3 * n - 2
    BY <1>2, <2>1, NextUserAdvances
  <2>4. CallsLeft(job[p]) = 3 * n - 1
    BY <2>1 DEF CallsLeft
  <2> QED BY <2>2, <2>3, <2>4 DEF Falls
<1> QED BY <1>1, <1>3, <1>4

LEMMA StepFalls ==
  ASSUME Inv, FiniteStore, NEW p \in Req, Step(p) \/ Fail(p)
  PROVE  Falls(p)
<1>1. CASE LogInExpire(p)
  BY <1>1, DoneFalls DEF LogInExpire
<1>2. CASE RefreshSet(p)
  BY <1>2, DoneFalls DEF RefreshSet
<1>3. CASE LogOutRem(p)
  BY <1>3, DoneFalls DEF LogOutRem
<1>4. CASE DeactivateSet(p)
  BY <1>4, DoneFalls DEF DeactivateSet
<1>5. CASE Fail(p)
  BY <1>5, DoneFalls DEF Fail
<1> QED BY <1>1, <1>2, <1>3, <1>4, <1>5, AdvanceFalls, ListFalls, AssignFalls,
           PropagationFalls DEF Step

\* Only its own steps change a request that is in flight.
LEMMA OwnSteps ==
  ASSUME Inv, [Next]_vars, NEW p \in Req, job[p].at # "idle", job'[p] # job[p]
  PROVE  Step(p) \/ Fail(p)
<1>1. ASSUME NEW q \in Req, Start(q) PROVE q # p /\ job'[p] = job[p]
  <2>1. job[q].at = "idle"
    BY <1>1 DEF Start, LogIn, Refresh, LogOut, Deactivate, List, AssignRole,
                AssignPermissions, CanStart
  <2>2. \E j : Goto(q, j)
    BY <1>1 DEF Start, LogIn, Refresh, LogOut, Deactivate, List, AssignRole, AssignPermissions
  <2> QED BY <2>1, <2>2, OthersWait
<1>2. ASSUME NEW q \in Req, Step(q) \/ Fail(q) PROVE q = p
  <2>1. (\E j : Goto(q, j)) \/ (\E at : Advance(q, at))
    BY <1>2 DEF Step, Fail, LogInSet, LogInAdd, LogInExpire, RefreshFind, RefreshSet,
                LogOutDel, LogOutRem, DeactivateSet, ListGet, ListRem, AssignRoleSave,
                AssignPermissionsSave, FindByRole, RefreshMembers, RefreshGet,
                RefreshExec, Done
  <2> QED BY <2>1, OthersWait
<1>3. CASE Tick \/ UNCHANGED vars
  BY <1>3 DEF Tick, vars
<1> QED BY <1>1, <1>2, <1>3 DEF Next

\* Whatever the others do meanwhile, every step of a request lowers the bound
\* on the calls it has still to make, and nobody else touches it: no loop of
\* findUserSessions, refreshSessionPermissions or the propagation over users
\* runs for ever, so under the fairness of the calls every request ends.
THEOREM RequestsEnd ==
  ASSUME FiniteStore
  PROVE  Spec => [][\A p \in Req : Advances(p)]_vars
<1>1. Inv /\ [Next]_vars => \A p \in Req : Advances(p)
  <2> SUFFICES ASSUME Inv, [Next]_vars, NEW p \in Req, job[p].at # "idle",
                      Step(p) \/ job'[p] # job[p]
               PROVE  Falls(p)
    BY DEF Advances, Falls
  <2> QED BY StepFalls, OwnSteps
<1> QED BY <1>1, Invariance, PTL DEF Spec
=============================================================================
