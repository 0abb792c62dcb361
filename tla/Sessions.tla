------------------------------ MODULE Sessions ------------------------------
(***************************************************************************)
(* Login sessions in Redis and the permissions cached in them.             *)
(*                                                                         *)
(* Postgres holds the roles of a user and the permissions of a role; Redis *)
(* holds auth_session:<sid> with a copy of the user's permission codes and *)
(* the set user_sessions:<user>.  A request runs alone only between two    *)
(* awaits, so every action below is the code from one await to the next,   *)
(* and requests interleave at the awaits.  A job is a request that is      *)
(* suspended: the await it is at and the values it read before.            *)
(***************************************************************************)
EXTENDS Integers, FiniteSets

CONSTANTS
    User, Role, Perm, Sid,
    Req,             \* requests in flight at once
    SessionTtl,      \* JWT_REFRESH_EXPIRES_IN in ticks
    MaxEdits,        \* bound: role and permission assignments
    MaxFaults,       \* bound: Redis or Postgres calls that reject
    None

ASSUME SessionsConstants ==
    /\ SessionTtl \in Nat \ {0}
    /\ MaxEdits \in Nat
    /\ MaxFaults \in Nat
    /\ None \notin User
    /\ None \notin [user : User, perms : SUBSET Perm, active : BOOLEAN]

VARIABLES
    userRoles,  \* userRoles[u]: relation user.roles in Postgres
    rolePerms,  \* rolePerms[r]: relation role.permissions in Postgres
    session,    \* session[s]: value of auth_session:s, None when missing
    ttl,        \* ttl[s]: ticks left, 0 for a missing key or one without expiry
    index,      \* index[u]: members of user_sessions:u, {} when missing
    indexTtl,   \* indexTtl[u]: like ttl, for user_sessions:u
    owner,      \* owner[s]: the user the tokens with session id s name, or None
    issued,     \* session ids whose tokens were handed to a client
    job,        \* job[p]: what request p is waiting for
    edits, faults,
    alone,      \* history: nothing ran or expired while a request was in flight
    everRoles,  \* history: roles the user has ever had
    everPerms   \* history: permissions the role has ever had

db == <<userRoles, rolePerms, edits, everRoles, everPerms>>
redis == <<session, ttl, index, indexTtl>>
clients == <<owner, issued>>
vars == <<userRoles, rolePerms, session, ttl, index, indexTtl, owner, issued,
          job, edits, faults, alone, everRoles, everPerms>>

\* interfaces/session.interface.ts, without the fields no decision reads.
Session == [user : User, perms : SUBSET Perm, active : BOOLEAN]
MaybeSession == Session \union {None}

At == {"idle", "loginSet", "loginAdd", "loginExpire", "refreshFind", "refreshSet",
       "logoutDel", "logoutRem", "deactivateSet", "listGet", "listRem",
       "roleSave", "permsSave", "permsFind", "sMembers", "mGet", "exec"}

\* user: whose sessions; sids, raws: ids and values read; perms, roles: what
\* will be written; todo: users whose sessions are still to be refreshed.
Job == [at : At, user : User \union {None}, sids : SUBSET Sid,
        raws : [Sid -> MaybeSession], perms : SUBSET Perm, roles : SUBSET Role,
        todo : SUBSET User]

NoRaws == [s \in Sid |-> None]

IdleJob == [at |-> "idle", user |-> None, sids |-> {}, raws |-> NoRaws,
            perms |-> {}, roles |-> {}, todo |-> {}]

\* user.entity.ts: the codes of the permissions of all the user's roles.
permissionCodes(u) == UNION {rolePerms[r] : r \in userRoles[u]}

Init ==
    /\ userRoles \in [User -> SUBSET Role]
    /\ rolePerms \in [Role -> SUBSET Perm]
    /\ session = NoRaws
    /\ ttl = [s \in Sid |-> 0]
    /\ index = [u \in User |-> {}]
    /\ indexTtl = [u \in User |-> 0]
    /\ owner = [s \in Sid |-> None]
    /\ issued = {}
    /\ job = [p \in Req |-> IdleJob]
    /\ edits = 0
    /\ faults = 0
    /\ alone = TRUE
    /\ everRoles = userRoles
    /\ everPerms = rolePerms

-----------------------------------------------------------------------------
(* Requests.                                                               *)

Quiet == \A p \in Req : job[p].at = "idle"

CanStart(p) ==
    /\ job[p].at = "idle"
    /\ alone' = (alone /\ Quiet)

Goto(p, j) == job' = [job EXCEPT ![p] = j]
Advance(p, at) == job' = [job EXCEPT ![p].at = at]
Done(p) == Goto(p, IdleJob)

(* Redis commands.                                                         *)

Live(s) == session[s] # None

\* SREM; a set that becomes empty disappears, its expiry with it.
sRem(u, S) ==
    /\ index' = [index EXCEPT ![u] = @ \ S]
    /\ indexTtl' = [indexTtl EXCEPT ![u] = IF index[u] \subseteq S THEN 0 ELSE @]

\* Mutant of SetKeepTtl: SET without KEEPTTL takes the expiry away.
SetDropTtl(f) ==
    /\ session' = [s \in Sid |-> IF s \in DOMAIN f THEN f[s] ELSE session[s]]
    /\ ttl' = [s \in Sid |-> IF s \in DOMAIN f THEN 0 ELSE ttl[s]]

\* SET ... KEEPTTL of every session in the domain of f: a missing key comes
\* into being without expiry.
SetKeepTtl(f) ==
    /\ session' = [s \in Sid |-> IF s \in DOMAIN f THEN f[s] ELSE session[s]]
    /\ UNCHANGED ttl

-----------------------------------------------------------------------------
(* UsersService.logIn                                                      *)

\* Mutant of LogIn: the session id is not a fresh one.
LogInReusesSid(p) == \E u \in User, s \in Sid :
    /\ CanStart(p)
    /\ owner' = [owner EXCEPT ![s] = u]
    /\ Goto(p, [IdleJob EXCEPT !.at = "loginSet", !.user = u, !.sids = {s},
                               !.perms = permissionCodes(u)])
    /\ UNCHANGED <<db, redis, issued, faults>>

\* findByEmail loads the user with roles and permissions; the checks pass
\* and a session id is drawn.
LogIn(p) == \E u \in User, s \in Sid :
    /\ CanStart(p)
    /\ owner[s] = None
    /\ owner' = [owner EXCEPT ![s] = u]
    /\ Goto(p, [IdleJob EXCEPT !.at = "loginSet", !.user = u, !.sids = {s},
                               !.perms = permissionCodes(u)])
    /\ UNCHANGED <<db, redis, issued, faults>>

\* Mutant of LogInSet: seconds given where milliseconds are due, or vice versa.
LogInSetWrongUnit(p) ==
    /\ job[p].at = "loginSet"
    /\ session' = [s \in Sid |->
            IF s \in job[p].sids
            THEN [user |-> job[p].user, perms |-> job[p].perms, active |-> TRUE]
            ELSE session[s]]
    /\ ttl' = [s \in Sid |-> IF s \in job[p].sids THEN 1000 * SessionTtl ELSE ttl[s]]
    /\ Advance(p, "loginAdd")
    /\ UNCHANGED <<db, index, indexTtl, clients, faults, alone>>

\* SET auth_session:<sid> PX
LogInSet(p) ==
    /\ job[p].at = "loginSet"
    /\ session' = [s \in Sid |->
            IF s \in job[p].sids
            THEN [user |-> job[p].user, perms |-> job[p].perms, active |-> TRUE]
            ELSE session[s]]
    /\ ttl' = [s \in Sid |-> IF s \in job[p].sids THEN SessionTtl ELSE ttl[s]]
    /\ Advance(p, "loginAdd")
    /\ UNCHANGED <<db, index, indexTtl, clients, faults, alone>>

\* SADD user_sessions:<user>
LogInAdd(p) ==
    /\ job[p].at = "loginAdd"
    /\ index' = [index EXCEPT ![job[p].user] = @ \union job[p].sids]
    /\ Advance(p, "loginExpire")
    /\ UNCHANGED <<db, session, ttl, indexTtl, clients, faults, alone>>

\* Mutant of LogInExpire: the index keeps the expiry it already has.
LogInExpireOnce(p) ==
    /\ job[p].at = "loginExpire"
    /\ indexTtl' = [indexTtl EXCEPT ![job[p].user] =
            IF index[job[p].user] = {} THEN 0 ELSE IF @ = 0 THEN SessionTtl ELSE @]
    /\ issued' = issued \union job[p].sids
    /\ Done(p)
    /\ UNCHANGED <<db, session, ttl, index, owner, faults, alone>>

\* PEXPIRE user_sessions:<user> (nothing for a missing key); tokens returned.
LogInExpire(p) ==
    /\ job[p].at = "loginExpire"
    /\ indexTtl' = [indexTtl EXCEPT ![job[p].user] =
            IF index[job[p].user] = {} THEN 0 ELSE SessionTtl]
    /\ issued' = issued \union job[p].sids
    /\ Done(p)
    /\ UNCHANGED <<db, session, ttl, index, owner, faults, alone>>

-----------------------------------------------------------------------------
(* UsersService.refreshToken                                               *)

\* GET of the session; a missing or inactive session is refused.
Refresh(p) == \E s \in issued :
    /\ CanStart(p)
    /\ Live(s)
    /\ session[s].active
    /\ Goto(p, [IdleJob EXCEPT !.at = "refreshFind", !.user = session[s].user,
                    !.sids = {s}, !.raws = [NoRaws EXCEPT ![s] = session[s]]])
    /\ UNCHANGED <<db, redis, clients, faults>>

\* Mutant of RefreshFind: the permissions of the session are kept.
RefreshFindNothing(p) ==
    /\ job[p].at = "refreshFind"
    /\ Goto(p, [job[p] EXCEPT !.at = "refreshSet",
                    !.perms = UNION {job[p].raws[s].perms : s \in job[p].sids}])
    /\ UNCHANGED <<db, redis, clients, faults, alone>>

\* findOne(session.user_id) with its roles and permissions.
RefreshFind(p) ==
    /\ job[p].at = "refreshFind"
    /\ Goto(p, [job[p] EXCEPT !.at = "refreshSet", !.perms = permissionCodes(job[p].user)])
    /\ UNCHANGED <<db, redis, clients, faults, alone>>

\* SET KEEPTTL of the session as read, with the permissions as read.
RefreshSet(p) ==
    /\ job[p].at = "refreshSet"
    /\ SetKeepTtl([s \in job[p].sids |-> [job[p].raws[s] EXCEPT !.perms = job[p].perms]])
    /\ Done(p)
    /\ UNCHANGED <<db, index, indexTtl, clients, faults, alone>>

-----------------------------------------------------------------------------
(* UsersService.logOut, behind AuthGuard                                   *)

LogOut(p) == \E s \in issued :
    /\ CanStart(p)
    /\ Live(s)
    /\ session[s].active
    /\ Goto(p, [IdleJob EXCEPT !.at = "logoutDel", !.user = session[s].user, !.sids = {s}])
    /\ UNCHANGED <<db, redis, clients, faults>>

\* DEL auth_session:<sid>
LogOutDel(p) ==
    /\ job[p].at = "logoutDel"
    /\ session' = [s \in Sid |-> IF s \in job[p].sids THEN None ELSE session[s]]
    /\ ttl' = [s \in Sid |-> IF s \in job[p].sids THEN 0 ELSE ttl[s]]
    /\ Advance(p, "logoutRem")
    /\ UNCHANGED <<db, index, indexTtl, clients, faults, alone>>

\* SREM user_sessions:<user> <sid>
LogOutRem(p) ==
    /\ job[p].at = "logoutRem"
    /\ sRem(job[p].user, job[p].sids)
    /\ Done(p)
    /\ UNCHANGED <<db, session, ttl, clients, faults, alone>>

-----------------------------------------------------------------------------
(* SessionsService.deactivateSession                                       *)

\* GET; a missing session ends the request with 'Session not found'.
Deactivate(p) == \E s \in Sid :
    /\ CanStart(p)
    /\ Live(s)
    /\ Goto(p, [IdleJob EXCEPT !.at = "deactivateSet", !.user = session[s].user,
                    !.sids = {s}, !.raws = [NoRaws EXCEPT ![s] = session[s]]])
    /\ UNCHANGED <<db, redis, clients, faults>>

\* SET KEEPTTL of the session as read, with active = false.
DeactivateSet(p) ==
    /\ job[p].at = "deactivateSet"
    /\ SetKeepTtl([s \in job[p].sids |-> [job[p].raws[s] EXCEPT !.active = FALSE]])
    /\ Done(p)
    /\ UNCHANGED <<db, index, indexTtl, clients, faults, alone>>

-----------------------------------------------------------------------------
(* SessionsService.findUserSessions: drops index entries without session.  *)

\* SMEMBERS; an empty index ends the request.
List(p) == \E u \in User :
    /\ CanStart(p)
    /\ index[u] # {}
    /\ Goto(p, [IdleJob EXCEPT !.at = "listGet", !.user = u, !.sids = index[u]])
    /\ UNCHANGED <<db, redis, clients, faults>>

\* MGET; only the ids that had no value matter from here on.
ListGet(p) == LET gone == {s \in job[p].sids : ~Live(s)} IN
    /\ job[p].at = "listGet"
    /\ Goto(p, IF gone = {} THEN IdleJob
               ELSE [job[p] EXCEPT !.at = "listRem", !.sids = gone])
    /\ UNCHANGED <<db, redis, clients, faults, alone>>

\* One SREM per iteration of the loop.
ListRem(p) == \E s \in job[p].sids :
    /\ job[p].at = "listRem"
    /\ sRem(job[p].user, {s})
    /\ Goto(p, IF job[p].sids = {s} THEN IdleJob
               ELSE [job[p] EXCEPT !.sids = @ \ {s}])
    /\ UNCHANGED <<db, session, ttl, clients, faults, alone>>

-----------------------------------------------------------------------------
(* UsersService.assignRole and RolesService.assignPermissions              *)

Edit ==
    /\ edits < MaxEdits
    /\ edits' = edits + 1

\* A job that has to write perms into the sessions of the users in U.
Propagation(U, perms) ==
    [IdleJob EXCEPT !.at = "sMembers", !.todo = U, !.perms = perms]

\* assignRole loads the user and the new roles with their permissions.
AssignRole(p) == \E u \in User, R \in SUBSET Role :
    /\ CanStart(p)
    /\ Edit
    /\ Goto(p, [IdleJob EXCEPT !.at = "roleSave", !.user = u, !.roles = R,
                    !.perms = UNION {rolePerms[r] : r \in R}])
    /\ UNCHANGED <<userRoles, rolePerms, everRoles, everPerms, redis, clients, faults>>

\* Mutant of AssignRoleSave: the sessions are not refreshed.
AssignRoleSaveOnly(p) == LET u == job[p].user IN
    /\ job[p].at = "roleSave"
    /\ userRoles' = [userRoles EXCEPT ![u] = job[p].roles]
    /\ everRoles' = [everRoles EXCEPT ![u] = @ \union job[p].roles]
    /\ Done(p)
    /\ UNCHANGED <<rolePerms, edits, everPerms, redis, clients, faults, alone>>

\* save(user); then savedUser.permissionCodes, as loaded above, is propagated.
AssignRoleSave(p) == LET u == job[p].user IN
    /\ job[p].at = "roleSave"
    /\ userRoles' = [userRoles EXCEPT ![u] = job[p].roles]
    /\ everRoles' = [everRoles EXCEPT ![u] = @ \union job[p].roles]
    /\ Goto(p, Propagation({u}, job[p].perms))
    /\ UNCHANGED <<rolePerms, edits, everPerms, redis, clients, faults, alone>>

\* assignPermissions loads the role and the permissions.
AssignPermissions(p) == \E r \in Role, Q \in SUBSET Perm :
    /\ CanStart(p)
    /\ Edit
    /\ Goto(p, [IdleJob EXCEPT !.at = "permsSave", !.roles = {r}, !.perms = Q])
    /\ UNCHANGED <<userRoles, rolePerms, everRoles, everPerms, redis, clients, faults>>

\* save(role)
AssignPermissionsSave(p) == LET R == job[p].roles  Q == job[p].perms IN
    /\ job[p].at = "permsSave"
    /\ rolePerms' = [r \in Role |-> IF r \in R THEN Q ELSE rolePerms[r]]
    /\ everPerms' = [r \in Role |-> IF r \in R THEN everPerms[r] \union Q ELSE everPerms[r]]
    /\ Advance(p, "permsFind")
    /\ UNCHANGED <<userRoles, edits, everRoles, redis, clients, faults, alone>>

\* Mutant of FindByRole: the where clause is missing.
FindEverybody(p) ==
    /\ job[p].at = "permsFind"
    /\ Goto(p, Propagation(User, UNION {rolePerms[r] : r \in job[p].roles}))
    /\ UNCHANGED <<db, redis, clients, faults, alone>>

\* refreshSessionPermissionsByRole: find({where: {roles: {id}}, relations}).
\* The condition is on the joined relation itself, so each user comes back
\* with that one role only, and permissionCodes holds that role's codes.
FindByRole(p) ==
    LET R == job[p].roles
        found == {u \in User : R \subseteq userRoles[u]} IN
    /\ job[p].at = "permsFind"
    /\ Goto(p, IF found = {} THEN IdleJob
               ELSE Propagation(found, UNION {rolePerms[r] : r \in R}))
    /\ UNCHANGED <<db, redis, clients, faults, alone>>

-----------------------------------------------------------------------------
(* SessionsService.refreshSessionPermissions, for each user in todo        *)

\* The job after the sessions of u were dealt with.
NextUser(p, u) ==
    IF job[p].todo = {u} THEN IdleJob
    ELSE Propagation(job[p].todo \ {u}, job[p].perms)

\* SMEMBERS; nothing to do for an empty index.
RefreshMembers(p) == \E u \in job[p].todo :
    /\ job[p].at = "sMembers"
    /\ Goto(p, IF index[u] = {} THEN NextUser(p, u)
               ELSE [job[p] EXCEPT !.at = "mGet", !.user = u, !.sids = index[u]])
    /\ UNCHANGED <<db, redis, clients, faults, alone>>

\* MGET
RefreshGet(p) ==
    /\ job[p].at = "mGet"
    /\ Goto(p, [job[p] EXCEPT !.at = "exec", 
            !.raws = [s \in Sid |-> IF s \in job[p].sids THEN session[s] ELSE None]])
    /\ UNCHANGED <<db, redis, clients, faults, alone>>

\* Mutant of RefreshExec: the session is built anew, as a login does.
RefreshExecActive(p) ==
    LET j == job[p]
        seen == {s \in j.sids : j.raws[s] # None} IN
    /\ j.at = "exec"
    /\ SetKeepTtl([s \in seen |-> [user |-> j.user, perms |-> j.perms, active |-> TRUE]])
    /\ sRem(j.user, j.sids \ seen)
    /\ Goto(p, NextUser(p, j.user))
    /\ UNCHANGED <<db, clients, faults, alone>>

\* EXEC of one SET KEEPTTL per session that was there, one SREM per other id.
RefreshExec(p) ==
    LET j == job[p]
        seen == {s \in j.sids : j.raws[s] # None} IN
    /\ j.at = "exec"
    /\ SetKeepTtl([s \in seen |-> [j.raws[s] EXCEPT !.perms = j.perms]])
    /\ sRem(j.user, j.sids \ seen)
    /\ Goto(p, NextUser(p, j.user))
    /\ UNCHANGED <<db, clients, faults, alone>>

-----------------------------------------------------------------------------
(* The environment.                                                        *)

\* A call rejects: the request ends where it stands.  (assignRole and
\* assignPermissions swallow what the propagation throws: it ends as well.)
Fail(p) ==
    /\ job[p].at # "idle"
    /\ faults < MaxFaults
    /\ faults' = faults + 1
    /\ Done(p)
    /\ UNCHANGED <<db, redis, clients, alone>>

\* Redis expires keys.
Tick ==
    /\ alone' = (alone /\ Quiet)
    /\ \/ \E s \in Sid : ttl[s] > 0
       \/ \E u \in User : indexTtl[u] > 0
    /\ session' = [s \in Sid |-> IF ttl[s] = 1 THEN None ELSE session[s]]
    /\ ttl' = [s \in Sid |-> IF ttl[s] > 0 THEN ttl[s] - 1 ELSE 0]
    /\ index' = [u \in User |-> IF indexTtl[u] = 1 THEN {} ELSE index[u]]
    /\ indexTtl' = [u \in User |-> IF indexTtl[u] > 0 THEN indexTtl[u] - 1 ELSE 0]
    /\ UNCHANGED <<db, clients, job, faults>>

-----------------------------------------------------------------------------
Start(p) ==
    \/ LogIn(p) \/ Refresh(p) \/ LogOut(p) \/ Deactivate(p) \/ List(p)
    \/ AssignRole(p) \/ AssignPermissions(p)

Step(p) ==
    \/ LogInSet(p) \/ LogInAdd(p) \/ LogInExpire(p)
    \/ RefreshFind(p) \/ RefreshSet(p)
    \/ LogOutDel(p) \/ LogOutRem(p)
    \/ DeactivateSet(p)
    \/ ListGet(p) \/ ListRem(p)
    \/ AssignRoleSave(p) \/ AssignPermissionsSave(p) \/ FindByRole(p)
    \/ RefreshMembers(p) \/ RefreshGet(p) \/ RefreshExec(p)

Next ==
    \/ \E p \in Req : Start(p) \/ Step(p) \/ Fail(p)
    \/ Tick

Spec == Init /\ [][Next]_vars

\* A call that was made returns or rejects; clients promise nothing.
FairSpec == Spec /\ \A p \in Req : WF_vars(Step(p))

-----------------------------------------------------------------------------
(* Properties.                                                             *)

\* What the database, Redis and the suspended requests may hold.
StateOK ==
    /\ userRoles \in [User -> SUBSET Role]
    /\ rolePerms \in [Role -> SUBSET Perm]
    /\ session \in [Sid -> MaybeSession]
    /\ ttl \in [Sid -> 0..SessionTtl]
    /\ index \in [User -> SUBSET Sid]
    /\ indexTtl \in [User -> 0..SessionTtl]
    /\ owner \in [Sid -> User \union {None}]
    /\ issued \subseteq Sid
    /\ job \in [Req -> Job]
    /\ edits \in 0..MaxEdits
    /\ faults \in 0..MaxFaults
    /\ everRoles \in [User -> SUBSET Role]
    /\ everPerms \in [Role -> SUBSET Perm]

\* Type invariant of the database, the Redis keys and the suspended requests.
TypeOK == StateOK /\ alone \in BOOLEAN

\* A session and an index entry never change hands: whatever snapshots are
\* written back late, auth_session:<sid> names the user the tokens with that
\* sid were made for, and user_sessions:<user> lists that user's sids only.
SessionsKeepTheirOwner ==
    /\ \A s \in Sid : Live(s) => session[s].user = owner[s]
    /\ \A u \in User : \A s \in index[u] : owner[s] = u

\* What the user's roles, past and present, have ever allowed.
EverGranted(u) == UNION {everPerms[r] : r \in everRoles[u]}

\* No interleaving of logins, refreshes and assignments puts a permission
\* into a session that no role of that session's user ever had: a late
\* propagation may write stale codes, never those of somebody else.
NoForeignPermissions ==
    \A s \in Sid : Live(s) => session[s].perms \subseteq EverGranted(session[s].user)

\* A request is about to write back a copy of the session that it read.
Holds(p, s) == s \in job[p].sids /\ job[p].raws[s] # None

\* AuthGuard, refreshToken and canDo refuse the session.
Ended(s) == ~Live(s) \/ ~session[s].active

\* A session that was logged out, deactivated or expired becomes usable again
\* only through a request that had read it while it was usable.
OnlyInFlightRevives ==
    [][\A s \in issued :
        /\ Ended(s)
        /\ \A p \in Req : Holds(p, s) => ~job[p].raws[s].active
        => Ended(s)']_vars

\* One request at a time, with any failed calls: what logOut, deactivateSession
\* and the expiry ended stays ended, through refreshes and propagations that
\* write sessions back.
SerialEndingsAreFinal ==
    [][alone' => \A s \in issued : Ended(s) => Ended(s)']_vars

\* One request at a time, with any failed calls: KEEPTTL keeps the expiry the
\* login gave, no usable session lacks one.
EverySessionExpires == alone => \A s \in issued : ~Ended(s) => ttl[s] > 0

\* One request at a time: user_sessions:<user> holds every usable session id
\* whose tokens a client has, although set and sessions expire on their own,
\* so a propagation reaches all of the user's sessions.
IndexIsComplete ==
    alone => \A s \in issued : ~Ended(s) => s \in index[owner[s]]

\* One request at a time and no failed call: between requests no session
\* allows what the user's roles no longer allow.
NoStaleGrant ==
    Quiet /\ alone /\ faults = 0 =>
        \A s \in issued : ~Ended(s) => session[s].perms \subseteq permissionCodes(owner[s])

\* One request at a time and no failed call: between requests every session
\* has exactly the permissions of the user's roles, so that assignRole and
\* assignPermissions take effect at once.
FreshPermissions ==
    Quiet /\ alone /\ faults = 0 =>
        \A s \in issued : ~Ended(s) => session[s].perms = permissionCodes(owner[s])

\* However assignments, failed propagations and late writes interleave: once
\* they stop, a session whose client keeps refreshing has the user's
\* permissions, and keeps them.  (A deactivation writes back permissions as
\* old as its read, so deactivations of the session have to stop as well.)
RefreshConverges ==
    \A s \in Sid :
        []<><<\E p \in Req : s \in job[p].sids /\ RefreshSet(p)>>_vars
            => \/ []<><<\E p \in Req : s \in job[p].sids /\ DeactivateSet(p)>>_vars
               \/ <>[](Live(s) => session[s].perms = permissionCodes(owner[s]))
=============================================================================
