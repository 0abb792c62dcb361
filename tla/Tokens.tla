------------------------------- MODULE Tokens -------------------------------
(***************************************************************************)
(* How long a login opens the API: JWT lifetimes, the rotation of refresh  *)
(* tokens, the expiry of the Redis session and the status of the account.  *)
(*                                                                         *)
(* JwtService signs tokens that expire on their own clock; the session     *)
(* auth_session:<sid> has the expiry that logIn gave it, and every later   *)
(* write keeps the expiry (KEEPTTL).  Time passes between any two awaits.  *)
(* Permissions are left to Sessions, other account operations to           *)
(* UserAccounts; the subnet check of AuthGuard only refuses more.          *)
(***************************************************************************)
EXTENDS Integers

CONSTANTS
    User, Sid,
    Req,         \* requests in flight at once
    AuthTtl,     \* JWT_AUTH_EXPIRES_IN in ticks
    RefreshTtl,  \* JWT_REFRESH_EXPIRES_IN in ticks: refresh tokens and sessions
    Minute,      \* ticks per minute
    Thresholds,  \* values of JWT_REFRESH_RENEW_THRESHOLD_MINUTES considered
    Horizon,     \* bound: ticks that pass
    None

ASSUME TokensConstants ==
    /\ AuthTtl \in Nat \ {0}
    /\ RefreshTtl \in Nat \ {0}
    /\ Minute \in Nat \ {0}
    /\ Thresholds \subseteq Nat
    /\ Horizon \in Nat
    /\ None \notin User
    /\ None \notin Sid
    /\ None \notin [user : User, active : BOOLEAN]

VARIABLES
    now,
    threshold,  \* refreshRenewThresholdMinutes, fixed at start-up
    status,     \* status[u]: column status of the account
    session,    \* session[s]: value of auth_session:s, None when missing
    expires,    \* expires[s]: when the key expires, 0 for never or no key
    owner,      \* owner[s]: the user the session id was drawn for, or None
    tokens,     \* tokens that clients hold and that have not expired
    job,        \* job[p]: what request p is waiting for
    setAt,      \* history: when logIn stored the session
    inactiveSince, \* history: when the account was last deactivated
    rewritten,  \* history: sessions put back after they had gone from Redis
    overtaken   \* history: logins that a deactivation of the account overtook

accounts == <<status, inactiveSince, overtaken>>
redis == <<session, expires, rewritten>>
vars == <<now, threshold, status, session, expires, owner, tokens, job,
          setAt, inactiveSince, rewritten, overtaken>>

\* The payload and the type (the secret) of a token; user stands for email.
Token == [type : {"auth", "refresh"}, user : User, sid : Sid, exp : Nat]

Session == [user : User, active : BOOLEAN]
MaybeSession == Session \union {None}

At == {"idle", "loginSign", "loginSet", "loginDone", "refreshGet", "refreshSet",
       "refreshSign", "guardGet", "logoutDel", "deactivateSet", "exec"}

\* user, sid: of the token or the login; raw: the session that was read;
\* time: of signing for a login, expiry of the refresh token for a refresh.
Job == [at : At, user : User \union {None}, sid : Sid \union {None},
        raw : MaybeSession, time : Nat]

IdleJob == [at |-> "idle", user |-> None, sid |-> None, raw |-> None, time |-> 0]

Init ==
    /\ now = 0
    /\ threshold \in Thresholds
    /\ status = [u \in User |-> "ACTIVE"]
    /\ session = [s \in Sid |-> None]
    /\ expires = [s \in Sid |-> 0]
    /\ owner = [s \in Sid |-> None]
    /\ tokens = {}
    /\ job = [p \in Req |-> IdleJob]
    /\ setAt = [s \in Sid |-> 0]
    /\ inactiveSince = [u \in User |-> 0]
    /\ rewritten = {}
    /\ overtaken = {}

-----------------------------------------------------------------------------
Goto(p, j) == job' = [job EXCEPT ![p] = j]
Advance(p, at) == job' = [job EXCEPT ![p].at = at]
Done(p) == Goto(p, IdleJob)

Live(s) == session[s] # None

\* JwtService.signToken: a token of the type, signed now.
generateToken(type, u, s) ==
    [type |-> type, user |-> u, sid |-> s,
     exp |-> now + (IF type = "auth" THEN AuthTtl ELSE RefreshTtl)]

\* JwtService.getPayload: the token is of the type and has not expired.
Verifies(t, type) == t.type = type /\ now < t.exp

\* SET ... KEEPTTL: a missing key comes into being without expiry.
SetKeepTtl(s, value) ==
    /\ session' = [session EXCEPT ![s] = value]
    /\ rewritten' = IF Live(s) THEN rewritten ELSE rewritten \union {s}
    /\ UNCHANGED expires

-----------------------------------------------------------------------------
(* UsersService.logIn                                                      *)

\* Mutant of LogIn: the status of the account is not looked at.
LogInAnybody(p) == \E u \in User, s \in Sid :
    /\ job[p].at = "idle"
    /\ owner[s] = None
    /\ owner' = [owner EXCEPT ![s] = u]
    /\ Goto(p, [IdleJob EXCEPT !.at = "loginSign", !.user = u, !.sid = s])
    /\ UNCHANGED <<now, threshold, accounts, redis, tokens, setAt>>

\* The account is loaded and active, its password is right.
LogIn(p) == \E u \in User, s \in Sid :
    /\ job[p].at = "idle"
    /\ status[u] = "ACTIVE"
    /\ owner[s] = None
    /\ owner' = [owner EXCEPT ![s] = u]
    /\ Goto(p, [IdleJob EXCEPT !.at = "loginSign", !.user = u, !.sid = s])
    /\ UNCHANGED <<now, threshold, accounts, redis, tokens, setAt>>

\* compare() has returned; both tokens are signed.
LogInSign(p) ==
    /\ job[p].at = "loginSign"
    /\ Goto(p, [job[p] EXCEPT !.at = "loginSet", !.time = now])
    /\ UNCHANGED <<now, threshold, accounts, redis, owner, tokens, setAt>>

\* Mutant of LogInSet: milliseconds are given where seconds are due.
LogInSetWrongUnit(p) == LET s == job[p].sid IN
    /\ job[p].at = "loginSet"
    /\ session' = [session EXCEPT ![s] = [user |-> job[p].user, active |-> TRUE]]
    /\ expires' = [expires EXCEPT ![s] = now + 1000 * RefreshTtl]
    /\ setAt' = [setAt EXCEPT ![s] = now]
    /\ Advance(p, "loginDone")
    /\ UNCHANGED <<now, threshold, accounts, owner, tokens, rewritten>>

\* SET auth_session:<sid> PX
LogInSet(p) == LET s == job[p].sid IN
    /\ job[p].at = "loginSet"
    /\ session' = [session EXCEPT ![s] = [user |-> job[p].user, active |-> TRUE]]
    /\ expires' = [expires EXCEPT ![s] = now + RefreshTtl]
    /\ setAt' = [setAt EXCEPT ![s] = now]
    /\ Advance(p, "loginDone")
    /\ UNCHANGED <<now, threshold, accounts, owner, tokens, rewritten>>

\* The index is written and the controller sets both cookies.
LogInDone(p) == LET j == job[p] IN
    /\ j.at = "loginDone"
    /\ tokens' = tokens \union
            {[type |-> "auth", user |-> j.user, sid |-> j.sid, exp |-> j.time + AuthTtl],
             [type |-> "refresh", user |-> j.user, sid |-> j.sid, exp |-> j.time + RefreshTtl]}
    /\ Done(p)
    /\ UNCHANGED <<now, threshold, accounts, redis, owner, setAt>>

-----------------------------------------------------------------------------
(* UsersService.refreshToken                                               *)

\* getPayload(refreshToken, 'refresh')
Refresh(p) == \E t \in tokens :
    /\ job[p].at = "idle"
    /\ Verifies(t, "refresh")
    /\ Goto(p, [IdleJob EXCEPT !.at = "refreshGet", !.user = t.user, !.sid = t.sid,
                               !.time = t.exp])
    /\ UNCHANGED <<now, threshold, accounts, redis, owner, tokens, setAt>>

\* GET; a missing or inactive session is refused.  The status is not read.
RefreshGet(p) == LET s == job[p].sid IN
    /\ job[p].at = "refreshGet"
    /\ Goto(p, IF Live(s) /\ session[s].active
               THEN [job[p] EXCEPT !.at = "refreshSet", !.raw = session[s]]
               ELSE IdleJob)
    /\ UNCHANGED <<now, threshold, accounts, redis, owner, tokens, setAt>>

\* Mutant of RefreshSet: SET with PX, as in logIn, so that sessions slide.
RefreshSetSlides(p) == LET s == job[p].sid IN
    /\ job[p].at = "refreshSet"
    /\ session' = [session EXCEPT ![s] = job[p].raw]
    /\ expires' = [expires EXCEPT ![s] = now + RefreshTtl]
    /\ rewritten' = IF Live(s) THEN rewritten ELSE rewritten \union {s}
    /\ Advance(p, "refreshSign")
    /\ UNCHANGED <<now, threshold, accounts, owner, tokens, setAt>>

\* SET KEEPTTL of the session as read.
RefreshSet(p) ==
    /\ job[p].at = "refreshSet"
    /\ SetKeepTtl(job[p].sid, job[p].raw)
    /\ Advance(p, "refreshSign")
    /\ UNCHANGED <<now, threshold, accounts, owner, tokens, setAt>>

\* Mutant of shouldRotateRefresh: off by one.
RotatesAtThreshold(exp) == (exp - now) \div Minute <= threshold

\* Whole minutes that are left, against the threshold.
shouldRotateRefresh(exp) == (exp - now) \div Minute < threshold

\* JwtService.refreshToken verifies once more and signs; the cookies are set.
RefreshSign(p) == LET j == job[p] IN
    /\ j.at = "refreshSign"
    /\ tokens' = tokens \union
            {generateToken(type, j.user, j.sid) :
                type \in {y \in {"auth", "refresh"} :
                    now < j.time /\ (y = "refresh" => shouldRotateRefresh(j.time))}}
    /\ Done(p)
    /\ UNCHANGED <<now, threshold, accounts, redis, owner, setAt>>

-----------------------------------------------------------------------------
(* AuthGuard, in front of logOut                                           *)

Guard(p) == \E t \in tokens :
    /\ job[p].at = "idle"
    /\ Verifies(t, "auth")
    /\ Goto(p, [IdleJob EXCEPT !.at = "guardGet", !.user = t.user, !.sid = t.sid])
    /\ UNCHANGED <<now, threshold, accounts, redis, owner, tokens, setAt>>

\* The session that GET returns lets the token's user in.
Admits(u, s) == Live(s) /\ session[s].active /\ session[s].user = u

GuardGet(p) ==
    /\ job[p].at = "guardGet"
    /\ IF Admits(job[p].user, job[p].sid) THEN Advance(p, "logoutDel") ELSE Done(p)
    /\ UNCHANGED <<now, threshold, accounts, redis, owner, tokens, setAt>>

\* DEL auth_session:<sid>.  Clearing the cookies does not bind the client.
LogOutDel(p) == LET s == job[p].sid IN
    /\ job[p].at = "logoutDel"
    /\ session' = [session EXCEPT ![s] = None]
    /\ expires' = [expires EXCEPT ![s] = 0]
    /\ Done(p)
    /\ UNCHANGED <<now, threshold, accounts, rewritten, owner, tokens, setAt>>

-----------------------------------------------------------------------------
(* Other writers of sessions: they put back what they read.                *)

\* deactivateSession: GET; 'Session not found' ends the request.
Deactivate(p) == \E s \in Sid :
    /\ job[p].at = "idle"
    /\ Live(s)
    /\ Goto(p, [IdleJob EXCEPT !.at = "deactivateSet", !.sid = s,
                    !.raw = [session[s] EXCEPT !.active = FALSE]])
    /\ UNCHANGED <<now, threshold, accounts, redis, owner, tokens, setAt>>

\* refreshSessionPermissions: MGET of a session it will write back.
Propagate(p) == \E s \in Sid :
    /\ job[p].at = "idle"
    /\ Live(s)
    /\ Goto(p, [IdleJob EXCEPT !.at = "exec", !.sid = s, !.raw = session[s]])
    /\ UNCHANGED <<now, threshold, accounts, redis, owner, tokens, setAt>>

\* SET KEEPTTL of either, alone or in EXEC.
WriteBack(p) ==
    /\ job[p].at \in {"deactivateSet", "exec"}
    /\ SetKeepTtl(job[p].sid, job[p].raw)
    /\ Done(p)
    /\ UNCHANGED <<now, threshold, accounts, owner, tokens, setAt>>

-----------------------------------------------------------------------------
(* UsersService.deactivate and activate: no session or token is touched.   *)

DeactivateUser(u) ==
    /\ status[u] = "ACTIVE"
    /\ status' = [status EXCEPT ![u] = "INACTIVE"]
    /\ inactiveSince' = [inactiveSince EXCEPT ![u] = now]
    /\ overtaken' = overtaken \union
            {job[p].sid : p \in {q \in Req : job[q].user = u
                                    /\ job[q].at \in {"loginSign", "loginSet"}}}
    /\ UNCHANGED <<now, threshold, redis, owner, tokens, job, setAt>>

ActivateUser(u) ==
    /\ status[u] = "INACTIVE"
    /\ status' = [status EXCEPT ![u] = "ACTIVE"]
    /\ UNCHANGED <<now, threshold, redis, owner, tokens, job, setAt, inactiveSince, overtaken>>

\* A call rejects or the process stops: the request ends where it stands.
Fail(p) ==
    /\ job[p].at # "idle"
    /\ Done(p)
    /\ UNCHANGED <<now, threshold, accounts, redis, owner, tokens, setAt>>

\* Redis drops keys and tokens become useless when their time has come.
Tick ==
    /\ now < Horizon
    /\ now' = now + 1
    /\ session' = [s \in Sid |-> IF expires[s] = now + 1 THEN None ELSE session[s]]
    /\ expires' = [s \in Sid |-> IF expires[s] = now + 1 THEN 0 ELSE expires[s]]
    /\ tokens' = {t \in tokens : t.exp > now + 1}
    /\ UNCHANGED <<threshold, accounts, rewritten, owner, job, setAt>>

-----------------------------------------------------------------------------
Request(p) ==
    \/ LogIn(p) \/ LogInSign(p) \/ LogInSet(p) \/ LogInDone(p)
    \/ Refresh(p) \/ RefreshGet(p) \/ RefreshSet(p) \/ RefreshSign(p)
    \/ Guard(p) \/ GuardGet(p) \/ LogOutDel(p)
    \/ Deactivate(p) \/ Propagate(p) \/ WriteBack(p)
    \/ Fail(p)

Next ==
    \/ \E p \in Req : Request(p)
    \/ \E u \in User : DeactivateUser(u) \/ ActivateUser(u)
    \/ Tick

Spec == Init /\ [][Next]_vars

-----------------------------------------------------------------------------
(* Properties.                                                             *)

\* Type invariant; no key outlives the horizon by more than its lifetime.
TypeOK ==
    /\ now \in 0..Horizon
    /\ threshold \in Thresholds
    /\ status \in [User -> {"ACTIVE", "INACTIVE"}]
    /\ session \in [Sid -> MaybeSession]
    /\ expires \in [Sid -> 0..(Horizon + RefreshTtl)]
    /\ owner \in [Sid -> User \union {None}]
    /\ tokens \subseteq Token
    /\ job \in [Req -> Job]
    /\ setAt \in [Sid -> Nat]
    /\ inactiveSince \in [User -> Nat]
    /\ rewritten \subseteq Sid
    /\ overtaken \subseteq Sid

\* AuthGuard and MicroserviceGuard admit a request with this token.
Opens(t) == Verifies(t, "auth") /\ Admits(t.user, t.sid)

\* Refreshing and rotating never stretch a login: unless the session was put
\* back after it had left Redis, access ends one session lifetime after the
\* login, although the tokens in the client's hands live on.
LoginBoundsAccess ==
    \A t \in tokens : Opens(t) /\ t.sid \notin rewritten =>
        now < setAt[t.sid] + RefreshTtl

\* With the rotation switched off (threshold 0) a login always comes to an
\* end: a session that was put back and never expires is of no use after the
\* last auth token its one refresh token could buy.
NoRotationNoImmortality ==
    threshold = 0 => \A t \in tokens : Opens(t) =>
        now < setAt[t.sid] + RefreshTtl + AuthTtl

\* deactivate leaves sessions alone, and neither the guards nor refreshToken
\* look at the account; a deactivated user is nevertheless out one session
\* lifetime later, unless the session was put back or its login was under
\* way when the account was deactivated.
DeactivationBoundsAccess ==
    \A t \in tokens :
        /\ Opens(t)
        /\ status[t.user] = "INACTIVE"
        /\ t.sid \notin rewritten \union overtaken
        => now < inactiveSince[t.user] + RefreshTtl
=============================================================================
