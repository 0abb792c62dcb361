---------------------------- MODULE TokensProofs ----------------------------
(***************************************************************************)
(* Theorems about Tokens, for any lifetimes, thresholds, users and any     *)
(* number of requests: the type invariant and the three bounds on how long *)
(* a login opens the API.  The bounds rest on what the tokens, the store   *)
(* and the suspended requests carry: who a session id was drawn for, and   *)
(* the expiry that only logIn gives.                                       *)
(***************************************************************************)
EXTENDS Tokens, TLAPS

Naming == {"loginSign", "loginSet", "loginDone", "refreshGet", "refreshSet",
           "refreshSign", "guardGet"}

\* What a suspended request may carry.
JobOK(j) ==
    /\ j.at # "idle" => j.sid \in Sid
    /\ j.at \in Naming => j.user \in User /\ owner[j.sid] = j.user
    /\ j.at \in {"refreshSet", "deactivateSet", "exec"} =>
            j.raw \in Session /\ j.raw.user = owner[j.sid]
    /\ j.at = "loginSet" => j.time <= now
    /\ j.at = "loginDone" => j.time <= setAt[j.sid]
    /\ j.at \in {"refreshGet", "refreshSet", "refreshSign"} /\ threshold = 0 =>
            j.time <= setAt[j.sid] + RefreshTtl

JobsOK == \A p \in Req : JobOK(job[p])

\* A login whose session is still to be stored, of an account that is no
\* longer active, is counted as overtaken.
LoginOK(j) ==
    /\ j.at \in {"loginSign", "loginSet"}
    /\ status[j.user] = "INACTIVE"
    => j.sid \in overtaken

LoginsOK == \A p \in Req : LoginOK(job[p])

TokenOK(t) ==
    /\ owner[t.sid] = t.user
    /\ threshold = 0 =>
        IF t.type = "refresh" THEN t.exp <= setAt[t.sid] + RefreshTtl
        ELSE t.exp < setAt[t.sid] + RefreshTtl + AuthTtl

TokensOK == \A t \in tokens : TokenOK(t)

\* A session belongs to the user its id was drawn for and, unless it was put
\* back, expires one lifetime after its login.
StoreOK == \A s \in Sid : Live(s) =>
    /\ session[s].user = owner[s]
    /\ s \notin rewritten => expires[s] = setAt[s] + RefreshTtl /\ now < expires[s]

\* Logins that were not overtaken stored their session before the account
\* was deactivated.
HistoryOK == \A s \in Sid :
    /\ setAt[s] <= now
    /\ owner[s] \in User /\ status[owner[s]] = "INACTIVE" /\ s \notin overtaken =>
            setAt[s] <= inactiveSince[owner[s]]

\* The inductive invariant.
Inv == TypeOK /\ JobsOK /\ LoginsOK /\ TokensOK /\ StoreOK /\ HistoryOK

LEMMA IdleJobOK == IdleJob \in Job /\ JobOK(IdleJob) /\ LoginOK(IdleJob)
  BY TokensConstants DEF IdleJob, Job, At, MaybeSession, JobOK, LoginOK, Naming

LEMMA InvInit == Init => Inv
<1> SUFFICES ASSUME Init PROVE Inv
  OBVIOUS
<1>1. TypeOK
  BY IdleJobOK, TokensConstants DEF Init, TypeOK, MaybeSession
<1>2. JobsOK /\ LoginsOK
  BY IdleJobOK DEF Init, JobsOK, LoginsOK
<1>3. TokensOK /\ StoreOK
  BY DEF Init, TokensOK, StoreOK, Live
<1>4. HistoryOK
  BY TokensConstants DEF Init, HistoryOK
<1> QED BY <1>1, <1>2, <1>3, <1>4 DEF Inv

-----------------------------------------------------------------------------
(* What no step takes back.                                                *)

Grows ==
    /\ \A s \in Sid : owner[s] # None => owner'[s] = owner[s]
    /\ \A s \in Sid : setAt[s] <= setAt'[s] /\ setAt'[s] \in Nat
    /\ now' \in Nat /\ now <= now'
    /\ threshold' = threshold

LEMMA Numbers ==
  ASSUME TypeOK
  PROVE  /\ now \in Nat /\ threshold \in Nat
         /\ RefreshTtl \in Nat /\ AuthTtl \in Nat /\ RefreshTtl > 0 /\ AuthTtl > 0
         /\ \A s \in Sid : setAt[s] \in Nat /\ expires[s] \in Nat
         /\ \A u \in User : inactiveSince[u] \in Nat
  BY TokensConstants DEF TypeOK

\* A request that is not scheduled keeps carrying what it may.
LEMMA JobStable ==
  ASSUME TypeOK, Grows, NEW j \in Job, JobOK(j)
  PROVE  JobOK(j)'
<1>1. ASSUME j.at \in Naming PROVE j.user \in User /\ owner'[j.sid] = j.user
  <2>1. j.sid \in Sid /\ j.user \in User /\ owner[j.sid] = j.user
    BY <1>1 DEF JobOK, Naming
  <2> QED BY <2>1, TokensConstants DEF Grows
<1>2. ASSUME j.at \in {"refreshSet", "deactivateSet", "exec"}
      PROVE  j.raw \in Session /\ j.raw.user = owner'[j.sid]
  <2>1. j.sid \in Sid /\ j.raw \in Session /\ j.raw.user = owner[j.sid]
    BY <1>2 DEF JobOK
  <2>2. j.raw.user \in User
    BY <2>1 DEF Session
  <2> QED BY <2>1, <2>2, TokensConstants DEF Grows
<1>3. j.time \in Nat
  BY DEF Job
<1>4. j.at = "loginSet" => j.time <= now'
  BY <1>3, Numbers DEF JobOK, Grows
<1>5. j.at = "loginDone" => j.time <= setAt'[j.sid]
  <2> SUFFICES ASSUME j.at = "loginDone" PROVE j.time <= setAt'[j.sid]
    OBVIOUS
  <2>1. j.sid \in Sid /\ j.time <= setAt[j.sid]
    BY DEF JobOK
  <2> QED BY <1>3, <2>1, Numbers DEF Grows
<1>6. ASSUME j.at \in {"refreshGet", "refreshSet", "refreshSign"}, threshold' = 0
      PROVE  j.time <= setAt'[j.sid] + RefreshTtl
  <2>1. j.sid \in Sid /\ j.time <= setAt[j.sid] + RefreshTtl
    BY <1>6 DEF JobOK, Grows
  <2> QED BY <1>3, <2>1, Numbers DEF Grows
<1>7. j.at # "idle" => j.sid \in Sid
  BY DEF JobOK
<1> QED BY <1>1, <1>2, <1>4, <1>5, <1>6, <1>7 DEF JobOK

\* A token stays a token of its owner, within its bound.
LEMMA TokenStable ==
  ASSUME TypeOK, Grows, NEW t \in Token, TokenOK(t)
  PROVE  TokenOK(t)'
<1>1. t.sid \in Sid /\ t.user \in User /\ t.exp \in Nat
  BY DEF Token
<1>2. owner'[t.sid] = t.user
  BY <1>1, TokensConstants DEF TokenOK, Grows
<1>3. ASSUME threshold' = 0
      PROVE  IF t.type = "refresh" THEN t.exp <= setAt'[t.sid] + RefreshTtl
             ELSE t.exp < setAt'[t.sid] + RefreshTtl + AuthTtl
  BY <1>1, <1>3, Numbers DEF TokenOK, Grows
<1> QED BY <1>2, <1>3 DEF TokenOK

\* The requests after one of them went on with job j.
LEMMA JobsAfter ==
  ASSUME Inv, Grows, NEW p \in Req, NEW j \in Job, Goto(p, j), JobOK(j)'
  PROVE  job' \in [Req -> Job] /\ JobsOK'
<1>1. job \in [Req -> Job] /\ TypeOK
  BY DEF Inv, TypeOK
<1>2. job' \in [Req -> Job]
  BY <1>1 DEF Goto
<1>3. ASSUME NEW q \in Req PROVE JobOK(job[q])'
  <2>1. CASE q = p
    <3>1. job'[q] = j
      BY <1>1, <2>1 DEF Goto
    <3> QED BY <3>1 DEF JobOK
  <2>2. CASE q # p
    <3>1. job'[q] = job[q] /\ job[q] \in Job /\ JobOK(job[q])
      BY <1>1, <2>2 DEF Goto, Inv, JobsOK
    <3>2. PICK k \in Job : k = job[q]
      BY <3>1
    <3>3. JobOK(k)'
      BY <1>1, <3>1, <3>2, JobStable
    <3> QED BY <3>1, <3>2, <3>3 DEF JobOK
  <2> QED BY <2>1, <2>2
<1> QED BY <1>2, <1>3 DEF JobsOK

\* The logins in flight, when the accounts are left alone.
LEMMA LoginsAfter ==
  ASSUME Inv, NEW p \in Req, NEW j \in Job, Goto(p, j), LoginOK(j),
         UNCHANGED <<status, overtaken>>
  PROVE  LoginsOK'
<1>1. job \in [Req -> Job]
  BY DEF Inv, TypeOK
<1>2. ASSUME NEW q \in Req PROVE LoginOK(job[q])'
  <2>1. job'[q] = IF q = p THEN j ELSE job[q]
    BY <1>1 DEF Goto
  <2>2. LoginOK(job[q])
    BY DEF Inv, LoginsOK
  <2> QED BY <2>1, <2>2 DEF LoginOK
<1> QED BY <1>2 DEF LoginsOK

LEMMA TokensAfter ==
  ASSUME Inv, Grows, \A t \in tokens' \ tokens : t \in Token /\ TokenOK(t)'
  PROVE  (tokens \subseteq Token)' /\ TokensOK'
<1>1. tokens \subseteq Token /\ TypeOK
  BY DEF Inv, TypeOK
<1>2. ASSUME NEW t \in tokens' PROVE t \in Token /\ TokenOK(t)'
  <2>1. CASE t \in tokens
    <3>1. t \in Token /\ TokenOK(t)
      BY <1>1, <2>1 DEF Inv, TokensOK
    <3> QED BY <1>1, <3>1, TokenStable
  <2>2. CASE t \notin tokens
    BY <2>2
  <2> QED BY <2>1, <2>2
<1> QED BY <1>2 DEF TokensOK

-----------------------------------------------------------------------------
(* Steps that only move a request on.                                      *)

LEMMA ReadOnlyStep ==
  ASSUME Inv, NEW p \in Req, NEW j \in Job, JobOK(j), LoginOK(j), Goto(p, j),
         UNCHANGED <<now, threshold, accounts, redis, owner, tokens, setAt>>
  PROVE  Inv'
<1> USE DEF accounts, redis
<1>1. TypeOK
  BY DEF Inv
<1>2. Grows
  BY <1>1, Numbers DEF Grows
<1>3. JobOK(j)'
  BY <1>1, <1>2, JobStable
<1>4. job' \in [Req -> Job] /\ JobsOK' /\ LoginsOK'
  BY <1>2, <1>3, JobsAfter, LoginsAfter
<1>5. TypeOK'
  BY <1>1, <1>4 DEF TypeOK
<1>6. TokensOK' /\ StoreOK' /\ HistoryOK'
  BY DEF Inv, TokensOK, TokenOK, StoreOK, HistoryOK, Live
<1> QED BY <1>4, <1>5, <1>6 DEF Inv

\* The job a scheduled request was at.
LEMMA Facts ==
  ASSUME Inv, NEW p \in Req
  PROVE  /\ TypeOK /\ job[p] \in Job /\ JobOK(job[p]) /\ LoginOK(job[p])
         /\ job[p].at \in At /\ job[p].time \in Nat
  BY DEF Inv, TypeOK, JobsOK, LoginsOK, Job

LEMMA LiveSession ==
  ASSUME Inv, NEW s \in Sid, Live(s)
  PROVE  session[s] \in Session /\ session[s].user = owner[s] /\ session[s].user \in User
  BY DEF Inv, TypeOK, MaybeSession, Session, Live, StoreOK

LEMMA DoneStep ==
  ASSUME Inv, NEW p \in Req, Done(p),
         UNCHANGED <<now, threshold, accounts, redis, owner, tokens, setAt>>
  PROVE  Inv'
  BY IdleJobOK, ReadOnlyStep DEF Done

LEMMA LogInSignStep ==
  ASSUME Inv, NEW p \in Req, LogInSign(p)
  PROVE  Inv'
<1>1. PICK j : j = [job[p] EXCEPT !.at = "loginSet", !.time = now]
  OBVIOUS
<1>2. TypeOK /\ now \in Nat
  BY Numbers DEF Inv
<1>3. j \in Job /\ j.at = "loginSet" /\ j.time = now /\ j.sid = job[p].sid /\ j.user = job[p].user
  BY <1>1, <1>2, Facts DEF Job, At
<1>4. job[p].at = "loginSign" /\ JobOK(job[p]) /\ LoginOK(job[p])
  BY Facts DEF LogInSign
<1>5. JobOK(j) /\ LoginOK(j)
  BY <1>2, <1>3, <1>4 DEF JobOK, LoginOK, Naming
<1>6. Goto(p, j)
  BY <1>1 DEF LogInSign
<1> QED BY <1>3, <1>5, <1>6, ReadOnlyStep DEF LogInSign

LEMMA RefreshStep ==
  ASSUME Inv, NEW p \in Req, Refresh(p)
  PROVE  Inv'
<1>1. PICK t \in tokens :
        /\ Verifies(t, "refresh")
        /\ Goto(p, [IdleJob EXCEPT !.at = "refreshGet", !.user = t.user, !.sid = t.sid,
                               !.time = t.exp])
  BY DEF Refresh
<1>2. t \in Token /\ TokenOK(t) /\ t.type = "refresh"
  BY <1>1 DEF Inv, TypeOK, TokensOK, Verifies
<1>3. t.user \in User /\ t.sid \in Sid /\ t.exp \in Nat
  BY <1>2 DEF Token
<1>4. PICK j : j = [IdleJob EXCEPT !.at = "refreshGet", !.user = t.user, !.sid = t.sid,
                               !.time = t.exp]
  OBVIOUS
<1>5. j = [at |-> "refreshGet", user |-> t.user, sid |-> t.sid, raw |-> None, time |-> t.exp]
  BY <1>4 DEF IdleJob
<1>6. j \in Job /\ JobOK(j) /\ LoginOK(j)
  BY <1>2, <1>3, <1>5 DEF Job, At, MaybeSession, JobOK, LoginOK, Naming, TokenOK
<1> QED BY <1>1, <1>4, <1>6, ReadOnlyStep DEF Refresh

LEMMA GuardStep ==
  ASSUME Inv, NEW p \in Req, Guard(p)
  PROVE  Inv'
<1>1. PICK t \in tokens :
        Goto(p, [IdleJob EXCEPT !.at = "guardGet", !.user = t.user, !.sid = t.sid])
  BY DEF Guard
<1>2. t \in Token /\ TokenOK(t)
  BY <1>1 DEF Inv, TypeOK, TokensOK
<1>3. t.user \in User /\ t.sid \in Sid
  BY <1>2 DEF Token
<1>4. PICK j : j = [IdleJob EXCEPT !.at = "guardGet", !.user = t.user, !.sid = t.sid]
  OBVIOUS
<1>5. j = [at |-> "guardGet", user |-> t.user, sid |-> t.sid, raw |-> None, time |-> 0]
  BY <1>4 DEF IdleJob
<1>6. j \in Job /\ JobOK(j) /\ LoginOK(j)
  BY <1>2, <1>3, <1>5 DEF Job, At, MaybeSession, JobOK, LoginOK, Naming, TokenOK
<1> QED BY <1>1, <1>4, <1>6, ReadOnlyStep DEF Guard

LEMMA RefreshGetStep ==
  ASSUME Inv, NEW p \in Req, RefreshGet(p)
  PROVE  Inv'
<1>1. job[p].at = "refreshGet" /\ JobOK(job[p]) /\ job[p] \in Job
  BY Facts DEF RefreshGet
<1>2. PICK s \in Sid : s = job[p].sid
  BY <1>1 DEF JobOK
<1>3. CASE Live(s)
  <2>1. PICK j : j = [job[p] EXCEPT !.at = "refreshSet", !.raw = session[s]]
    OBVIOUS
  <2>2. session[s] \in Session /\ session[s].user = owner[s]
    BY <1>3, LiveSession
  <2>3. /\ j \in Job /\ j.at = "refreshSet" /\ j.raw = session[s] /\ j.sid = s
        /\ j.user = job[p].user /\ j.time = job[p].time
    BY <1>1, <1>2, <2>1, <2>2 DEF Job, At, MaybeSession
  <2>4. JobOK(j) /\ LoginOK(j)
    BY <1>1, <1>2, <2>2, <2>3 DEF JobOK, LoginOK, Naming
  <2>5. Goto(p, j) \/ Goto(p, IdleJob)
    BY <1>2, <2>1 DEF RefreshGet
  <2> QED BY <2>3, <2>4, <2>5, IdleJobOK, ReadOnlyStep DEF RefreshGet
<1>4. CASE ~Live(s)
  BY <1>2, <1>4, DoneStep DEF RefreshGet, Done
<1> QED BY <1>3, <1>4

LEMMA GuardGetStep ==
  ASSUME Inv, NEW p \in Req, GuardGet(p)
  PROVE  Inv'
<1>1. CASE Done(p)
  BY <1>1, DoneStep DEF GuardGet
<1>2. CASE Advance(p, "logoutDel")
  <2>1. job[p].at = "guardGet" /\ JobOK(job[p]) /\ job[p] \in Job /\ job \in [Req -> Job]
    BY Facts DEF GuardGet, TypeOK
  <2>2. PICK j : j = [job[p] EXCEPT !.at = "logoutDel"]
    OBVIOUS
  <2>3. j \in Job /\ j.at = "logoutDel" /\ j.sid \in Sid
    BY <2>1, <2>2 DEF Job, At, JobOK
  <2>4. JobOK(j) /\ LoginOK(j)
    BY <2>3 DEF JobOK, LoginOK, Naming
  <2>5. Goto(p, j)
    BY <1>2, <2>1, <2>2 DEF Advance, Goto
  <2> QED BY <2>3, <2>4, <2>5, ReadOnlyStep DEF GuardGet
<1> QED BY <1>1, <1>2 DEF GuardGet

\* deactivateSession and refreshSessionPermissions read a session.
LEMMA ReaderJob ==
  ASSUME Inv, NEW p \in Req, NEW s \in Sid, NEW at \in {"deactivateSet", "exec"},
         NEW raw \in Session, raw.user = owner[s],
         Goto(p, [IdleJob EXCEPT !.at = at, !.sid = s, !.raw = raw]),
         UNCHANGED <<now, threshold, accounts, redis, owner, tokens, setAt>>
  PROVE  Inv'
<1>1. PICK j : j = [IdleJob EXCEPT !.at = at, !.sid = s, !.raw = raw]
  OBVIOUS
<1>2. j = [at |-> at, user |-> None, sid |-> s, raw |-> raw, time |-> 0]
  BY <1>1 DEF IdleJob
<1>3. j \in Job /\ JobOK(j) /\ LoginOK(j)
  BY <1>2 DEF Job, At, MaybeSession, JobOK, LoginOK, Naming
<1> QED BY <1>1, <1>3, ReadOnlyStep

LEMMA DeactivateStep ==
  ASSUME Inv, NEW p \in Req, Deactivate(p)
  PROVE  Inv'
<1>1. PICK s \in Sid :
        /\ Live(s)
        /\ Goto(p, [IdleJob EXCEPT !.at = "deactivateSet", !.sid = s,
                        !.raw = [session[s] EXCEPT !.active = FALSE]])
  BY DEF Deactivate
<1>2. session[s] \in Session /\ session[s].user = owner[s]
  BY <1>1, LiveSession
<1>3. PICK raw : raw = [session[s] EXCEPT !.active = FALSE]
  OBVIOUS
<1>4. raw \in Session /\ raw.user = owner[s]
  BY <1>2, <1>3 DEF Session
<1> QED BY <1>1, <1>3, <1>4, ReaderJob DEF Deactivate

LEMMA PropagateStep ==
  ASSUME Inv, NEW p \in Req, Propagate(p)
  PROVE  Inv'
<1>1. PICK s \in Sid :
        /\ Live(s)
        /\ Goto(p, [IdleJob EXCEPT !.at = "exec", !.sid = s, !.raw = session[s]])
  BY DEF Propagate
<1>2. session[s] \in Session /\ session[s].user = owner[s]
  BY <1>1, LiveSession
<1>3. PICK raw : raw = session[s]
  OBVIOUS
<1> QED BY <1>1, <1>2, <1>3, ReaderJob DEF Propagate

-----------------------------------------------------------------------------
(* Steps that write.                                                       *)

LEMMA LogInStep ==
  ASSUME Inv, NEW p \in Req, LogIn(p)
  PROVE  Inv'
<1> USE DEF accounts, redis
<1>1. PICK u \in User, s \in Sid :
        /\ status[u] = "ACTIVE"
        /\ owner[s] = None
        /\ owner' = [owner EXCEPT ![s] = u]
        /\ Goto(p, [IdleJob EXCEPT !.at = "loginSign", !.user = u, !.sid = s])
  BY DEF LogIn
<1>2. TypeOK /\ UNCHANGED <<now, threshold, status, inactiveSince, overtaken, session,
                            expires, rewritten, tokens, setAt>>
  BY DEF Inv, LogIn
<1>3. Grows
  BY <1>1, <1>2, Numbers DEF Grows, TypeOK
<1>4. PICK j : j = [IdleJob EXCEPT !.at = "loginSign", !.user = u, !.sid = s]
  OBVIOUS
<1>5. j = [at |-> "loginSign", user |-> u, sid |-> s, raw |-> None, time |-> 0]
  BY <1>4 DEF IdleJob
<1>6. owner'[s] = u
  BY <1>1, <1>2 DEF TypeOK
<1>7. j \in Job /\ JobOK(j)' /\ LoginOK(j)
  BY <1>1, <1>5, <1>6 DEF Job, At, MaybeSession, JobOK, LoginOK, Naming
<1>8. job' \in [Req -> Job] /\ JobsOK' /\ LoginsOK'
  BY <1>1, <1>2, <1>3, <1>4, <1>7, JobsAfter, LoginsAfter
<1>9. TypeOK'
  BY <1>1, <1>2, <1>8 DEF TypeOK
<1>10. TokensOK'
  BY <1>2, <1>3, TokensAfter
<1>11. StoreOK'
  <2> SUFFICES ASSUME NEW r \in Sid, Live(r)'
               PROVE  /\ session'[r].user = owner'[r]
                      /\ r \notin rewritten' =>
                            expires'[r] = setAt'[r] + RefreshTtl /\ now' < expires'[r]
    BY DEF StoreOK
  <2>1. Live(r)
    BY <1>2 DEF Live
  <2>2. session[r].user = owner[r] /\ session[r].user \in User
    BY <2>1, LiveSession
  <2>3. owner'[r] = owner[r]
    BY <1>3, <2>2, TokensConstants DEF Grows
  <2> QED BY <1>2, <2>1, <2>2, <2>3 DEF Inv, StoreOK
<1>12. HistoryOK'
  <2> SUFFICES ASSUME NEW r \in Sid
               PROVE  /\ setAt'[r] <= now'
                      /\ owner'[r] \in User /\ status'[owner'[r]] = "INACTIVE"
                         /\ r \notin overtaken' => setAt'[r] <= inactiveSince'[owner'[r]]
    BY DEF HistoryOK
  <2>1. owner'[r] = IF r = s THEN u ELSE owner[r]
    BY <1>1, <1>2 DEF TypeOK
  <2> QED BY <1>1, <1>2, <2>1 DEF Inv, HistoryOK
<1> QED BY <1>8, <1>9, <1>10, <1>11, <1>12 DEF Inv

LEMMA LogInSetStep ==
  ASSUME Inv, NEW p \in Req, LogInSet(p)
  PROVE  Inv'
<1> USE DEF accounts
<1>1. job[p].at = "loginSet" /\ JobOK(job[p]) /\ LoginOK(job[p]) /\ job[p] \in Job /\ TypeOK
  BY Facts DEF LogInSet
<1>2. PICK s \in Sid, u \in User : s = job[p].sid /\ u = job[p].user
  BY <1>1 DEF JobOK, Naming
<1>3. /\ session' = [session EXCEPT ![s] = [user |-> u, active |-> TRUE]]
      /\ expires' = [expires EXCEPT ![s] = now + RefreshTtl]
      /\ setAt' = [setAt EXCEPT ![s] = now]
      /\ UNCHANGED <<now, threshold, status, inactiveSince, overtaken, owner, tokens, rewritten>>
  BY <1>2 DEF LogInSet
<1>4. /\ now \in Nat /\ RefreshTtl \in Nat /\ RefreshTtl > 0
      /\ \A r \in Sid : setAt[r] \in Nat /\ setAt[r] <= now
  BY <1>1, Numbers DEF Inv, HistoryOK
<1>5. Grows
  BY <1>1, <1>3, <1>4 DEF Grows, TypeOK
<1>6. PICK j : j = [job[p] EXCEPT !.at = "loginDone"]
  OBVIOUS
<1>7. /\ j \in Job /\ j.at = "loginDone" /\ j.sid = s /\ j.user = u /\ j.time = job[p].time
      /\ Goto(p, j)
  BY <1>1, <1>2, <1>6 DEF Job, At, LogInSet, Advance, Goto
<1>8. setAt'[s] = now
  BY <1>1, <1>3 DEF TypeOK
<1>9. JobOK(j)' /\ LoginOK(j)
  BY <1>1, <1>2, <1>3, <1>7, <1>8 DEF JobOK, LoginOK, Naming
<1>10. job' \in [Req -> Job] /\ JobsOK' /\ LoginsOK'
  BY <1>3, <1>5, <1>7, <1>9, JobsAfter, LoginsAfter
<1>11. TypeOK'
  <2>1. now + RefreshTtl \in 0..(Horizon + RefreshTtl)
    BY <1>1, <1>4, TokensConstants DEF TypeOK
  <2>2. expires' \in [Sid -> 0..(Horizon + RefreshTtl)]
    BY <1>1, <1>3, <2>1 DEF TypeOK
  <2>3. [user |-> u, active |-> TRUE] \in MaybeSession
    BY DEF MaybeSession, Session
  <2>4. session' \in [Sid -> MaybeSession] /\ setAt' \in [Sid -> Nat]
    BY <1>1, <1>3, <1>4, <2>3 DEF TypeOK
  <2> QED BY <1>1, <1>3, <1>10, <2>2, <2>4 DEF TypeOK
<1>12. TokensOK'
  BY <1>3, <1>5, TokensAfter
<1>13. StoreOK'
  <2> SUFFICES ASSUME NEW r \in Sid, Live(r)'
               PROVE  /\ session'[r].user = owner'[r]
                      /\ r \notin rewritten' =>
                            expires'[r] = setAt'[r] + RefreshTtl /\ now' < expires'[r]
    BY DEF StoreOK
  <2>1. CASE r = s
    <3>1. session'[r].user = u /\ expires'[r] = now + RefreshTtl
      BY <1>1, <1>3, <2>1 DEF TypeOK
    <3>2. owner[s] = u
      BY <1>1, <1>2 DEF JobOK, Naming
    <3> QED BY <1>3, <1>4, <1>8, <2>1, <3>1, <3>2
  <2>2. CASE r # s
    <3>1. session'[r] = session[r] /\ expires'[r] = expires[r] /\ setAt'[r] = setAt[r]
      BY <1>1, <1>3, <2>2 DEF TypeOK
    <3> QED BY <1>3, <3>1 DEF Inv, StoreOK, Live
  <2> QED BY <2>1, <2>2
<1>14. HistoryOK'
  <2> SUFFICES ASSUME NEW r \in Sid
               PROVE  /\ setAt'[r] <= now'
                      /\ owner'[r] \in User /\ status'[owner'[r]] = "INACTIVE"
                         /\ r \notin overtaken' => setAt'[r] <= inactiveSince'[owner'[r]]
    BY DEF HistoryOK
  <2>1. CASE r = s
    <3>1. owner[s] = u /\ (status[u] = "INACTIVE" => s \in overtaken)
      BY <1>1, <1>2 DEF JobOK, Naming, LoginOK
    <3> QED BY <1>3, <1>4, <1>8, <2>1, <3>1
  <2>2. CASE r # s
    <3>1. setAt'[r] = setAt[r]
      BY <1>1, <1>3, <2>2 DEF TypeOK
    <3> QED BY <1>3, <3>1 DEF Inv, HistoryOK
  <2> QED BY <2>1, <2>2
<1> QED BY <1>10, <1>11, <1>12, <1>13, <1>14 DEF Inv

\* Steps that end a request and hand out tokens.
LEMMA IssueStep ==
  ASSUME Inv, NEW p \in Req, Done(p),
         \A t \in tokens' \ tokens : t \in Token /\ TokenOK(t),
         UNCHANGED <<now, threshold, accounts, redis, owner, setAt>>
  PROVE  Inv'
<1> USE DEF accounts, redis
<1>1. TypeOK
  BY DEF Inv
<1>2. Grows
  BY <1>1, Numbers DEF Grows
<1>3. JobOK(IdleJob)'
  BY <1>1, <1>2, IdleJobOK, JobStable
<1>4. job' \in [Req -> Job] /\ JobsOK' /\ LoginsOK'
  BY <1>2, <1>3, IdleJobOK, JobsAfter, LoginsAfter DEF Done
<1>5. \A t \in tokens' \ tokens : t \in Token /\ TokenOK(t)'
  BY <1>1, <1>2, TokenStable
<1>6. (tokens \subseteq Token)' /\ TokensOK'
  BY <1>2, <1>5, TokensAfter
<1>7. TypeOK'
  BY <1>1, <1>4, <1>6 DEF TypeOK
<1>8. StoreOK' /\ HistoryOK'
  BY DEF Inv, StoreOK, HistoryOK, Live
<1> QED BY <1>4, <1>6, <1>7, <1>8 DEF Inv

LEMMA LogInDoneStep ==
  ASSUME Inv, NEW p \in Req, LogInDone(p)
  PROVE  Inv'
<1>1. job[p].at = "loginDone" /\ JobOK(job[p]) /\ job[p].time \in Nat /\ TypeOK
  BY Facts DEF LogInDone
<1>2. PICK s \in Sid, u \in User, n \in Nat :
        s = job[p].sid /\ u = job[p].user /\ n = job[p].time
  BY <1>1 DEF JobOK, Naming
<1>3. owner[s] = u /\ n <= setAt[s] /\ setAt[s] \in Nat
  BY <1>1, <1>2, Numbers DEF JobOK, Naming
<1>4. ASSUME NEW t \in tokens' \ tokens PROVE t \in Token /\ TokenOK(t)
  <2>1. \/ t = [type |-> "auth", user |-> u, sid |-> s, exp |-> n + AuthTtl]
        \/ t = [type |-> "refresh", user |-> u, sid |-> s, exp |-> n + RefreshTtl]
    BY <1>2 DEF LogInDone
  <2>2. n + AuthTtl \in Nat /\ n + RefreshTtl \in Nat
    BY TokensConstants
  <2>3. t \in Token
    BY <2>1, <2>2 DEF Token
  <2>4. n + AuthTtl < setAt[s] + RefreshTtl + AuthTtl /\ n + RefreshTtl <= setAt[s] + RefreshTtl
    BY <1>3, TokensConstants
  <2> QED BY <1>3, <2>1, <2>3, <2>4 DEF TokenOK
<1> QED BY <1>4, IssueStep DEF LogInDone

\* With threshold 0 a token that verifies is not rotated.
LEMMA NeverRotates ==
  ASSUME NEW exp \in Nat, now \in Nat, now < exp, threshold = 0
  PROVE  ~shouldRotateRefresh(exp)
<1>1. PICK k \in Nat : k = exp - now
  OBVIOUS
<1>2. k \div Minute >= 0
  BY TokensConstants
<1>3. (exp - now) \div Minute >= 0
  BY <1>1, <1>2
<1>4. PICK d \in Int : d = (exp - now) \div Minute
  BY TokensConstants
<1> QED BY <1>3, <1>4 DEF shouldRotateRefresh

LEMMA RefreshSignStep ==
  ASSUME Inv, NEW p \in Req, RefreshSign(p)
  PROVE  Inv'
<1>1. job[p].at = "refreshSign" /\ JobOK(job[p]) /\ job[p].time \in Nat /\ TypeOK
  BY Facts DEF RefreshSign
<1>2. PICK s \in Sid, u \in User, n \in Nat :
        s = job[p].sid /\ u = job[p].user /\ n = job[p].time
  BY <1>1 DEF JobOK, Naming
<1>3. owner[s] = u /\ setAt[s] \in Nat /\ now \in Nat /\ threshold \in Nat
  BY <1>1, <1>2, Numbers DEF JobOK, Naming
<1>4. threshold = 0 => n <= setAt[s] + RefreshTtl
  BY <1>1, <1>2 DEF JobOK
<1>5. ASSUME NEW t \in tokens' \ tokens PROVE t \in Token /\ TokenOK(t)
  <2>1. PICK type \in {"auth", "refresh"} :
            /\ t = generateToken(type, u, s)
            /\ now < n
            /\ type = "refresh" => shouldRotateRefresh(n)
    BY <1>2 DEF RefreshSign
  <2>2. now + AuthTtl \in Nat /\ now + RefreshTtl \in Nat
    BY <1>3, TokensConstants
  <2>3. t \in Token
    BY <2>1, <2>2 DEF Token, generateToken
  <2>4. CASE threshold # 0
    BY <1>3, <2>1, <2>3, <2>4 DEF TokenOK, generateToken
  <2>5. CASE threshold = 0
    <3>1. type = "auth"
      BY <1>3, <2>1, <2>5, NeverRotates
    <3>2. t = [type |-> "auth", user |-> u, sid |-> s, exp |-> now + AuthTtl]
      BY <2>1, <3>1 DEF generateToken
    <3>3. now + AuthTtl < setAt[s] + RefreshTtl + AuthTtl
      BY <1>3, <1>4, <2>1, <2>5, TokensConstants
    <3> QED BY <1>3, <2>3, <3>2, <3>3 DEF TokenOK
  <2> QED BY <2>3, <2>4, <2>5
<1> QED BY <1>5, IssueStep DEF RefreshSign

\* A session that was read is put back.
LEMMA PutBack ==
  ASSUME Inv, NEW p \in Req, NEW j \in Job, JobOK(j), LoginOK(j), Goto(p, j),
         NEW s \in Sid, NEW x \in Session, x.user = owner[s], SetKeepTtl(s, x),
         UNCHANGED <<now, threshold, accounts, owner, tokens, setAt>>
  PROVE  Inv'
<1> USE DEF accounts
<1>1. TypeOK
  BY DEF Inv
<1>2. Grows
  BY <1>1, Numbers DEF Grows
<1>3. JobOK(j)'
  BY <1>1, <1>2, JobStable
<1>4. job' \in [Req -> Job] /\ JobsOK' /\ LoginsOK'
  BY <1>2, <1>3, JobsAfter, LoginsAfter
<1>5. TypeOK'
  BY <1>1, <1>4 DEF TypeOK, SetKeepTtl, MaybeSession
<1>6. TokensOK' /\ HistoryOK'
  BY DEF Inv, TokensOK, TokenOK, HistoryOK
<1>7. ASSUME NEW r \in Sid, Live(r)'
      PROVE  /\ session'[r].user = owner'[r]
             /\ r \notin rewritten' =>
                    expires'[r] = setAt'[r] + RefreshTtl /\ now' < expires'[r]
  <2>1. session'[r] = IF r = s THEN x ELSE session[r]
    BY <1>1 DEF TypeOK, SetKeepTtl
  <2>2. r \notin rewritten' => r \notin rewritten /\ Live(r)
    BY <1>7, <2>1 DEF SetKeepTtl, Live
  <2>3. expires' = expires
    BY DEF SetKeepTtl
  <2>4. session'[r].user = owner'[r]
    BY <1>7, <2>1 DEF Inv, StoreOK, Live
  <2> QED BY <2>2, <2>3, <2>4 DEF Inv, StoreOK
<1> QED BY <1>4, <1>5, <1>6, <1>7 DEF Inv, StoreOK

LEMMA RefreshSetStep ==
  ASSUME Inv, NEW p \in Req, RefreshSet(p)
  PROVE  Inv'
<1>1. job[p].at = "refreshSet" /\ JobOK(job[p]) /\ job[p] \in Job /\ job \in [Req -> Job]
  BY Facts DEF RefreshSet, TypeOK
<1>2. PICK s \in Sid, x \in Session : s = job[p].sid /\ x = job[p].raw
  BY <1>1 DEF JobOK
<1>3. x.user = owner[s] /\ SetKeepTtl(s, x)
  BY <1>1, <1>2 DEF JobOK, RefreshSet
<1>4. PICK j : j = [job[p] EXCEPT !.at = "refreshSign"]
  OBVIOUS
<1>5. /\ j \in Job /\ j.at = "refreshSign" /\ j.sid = s /\ j.user = job[p].user
      /\ j.time = job[p].time /\ Goto(p, j)
  BY <1>1, <1>2, <1>4 DEF Job, At, RefreshSet, Advance, Goto
<1>6. JobOK(j) /\ LoginOK(j)
  BY <1>1, <1>2, <1>5 DEF JobOK, LoginOK, Naming
<1> QED BY <1>3, <1>5, <1>6, PutBack DEF RefreshSet

LEMMA WriteBackStep ==
  ASSUME Inv, NEW p \in Req, WriteBack(p)
  PROVE  Inv'
<1>1. job[p].at \in {"deactivateSet", "exec"} /\ JobOK(job[p])
  BY Facts DEF WriteBack
<1>2. PICK s \in Sid, x \in Session : s = job[p].sid /\ x = job[p].raw
  BY <1>1 DEF JobOK
<1>3. x.user = owner[s] /\ SetKeepTtl(s, x)
  BY <1>1, <1>2 DEF JobOK, WriteBack
<1> QED BY <1>3, IdleJobOK, PutBack DEF WriteBack, Done

LEMMA LogOutDelStep ==
  ASSUME Inv, NEW p \in Req, LogOutDel(p)
  PROVE  Inv'
<1> USE DEF accounts
<1>1. job[p].at = "logoutDel" /\ JobOK(job[p]) /\ TypeOK
  BY Facts DEF LogOutDel
<1>2. PICK s \in Sid : s = job[p].sid
  BY <1>1 DEF JobOK
<1>3. /\ session' = [session EXCEPT ![s] = None]
      /\ expires' = [expires EXCEPT ![s] = 0]
      /\ UNCHANGED <<now, threshold, status, inactiveSince, overtaken, rewritten,
                     owner, tokens, setAt>>
  BY <1>2 DEF LogOutDel
<1>4. Grows
  BY <1>1, <1>3, Numbers DEF Grows
<1>5. JobOK(IdleJob)'
  BY <1>1, <1>4, IdleJobOK, JobStable
<1>6. job' \in [Req -> Job] /\ JobsOK' /\ LoginsOK'
  BY <1>3, <1>4, <1>5, IdleJobOK, JobsAfter, LoginsAfter DEF LogOutDel, Done
<1>7. 0 \in 0..(Horizon + RefreshTtl)
  BY TokensConstants
<1>8. TypeOK'
  BY <1>1, <1>3, <1>6, <1>7 DEF TypeOK, MaybeSession
<1>9. TokensOK' /\ HistoryOK'
  BY <1>3 DEF Inv, TokensOK, TokenOK, HistoryOK
<1>10. ASSUME NEW r \in Sid, Live(r)'
       PROVE  r # s /\ session'[r] = session[r] /\ expires'[r] = expires[r]
  BY <1>1, <1>3, <1>10 DEF TypeOK, Live
<1>11. StoreOK'
  BY <1>3, <1>10 DEF Inv, StoreOK, Live
<1> QED BY <1>6, <1>8, <1>9, <1>11 DEF Inv

-----------------------------------------------------------------------------
(* Accounts and time.                                                      *)

\* Steps that leave the requests, the tokens and Redis alone.
LEMMA AccountStep ==
  ASSUME Inv, TypeOK', LoginsOK', HistoryOK',
         UNCHANGED <<now, threshold, redis, owner, tokens, job, setAt>>
  PROVE  Inv'
  BY DEF Inv, redis, JobsOK, JobOK, TokensOK, TokenOK, StoreOK, Live

LEMMA DeactivateUserStep ==
  ASSUME Inv, NEW u \in User, DeactivateUser(u)
  PROVE  Inv'
<1> USE DEF redis
<1>1. TypeOK /\ now \in Nat
  BY Numbers DEF Inv
<1>2. /\ status' = [status EXCEPT ![u] = "INACTIVE"]
      /\ inactiveSince' = [inactiveSince EXCEPT ![u] = now]
      /\ overtaken' = overtaken \union
            {job[p].sid : p \in {q \in Req : job[q].user = u
                                    /\ job[q].at \in {"loginSign", "loginSet"}}}
      /\ UNCHANGED <<now, threshold, session, expires, rewritten, owner, tokens, job, setAt>>
  BY DEF DeactivateUser
<1>3. \A q \in Req : job[q].at \in {"loginSign", "loginSet"} => job[q].sid \in Sid
  BY DEF Inv, JobsOK, JobOK
<1>4. TypeOK'
  BY <1>1, <1>2, <1>3 DEF TypeOK
<1>5. LoginsOK'
  <2> SUFFICES ASSUME NEW q \in Req PROVE LoginOK(job[q])'
    BY DEF LoginsOK
  <2>1. CASE job[q].user = u
    BY <1>2, <2>1 DEF LoginOK
  <2>2. CASE job[q].user # u
    <3>1. job[q].at \in {"loginSign", "loginSet"} => job[q].user \in User
      BY DEF Inv, JobsOK, JobOK, Naming
    <3> QED BY <1>1, <1>2, <2>2, <3>1 DEF Inv, LoginsOK, LoginOK, TypeOK
  <2> QED BY <2>1, <2>2
<1>6. HistoryOK'
  <2> SUFFICES ASSUME NEW r \in Sid
               PROVE  /\ setAt[r] <= now
                      /\ owner[r] \in User /\ status'[owner[r]] = "INACTIVE"
                         /\ r \notin overtaken' => setAt[r] <= inactiveSince'[owner[r]]
    BY <1>2 DEF HistoryOK
  <2>1. setAt[r] <= now
    BY DEF Inv, HistoryOK
  <2>2. CASE owner[r] = u
    BY <1>1, <1>2, <2>1, <2>2 DEF TypeOK
  <2>3. CASE owner[r] # u
    BY <1>1, <1>2, <2>1, <2>3 DEF TypeOK, Inv, HistoryOK
  <2> QED BY <2>2, <2>3
<1> QED BY <1>4, <1>5, <1>6, AccountStep DEF DeactivateUser

LEMMA ActivateUserStep ==
  ASSUME Inv, NEW u \in User, ActivateUser(u)
  PROVE  Inv'
<1>1. TypeOK
  BY DEF Inv
<1>2. /\ status' = [status EXCEPT ![u] = "ACTIVE"]
      /\ UNCHANGED <<now, threshold, redis, owner, tokens, job, setAt, inactiveSince, overtaken>>
  BY DEF ActivateUser
<1>3. \A v \in User : status'[v] = "INACTIVE" => status[v] = "INACTIVE"
  BY <1>1, <1>2 DEF TypeOK
<1>4. TypeOK'
  BY <1>1, <1>2 DEF TypeOK, redis
<1>5. LoginsOK'
  <2>1. \A q \in Req : job[q].at \in {"loginSign", "loginSet"} => job[q].user \in User
    BY DEF Inv, JobsOK, JobOK, Naming
  <2> QED BY <1>2, <1>3, <2>1 DEF Inv, LoginsOK, LoginOK
<1>6. HistoryOK'
  BY <1>2, <1>3 DEF Inv, HistoryOK
<1> QED BY <1>2, <1>4, <1>5, <1>6, AccountStep

LEMMA TickStep ==
  ASSUME Inv, Tick
  PROVE  Inv'
<1> USE DEF accounts
<1>1. TypeOK /\ now \in Nat /\ now' = now + 1 /\ now' \in 0..Horizon
  BY Numbers, TokensConstants DEF Inv, Tick, TypeOK
<1>2. UNCHANGED <<threshold, status, inactiveSince, overtaken, rewritten, owner, job, setAt>>
  BY DEF Tick
<1>3. Grows
  BY <1>1, <1>2, Numbers DEF Grows
<1>4. JobsOK'
  <2> SUFFICES ASSUME NEW q \in Req PROVE JobOK(job[q])'
    BY DEF JobsOK
  <2>1. PICK k \in Job : k = job[q] /\ JobOK(k)
    BY <1>1 DEF Inv, TypeOK, JobsOK
  <2>2. JobOK(k)'
    BY <1>1, <1>3, <2>1, JobStable
  <2> QED BY <1>2, <2>1, <2>2 DEF JobOK
<1>5. LoginsOK'
  BY <1>2 DEF Inv, LoginsOK, LoginOK
<1>6. (tokens \subseteq Token)' /\ TokensOK'
  <2>1. tokens' \subseteq tokens
    BY DEF Tick
  <2> QED BY <1>3, <2>1, TokensAfter
<1>7. \A s \in Sid :
        /\ session'[s] = IF expires[s] = now + 1 THEN None ELSE session[s]
        /\ expires'[s] = IF expires[s] = now + 1 THEN 0 ELSE expires[s]
  BY DEF Tick
<1>8. TypeOK'
  <2>1. 0 \in 0..(Horizon + RefreshTtl)
    BY TokensConstants
  <2>2. session' \in [Sid -> MaybeSession] /\ expires' \in [Sid -> 0..(Horizon + RefreshTtl)]
    BY <1>1, <2>1 DEF Tick, TypeOK, MaybeSession
  <2> QED BY <1>1, <1>2, <1>6, <2>2 DEF TypeOK
<1>9. StoreOK'
  <2> SUFFICES ASSUME NEW r \in Sid, Live(r)'
               PROVE  /\ session'[r].user = owner'[r]
                      /\ r \notin rewritten' =>
                            expires'[r] = setAt'[r] + RefreshTtl /\ now' < expires'[r]
    BY DEF StoreOK
  <2>1. expires[r] # now + 1 /\ session'[r] = session[r] /\ expires'[r] = expires[r] /\ Live(r)
    BY <1>7 DEF Live
  <2>2. expires[r] \in Nat
    BY <1>1, Numbers
  <2> QED BY <1>1, <1>2, <2>1, <2>2 DEF Inv, StoreOK
<1>10. HistoryOK'
  BY <1>1, <1>2, Numbers DEF Inv, HistoryOK
<1> QED BY <1>4, <1>5, <1>6, <1>8, <1>9, <1>10 DEF Inv

-----------------------------------------------------------------------------
LEMMA InvStep == Inv /\ [Next]_vars => Inv'
<1> SUFFICES ASSUME Inv, [Next]_vars PROVE Inv'
  OBVIOUS
<1>1. ASSUME NEW p \in Req, Request(p) PROVE Inv'
  <2>1. CASE LogIn(p)
    BY <2>1, LogInStep
  <2>2. CASE LogInSign(p)
    BY <2>2, LogInSignStep
  <2>3. CASE LogInSet(p)
    BY <2>3, LogInSetStep
  <2>4. CASE LogInDone(p)
    BY <2>4, LogInDoneStep
  <2>5. CASE Refresh(p)
    BY <2>5, RefreshStep
  <2>6. CASE RefreshGet(p)
    BY <2>6, RefreshGetStep
  <2>7. CASE RefreshSet(p)
    BY <2>7, RefreshSetStep
  <2>8. CASE RefreshSign(p)
    BY <2>8, RefreshSignStep
  <2>9. CASE Guard(p)
    BY <2>9, GuardStep
  <2>10. CASE GuardGet(p)
    BY <2>10, GuardGetStep
  <2>11. CASE LogOutDel(p)
    BY <2>11, LogOutDelStep
  <2>12. CASE Deactivate(p)
    BY <2>12, DeactivateStep
  <2>13. CASE Propagate(p)
    BY <2>13, PropagateStep
  <2>14. CASE WriteBack(p)
    BY <2>14, WriteBackStep
  <2>15. CASE Fail(p)
    BY <2>15, DoneStep DEF Fail
  <2> QED BY <1>1, <2>1, <2>2, <2>3, <2>4, <2>5, <2>6, <2>7, <2>8, <2>9, <2>10,
             <2>11, <2>12, <2>13, <2>14, <2>15 DEF Request
<1>2. ASSUME NEW u \in User, DeactivateUser(u) \/ ActivateUser(u) PROVE Inv'
  BY <1>2, DeactivateUserStep, ActivateUserStep
<1>3. CASE Tick
  BY <1>3, TickStep
<1>4. CASE UNCHANGED vars
  BY <1>4 DEF vars, Inv, TypeOK, JobsOK, JobOK, LoginsOK, LoginOK, TokensOK, TokenOK,
              StoreOK, HistoryOK, Live
<1> QED BY <1>1, <1>2, <1>3, <1>4 DEF Next

\* What tokens, sessions, suspended requests and histories may be, at all times.
THEOREM Invariance == Spec => []Inv
  BY InvInit, InvStep, PTL DEF Spec

\* The clock, the tokens, the session keys and the suspended requests keep
\* their types; no key is given more than one session lifetime.
THEOREM TypeCorrect == Spec => []TypeOK
<1>1. Inv => TypeOK
  BY DEF Inv
<1> QED BY <1>1, Invariance, PTL

\* For every lifetime and threshold: refreshing and rotating never keep a
\* login open beyond one session lifetime, unless its session was put back.
THEOREM LoginIsBounded == Spec => []LoginBoundsAccess
<1>1. Inv => LoginBoundsAccess
  BY DEF Inv, LoginBoundsAccess, Opens, Admits, StoreOK, TypeOK, Token
<1> QED BY <1>1, Invariance, PTL

\* For every lifetime: without rotation even a session that was put back and
\* has no expiry is useless after one refresh and one auth token lifetime.
THEOREM RotationAloneProlongs == Spec => []NoRotationNoImmortality
<1>1. ASSUME Inv PROVE NoRotationNoImmortality
  <2> SUFFICES ASSUME threshold = 0, NEW t \in tokens, Opens(t)
               PROVE  now < setAt[t.sid] + RefreshTtl + AuthTtl
    BY DEF NoRotationNoImmortality
  <2>1. t \in Token /\ t.type = "auth" /\ now < t.exp /\ TokenOK(t)
    BY <1>1 DEF Inv, TypeOK, TokensOK, Opens, Verifies
  <2>2. t.exp < setAt[t.sid] + RefreshTtl + AuthTtl
    BY <2>1 DEF TokenOK
  <2>3. t.exp \in Nat /\ t.sid \in Sid
    BY <2>1 DEF Token
  <2>4. now \in Nat /\ setAt[t.sid] \in Nat /\ RefreshTtl \in Nat /\ AuthTtl \in Nat
    BY <1>1, <2>3, Numbers DEF Inv
  <2> QED BY <2>1, <2>2, <2>3, <2>4
<1> QED BY <1>1, Invariance, PTL

\* For every lifetime: a deactivated account is shut out one session lifetime
\* after its deactivation, whatever is refreshed, rotated or reactivated,
\* unless its session was put back or its login was overtaken.
THEOREM DeactivationIsBounded == Spec => []DeactivationBoundsAccess
<1>1. ASSUME Inv PROVE DeactivationBoundsAccess
  <2> SUFFICES ASSUME NEW t \in tokens, Opens(t), status[t.user] = "INACTIVE",
                      t.sid \notin rewritten \union overtaken
               PROVE  now < inactiveSince[t.user] + RefreshTtl
    BY DEF DeactivationBoundsAccess
  <2>1. t.sid \in Sid /\ t.user \in User
    BY <1>1 DEF Inv, TypeOK, Token
  <2>2. Live(t.sid) /\ owner[t.sid] = t.user
    BY <1>1, <2>1 DEF Opens, Admits, Inv, StoreOK
  <2>3. now < setAt[t.sid] + RefreshTtl
    BY <1>1, <2>1, <2>2 DEF Inv, StoreOK
  <2>4. setAt[t.sid] <= inactiveSince[t.user]
    BY <1>1, <2>1, <2>2 DEF Inv, HistoryOK
  <2>5. /\ now \in Nat /\ setAt[t.sid] \in Nat /\ RefreshTtl \in Nat
        /\ inactiveSince[t.user] \in Nat
    BY <1>1, <2>1, Numbers DEF Inv
  <2> QED BY <2>3, <2>4, <2>5
<1> QED BY <1>1, Invariance, PTL
=============================================================================
