---------------------------- MODULE UserAccounts ----------------------------
(***************************************************************************)
(* The accounts of UsersService: registration, first activation, password  *)
(* reset, activation, deactivation, role assignment and the credentials    *)
(* check of a login.                                                       *)
(*                                                                         *)
(* A user stands for an e-mail address and the person behind it, both      *)
(* unique in the table.  Of a password only its origin matters: "temp" is  *)
(* the one register generates and mails, "own" one that its owner chose    *)
(* (the DTOs ask for a special character, so that no chosen password is    *)
(* one of the generated hexadecimal strings).  As in Sessions an action is *)
(* the code from one await to the next; here the save of an entity is the  *)
(* SELECT and the UPDATE that TypeORM makes of it.                         *)
(***************************************************************************)
EXTENDS Integers, FiniteSets

CONSTANTS
    User, Token,
    Req,        \* requests in flight at once
    MaxFaults,  \* bound: Postgres, Redis or RabbitMQ calls that reject
    None

ASSUME UserAccountsConstants ==
    /\ MaxFaults \in Nat
    /\ None \notin User \union Token
    /\ None \notin [status : {"PENDING", "ACTIVE", "INACTIVE"}, password : {"temp", "own"}]

VARIABLES
    row,       \* row[u]: the committed row of users, None before registration
    reset,     \* reset[t]: value of reset_password:t, None when missing
    job,       \* job[p]: what request p is waiting for
    faults,
    torn,      \* history: some UPDATE was computed from a row that had changed since
    welcomed,  \* history: welcomed[u], registration mails handed to the broker
    mailed,    \* history: mailed[t], the user that was sent token t, or None
    spent,     \* history: spent[t], the password changes made with token t
    opened     \* history: the credentials <<user, password>> that opened a session

table == <<row, reset>>
history == <<torn, welcomed, mailed, spent, opened>>
vars == <<row, reset, job, faults, torn, welcomed, mailed, spent, opened>>

UserStatus == {"PENDING", "ACTIVE", "INACTIVE"}
Password == {"temp", "own"}
Row == [status : UserStatus, password : Password]
MaybeRow == Row \union {None}

At == {"idle", "insert", "mail", "commit", "logIn", "firstActivation",
       "setToken", "mailToken", "findReset", "saveReset", "save", "saveActive"}
Saving == {"save", "saveActive", "saveReset"}

\* seen: the entity as the request loaded it; new: as it saves it;
\* base: the row that save itself selected, None before that.
Job == [at : At, user : User \union {None}, token : Token \union {None},
        seen : MaybeRow, new : MaybeRow, base : MaybeRow, given : Password]

IdleJob == [at |-> "idle", user |-> None, token |-> None,
            seen |-> None, new |-> None, base |-> None, given |-> "own"]

Exists(u) == row[u] # None

Init ==
    /\ row = [u \in User |-> None]
    /\ reset = [t \in Token |-> None]
    /\ job = [p \in Req |-> IdleJob]
    /\ faults = 0
    /\ torn = FALSE
    /\ welcomed = [u \in User |-> 0]
    /\ mailed = [t \in Token |-> None]
    /\ spent = [t \in Token |-> 0]
    /\ opened = {}

-----------------------------------------------------------------------------
Idle(p) == job[p].at = "idle"
Goto(p, j) == job' = [job EXCEPT ![p] = j]
Advance(p, at) == job' = [job EXCEPT ![p].at = at]
Done(p) == Goto(p, IdleJob)

\* The request has loaded the row of u and will save it as r.
Load(p, at, u, r) ==
    /\ Idle(p)
    /\ Exists(u)
    /\ Goto(p, [IdleJob EXCEPT !.at = at, !.user = u, !.seen = row[u], !.new = r])
    /\ UNCHANGED <<table, faults, history>>

\* save(entity), external: TypeORM selects the row again and compares ...
SaveSelect(p) ==
    /\ job[p].at \in Saving
    /\ job[p].base = None
    /\ job' = [job EXCEPT ![p].base = row[job[p].user]]
    /\ UNCHANGED <<table, faults, history>>

\* ... and updates the columns in which the entity differs from what it
\* selected, whoever has written the row since.  The hook hashes the password
\* only when it is not the one that was loaded.
Changed(old, new, now) ==
    [status |-> IF new.status = old.status THEN now.status ELSE new.status,
     password |-> IF new.password = old.password THEN now.password ELSE new.password]

SaveUpdate(p) == LET j == job[p] IN
    /\ j.base # None
    /\ row' = [row EXCEPT ![j.user] = Changed(j.base, j.new, row[j.user])]
    /\ torn' = (torn \/ row[j.user] # j.base)

-----------------------------------------------------------------------------
(* register                                                                *)

\* The validators of the DTO found neither the e-mail nor the person.
Register(p) == \E u \in User :
    /\ Idle(p)
    /\ ~Exists(u)
    /\ Goto(p, [IdleJob EXCEPT !.at = "insert", !.user = u])
    /\ UNCHANGED <<table, faults, history>>

\* Requests whose transaction has inserted the row of u and is open.
Inserting(u) == {q \in Req : job[q].user = u /\ job[q].at \in {"mail", "commit"}}

\* Mutant: the mail goes out whatever the constraints say.
RegisterInsertUnchecked(p) ==
    /\ job[p].at = "insert"
    /\ Advance(p, "mail")
    /\ UNCHANGED <<table, faults, history>>

\* INSERT under the unique constraints: it waits for an open transaction that
\* inserted the same key, and fails when the key is there.
RegisterInsert(p) == LET u == job[p].user IN
    /\ job[p].at = "insert"
    /\ Inserting(u) = {}
    /\ IF Exists(u) THEN Done(p) ELSE Advance(p, "mail")
    /\ UNCHANGED <<table, faults, history>>

\* sendRegistrationMail, inside the transaction.
RegisterMail(p) ==
    /\ job[p].at = "mail"
    /\ welcomed' = [welcomed EXCEPT ![job[p].user] = @ + 1]
    /\ Advance(p, "commit")
    /\ UNCHANGED <<table, faults, torn, mailed, spent, opened>>

RegisterCommit(p) ==
    /\ job[p].at = "commit"
    /\ row' = [row EXCEPT ![job[p].user] = [status |-> "PENDING", password |-> "temp"]]
    /\ Done(p)
    /\ UNCHANGED <<reset, faults, history>>

-----------------------------------------------------------------------------
(* logIn, as far as the credentials go, and firstActivation                *)

LogIn(p) == \E u \in User, given \in Password :
    /\ Idle(p)
    /\ Exists(u)
    /\ Goto(p, [IdleJob EXCEPT !.at = "logIn", !.user = u, !.seen = row[u], !.given = given])
    /\ UNCHANGED <<table, faults, history>>

\* compare, then the checks of the status, on the row as it was loaded.
LogInCheck(p) == LET j == job[p] IN
    /\ j.at = "logIn"
    /\ opened' = IF j.given = j.seen.password /\ j.seen.status \notin {"PENDING", "INACTIVE"}
                 THEN opened \union {<<j.user, j.given>>} ELSE opened
    /\ Done(p)
    /\ UNCHANGED <<table, faults, torn, welcomed, mailed, spent>>

FirstActivation(p) == \E u \in User, given \in Password :
    /\ Idle(p)
    /\ Exists(u)
    /\ row[u].status = "PENDING"
    /\ Goto(p, [IdleJob EXCEPT !.at = "firstActivation", !.user = u, !.seen = row[u],
                               !.given = given])
    /\ UNCHANGED <<table, faults, history>>

\* compare; the new password and the status are saved together.
FirstActivationCheck(p) == LET j == job[p] IN
    /\ j.at = "firstActivation"
    /\ Goto(p, IF j.given = j.seen.password
               THEN [j EXCEPT !.at = "save", !.new = [status |-> "ACTIVE", password |-> "own"]]
               ELSE IdleJob)
    /\ UNCHANGED <<table, faults, history>>

-----------------------------------------------------------------------------
(* activate, deactivate, assignRole                                        *)

\* Mutant: activates users of any status.
ActivateUnchecked(p) == \E u \in User :
    /\ Exists(u)
    /\ Load(p, "saveActive", u, [row[u] EXCEPT !.status = "ACTIVE"])

Activate(p) == \E u \in User :
    /\ Exists(u)
    /\ row[u].status = "INACTIVE"
    /\ Load(p, "saveActive", u, [row[u] EXCEPT !.status = "ACTIVE"])

Deactivate(p) == \E u \in User :
    /\ Exists(u)
    /\ row[u].status = "ACTIVE"
    /\ Load(p, "save", u, [row[u] EXCEPT !.status = "INACTIVE"])

\* The roles are in Sessions; here it matters that the whole user is saved.
AssignRole(p) == \E u \in User :
    Load(p, "save", u, row[u])

\* The save that ends firstActivation, activate, deactivate and assignRole.
SaveUser(p) ==
    /\ job[p].at \in {"save", "saveActive"}
    /\ SaveUpdate(p)
    /\ Done(p)
    /\ UNCHANGED <<reset, faults, welcomed, mailed, spent, opened>>

-----------------------------------------------------------------------------
(* forgotPassword and resetPassword                                        *)

\* randomBytes: a token that no mail, key or request holds.
ForgotPassword(p) == \E u \in User, t \in Token :
    /\ Idle(p)
    /\ Exists(u)
    /\ mailed[t] = None
    /\ reset[t] = None
    /\ \A q \in Req : job[q].token # t
    /\ Goto(p, [IdleJob EXCEPT !.at = "setToken", !.user = u, !.token = t])
    /\ UNCHANGED <<table, faults, history>>

\* Mutant: stores the token instead of the user's id.
ForgotSetToken(p) == LET j == job[p] IN
    /\ j.at = "setToken"
    /\ reset' = [reset EXCEPT ![j.token] = j.token]
    /\ Advance(p, "mailToken")
    /\ UNCHANGED <<row, faults, history>>

ForgotSet(p) == LET j == job[p] IN
    /\ j.at = "setToken"
    /\ reset' = [reset EXCEPT ![j.token] = j.user]
    /\ Advance(p, "mailToken")
    /\ UNCHANGED <<row, faults, history>>

ForgotMail(p) == LET j == job[p] IN
    /\ j.at = "mailToken"
    /\ mailed' = [mailed EXCEPT ![j.token] = j.user]
    /\ Done(p)
    /\ UNCHANGED <<table, faults, torn, welcomed, spent, opened>>

\* Mutant: GET instead of GETDEL.
ResetPasswordGet(p) == \E t \in Token :
    /\ Idle(p)
    /\ mailed[t] # None
    /\ reset[t] # None
    /\ Goto(p, [IdleJob EXCEPT !.at = "findReset", !.user = reset[t], !.token = t])
    /\ UNCHANGED <<table, faults, history>>

\* GETDEL: the token is taken before anything else happens.
ResetPassword(p) == \E t \in Token :
    /\ Idle(p)
    /\ mailed[t] # None
    /\ reset[t] # None
    /\ reset' = [reset EXCEPT ![t] = None]
    /\ Goto(p, [IdleJob EXCEPT !.at = "findReset", !.user = reset[t], !.token = t])
    /\ UNCHANGED <<row, faults, history>>

\* Mutant: a reset also activates the user.
ResetFindActivates(p) == LET j == job[p] IN
    /\ j.at = "findReset"
    /\ Goto(p, [j EXCEPT !.at = "saveReset", !.seen = row[j.user],
                         !.new = [status |-> "ACTIVE", password |-> "own"]])
    /\ UNCHANGED <<table, faults, history>>

ResetFind(p) == LET j == job[p] IN
    /\ j.at = "findReset"
    /\ Goto(p, [j EXCEPT !.at = "saveReset", !.seen = row[j.user],
                         !.new = [row[j.user] EXCEPT !.password = "own"]])
    /\ UNCHANGED <<table, faults, history>>

\* save; the confirmation mail that follows changes nothing here.
ResetSave(p) == LET j == job[p] IN
    /\ j.at = "saveReset"
    /\ SaveUpdate(p)
    /\ spent' = [spent EXCEPT ![j.token] = @ + 1]
    /\ Done(p)
    /\ UNCHANGED <<reset, faults, welcomed, mailed, opened>>

-----------------------------------------------------------------------------
(* The environment.                                                        *)

\* RESET_PASSWORD_EXPIRES_IN has passed.
Expire == \E t \in Token :
    /\ reset[t] # None
    /\ reset' = [reset EXCEPT ![t] = None]
    /\ UNCHANGED <<row, job, faults, history>>

\* A call rejects: the request ends; the transaction of register rolls back,
\* a mail that was handed over stays so.
Fail(p) ==
    /\ ~Idle(p)
    /\ faults < MaxFaults
    /\ faults' = faults + 1
    /\ Done(p)
    /\ UNCHANGED <<table, history>>

-----------------------------------------------------------------------------
Start(p) ==
    \/ Register(p) \/ LogIn(p) \/ FirstActivation(p)
    \/ Activate(p) \/ Deactivate(p) \/ AssignRole(p)
    \/ ForgotPassword(p) \/ ResetPassword(p)

Step(p) ==
    \/ RegisterInsert(p) \/ RegisterMail(p) \/ RegisterCommit(p)
    \/ LogInCheck(p) \/ FirstActivationCheck(p) \/ SaveSelect(p) \/ SaveUser(p)
    \/ ForgotSet(p) \/ ForgotMail(p) \/ ResetFind(p) \/ ResetSave(p)

Next ==
    \/ \E p \in Req : Start(p) \/ Step(p) \/ Fail(p)
    \/ Expire

Spec == Init /\ [][Next]_vars

-----------------------------------------------------------------------------
(* Properties.                                                             *)

\* Type invariant of the accounts, the reset keys and the suspended requests.
TypeOK ==
    /\ row \in [User -> MaybeRow]
    /\ reset \in [Token -> User \union {None}]
    /\ job \in [Req -> Job]
    /\ faults \in 0 .. MaxFaults
    /\ torn \in BOOLEAN
    /\ welcomed \in [User -> Nat]
    /\ mailed \in [Token -> User \union {None}]
    /\ spent \in [Token -> Nat]
    /\ opened \subseteq User \X Password

\* The password that register generated and mailed opens no session, however
\* stale the entities that requests save (a late assignRole can put a user
\* back to PENDING): it takes two saves of one user that run between each
\* other's SELECT and UPDATE and so mix their columns.
TemporaryPasswordOpensNothing ==
    ~torn => \A u \in User : <<u, "temp">> \notin opened

\* GETDEL makes a reset token good for one password change, also when two
\* requests present it at the same moment, or after a failed one.
TokenSpentOnce == \A t \in Token : spent[t] <= 1

\* Registrations of u whose mail is out and whose transaction is open.
Committing(u) == {q \in Inserting(u) : job[q].at = "commit"}

\* register mails before it commits.  Every account was announced, and a mail
\* without an account costs a fault: registrations of one address that race
\* past the validators do not mail a second password.
WelcomeMailsAccounted == \A u \in User :
    LET due == IF Exists(u) THEN 1 ELSE Cardinality(Committing(u))
    IN /\ due <= 1
       /\ welcomed[u] - due \in 0 .. faults

\* A deactivated user is readmitted by activate only, or by the save of an
\* entity that was loaded before the deactivation.
OnlyActivateReadmits ==
    [][\A u \in User :
        Exists(u) /\ row[u].status = "INACTIVE" /\ row'[u] # row[u] /\ row'[u].status # "INACTIVE"
        => \E p \in Req : /\ job[p].user = u
                          /\ job'[p] # job[p]
                          /\ job[p].at \in Saving
                          /\ job[p].at = "saveActive" \/ job[p].seen.status # "INACTIVE"]_vars
=============================================================================
