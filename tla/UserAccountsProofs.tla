-------------------------- MODULE UserAccountsProofs ------------------------
(***************************************************************************)
(* What UserAccounts promises for any users, tokens and requests.          *)
(*                                                                         *)
(* Inv says which fields of a request are set where it stands, and that    *)
(* the row it is about exists (JobOK, ResetOK).  Guarded adds that, until  *)
(* two saves have been mixed, an account that is not PENDING has a         *)
(* password its owner chose: in the table, in every entity a request holds *)
(* and in every credential that opened a session.  Single says that of the *)
(* key, the requests and the past uses of a token at most one exists.      *)
(* Admission says that at most one registration of a user holds the        *)
(* inserted row, what the welcome mails add up to, and that a request      *)
(* which saw a user deactivated saves nothing else, unless it is activate. *)
(***************************************************************************)
EXTENDS UserAccounts, FiniteSetTheorems, TLAPS

Held == At \ {"idle", "insert", "mail", "commit"}
Forgetting == {"setToken", "mailToken"}
Resetting == {"findReset", "saveReset"}

\* What a request carries where it stands.
JobOK(j) ==
    /\ j.at # "idle" => j.user \in User
    /\ j.at \in Saving => j.new # None /\ j.seen # None
    /\ j.base # None => j.at \in Saving
    /\ j.at \in {"logIn", "firstActivation"} => j.seen # None
    /\ j.token # None <=> j.at \in Forgetting \union Resetting

\* The account a request or a reset key is about exists.
HeldExist == \A p \in Req : job[p].at \in Held => row[job[p].user] # None
ResetOK == \A t \in Token : reset[t] # None => row[reset[t]] # None

Inv == TypeOK /\ ResetOK /\ HeldExist /\ \A p \in Req : JobOK(job[p])

Chosen(r) == r # None /\ r.status # "PENDING" => r.password = "own"

Guarded ==
    /\ \A u \in User : Chosen(row[u])
    /\ \A p \in Req : Chosen(job[p].seen) /\ Chosen(job[p].new)
    /\ \A u \in User : <<u, "temp">> \notin opened

Using(p, t) == job[p].at \in Resetting /\ job[p].token = t

Single(t) ==
    /\ spent[t] <= 1
    /\ mailed[t] = None => spent[t] = 0
    /\ reset[t] # None => spent[t] = 0
    /\ \A p \in Req : job[p].token = t /\ job[p].at \in Forgetting => mailed[t] = None
    /\ \A p \in Req : Using(p, t) => spent[t] = 0 /\ reset[t] = None /\ mailed[t] # None
    /\ \A p, q \in Req : job[p].token = t /\ job[q].token = t => p = q

-----------------------------------------------------------------------------
LEMMA RowFacts ==
    /\ None \notin Row
    /\ \A r \in MaybeRow : r # None => r \in Row
BY UserAccountsConstants DEF Row, MaybeRow, UserStatus, Password

LEMMA IdleJobOK == IdleJob \in Job /\ JobOK(IdleJob) /\ IdleJob.at = "idle"
                   /\ IdleJob.token = None /\ IdleJob.seen = None /\ IdleJob.new = None
BY DEF IdleJob, Job, JobOK, At, Saving, Forgetting, Resetting, MaybeRow, Password

LEMMA InitInv == ASSUME Init PROVE Inv
<1>1. TypeOK
  <2>1. faults \in 0 .. MaxFaults
    BY UserAccountsConstants DEF Init
  <2>2. job \in [Req -> Job]
    BY IdleJobOK DEF Init
  <2> QED BY <2>1, <2>2 DEF Init, TypeOK, MaybeRow
<1>2. ResetOK
  BY DEF Init, ResetOK
<1>3. \A p \in Req : job[p] = IdleJob
  BY DEF Init
<1>4. HeldExist /\ \A p \in Req : JobOK(job[p])
  BY <1>3, IdleJobOK DEF HeldExist, Held
<1> QED BY <1>1, <1>2, <1>4 DEF Inv

\* No account is ever removed.
RowsStay == row' \in [User -> MaybeRow] /\ \A u \in User : row[u] # None => row'[u] # None

\* A request goes on with job j while the accounts stay and the keys name them.
LEMMA JobStep ==
  ASSUME Inv, NEW p \in Req, NEW j \in Job, JobOK(j), Goto(p, j), RowsStay,
         j.at \in Held => row'[j.user] # None,
         reset' \in [Token -> User \union {None}], ResetOK',
         faults' \in 0 .. MaxFaults, torn' \in BOOLEAN, welcomed' \in [User -> Nat],
         mailed' \in [Token -> User \union {None}], spent' \in [Token -> Nat],
         opened' \subseteq User \X Password
  PROVE  Inv'
<1>1. job \in [Req -> Job]
  BY DEF Inv, TypeOK
<1>2. job' \in [Req -> Job] /\ job'[p] = j /\ \A q \in Req \ {p} : job'[q] = job[q]
  BY <1>1 DEF Goto
<1>3. TypeOK'
  BY <1>2 DEF TypeOK, RowsStay
<1>4. \A q \in Req : JobOK(job'[q])
  BY <1>2 DEF Inv
<1>5. ASSUME NEW q \in Req, job'[q].at \in Held PROVE row'[job'[q].user] # None
  <2>1. CASE q = p
    BY <2>1, <1>2, <1>5
  <2>2. CASE q # p
    <3>1. job[q].at # "idle" /\ JobOK(job[q]) /\ row[job[q].user] # None /\ job'[q] = job[q]
      BY <2>2, <1>2, <1>5 DEF Inv, HeldExist, Held
    <3> QED BY <3>1 DEF JobOK, RowsStay
  <2> QED BY <2>1, <2>2
<1>6. HeldExist'
  BY <1>5 DEF HeldExist
<1>7. (\A q \in Req : JobOK(job[q]))'
  BY <1>4 DEF JobOK
<1>8. TypeOK' /\ ResetOK' /\ HeldExist'
  BY <1>3, <1>6
<1> QED BY <1>7, <1>8 DEF Inv

LEMMA Facts ==
  ASSUME Inv, NEW p \in Req
  PROVE  /\ job[p] \in Job /\ JobOK(job[p])
         /\ job \in [Req -> Job]
         /\ row \in [User -> MaybeRow]
         /\ job[p].at \in Held => row[job[p].user] # None
         /\ reset \in [Token -> User \union {None}]
         /\ mailed \in [Token -> User \union {None}]
         /\ spent \in [Token -> Nat] /\ welcomed \in [User -> Nat]
         /\ faults \in 0 .. MaxFaults /\ torn \in BOOLEAN
         /\ opened \subseteq User \X Password
         /\ ResetOK
BY DEF Inv, TypeOK, HeldExist

\* A step that touches no more than the jobs, the faults and the credentials.
LEMMA JobOnly ==
  ASSUME Inv, NEW p \in Req, NEW j \in Job, JobOK(j), Goto(p, j),
         j.at \in Held => row[j.user] # None,
         UNCHANGED <<row, reset, torn, welcomed, mailed, spent>>,
         faults' \in 0 .. MaxFaults, opened' \subseteq User \X Password
  PROVE  Inv'
<1>1. RowsStay /\ ResetOK'
  BY Facts DEF RowsStay, ResetOK
<1>2. /\ reset' \in [Token -> User \union {None}] /\ mailed' \in [Token -> User \union {None}]
      /\ spent' \in [Token -> Nat] /\ welcomed' \in [User -> Nat] /\ torn' \in BOOLEAN
  BY Facts
<1>3. j.at \in Held => row'[j.user] # None
  OBVIOUS
<1> QED BY <1>1, <1>2, <1>3, JobStep

LEMMA StartInv == ASSUME Inv, NEW p \in Req, Start(p) PROVE Inv'
<1> USE DEF IdleJob
<1>1. CASE Register(p)
  <2>1. PICK u \in User : Register(p)!(u)
    BY <1>1 DEF Register
  <2>2. PICK j : j = [IdleJob EXCEPT !.at = "insert", !.user = u]
    OBVIOUS
  <2>3. j \in Job /\ JobOK(j) /\ j.at \notin Held
    BY <2>2 DEF Job, JobOK, At, Held, Saving, Forgetting, Resetting, MaybeRow, Password
  <2>4. Goto(p, j)
    BY <2>1, <2>2
  <2> QED BY <2>1, <2>3, <2>4, Facts, JobOnly DEF table, history
<1>2. CASE LogIn(p)
  <2>1. PICK u \in User, given \in Password : LogIn(p)!(u, given)
    BY <1>2 DEF LogIn
  <2>2. PICK j : j = [IdleJob EXCEPT !.at = "logIn", !.user = u, !.seen = row[u], !.given = given]
    OBVIOUS
  <2>3. row[u] \in MaybeRow /\ row[u] # None
    BY <2>1, Facts DEF Exists
  <2>4. j \in Job /\ JobOK(j) /\ j.user = u
    BY <2>2, <2>3 DEF Job, JobOK, At, Saving, Forgetting, Resetting, MaybeRow
  <2>5. Goto(p, j)
    BY <2>1, <2>2
  <2> QED BY <2>1, <2>3, <2>4, <2>5, Facts, JobOnly DEF table, history
<1>3. CASE FirstActivation(p)
  <2>1. PICK u \in User, given \in Password : FirstActivation(p)!(u, given)
    BY <1>3 DEF FirstActivation
  <2>2. PICK j : j = [IdleJob EXCEPT !.at = "firstActivation", !.user = u, !.seen = row[u],
                                     !.given = given]
    OBVIOUS
  <2>3. row[u] \in MaybeRow /\ row[u] # None
    BY <2>1, Facts DEF Exists
  <2>4. j \in Job /\ JobOK(j) /\ j.user = u
    BY <2>2, <2>3 DEF Job, JobOK, At, Saving, Forgetting, Resetting, MaybeRow
  <2>5. Goto(p, j)
    BY <2>1, <2>2
  <2> QED BY <2>1, <2>3, <2>4, <2>5, Facts, JobOnly DEF table, history
<1>4. ASSUME NEW u \in User, NEW at \in {"save", "saveActive"}, NEW r \in Row, Load(p, at, u, r)
      PROVE  Inv'
  <2>1. row[u] \in MaybeRow /\ row[u] # None /\ r \in MaybeRow /\ r # None
    BY <1>4, Facts, RowFacts DEF Exists, Load, MaybeRow
  <2>2. PICK j : j = [IdleJob EXCEPT !.at = at, !.user = u, !.seen = row[u], !.new = r]
    OBVIOUS
  <2>3. j \in Job /\ JobOK(j) /\ j.user = u
    BY <2>1, <2>2 DEF Job, JobOK, At, Saving, Forgetting, Resetting, MaybeRow, Password
  <2>4. Goto(p, j)
    BY <1>4, <2>2 DEF Load
  <2> QED BY <1>4, <2>1, <2>3, <2>4, Facts, JobOnly DEF Load, table, history
<1>5. CASE Activate(p) \/ Deactivate(p) \/ AssignRole(p)
  <2>1. \A u \in User : Exists(u) => /\ row[u] \in Row
                                     /\ [row[u] EXCEPT !.status = "ACTIVE"] \in Row
                                     /\ [row[u] EXCEPT !.status = "INACTIVE"] \in Row
    BY Facts, RowFacts DEF Exists, Row, UserStatus
  <2>2. CASE Activate(p)
    BY <2>1, <2>2, <1>4 DEF Activate
  <2>3. CASE Deactivate(p)
    BY <2>1, <2>3, <1>4 DEF Deactivate
  <2>4. CASE AssignRole(p)
    BY <2>1, <2>4, <1>4 DEF AssignRole, Load
  <2> QED BY <1>5, <2>2, <2>3, <2>4
<1>6. CASE ForgotPassword(p)
  <2>1. PICK u \in User, t \in Token : ForgotPassword(p)!(u, t)
    BY <1>6 DEF ForgotPassword
  <2>2. PICK j : j = [IdleJob EXCEPT !.at = "setToken", !.user = u, !.token = t]
    OBVIOUS
  <2>3. j \in Job /\ JobOK(j) /\ j.user = u
    BY <2>2, UserAccountsConstants
       DEF Job, JobOK, At, Saving, Forgetting, Resetting, MaybeRow, Password
  <2>4. Goto(p, j)
    BY <2>1, <2>2
  <2> QED BY <2>1, <2>3, <2>4, Facts, JobOnly DEF table, history, Exists
<1>7. CASE ResetPassword(p)
  <2>1. PICK t \in Token : ResetPassword(p)!(t)
    BY <1>7 DEF ResetPassword
  <2>2. reset[t] \in User /\ row[reset[t]] # None
    BY <2>1, Facts DEF ResetOK
  <2>3. PICK j : j = [IdleJob EXCEPT !.at = "findReset", !.user = reset[t], !.token = t]
    OBVIOUS
  <2>4. j \in Job /\ JobOK(j) /\ j.user = reset[t]
    BY <2>2, <2>3, UserAccountsConstants
       DEF Job, JobOK, At, Saving, Forgetting, Resetting, MaybeRow, Password
  <2>5. Goto(p, j)
    BY <2>1, <2>3
  <2>6. reset' \in [Token -> User \union {None}] /\ ResetOK' /\ RowsStay
    BY <2>1, Facts DEF ResetOK, RowsStay
  <2> QED BY <2>1, <2>2, <2>4, <2>5, <2>6, Facts, JobStep DEF history
<1> QED BY <1>1, <1>2, <1>3, <1>5, <1>6, <1>7 DEF Start

\* The UPDATE of a save leaves rows in the table.
LEMMA UpdateFacts ==
  ASSUME Inv, NEW p \in Req, job[p].at \in Saving, SaveUpdate(p)
  PROVE  /\ RowsStay /\ torn' \in BOOLEAN
         /\ job[p].user \in User /\ job[p].base \in Row /\ job[p].new \in Row
         /\ row[job[p].user] \in Row
         /\ row' = [row EXCEPT ![job[p].user] =
                        Changed(job[p].base, job[p].new, row[job[p].user])]
<1> DEFINE j == job[p]
<1>1. j.user \in User /\ j.base \in Row /\ j.new \in Row /\ row[j.user] \in Row
  <2>1. j.user \in User /\ j.new # None /\ j.base # None /\ row[j.user] # None
    BY Facts DEF JobOK, Saving, Held, At, SaveUpdate
  <2>2. j.base \in MaybeRow /\ j.new \in MaybeRow /\ row[j.user] \in MaybeRow
    BY <2>1, Facts DEF Job
  <2> QED BY <2>1, <2>2, RowFacts
<1>2. row' = [row EXCEPT ![j.user] = Changed(j.base, j.new, row[j.user])]
  BY DEF SaveUpdate
<1>3. Changed(j.base, j.new, row[j.user]) \in Row
  BY <1>1 DEF Changed, Row
<1>4. RowsStay
  <2> HIDE DEF j
  <2>1. \A u \in User : row'[u] \in MaybeRow /\ (row[u] # None => row'[u] # None)
    BY <1>1, <1>2, <1>3, RowFacts, Facts DEF MaybeRow
  <2> QED BY <2>1, <1>2, Facts DEF RowsStay
<1> QED BY <1>1, <1>2, <1>4, Facts DEF SaveUpdate

LEMMA StepInv == ASSUME Inv, NEW p \in Req, Step(p) PROVE Inv'
<1>0. IdleJob \in Job /\ JobOK(IdleJob) /\ IdleJob.at \notin Held
  BY IdleJobOK DEF Held
<1>1. CASE RegisterInsert(p)
  <2>1. CASE Done(p)
    BY <2>1, <1>0, <1>1, Facts, JobOnly DEF RegisterInsert, Done, table, history
  <2>2. CASE Advance(p, "mail")
    <3>1. PICK j : j = [job[p] EXCEPT !.at = "mail"]
      OBVIOUS
    <3>2. j \in Job /\ JobOK(j) /\ j.at \notin Held
      BY <1>1, <3>1, Facts DEF Job, JobOK, At, Held, Saving, Forgetting, Resetting, RegisterInsert
    <3>3. Goto(p, j)
      BY <2>2, <3>1, Facts DEF Goto, Advance
    <3> QED BY <1>1, <3>2, <3>3, Facts, JobOnly DEF RegisterInsert, table, history
  <2> QED BY <1>1, <2>1, <2>2 DEF RegisterInsert
<1>2. CASE RegisterMail(p)
  <2>1. PICK j : j = [job[p] EXCEPT !.at = "commit"]
    OBVIOUS
  <2>2. j \in Job /\ JobOK(j) /\ j.at \notin Held
    BY <1>2, <2>1, Facts DEF Job, JobOK, At, Held, Saving, Forgetting, Resetting, RegisterMail
  <2>3. Goto(p, j)
    BY <1>2, <2>1, Facts DEF Goto, Advance, RegisterMail
  <2>4. welcomed' \in [User -> Nat]
    <3>1. welcomed[job[p].user] + 1 \in Nat
      BY <1>2, Facts DEF RegisterMail, JobOK
    <3> QED BY <1>2, <3>1, Facts DEF RegisterMail
  <2>5. RowsStay /\ ResetOK'
    BY <1>2, Facts DEF RegisterMail, table, RowsStay, ResetOK
  <2> QED BY <1>2, <2>2, <2>3, <2>4, <2>5, Facts, JobStep DEF RegisterMail, table
<1>3. CASE RegisterCommit(p)
  <2>1. [status |-> "PENDING", password |-> "temp"] \in Row /\ job[p].user \in User
    BY <1>3, Facts DEF Row, UserStatus, Password, JobOK, RegisterCommit
  <2>2. RowsStay
    <3>1. PICK r : r = [status |-> "PENDING", password |-> "temp"]
      OBVIOUS
    <3>2. r \in MaybeRow /\ r # None /\ row' = [row EXCEPT ![job[p].user] = r]
      BY <1>3, <2>1, <3>1, RowFacts DEF RegisterCommit, MaybeRow
    <3> QED BY <3>2, Facts DEF RowsStay
  <2>3. ResetOK'
    BY <1>3, <2>2, Facts DEF RegisterCommit, RowsStay, ResetOK
  <2> QED BY <1>0, <1>3, <2>2, <2>3, Facts, JobStep DEF RegisterCommit, Done, history
<1>4. CASE LogInCheck(p)
  <2>1. job[p].user \in User /\ job[p].given \in Password
    BY <1>4, Facts DEF LogInCheck, JobOK, Job
  <2>2. opened' \subseteq User \X Password
    BY <1>4, <2>1, Facts DEF LogInCheck
  <2> QED BY <1>0, <1>4, <2>2, Facts, JobOnly DEF LogInCheck, Done, table
<1>5. CASE FirstActivationCheck(p)
  <2>1. PICK j : j = [job[p] EXCEPT !.at = "save",
                          !.new = [status |-> "ACTIVE", password |-> "own"]]
    OBVIOUS
  <2>2. [status |-> "ACTIVE", password |-> "own"] \in Row
    BY DEF Row, UserStatus, Password
  <2>3. j \in Job /\ JobOK(j) /\ j.user = job[p].user
    <3> PICK r : r = [status |-> "ACTIVE", password |-> "own"]
      OBVIOUS
    <3>1. job[p].at = "firstActivation" /\ job[p] \in Job /\ JobOK(job[p])
      BY <1>5, Facts DEF FirstActivationCheck
    <3>2. r \in MaybeRow /\ r # None
      BY <2>2, RowFacts DEF MaybeRow
    <3>3. j \in Job
      BY <2>1, <3>1, <3>2 DEF Job, At
    <3>4. /\ j.at = "save" /\ j.user = job[p].user /\ j.token = job[p].token
          /\ j.new = r /\ j.seen = job[p].seen /\ j.base = job[p].base
      BY <2>1, <3>1 DEF Job
    <3>5. JobOK(j)
      BY <3>1, <3>2, <3>4 DEF JobOK, Saving, Forgetting, Resetting
    <3> QED BY <3>3, <3>4, <3>5
  <2>4. row[job[p].user] # None
    BY <1>5, Facts DEF FirstActivationCheck, Held, At
  <2>5. Goto(p, j) \/ Goto(p, IdleJob)
    BY <1>5, <2>1 DEF FirstActivationCheck
  <2> QED BY <1>0, <1>5, <2>3, <2>4, <2>5, Facts, JobOnly DEF FirstActivationCheck, table, history
<1>6. CASE SaveSelect(p)
  <2>1. job[p].user \in User /\ row[job[p].user] # None
    BY <1>6, Facts DEF SaveSelect, JobOK, Saving, Held, At
  <2>2. PICK j : j = [job[p] EXCEPT !.base = row[job[p].user]]
    OBVIOUS
  <2>3. j \in Job /\ JobOK(j) /\ j.user = job[p].user
    BY <1>6, <2>1, <2>2, Facts DEF Job, JobOK, SaveSelect
  <2>4. Goto(p, j)
    BY <1>6, <2>2, Facts DEF Goto, SaveSelect
  <2> QED BY <1>6, <2>1, <2>3, <2>4, Facts, JobOnly DEF SaveSelect, table, history
<1>7. CASE SaveUser(p)
  <2>1. RowsStay /\ torn' \in BOOLEAN
    BY <1>7, UpdateFacts DEF SaveUser, Saving
  <2>2. ResetOK'
    BY <1>7, <2>1, Facts DEF SaveUser, RowsStay, ResetOK
  <2> QED BY <1>0, <1>7, <2>1, <2>2, Facts, JobStep DEF SaveUser, Done
<1>8. CASE ForgotSet(p)
  <2>1. PICK j : j = [job[p] EXCEPT !.at = "mailToken"]
    OBVIOUS
  <2>2. job[p].user \in User /\ row[job[p].user] # None
    BY <1>8, Facts DEF ForgotSet, JobOK, Held, At
  <2>3. j \in Job /\ JobOK(j) /\ j.user = job[p].user
    BY <1>8, <2>1, Facts DEF Job, JobOK, At, Saving, Forgetting, Resetting, ForgotSet
  <2>4. Goto(p, j)
    BY <1>8, <2>1, Facts DEF Goto, Advance, ForgotSet
  <2>5. reset' \in [Token -> User \union {None}] /\ ResetOK' /\ RowsStay
    BY <1>8, <2>2, Facts DEF ForgotSet, ResetOK, RowsStay
  <2> QED BY <1>8, <2>2, <2>3, <2>4, <2>5, Facts, JobStep DEF ForgotSet, history
<1>9. CASE ForgotMail(p)
  <2>1. job[p].user \in User
    BY <1>9, Facts DEF ForgotMail, JobOK
  <2>2. mailed' \in [Token -> User \union {None}] /\ RowsStay /\ ResetOK'
    BY <1>9, <2>1, Facts DEF ForgotMail, table, RowsStay, ResetOK
  <2> QED BY <1>0, <1>9, <2>2, Facts, JobStep DEF ForgotMail, Done, table
<1>10. CASE ResetFind(p)
  <2>1. job[p].user \in User /\ row[job[p].user] # None
    BY <1>10, Facts DEF ResetFind, JobOK, Held, At
  <2>2. PICK r : r = [row[job[p].user] EXCEPT !.password = "own"]
    OBVIOUS
  <2>3. row[job[p].user] \in Row /\ r \in Row
    <3>1. row[job[p].user] \in Row
      BY <2>1, RowFacts, Facts
    <3> QED BY <2>2, <3>1 DEF Row, Password
  <2>4. PICK j : j = [job[p] EXCEPT !.at = "saveReset", !.seen = row[job[p].user], !.new = r]
    OBVIOUS
  <2>5. j \in Job /\ JobOK(j) /\ j.user = job[p].user
    <3>1. job[p].at = "findReset" /\ job[p] \in Job /\ JobOK(job[p])
      BY <1>10, Facts DEF ResetFind
    <3>2. r \in MaybeRow /\ r # None /\ row[job[p].user] \in MaybeRow /\ row[job[p].user] # None
      BY <2>1, <2>3, RowFacts DEF MaybeRow
    <3>3. j \in Job
      BY <2>4, <3>1, <3>2 DEF Job, At
    <3>4. /\ j.at = "saveReset" /\ j.user = job[p].user /\ j.token = job[p].token
          /\ j.new = r /\ j.seen = row[job[p].user] /\ j.base = job[p].base
      BY <2>4, <3>1 DEF Job
    <3>5. job[p].base = None /\ job[p].token # None
      BY <3>1 DEF JobOK, Saving, Forgetting, Resetting
    <3>6. JobOK(j)
      BY <2>1, <3>2, <3>4, <3>5 DEF JobOK, Saving, Forgetting, Resetting
    <3> QED BY <3>3, <3>4, <3>6
  <2>6. Goto(p, j)
    BY <1>10, <2>2, <2>4 DEF ResetFind
  <2> QED BY <1>10, <2>1, <2>5, <2>6, Facts, JobOnly DEF ResetFind, table, history
<1>11. CASE ResetSave(p)
  <2>1. RowsStay /\ torn' \in BOOLEAN
    BY <1>11, UpdateFacts DEF ResetSave, Saving
  <2>2. ResetOK'
    BY <1>11, <2>1, Facts DEF ResetSave, RowsStay, ResetOK
  <2>3. spent' \in [Token -> Nat]
    <3>1. job[p].token \in Token
      BY <1>11, Facts DEF ResetSave, JobOK, Job, Forgetting, Resetting
    <3>2. spent[job[p].token] + 1 \in Nat
      BY <3>1, Facts
    <3> QED BY <1>11, <3>2, Facts DEF ResetSave
  <2> QED BY <1>0, <1>11, <2>1, <2>2, <2>3, Facts, JobStep DEF ResetSave, Done
<1> QED BY <1>1, <1>2, <1>3, <1>4, <1>5, <1>6, <1>7, <1>8, <1>9, <1>10, <1>11 DEF Step

LEMMA NextInv == ASSUME Inv, [Next]_vars PROVE Inv'
<1>1. ASSUME NEW p \in Req, Fail(p) PROVE Inv'
  <2>1. faults' \in 0 .. MaxFaults
    BY <1>1, UserAccountsConstants, Facts DEF Fail
  <2> QED BY <1>1, <2>1, IdleJobOK, Facts, JobOnly DEF Fail, Done, Held, table, history
<1>2. ASSUME Expire PROVE Inv'
  <2>1. TypeOK'
    BY <1>2 DEF Expire, Inv, TypeOK, history
  <2>2. ResetOK' /\ HeldExist' /\ (\A p \in Req : JobOK(job[p]))'
    BY <1>2 DEF Expire, Inv, TypeOK, ResetOK, HeldExist, JobOK, history
  <2> QED BY <2>1, <2>2 DEF Inv
<1>3. CASE UNCHANGED vars
  BY <1>3 DEF vars, Inv, TypeOK, ResetOK, HeldExist, JobOK
<1> QED BY <1>1, <1>2, <1>3, StartInv, StepInv DEF Next

\* UserAccounts keeps its types: no save writes a half-loaded entity and no
\* reset key names an account that is not there.
THEOREM TypeCorrect == Spec => []TypeOK
<1>1. Init => Inv
  BY InitInv
<1>2. Inv /\ [Next]_vars => Inv'
  BY NextInv
<1>3. Inv => TypeOK
  BY DEF Inv
<1> QED BY <1>1, <1>2, <1>3, PTL DEF Spec

-----------------------------------------------------------------------------
(* The temporary password.                                                 *)

\* An UPDATE computed from the row it meets writes the entity as it is.
LEMMA ChangedFromCurrent ==
  ASSUME NEW old \in Row, NEW new \in Row PROVE Changed(old, new, old) = new
BY DEF Changed, Row

\* One request goes on with a job whose entities are sound, the rows and the
\* credentials stay sound.
LEMMA GuardedJob ==
  ASSUME Inv, Guarded, NEW p \in Req, NEW j \in Job, Goto(p, j), Chosen(j.seen), Chosen(j.new),
         \A u \in User : Chosen(row'[u]), \A u \in User : <<u, "temp">> \notin opened'
  PROVE  Guarded'
<1>1. job'[p] = j /\ \A q \in Req \ {p} : job'[q] = job[q]
  BY Facts DEF Goto
<1>2. \A q \in Req : Chosen(job'[q].seen) /\ Chosen(job'[q].new)
  BY <1>1 DEF Guarded
<1> QED BY <1>2 DEF Guarded, Chosen

LEMMA GuardedStart == ASSUME Inv, Guarded, NEW p \in Req, Start(p) PROVE Guarded'
<1>1. ASSUME NEW j, Goto(p, j), j \in Job, Chosen(j.seen), Chosen(j.new), UNCHANGED <<row, opened>>
      PROVE  Guarded'
  BY <1>1, GuardedJob DEF Guarded
<1>2. CASE Register(p) \/ ForgotPassword(p) \/ ResetPassword(p)
  <2>1. PICK j \in Job : Goto(p, j) /\ j.seen = None /\ j.new = None
    <3>1. CASE Register(p)
      <4>1. PICK u \in User : Goto(p, [IdleJob EXCEPT !.at = "insert", !.user = u])
        BY <3>1 DEF Register
      <4>2. PICK j : j = [IdleJob EXCEPT !.at = "insert", !.user = u]
        OBVIOUS
      <4>3. j \in Job /\ j.seen = None /\ j.new = None
        BY <4>2 DEF IdleJob, Job, At, MaybeRow, Password
      <4> QED BY <4>1, <4>2, <4>3
    <3>2. CASE ForgotPassword(p)
      <4>1. PICK u \in User, t \in Token :
              Goto(p, [IdleJob EXCEPT !.at = "setToken", !.user = u, !.token = t])
        BY <3>2 DEF ForgotPassword
      <4>2. PICK j : j = [IdleJob EXCEPT !.at = "setToken", !.user = u, !.token = t]
        OBVIOUS
      <4>3. j \in Job /\ j.seen = None /\ j.new = None
        BY <4>2 DEF IdleJob, Job, At, MaybeRow, Password
      <4> QED BY <4>1, <4>2, <4>3
    <3>3. CASE ResetPassword(p)
      <4>1. PICK t \in Token :
              Goto(p, [IdleJob EXCEPT !.at = "findReset", !.user = reset[t], !.token = t])
        BY <3>3 DEF ResetPassword
      <4>2. PICK j : j = [IdleJob EXCEPT !.at = "findReset", !.user = reset[t], !.token = t]
        OBVIOUS
      <4>3. j \in Job /\ j.seen = None /\ j.new = None
        BY <4>2, Facts DEF IdleJob, Job, At, MaybeRow, Password
      <4> QED BY <4>1, <4>2, <4>3
    <3> QED BY <1>2, <3>1, <3>2, <3>3
  <2>2. UNCHANGED <<row, opened>>
    BY <1>2 DEF Register, ForgotPassword, ResetPassword, table, history
  <2> QED BY <1>1, <2>1, <2>2 DEF Chosen
<1>3. CASE LogIn(p) \/ FirstActivation(p)
  <2>1. PICK u \in User, given \in Password, at \in At :
          Goto(p, [IdleJob EXCEPT !.at = at, !.user = u, !.seen = row[u], !.given = given])
    BY <1>3 DEF LogIn, FirstActivation, At
  <2>2. PICK j : j = [IdleJob EXCEPT !.at = at, !.user = u, !.seen = row[u], !.given = given]
    OBVIOUS
  <2>3. j \in Job /\ j.seen = row[u] /\ j.new = None
    BY <2>2, Facts DEF IdleJob, Job, MaybeRow
  <2>4. Goto(p, j)
    BY <2>1, <2>2
  <2> QED BY <1>1, <1>3, <2>3, <2>4 DEF LogIn, FirstActivation, table, history, Chosen, Guarded
<1>4. CASE Activate(p) \/ Deactivate(p) \/ AssignRole(p)
  <2>1. PICK u \in User, at \in {"save", "saveActive"}, st \in UserStatus :
          /\ Exists(u)
          /\ row[u].status = "PENDING" => st = "PENDING"
          /\ Load(p, at, u, [row[u] EXCEPT !.status = st])
    <3>1. CASE Activate(p)
      BY <3>1 DEF Activate, UserStatus
    <3>2. CASE Deactivate(p)
      BY <3>2 DEF Deactivate, UserStatus
    <3>3. CASE AssignRole(p)
      <4>1. PICK u \in User : Exists(u) /\ Load(p, "save", u, row[u])
        BY <3>3 DEF AssignRole, Load
      <4>2. row[u] \in Row
        BY <4>1, RowFacts, Facts DEF Exists
      <4>3. row[u].status \in UserStatus /\ row[u] = [row[u] EXCEPT !.status = row[u].status]
        BY <4>2 DEF Row
      <4> QED BY <4>1, <4>3
    <3> QED BY <1>4, <3>1, <3>2, <3>3
  <2>2. row[u] \in Row /\ Chosen(row[u])
    BY <2>1, RowFacts, Facts DEF Exists, Guarded
  <2>3. PICK r : r = [row[u] EXCEPT !.status = st]
    OBVIOUS
  <2>4. r \in Row /\ r.status = st /\ r.password = row[u].password
    BY <2>2, <2>3 DEF Row
  <2>5. Chosen(r)
    BY <2>1, <2>2, <2>4, RowFacts DEF Chosen
  <2>6. PICK j : j = [IdleJob EXCEPT !.at = at, !.user = u, !.seen = row[u], !.new = r]
    OBVIOUS
  <2>7. j \in Job /\ j.seen = row[u] /\ j.new = r
    BY <2>2, <2>4, <2>6 DEF IdleJob, Job, MaybeRow, At, Password
  <2>8. Goto(p, j) /\ UNCHANGED <<row, opened>>
    BY <2>1, <2>3, <2>6 DEF Load, table, history
  <2> QED BY <1>1, <2>2, <2>5, <2>7, <2>8
<1> QED BY <1>2, <1>3, <1>4 DEF Start

\* The UPDATE of a save that nothing was mixed into.
LEMMA GuardedUpdate ==
  ASSUME Inv, Guarded, NEW p \in Req, job[p].at \in Saving, SaveUpdate(p), ~torn'
  PROVE  \A u \in User : Chosen(row'[u])
<1> DEFINE j == job[p]
<1>1. row[j.user] = j.base
  BY DEF SaveUpdate
<1>2. j.user \in User /\ row' = [row EXCEPT ![j.user] = j.new]
  BY <1>1, UpdateFacts, ChangedFromCurrent
<1>3. Chosen(j.new)
  BY DEF Guarded
<1> HIDE DEF j
<1>4. \A u \in User : row'[u] = IF u = j.user THEN j.new ELSE row[u]
  BY <1>2, Facts
<1> QED BY <1>3, <1>4 DEF Guarded

LEMMA GuardedStep == ASSUME Inv, Guarded, NEW p \in Req, Step(p), ~torn' PROVE Guarded'
<1>0. IdleJob \in Job /\ Chosen(IdleJob.seen) /\ Chosen(IdleJob.new)
  BY IdleJobOK DEF Chosen
<1>1. ASSUME NEW j \in Job, Goto(p, j), Chosen(j.seen), Chosen(j.new), UNCHANGED <<row, opened>>
      PROVE  Guarded'
  BY <1>1, GuardedJob DEF Guarded
<1>2. ASSUME NEW at \in At, Advance(p, at), UNCHANGED <<row, opened>> PROVE Guarded'
  <2>1. PICK j : j = [job[p] EXCEPT !.at = at]
    OBVIOUS
  <2>2. j \in Job /\ j.seen = job[p].seen /\ j.new = job[p].new
    BY <2>1, Facts DEF Job
  <2>3. Goto(p, j)
    BY <1>2, <2>1, Facts DEF Advance, Goto
  <2> QED BY <1>1, <1>2, <2>2, <2>3 DEF Guarded
<1>3. CASE RegisterInsert(p)
  BY <1>0, <1>1, <1>2, <1>3 DEF RegisterInsert, Done, At, table, history
<1>4. CASE RegisterMail(p)
  BY <1>2, <1>4 DEF RegisterMail, At, table
<1>5. CASE RegisterCommit(p)
  <2>1. PICK r : r = [status |-> "PENDING", password |-> "temp"]
    OBVIOUS
  <2>2. row' = [row EXCEPT ![job[p].user] = r] /\ Chosen(r)
    BY <1>5, <2>1 DEF RegisterCommit, Chosen
  <2>3. \A u \in User : Chosen(row'[u])
    BY <2>2, Facts DEF Guarded
  <2> QED BY <1>0, <1>5, <2>3, GuardedJob DEF RegisterCommit, Done, history, Guarded
<1>6. CASE LogInCheck(p)
  <2>1. \A u \in User : <<u, "temp">> \notin opened'
    <3>1. job[p].seen # None /\ Chosen(job[p].seen)
      BY <1>6, Facts DEF LogInCheck, JobOK, Guarded
    <3>2. CASE opened' = opened
      BY <3>2 DEF Guarded
    <3>3. CASE /\ job[p].given = job[p].seen.password /\ job[p].seen.status # "PENDING"
               /\ opened' = opened \union {<<job[p].user, job[p].given>>}
      <4>1. job[p].given = "own"
        BY <3>1, <3>3 DEF Chosen
      <4>2. \A u \in User : <<u, "temp">> # <<job[p].user, "own">>
        OBVIOUS
      <4> QED BY <3>3, <4>1, <4>2 DEF Guarded
    <3> QED BY <1>6, <3>2, <3>3 DEF LogInCheck
  <2> QED BY <1>0, <1>6, <2>1, GuardedJob DEF LogInCheck, Done, table, Guarded
<1>7. CASE FirstActivationCheck(p)
  <2>1. PICK r : r = [status |-> "ACTIVE", password |-> "own"]
    OBVIOUS
  <2>2. r \in MaybeRow /\ Chosen(r)
    BY <2>1 DEF MaybeRow, Row, UserStatus, Password, Chosen
  <2>3. PICK j : j = [job[p] EXCEPT !.at = "save", !.new = r]
    OBVIOUS
  <2>4. j \in Job /\ j.seen = job[p].seen /\ j.new = r
    BY <2>2, <2>3, Facts DEF Job, At
  <2>5. Goto(p, j) \/ Goto(p, IdleJob)
    BY <1>7, <2>1, <2>3 DEF FirstActivationCheck
  <2> QED BY <1>0, <1>1, <1>7, <2>2, <2>4, <2>5 DEF FirstActivationCheck, table, history, Guarded
<1>8. CASE SaveSelect(p)
  <2>1. PICK j : j = [job[p] EXCEPT !.base = row[job[p].user]]
    OBVIOUS
  <2>2. job[p].user \in User
    BY <1>8, Facts DEF SaveSelect, JobOK, Saving
  <2>3. j \in Job /\ j.seen = job[p].seen /\ j.new = job[p].new
    BY <2>1, <2>2, Facts DEF Job
  <2>4. Goto(p, j)
    BY <1>8, <2>1, Facts DEF SaveSelect, Goto
  <2> QED BY <1>1, <1>8, <2>3, <2>4 DEF SaveSelect, table, history, Guarded
<1>9. CASE SaveUser(p)
  <2>1. \A u \in User : Chosen(row'[u])
    BY <1>9, GuardedUpdate DEF SaveUser, Saving
  <2> QED BY <1>0, <1>9, <2>1, GuardedJob DEF SaveUser, Done, Guarded
<1>10. CASE ForgotSet(p)
  BY <1>2, <1>10 DEF ForgotSet, At, history
<1>11. CASE ForgotMail(p)
  BY <1>0, <1>1, <1>11 DEF ForgotMail, Done, table
<1>12. CASE ResetFind(p)
  <2>1. job[p].user \in User /\ row[job[p].user] # None
    BY <1>12, Facts DEF ResetFind, JobOK, Held, At
  <2>2. row[job[p].user] \in Row /\ Chosen(row[job[p].user])
    BY <2>1, RowFacts, Facts DEF Guarded
  <2>3. PICK r : r = [row[job[p].user] EXCEPT !.password = "own"]
    OBVIOUS
  <2>4. r \in Row /\ Chosen(r)
    BY <2>2, <2>3 DEF Row, Password, Chosen
  <2>5. PICK j : j = [job[p] EXCEPT !.at = "saveReset", !.seen = row[job[p].user], !.new = r]
    OBVIOUS
  <2>6. j \in Job /\ j.seen = row[job[p].user] /\ j.new = r
    BY <2>2, <2>4, <2>5, Facts DEF Job, At, MaybeRow
  <2>7. Goto(p, j)
    BY <1>12, <2>3, <2>5 DEF ResetFind
  <2> QED BY <1>1, <1>12, <2>2, <2>4, <2>6, <2>7 DEF ResetFind, table, history
<1>13. CASE ResetSave(p)
  <2>1. \A u \in User : Chosen(row'[u])
    BY <1>13, GuardedUpdate DEF ResetSave, Saving
  <2> QED BY <1>0, <1>13, <2>1, GuardedJob DEF ResetSave, Done, Guarded
<1> QED BY <1>3, <1>4, <1>5, <1>6, <1>7, <1>8, <1>9, <1>10, <1>11, <1>12, <1>13 DEF Step

\* Once saves have been mixed nothing is claimed any more, and that is final.
LEMMA TornStays == ASSUME [Next]_vars, torn' = FALSE, Inv PROVE torn = FALSE
<1>1. torn \in BOOLEAN
  BY DEF Inv, TypeOK
<1>2. torn' = torn \/ \E p \in Req : SaveUpdate(p)
  BY DEF Next, Start, Step, Fail, Expire, vars, history,
         Register, LogIn, FirstActivation, Activate, Deactivate, AssignRole, Load,
         ForgotPassword, ResetPassword, RegisterInsert, RegisterMail, RegisterCommit,
         LogInCheck, FirstActivationCheck, SaveSelect, SaveUser, ForgotSet, ForgotMail,
         ResetFind, ResetSave
<1> QED BY <1>1, <1>2 DEF SaveUpdate

\* The password register mailed never opens a session unless two saves of one
\* user ran between each other's SELECT and UPDATE; no other interleaving, late
\* save or failed call of any number of requests has that effect.
THEOREM TemporaryPasswordIsUseless == Spec => []TemporaryPasswordOpensNothing
<1> DEFINE G == ~torn => Guarded
<1>1. Init => Inv /\ G
  <2> SUFFICES ASSUME Init PROVE Inv /\ G
    OBVIOUS
  <2>1. \A p \in Req : job[p].seen = None /\ job[p].new = None
    BY IdleJobOK DEF Init
  <2>2. Guarded
    BY <2>1 DEF Init, Guarded, Chosen
  <2> QED BY <2>2, InitInv
<1>2. Inv /\ G /\ [Next]_vars => Inv' /\ G'
  <2> SUFFICES ASSUME Inv, G, [Next]_vars PROVE Inv' /\ G'
    OBVIOUS
  <2>1. Inv'
    BY NextInv
  <2>2. ASSUME ~torn' PROVE Guarded'
    <3>1. ~torn /\ Guarded
      <4>1. torn' \in BOOLEAN /\ torn \in BOOLEAN
        BY <2>1 DEF Inv, TypeOK
      <4> QED BY <2>2, <4>1, TornStays
    <3>2. ASSUME NEW p \in Req, Fail(p) PROVE Guarded'
      BY <3>1, <3>2, IdleJobOK, GuardedJob DEF Fail, Done, table, history, Guarded, Chosen
    <3>3. ASSUME UNCHANGED <<row, job, opened>> PROVE Guarded'
      BY <3>1, <3>3 DEF Guarded, Chosen
    <3>4. Expire => UNCHANGED <<row, job, opened>>
      BY DEF Expire, history
    <3> QED BY <2>2, <3>1, <3>2, <3>3, <3>4, GuardedStart, GuardedStep DEF Next, vars
  <2> QED BY <2>1, <2>2
<1>3. G => TemporaryPasswordOpensNothing
  BY DEF Guarded, TemporaryPasswordOpensNothing
<1> QED BY <1>1, <1>2, <1>3, PTL DEF Spec

-----------------------------------------------------------------------------
(* The reset token.                                                        *)

Singles == \A t \in Token : Single(t)

\* A request goes on with job j, and j holds no token, or the one that the
\* request held for the same purpose.
LEMMA SingleJob ==
  ASSUME Inv, Singles, NEW p \in Req, NEW j \in Job, Goto(p, j),
         \/ j.token = None
         \/ /\ j.token = job[p].token
            /\ j.at \in Forgetting <=> job[p].at \in Forgetting
            /\ j.at \in Resetting <=> job[p].at \in Resetting,
         UNCHANGED <<reset, mailed, spent>>
  PROVE  Singles'
<1>1. job'[p] = j /\ \A q \in Req \ {p} : job'[q] = job[q]
  BY Facts DEF Goto
<1>2. SUFFICES ASSUME NEW t \in Token PROVE Single(t)'
  BY DEF Singles
<1>3. Single(t) /\ t # None
  BY UserAccountsConstants DEF Singles
<1>4. \A q \in Req : job'[q].token = t =>
        /\ job[q].token = t
        /\ job'[q].at \in Forgetting <=> job[q].at \in Forgetting
        /\ job'[q].at \in Resetting <=> job[q].at \in Resetting
  BY <1>1, <1>3
<1> QED BY <1>3, <1>4 DEF Single, Using

LEMMA SingleStart == ASSUME Inv, Singles, NEW p \in Req, Start(p) PROVE Singles'
<1>1. ASSUME NEW j \in Job, Goto(p, j), j.token = None, UNCHANGED <<reset, mailed, spent>>
      PROVE  Singles'
  BY <1>1, SingleJob
<1>2. CASE Register(p)
  <2>1. PICK u \in User : Register(p)!(u)
    BY <1>2 DEF Register
  <2>2. PICK j : j = [IdleJob EXCEPT !.at = "insert", !.user = u]
    OBVIOUS
  <2>3. j \in Job /\ j.token = None
    BY <2>2 DEF IdleJob, Job, At, MaybeRow, Password
  <2> QED BY <1>1, <2>1, <2>2, <2>3 DEF table, history
<1>3. CASE LogIn(p) \/ FirstActivation(p)
  <2>1. PICK u \in User, given \in Password, at \in At :
          Goto(p, [IdleJob EXCEPT !.at = at, !.user = u, !.seen = row[u], !.given = given])
    BY <1>3 DEF LogIn, FirstActivation, At
  <2>2. PICK j : j = [IdleJob EXCEPT !.at = at, !.user = u, !.seen = row[u], !.given = given]
    OBVIOUS
  <2>3. j \in Job /\ j.token = None
    BY <2>2, Facts DEF IdleJob, Job, MaybeRow
  <2> QED BY <1>1, <1>3, <2>1, <2>2, <2>3 DEF LogIn, FirstActivation, table, history
<1>4. CASE Activate(p) \/ Deactivate(p) \/ AssignRole(p)
  <2>1. \A u \in User : Exists(u) => /\ row[u] \in Row
                                     /\ [row[u] EXCEPT !.status = "ACTIVE"] \in Row
                                     /\ [row[u] EXCEPT !.status = "INACTIVE"] \in Row
    BY Facts, RowFacts DEF Exists, Row, UserStatus
  <2>2. PICK u \in User, at \in At, r \in Row : Exists(u) /\ Load(p, at, u, r)
    BY <1>4, <2>1 DEF Activate, Deactivate, AssignRole, Load, At
  <2>3. PICK j : j = [IdleJob EXCEPT !.at = at, !.user = u, !.seen = row[u], !.new = r]
    OBVIOUS
  <2>4. j \in Job /\ j.token = None
    BY <2>3, Facts DEF IdleJob, Job, MaybeRow, Password
  <2> QED BY <1>1, <2>2, <2>3, <2>4 DEF Load, table, history
<1>5. CASE ForgotPassword(p)
  <2>1. PICK u \in User, t \in Token : ForgotPassword(p)!(u, t)
    BY <1>5 DEF ForgotPassword
  <2>2. PICK j : j = [IdleJob EXCEPT !.at = "setToken", !.user = u, !.token = t]
    OBVIOUS
  <2>3. j.token = t /\ j.at = "setToken" /\ Goto(p, j)
    BY <2>1, <2>2 DEF IdleJob
  <2>4. job'[p] = j /\ \A q \in Req \ {p} : job'[q] = job[q]
    BY <2>3, Facts DEF Goto
  <2>5. ASSUME NEW s \in Token PROVE Single(s)'
    BY <2>1, <2>3, <2>4 DEF Singles, Single, Using, Resetting, table, history
  <2> QED BY <2>5 DEF Singles
<1>6. CASE ResetPassword(p)
  <2>1. PICK t \in Token : ResetPassword(p)!(t)
    BY <1>6 DEF ResetPassword
  <2>2. PICK j : j = [IdleJob EXCEPT !.at = "findReset", !.user = reset[t], !.token = t]
    OBVIOUS
  <2>3. j.token = t /\ j.at = "findReset" /\ Goto(p, j)
    BY <2>1, <2>2 DEF IdleJob
  <2>4. job'[p] = j /\ \A q \in Req \ {p} : job'[q] = job[q]
    BY <2>3, Facts DEF Goto
  <2>5. \A q \in Req : job[q].token # t
    <3> SUFFICES ASSUME NEW q \in Req, job[q].token = t PROVE FALSE
      OBVIOUS
    <3>1. job[q].at \in Forgetting \union Resetting
      BY Facts, UserAccountsConstants DEF JobOK
    <3> QED BY <2>1, <3>1 DEF Singles, Single, Using
  <2>6. \A s \in Token : reset'[s] = IF s = t THEN None ELSE reset[s]
    BY <2>1, Facts
  <2>7. ASSUME NEW s \in Token PROVE Single(s)'
    BY <2>1, <2>3, <2>4, <2>5, <2>6 DEF Singles, Single, Using, Forgetting, history
  <2> QED BY <2>7 DEF Singles
<1> QED BY <1>2, <1>3, <1>4, <1>5, <1>6 DEF Start

LEMMA SingleStep == ASSUME Inv, Singles, NEW p \in Req, Step(p) PROVE Singles'
<1>0. IdleJob \in Job /\ IdleJob.token = None
  BY IdleJobOK
<1>1. ASSUME Done(p), UNCHANGED <<reset, mailed, spent>> PROVE Singles'
  BY <1>0, <1>1, SingleJob DEF Done
<1>2. ASSUME NEW at \in At, job[p].token = None, Advance(p, at), UNCHANGED <<reset, mailed, spent>>
      PROVE  Singles'
  <2>1. PICK j : j = [job[p] EXCEPT !.at = at]
    OBVIOUS
  <2>2. j \in Job /\ j.token = None
    BY <1>2, <2>1, Facts DEF Job
  <2>3. Goto(p, j)
    BY <1>2, <2>1, Facts DEF Advance, Goto
  <2> QED BY <1>2, <2>2, <2>3, SingleJob
<1>3. CASE RegisterInsert(p) \/ RegisterMail(p)
  <2>1. job[p].token = None
    BY <1>3, Facts DEF RegisterInsert, RegisterMail, JobOK, Forgetting, Resetting
  <2> QED BY <1>1, <1>2, <1>3, <2>1 DEF RegisterInsert, RegisterMail, At, table, history
<1>4. CASE RegisterCommit(p) \/ LogInCheck(p) \/ SaveUser(p)
  BY <1>1, <1>4 DEF RegisterCommit, LogInCheck, SaveUser, table, history
<1>5. CASE FirstActivationCheck(p)
  <2>1. PICK r : r = [status |-> "ACTIVE", password |-> "own"]
    OBVIOUS
  <2>2. PICK j : j = [job[p] EXCEPT !.at = "save", !.new = r]
    OBVIOUS
  <2>3. r \in MaybeRow /\ job[p].token = None
    BY <1>5, <2>1, Facts
       DEF FirstActivationCheck, JobOK, Forgetting, Resetting, MaybeRow, Row, UserStatus, Password
  <2>4. j \in Job /\ j.token = None
    <3>1. job[p] \in Job
      BY Facts
    <3>2. j.token = None
      BY <2>2, <2>3, <3>1 DEF Job
    <3>3. j \in Job
      BY <2>2, <2>3, <3>1 DEF Job, At
    <3> QED BY <3>2, <3>3
  <2>5. Goto(p, j) \/ Goto(p, IdleJob)
    BY <1>5, <2>1, <2>2 DEF FirstActivationCheck
  <2> QED BY <1>0, <1>5, <2>4, <2>5, SingleJob DEF FirstActivationCheck, table, history
<1>6. CASE SaveSelect(p)
  <2>1. PICK j : j = [job[p] EXCEPT !.base = row[job[p].user]]
    OBVIOUS
  <2>2. job[p].user \in User
    BY <1>6, Facts DEF SaveSelect, JobOK, Saving
  <2>3. j \in Job /\ j.token = job[p].token /\ j.at = job[p].at
    BY <2>1, <2>2, Facts DEF Job
  <2>4. Goto(p, j)
    BY <1>6, <2>1, Facts DEF SaveSelect, Goto
  <2> QED BY <1>6, <2>3, <2>4, SingleJob DEF SaveSelect, table, history
<1>7. ASSUME job[p].at \in Forgetting \union Resetting
      PROVE  job[p].token \in Token
  BY <1>7, Facts DEF JobOK, Job
<1>8. CASE ForgotSet(p)
  <2>1. PICK t \in Token : t = job[p].token /\ mailed[t] = None
    BY <1>7, <1>8 DEF ForgotSet, Forgetting, Singles, Single
  <2>2. \A q \in Req : job'[q].token = job[q].token
    BY <1>8, Facts DEF ForgotSet, Advance, Job
  <2>3. \A q \in Req : /\ job'[q].at \in Forgetting <=> job[q].at \in Forgetting
                       /\ job'[q].at \in Resetting <=> job[q].at \in Resetting
    BY <1>8, Facts DEF ForgotSet, Advance, Job, Forgetting, Resetting
  <2>4. \A s \in Token : s # t => reset'[s] = reset[s]
    BY <1>8, <2>1, Facts DEF ForgotSet
  <2>5. \A q \in Req : ~Using(q, t)
    BY <2>1 DEF Singles, Single
  <2>6. ASSUME NEW s \in Token PROVE Single(s)'
    <3>1. CASE s = t
      BY <1>8, <2>1, <2>2, <2>3, <2>5, <3>1 DEF ForgotSet, Singles, Single, Using, history
    <3>2. CASE s # t
      BY <1>8, <2>2, <2>3, <2>4, <3>2 DEF ForgotSet, Singles, Single, Using, history
    <3> QED BY <3>1, <3>2
  <2> QED BY <2>6 DEF Singles
<1>9. CASE ForgotMail(p)
  <2>1. PICK t \in Token : t = job[p].token /\ mailed[t] = None
    BY <1>7, <1>9 DEF ForgotMail, Forgetting, Singles, Single
  <2>2. job'[p] = IdleJob /\ \A q \in Req \ {p} : job'[q] = job[q]
    BY <1>9, Facts DEF ForgotMail, Done, Goto
  <2>3. /\ \A s \in Token : s # t => mailed'[s] = mailed[s]
        /\ mailed'[t] = job[p].user /\ job[p].user # None
    BY <1>9, <2>1, Facts, UserAccountsConstants DEF ForgotMail, JobOK
  <2>4. ASSUME NEW s \in Token PROVE Single(s)'
    <3>0. s # None /\ \A q \in Req : job'[q].token = s => q # p
      BY <1>0, <2>2, UserAccountsConstants
    <3>1. CASE s = t
      <4>1. \A q \in Req : job'[q].token # t
        BY <2>1, <2>2, <3>0, <3>1 DEF Singles, Single
      <4>2. spent[t] = 0
        BY <2>1 DEF Singles, Single
      <4> QED BY <1>9, <2>3, <3>1, <4>1, <4>2 DEF ForgotMail, Single, Using, table
    <3>2. CASE s # t
      BY <1>9, <2>2, <2>3, <3>0, <3>2 DEF ForgotMail, Singles, Single, Using, table
    <3> QED BY <3>1, <3>2
  <2> QED BY <2>4 DEF Singles
<1>10. CASE ResetFind(p)
  <2>1. job[p].user \in User /\ row[job[p].user] # None
    BY <1>10, Facts DEF ResetFind, JobOK, Held, At
  <2>2. PICK r : r = [row[job[p].user] EXCEPT !.password = "own"]
    OBVIOUS
  <2>3. row[job[p].user] \in Row
    BY <2>1, RowFacts, Facts
  <2>4. r \in Row
    BY <2>2, <2>3 DEF Row, Password
  <2>5. PICK j : j = [job[p] EXCEPT !.at = "saveReset", !.seen = row[job[p].user], !.new = r]
    OBVIOUS
  <2>6. j \in Job /\ j.at = "saveReset" /\ j.token = job[p].token
    BY <2>3, <2>4, <2>5, Facts DEF Job, At, MaybeRow
  <2>7. Goto(p, j)
    BY <1>10, <2>2, <2>5 DEF ResetFind
  <2>8. job[p].at = "findReset"
    BY <1>10 DEF ResetFind
  <2> QED BY <1>10, <2>6, <2>7, <2>8, SingleJob
          DEF ResetFind, table, history, Forgetting, Resetting
<1>11. CASE ResetSave(p)
  <2>1. PICK t \in Token : t = job[p].token /\ spent[t] = 0 /\ reset[t] = None /\ mailed[t] # None
    BY <1>7, <1>11 DEF ResetSave, Resetting, Singles, Single, Using
  <2>2. job'[p] = IdleJob /\ \A q \in Req \ {p} : job'[q] = job[q]
    BY <1>11, Facts DEF ResetSave, Done, Goto
  <2>3. spent'[t] = 1 /\ \A s \in Token : s # t => spent'[s] = spent[s]
    BY <1>11, <2>1, Facts DEF ResetSave
  <2>4. ASSUME NEW s \in Token PROVE Single(s)'
    <3>0. s # None /\ \A q \in Req : job'[q].token = s => q # p
      BY <1>0, <2>2, UserAccountsConstants
    <3>1. CASE s = t
      <4>1. \A q \in Req : job'[q].token # t
        BY <2>1, <2>2, <3>0, <3>1 DEF Singles, Single
      <4> QED BY <1>11, <2>1, <2>3, <3>1, <4>1 DEF ResetSave, Single, Using
    <3>2. CASE s # t
      BY <1>11, <2>2, <2>3, <3>0, <3>2 DEF ResetSave, Singles, Single, Using
    <3> QED BY <3>1, <3>2
  <2> QED BY <2>4 DEF Singles
<1> QED BY <1>3, <1>4, <1>5, <1>6, <1>8, <1>9, <1>10, <1>11 DEF Step

\* A reset token changes at most one password, however many requests present
\* it and whatever fails or expires between GETDEL and the save.
THEOREM TokensAreSingleUse == Spec => []TokenSpentOnce
<1>1. Init => Inv /\ Singles
  <2> SUFFICES ASSUME Init PROVE Inv /\ Singles
    OBVIOUS
  <2>1. \A p \in Req : job[p].token = None
    BY IdleJobOK DEF Init
  <2>2. Singles
    BY <2>1, UserAccountsConstants DEF Init, Singles, Single, Using
  <2> QED BY <2>2, InitInv
<1>2. Inv /\ Singles /\ [Next]_vars => Inv' /\ Singles'
  <2> SUFFICES ASSUME Inv, Singles, [Next]_vars PROVE Inv' /\ Singles'
    OBVIOUS
  <2>1. Inv'
    BY NextInv
  <2>2. ASSUME NEW p \in Req, Fail(p) PROVE Singles'
    BY <2>2, IdleJobOK, SingleJob DEF Fail, Done, table, history
  <2>3. ASSUME Expire PROVE Singles'
    <3>1. \A t \in Token : reset'[t] = None \/ reset'[t] = reset[t]
      BY <2>3 DEF Expire, Inv, TypeOK
    <3> QED BY <2>3, <3>1 DEF Expire, Singles, Single, Using, history
  <2>4. ASSUME UNCHANGED vars PROVE Singles'
    BY <2>4 DEF vars, Singles, Single, Using
  <2> QED BY <2>1, <2>2, <2>3, <2>4, SingleStart, SingleStep DEF Next
<1>3. Singles => TokenSpentOnce
  BY DEF Singles, Single, TokenSpentOnce
<1> QED BY <1>1, <1>2, <1>3, PTL DEF Spec

-----------------------------------------------------------------------------
(* Registration mails, and who readmits a deactivated user.                *)

Registering == {"mail", "commit"}

\* Of the registrations of an address at most one holds the inserted row, and
\* only as long as the account is not there.
OneRegistration ==
    /\ \A p \in Req : job[p].at \in Registering => row[job[p].user] = None
    /\ \A p, q \in Req : job[p].at \in Registering /\ job[q].at \in Registering
                         /\ job[p].user = job[q].user => p = q

\* The account of u is there, or a registration that has mailed will commit it.
Announced(u) == Exists(u) \/ \E p \in Req : job[p].user = u /\ job[p].at = "commit"

MailsCounted == \A u \in User :
    welcomed[u] - (IF Announced(u) THEN 1 ELSE 0) \in 0 .. faults

\* What a request will save of an INACTIVE user it has seen stays INACTIVE,
\* unless it is activate.
Keeps(j) ==
    /\ j.at = "firstActivation" => j.seen.status = "PENDING"
    /\ j.at \in {"save", "saveReset"} /\ j.seen.status = "INACTIVE" => j.new.status = "INACTIVE"

Admission == OneRegistration /\ MailsCounted /\ \A p \in Req : Keeps(job[p])

\* Only the request that makes the step goes on.
LEMMA OthersWait ==
  ASSUME Inv, NEW p \in Req, Start(p) \/ Step(p) \/ Fail(p)
  PROVE  \A q \in Req \ {p} : job'[q] = job[q]
<1>0. job \in [Req -> Job]
  BY Facts
<1>1. ASSUME NEW j, Goto(p, j) PROVE \A q \in Req \ {p} : job'[q] = job[q]
  BY <1>0, <1>1 DEF Goto
<1>2. CASE Start(p)
  <2>1. \E j : Goto(p, j)
    BY <1>2 DEF Start, Load, Register, LogIn, FirstActivation, Activate, Deactivate, AssignRole,
                ForgotPassword, ResetPassword
  <2> QED BY <1>1, <2>1
<1>3. CASE Step(p) \/ Fail(p)
  <2>1. (\E j : Goto(p, j)) \/ (\E at : Advance(p, at)) \/ SaveSelect(p)
    BY <1>3 DEF Step, Fail, Done, RegisterInsert, RegisterMail, RegisterCommit,
                LogInCheck, FirstActivationCheck, SaveUser, ForgotSet, ForgotMail,
                ResetFind, ResetSave
  <2>2. ASSUME NEW at, Advance(p, at) PROVE \A q \in Req \ {p} : job'[q] = job[q]
    BY <1>0, <2>2 DEF Advance
  <2>3. ASSUME SaveSelect(p) PROVE \A q \in Req \ {p} : job'[q] = job[q]
    BY <1>0, <2>3 DEF SaveSelect
  <2> QED BY <1>1, <2>1, <2>2, <2>3
<1> QED BY <1>2, <1>3

\* A step that neither adds accounts nor moves a registration in its
\* transaction.
LEMMA AdmissionAside ==
  ASSUME Inv, Admission, NEW p \in Req, \A q \in Req \ {p} : job'[q] = job[q],
         job[p].at \notin Registering, job'[p].at \notin Registering, Keeps(job'[p]),
         \A u \in User : row'[u] = None <=> row[u] = None,
         UNCHANGED <<welcomed, faults>>
  PROVE  Admission'
<1>1. \A q \in Req : job[q].at \in Registering \/ job'[q].at \in Registering => job'[q] = job[q]
  OBVIOUS
<1>2. \A q \in Req : job[q].at \in Registering => job[q].user \in User
  BY Facts DEF JobOK, Registering
<1>3. OneRegistration'
  BY <1>1, <1>2 DEF Admission, OneRegistration
<1>4. \A u \in User : Announced(u)' <=> Announced(u)
  BY <1>1 DEF Announced, Exists, Registering
<1>5. MailsCounted'
  BY <1>4 DEF Admission, MailsCounted
<1>6. \A q \in Req : Keeps(job'[q])
  BY DEF Admission
<1> QED BY <1>3, <1>5, <1>6 DEF Admission, Keeps

LEMMA AdmissionStart == ASSUME Inv, Admission, NEW p \in Req, Start(p) PROVE Admission'
<1>0. job \in [Req -> Job] /\ row \in [User -> MaybeRow]
  BY Facts
<1>1. job[p].at = "idle" /\ UNCHANGED <<row, welcomed, faults>>
  <2>1. CASE Activate(p) \/ Deactivate(p) \/ AssignRole(p)
    BY <2>1 DEF Idle, Load, table, history, Activate, Deactivate, AssignRole
  <2>2. CASE Register(p) \/ LogIn(p) \/ FirstActivation(p) \/ ForgotPassword(p) \/ ResetPassword(p)
    BY <2>2 DEF Idle, table, history, Register, LogIn, FirstActivation, ForgotPassword,
                ResetPassword
  <2> QED BY <2>1, <2>2 DEF Start
<1>2. job'[p].at \notin Registering /\ Keeps(job'[p])
  <2>1. CASE Register(p) \/ ForgotPassword(p) \/ ResetPassword(p) \/ LogIn(p)
    <3>1. PICK j : Goto(p, j) /\ j.at \in {"insert", "setToken", "findReset", "logIn"}
      <4>1. CASE Register(p)
        <5>1. PICK u \in User :
                Goto(p, [IdleJob EXCEPT !.at = "insert", !.user = u])
          BY <4>1 DEF Register
        <5>2. PICK j : j = [IdleJob EXCEPT !.at = "insert", !.user = u]
          OBVIOUS
        <5>3. j.at = "insert"
          BY <5>2 DEF IdleJob
        <5>4. Goto(p, j)
          BY <5>1, <5>2
        <5> QED BY <5>3, <5>4
      <4>2. CASE ForgotPassword(p)
        <5>1. PICK u \in User, t \in Token :
                Goto(p, [IdleJob EXCEPT !.at = "setToken", !.user = u, !.token = t])
          BY <4>2 DEF ForgotPassword
        <5>2. PICK j : j = [IdleJob EXCEPT !.at = "setToken", !.user = u, !.token = t]
          OBVIOUS
        <5>3. j.at = "setToken"
          BY <5>2 DEF IdleJob
        <5>4. Goto(p, j)
          BY <5>1, <5>2
        <5> QED BY <5>3, <5>4
      <4>3. CASE ResetPassword(p)
        <5>1. PICK t \in Token :
                Goto(p, [IdleJob EXCEPT !.at = "findReset", !.user = reset[t], !.token = t])
          BY <4>3 DEF ResetPassword
        <5>2. PICK j : j = [IdleJob EXCEPT !.at = "findReset", !.user = reset[t], !.token = t]
          OBVIOUS
        <5>3. j.at = "findReset"
          BY <5>2 DEF IdleJob
        <5>4. Goto(p, j)
          BY <5>1, <5>2
        <5> QED BY <5>3, <5>4
      <4>4. CASE LogIn(p)
        <5>1. PICK u \in User, given \in Password :
                Goto(p, [IdleJob EXCEPT !.at = "logIn", !.user = u, !.seen = row[u], !.given = given])
          BY <4>4 DEF LogIn
        <5>2. PICK j : j = [IdleJob EXCEPT !.at = "logIn", !.user = u, !.seen = row[u], !.given = given]
          OBVIOUS
        <5>3. j.at = "logIn"
          BY <5>2 DEF IdleJob
        <5>4. Goto(p, j)
          BY <5>1, <5>2
        <5> QED BY <5>3, <5>4
      <4> QED BY <2>1, <4>1, <4>2, <4>3, <4>4
    <3>2. job'[p] = j
      BY <1>0, <3>1 DEF Goto
    <3> QED BY <3>1, <3>2 DEF Registering, Keeps
  <2>2. CASE FirstActivation(p)
    <3>1. job'[p].at = "firstActivation" /\ job'[p].seen.status = "PENDING"
      BY <1>0, <2>2 DEF FirstActivation, Goto, IdleJob
    <3> QED BY <3>1 DEF Registering, Keeps
  <2>3. CASE Activate(p)
    <3>1. job'[p].at = "saveActive"
      BY <1>0, <2>3 DEF Activate, Load, Goto, IdleJob
    <3> QED BY <3>1 DEF Registering, Keeps
  <2>4. CASE Deactivate(p)
    <3>1. job'[p].at = "save" /\ job'[p].seen.status = "ACTIVE"
      BY <1>0, <2>4 DEF Deactivate, Load, Goto, IdleJob
    <3> QED BY <3>1 DEF Registering, Keeps
  <2>5. CASE AssignRole(p)
    <3>1. job'[p].at = "save" /\ job'[p].seen = job'[p].new
      BY <1>0, <2>5 DEF AssignRole, Load, Goto, IdleJob
    <3> QED BY <3>1 DEF Registering, Keeps
  <2> QED BY <2>1, <2>2, <2>3, <2>4, <2>5 DEF Start
<1>3. \A q \in Req \ {p} : job'[q] = job[q]
  BY OthersWait
<1> QED BY <1>1, <1>2, <1>3, AdmissionAside DEF Registering

\* The steps that leave registrations alone.
LEMMA AdmissionOther ==
  ASSUME Inv, Admission, NEW p \in Req,
         LogInCheck(p) \/ FirstActivationCheck(p) \/ SaveSelect(p) \/ SaveUser(p)
         \/ ForgotSet(p) \/ ForgotMail(p) \/ ResetFind(p) \/ ResetSave(p)
  PROVE  Admission'
<1>0. job \in [Req -> Job] /\ row \in [User -> MaybeRow] /\ job[p] \in Job /\ JobOK(job[p])
  BY Facts
<1>1. job[p].at \notin Registering /\ UNCHANGED <<welcomed, faults>>
  BY DEF Registering, Saving, table, history, LogInCheck, FirstActivationCheck, SaveSelect,
         SaveUser, ForgotSet, ForgotMail, ResetFind, ResetSave
<1>2. \A u \in User : row'[u] = None <=> row[u] = None
  <2>1. CASE SaveUser(p) \/ ResetSave(p)
    <3>1. SaveUpdate(p) /\ job[p].at \in Saving
      BY <2>1 DEF SaveUser, ResetSave, Saving
    <3>2. RowsStay /\ row[job[p].user] # None
          /\ row' = [row EXCEPT ![job[p].user] =
                         Changed(job[p].base, job[p].new, row[job[p].user])]
      BY <3>1, UpdateFacts, RowFacts
    <3> QED BY <1>0, <3>2 DEF RowsStay
  <2>2. CASE UNCHANGED row
    BY <2>2
  <2> QED BY <2>1, <2>2 DEF table, LogInCheck, FirstActivationCheck, SaveSelect, ForgotSet,
                            ForgotMail, ResetFind
<1>3. job'[p].at \notin Registering /\ Keeps(job'[p])
  <2>1. CASE job'[p].at \in {"idle", "mailToken"}
    BY <2>1 DEF Registering, Keeps
  <2>2. CASE LogInCheck(p) \/ SaveUser(p) \/ ForgotMail(p) \/ ResetSave(p) \/ ForgotSet(p)
    BY <1>0, <2>1, <2>2
       DEF LogInCheck, SaveUser, ForgotMail, ResetSave, ForgotSet, Done, Goto, Advance, IdleJob, Job
  <2>3. CASE FirstActivationCheck(p)
    <3>1. job[p].seen.status = "PENDING"
      BY <2>3 DEF FirstActivationCheck, Admission, Keeps
    <3>2. job'[p].at = "idle" \/ (job'[p].at = "save" /\ job'[p].seen = job[p].seen)
      BY <1>0, <2>3 DEF FirstActivationCheck, Goto, IdleJob, Job
    <3> QED BY <3>1, <3>2 DEF Registering, Keeps
  <2>4. CASE SaveSelect(p)
    <3>1. /\ job'[p].at = job[p].at /\ job'[p].seen = job[p].seen /\ job'[p].new = job[p].new
          /\ job[p].at \in Saving
      BY <1>0, <2>4 DEF SaveSelect, Job
    <3> QED BY <3>1 DEF Registering, Saving, Keeps, Admission
  <2>5. CASE ResetFind(p)
    <3>1. job[p].user \in User /\ row[job[p].user] # None
      BY <1>0, <2>5, Facts DEF ResetFind, JobOK, Held, At
    <3>2. row[job[p].user] \in Row
      BY <1>0, <3>1, RowFacts
    <3>3. /\ job'[p].at = "saveReset" /\ job'[p].seen = row[job[p].user]
          /\ job'[p].new = [row[job[p].user] EXCEPT !.password = "own"]
      BY <1>0, <2>5 DEF ResetFind, Goto, Job
    <3>4. job'[p].new.status = job'[p].seen.status
      BY <3>2, <3>3 DEF Row
    <3> QED BY <3>3, <3>4 DEF Registering, Keeps
  <2> QED BY <2>2, <2>3, <2>4, <2>5
<1>4. \A q \in Req \ {p} : job'[q] = job[q]
  BY OthersWait DEF Step
<1> QED BY <1>1, <1>2, <1>3, <1>4, AdmissionAside

LEMMA AdmissionRegister ==
  ASSUME Inv, Admission, NEW p \in Req, RegisterInsert(p) \/ RegisterMail(p) \/ RegisterCommit(p)
  PROVE  Admission'
<1>0. /\ job \in [Req -> Job] /\ row \in [User -> MaybeRow] /\ job[p] \in Job /\ JobOK(job[p])
      /\ welcomed \in [User -> Nat] /\ faults \in 0 .. MaxFaults
  BY Facts
<1>1. \A q \in Req \ {p} : job'[q] = job[q]
  BY OthersWait DEF Step
<1>2. job[p].user \in User
  BY <1>0 DEF RegisterInsert, RegisterMail, RegisterCommit, JobOK
<1>3. \A q \in Req : job[q].at \in Registering => job[q].user \in User
  BY Facts DEF JobOK, Registering
<1>4. Keeps(job'[p]) => \A q \in Req : Keeps(job'[q])
  BY <1>1 DEF Admission
<1>5. CASE RegisterInsert(p)
  <2>1. UNCHANGED <<row, welcomed, faults>> /\ job[p].at = "insert"
    BY <1>5 DEF RegisterInsert, table, history
  <2>2. CASE job'[p].at = "idle"
    BY <1>1, <2>1, <2>2, AdmissionAside DEF Registering, Keeps
  <2>3. CASE /\ job'[p].at = "mail" /\ job'[p].user = job[p].user
             /\ row[job[p].user] = None /\ Inserting(job[p].user) = {}
    <3>1. \A q \in Req \ {p} : job[q].at \in Registering => job[q].user # job[p].user
      BY <2>3 DEF Inserting, Registering
    <3>2. OneRegistration'
      BY <1>1, <2>1, <2>3, <3>1 DEF Admission, OneRegistration, Registering
    <3>3. \A u \in User : Announced(u)' <=> Announced(u)
      BY <1>1, <2>1, <2>3 DEF Announced, Exists
    <3>4. MailsCounted'
      BY <2>1, <3>3 DEF Admission, MailsCounted
    <3> QED BY <1>4, <2>3, <3>2, <3>4 DEF Admission, Keeps
  <2> QED BY <1>0, <1>5, <2>2, <2>3 DEF RegisterInsert, Done, Goto, Advance, IdleJob, Job, Exists
<1>6. CASE RegisterMail(p)
  <2>1. /\ job[p].at = "mail" /\ UNCHANGED <<row, faults>>
        /\ welcomed' = [welcomed EXCEPT ![job[p].user] = @ + 1]
        /\ job'[p].at = "commit" /\ job'[p].user = job[p].user
    BY <1>0, <1>6 DEF RegisterMail, Advance, table, Job
  <2>2. OneRegistration'
    BY <1>1, <2>1 DEF Admission, OneRegistration, Registering
  <2>3. ~Announced(job[p].user) /\ Announced(job[p].user)'
    BY <2>1 DEF Admission, OneRegistration, Registering, Announced, Exists
  <2>4. \A u \in User \ {job[p].user} : Announced(u)' <=> Announced(u)
    BY <1>1, <2>1 DEF Announced, Exists
  <2>5. ASSUME NEW u \in User PROVE (welcomed[u] - (IF Announced(u) THEN 1 ELSE 0) \in 0 .. faults)'
    <3>1. welcomed[u] - (IF Announced(u) THEN 1 ELSE 0) \in 0 .. faults /\ welcomed[u] \in Nat
      BY <1>0 DEF Admission, MailsCounted
    <3>2. CASE u = job[p].user
      BY <1>0, <2>1, <2>3, <3>1, <3>2
    <3>3. CASE u # job[p].user
      BY <1>0, <2>1, <2>4, <3>1, <3>3
    <3> QED BY <3>2, <3>3
  <2>6. MailsCounted'
    BY <2>5 DEF MailsCounted
  <2> QED BY <1>4, <2>1, <2>2, <2>6 DEF Admission, Keeps
<1>7. CASE RegisterCommit(p)
  <2>1. PICK r : r = [status |-> "PENDING", password |-> "temp"]
    OBVIOUS
  <2>2. /\ job[p].at = "commit" /\ UNCHANGED <<welcomed, faults>> /\ job'[p].at = "idle"
        /\ row' = [row EXCEPT ![job[p].user] = r]
    BY <1>0, <1>7, <2>1, IdleJobOK DEF RegisterCommit, Done, Goto, history
  <2>3. r # None
    BY <2>1, RowFacts DEF Row, UserStatus, Password
  <2>4. row'[job[p].user] = r /\ \A u \in User \ {job[p].user} : row'[u] = row[u]
    BY <1>0, <1>2, <2>2
  <2>5. \A q \in Req \ {p} : job[q].at \in Registering => job[q].user # job[p].user
    BY <2>2 DEF Admission, OneRegistration, Registering
  <2>6. OneRegistration'
    BY <1>1, <1>3, <2>2, <2>4, <2>5 DEF Admission, OneRegistration, Registering
  <2>7. \A u \in User : Announced(u)' <=> Announced(u)
    BY <1>1, <2>2, <2>3, <2>4 DEF Announced, Exists
  <2>8. MailsCounted'
    BY <2>2, <2>7 DEF Admission, MailsCounted
  <2> QED BY <1>4, <2>2, <2>6, <2>8 DEF Admission, Keeps
<1> QED BY <1>5, <1>6, <1>7

\* A failed call may leave a mail without its account; the fault counts it.
LEMMA AdmissionFail == ASSUME Inv, Admission, NEW p \in Req, Fail(p) PROVE Admission'
<1>0. /\ job \in [Req -> Job] /\ welcomed \in [User -> Nat] /\ faults \in 0 .. MaxFaults
      /\ MaxFaults \in Nat
  BY Facts, UserAccountsConstants
<1>1. \A q \in Req \ {p} : job'[q] = job[q]
  BY OthersWait
<1>2. /\ job'[p].at = "idle" /\ UNCHANGED <<row, welcomed>> /\ faults' = faults + 1
  BY <1>0, IdleJobOK DEF Fail, Done, Goto, table, history
<1>3. OneRegistration'
  BY <1>1, <1>2 DEF Admission, OneRegistration, Registering
<1>4. \A u \in User : Announced(u)' => Announced(u)
  BY <1>1, <1>2 DEF Announced, Exists
<1>5. ASSUME NEW u \in User PROVE (welcomed[u] - (IF Announced(u) THEN 1 ELSE 0) \in 0 .. faults)'
  <2>1. welcomed[u] - (IF Announced(u) THEN 1 ELSE 0) \in 0 .. faults /\ welcomed[u] \in Nat
    BY <1>0 DEF Admission, MailsCounted
  <2> QED BY <1>0, <1>2, <1>4, <2>1
<1>6. MailsCounted'
  BY <1>5 DEF MailsCounted
<1>7. \A q \in Req : Keeps(job'[q])
  BY <1>1, <1>2 DEF Admission, Keeps
<1> QED BY <1>3, <1>6, <1>7 DEF Admission, Keeps

LEMMA AdmissionInvariance == Spec => [](Inv /\ Admission)
<1>1. Init => Inv /\ Admission
  <2> SUFFICES ASSUME Init PROVE Inv /\ Admission
    OBVIOUS
  <2>1. \A p \in Req : job[p].at = "idle"
    BY IdleJobOK DEF Init
  <2>2. \A u \in User : ~Announced(u) /\ welcomed[u] = 0
    BY <2>1 DEF Init, Announced, Exists
  <2>3. MailsCounted
    BY <2>2 DEF Init, MailsCounted
  <2>4. OneRegistration /\ \A p \in Req : Keeps(job[p])
    BY <2>1 DEF OneRegistration, Registering, Keeps
  <2> QED BY <2>3, <2>4, InitInv DEF Admission
<1>2. Inv /\ Admission /\ [Next]_vars => (Inv /\ Admission)'
  <2> SUFFICES ASSUME Inv, Admission, [Next]_vars PROVE Inv' /\ Admission'
    OBVIOUS
  <2>1. Inv'
    BY NextInv
  <2>2. ASSUME UNCHANGED <<row, job, welcomed, faults>> PROVE Admission'
    BY <2>2 DEF Admission, OneRegistration, MailsCounted, Announced, Exists, Keeps
  <2>3. Expire \/ UNCHANGED vars => UNCHANGED <<row, job, welcomed, faults>>
    BY DEF Expire, history, vars
  <2>4. ASSUME NEW p \in Req, Step(p) PROVE Admission'
    BY <2>4, AdmissionOther, AdmissionRegister DEF Step
  <2> QED BY <2>1, <2>2, <2>3, <2>4, AdmissionStart, AdmissionFail DEF Next
<1> QED BY <1>1, <1>2, PTL DEF Spec

\* register hands its mail over before it commits.  For any number of racing
\* registrations of an address: every account was announced, and the mails
\* that announced nothing are no more than the calls that failed.
THEOREM MailsAreAccounted == Spec => []WelcomeMailsAccounted
<1>1. Inv /\ Admission => WelcomeMailsAccounted
  <2> SUFFICES ASSUME Inv, Admission, NEW u \in User
               PROVE  LET due == IF Exists(u) THEN 1 ELSE Cardinality(Committing(u))
                      IN due <= 1 /\ welcomed[u] - due \in 0 .. faults
    BY DEF WelcomeMailsAccounted
  <2>1. welcomed[u] - (IF Announced(u) THEN 1 ELSE 0) \in 0 .. faults
    BY DEF Admission, MailsCounted
  <2>2. CASE Exists(u)
    BY <2>1, <2>2 DEF Announced
  <2>3. CASE ~Exists(u) /\ Committing(u) = {}
    <3>1. Cardinality(Committing(u)) = 0
      BY <2>3, FS_EmptySet
    <3>2. ~Announced(u)
      BY <2>3 DEF Announced, Committing, Inserting
    <3> QED BY <2>1, <2>3, <3>1, <3>2
  <2>4. CASE ~Exists(u) /\ Committing(u) # {}
    <3>1. PICK p \in Req : p \in Committing(u)
      BY <2>4 DEF Committing, Inserting
    <3>2. Committing(u) = {p} /\ Announced(u)
      BY <3>1 DEF Committing, Inserting, Admission, OneRegistration, Registering, Announced
    <3>3. Cardinality(Committing(u)) = 1
      BY <3>2, FS_Singleton
    <3> QED BY <2>1, <2>4, <3>2, <3>3
  <2> QED BY <2>2, <2>3, <2>4
<1> QED BY <1>1, AdmissionInvariance, PTL

\* For any number of concurrent saves: the only writes that lift a
\* deactivation are the one of activate and that of an entity which was loaded
\* when the user was not deactivated; assignRole and resetPassword, which save
\* the whole user, lift none that they have seen.
THEOREM ReadmissionIsExplicit == Spec => OnlyActivateReadmits
<1> DEFINE Readmission ==
        \A u \in User :
            Exists(u) /\ row[u].status = "INACTIVE" /\ row'[u] # row[u]
            /\ row'[u].status # "INACTIVE"
            => \E p \in Req : /\ job[p].user = u
                              /\ job'[p] # job[p]
                              /\ job[p].at \in Saving
                              /\ job[p].at = "saveActive" \/ job[p].seen.status # "INACTIVE"
<1>1. Inv /\ Admission /\ [Next]_vars => [Readmission]_vars
  <2> SUFFICES ASSUME Inv, Admission, Next, NEW u \in User, Exists(u),
                      row[u].status = "INACTIVE", row'[u] # row[u], row'[u].status # "INACTIVE"
               PROVE  \E p \in Req : /\ job[p].user = u
                                     /\ job'[p] # job[p]
                                     /\ job[p].at \in Saving
                                     /\ job[p].at = "saveActive" \/ job[p].seen.status # "INACTIVE"
    OBVIOUS
  <2>1. PICK p \in Req : SaveUser(p) \/ ResetSave(p) \/ RegisterCommit(p)
    <3>1. row' = row \/ \E p \in Req : SaveUser(p) \/ ResetSave(p) \/ RegisterCommit(p)
      BY DEF Next, Start, Step, Fail, Expire, table,
         Register, LogIn, FirstActivation, Activate, Deactivate, AssignRole, Load,
         ForgotPassword, ResetPassword, RegisterInsert, RegisterMail,
         LogInCheck, FirstActivationCheck, SaveSelect, ForgotSet, ForgotMail, ResetFind
    <3> QED BY <3>1
  <2>2. CASE RegisterCommit(p)
    <3>1. row[job[p].user] = None
      BY <2>2 DEF RegisterCommit, Admission, OneRegistration, Registering
    <3> QED BY <2>2, <3>1, Facts DEF RegisterCommit, Exists
  <2>3. CASE SaveUser(p) \/ ResetSave(p)
    <3>1. SaveUpdate(p) /\ job[p].at \in Saving /\ Goto(p, IdleJob)
      BY <2>3 DEF SaveUser, ResetSave, Saving, Done
    <3>2. /\ job[p].user \in User /\ job[p].base \in Row /\ job[p].new \in Row
          /\ row' = [row EXCEPT ![job[p].user] =
                        Changed(job[p].base, job[p].new, row[job[p].user])]
      BY <3>1, UpdateFacts
    <3>3. u = job[p].user /\ row'[u] = Changed(job[p].base, job[p].new, row[u])
      BY <3>2, Facts
    <3>4. job[p].new.status # "INACTIVE"
      BY <3>3 DEF Changed
    <3>5. job[p].at = "saveActive" \/ job[p].seen.status # "INACTIVE"
      BY <3>1, <3>4 DEF Admission, Keeps, Saving
    <3>6. job'[p] # job[p]
      BY <3>1, Facts, IdleJobOK DEF Goto, Saving
    <3> QED BY <3>1, <3>3, <3>5, <3>6
  <2> QED BY <2>1, <2>2, <2>3
<1> QED BY <1>1, AdmissionInvariance, PTL DEF Spec, OnlyActivateReadmits
=============================================================================
