-------------------------- MODULE BootstrapProofs ---------------------------
(***************************************************************************)
(* Proofs about Bootstrap, for any number of logins, identities, requests, *)
(* restarts and failing store calls.                                       *)
(***************************************************************************)
EXTENDS Bootstrap, FiniteSetTheorems, TLAPS

LEMMA Rows ==
    /\ NoUser.exists = FALSE /\ NoUser.admin = FALSE /\ NoUser.ext = Local
    /\ AdminRow.exists = TRUE /\ AdminRow.admin = TRUE /\ AdminRow.ext = Local
    /\ \A s : SSORow(s).exists = TRUE /\ SSORow(s).admin = FALSE /\ SSORow(s).ext = s
  BY DEF NoUser, AdminRow, SSORow

LEMMA RowTypes ==
    /\ NoUser \in User /\ AdminRow \in User
    /\ \A s \in Identity : SSORow(s) \in User
  BY DEF NoUser, AdminRow, SSORow, User, Identity

LEMMA IdleIsRequest ==
    Idle \in Request /\ Idle.at = "idle" /\ Idle.ext = Local
  BY BootstrapAssumption DEF Idle, Request, Steps, AnyLogin, Identity

\* A positive count means that there is an account.
LEMMA CountedAccount == ASSUME CountUsers > 0 PROVE Accounts # {}
  <1>1. Cardinality({}) = 0
    BY FS_EmptySet
  <1> QED
    BY <1>1 DEF CountUsers

-----------------------------------------------------------------------------
(* Type correctness.                                                       *)

\* What a step may do to the accounts and to the flag: nothing, the claim of
\* BootstrapAdmin, or the linked account of CreateUser.
Claimed(l) ==
    /\ \E q \in Requests : req[q].at = "hashing"
    /\ ~users[l].exists /\ ~flag /\ flag' = TRUE
    /\ users' = [users EXCEPT ![l] = AdminRow]
Provisioned(q) ==
    /\ req[q].at = "named"
    /\ ~users[req[q].login].exists /\ UNCHANGED flag
    /\ \A k \in Accounts : users[k].ext # req[q].ext
    /\ users' = [users EXCEPT ![req[q].login] = SSORow(req[q].ext)]

LEMMA UsersStep ==
    ASSUME TypeOK, Next
    PROVE  \/ UNCHANGED <<flag, users>>
           \/ \E q \in Requests : Claimed(req[q].login)
           \/ \E q \in Requests : Provisioned(q)
  <1>1. CASE Start \/ Crash
    BY <1>1 DEF Start, Crash
  <1>2. ASSUME NEW q \in Requests, SetupStep(q)
        PROVE  UNCHANGED <<flag, users>> \/ Claimed(req[q].login)
    <2>1. CASE BootstrapAdmin(q)
      BY <2>1 DEF BootstrapAdmin, Claimed
    <2>2. CASE SetupGate(q) \/ SetupBusy(q) \/ BurnToken(q) \/ StartSession(q)
      BY <2>2 DEF SetupGate, SetupBusy, BurnToken, StartSession
    <2>3. ASSUME NEW p \in 0..MaxStarts, NEW l \in Logins, SetupToken(q, p, l)
          PROVE  UNCHANGED <<flag, users>>
      BY <2>3 DEF SetupToken
    <2> QED
      BY <1>2, <2>1, <2>2, <2>3 DEF SetupStep
  <1>3. ASSUME NEW q \in Requests, SSOStep(q)
        PROVE  UNCHANGED <<flag, users>> \/ Provisioned(q)
    <2>1. CASE CreateUser(q)
      <3>1. CASE users[req[q].login].exists \/ \E k \in Accounts : users[k].ext = req[q].ext
        BY <2>1, <3>1 DEF CreateUser
      <3>2. CASE ~(users[req[q].login].exists \/ \E k \in Accounts : users[k].ext = req[q].ext)
        BY <2>1, <3>2 DEF CreateUser, Provisioned
      <3> QED
        BY <3>1, <3>2
    <2>2. CASE ssoProvisioningAllowed(q) \/ ChooseLogin(q)
      BY <2>2 DEF ssoProvisioningAllowed, ChooseLogin
    <2>3. ASSUME NEW s \in Subjects, SSOLookup(q, s)
          PROVE  UNCHANGED <<flag, users>>
      BY <2>3 DEF SSOLookup
    <2> QED
      BY <1>3, <2>1, <2>2, <2>3 DEF SSOStep
  <1> QED
    BY <1>1, <1>2, <1>3 DEF Next

\* The accounts a step can see: those of a row it fills, and all the others.
LEMMA RowsAfter ==
    ASSUME TypeOK, NEW l \in Logins, NEW r \in User, r.exists,
           users' = [users EXCEPT ![l] = r]
    PROVE  /\ users' \in [Logins -> User]
           /\ users'[l] = r
           /\ \A k \in Logins : k # l => users'[k] = users[k]
           /\ Accounts' = Accounts \union {l}
           /\ \A k \in Accounts' : k = l \/ (k \in Accounts /\ users'[k] = users[k])
  <1>1. users \in [Logins -> User]
    BY DEF TypeOK
  <1>2. users' \in [Logins -> User] /\ users'[l] = r
        /\ \A k \in Logins : k # l => users'[k] = users[k]
    BY <1>1
  <1>3. Accounts' = Accounts \union {l}
    BY <1>2 DEF Accounts
  <1> QED
    BY <1>2, <1>3 DEF Accounts

LEMMA ClaimedRows ==
    ASSUME TypeOK, NEW q \in Requests, Claimed(req[q].login)
    PROVE  /\ req[q].login \in Logins
           /\ req[q].login \notin Accounts
           /\ users' = [users EXCEPT ![req[q].login] = AdminRow]
           /\ Accounts' = Accounts \union {req[q].login}
           /\ \A k \in Logins : k # req[q].login => users'[k] = users[k]
           /\ users'[req[q].login] = AdminRow
           /\ users' \in [Logins -> User]
  <1>1. req[q].login \in Logins
    BY DEF TypeOK, Request
  <1> QED
    BY <1>1, RowsAfter, Rows, RowTypes DEF Claimed, Accounts

LEMMA ProvisionedRows ==
    ASSUME TypeOK, NEW q \in Requests, Provisioned(q)
    PROVE  /\ req[q].login \in Logins
           /\ req[q].login \notin Accounts
           /\ Accounts' = Accounts \union {req[q].login}
           /\ \A k \in Logins : k # req[q].login => users'[k] = users[k]
           /\ users'[req[q].login] = SSORow(req[q].ext)
           /\ users' \in [Logins -> User]
  <1>1. req[q].login \in Logins /\ req[q].ext \in Identity
    BY DEF TypeOK, Request
  <1>2. SSORow(req[q].ext) \in User /\ SSORow(req[q].ext).exists
    BY <1>1, Rows, RowTypes
  <1>3. req[q].login \notin Accounts
    BY DEF Provisioned, Accounts
  <1>4. users' = [users EXCEPT ![req[q].login] = SSORow(req[q].ext)]
    BY DEF Provisioned
  <1> HIDE DEF Accounts
  <1> QED
    BY <1>1, <1>2, <1>3, <1>4, RowsAfter

LEMMA TableStep ==
    ASSUME TypeOK, Next
    PROVE  /\ flag' \in BOOLEAN /\ users' \in [Logins -> User]
           /\ \A k, l \in Accounts' :
                 users'[k].ext = users'[l].ext /\ users'[k].ext # Local => k = l
  <1>1. CASE UNCHANGED <<flag, users>>
    BY <1>1 DEF TypeOK, Accounts
  <1>2. ASSUME NEW q \in Requests, Claimed(req[q].login)
        PROVE  /\ flag' \in BOOLEAN /\ users' \in [Logins -> User]
               /\ \A k, l \in Accounts' :
                     users'[k].ext = users'[l].ext /\ users'[k].ext # Local => k = l
    <2>1. \A k, l \in Accounts : users[k].ext = users[l].ext /\ users[k].ext # Local => k = l
      BY DEF TypeOK
    <2>2. \A k \in Accounts : users'[k] = users[k]
      BY <1>2, ClaimedRows DEF Accounts
    <2>3. users'[req[q].login].ext = Local
      BY <1>2, ClaimedRows, Rows
    <2>4. flag' = TRUE
      BY <1>2 DEF Claimed
    <2> QED
      BY <1>2, <2>1, <2>2, <2>3, <2>4, ClaimedRows
  <1>3. ASSUME NEW q \in Requests, Provisioned(q)
        PROVE  /\ flag' \in BOOLEAN /\ users' \in [Logins -> User]
               /\ \A k, l \in Accounts' :
                     users'[k].ext = users'[l].ext /\ users'[k].ext # Local => k = l
    <2>1. \A k, l \in Accounts : users[k].ext = users[l].ext /\ users[k].ext # Local => k = l
      BY DEF TypeOK
    <2>2. \A k \in Accounts : users'[k] = users[k] /\ users[k].ext # req[q].ext
      BY <1>3, ProvisionedRows DEF Accounts, Provisioned
    <2>3. users'[req[q].login].ext = req[q].ext
      BY <1>3, ProvisionedRows, Rows
    <2>4. flag' \in BOOLEAN
      BY <1>3 DEF Provisioned, TypeOK
    <2> QED
      BY <1>3, <2>1, <2>2, <2>3, <2>4, ProvisionedRows
  <1> QED
    BY <1>1, <1>2, <1>3, UsersStep

LEMMA ProcessStep ==
    ASSUME TypeOK, Next
    PROVE  /\ up' \in BOOLEAN
           /\ starts' \in 0..MaxStarts /\ faults' \in 0..MaxFaults
           /\ token' \in 0..MaxStarts
  <1>a. /\ up \in BOOLEAN /\ starts \in 0..MaxStarts /\ faults \in 0..MaxFaults
        /\ token \in 0..MaxStarts /\ MaxStarts \in Nat /\ MaxFaults \in Nat
        /\ NoToken = 0
    BY BootstrapAssumption DEF TypeOK, NoToken
  <1>b. NoFault \/ Fault \/ faults' = faults => faults' \in 0..MaxFaults
    BY <1>a DEF NoFault, Fault
  <1>1. CASE Start
    <2>1. up' = TRUE /\ starts' = starts + 1 /\ starts < MaxStarts
      BY <1>1 DEF Start
    <2>2. token' \in {NoToken, 1, starts'}
      BY <1>1, Zenon DEF Start
    <2>3. NoFault \/ Fault
      BY <1>1, Zenon DEF Start
    <2> QED
      BY <2>1, <2>2, <2>3, <1>a, <1>b
  <1>2. CASE Crash
    <2>1. up' = FALSE /\ token' = NoToken /\ starts' = starts /\ faults' = faults
      BY <1>2 DEF Crash
    <2>2. starts' \in 0..MaxStarts /\ faults' \in 0..MaxFaults
      BY <2>1, <1>a
    <2>3. token' \in 0..MaxStarts
      BY <2>1, <1>a
    <2> QED
      BY <2>1, <2>2, <2>3
  <1>3. ASSUME NEW q \in Requests, SetupStep(q)
        PROVE  /\ UNCHANGED <<up, starts>> /\ token' \in {token, NoToken}
               /\ NoFault \/ Fault \/ faults' = faults
    <2>1. CASE SetupGate(q) \/ SetupBusy(q)
      BY <2>1 DEF SetupGate, SetupBusy
    <2>2. CASE BootstrapAdmin(q)
      BY <2>2 DEF BootstrapAdmin
    <2>3. CASE BurnToken(q) \/ StartSession(q)
      BY <2>3 DEF BurnToken, StartSession
    <2>4. ASSUME NEW p \in 0..MaxStarts, NEW l \in Logins, SetupToken(q, p, l)
          PROVE  UNCHANGED <<up, starts, token, faults>>
      BY <2>4 DEF SetupToken
    <2> QED
      BY <1>3, <2>1, <2>2, <2>3, <2>4 DEF SetupStep
  <1>4. ASSUME NEW q \in Requests, SSOStep(q)
        PROVE  /\ UNCHANGED <<up, starts, token>>
               /\ NoFault \/ Fault \/ faults' = faults
    <2>1. CASE ssoProvisioningAllowed(q)
      BY <2>1 DEF ssoProvisioningAllowed
    <2>2. CASE ChooseLogin(q)
      BY <2>2, Zenon DEF ChooseLogin
    <2>4. CASE CreateUser(q)
      <3>1. NoFault \/ Fault
        BY <2>4, Zenon DEF CreateUser
      <3>2. UNCHANGED <<up, starts, token>>
        BY <2>4 DEF CreateUser
      <3> QED
        BY <3>1, <3>2
    <2>3. ASSUME NEW s \in Subjects, SSOLookup(q, s)
          PROVE  UNCHANGED <<up, starts, token, faults>>
      BY <2>3 DEF SSOLookup
    <2> QED
      BY <1>4, <2>1, <2>2, <2>3, <2>4 DEF SSOStep
  <1> QED
    BY <1>1, <1>2, <1>3, <1>4, <1>a, <1>b DEF Next

-----------------------------------------------------------------------------
(* The requests in flight.                                                 *)

\* What a request knows at each step: only the SSO path carries an identity;
\* past the claim or the provisioning check the instance has its administrator;
\* a session is only opened for an account that exists and bears the identity.
RequestOK(q) ==
    /\ req[q].at \in {"idle", "gated", "hashing"} => req[q].ext = Local
    /\ req[q].at \in {"unknown", "allowed", "named"} => req[q].ext \in Subjects
    /\ req[q].at \in {"created", "burnt"} => flag
    /\ req[q].at \in {"allowed", "named"} => Admins # {}
    /\ req[q].at \in {"created", "burnt", "known"} =>
         users[req[q].login].exists /\ users[req[q].login].ext = req[q].ext

\* The flag says that there is an administrator, and a serving process without one
\* has a token: true of a database of any age, whatever fails.
Inv ==
    /\ TypeOK
    /\ flag => Admins # {}
    /\ AdminFirst
    /\ up /\ Admins = {} => token # NoToken
    /\ \A q \in Requests : RequestOK(q)
    /\ SessionsMatchAccounts

\* Answering or advancing one request leaves a record for every request.
LEMMA AnswerType ==
    ASSUME TypeOK, NEW q \in Requests, Answer(q)
    PROVE  /\ req' \in [Requests -> Request]
           /\ req'[q] = Idle
           /\ \A p \in Requests : p # q => req'[p] = req[p]
  BY IdleIsRequest DEF Answer, TypeOK

LEMMA GotoType ==
    ASSUME TypeOK, NEW q \in Requests, NEW step \in Steps, Goto(q, step)
    PROVE  /\ req' \in [Requests -> Request]
           /\ req'[q].at = step /\ req'[q].login = req[q].login /\ req'[q].ext = req[q].ext
           /\ \A p \in Requests : p # q => req'[p] = req[p]
  <1>1. req[q] \in Request
    BY DEF TypeOK
  <1>2. [req[q] EXCEPT !.at = step] \in Request
    BY <1>1 DEF Request
  <1>3. req' = [req EXCEPT ![q] = [req[q] EXCEPT !.at = step]]
    BY DEF Goto
  <1>4. req'[q] = [req[q] EXCEPT !.at = step]
    BY <1>3 DEF TypeOK
  <1>5. req' \in [Requests -> Request] /\ \A p \in Requests : p # q => req'[p] = req[p]
    BY <1>2, <1>3 DEF TypeOK
  <1>6. req'[q].at = step /\ req'[q].login = req[q].login /\ req'[q].ext = req[q].ext
    BY <1>1, <1>4 DEF Request
  <1> QED
    BY <1>5, <1>6

\* What a step does to the requests.
LEMMA TableKeeps ==
    ASSUME TypeOK, Next
    PROVE  /\ \A l \in Accounts : l \in Accounts' /\ users'[l] = users[l]
           /\ flag => flag'
           /\ Admins \subseteq Admins'
  <1>4. ASSUME \A l \in Accounts : l \in Accounts' /\ users'[l] = users[l]
        PROVE  Admins \subseteq Admins'
    BY <1>4 DEF Admins
  <1>1. ASSUME UNCHANGED <<flag, users>>
        PROVE  /\ \A l \in Accounts : l \in Accounts' /\ users'[l] = users[l]
               /\ flag' = flag
    BY <1>1 DEF Accounts
  <1>2. ASSUME NEW q \in Requests, Claimed(req[q].login)
        PROVE  /\ \A l \in Accounts : l \in Accounts' /\ users'[l] = users[l]
               /\ flag'
    <2>1. \A l \in Accounts : l \in Logins /\ l # req[q].login
      BY <1>2, ClaimedRows DEF Accounts
    <2>2. flag'
      BY <1>2 DEF Claimed
    <2> QED
      BY <1>2, <2>1, <2>2, ClaimedRows
  <1>3. ASSUME NEW q \in Requests, Provisioned(q)
        PROVE  /\ \A l \in Accounts : l \in Accounts' /\ users'[l] = users[l]
               /\ flag' = flag
    <2>1. \A l \in Accounts : l \in Logins /\ l # req[q].login
      BY <1>3, ProvisionedRows DEF Accounts
    <2>2. flag' = flag
      BY <1>3 DEF Provisioned
    <2> QED
      BY <1>3, <2>1, <2>2, ProvisionedRows
  <1>5. /\ \A l \in Accounts : l \in Accounts' /\ users'[l] = users[l]
        /\ flag => flag'
    BY <1>1, <1>2, <1>3, UsersStep
  <1> QED
    BY <1>4, <1>5

\* A request the step does not advance still knows what it knew.
LEMMA OthersOK ==
    ASSUME TypeOK, Next, NEW p \in Requests, RequestOK(p), req'[p] = req[p]
    PROVE  RequestOK(p)'
  <1>1. req[p].login \in Logins
    BY DEF TypeOK, Request
  <1>2. users[req[p].login].exists => req[p].login \in Accounts
    BY <1>1 DEF Accounts
  <1>3. req[p].login \in Accounts' => users'[req[p].login].exists
    BY DEF Accounts
  <1>4. users[req[p].login].exists =>
          users'[req[p].login] = users[req[p].login] /\ users'[req[p].login].exists
    BY <1>2, <1>3, TableKeeps
  <1> QED
    BY <1>4, TableKeeps DEF RequestOK

\* A setup request is well informed after each of its steps.
LEMMA SetupRequest ==
    ASSUME Inv, Next, NEW q \in Requests, SetupStep(q)
    PROVE  /\ req' \in [Requests -> Request]
           /\ \A p \in Requests : p # q => req'[p] = req[p]
           /\ RequestOK(q)'
  <1> TypeOK /\ RequestOK(q)
    BY DEF Inv
  <1>i. ASSUME Answer(q)
        PROVE  /\ req' \in [Requests -> Request]
               /\ \A p \in Requests : p # q => req'[p] = req[p]
               /\ RequestOK(q)'
    <2>1. req'[q].at = "idle" /\ req'[q].ext = Local
      BY <1>i, AnswerType, IdleIsRequest
    <2> QED
      BY <1>i, <2>1, AnswerType DEF RequestOK
  <1>1. CASE SetupGate(q)
    <2>1. Goto(q, "gated") /\ req[q].at = "idle"
      BY <1>1 DEF SetupGate
    <2> QED
      BY <2>1, GotoType DEF RequestOK, Steps
  <1>2. ASSUME NEW p \in 0..MaxStarts, NEW l \in Logins, SetupToken(q, p, l)
        PROVE  /\ req' \in [Requests -> Request]
               /\ \A r \in Requests : r # q => req'[r] = req[r]
               /\ RequestOK(q)'
    <2>1. req[q].at = "gated"
      BY <1>2 DEF SetupToken
    <2>2. CASE token # NoToken /\ p = token
      <3>1. req' = [req EXCEPT ![q] = [req[q] EXCEPT !.at = "hashing", !.login = l]]
        BY <1>2, <2>2 DEF SetupToken
      <3>2. [req[q] EXCEPT !.at = "hashing", !.login = l] \in Request
        BY DEF TypeOK, Request, Steps
      <3>3. req'[q] = [req[q] EXCEPT !.at = "hashing", !.login = l]
        BY <3>1 DEF TypeOK
      <3>4. req'[q].at = "hashing" /\ req'[q].ext = req[q].ext
        BY <3>3 DEF TypeOK, Request
      <3>5. req' \in [Requests -> Request] /\ \A r \in Requests : r # q => req'[r] = req[r]
        BY <3>1, <3>2 DEF TypeOK
      <3> QED
        BY <2>1, <3>4, <3>5 DEF RequestOK
    <2>3. CASE ~(token # NoToken /\ p = token)
      BY <1>2, <2>3, <1>i DEF SetupToken
    <2> QED
      BY <2>2, <2>3
  <1>3. CASE SetupBusy(q)
    BY <1>3, <1>i DEF SetupBusy
  <1>4. CASE BootstrapAdmin(q)
    <2>1. CASE Answer(q)
      BY <2>1, <1>i
    <2>2. CASE ~Answer(q)
      <3>1. Claimed(req[q].login) /\ Goto(q, "created") /\ req[q].at = "hashing"
        BY <1>4, <2>2 DEF BootstrapAdmin, Claimed
      <3>2. flag' /\ users'[req[q].login] = AdminRow
        BY <3>1, ClaimedRows DEF Claimed
      <3>3. /\ req' \in [Requests -> Request]
            /\ \A p \in Requests : p # q => req'[p] = req[p]
            /\ req'[q].at = "created" /\ req'[q].login = req[q].login
            /\ req'[q].ext = req[q].ext
        BY <3>1, GotoType DEF Steps
      <3>4. req[q].ext = Local
        BY <3>1 DEF RequestOK
      <3> QED
        BY <3>2, <3>3, <3>4, Rows DEF RequestOK
    <2> QED
      BY <2>1, <2>2
  <1>5. CASE BurnToken(q)
    <2>1. Goto(q, "burnt") /\ req[q].at = "created" /\ UNCHANGED <<flag, users>>
      BY <1>5 DEF BurnToken
    <2> QED
      BY <2>1, GotoType DEF RequestOK, Steps
  <1>6. CASE StartSession(q)
    BY <1>6, <1>i DEF StartSession
  <1> QED
    BY <1>1, <1>2, <1>3, <1>4, <1>5, <1>6 DEF SetupStep

\* With an account there is an administrator, and with the flag too.
LEMMA AdminWhenCounted == ASSUME Inv, Bootstrapped PROVE Admins # {}
  BY CountedAccount DEF Inv, AdminFirst, Bootstrapped

\* So is a request that signs in with an IdP.
LEMMA SSORequest ==
    ASSUME Inv, Next, NEW q \in Requests, SSOStep(q)
    PROVE  /\ req' \in [Requests -> Request]
           /\ \A p \in Requests : p # q => req'[p] = req[p]
           /\ RequestOK(q)'
  <1> TypeOK /\ RequestOK(q) /\ req[q] \in Request
    BY DEF Inv, TypeOK
  <1>i. ASSUME Answer(q)
        PROVE  /\ req' \in [Requests -> Request]
               /\ \A p \in Requests : p # q => req'[p] = req[p]
               /\ RequestOK(q)'
    <2>1. req'[q].at = "idle" /\ req'[q].ext = Local
      BY <1>i, AnswerType, IdleIsRequest
    <2> QED
      BY <1>i, <2>1, AnswerType DEF RequestOK
  <1>1. ASSUME NEW s \in Subjects, SSOLookup(q, s)
        PROVE  /\ req' \in [Requests -> Request]
               /\ \A p \in Requests : p # q => req'[p] = req[p]
               /\ RequestOK(q)'
    <2>1. UNCHANGED <<flag, users>>
      BY <1>1 DEF SSOLookup
    <2>2. ASSUME NEW l \in Accounts, users[l].ext = s,
                 req' = [req EXCEPT ![q] = [at |-> "known", login |-> l, ext |-> s]]
          PROVE  /\ req' \in [Requests -> Request]
                 /\ \A p \in Requests : p # q => req'[p] = req[p]
                 /\ RequestOK(q)'
      <3>1. [at |-> "known", login |-> l, ext |-> s] \in Request
        BY DEF Request, Steps, Identity, Accounts
      <3>2. req'[q] = [at |-> "known", login |-> l, ext |-> s]
        BY <2>2 DEF TypeOK
      <3>3. users[l].exists
        BY DEF Accounts
      <3>4. req'[q].at = "known" /\ req'[q].login = l /\ req'[q].ext = s
        BY <3>2
      <3>5. RequestOK(q)'
        BY <2>1, <2>2, <3>3, <3>4 DEF RequestOK
      <3> QED
        BY <2>2, <3>1, <3>5 DEF TypeOK
    <2>3. ASSUME req' = [req EXCEPT ![q] = [at |-> "unknown", login |-> AnyLogin, ext |-> s]]
          PROVE  /\ req' \in [Requests -> Request]
                 /\ \A p \in Requests : p # q => req'[p] = req[p]
                 /\ RequestOK(q)'
      <3>1. [at |-> "unknown", login |-> AnyLogin, ext |-> s] \in Request
        BY BootstrapAssumption DEF Request, Steps, Identity, AnyLogin
      <3>2. req'[q] = [at |-> "unknown", login |-> AnyLogin, ext |-> s]
        BY <2>3 DEF TypeOK
      <3>3. req'[q].at = "unknown" /\ req'[q].ext = s
        BY <3>2
      <3>4. RequestOK(q)'
        BY <3>3 DEF RequestOK
      <3> QED
        BY <2>3, <3>1, <3>4 DEF TypeOK
    <2> QED
      BY <1>1, <2>2, <2>3 DEF SSOLookup
  <1>2. CASE ssoProvisioningAllowed(q)
    <2>1. CASE Answer(q)
      BY <2>1, <1>i
    <2>2. CASE ~Answer(q)
      <3>1. /\ Goto(q, "allowed") /\ Bootstrapped /\ req[q].at = "unknown"
        BY <1>2, <2>2, Zenon DEF ssoProvisioningAllowed
      <3>2. Admins' # {}
        BY <3>1, AdminWhenCounted, TableKeeps
      <3> QED
        BY <3>1, <3>2, GotoType DEF RequestOK, Steps
    <2> QED
      BY <2>1, <2>2
  <1>3. CASE ChooseLogin(q)
    <2>1. PICK chosen \in Logins :
            req' = [req EXCEPT ![q] = [req[q] EXCEPT !.at = "named", !.login = chosen]]
      BY <1>3, Zenon DEF ChooseLogin
    <2>2. req[q].at = "allowed" /\ UNCHANGED <<flag, users>>
      BY <1>3 DEF ChooseLogin
    <2>3. req[q].ext \in Subjects /\ Admins' # {}
      BY <2>2, TableKeeps DEF RequestOK
    <2>4. [req[q] EXCEPT !.at = "named", !.login = chosen] \in Request
      BY DEF Request, Steps
    <2>5. req'[q] = [req[q] EXCEPT !.at = "named", !.login = chosen]
      BY <2>1 DEF TypeOK
    <2>6. req'[q].at = "named" /\ req'[q].ext = req[q].ext
      BY <2>5 DEF Request
    <2>7. req' \in [Requests -> Request] /\ \A p \in Requests : p # q => req'[p] = req[p]
      BY <2>1, <2>4 DEF TypeOK
    <2> QED
      BY <2>2, <2>3, <2>6, <2>7 DEF RequestOK
  <1>4. CASE CreateUser(q)
    <2>1. CASE Answer(q)
      BY <2>1, <1>i
    <2>2. CASE ~Answer(q)
      <3>1. Goto(q, "known") /\ Provisioned(q)
        <4>1. CASE users[req[q].login].exists \/ \E k \in Accounts : users[k].ext = req[q].ext
          BY <1>4, <2>2, <4>1 DEF CreateUser
        <4>2. CASE ~(users[req[q].login].exists \/ \E k \in Accounts : users[k].ext = req[q].ext)
          <5>1. Goto(q, "known")
            BY <1>4, <2>2, <4>2, Zenon DEF CreateUser
          <5>2. Provisioned(q)
            BY <1>4, <4>2 DEF CreateUser, Provisioned
          <5> QED
            BY <5>1, <5>2
        <4> QED
          BY <4>1, <4>2
      <3>2. users'[req[q].login] = SSORow(req[q].ext)
        BY <3>1, ProvisionedRows
      <3>3. /\ req' \in [Requests -> Request]
            /\ \A p \in Requests : p # q => req'[p] = req[p]
            /\ req'[q].at = "known" /\ req'[q].login = req[q].login
            /\ req'[q].ext = req[q].ext
        BY <3>1, GotoType DEF Steps
      <3> QED
        BY <3>2, <3>3, Rows DEF RequestOK
    <2> QED
      BY <2>1, <2>2
  <1> QED
    BY <1>1, <1>2, <1>3, <1>4 DEF SSOStep

LEMMA RequestsStep ==
    ASSUME Inv, Next
    PROVE  /\ req' \in [Requests -> Request]
           /\ \A p \in Requests : RequestOK(p)'
  <1> TypeOK /\ \A p \in Requests : RequestOK(p)
    BY DEF Inv
  <1>1. CASE Start
    <2>1. req' = req
      BY <1>1 DEF Start
    <2> QED
      BY <2>1, OthersOK DEF TypeOK
  <1>2. CASE Crash
    <2>1. req' = [q \in Requests |-> Idle]
      BY <1>2 DEF Crash
    <2>2. \A p \in Requests : req'[p].at = "idle" /\ req'[p].ext = Local
      BY <2>1, IdleIsRequest
    <2> QED
      BY <2>1, <2>2, IdleIsRequest DEF RequestOK
  <1>3. ASSUME NEW q \in Requests, SetupStep(q) \/ SSOStep(q)
        PROVE  /\ req' \in [Requests -> Request]
               /\ \A p \in Requests : RequestOK(p)'
    <2>1. /\ req' \in [Requests -> Request]
          /\ \A p \in Requests : p # q => req'[p] = req[p]
          /\ RequestOK(q)'
      BY <1>3, SetupRequest, SSORequest
    <2> QED
      BY <2>1, OthersOK
  <1> QED
    BY <1>1, <1>2, <1>3 DEF Next

-----------------------------------------------------------------------------
(* The invariant.                                                          *)

\* The accounts of a database before the first start.
LEMMA FirstAccounts ==
    ASSUME Init
    PROVE  /\ users \in [Logins -> User]
           /\ Accounts = Admins
           /\ \/ Admins = {}
              \/ LegacyDatabase /\ AnyLogin \in Logins /\ Admins = {AnyLogin}
  <1>1. CASE users = [l \in Logins |-> NoUser]
    BY <1>1, Rows, RowTypes DEF Accounts, Admins
  <1>2. CASE LegacyDatabase /\ users = [l \in Logins |->
                                        IF l = AnyLogin THEN AdminRow ELSE NoUser]
    <2>1. AnyLogin \in Logins
      BY BootstrapAssumption DEF AnyLogin
    <2> QED
      BY <1>2, <2>1, Rows, RowTypes DEF Accounts, Admins
  <1> QED
    BY <1>1, <1>2 DEF Init

LEMMA InvInit == ASSUME Init PROVE Inv
  <1>4. /\ flag = FALSE /\ up = FALSE /\ token = NoToken /\ sessions = {}
        /\ starts = 0 /\ faults = 0 /\ req = [q \in Requests |-> Idle]
    BY DEF Init
  <1>5. req \in [Requests -> Request]
    BY <1>4, IdleIsRequest
  <1>6. \A q \in Requests : RequestOK(q)
    BY <1>4, IdleIsRequest DEF RequestOK
  <1>7. /\ starts \in 0..MaxStarts /\ faults \in 0..MaxFaults
        /\ token \in 0..MaxStarts
    BY <1>4, BootstrapAssumption DEF NoToken
  <1>8. \A k, l \in Accounts : k = l
    BY FirstAccounts
  <1>9. TypeOK
    BY <1>4, <1>5, <1>7, <1>8, FirstAccounts DEF TypeOK
  <1> QED
    BY <1>4, <1>6, <1>9, FirstAccounts DEF Inv, AdminFirst, SessionsMatchAccounts

\* The administrators after a step, and the flag with them.
LEMMA AdminsStep ==
    ASSUME Inv, Next
    PROVE  \/ /\ Admins' = Admins /\ flag' = flag
              /\ Admins # {} \/ Accounts' = Accounts
           \/ /\ ~flag /\ flag' /\ \E q \in Requests : req[q].at = "hashing"
              /\ \E l \in Logins : /\ Admins' = Admins \union {l}
                                   /\ Accounts' = Accounts \union {l}
  <1> TypeOK /\ (flag => Admins # {}) /\ \A p \in Requests : RequestOK(p)
    BY DEF Inv
  <1>1. CASE UNCHANGED <<flag, users>>
    BY <1>1 DEF Accounts, Admins
  <1>2. ASSUME NEW q \in Requests, Claimed(req[q].login)
        PROVE  /\ ~flag /\ flag' /\ \E p \in Requests : req[p].at = "hashing"
               /\ Admins' = Admins \union {req[q].login}
               /\ Accounts' = Accounts \union {req[q].login}
               /\ req[q].login \in Logins
    <2>1. ~flag /\ flag' /\ \E p \in Requests : req[p].at = "hashing"
      BY <1>2 DEF Claimed
    <2>2. \A k \in Accounts : k # req[q].login /\ users'[k] = users[k]
      BY <1>2, ClaimedRows DEF Accounts
    <2>3. users'[req[q].login].admin
      BY <1>2, ClaimedRows, Rows
    <2>4. Accounts' = Accounts \union {req[q].login}
      BY <1>2, ClaimedRows
    <2>5. Admins' = {l \in Accounts' : users'[l].admin}
      BY DEF Admins
    <2>6. Admins = {l \in Accounts : users[l].admin}
      BY DEF Admins
    <2>7. Admins' = Admins \union {req[q].login}
      BY <2>2, <2>3, <2>4, <2>5, <2>6
    <2> QED
      BY <1>2, <2>1, <2>4, <2>7, ClaimedRows
  <1>3. ASSUME NEW q \in Requests, Provisioned(q)
        PROVE  Admins' = Admins /\ flag' = flag /\ Admins # {}
    <2>1. Admins # {} /\ flag' = flag
      BY <1>3 DEF RequestOK, Provisioned
    <2>2. \A k \in Accounts : k # req[q].login /\ users'[k] = users[k]
      BY <1>3, ProvisionedRows DEF Accounts
    <2>3. ~users'[req[q].login].admin
      BY <1>3, ProvisionedRows, Rows
    <2>4. Accounts' = Accounts \union {req[q].login}
      BY <1>3, ProvisionedRows
    <2>5. Admins' = {l \in Accounts' : users'[l].admin}
      BY DEF Admins
    <2>6. Admins = {l \in Accounts : users[l].admin}
      BY DEF Admins
    <2>7. Admins' = Admins
      BY <2>2, <2>3, <2>4, <2>5, <2>6
    <2> QED
      BY <2>1, <2>7
  <1> QED
    BY <1>1, <1>2, <1>3, UsersStep

\* The token: kept, replaced by New when there is no account, or burnt when
\* the claim is made.
LEMMA TokenStep ==
    ASSUME Inv, Next, up', Admins' = {}
    PROVE  token' # NoToken
  <1> TypeOK /\ (up /\ Admins = {} => token # NoToken) /\ \A p \in Requests : RequestOK(p)
    BY DEF Inv
  <1>0. Admins = {} /\ ~flag
    BY TableKeeps DEF Inv
  <1>1. CASE Start
    <2>1. ~(CountUsers > 0)
      BY <1>0, AdminWhenCounted DEF Bootstrapped
    <2>2. starts' = starts + 1
      BY <1>1 DEF Start
    <2>3. token' \in {1, starts'}
      BY <1>1, <2>1, Zenon DEF Start
    <2>4. starts \in Nat
      BY BootstrapAssumption DEF TypeOK
    <2> QED
      BY <2>2, <2>3, <2>4 DEF NoToken
  <1>2. CASE Crash
    BY <1>2 DEF Crash
  <1>3. ASSUME NEW q \in Requests, SetupStep(q)
        PROVE  UNCHANGED <<up, token>>
    <2>1. CASE SetupGate(q) \/ SetupBusy(q)
      BY <2>1 DEF SetupGate, SetupBusy
    <2>2. CASE BootstrapAdmin(q) \/ StartSession(q)
      BY <2>2 DEF BootstrapAdmin, StartSession
    <2>3. CASE BurnToken(q)
      BY <2>3, <1>0 DEF BurnToken, RequestOK
    <2>4. ASSUME NEW p \in 0..MaxStarts, NEW l \in Logins, SetupToken(q, p, l)
          PROVE  UNCHANGED <<up, token>>
      BY <2>4 DEF SetupToken
    <2> QED
      BY <1>3, <2>1, <2>2, <2>3, <2>4 DEF SetupStep
  <1>4. ASSUME NEW q \in Requests, SSOStep(q)
        PROVE  UNCHANGED <<up, token>>
    <2>1. CASE ssoProvisioningAllowed(q) \/ ChooseLogin(q) \/ CreateUser(q)
      BY <2>1 DEF ssoProvisioningAllowed, ChooseLogin, CreateUser
    <2>2. ASSUME NEW s \in Subjects, SSOLookup(q, s)
          PROVE  UNCHANGED <<up, token>>
      BY <2>2 DEF SSOLookup
    <2> QED
      BY <1>4, <2>1, <2>2 DEF SSOStep
  <1> QED
    BY <1>0, <1>1, <1>2, <1>3, <1>4 DEF Next

LEMMA SessionsStep ==
    ASSUME Inv, Next
    PROVE  /\ sessions' \subseteq [login : Logins, ext : Identity]
           /\ SessionsMatchAccounts'
  <1> TypeOK /\ SessionsMatchAccounts /\ \A p \in Requests : RequestOK(p)
    BY DEF Inv
  <1>1. ASSUME NEW s \in sessions
        PROVE  users'[s.login].exists /\ users'[s.login].ext = s.ext
    <2>1. s.login \in Accounts /\ users[s.login].ext = s.ext
      BY DEF SessionsMatchAccounts, TypeOK, Accounts
    <2>2. s.login \in Accounts' /\ users'[s.login] = users[s.login]
      BY <2>1, TableKeeps
    <2> QED
      BY <2>1, <2>2 DEF Accounts
  <1>2. CASE UNCHANGED sessions
    BY <1>1, <1>2 DEF TypeOK, SessionsMatchAccounts
  <1>3. ASSUME NEW q \in Requests, StartSession(q)
        PROVE  /\ sessions' \subseteq [login : Logins, ext : Identity]
               /\ SessionsMatchAccounts'
    <2> DEFINE s == [login |-> req[q].login, ext |-> req[q].ext]
    <2>1. users' = users /\ req[q].at \in {"burnt", "known"}
      BY <1>3 DEF StartSession
    <2>2. users'[s.login].exists /\ users'[s.login].ext = s.ext
      BY <2>1 DEF RequestOK
    <2>3. s \in [login : Logins, ext : Identity]
      BY DEF TypeOK, Request
    <2>4. sessions' = sessions \/ sessions' = sessions \union {s}
      BY <1>3, Zenon DEF StartSession
    <2> HIDE DEF s
    <2>5. \A t \in sessions' : users'[t.login].exists /\ users'[t.login].ext = t.ext
      BY <1>1, <2>2, <2>4
    <2> QED
      BY <2>3, <2>4, <2>5 DEF TypeOK, SessionsMatchAccounts
  <1>4. UNCHANGED sessions \/ \E q \in Requests : StartSession(q)
    <2>1. CASE Start \/ Crash
      BY <2>1 DEF Start, Crash
    <2>2. ASSUME NEW q \in Requests, SetupStep(q)
          PROVE  UNCHANGED sessions \/ StartSession(q)
      <3>1. CASE SetupGate(q) \/ SetupBusy(q) \/ BootstrapAdmin(q) \/ BurnToken(q)
        BY <3>1 DEF SetupGate, SetupBusy, BootstrapAdmin, BurnToken
      <3>2. ASSUME NEW p \in 0..MaxStarts, NEW l \in Logins, SetupToken(q, p, l)
            PROVE  UNCHANGED sessions
        BY <3>2 DEF SetupToken
      <3> QED
        BY <2>2, <3>1, <3>2 DEF SetupStep
    <2>3. ASSUME NEW q \in Requests, SSOStep(q)
          PROVE  UNCHANGED sessions
      <3>1. CASE ssoProvisioningAllowed(q) \/ ChooseLogin(q) \/ CreateUser(q)
        BY <3>1 DEF ssoProvisioningAllowed, ChooseLogin, CreateUser
      <3>2. ASSUME NEW s \in Subjects, SSOLookup(q, s)
            PROVE  UNCHANGED sessions
        BY <3>2 DEF SSOLookup
      <3> QED
        BY <2>3, <3>1, <3>2 DEF SSOStep
    <2> QED
      BY <2>1, <2>2, <2>3 DEF Next
  <1> QED
    BY <1>2, <1>3, <1>4

LEMMA InvStep == ASSUME Inv, [Next]_vars PROVE Inv'
  <1>1. CASE UNCHANGED vars
    BY <1>1 DEF vars, Inv, TypeOK, AdminFirst, SessionsMatchAccounts, RequestOK,
                Accounts, Admins
  <1>2. CASE Next
    <2>1. TypeOK /\ TypeOK'
      BY <1>2, TableStep, ProcessStep, RequestsStep, SessionsStep DEF Inv, TypeOK
    <2>2. (flag => Admins # {}) /\ AdminFirst
      BY DEF Inv
    <2>3. flag' => Admins' # {}
      BY <1>2, <2>2, AdminsStep
    <2>4. AdminFirst'
      BY <1>2, <2>2, AdminsStep DEF AdminFirst
    <2>5. up' /\ Admins' = {} => token' # NoToken
      BY <1>2, TokenStep
    <2> QED
      BY <1>2, <2>1, <2>3, <2>4, <2>5, RequestsStep, SessionsStep DEF Inv
  <1> QED
    BY <1>1, <1>2

\* The inductive invariant holds for a database of any age.
THEOREM Invariance == Spec => []Inv
  <1>1. Init => Inv
    BY InvInit
  <1>2. Inv /\ [Next]_vars => Inv'
    BY InvStep
  <1> QED
    BY <1>1, <1>2, PTL DEF Spec

\* Type correctness, and with it that an identity is never linked twice.
THEOREM TypeCorrect == Spec => []TypeOK
  <1>1. Inv => TypeOK
    BY DEF Inv
  <1> QED
    BY <1>1, Invariance, PTL

\* No SSO account comes before the administrator.
THEOREM AdminComesFirst == Spec => []AdminFirst
  <1>1. Inv => AdminFirst
    BY DEF Inv
  <1> QED
    BY <1>1, Invariance, PTL

\* Crashes, restarts and failing calls never leave an instance without an
\* administrator that can no longer be claimed.
THEOREM OperatorNeverLockedOut == Spec => []NeverLockedOut
  <1>1. Inv => NeverLockedOut
    BY DEF Inv, NeverLockedOut
  <1> QED
    BY <1>1, Invariance, PTL

\* Every session is one of the account its identity is linked to.
THEOREM SessionsAreOwn == Spec => []SessionsMatchAccounts
  <1>1. Inv => SessionsMatchAccounts
    BY DEF Inv
  <1> QED
    BY <1>1, Invariance, PTL


-----------------------------------------------------------------------------
(* One administrator.                                                      *)

\* A database that may have an administrator and no flag looks fresh to New and to
\* handleSetup when a read fails: it takes one failure for each to claim it again.
FewFaults == LegacyDatabase => MaxFaults <= 1

\* An older database with its administrator: there is a token, or a post that came
\* through the gate, only after a failing read, and never both.
Guarded ==
    /\ LegacyDatabase
    /\ token # NoToken => faults > 0 /\ up
    /\ \A q \in Requests :
          /\ req[q].at \notin {"hashing", "created", "burnt"}
          /\ req[q].at = "gated" => faults > 0 /\ up /\ token = NoToken

Single ==
    /\ \A k, l \in Admins : k = l
    /\ IsFiniteSet(Accounts)
    /\ ~flag /\ Admins # {} => Guarded

LEMMA SingleInit == Init => Single
  <1> SUFFICES ASSUME Init PROVE Single
    OBVIOUS
  <1>1. token = NoToken /\ \A q \in Requests : req[q].at = "idle"
    BY IdleIsRequest DEF Init
  <1>2. IsFiniteSet(Accounts)
    <2>1. IsFiniteSet({}) /\ IsFiniteSet({AnyLogin})
      BY FS_EmptySet, FS_Singleton
    <2>2. Accounts = {} \/ Accounts = {AnyLogin}
      BY FirstAccounts
    <2> QED
      BY <2>1, <2>2
  <1> QED
    BY <1>1, <1>2, FirstAccounts DEF Single, Guarded

\* Where a setup post and a login go in a guarded database.
LEMMA GuardedRequest ==
    ASSUME TypeOK, Guarded, MaxFaults <= 1, Bootstrapped, NEW q \in Requests,
           SetupStep(q) \/ SSOStep(q)
    PROVE  /\ UNCHANGED <<up, token>> /\ (faults > 0 => faults' > 0)
           /\ \A p \in Requests : p # q => req'[p] = req[p]
           /\ \/ req'[q].at \in {"idle", "unknown", "known", "allowed", "named"}
              \/ req'[q].at = "gated" /\ faults' > 0 /\ up /\ token = NoToken
  <1>1. /\ faults \in Nat /\ MaxFaults \in Nat /\ req \in [Requests -> Request]
        /\ req[q].at \notin {"hashing", "created", "burnt"}
    BY BootstrapAssumption DEF TypeOK, Guarded
  <1>2. NoFault \/ Fault \/ faults' = faults => (faults > 0 => faults' > 0)
    BY <1>1 DEF NoFault, Fault
  <1>3. Answer(q) => /\ req'[q].at = "idle"
                     /\ \A p \in Requests : p # q => req'[p] = req[p]
    BY AnswerType, IdleIsRequest
  <1>4. CASE SetupGate(q)
    <2>1. Fault /\ up /\ Goto(q, "gated") /\ UNCHANGED <<up, token>>
      BY <1>4 DEF SetupGate
    <2>2. faults = 0 /\ faults' = 1
      BY <1>1, <2>1 DEF Fault
    <2>3. token = NoToken
      BY <2>2 DEF Guarded
    <2> QED
      BY <2>1, <2>2, <2>3, GotoType DEF Steps
  <1>5. ASSUME NEW p \in 0..MaxStarts, NEW l \in Logins, SetupToken(q, p, l)
        PROVE  Answer(q) /\ UNCHANGED <<up, token, faults>>
    BY <1>5 DEF SetupToken, Guarded
  <1>6. CASE StartSession(q)
    BY <1>2, <1>3, <1>6 DEF StartSession
  <1>7. ASSUME NEW s \in Subjects, SSOLookup(q, s)
        PROVE  /\ UNCHANGED <<up, token, faults>>
               /\ req'[q].at \in {"known", "unknown"}
               /\ \A p \in Requests : p # q => req'[p] = req[p]
    <2>1. UNCHANGED <<up, token, faults>>
      BY <1>7 DEF SSOLookup
    <2>2. \E l, at : /\ at \in {"known", "unknown"}
                     /\ req' = [req EXCEPT ![q] = [at |-> at, login |-> l, ext |-> s]]
      BY <1>7 DEF SSOLookup
    <2> QED
      BY <1>1, <2>1, <2>2
  <1>8. CASE ssoProvisioningAllowed(q)
    <2>1. NoFault \/ Fault
      BY <1>8 DEF ssoProvisioningAllowed
    <2>2. Goto(q, "allowed") \/ Answer(q)
      BY <1>8 DEF ssoProvisioningAllowed
    <2>3. UNCHANGED <<up, token>>
      BY <1>8 DEF ssoProvisioningAllowed
    <2> QED
      BY <1>2, <1>3, <2>1, <2>2, <2>3, GotoType DEF Steps
  <1>9. CASE ChooseLogin(q)
    <2>1. NoFault \/ Fault
      BY <1>9, Zenon DEF ChooseLogin
    <2>2. PICK chosen \in Logins :
            req' = [req EXCEPT ![q] = [req[q] EXCEPT !.at = "named", !.login = chosen]]
      BY <1>9, Zenon DEF ChooseLogin
    <2>3. req[q] \in Request
      BY <1>1
    <2>4. req'[q] = [req[q] EXCEPT !.at = "named", !.login = chosen]
      BY <1>1, <2>2
    <2>5. req'[q].at = "named"
      BY <2>3, <2>4 DEF Request
    <2>6. \A p \in Requests : p # q => req'[p] = req[p]
      BY <1>1, <2>2
    <2>7. UNCHANGED <<up, token>>
      BY <1>9 DEF ChooseLogin
    <2> QED
      BY <1>2, <2>1, <2>5, <2>6, <2>7
  <1>10. CASE CreateUser(q)
    <2>1. NoFault \/ Fault
      BY <1>10, Zenon DEF CreateUser
    <2>2. Goto(q, "known") \/ Answer(q)
      BY <1>10, Zenon DEF CreateUser
    <2>3. UNCHANGED <<up, token>>
      BY <1>10 DEF CreateUser
    <2> QED
      BY <1>2, <1>3, <2>1, <2>2, <2>3, GotoType DEF Steps
  <1>11. ~SetupBusy(q) /\ ~BootstrapAdmin(q) /\ ~BurnToken(q)
    BY <1>1 DEF SetupBusy, BootstrapAdmin, BurnToken
  <1> QED
    BY <1>2, <1>3, <1>4, <1>5, <1>6, <1>7, <1>8, <1>9, <1>10, <1>11 DEF SetupStep, SSOStep

LEMMA GuardedStep ==
    ASSUME FewFaults, TypeOK, Guarded, Bootstrapped, CountUsers > 0, Next
    PROVE  Guarded'
  <1>1. /\ faults \in Nat /\ MaxFaults \in Nat /\ MaxFaults <= 1
        /\ \A q \in Requests : req[q].at \notin {"hashing", "created", "burnt"}
    BY BootstrapAssumption DEF TypeOK, FewFaults, Guarded
  <1>2. CASE Start
    <2>1. ~up /\ up' /\ req' = req
      BY <1>2 DEF Start
    <2>2. \A q \in Requests : req[q].at # "gated"
      BY <2>1 DEF Guarded
    <2>3. token' = NoToken \/ Fault
      BY <1>2, Zenon DEF Start
    <2>4. token' # NoToken => faults' > 0
      BY <1>1, <2>3 DEF Fault
    <2> QED
      BY <1>1, <2>1, <2>2, <2>4 DEF Guarded
  <1>3. CASE Crash
    <2>1. token' = NoToken /\ req' = [q \in Requests |-> Idle]
      BY <1>3 DEF Crash
    <2>2. \A q \in Requests : req'[q].at = "idle"
      BY <2>1, IdleIsRequest
    <2> QED
      BY <2>1, <2>2 DEF Guarded
  <1>4. ASSUME NEW q \in Requests, SetupStep(q) \/ SSOStep(q)
        PROVE  Guarded'
    <2>1. /\ UNCHANGED <<up, token>> /\ (faults > 0 => faults' > 0)
          /\ \A p \in Requests : p # q => req'[p] = req[p]
          /\ \/ req'[q].at \in {"idle", "unknown", "known", "allowed", "named"}
             \/ req'[q].at = "gated" /\ faults' > 0 /\ up /\ token = NoToken
      BY <1>1, <1>4, GuardedRequest
    <2> QED
      BY <2>1 DEF Guarded
  <1> QED
    BY <1>2, <1>3, <1>4 DEF Next

LEMMA SingleStep == FewFaults /\ Inv /\ Single /\ [Next]_vars => Single'
  <1> SUFFICES ASSUME FewFaults, Inv, Single, [Next]_vars PROVE Single'
    OBVIOUS
  <1>1. CASE UNCHANGED vars
    BY <1>1 DEF vars, Single, Guarded, Accounts, Admins
  <1>2. CASE Next
    <2>1. IsFiniteSet(Accounts')
      <3>1. \/ Accounts' = Accounts
            \/ \E l \in Logins : Accounts' = Accounts \union {l}
        <4>1. UNCHANGED users => Accounts' = Accounts
          BY DEF Accounts
        <4> QED
          BY <1>2, <4>1, UsersStep, ClaimedRows, ProvisionedRows DEF Inv
      <3> QED
        BY <3>1, FS_AddElement DEF Single
    <2>2. CASE /\ ~flag /\ flag' /\ \E q \in Requests : req[q].at = "hashing"
               /\ \E l \in Logins : Admins' = Admins \union {l}
      <3>1. Admins = {}
        BY <2>2 DEF Single, Guarded
      <3> QED
        BY <2>1, <2>2, <3>1 DEF Single
    <2>3. CASE Admins' = Admins /\ flag' = flag
      <3>1. ASSUME ~flag, Admins # {} PROVE Guarded'
        <4>1. IsFiniteSet(Accounts) /\ Accounts # {}
          BY <3>1 DEF Single, Admins
        <4>2. Cardinality(Accounts) \in Nat /\ Cardinality(Accounts) # 0
          BY <4>1, FS_CardinalityType, FS_EmptySet
        <4>3. CountUsers > 0
          BY <4>2 DEF CountUsers
        <4>4. Bootstrapped
          BY <4>3 DEF Bootstrapped
        <4> QED
          BY <1>2, <3>1, <4>3, <4>4, GuardedStep DEF Inv, Single
      <3> QED
        BY <2>1, <2>3, <3>1 DEF Single
    <2> QED
      BY <1>2, <2>2, <2>3, AdminsStep
  <1> QED
    BY <1>1, <1>2

LEMMA SingleAlways == FewFaults /\ Spec => []Single
  <1>1. CASE FewFaults
    BY <1>1, SingleInit, SingleStep, Invariance, PTL DEF Spec
  <1> QED
    BY <1>1

\* There is never more than one administrator.
THEOREM AtMostOneAdmin == FewFaults /\ Spec => []OneAdmin
  <1>1. Single => OneAdmin
    <2> SUFFICES ASSUME Single PROVE OneAdmin
      OBVIOUS
    <2>1. CASE Admins = {}
      BY <2>1, FS_EmptySet DEF OneAdmin
    <2>2. ASSUME NEW l \in Admins PROVE Cardinality(Admins) = 1
      <3>1. Admins = {l}
        BY <2>2 DEF Single
      <3> QED
        BY <3>1, FS_Singleton
    <2>3. CASE Admins # {}
      BY <2>2, <2>3 DEF OneAdmin
    <2> QED
      BY <2>1, <2>3
  <1> QED
    BY <1>1, SingleAlways, PTL

\* Setup implements the abstract claim: from no administrator to one, once.
THEOREM ImplementsClaim == FewFaults /\ Spec => AdminClaimed
  <1>1. Init => Claim!Init
    BY FirstAccounts DEF Claim!Init
  <1>2. Inv /\ Single /\ [Next]_vars => [Claim!Next]_Admins
    <2> SUFFICES ASSUME Inv, Single, [Next]_vars PROVE [Claim!Next]_Admins
      OBVIOUS
    <2>1. CASE UNCHANGED vars
      BY <2>1 DEF vars, Admins, Accounts
    <2>2. CASE Next
      <3>1. CASE /\ ~flag /\ \E q \in Requests : req[q].at = "hashing"
                 /\ \E l \in Logins : Admins' = Admins \union {l}
        <4>1. Admins = {}
          BY <3>1 DEF Single, Guarded
        <4> QED
          BY <3>1, <4>1 DEF Claim!Next, Claim!Claim
      <3>2. CASE Admins' = Admins
        BY <3>2
      <3> QED
        BY <2>2, <3>1, <3>2, AdminsStep
    <2> QED
      BY <2>1, <2>2
  <1> QED
    BY <1>1, <1>2, Invariance, SingleAlways, PTL DEF Spec, Claim!Spec, AdminClaimed
=============================================================================
