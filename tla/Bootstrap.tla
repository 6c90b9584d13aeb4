----------------------------- MODULE Bootstrap ------------------------------
(***************************************************************************)
(* First-run setup and SSO account provisioning.                           *)
(*                                                                         *)
(* A fresh instance has no account.  Whoever posts the one-time setup      *)
(* token to /setup becomes its administrator; an account auto-provisioned  *)
(* by a GitHub or OIDC login must not come first.  The database survives a *)
(* crash; the setup token, held in memory, does not: New mints another one *)
(* (or takes the configured one) when it finds no user.                    *)
(***************************************************************************)
EXTENDS Naturals, FiniteSets

CONSTANTS
    Logins,           \* login names accounts may have
    Subjects,         \* IdP identities, "github:<id>" or "oidc:<sub>"
    Preferred,        \* Preferred[s]: the login the IdP suggests for s
    Suffixed,         \* Suffixed[s]: the login used when that one is taken
    Requests,         \* request goroutines that may be in flight together
    ConfiguredToken,  \* whether EGRET_NEST_SETUP_TOKEN is set
    LegacyDatabase,   \* whether the database may predate the bootstrapped flag
    MaxStarts,        \* bound: how often the process starts
    MaxFaults         \* bound: how many store calls fail

ASSUME BootstrapAssumption ==
    /\ Preferred \in [Subjects -> Logins]
    /\ Suffixed \in [Subjects -> Logins]
    /\ Logins # {}
    /\ {ConfiguredToken, LegacyDatabase} \subseteq BOOLEAN
    /\ MaxStarts \in Nat /\ MaxFaults \in Nat

Local  == "local"                 \* external_id NULL: no IdP identity
NoUser == [ext |-> Local, admin |-> FALSE, exists |-> FALSE]
AdminRow == [ext |-> Local, admin |-> TRUE, exists |-> TRUE]
SSORow(s) == [ext |-> s, admin |-> FALSE, exists |-> TRUE]
NoToken == 0                      \* a nil setupToken pointer

VARIABLES
    flag,      \* settings row ('bootstrapped', '1') exists
    users,     \* users[l]: the account row with login l
    up,        \* the process is serving
    starts,    \* how often New ran
    faults,    \* how many store calls have failed
    token,     \* Server.setupToken: NoToken, or the number of the token
    req,       \* req[q]: the local variables of a request goroutine
    sessions   \* logins that have been given a session, and the identity shown

vars == <<flag, users, up, starts, faults, token, req, sessions>>

-----------------------------------------------------------------------------

Steps == {"idle", "gated", "hashing", "created", "burnt", "unknown", "allowed",
          "named", "known"}
Identity == Subjects \union {Local}
User == [ext : Identity, admin : BOOLEAN, exists : BOOLEAN]
Request == [at : Steps, login : Logins, ext : Identity]

AnyLogin == CHOOSE l \in Logins : TRUE
Idle == [at |-> "idle", login |-> AnyLogin, ext |-> Local]

Accounts == {l \in Logins : users[l].exists}
Admins   == {l \in Accounts : users[l].admin}

CountUsers   == Cardinality(Accounts)
Bootstrapped_FlagOnly == flag      \* a slip: no fallback for older databases
Bootstrapped == flag \/ CountUsers > 0

\* A store call fails: bounded, and it changes no table.
Fault == faults < MaxFaults /\ faults' = faults + 1
NoFault == faults' = faults

Goto(q, step) == req' = [req EXCEPT ![q].at = step]
Answer(q)     == req' = [req EXCEPT ![q] = Idle]

Init ==
    /\ flag = FALSE
    /\ \/ users = [l \in Logins |-> NoUser]
       \/ LegacyDatabase /\ users = [l \in Logins |->
                                       IF l = AnyLogin THEN AdminRow ELSE NoUser]
    /\ up = FALSE /\ starts = 0 /\ faults = 0
    /\ token = NoToken
    /\ req = [q \in Requests |-> Idle]
    /\ sessions = {}

-----------------------------------------------------------------------------
(* The process.                                                            *)

\* New: a setup token is kept when no user is counted, or when the count fails
\* (its error is ignored and reads as zero).
Start ==
    /\ ~up /\ starts < MaxStarts
    /\ up' = TRUE /\ starts' = starts + 1
    /\ \/ NoFault /\ token' = IF CountUsers > 0 THEN NoToken
                              ELSE IF ConfiguredToken THEN 1 ELSE starts'
       \/ Fault   /\ token' = IF ConfiguredToken THEN 1 ELSE starts'
    /\ UNCHANGED <<flag, users, req, sessions>>

\* The process dies: goroutines and the token are gone, the database stays.
Crash ==
    /\ up /\ up' = FALSE
    /\ token' = NoToken
    /\ req' = [q \in Requests |-> Idle]
    /\ UNCHANGED <<flag, users, starts, faults, sessions>>

-----------------------------------------------------------------------------
(* POST /setup (handleSetup).                                              *)

\* The gate passes when setup is not done, or when asking fails.
SetupGate(q) ==
    /\ up /\ req[q].at = "idle"
    /\ (~Bootstrapped /\ NoFault) \/ Fault
    /\ Goto(q, "gated")
    /\ UNCHANGED <<flag, users, up, starts, token, sessions>>

\* The token is loaded once and compared; the login is validated.
SetupToken(q, posted, l) ==
    /\ req[q].at = "gated"
    /\ IF token # NoToken /\ posted = token
         THEN req' = [req EXCEPT ![q].at = "hashing", ![q].login = l]
         ELSE Answer(q)
    /\ UNCHANGED <<flag, users, up, starts, faults, token, sessions>>

\* No hashing slot within its wait: 503, nothing claimed.
SetupBusy(q) ==
    /\ req[q].at = "hashing"
    /\ Answer(q)
    /\ UNCHANGED <<flag, users, up, starts, faults, token, sessions>>

\* A slip: the user row is checked instead of the flag being claimed.
BootstrapAdmin_Unclaimed(q) ==
    /\ req[q].at = "hashing" /\ NoFault
    /\ IF users[req[q].login].exists
         THEN Answer(q) /\ UNCHANGED <<flag, users>>
         ELSE /\ flag' = TRUE
              /\ users' = [users EXCEPT ![req[q].login] = AdminRow]
              /\ Goto(q, "created")
    /\ UNCHANGED <<up, starts, token, sessions>>

\* A slip: the flag is claimed outside the transaction that creates the user.
BootstrapAdmin_SplitClaim(q) ==
    /\ req[q].at = "hashing"
    /\ \/ /\ Fault /\ Answer(q)
          /\ flag' = TRUE /\ UNCHANGED users
       \/ /\ NoFault /\ ~flag
          /\ flag' = TRUE
          /\ users' = [users EXCEPT ![req[q].login] = AdminRow]
          /\ Goto(q, "created")
    /\ UNCHANGED <<up, starts, token, sessions>>

\* BootstrapAdmin, one transaction: INSERT OR IGNORE the flag; if it was there
\* someone else won; otherwise insert the admin (with its organization and
\* membership, modelled by OrgMembers).  A taken login or a failing statement
\* rolls everything back.
BootstrapAdmin(q) ==
    /\ req[q].at = "hashing"
    /\ \/ /\ Fault /\ Answer(q)
          /\ UNCHANGED <<flag, users>>
       \/ /\ NoFault
          /\ IF flag \/ users[req[q].login].exists
               THEN Answer(q) /\ UNCHANGED <<flag, users>>
               ELSE /\ flag' = TRUE
                    /\ users' = [users EXCEPT ![req[q].login] = AdminRow]
                    /\ Goto(q, "created")
    /\ UNCHANGED <<up, starts, token, sessions>>

\* setupToken.Store(nil), only after the commit.
BurnToken(q) ==
    /\ req[q].at = "created"
    /\ token' = NoToken
    /\ Goto(q, "burnt")
    /\ UNCHANGED <<flag, users, up, starts, faults, sessions>>

\* startSession for the account the request created or looked up.
StartSession(q) ==
    /\ req[q].at \in {"burnt", "known"}
    /\ \/ /\ NoFault
          /\ sessions' = sessions \union {[login |-> req[q].login, ext |-> req[q].ext]}
       \/ Fault /\ UNCHANGED sessions
    /\ Answer(q)
    /\ UNCHANGED <<flag, users, up, starts, token>>

-----------------------------------------------------------------------------
(* GET /auth/{github,oidc}/callback, once the IdP has vouched for s.       *)

\* GetUserByExternalID: a linked account signs in, an unknown one goes on.
SSOLookup(q, s) ==
    /\ up /\ req[q].at = "idle"
    /\ \/ \E l \in Accounts :
            /\ users[l].ext = s
            /\ req' = [req EXCEPT ![q] = [at |-> "known", login |-> l, ext |-> s]]
       \/ /\ \A l \in Accounts : users[l].ext # s
          /\ req' = [req EXCEPT ![q] = [at |-> "unknown", login |-> AnyLogin, ext |-> s]]
    /\ UNCHANGED <<flag, users, up, starts, faults, token, sessions>>

\* A slip: SSO accounts are provisioned whether or not setup is done.
ssoProvisioningAllowed_Always(q) ==
    /\ req[q].at = "unknown"
    /\ Goto(q, "allowed")
    /\ UNCHANGED <<flag, users, up, starts, faults, token, sessions>>

\* ssoProvisioningAllowed: only once the instance is bootstrapped; an error denies.
ssoProvisioningAllowed(q) ==
    /\ req[q].at = "unknown"
    /\ \/ NoFault /\ IF Bootstrapped THEN Goto(q, "allowed") ELSE Answer(q)
       \/ Fault /\ Answer(q)
    /\ UNCHANGED <<flag, users, up, starts, token, sessions>>

\* A slip: the suggested login is used without looking whose it is.
ChooseLogin_Suggested(q) ==
    /\ req[q].at = "allowed"
    /\ req' = [req EXCEPT ![q].at = "known", ![q].login = Preferred[req[q].ext]]
    /\ UNCHANGED <<flag, users, up, starts, faults, token, sessions>>

\* provisionGithubUser, provisionOIDCUser: a login that is not taken now.  When
\* the lookup fails its error is ignored and the login counts as free.
ChooseLogin(q) ==
    /\ req[q].at = "allowed"
    /\ \E l \in Logins :
          /\ \/ NoFault /\ l = IF users[Preferred[req[q].ext]].exists
                                THEN Suffixed[req[q].ext] ELSE Preferred[req[q].ext]
             \/ Fault /\ l = Preferred[req[q].ext]
          /\ req' = [req EXCEPT ![q].at = "named", ![q].login = l]
    /\ UNCHANGED <<flag, users, up, starts, token, sessions>>

\* CreateUser: fails on UNIQUE when the login or the identity was taken meanwhile.
\* The row is read back afterwards; when that fails the account stays.
CreateUser(q) ==
    LET l == req[q].login
        s == req[q].ext
    IN  /\ req[q].at = "named"
        /\ IF users[l].exists \/ \E k \in Accounts : users[k].ext = s
             THEN NoFault /\ Answer(q) /\ UNCHANGED users
             ELSE /\ users' = [users EXCEPT ![l] = SSORow(s)]
                  /\ \/ NoFault /\ Goto(q, "known")
                     \/ Fault /\ Answer(q)
        /\ UNCHANGED <<flag, up, starts, token, sessions>>

-----------------------------------------------------------------------------

SetupStep(q) ==
    \/ SetupGate(q)
    \/ \E posted \in 0..MaxStarts, l \in Logins : SetupToken(q, posted, l)
    \/ SetupBusy(q)
    \/ BootstrapAdmin(q)
    \/ BurnToken(q)
    \/ StartSession(q)

SSOStep(q) ==
    \/ \E s \in Subjects : SSOLookup(q, s)
    \/ ssoProvisioningAllowed(q)
    \/ ChooseLogin(q)
    \/ CreateUser(q)

Next == Start \/ Crash \/ \E q \in Requests : SetupStep(q) \/ SSOStep(q)

Spec == Init /\ [][Next]_vars

-----------------------------------------------------------------------------
(* Properties.                                                             *)

\* The database, the process and the goroutines hold values of their types, and
\* an IdP identity is linked to one account only (users.external_id is UNIQUE).
TypeOK ==
    /\ \A k, l \in Accounts : users[k].ext = users[l].ext /\ users[k].ext # Local => k = l
    /\ flag \in BOOLEAN /\ up \in BOOLEAN
    /\ users \in [Logins -> User]
    /\ starts \in 0..MaxStarts /\ faults \in 0..MaxFaults
    /\ token \in 0..MaxStarts
    /\ req \in [Requests -> Request]
    /\ sessions \subseteq [login : Logins, ext : Identity]

\* However setups race, crash and fail, the first administrator is the only one
\* /setup ever creates: INSERT OR IGNORE of the flag, in the transaction that
\* creates the account, is the claim.  A database that has an administrator and no
\* flag is not claimed again either, as long as at most one store call fails: New
\* and handleSetup both take a failing read for a fresh instance.
OneAdmin == Cardinality(Admins) <= 1

\* Nobody comes before the administrator: while there is none there is no account
\* at all, so an SSO login cannot squat the instance (ssoProvisioningAllowed).
AdminFirst == Accounts # {} => Admins # {}

\* The operator is never locked out: as long as there is no administrator a
\* serving process accepts a setup token and the claim is still free.  Failures
\* and crashes between the claim and the burning of the token do not change that.
NeverLockedOut == Admins = {} => ~flag /\ (up => token # NoToken)

\* A session opened by an SSO login is one of the account linked to that identity;
\* a session opened by /setup is the administrator's.
SessionsMatchAccounts ==
    \A s \in sessions : users[s.login].exists /\ users[s.login].ext = s.ext

\* Seen through its administrators the instance is a behaviour of AdminClaim.
Claim == INSTANCE AdminClaim WITH admins <- Admins
AdminClaimed == Claim!Spec

\* The operator retries with the token the log shows until it is accepted, each
\* request has its own goroutine, a hashing slot frees up sooner or later, and the
\* supervisor restarts the process.  A retry competes with other visitors for the
\* few goroutines of the model, hence strong fairness for its steps.
Fairness ==
    /\ WF_vars(Start)
    /\ \A q \in Requests :
          /\ SF_vars(SetupGate(q))
          /\ SF_vars(\E l \in Logins : SetupToken(q, token, l))
          /\ SF_vars(BootstrapAdmin(q))
          /\ WF_vars(BurnToken(q)) /\ WF_vars(StartSession(q))
          /\ WF_vars(req[q].at # "idle" /\ SSOStep(q))
LiveSpec == Spec /\ Fairness

\* Starting from a fresh database the instance gets its administrator in the end,
\* unless the process dies for good.
EventuallyAdmin == <>(Admins # {} \/ (starts = MaxStarts /\ ~up))
=============================================================================
