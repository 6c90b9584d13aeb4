# Verification of Egret Nest

Egret Nest is a self-hosted dashboard: CI runners post network-egress telemetry
to `/ingest`, people sign in to look at it and to administer organizations,
members and ingest tokens. It is one Go process over one SQLite file. This
directory models that program in TLA+, checks the models with TLC on small
instances and proves the most important properties with TLAPS for every instance.

Source paths below are relative to `src/internal/` unless they begin with `src/`.

1. [Inventory](#1-inventory)
2. [Plan](#2-plan)
3. [Modules and the code](#3-modules-and-the-code)
4. [Runs](#4-runs)
5. [Bounds](#5-bounds)
6. [Fairness](#6-fairness)
7. [Proofs](#7-proofs)
8. [Where code and documentation disagree](#8-where-code-and-documentation-disagree)
9. [What is not modelled](#9-what-is-not-modelled)

To check a run: `tlc -workers 2 -config SignIn.cfg MCSignIn`; to check the proofs
of a component: `tlapm SignInProofs.tla`.

## 1. Inventory

Every HTTP request runs in its own goroutine; one more goroutine runs the janitor
(`RunJanitor`, server/admin.go:83). All of them share

* the **database** (`store/`): one SQLite connection (`SetMaxOpenConns(1)`,
  store/store.go:88), so one statement, or one transaction, is atomic and
  everything a handler does between two store calls is not; a second process (the
  `backup` command) runs its statements between any two of the server's;
* **process memory**: the setup token, the login limiter, the two password-hashing
  slots, the SSO provider pointers with their mutex, the request-log ring. It is
  lost in a crash; the database is not.

There are no messages between components: they meet in tables, in the memory
above and in function calls from the handlers.

| Component | State | Operations | Hard behaviour | Correct when |
|---|---|---|---|---|
| Organizations and members (`server/orgadmin.go`, `store/orgadmin.go`, `/admin/users`, `/admin/tokens`) | organizations, memberships, ingest_tokens | add, setrole, revoke, create/revoke token, grant/revoke by the operator | authority and target role are read before the transaction that writes; two managers race on the last owner | self-service never takes the last owner away; no role is written by someone who never outranked it; no token of another organization is touched |
| First-run setup and SSO provisioning (`server/auth_handlers.go`, `server/oauth_*.go`, `store/auth.go`) | bootstrapped flag, users, sessions, setup token | `/setup`, SSO callbacks, process start | two setups at once, crash between claim and token burn, SSO login before the administrator exists, ignored errors | one administrator, nobody before it, the operator always gets in |
| Ingest (`handleIngest`, `InsertEnvelope`) | runs, endpoints_seen, ingest_tokens | POST `/ingest`, revocation, pruning, scoped reads | a timestamp taken before the transaction, revocation during the body read, prune racing an insert | drift is never missed, history and runs agree, organizations see only their own |
| Retention (`RunJanitor`, settings form) | settings, runs, audit_log | save, janitor pass | settings saved and read one by one, failing reads, date arithmetic that wraps | nothing goes before its window is over, everything goes in the end |
| Sign-in and second factor (`handleLogin`, `server/account.go`, `auth/totp.go`) | users.totp_*, totp_used, sessions | login, logout, begin/confirm/disable, janitor pruning | stale account rows, code replay, records forgotten too early | a code counts once, the factor goes only with proof, nobody is locked out |
| Attempt limiter (`server/ratelimit.go`) | buckets | reserve, release, reset, prune | parallel attempts, places given back to another bucket, old clock readings | a bucket admits Max attempts, a busy server is no strike, a block ends |
| Password hashing (`auth/password.go`) | two slots | hash, verify | every slot held | waiting ends |
| SSO provider configuration (`server/authconfig.go`, `server/admin_auth.go`) | settings rows, provider pointers, authMu | save, clear, reload, start | write / validate / roll back across two stores of truth, crash in between | what is stored loads; live and stored agree after every save that succeeds or is rolled back |
| SSO protocols (`server/oauth_github.go`, `server/oauth_oidc.go`) | cookies of the browsers, users.external_id | login, callback | two logins of a browser, a late or repeated answer, a provider that is replaced meanwhile | nobody is signed in as someone else, nobody off the list gets in |
| Opening the store (`store/store.go`, `backup` command) | schema of runs and endpoints_seen | every statement of `Open` | two processes at once, a kill between two statements | nothing is lost, the server serves again |
| Delivery of an envelope (`handleIngest`, `accessLog`, `recoverPanic`, `serve`) | runs, the request under way | post, retry, commit, shutdown, kill | the answer is lost, the server stops in the middle | what was acknowledged is stored, extra copies come from retries |
| Request log (`server/logbuf.go`) | ring buffer | add, recent | wrap-around | the last N entries, newest first |
| Ingest shape limits (`server/ingest_limits.go`) | none | checkIngestShape | off-by-one at the limits | agrees with a definition of depth, element count and the end of the first value |
| Webhook, pages, charts, metrics, CSRF and headers, secret box, flags | none | | cryptography, rendering | see section 9 |

`PROJECT.json` lists the same components with their status, and under `hazards`
every place of this code that is hard to test, with the properties aimed at it.

## 2. Plan

In order of importance. A theorem module is named after its component.

| | Modules | Abstract specification | State |
|---|---|---|---|
| 1 | OrgMembers, MCOrgMembers, OrgMembersProofs | OrgOwnership | done |
| 2 | Bootstrap, MCBootstrap, BootstrapProofs | AdminClaim | done |
| 3 | Ingest, MCIngest, IngestProofs | | done |
| 4 | Retention, MCRetention, RetentionProofs | | done |
| 5 | SignIn, MCSignIn, SignInProofs | | done |
| 6 | Throttle, MCThrottle, ThrottleProofs | | done |
| 7 | AuthConfig, SSO, MCSSO, AuthConfigProofs | ProviderSave | done |
| 8 | PasswordHash, under Throttle | at most so many hashes at a time | done |
| 9 | Upgrade, RequestLog, IngestShape, Delivery, MCDelivery, DeliveryProofs | AtLeastOnce, `Shape` (what the scan should find), the sequence of the latest requests | done |

Compositions: **Throttle** extends PasswordHash, as a reserved attempt is what waits for
a slot. **SSO** extends AuthConfig: callbacks load the provider while saves replace
it. **Delivery** extends Upgrade, RequestLog and IngestShape: the server that serves
posts is the process that has opened the store, and the log is part of its memory.
Ingest takes the janitor's cutoff from Retention as an input, Delivery takes the outcome
of Ingest's scope check as a choice, and SignIn takes the limiter's refusals (Throttle)
as one of the reasons to give up. OrgMembers starts in the state BootstrapAdmin leaves.
Bootstrap takes up an SSO login where SSO has authorized it.

Still worth doing: bounding how many codes may be tried for one account per period
(SignIn with Throttle); an abstract specification of the sign-in (who has a session and
why) that SignIn is shown to implement.

## 3. Modules and the code

One action is one store call, or the part of a handler between two of them, since
that is what other goroutines can observe. A goroutine's local variables are a
record `req[p]` (`post[p]`, `form[f]`) whose field `at` is its program counter;
`Idle` means it serves nothing. `X_Slip` operators in a module are mistakes the code
does *not* make; `PROJECT.json` pairs each with the property that notices it.

### OrgMembers (and OrgOwnership)

| State | Code |
|---|---|
| orgs, role, token | tables organizations, memberships, ingest_tokens |
| req | caller, organization, authority read, target and role of a request below `/org/{id}` |
| held, orphaned | history: what roles the caller had while served; what organizations an instance admin left without owner |

`Route` is `requireOrgManager`; `ReadAuthority` is the second `orgAuthority` call
(server/orgadmin.go:260), whose `canManage` result the handler drops; `ReadExisting`,
`AddMember`, `SetRole`, `CheckRevoke` are the rank checks on rows read outside any
transaction; `SetMembershipRole` and `RemoveMembershipGuarded` are the two
transactions that count owners; `AddMembership` and `RemoveMembership` are the
unguarded statements `/admin/users` uses. OrgOwnership forgets all of this and keeps
the owners: managers take away no last owner, the operator may.

### Bootstrap (and AdminClaim)

| State | Code |
|---|---|
| flag, users, sessions | `settings('bootstrapped')`, tables users and sessions |
| token | `Server.setupToken`, numbered by the start that minted it |
| up, starts, faults | the process, how often it started, how many store calls failed |
| req | goroutines of `/setup` and of the SSO callbacks |

`Start` is `New`, including the ignored error of `CountUsers`; `SetupGate` to
`StartSession` are `handleSetup`; `BootstrapAdmin` is the one transaction that claims
the flag and inserts the administrator; `SSOLookup`, `ssoProvisioningAllowed`,
`ChooseLogin`, `CreateUser` are the callbacks once the provider has vouched for an
identity. AdminClaim says that an instance goes from no administrator to one, once.

### Ingest

| State | Code |
|---|---|
| runs, seen | tables runs (with drift) and endpoints_seen |
| stored | the autoincrement of runs |
| revoked | ingest_tokens.revoked_at |
| post | credential, repository, endpoints, timestamp of one POST |
| cutoff | the cutoff of a pass that has not deleted yet |
| inOrder | history: so far runs were stored in the order of their times |

`ingestCredential` reads the headers; `Accept` is the decoded body and the scope
check; `Stamp` is the `time.Now()` in front of the transaction (store/store.go:268);
`InsertEnvelope` the transaction; `Cutoff` and `PruneRunsBefore` the janitor's two
steps; `Reject`, `PruneFails` and `Crash` what may fail. `Lower` and `Fold` are
`strings.ToLower` and `strings.EqualFold` as functions, so that they may disagree.
`RunsForRepo` and `EndpointsForRepo` are what the repository page reads for a viewer.

### Retention

| State | Code |
|---|---|
| saved | the two settings rows; `Unset` is no row or an empty value |
| rows | dates in tables runs and audit_log |
| form | `handleSettingsPost` between two saves |
| janitor | `janitorPass` between two store calls, with the cutoff it computed |
| during | history: values a setting had since the pass began |

`AddDate` wraps at `Wrap`, as `time.AddDate` does for huge counts of days:
`boundedRetention` is what keeps it from being asked. `Read` may fail and then looks like an
unset row, as the dropped errors at server/admin.go:454 and 470 make it; `during` records
what a setting was and what it was taken for.

### SignIn

| State | Code |
|---|---|
| account | users.totp_secret, totp_enabled |
| used | totp_used, keyed by account and period |
| expires, sessions | sessions.expires_at and which rows exist |
| req | the account row a goroutine read, the period of the code it holds, and since when |
| minted, proved, spent, loggedOut | history |

`LoadUser`, `CheckCode`, `ClaimTOTPCode`, `StartSession` are `handleLogin`;
`LoadSession`, `LoadAccount` are `sessionLoader` (server/middleware.go:126), which reads
the row `handleAccountPost` later decides on; `Begin`, `VerifyConfirm`, `Enable`, `Burn`,
`VerifyDisable`, `Clear` are its three actions. A goroutine in both `Logins` and `Visits` may
serve either post. A code is its period: `VerifyTOTPCounter`
returns that counter and the table records nothing else. `GiveUp` is any refusal, a
failing call or the death of the process: what was done stays done.

### Throttle

| State | Code |
|---|---|
| open, count, resetAt | `failLimiter.m` |
| req | the key and the clock reading of an attempt, then its reservation |
| home, guesses, strays | history: which attempts have a place in the bucket their key has now, how many places it handed out and kept, how many were taken by attempts of an earlier bucket |

`reserve`, `release` and `reset` are the methods; `Arrive` reads the clock before the
mutex is taken, so a reading may be older than the bucket; `checkPassword` is the login
from its place in the bucket to its answer: `Busy` when no hashing slot came free,
`Succeed` and `Strike` the outcomes of the check. `setup` is the hash of `/setup`, which
competes for the slots and asks no limiter.

### PasswordHash

| State | Code |
|---|---|
| hash | where a caller is in `HashPassword` or `VerifyPassword`, or what it returned |
| hashSlots | how many entries the channel `hashSlots` holds |

`acquireHashSlot` and `TimerFires` are the two cases of its `select`; `releaseHashSlot`
is the deferred receive, which takes one entry out of the channel, whoever put it in.

### AuthConfig (and ProviderSave)

| State | Code |
|---|---|
| stored | the settings rows of a provider: client id (with the issuer), secret, scope (allowed organization or mail domain) |
| live | the pointers `s.oauth` and `s.oidc`; `Empty` is nil |
| env, up, starts, faults | the environment's providers, the process, how often it started, how many store calls failed |
| req | the form, and the snapshot `prev` a save will roll back to |
| confirmed, unsure, skewed | history: what was confirmed, and where a crash or an ignored error left its mark |

`Begin` is `handleAuthConfigPost` up to the snapshot, one step since it holds `authMu`
(`Free`); `Write` is `WriteSettings`, `Reload` the first `reload()`, `Restore` and `ReloadAgain` the
rollback (server/admin_auth.go:211-212), whose errors are dropped. `clearProvider` is a
save of the empty form. `Rebuild` and `RebuildFails` are `reloadGitHub` and `reloadOIDC`
with `effectiveAuthConfig`, including the reads whose errors it ignores (`Ignored`);
`Refused` is `validateIssuerURL` and a discovery that fails. `Start` is `New`.
ProviderSave knows neither snapshot nor rollback: a save changes the rows and the live
provider in one step or changes nothing. The mapping reads the rows through `Standing`:
while a save is not confirmed they count as what its rollback would write.

### SSO

| State | Code |
|---|---|
| logins | a login that was begun: by which browser, at which provider, for which client, and whether its code has been redeemed |
| cookie | the state (nonce, verifier) cookie of a browser for a provider |
| listed, linked | the provider's members; users.external_id |
| call | the locals of a callback: the provider it loaded, the login, and (history) whether the person was barred when it began |

`BeginLogin` is `handleGithubLogin` and `handleOIDCLogin`; `Arrive` is a callback up to
the comparison of the state; `Exchange` redeems the code (and judges the OIDC claims),
`Verify` is the membership check with the account that is found or made, `StartSession`
the session. A code is good for the client it was issued to, so a save that replaces the
client ends the logins under way. Cookies that expire after ten minutes only refuse more.
A browser is a person with one account per provider; members only leave. The OIDC account
is found by the `sub` claim alone (server/oauth_oidc.go:274).

### Upgrade

| State | Code |
|---|---|
| runs, seen, staging | tables runs, endpoints_seen and endpoints_seen_new: absent, of the old or of the current form, with the rows of the history |
| proc | the statement a process runs next; `open` when it serves or copies |
| owed, interrupted | history: the rows of the old database; a rebuild was begun and given up |

One action is one statement of `Open`: SQLite commits each on its own, and a backup runs
its own between any two. A statement that fails ends the process. `CloseStore` is the
end of a backup, or of a server that has drained.

### Delivery (with RequestLog, IngestShape and AtLeastOnce)

| State | Code |
|---|---|
| body, job | the envelope of a CI job; whether it is ready to post, waits, or has its answer |
| req | a request in `handleIngest` and the middleware around it, and whether its client still listens |
| stored | rows of table runs per envelope |
| unheard, latest | history: attempts whose answer was lost; the requests logged |
| logs, stopping | `Server.logs`; SIGTERM has come |

`ReadFails` to `Rollback` are `handleIngest`; `accessLog` records the request after its
handler has returned, and the answer leaves then; `recoverPanic` answers for a handler
that panics, which is never recorded. `Shutdown` and `Drained` are the end of `serve`,
where handlers that take longer than five seconds are cut off. The job and its retries
are not part of the repository: it posts again when it heard a server error or nothing.
RequestLog is `ringLog` method by method. IngestShape is `checkIngestShape` token by
token; `Shape` says without a scan what it should find. AtLeastOnce keeps of all this the
copies of an envelope, the attempts that may still make one, and the jobs that were told.

## 4. Runs

| Run | Question | States |
|---|---|---|
| Members | What survives two managers at once, with the operator editing? The last owner is kept, every role written is backed by a rank its caller had, tokens stay in their organization, the owners evolve as OrgOwnership says. | 1.9 M |
| CovertAdd | Does SetRoleNeverAdds survive two managers? No (section 8). | |
| Bootstrap | One administrator, first, never locked out, in the end always there; with a crash, a failing call, two requests and two identities that suggest one login, on a fresh or an older database. | 21 k |
| Ingest | Three runs, two posts at a time, a revocation, the janitor and a crash: no drift is missed and no history is read that no visible run backs; as long as runs are stored in the order of their times, the history covers every kept run and drift is exact. | 600 k |
| LostHistory | Does HistoryCovers survive two posts at once? No (section 8). | |
| Retention | Forms saved during passes, old rows out of range, a failing read or statement, a crash: nothing goes early, everything due goes. | 333 k |
| SignIn | Two logins, two account pages or one of each race with the clock, the janitor and logouts: no replay, no lock-out, sessions end on time. | 3.5 M |
| StaleBegin | Does StripNeedsProof survive two account pages? No (section 8). | |
| Throttle | Two logins, an account page and the setup share two buckets and one hashing slot: the ceiling holds, a busy server is no strike, no slot is lent twice, a block ends and nobody waits for ever. | 174 k |
| SSO | Saves and clears of both providers, issuers that are internal or dead, a crash anywhere, an environment that takes a provider over, while two browsers sign in: live and stored agree, a save is one step or none as ProviderSave says, refused ones leave no trace, the process starts again; nobody is signed in as someone else, and nobody off the list in force gets in. | 1.1 M |
| Delivery | A job posts up to three times to a server that upgrades its database next to a backup, is stopped and killed: no row of the history is lost and the server serves again, an acknowledged run is stored, extra copies come from retries as AtLeastOnce says, bodies are judged by their shape, the log shows the latest requests. | 1.1 M |
| UpgradeCrash | Does a serving server always have the old history? No (section 8). | |

What RankRespected and SetRoleNeverAdds say is promised by comments (server/orgadmin.go:23,
322) and true of requests that run one after the other (theorems RankIsRespected and
SetRoleAddsNobody). Two managers at once break both, because the target's role and the
caller's are read before the transaction that writes (server/orgadmin.go:276, 340; the second
authority read, at 260, drops `canManage`): CovertAdd shows it of SetRoleNeverAdds. What
remains true of any number of goroutines is ChecksHold and GrantsBacked: the rank was really
held at some moment while the request ran.

## 5. Bounds

* **Members, CovertAdd**: one instance admin and two other accounts, so
  that two can be owners and a third may act on them; two goroutines, since every
  transaction concerns one row and a race on the owner count needs two writers. The roles
  are owner, admin and none, the two ranks that manage; CovertAdd adds `member`, and `viewer`
  is treated like it. Members has two organizations, so that a token may be posted to the
  wrong one, and the constraint `Explored`: every combination of memberships as long as
  nobody has made a second organization or a token, and one membership that is not as setup
  left it once somebody has. Tokens and memberships meet only in who may manage, which one
  changed membership shows in every way.
* **Bootstrap**: three logins, two identities that suggest the same one; `MaxStarts = 2`
  is one crash in the middle of anything; `MaxFaults = 1`. With two failing calls and a
  database older than the flag, OneAdmin does fail: New keeps a setup token because
  `CountUsers` failed, and the gate opens because `Bootstrapped` failed. That is why the
  comment at OneAdmin names the bound.
* **Ingest**: one endpoint, two spellings of a repository, three seconds and three stored
  runs: when the last is stored two may have been stored before it, in the order of their
  times or not, with a cutoff in between, which is what the hypothesis of DriftExact and
  CoversInOrder tells apart. LostHistory needs two runs. The constraint `Explored` goes on
  with no post once the last run is stored: it could add nothing, and what the tables hold
  then is also reached with that post refused before.
  `Windows = {1}`; the window that keeps everything only removes behaviour.
* **Retention**: `MaxRetentionDays = 1`, `Wrap = 2` and a legacy value of 3 stand for
  36,500 days, the range of `time.AddDate` and a stored value beyond it. A run of the form, one fault
  and one crash per behaviour.
* **SignIn**: `Skew = 1` is the code's; `Keep` is the least value the argument allows
  (the code keeps records for an hour, 120 periods of 30 seconds, so that `MaxStall` may
  be 118 periods: a request is far shorter). The run
  takes `MaxStall = 0` and `Keep = 2`, the tightest pair, so that records are forgotten at the
  first moment they may be and before the clock stops (`MaxTime = 3`). No time passes between
  the check of a code and its claim in this run: a stall of one period has more states than a
  run can finish, and the theorem CodesUsedOnce covers every stall. Two goroutines serve
  either post, so that two pages may race, each with a row read before the other wrote.
* **Throttle**: `Max = 1` instead of 5, `MaxBuckets = 1` instead of 10,000 and one slot
  instead of two, with three attempts on two keys and the setup: over the limit, over the
  map's limit, a lapse, a stray and a wait for the slot all occur.

* **SSO**: one good and one internal, dead issuer, one secret and one scope, so that a
  form may add, drop or keep either; two saves (they exclude each other, which is the
  point); two starts around one crash. Two logins, of one browser or of two, and one
  callback: what another callback would do to this one is to redeem its code or to create
  the account, which this one meets as a refusal. `MaxFaults = 0`: failing store calls are
  left to the proofs, which hold for any number of them.
* **Delivery**: one job, as those of other rows do not touch it; two requests and three
  posts, so that one handler may run unheard while the next attempt is made; one kill;
  every document of up to five lexemes under limits of two elements and two levels, so
  that each limit is met and passed; a log of two entries, which wraps. UpgradeCrash has
  two kills.

`Tick` stops at `MaxTime`, runs at `MaxRuns`, sessions at `MaxSessions`, starts at `MaxStarts`,
logins at `MaxLogins`, posts of a job at `MaxTries`, kills at `MaxCrashes`, failing calls at `MaxFaults`: when everything
has been used up the model stops although the program would not, hence
`CHECK_DEADLOCK FALSE` in those runs. Members, which has no such bound, is checked for deadlock. Symmetry is used for goroutines and for accounts without `is_admin`,
and in no run with a liveness property.

## 6. Fairness

* **Bootstrap** (`EventuallyAdmin`): weak fairness of `Start`, since the supervisor of
  the deployment restarts the process (`restart: unless-stopped`,
  src/docker-compose.yml:18); strong fairness
  of the operator's own steps, since a person repeats a request that was refused or
  found no slot and in the model competes with other visitors for two goroutines, where
  the program gives each request its own; weak fairness of the steps of requests under way,
  since the Go scheduler runs every goroutine. No fairness for faults or crashes.
* **Retention** (`EventuallyPruned`): weak fairness of `janitorPass`, since `RunJanitor`
  passes at once and then every hour for as long as the process lives (server/admin.go:83).
  Nothing is assumed of forms, and a failing statement is retried by the next pass only.
* **Throttle** (`AttemptsEnd`): weak fairness of the handler's steps and of its timer. None
  of `acquireHashSlot` or `releaseHashSlot`: a hash may take for ever and the channel may
  favour others.
* **Delivery** (`ServesAgain`): weak fairness of the server's `Start` (the supervisor, as
  above) and of the statements of every process that is opening the store. Kills are
  bounded, and a rebuild that was given up is excused, as the server may then fail at
  every start.

## 7. Proofs

TLAPS checks the theorems below for every value of the constants that satisfies the
module's ASSUME: any number of accounts, goroutines, tokens, posts, any window and any
drift.

* **OrgMembers**: TypeCorrect; LastOwnerKept; DefaultOrgOwned; OwnershipImplemented;
  ChecksHold; GrantsBacked. The tables and goroutines are typed together (`RowsOK`), as the
  foreign keys need the routed organization to exist. LastOwnerKept follows from a lemma
  about one guarded row (an owner who may go is not the only one); ownership refinement
  from the same lemma, step by step. ChecksHold is inductive because the history `held`
  only grows; GrantsBacked adds that a step in which a request writes is that request's own.
  TokensConfined, for any interleaving, from `TokenStep` (what a step may do to a token)
  and ChecksHold. RankRespected and SetRoleNeverAdds hold of requests that run one after the
  other (`OneAtATime`): `Fresh` says that what a request has read is still so when it writes,
  because the operator acts only while no request runs. Section 4 says why the hypothesis is
  needed.
* **Bootstrap**, for databases of any age and any number of failing calls and crashes:
  AdminFirst, NeverLockedOut and SessionsMatchAccounts from one invariant `Inv`: the flag is
  set only when there is an administrator, a serving process has a token until there is one,
  and `RequestOK` says what each request knows at its step: a session is opened only for a
  row that bears the identity. Without that last part SessionsMatchAccounts is not
  inductive. OneAdmin and AdminClaimed assume `FewFaults`: on a database older than the flag
  at most one store call fails. `Guarded` shows what that one failure may lead to: a token
  that no gate lets through, or a post that came through the gate without a token to show,
  never both. With two failures both are false (section 5).
* **Ingest**: `IInv` adds to the types that ids are handed out in order, that a stamped
  post has a time, that the scope was checked on the name that will be stored, and
  `Backed`: a row of the history bears the date of a run that is still there. Pruning then
  deletes a run only with the rows it alone backs, which gives HistoryBacked and
  NoMissedDrift for any number of posts. DriftExact and CoversInOrder follow from
  `OrderInv`: as long as runs were stored in the order of their times, `last_seen` is the
  latest sighting (LastSeenInOrder). InOrderOneAtATime shows that posts one at a time are
  stored so, ExactWithoutRetention that drift is exact in any order when nothing is pruned,
  and the run LostHistory that the hypothesis cannot be dropped. CaseIsMerged and
  ExactInOrder assume `FoldingAgrees`, that what EqualFold identifies ToLower maps to one name; the long s
  (U+017F) is an exception, which EqualFold identifies with s and ToLower leaves alone.
* **Retention**: TypeCorrect; NoEarlyPrune.
  `JanitorInv` says that a computed cutoff is entitled: it is no later than the clock less a
  window that was in force during the pass, or stood in for one that could not be read. The
  lemmas `RunWindowRight` and `AuditWindowRight` show that the code's windows are the
  documented ones and `NoWrap` that arithmetic is exact within the bound.
* **SignIn**: NoReplay from `CodeInv`: a spent code is on record or too old to be held
  (`SpentInv`), a record is not older than its period by more than the drift (`UsedInv`), and
  what a goroutine holds is recent (`HeldInv`). The three need each other: the janitor may
  forget a code exactly because `Keep >= 2 * Skew + MaxStall`. NoLockout from `ProvedInv`; SessionsExact is
  inductive as it stands with the types; StripNeedsProof for one account page at a time (`OnePage`)
  from `FreshInv`: the row it read is the row as it is. StaleBegin shows that the hypothesis is needed.
* **Throttle**: TypeCorrect; Ceiling from `CountInv` (places handed out are counted or were
  taken by strays); BlockEnds from `ClockInv` (no reading is ahead of the clock);
  BusyIsNoStrike by counting: the attempts that are at home in a bucket are no more than
  its count; HashesBounded and SlotsExact likewise: as many callers hash as the channel has
  entries, so the deferred receive of `releaseHashSlot` always finds one.
* **AuthConfig and SSO**: from an invariant with three parts. `Alone`: a save
  that has begun is the only one, the process is up and its provider is not the environment's.
  `Knows`: the snapshot of a save is what was stored when it began, which is what was
  confirmed and what is still live. `Consistent`: rows that are not in the hands of a save
  (`Settled`) are confirmed, live and loadable. The rollback needs all three: it restores
  the confirmed rows because nobody wrote in between, and leaves the old provider live
  because a failing rebuild swaps nothing. A step of SSO is a step of AuthConfig or leaves
  it alone (LoginsConfigure), so all of this holds while people sign in. ListHolds then
  needs that a barred callback has loaded a provider with the scope in force, which is
  `Consistent`; OwnBrowser that a cookie names only logins its own browser began.
  SavesAtomic, the refinement of ProviderSave, holds as long as no store call fails
  (`Reliable`), with any crashes and any issuers: `Write`, a refused `Reload`, `Restore` and
  `ReloadAgain` are stutters, an accepted `Reload` is the save and `Crash` the stop that may
  leave unconfirmed rows. A dropped error really breaks it: it makes a provider live that its
  rows do not describe (section 8).
* **Upgrade and Delivery**: OldRowsSurvive and UpgradedInPlace from an invariant that says
  for every step of a rebuild where the old rows are; a process that was overtaken fails at
  its own next statement. AckMeansStored and DuplicatesExplained from `Balanced`: the copies
  of an envelope that are stored, with the handlers that may still store one unheard, are no
  more than the attempts given up, and one for the attempt that is heard. LogIsRecent holds
  for a buffer of any size: `AddHolds` shows that a write keeps the buffer and the history
  of requests in step, at the wrap too, and `RecentReads` that the page reads that history.
  AtLeastOnceDelivery, the refinement of AtLeastOnce, uses the same invariant: `Send` is an
  attempt, `Commit` stores, `accessLog` tells, a refusal, a panic, a kill or the end of a
  drain loses attempts, and the rest stutters. DeliveryUpgrades shows that requests never
  disturb the upgrade: each step of Delivery is one of Upgrade or a stutter.
* **Ingest shape limits**: ShapeAgrees says that `checkIngestShape` computes `Shape` for
  every sequence of tokens and all limits; ShapeExact follows for every request. `Agrees`
  says of the state of the scan after i tokens that it has found what exceeds or ends
  first, or else (`Within`) that its stack holds the tokens that opened the levels still
  open, in order, and its counter the elements so far; `OneOpener` shows that no level has
  two such tokens, so that the top of the stack tells an array's elements from an object's.
  The scan is a fold. Its step-by-step equation (`ScanSteps`), and the claim for every length,
  come from the minimum of a set of counterexamples (`UpTo`, by WFMin on the naturals),
  since the library's induction theorems cannot be instantiated here.
  `BodiesAssumption` only says that bodies are sequences of tokens.

Theorems only, in no run: the type invariants, DefaultOrgOwned, RunsInScope,
LastSeenIsLatest, CaseMerged, SlotsExact, LoginsConfigure, DeliveryUpgrades and, of requests
that run one after the other, RankRespected. SlotsExact may be added to Throttle.cfg: TLC finds
it true there. SetRoleNeverAdds and StripNeedsProof, proved of requests one at a time, are what
the runs CovertAdd and StaleBegin refute of two.

Only model-checked: the four liveness properties (EventuallyAdmin, EventuallyPruned,
AttemptsEnd, ServesAgain), as liveness and fairness (ENABLED) are out of reach of the
proof system.

## 8. Where code and documentation disagree

| Run | What happens |
|---|---|
| CovertAdd | One manager changes a member's role: the membership is looked up (server/orgadmin.go:325, 276) before the transaction of SetMembershipRole, which upserts. Another manager revokes the member in between, and setrole puts the membership back. The comment at 322 says it is never a covert add. |
| LostHistory | A post takes its time (store/store.go:268), a later one commits first, the earlier one then moves `last_seen` back; a cutoff between the two deletes the row although a run that reached the endpoint is kept, and the next build reports it as drift. |
| StaleBegin | Two account pages read the row before enrolment; one confirms and switches the factor on, the other begins again and switches it off, without a code (server/account.go:113, 123). The comment at 109 says this is refused. |
| UpgradeCrash | The rebuild of endpoints_seen runs four statements without a transaction (store/store.go:177-186). After a kill between DROP and RENAME the next start makes an empty table and serves without the history; after one between CREATE and DROP every later start fails on the table that is left over. docs/DEPLOY.md:115 says migrations are idempotent and the database upgrades in place. |

Smaller observations, without a run:

* Two managers at once, or a manager and the operator, and a request may write the row of a
  member who by then outranks its caller: roles are read at server/orgadmin.go:65, 260, 276 and
  340, before the transaction. The comment at 23 says a manager can never do that; RankRespected
  states it, and the theorem about it assumes requests that run one after the other.
* `/admin/users` downgrades or revokes the only owner of an organization: server/admin.go:408
  and 416 do not count owners, although store/orgadmin.go:145 and server/orgadmin.go:25 say an
  organization always has one. LastOwnerKept is about everybody else, and DefaultOrgStaysOwned
  shows that there is no other way.
* A backup that opens an old database while the server does so too may find rows of several
  organizations when it comes to copy: they become rows of organization 0
  (store/store.go:183), or the copy fails on the key.
* The comment at server/middleware.go:73 says that each request is recorded; one whose handler
  panics is not.
* A callback clears the cookies of a login of the same provider that was begun after its own
  (server/oauth_oidc.go:239), which is then refused.
* The enrolment code is recorded only after the factor is on (server/account.go:139-145),
  so a login in between may get in with it once; NoReplay asserts that it does so only
  once. When recording it fails the error is ignored (146).
* The code that disables the factor is not recorded (server/account.go:159), although
  auth/totp.go:61 wants accepted codes burnt; the factor it belonged to is gone.
* One failing `GetSetting` (server/admin.go:454) makes a janitor pass use the environment's
  window although the setting says keep (0), and rows are deleted for good. NoEarlyPrune
  allows this one substitution and no other; server/admin.go:447 promises the setting when set.
* A save of provider settings writes them before it knows that they load. A crash between
  the write and the rollback (server/admin_auth.go:206-211) leaves rows `New` refuses, so the
  process cannot start until they are edited in the database: StartsAgain excuses exactly this
  (`unsure`), and a restore that fails (211).
* Read errors of the allowed organization, the allowed domain and the OIDC client id are dropped
  (server/authconfig.go:62, 85, 88): a provider may go live without its restriction although
  store/settings.go:82 promises no half-applied update, or go away while the save is confirmed.
* `effectiveAuthConfig` reads both providers, so an unreadable setting of one blocks a change of
  the other, although server/authconfig.go:110 says it never can.
* An attempt whose bucket was cleared or replaced gives its place back to the new one
  (server/ratelimit.go:81), which then admits one attempt more: `strays` in Ceiling.
* Pruning above 10,000 buckets drops lapsed buckets only (server/ratelimit.go:62), so it does
  not bound the map within a period.
* docs/AUTH.md describes an idle timeout, a seven-day lifetime, "log out everywhere" and a
  per-token rate limit of ingest; the code has one 12-hour lifetime, `DeleteUserSessions` has no
  caller, and there is no such limit.

## 9. What is not modelled

* **What providers answer**: tokens, claims and memberships are choices; that a token is genuine
  is cryptography. What the server does with them is in SSO and Bootstrap.
* **CSRF, cookie signatures, headers, secret box, random tokens, Argon2id, HMAC**: cryptography
  of one request; the models take their outcome (right, wrong) as a choice.
* **Pages, charts, metrics, webhook**: they read or answer and store nothing. The
  organization-scoped reads of the repository page are in Ingest, since a property is about them.
* **Flags, TLS, packaging, the healthcheck**: decided once at start. The copy a backup makes
  (VACUUM INTO a new file) changes no table. Databases older than the organization column of
  runs are not modelled: `Open` does not look for it.
* **Display-only columns** (`last_used`, `last_seen` of sessions, names, the audit log's text).
