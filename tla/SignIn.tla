------------------------------- MODULE SignIn -------------------------------
(***************************************************************************)
(* One local account: its second factor, the codes it has used, and its    *)
(* sessions.                                                               *)
(*                                                                         *)
(* A login reads the account row, checks the code against what it read and *)
(* claims the code with a statement of its own before it opens a session.  *)
(* POST /account acts on the row the session middleware read earlier.  Any *)
(* other request runs between two of these steps.  Time counts in TOTP     *)
(* periods; a code is its secret and its period.  Password and limiter may *)
(* refuse at any step and change nothing here.                             *)
(***************************************************************************)
EXTENDS Naturals, Integers, Sequences

CONSTANTS
    Secrets,      \* TOTP secrets NewTOTPSecret may produce
    Logins,       \* goroutines that may serve POST /login
    Visits,       \* goroutines that may serve POST /account, the same ones or others
    Skew,         \* periods of clock drift a code is accepted for
    Keep,         \* periods the record of a used code is kept (an hour)
    SessionTTL,   \* periods a session lives
    MaxStall,     \* bound: periods a login takes from checking a code to claiming it
    MaxSessions,  \* bound: sessions ever opened
    MaxTime       \* bound: the clock

None == "none"    \* an empty totp_secret

ASSUME SignInAssumption ==
    /\ {Skew, Keep, SessionTTL, MaxStall, MaxSessions, MaxTime} \subseteq Nat
    /\ Keep >= 2 * Skew + MaxStall
    /\ None \notin Secrets

VARIABLES
    now,        \* the current period
    account,    \* the columns totp_secret and totp_enabled of the account
    used,       \* its rows of table totp_used
    expires,    \* expires[i]: the column expires_at of session i
    sessions,   \* the sessions whose row exists
    req,        \* req[p]: the local variables of a request goroutine
    minted,     \* secrets NewTOTPSecret has produced
    proved,     \* history: secrets whose code was shown to enrol
    spent,      \* history: periods whose code was ever recorded as used
    loggedOut   \* history: sessions that were logged out

store   == <<account, used, expires, sessions>>
history == <<minted, proved, spent, loggedOut>>
vars    == <<now, store, req, history>>

-----------------------------------------------------------------------------

Periods == 0..(MaxTime + Skew)
Account == [secret : Secrets \union {None}, enabled : BOOLEAN]
Off     == [secret |-> None, enabled |-> FALSE]
Steps   == {"idle", "user", "claim", "start",
            "session", "loaded", "enable", "burn", "clear"}
Request == [at : Steps, user : Account, period : Periods, since : 0..MaxTime]
Goroutines == Logins \union Visits

\* A goroutine goes on to a step with the local variables it still needs.
Local(step, user, c, t) == [at |-> step, user |-> user, period |-> c, since |-> t]
Idle == Local("idle", Off, 0, 0)
Goto(p, local) == req' = [req EXCEPT ![p] = local]
Answer(p) == Goto(p, Idle)

\* VerifyTOTPCounter accepts the codes of a few periods around the current one.
Window == {c \in Periods : now - Skew <= c /\ c <= now + Skew}

Recorded(c) == \E r \in used : r.period = c

\* INSERT OR IGNORE INTO totp_used: the key is the account and the period.
Record(c) ==
    /\ used' = IF Recorded(c) THEN used ELSE used \union {[period |-> c, at |-> now]}
    /\ spent' = spent \union {c}

\* GetSessionByToken returns a row that has not expired.
Accepted(i) == i \in sessions /\ expires[i] > now

Init ==
    /\ now = 0
    /\ \/ account = Off /\ minted = {}
       \/ \E s \in Secrets : account = [secret |-> s, enabled |-> TRUE] /\ minted = {s}
    /\ proved = minted
    /\ used = {} /\ spent = {}
    /\ expires = <<>> /\ sessions = {} /\ loggedOut = {}
    /\ req = [p \in Goroutines |-> Idle]

-----------------------------------------------------------------------------
(* POST /login.                                                            *)

\* GetUserByLogin, and a right password.
LoadUser(p) ==
    /\ req[p].at = "idle"
    /\ Goto(p, Local("user", account, 0, 0))
    /\ UNCHANGED <<now, store, history>>

\* The factor is on and the code is right.
CheckCode(p, c) ==
    /\ req[p].at = "user" /\ req[p].user.enabled
    /\ Goto(p, Local("claim", Off, c, now))
    /\ UNCHANGED <<now, store, history>>

\* ClaimTOTPCode: a code that is already recorded is a replay.
ClaimTOTPCode(p) ==
    /\ req[p].at = "claim"
    /\ IF Recorded(req[p].period) THEN Answer(p) ELSE Goto(p, Local("start", Off, 0, 0))
    /\ Record(req[p].period)
    /\ UNCHANGED <<now, account, expires, sessions, minted, proved, loggedOut>>

StartSession(p) ==
    /\ \/ req[p].at = "start"
       \/ req[p].at = "user" /\ ~req[p].user.enabled
    /\ Len(expires) < MaxSessions
    /\ expires' = Append(expires, now + SessionTTL)
    /\ sessions' = sessions \union {Len(expires) + 1}
    /\ Answer(p)
    /\ UNCHANGED <<now, account, used, history>>

-----------------------------------------------------------------------------
(* POST /account.                                                          *)

\* sessionLoader: the session's row, then the account it belongs to.
LoadSession(p, i) ==
    /\ req[p].at = "idle"
    /\ Accepted(i)
    /\ Goto(p, Local("session", Off, 0, 0))
    /\ UNCHANGED <<now, store, history>>

LoadAccount(p) ==
    /\ req[p].at = "session"
    /\ Goto(p, Local("loaded", account, 0, 0))
    /\ UNCHANGED <<now, store, history>>

\* action=begin: a fresh secret, not enabled yet.
Begin(p) ==
    /\ req[p].at = "loaded" /\ ~req[p].user.enabled
    /\ \E s \in Secrets \ minted :
          account' = [secret |-> s, enabled |-> FALSE] /\ minted' = minted \union {s}
    /\ Answer(p)
    /\ UNCHANGED <<now, used, expires, sessions, proved, spent, loggedOut>>

\* action=confirm: the code of the pending secret is right, the factor is switched
\* on with the secret read before, and the code is recorded.
VerifyConfirm(p, c) ==
    /\ req[p].at = "loaded" /\ req[p].user.secret # None /\ ~req[p].user.enabled
    /\ Goto(p, Local("enable", req[p].user, c, 0))
    /\ proved' = proved \union {req[p].user.secret}
    /\ UNCHANGED <<now, store, minted, spent, loggedOut>>

Enable_Current(p) ==     \* a slip: SET totp_enabled = 1, whatever the secret is by now
    /\ req[p].at = "enable"
    /\ account' = [account EXCEPT !.enabled = TRUE]
    /\ Goto(p, Local("burn", Off, req[p].period, 0))
    /\ UNCHANGED <<now, used, expires, sessions, history>>

\* SetUserTOTP writes both columns, the secret from the row read before.
Enable(p) ==
    /\ req[p].at = "enable"
    /\ account' = [secret |-> req[p].user.secret, enabled |-> TRUE]
    /\ Goto(p, Local("burn", Off, req[p].period, 0))
    /\ UNCHANGED <<now, used, expires, sessions, history>>

Burn(p) ==
    /\ req[p].at = "burn"
    /\ Record(req[p].period)
    /\ Answer(p)
    /\ UNCHANGED <<now, account, expires, sessions, minted, proved, loggedOut>>

\* action=disable: a right code, which is not recorded, then the row is cleared.
VerifyDisable(p) ==
    /\ req[p].at = "loaded" /\ req[p].user.enabled
    /\ Goto(p, Local("clear", req[p].user, 0, 0))
    /\ UNCHANGED <<now, store, history>>

Clear(p) ==
    /\ req[p].at = "clear"
    /\ account' = Off
    /\ Answer(p)
    /\ UNCHANGED <<now, used, expires, sessions, history>>

-----------------------------------------------------------------------------
(* Logout, the janitor, failures and time.                                 *)

\* handleLogout deletes the row the cookie names.
DeleteSession(i) ==
    /\ sessions' = sessions \ {i}
    /\ loggedOut' = loggedOut \union {i}
    /\ UNCHANGED <<now, account, used, expires, req, minted, proved, spent>>

PruneExpiredSessions_Early ==     \* a slip: off by one
    /\ sessions' = {i \in sessions : expires[i] > now + 1}
    /\ UNCHANGED <<now, account, used, expires, req, history>>

PruneExpiredSessions ==
    /\ sessions' = {i \in sessions : expires[i] > now}
    /\ UNCHANGED <<now, account, used, expires, req, history>>

PruneTOTPUsed_Skew ==     \* a slip: half the window
    /\ used' = {r \in used : r.at >= now - Skew}
    /\ UNCHANGED <<now, account, expires, sessions, req, history>>

PruneTOTPUsed ==
    /\ used' = {r \in used : r.at >= now - Keep}
    /\ UNCHANGED <<now, account, expires, sessions, req, history>>

\* A refusal (password, limiter, wrong code, wrong action), a failing store call or
\* the death of the process ends a request; what it has done stays done.
GiveUp(p) ==
    /\ req[p].at # "idle"
    /\ Answer(p)
    /\ UNCHANGED <<now, store, history>>

\* Time passes, but no login claims a code later than MaxStall after it checked it.
Tick ==
    /\ now < MaxTime
    /\ \A p \in Goroutines : req[p].at = "claim" => now < req[p].since + MaxStall
    /\ now' = now + 1
    /\ UNCHANGED <<store, req, history>>

-----------------------------------------------------------------------------

handleLogin(p) ==
    \/ LoadUser(p)
    \/ \E c \in Window : CheckCode(p, c)
    \/ ClaimTOTPCode(p)
    \/ StartSession(p)

handleAccountPost(p) ==
    \/ \E i \in sessions : LoadSession(p, i)
    \/ LoadAccount(p)
    \/ Begin(p)
    \/ \E c \in Window : VerifyConfirm(p, c)
    \/ Enable(p) \/ Burn(p)
    \/ VerifyDisable(p) \/ Clear(p)

Next ==
    \/ \E p \in Logins : handleLogin(p)
    \/ \E p \in Visits : handleAccountPost(p)
    \/ \E p \in Goroutines : GiveUp(p)
    \/ \E i \in DOMAIN expires : DeleteSession(i)
    \/ PruneExpiredSessions \/ PruneTOTPUsed
    \/ Tick

Spec == Init /\ [][Next]_vars

-----------------------------------------------------------------------------
(* Properties.                                                             *)

\* Types, and the key of totp_used: one row for a period.
TypeOK ==
    /\ \A r1, r2 \in used : r1.period = r2.period => r1 = r2
    /\ now \in 0..MaxTime
    /\ account \in Account
    /\ used \subseteq [period : Periods, at : 0..MaxTime]
    /\ expires \in Seq(Nat)
    /\ sessions \subseteq DOMAIN expires /\ loggedOut \subseteq DOMAIN expires
    /\ req \in [Goroutines -> Request]
    /\ minted \subseteq Secrets /\ proved \subseteq Secrets
    /\ spent \subseteq Periods

\* No login gets in with a code that was recorded before, by a login or by an
\* enrolment, although the janitor forgets the records after Keep: ClaimTOTPCode
\* decides with the statement that records, and a record outlives the last moment
\* at which a goroutine may still hold a code of that period.
NoReplay ==
    [][\A p \in Logins : req[p].at = "claim" /\ req'[p].at = "start"
                           => req[p].period \notin spent]_vars

\* "overwriting the secret here would silently disable the existing factor with no
\* proof of possession", "a stolen session alone must not be able to strip the
\* second factor" (server/account.go:110, 157): a factor that is on is changed only
\* by a request that has been shown a code of that very secret.
StripNeedsProof ==
    [][account.enabled /\ account' # account =>
         \E p \in Visits : /\ req[p].at = "clear"
                           /\ req[p].user.secret = account.secret]_vars

\* Nobody is locked out by a secret he never had on his phone: the secret of a
\* factor that is on was confirmed with one of its codes, although another page may
\* begin again, confirm or disable between a page's reading the row, checking the
\* code and writing (server/account.go:113, 139, 162).
NoLockout == account.enabled => account.secret \in proved

\* A session is accepted until it expires or is logged out, and no longer: the
\* loader's comparison and the janitor's agree to the second.
SessionsExact ==
    \A i \in DOMAIN expires :
        Accepted(i) <=> expires[i] > now /\ i \notin loggedOut
=============================================================================
