------------------------------ MODULE Throttle ------------------------------
(***************************************************************************)
(* The limiter of login and second-factor attempts (failLimiter).          *)
(*                                                                         *)
(* An attempt reads the clock, reserves a place in its key's bucket under  *)
(* the mutex, has its password or code checked, and then gives the place   *)
(* back (no hashing slot came free), clears the bucket (it was right) or   *)
(* leaves its strike.  Between these steps the other attempts run, and the *)
(* bucket may have been cleared, replaced or pruned.  A login and the      *)
(* first-run setup hash a password for this (PasswordHash).                *)
(***************************************************************************)
EXTENDS PasswordHash

CONSTANTS
    LoginKeys,   \* keys of logins: address and name
    CodeKeys,    \* keys of codes on the account page: user and purpose
    Logins,      \* goroutines that serve POST /login
    Pages,       \* goroutines that serve POST /account
    Setups,      \* goroutines that serve POST /setup
    Max,         \* failures a bucket allows
    Period,      \* ticks a bucket lasts
    MaxBuckets,  \* buckets above which reserve prunes
    MaxTime      \* bound: the clock

ASSUME ThrottleAssumption ==
    /\ {Max, Period, MaxBuckets, MaxTime} \subseteq Nat
    /\ Max > 0
    /\ Logins \intersect Pages = {}
    /\ Callers = Logins \union Setups

VARIABLES
    now,      \* the clock
    open,     \* keys that have a bucket
    count,    \* field count of the bucket, 0 for a key without one
    resetAt,  \* field resetAt of the bucket, 0 for a key without one
    req,      \* req[p]: the local variables of a request goroutine
    home,     \* history: attempts with a place in the bucket their key has now
    guesses,  \* history: places the bucket handed out and that were not given back
    strays    \* history: places the bucket lost to attempts of an earlier one

buckets == <<open, count, resetAt>>
history == <<home, guesses, strays>>
limiter == <<now, buckets, req, history>>
vars    == <<limiter, hashing>>

-----------------------------------------------------------------------------

Keys       == LoginKeys \union CodeKeys
Goroutines == Logins \union Pages
Zero       == [k \in Keys |-> 0]
Request    == [at : {"idle"}] \union [at : {"arrived", "reserved"}, key : Keys, time : 0..MaxTime]
Idle       == [at |-> "idle"]
Attempt(step, k, t) == [at |-> step, key |-> k, time |-> t]

Goto(p, local) == req' = [req EXCEPT ![p] = local]

\* A column without the entries of the keys in K.
Without(column, K) == [k \in Keys |-> IF k \in K THEN 0 ELSE column[k]]

Init ==
    /\ now = 0
    /\ open = {} /\ count = Zero /\ resetAt = Zero
    /\ req = [p \in Goroutines |-> Idle]
    /\ home = {} /\ guesses = Zero /\ strays = Zero
    /\ HashInit

-----------------------------------------------------------------------------
(* failLimiter.                                                            *)

\* now.After(b.resetAt), with the caller's idea of now.
Lapsed(k, t) == k \in open /\ t > resetAt[k]

\* pruneLocked runs when the map has grown too large.
pruneLocked(t) == IF Cardinality(open) > MaxBuckets THEN {k \in open : Lapsed(k, t)} ELSE {}

Fresh_Refused(k, t) == k \notin open \/ Lapsed(k, t) \/ count[k] = Max   \* a slip: a new
                                                    \* period for a bucket that is full

\* The key has no bucket, or one whose period is over: reserve opens a new one.
Fresh(k, t) == k \notin open \/ Lapsed(k, t)

Full_OneMore(n) == n > Max     \* a slip: off by one
Full(n) == n >= Max

\* A place in the bucket of the attempt's key, or a refusal.
reserve(p) ==
    LET k    == req[p].key
        t    == req[p].time
        gone == pruneLocked(t) \union (IF Fresh(k, t) THEN {k} ELSE {})
        stay == {q \in home : req[q].key \notin gone}
    IN /\ req[p].at = "arrived"
       /\ open' = (open \ gone) \union {k}
       /\ resetAt' = IF Fresh(k, t) THEN [Without(resetAt, gone) EXCEPT ![k] = t + Period]
                                    ELSE Without(resetAt, gone)
       /\ strays' = Without(strays, gone)
       /\ \/ /\ Full(Without(count, gone)[k])
             /\ count' = Without(count, gone) /\ guesses' = Without(guesses, gone)
             /\ home' = stay
             /\ Goto(p, Idle)
          \/ /\ ~Full(Without(count, gone)[k])
             /\ count' = [Without(count, gone) EXCEPT ![k] = @ + 1]
             /\ guesses' = [Without(guesses, gone) EXCEPT ![k] = @ + 1]
             /\ home' = stay \union {p}
             /\ Goto(p, Attempt("reserved", k, 0))
       /\ UNCHANGED now

release_Nothing(p) ==     \* a slip: the place is not given back
    /\ UNCHANGED <<open, count, resetAt, strays>>
    /\ guesses' = IF p \in home THEN [guesses EXCEPT ![req[p].key] = @ - 1] ELSE guesses

\* One place is given back to the bucket the key has now.
release(p) ==
    LET k == req[p].key
    IN /\ count' = IF count[k] > 0 THEN [count EXCEPT ![k] = @ - 1] ELSE count
       /\ guesses' = IF p \in home THEN [guesses EXCEPT ![k] = @ - 1] ELSE guesses
       /\ strays' = IF p \notin home /\ count[k] > 0 THEN [strays EXCEPT ![k] = @ + 1]
                                                    ELSE strays
       /\ UNCHANGED <<open, resetAt>>

reset(k) ==
    /\ open' = open \ {k}
    /\ count' = Without(count, {k}) /\ resetAt' = Without(resetAt, {k})
    /\ guesses' = Without(guesses, {k}) /\ strays' = Without(strays, {k})

-----------------------------------------------------------------------------
(* An attempt.                                                             *)

\* The handler works out the key and reads the clock.
Arrive(p, k) ==
    /\ req[p].at = "idle"
    /\ Goto(p, Attempt("arrived", k, now))
    /\ UNCHANGED <<now, buckets, history>>

\* Every hashing slot is taken until the wait is over: the password was not checked.
Busy(p) ==
    /\ req[p].at = "reserved"
    /\ release(p)
    /\ home' = home \ {p}
    /\ Goto(p, Idle)
    /\ UNCHANGED now

\* Password and code were right.
Succeed(p) ==
    /\ req[p].at = "reserved"
    /\ reset(req[p].key)
    /\ home' = {q \in home : req[q].key # req[p].key}
    /\ Goto(p, Idle)
    /\ UNCHANGED now

\* They were wrong, or a later call failed: the place stays taken.
Strike(p) ==
    /\ req[p].at = "reserved"
    /\ home' = home \ {p}
    /\ Goto(p, Idle)
    /\ UNCHANGED <<now, buckets, guesses, strays>>

Tick ==
    /\ now < MaxTime
    /\ now' = now + 1
    /\ UNCHANGED <<buckets, req, history>>

\* The login handler from its place in the bucket on: an error before the hash, or
\* a stored hash that cannot be read, leaves the strike.
checkPassword(p) ==
    \/ req[p].at = "reserved" /\ CallHash(p) /\ UNCHANGED limiter
    \/ Strike(p) /\ hash[p] = "none" /\ UNCHANGED hashing
    \/ Busy(p) /\ Returned(p, "busy")
    \/ (Succeed(p) \/ Strike(p)) /\ Returned(p, "hashed")

login(p) ==
    \/ (\E k \in LoginKeys : Arrive(p, k)) /\ UNCHANGED hashing
    \/ reserve(p) /\ UNCHANGED hashing
    \/ checkPassword(p)

verifyCodeThrottled(p) ==
    /\ (\E k \in CodeKeys : Arrive(p, k)) \/ reserve(p) \/ Succeed(p) \/ Strike(p)
    /\ UNCHANGED hashing

\* handleSetup hashes the password of the first admin; no limiter is asked.
setup(p) ==
    /\ CallHash(p) \/ Returned(p, "busy") \/ Returned(p, "hashed")
    /\ UNCHANGED limiter

Next ==
    \/ \E p \in Logins : login(p)
    \/ \E p \in Pages : verifyCodeThrottled(p)
    \/ \E p \in Setups : setup(p)
    \/ \E p \in Callers : HashStep(p) /\ UNCHANGED limiter
    \/ Tick /\ UNCHANGED hashing

\* A handler runs on and its timer fires; a hash under way may take for ever, and
\* nobody has to arrive.
Fairness ==
    \A p \in Logins :
        /\ WF_vars(checkPassword(p))
        /\ WF_vars(TimerFires(p) /\ UNCHANGED limiter)

Spec == Init /\ [][Next]_vars /\ Fairness

-----------------------------------------------------------------------------
(* Properties.                                                             *)

\* A key without a bucket has nothing on record.
BucketsOK ==
    /\ now \in 0..MaxTime
    /\ open \subseteq Keys
    /\ count \in [Keys -> 0..Max] /\ resetAt \in [Keys -> 0..(MaxTime + Period)]
    /\ req \in [Goroutines -> Request]
    /\ home \subseteq {p \in Goroutines : req[p].at = "reserved"}
    /\ guesses \in [Keys -> Int] /\ strays \in [Keys -> Nat]
    /\ \A k \in Keys \ open :
          count[k] = 0 /\ resetAt[k] = 0 /\ guesses[k] = 0 /\ strays[k] = 0

\* Types of the limiter and of the slots, and nothing is kept of a bucket that is gone.
TypeOK == BucketsOK /\ HashTypeOK

\* "so an attacker got N guesses per window instead of max" (server/ratelimit.go:55):
\* however many attempts run in parallel, a bucket admits no more of them to a check
\* than Max, and one for each place that an attempt of an earlier bucket, cleared or
\* replaced since, has given back to the wrong one.
Ceiling == \A k \in Keys : guesses[k] <= Max + strays[k]

\* "give the reserved attempt back, so it is not a strike" (server/auth_handlers.go:180):
\* a bucket counts nothing but attempts it admitted and that were checked, whatever was
\* given back, cleared or replaced in between, so nobody is refused for a busy server.
BusyIsNoStrike == \A k \in Keys : count[k] <= guesses[k]

\* A refusal never prolongs the refusals: while a key is blocked the end of its period
\* stays where it is, however late an attempt with an older clock reading reserves.
Blocked(k) == k \in open /\ now <= resetAt[k] /\ Full(count[k])
BlockEnds == [][\A k \in Keys : Blocked(k) /\ k \in open' /\ now' <= resetAt'[k]
                                 => resetAt'[k] = resetAt[k]]_vars

\* An attempt that took a place is answered unless its own hash never ends: with all
\* slots held for ever it comes back after the wait (password.go:49), as busy.
AttemptsEnd ==
    \A p \in Logins : (req[p].at = "reserved") ~> (req[p].at = "idle" \/ hash[p] = "hashing")
=============================================================================
