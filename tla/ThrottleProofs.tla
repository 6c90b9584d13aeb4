--------------------------- MODULE ThrottleProofs ---------------------------
(***************************************************************************)
(* The ceiling holds for any number of attempts, keys and buckets, with    *)
(* any period and whatever clock reading an attempt carries.               *)
(***************************************************************************)
EXTENDS Throttle, FiniteSetTheorems, TLAPS

\* What a bucket handed out is what it counts and what strays took from it.
CountInv == \A k \in Keys : guesses[k] <= count[k] + strays[k]

\* A goroutine's clock reading is not ahead of the clock.
ClockInv == \A p \in Goroutines : req[p].at = "arrived" => req[p].time <= now

\* An attempt has its place in a bucket that exists.
HomeInv == \A p \in home : req[p].key \in open

IInv == BucketsOK /\ CountInv /\ ClockInv /\ HomeInv

-----------------------------------------------------------------------------
(* The building blocks.                                                    *)

LEMMA Bounds ==
    /\ Max \in Nat /\ Period \in Nat /\ MaxBuckets \in Nat /\ MaxTime \in Nat
    /\ 0 \in 0..Max /\ 0 \in 0..MaxTime /\ 0 \in 0..(MaxTime + Period) /\ Max > 0
BY ThrottleAssumption

LEMMA IdleType == Idle \in Request /\ Idle.at = "idle"
BY DEF Idle, Request

LEMMA AttemptType ==
    ASSUME NEW s \in {"arrived", "reserved"}, NEW k \in Keys, NEW t \in 0..MaxTime
    PROVE  /\ Attempt(s, k, t) \in Request /\ Attempt(s, k, t).at = s
           /\ Attempt(s, k, t).key = k /\ Attempt(s, k, t).time = t
BY DEF Attempt, Request

LEMMA BusyType ==
    ASSUME BucketsOK, NEW p \in Goroutines, req[p].at # "idle"
    PROVE  req[p].key \in Keys /\ req[p].time \in 0..MaxTime
<1>1. req[p] \in Request
  BY DEF BucketsOK
<1> QED
  BY <1>1 DEF Request

LEMMA GotoType ==
    ASSUME BucketsOK, NEW p \in Goroutines, NEW l \in Request, Goto(p, l)
    PROVE  /\ req' \in [Goroutines -> Request]
           /\ req'[p] = l
           /\ \A q \in Goroutines : q # p => req'[q] = req[q]
BY DEF BucketsOK, Goto

LEMMA AnswerType ==
    ASSUME BucketsOK, NEW p \in Goroutines, Goto(p, Idle)
    PROVE  /\ req' \in [Goroutines -> Request]
           /\ req'[p].at = "idle"
           /\ \A q \in Goroutines : q # p => req'[q] = req[q]
BY IdleType, GotoType

\* No key is left out of a column; the ones in K read 0.
LEMMA WithoutType ==
    ASSUME NEW S, 0 \in S, NEW column \in [Keys -> S], NEW K
    PROVE  /\ Without(column, K) \in [Keys -> S]
           /\ \A j \in Keys : Without(column, K)[j] = IF j \in K THEN 0 ELSE column[j]
BY DEF Without

-----------------------------------------------------------------------------
(* What the steps do to the buckets.                                       *)

\* reserve empties some buckets and takes a place, if there is one, in the bucket of
\* its own key.
LEMMA ReserveEffect ==
    ASSUME IInv, NEW p \in Goroutines, reserve(p)
    PROVE  /\ IInv'
           /\ \A j \in Keys : (j \in open /\ now <= resetAt[j] => resetAt'[j] = resetAt[j])
<1> DEFINE k == req[p].key
           t == req[p].time
           gone == pruneLocked(t) \union (IF Fresh(k, t) THEN {k} ELSE {})
           stay == {q \in home : req[q].key \notin gone}
<1>1. k \in Keys /\ t \in 0..MaxTime /\ req[p].at = "arrived" /\ p \notin home
  BY BusyType DEF reserve, IInv, BucketsOK
<1>2. gone \subseteq Keys /\ (k \notin open => k \in gone) /\ (Fresh(k, t) <=> k \in gone)
  <2>1. pruneLocked(t) \subseteq open /\ \A j \in pruneLocked(t) : Lapsed(j, t)
    BY DEF pruneLocked
  <2> QED
    BY <1>1, <2>1 DEF IInv, BucketsOK, Fresh
<1>3. \A j \in gone : j \in open => t > resetAt[j]
  BY DEF pruneLocked, Fresh, Lapsed
<1>4. /\ open' = (open \ gone) \union {k}
      /\ resetAt' = IF Fresh(k, t) THEN [Without(resetAt, gone) EXCEPT ![k] = t + Period]
                                   ELSE Without(resetAt, gone)
      /\ strays' = Without(strays, gone) /\ now' = now
  BY DEF reserve
<1>5. \/ /\ Full(Without(count, gone)[k])
         /\ count' = Without(count, gone) /\ guesses' = Without(guesses, gone)
         /\ home' = stay
         /\ Goto(p, Idle)
      \/ /\ ~Full(Without(count, gone)[k])
         /\ count' = [Without(count, gone) EXCEPT ![k] = @ + 1]
         /\ guesses' = [Without(guesses, gone) EXCEPT ![k] = @ + 1]
         /\ home' = stay \union {p}
         /\ Goto(p, Attempt("reserved", k, 0))
  BY DEF reserve
<1>6. stay \subseteq home
  OBVIOUS
<1> HIDE DEF k, t, gone, stay
<1>7. /\ Without(count, gone) \in [Keys -> 0..Max] /\ Without(resetAt, gone) \in [Keys -> 0..(MaxTime + Period)]
      /\ Without(guesses, gone) \in [Keys -> Int] /\ Without(strays, gone) \in [Keys -> Nat]
      /\ \A j \in Keys :
            /\ Without(count, gone)[j]   = IF j \in gone THEN 0 ELSE count[j]
            /\ Without(resetAt, gone)[j] = IF j \in gone THEN 0 ELSE resetAt[j]
            /\ Without(guesses, gone)[j] = IF j \in gone THEN 0 ELSE guesses[j]
            /\ Without(strays, gone)[j]  = IF j \in gone THEN 0 ELSE strays[j]
  BY Bounds, WithoutType DEF IInv, BucketsOK
<1>8. resetAt' \in [Keys -> 0..(MaxTime + Period)]
  <2>1. t + Period \in 0..(MaxTime + Period)
    BY <1>1, Bounds
  <2> QED
    BY <1>1, <1>4, <1>7, <2>1
<1>9. /\ req' \in [Goroutines -> Request]
      /\ \A q \in Goroutines : q # p => req'[q] = req[q]
      /\ req'[p].at \in {"idle", "reserved"}
      /\ p \in home' => req'[p].at = "reserved" /\ req'[p].key = k
  <2>1. CASE Goto(p, Idle) /\ home' = stay
    BY <1>1, <1>6, <2>1, AnswerType DEF IInv
  <2>2. CASE Goto(p, Attempt("reserved", k, 0))
    BY <1>1, <2>2, Bounds, AttemptType, GotoType DEF IInv
  <2> QED
    BY <1>5, <2>1, <2>2
<1>10. \E n \in {0, 1} :
         /\ Without(count, gone)[k] + n <= Max
         /\ \A j \in Keys :
              /\ count'[j] = (IF j \in gone THEN 0 ELSE count[j]) + (IF j = k THEN n ELSE 0)
              /\ guesses'[j] = (IF j \in gone THEN 0 ELSE guesses[j]) + (IF j = k THEN n ELSE 0)
         /\ count' \in [Keys -> Int] /\ guesses' \in [Keys -> Int]
  <2>1. \A j \in Keys : Without(count, gone)[j] \in 0..Max /\ Without(guesses, gone)[j] \in Int
    BY <1>7
  <2>2. CASE count' = Without(count, gone) /\ guesses' = Without(guesses, gone)
    <3>1. /\ Without(count, gone)[k] + 0 <= Max
          /\ \A j \in Keys :
              /\ count'[j] = (IF j \in gone THEN 0 ELSE count[j]) + (IF j = k THEN 0 ELSE 0)
              /\ guesses'[j] = (IF j \in gone THEN 0 ELSE guesses[j]) + (IF j = k THEN 0 ELSE 0)
          /\ count' \in [Keys -> Int] /\ guesses' \in [Keys -> Int]
      BY <1>1, <1>7, <2>1, <2>2, Bounds DEF IInv, BucketsOK
    <3> QED
      BY <3>1
  <2>3. CASE /\ ~Full(Without(count, gone)[k])
             /\ count' = [Without(count, gone) EXCEPT ![k] = @ + 1]
             /\ guesses' = [Without(guesses, gone) EXCEPT ![k] = @ + 1]
    <3>1. Without(count, gone)[k] + 1 <= Max
      BY <1>1, <2>1, <2>3, Bounds DEF Full
    <3>2. /\ \A j \in Keys :
              /\ count'[j] = (IF j \in gone THEN 0 ELSE count[j]) + (IF j = k THEN 1 ELSE 0)
              /\ guesses'[j] = (IF j \in gone THEN 0 ELSE guesses[j]) + (IF j = k THEN 1 ELSE 0)
          /\ count' \in [Keys -> Int] /\ guesses' \in [Keys -> Int]
      BY <1>1, <1>7, <2>1, <2>3 DEF IInv, BucketsOK
    <3> QED
      BY <3>1, <3>2
  <2> QED
    BY <1>5, <2>2, <2>3
<1>11. PICK n \in {0, 1} :
         /\ Without(count, gone)[k] + n <= Max
         /\ \A j \in Keys :
              /\ count'[j] = (IF j \in gone THEN 0 ELSE count[j]) + (IF j = k THEN n ELSE 0)
              /\ guesses'[j] = (IF j \in gone THEN 0 ELSE guesses[j]) + (IF j = k THEN n ELSE 0)
         /\ count' \in [Keys -> Int] /\ guesses' \in [Keys -> Int]
  BY <1>10
<1>12. \A j \in Keys : count[j] \in 0..Max /\ guesses[j] \in Int /\ strays[j] \in Nat
  BY DEF IInv, BucketsOK
<1>13. count' \in [Keys -> 0..Max]
  <2>1. ASSUME NEW j \in Keys PROVE count'[j] \in 0..Max
    BY <1>1, <1>7, <1>11, <1>12, <2>1, Bounds
  <2> QED
    BY <1>11, <2>1
<1>14. home' \subseteq {q \in Goroutines : req'[q].at = "reserved"}
  <2>1. home' \subseteq home \union {p} /\ p \in Goroutines
    BY <1>5, <1>6
  <2> QED
    BY <1>1, <1>9, <2>1 DEF IInv, BucketsOK
<1>15. \A j \in Keys \ open' :
          count'[j] = 0 /\ resetAt'[j] = 0 /\ guesses'[j] = 0 /\ strays'[j] = 0
  BY <1>1, <1>2, <1>4, <1>7, <1>11, <1>12 DEF IInv, BucketsOK
<1>16. BucketsOK'
  BY <1>1, <1>4, <1>7, <1>8, <1>9, <1>11, <1>13, <1>14, <1>15 DEF IInv, BucketsOK
<1>17. CountInv'
  <2>1. ASSUME NEW j \in Keys PROVE guesses'[j] <= count'[j] + strays'[j]
    BY <1>4, <1>7, <1>11, <1>12, <2>1 DEF IInv, CountInv
  <2> QED
    BY <2>1 DEF CountInv
<1>18. ClockInv'
  BY <1>4, <1>9 DEF IInv, ClockInv
<1>19. ASSUME NEW j \in Keys, j \in open, now <= resetAt[j] PROVE resetAt'[j] = resetAt[j]
  <2>1. t <= now /\ resetAt[j] \in Nat /\ now \in Nat /\ t \in Nat
    BY <1>1, Bounds DEF IInv, BucketsOK, ClockInv, t
  <2>2. j \notin gone
    BY <1>3, <1>19, <2>1
  <2> QED
    BY <1>1, <1>2, <1>4, <1>7, <2>2
<1>20. HomeInv'
  <2>1. \A q \in stay : q \in home /\ q # p /\ req[q].key \notin gone
    BY <1>1 DEF stay
  <2>2. \A q \in stay : q \in Goroutines /\ req'[q] = req[q] /\ req[q].key \in open'
    BY <1>4, <1>9, <2>1 DEF IInv, BucketsOK, HomeInv
  <2>3. home' \subseteq stay \union {p}
    BY <1>5
  <2> QED
    BY <1>4, <1>9, <2>2, <2>3 DEF HomeInv
<1> QED
  BY <1>16, <1>17, <1>18, <1>19, <1>20 DEF IInv

\* A step that touches the bucket of one key, keeps its counters in line and answers.
LEMMA OneBucket ==
    ASSUME IInv, NEW k \in Keys, now' = now,
           open' \subseteq Keys, count' \in [Keys -> 0..Max],
           resetAt' \in [Keys -> 0..(MaxTime + Period)],
           guesses' \in [Keys -> Int], strays' \in [Keys -> Nat],
           \A j \in Keys : j # k => /\ count'[j] = count[j] /\ guesses'[j] = guesses[j]
                                    /\ strays'[j] = strays[j] /\ resetAt'[j] = resetAt[j]
                                    /\ (j \in open' <=> j \in open),
           guesses'[k] <= count'[k] + strays'[k],
           k \notin open' => /\ count'[k] = 0 /\ resetAt'[k] = 0
                             /\ guesses'[k] = 0 /\ strays'[k] = 0,
           NEW p \in Goroutines, Goto(p, Idle),
           home' \subseteq home \ {p}, \A q \in home' : req[q].key \in open'
    PROVE  IInv'
<1>1. /\ req' \in [Goroutines -> Request] /\ req'[p].at = "idle"
      /\ \A q \in Goroutines : q # p => req'[q] = req[q]
  BY AnswerType DEF IInv
<1>2. home' \subseteq {q \in Goroutines : req'[q].at = "reserved"}
  BY <1>1 DEF IInv, BucketsOK
<1>3. \A j \in Keys \ open' :
         count'[j] = 0 /\ resetAt'[j] = 0 /\ guesses'[j] = 0 /\ strays'[j] = 0
  BY DEF IInv, BucketsOK
<1>4. BucketsOK'
  BY <1>1, <1>2, <1>3 DEF IInv, BucketsOK
<1>5. CountInv'
  BY DEF IInv, CountInv
<1>6. ClockInv'
  BY <1>1 DEF IInv, ClockInv
<1>7. HomeInv'
  BY <1>1, <1>2 DEF IInv, BucketsOK, HomeInv
<1> QED
  BY <1>4, <1>5, <1>6, <1>7 DEF IInv

LEMMA KeyFacts ==
    ASSUME IInv, NEW k \in Keys
    PROVE  /\ count[k] \in 0..Max /\ count[k] \in Nat /\ guesses[k] \in Int
           /\ strays[k] \in Nat /\ guesses[k] <= count[k] + strays[k]
           /\ k \notin open => /\ count[k] = 0 /\ resetAt[k] = 0
                               /\ guesses[k] = 0 /\ strays[k] = 0
BY Bounds DEF IInv, BucketsOK, CountInv

LEMMA BusyEffect ==
    ASSUME IInv, NEW p \in Goroutines, Busy(p)
    PROVE  IInv' /\ resetAt' = resetAt
<1> DEFINE k == req[p].key
<1>1. k \in Keys
  BY BusyType DEF IInv, Busy
<1>2. /\ count' = IF count[k] > 0 THEN [count EXCEPT ![k] = @ - 1] ELSE count
      /\ guesses' = IF p \in home THEN [guesses EXCEPT ![k] = @ - 1] ELSE guesses
      /\ strays' = IF p \notin home /\ count[k] > 0 THEN [strays EXCEPT ![k] = @ + 1]
                                                    ELSE strays
      /\ open' = open /\ resetAt' = resetAt /\ now' = now
      /\ home' = home \ {p} /\ Goto(p, Idle)
  BY DEF Busy, release
<1>3. p \in home => k \in open
  BY DEF IInv, HomeInv
<1> HIDE DEF k
<1>4. count' \in [Keys -> 0..Max] /\ (count[k] > 0 => count'[k] = count[k] - 1)
  <2>1. CASE count[k] > 0
    <3>1. count[k] - 1 \in 0..Max
      BY <1>1, <2>1, Bounds, KeyFacts
    <3> QED
      BY <1>1, <1>2, <2>1, <3>1 DEF IInv, BucketsOK
  <2>2. CASE ~(count[k] > 0)
    BY <1>2, <2>2 DEF IInv, BucketsOK
  <2> QED
    BY <2>1, <2>2
<1>5. /\ guesses' \in [Keys -> Int]
      /\ guesses'[k] = IF p \in home THEN guesses[k] - 1 ELSE guesses[k]
  BY <1>1, <1>2 DEF IInv, BucketsOK
<1>6. /\ strays' \in [Keys -> Nat]
      /\ strays'[k] = IF p \notin home /\ count[k] > 0 THEN strays[k] + 1 ELSE strays[k]
  BY <1>1, <1>2 DEF IInv, BucketsOK
<1>7. ~(count[k] > 0) => count'[k] = count[k]
  BY <1>2
<1>8. guesses'[k] <= count'[k] + strays'[k]
  BY <1>1, <1>4, <1>5, <1>6, <1>7, KeyFacts
<1>9. \A j \in Keys : j # k => /\ count'[j] = count[j] /\ guesses'[j] = guesses[j]
                               /\ strays'[j] = strays[j]
  BY <1>1, <1>2 DEF IInv, BucketsOK
<1>10. k \notin open => count'[k] = 0 /\ resetAt[k] = 0 /\ guesses'[k] = 0 /\ strays'[k] = 0
  BY <1>1, <1>3, <1>5, <1>6, <1>7, KeyFacts
<1>11. \A q \in home' : req[q].key \in open'
  BY <1>2 DEF IInv, HomeInv
<1>12. open' \subseteq Keys /\ resetAt' \in [Keys -> 0..(MaxTime + Period)]
  BY <1>2 DEF IInv, BucketsOK
<1> QED
  BY <1>1, <1>2, <1>4, <1>5, <1>6, <1>8, <1>9, <1>10, <1>11, <1>12, OneBucket

LEMMA SucceedEffect ==
    ASSUME IInv, NEW p \in Goroutines, Succeed(p)
    PROVE  IInv' /\ \A j \in Keys : j \in open' => resetAt'[j] = resetAt[j]
<1> DEFINE k == req[p].key
<1>1. k \in Keys
  BY BusyType DEF IInv, Succeed
<1>2. /\ open' = open \ {k} /\ now' = now
      /\ count' = Without(count, {k}) /\ resetAt' = Without(resetAt, {k})
      /\ guesses' = Without(guesses, {k}) /\ strays' = Without(strays, {k})
      /\ home' = {q \in home : req[q].key # k} /\ Goto(p, Idle)
  BY DEF Succeed, reset
<1>3. p \notin home' /\ \A q \in home' : req[q].key \in open'
  BY <1>2 DEF IInv, HomeInv
<1> HIDE DEF k
<1>4. /\ count' \in [Keys -> 0..Max] /\ resetAt' \in [Keys -> 0..(MaxTime + Period)]
      /\ guesses' \in [Keys -> Int] /\ strays' \in [Keys -> Nat]
      /\ \A j \in Keys :
            /\ count'[j]   = IF j \in {k} THEN 0 ELSE count[j]
            /\ resetAt'[j] = IF j \in {k} THEN 0 ELSE resetAt[j]
            /\ guesses'[j] = IF j \in {k} THEN 0 ELSE guesses[j]
            /\ strays'[j]  = IF j \in {k} THEN 0 ELSE strays[j]
  <2>1. /\ count \in [Keys -> 0..Max] /\ resetAt \in [Keys -> 0..(MaxTime + Period)]
        /\ guesses \in [Keys -> Int] /\ strays \in [Keys -> Nat]
        /\ 0 \in Int /\ 0 \in Nat
    BY DEF IInv, BucketsOK
  <2>2. /\ count' \in [Keys -> 0..Max]
        /\ \A j \in Keys : count'[j] = IF j \in {k} THEN 0 ELSE count[j]
    BY <1>2, <2>1, Bounds DEF Without
  <2>3. /\ resetAt' \in [Keys -> 0..(MaxTime + Period)]
        /\ \A j \in Keys : resetAt'[j] = IF j \in {k} THEN 0 ELSE resetAt[j]
    BY <1>2, <2>1, Bounds DEF Without
  <2>4. /\ guesses' \in [Keys -> Int]
        /\ \A j \in Keys : guesses'[j] = IF j \in {k} THEN 0 ELSE guesses[j]
    BY <1>2, <2>1 DEF Without
  <2>5. /\ strays' \in [Keys -> Nat]
        /\ \A j \in Keys : strays'[j] = IF j \in {k} THEN 0 ELSE strays[j]
    BY <1>2, <2>1 DEF Without
  <2> QED
    BY <2>2, <2>3, <2>4, <2>5
<1>5. home' \subseteq home \ {p} /\ open' \subseteq Keys
  BY <1>2, <1>3 DEF IInv, BucketsOK
<1>6. count'[k] = 0 /\ resetAt'[k] = 0 /\ guesses'[k] = 0 /\ strays'[k] = 0
  BY <1>1, <1>4
<1>7. \A j \in Keys : j # k => /\ count'[j] = count[j] /\ guesses'[j] = guesses[j]
                               /\ strays'[j] = strays[j] /\ resetAt'[j] = resetAt[j]
                               /\ (j \in open' <=> j \in open)
  BY <1>2, <1>4
<1>8. guesses'[k] <= count'[k] + strays'[k]
  BY <1>6
<1>9. IInv'
  BY <1>1, <1>2, <1>3, <1>4, <1>5, <1>6, <1>7, <1>8, OneBucket
<1> QED
  BY <1>2, <1>4, <1>9

LEMMA StrikeEffect ==
    ASSUME IInv, NEW p \in Goroutines, Strike(p)
    PROVE  IInv' /\ resetAt' = resetAt
<1>1. req[p].key \in Keys
  BY BusyType DEF IInv, Strike
<1>2. /\ UNCHANGED <<now, open, count, resetAt, guesses, strays>>
      /\ home' = home \ {p} /\ Goto(p, Idle)
  BY DEF Strike, buckets
<1>3. IInv'
  BY <1>1, <1>2, KeyFacts, OneBucket DEF IInv, BucketsOK, HomeInv
<1> QED
  BY <1>2, <1>3

LEMMA ArriveEffect ==
    ASSUME IInv, NEW p \in Goroutines, NEW k \in Keys, Arrive(p, k)
    PROVE  IInv' /\ resetAt' = resetAt
<1>1. /\ UNCHANGED <<now, open, count, resetAt, home, guesses, strays>>
      /\ p \notin home
  BY DEF Arrive, buckets, history, IInv, BucketsOK
<1>2. /\ req' \in [Goroutines -> Request]
      /\ req'[p].at = "arrived" /\ req'[p].time = now
      /\ \A q \in Goroutines : q # p => req'[q] = req[q]
  BY AttemptType, GotoType DEF Arrive, IInv, BucketsOK
<1>3. BucketsOK'
  BY <1>1, <1>2 DEF IInv, BucketsOK
<1>4. now <= now
  BY Bounds DEF IInv, BucketsOK
<1> QED
  BY <1>1, <1>2, <1>3, <1>4 DEF IInv, BucketsOK, CountInv, ClockInv, HomeInv

LEMMA TickEffect ==
    ASSUME IInv, Tick
    PROVE  IInv' /\ resetAt' = resetAt
<1> USE DEF Tick, buckets, history
<1>1. now \in Nat /\ now' \in 0..MaxTime /\ now' = now + 1
  BY Bounds DEF IInv, BucketsOK
<1>2. BucketsOK'
  BY <1>1 DEF IInv, BucketsOK
<1>3. ASSUME NEW p \in Goroutines, req'[p].at = "arrived" PROVE req'[p].time <= now'
  <2>1. req[p].time \in Nat /\ req[p].time <= now
    BY <1>3, Bounds, BusyType DEF IInv, ClockInv
  <2> QED
    BY <1>1, <2>1
<1> QED
  BY <1>2, <1>3 DEF IInv, CountInv, ClockInv, HomeInv

-----------------------------------------------------------------------------
(* What a bucket counts was admitted.                                      *)

Held(k) == {q \in home : req[q].key = k}

\* The places that are under way were handed out too, so giving one back never leaves
\* a bucket with a higher count than it has admitted.
StrikeInv ==
    /\ IsFiniteSet(home)
    /\ \A k \in Keys : count[k] <= guesses[k] /\ Cardinality(Held(k)) <= guesses[k]

LEMMA HeldCard ==
    ASSUME IsFiniteSet(home), NEW k
    PROVE  /\ IsFiniteSet(Held(k)) /\ Cardinality(Held(k)) \in Nat
           /\ \A T \in SUBSET Held(k) : IsFiniteSet(T) /\ Cardinality(T) <= Cardinality(Held(k))
           /\ \A q \in Held(k) : Cardinality(Held(k) \ {q}) = Cardinality(Held(k)) - 1
           /\ \A q : q \notin Held(k) =>
                 Cardinality(Held(k) \union {q}) = Cardinality(Held(k)) + 1
<1>1. IsFiniteSet(Held(k))
  BY FS_Subset DEF Held
<1> QED
  BY <1>1, FS_CardinalityType, FS_Subset, FS_RemoveElement, FS_AddElement

\* A step that admits nobody and leaves a key's guesses and a lower count.
LEMMA HeldShrinks ==
    ASSUME IInv, StrikeInv, NEW k \in Keys, home' \subseteq home,
           \A q \in home' : req'[q] = req[q],
           count'[k] <= count[k], guesses'[k] = guesses[k], count'[k] \in Int
    PROVE  count'[k] <= guesses'[k] /\ Cardinality(Held(k)') <= guesses'[k]
<1>1. Held(k)' \subseteq Held(k)
  BY DEF Held
<1>2. Cardinality(Held(k)') <= Cardinality(Held(k)) /\ Cardinality(Held(k)') \in Nat
  BY <1>1, HeldCard, FS_CardinalityType DEF StrikeInv
<1> QED
  BY <1>2, HeldCard, KeyFacts DEF StrikeInv

LEMMA StrikeInvBusy ==
    ASSUME IInv, StrikeInv, NEW p \in Goroutines, Busy(p)
    PROVE  StrikeInv'
<1>1. PICK k \in Keys : k = req[p].key
  BY BusyType DEF IInv, Busy
<1>2. /\ count' = IF count[k] > 0 THEN [count EXCEPT ![k] = @ - 1] ELSE count
      /\ guesses' = IF p \in home THEN [guesses EXCEPT ![k] = @ - 1] ELSE guesses
      /\ home' = home \ {p} /\ \A q \in home' : req'[q] = req[q]
  BY <1>1, AnswerType DEF Busy, release, IInv, BucketsOK
<1>3. p \in home => p \in Held(k)
  BY <1>1 DEF Held
<1>4. p \in home => Held(k)' = Held(k) \ {p}
  BY <1>2 DEF Held
<1>5. /\ count[k] \in Nat /\ guesses[k] \in Int /\ count[k] <= guesses[k]
      /\ Cardinality(Held(k)) <= guesses[k]
  BY <1>1, KeyFacts DEF StrikeInv
<1>6. count'[k] = (IF count[k] > 0 THEN count[k] - 1 ELSE count[k])
  BY <1>1, <1>2 DEF IInv, BucketsOK
<1>7. guesses'[k] = IF p \in home THEN guesses[k] - 1 ELSE guesses[k]
  BY <1>1, <1>2 DEF IInv, BucketsOK
<1>8. count'[k] <= guesses'[k] /\ Cardinality(Held(k)') <= guesses'[k]
  <2>1. CASE p \in home
    <3>1. /\ Cardinality(Held(k)') = Cardinality(Held(k)) - 1
          /\ Cardinality(Held(k)') \in Nat /\ Cardinality(Held(k)) \in Nat
      BY <1>3, <1>4, <2>1, HeldCard, FS_CardinalityType DEF StrikeInv
    <3> QED
      BY <1>5, <1>6, <1>7, <2>1, <3>1
  <2>2. CASE p \notin home
    BY <1>1, <1>2, <1>5, <1>6, <1>7, <2>2, HeldShrinks
  <2> QED
    BY <2>1, <2>2
<1>9. ASSUME NEW j \in Keys, j # k
      PROVE  count'[j] <= guesses'[j] /\ Cardinality(Held(j)') <= guesses'[j]
  <2>1. count'[j] = count[j] /\ guesses'[j] = guesses[j] /\ count[j] \in Nat
    BY <1>1, <1>2, <1>9, KeyFacts DEF IInv, BucketsOK
  <2> QED
    BY <1>2, <2>1, HeldShrinks
<1>10. IsFiniteSet(home')
  BY <1>2, FS_Subset DEF StrikeInv
<1> QED
  BY <1>8, <1>9, <1>10 DEF StrikeInv

LEMMA StrikeInvSucceed ==
    ASSUME IInv, StrikeInv, NEW p \in Goroutines, Succeed(p)
    PROVE  StrikeInv'
<1>1. PICK k \in Keys : k = req[p].key
  BY BusyType DEF IInv, Succeed
<1>2. /\ count' = Without(count, {k}) /\ guesses' = Without(guesses, {k})
      /\ home' = {q \in home : req[q].key # k}
  BY <1>1 DEF Succeed, reset
<1>3. \A q \in home' : req'[q] = req[q]
  BY <1>2, AnswerType DEF Succeed, IInv, BucketsOK
<1>4. \A j \in Keys : /\ count'[j] = (IF j \in {k} THEN 0 ELSE count[j])
                       /\ guesses'[j] = (IF j \in {k} THEN 0 ELSE guesses[j])
  BY <1>2 DEF Without
<1>5. Held(k)' = {} /\ Cardinality(Held(k)') = 0
  <2>1. Held(k)' = {}
    BY <1>2, <1>3 DEF Held
  <2> QED
    BY <2>1, FS_EmptySet
<1>6. ASSUME NEW j \in Keys PROVE count'[j] <= guesses'[j] /\ Cardinality(Held(j)') <= guesses'[j]
  <2>1. CASE j = k
    BY <1>4, <1>5, <2>1
  <2>2. CASE j # k
    <3>1. count'[j] = count[j] /\ guesses'[j] = guesses[j] /\ count[j] \in Nat
      BY <1>4, <2>2, KeyFacts
    <3>2. home' \subseteq home
      BY <1>2
    <3> QED
      BY <1>3, <3>1, <3>2, HeldShrinks
  <2> QED
    BY <2>1, <2>2
<1>7. IsFiniteSet(home')
  BY <1>2, FS_Subset DEF StrikeInv
<1> QED
  BY <1>6, <1>7 DEF StrikeInv

LEMMA StrikeInvSame ==
    ASSUME IInv, StrikeInv, NEW p \in Goroutines, Strike(p) \/ \E k \in Keys : Arrive(p, k)
    PROVE  StrikeInv'
<1>1. /\ count' = count /\ guesses' = guesses /\ home' \subseteq home
      /\ \A q \in home' : req'[q] = req[q]
  <2>1. CASE Strike(p)
    BY <2>1, AnswerType DEF Strike, buckets, IInv, BucketsOK
  <2>2. ASSUME NEW k \in Keys, Arrive(p, k)
        PROVE  /\ count' = count /\ guesses' = guesses /\ home' \subseteq home
               /\ \A q \in home' : req'[q] = req[q]
    BY <2>2 DEF Arrive, Goto, buckets, history, IInv, BucketsOK
  <2> QED
    BY <2>1, <2>2
<1>2. ASSUME NEW j \in Keys PROVE count'[j] <= guesses'[j] /\ Cardinality(Held(j)') <= guesses'[j]
  BY <1>1, KeyFacts, HeldShrinks
<1>3. IsFiniteSet(home')
  BY <1>1, FS_Subset DEF StrikeInv
<1> QED
  BY <1>2, <1>3 DEF StrikeInv

LEMMA StrikeInvReserve ==
    ASSUME IInv, StrikeInv, NEW p \in Goroutines, reserve(p)
    PROVE  StrikeInv'
<1> DEFINE k == req[p].key
           t == req[p].time
           gone == pruneLocked(t) \union (IF Fresh(k, t) THEN {k} ELSE {})
           stay == {q \in home : req[q].key \notin gone}
<1>1. k \in Keys /\ t \in 0..MaxTime /\ p \notin home
  BY BusyType DEF reserve, IInv, BucketsOK
<1>2. \/ /\ count' = Without(count, gone) /\ guesses' = Without(guesses, gone)
         /\ home' = stay
         /\ Goto(p, Idle)
      \/ /\ count' = [Without(count, gone) EXCEPT ![k] = @ + 1]
         /\ guesses' = [Without(guesses, gone) EXCEPT ![k] = @ + 1]
         /\ home' = stay \union {p}
         /\ Goto(p, Attempt("reserved", k, 0))
  BY DEF reserve
<1>3. \A q \in stay : q \in home /\ q # p /\ req'[q] = req[q] /\ req[q].key \notin gone
  BY <1>1, <1>2 DEF stay, Goto, IInv, BucketsOK
<1>4. stay \subseteq home /\ p \notin stay
  BY <1>1 DEF stay
<1>5. \A q \in home : req[q].key \notin gone => q \in stay
  BY DEF stay
<1> HIDE DEF k, t, gone, stay
<1>6. IsFiniteSet(stay) /\ IsFiniteSet(stay \union {p}) /\ IsFiniteSet(home')
  <2>1. IsFiniteSet(stay) /\ IsFiniteSet(stay \union {p})
    BY <1>4, FS_Subset, FS_AddElement DEF StrikeInv
  <2> QED
    BY <1>2, <2>1
<1>7. ASSUME NEW j \in Keys
      PROVE  LET kept == {q \in stay : req[q].key = j}
             IN /\ IsFiniteSet(kept) /\ Cardinality(kept) \in Nat
                /\ j \in gone => Cardinality(kept) = 0
                /\ j \notin gone => Cardinality(kept) <= Cardinality(Held(j))
  <2> DEFINE kept == {q \in stay : req[q].key = j}
  <2>1. kept \subseteq Held(j) /\ (j \in gone => kept = {})
    BY <1>3, <1>4 DEF Held
  <2> QED
    BY <2>1, HeldCard, FS_CardinalityType, FS_EmptySet DEF StrikeInv
<1>8. ASSUME NEW j \in Keys
      PROVE  /\ Without(count, gone)[j] = IF j \in gone THEN 0 ELSE count[j]
             /\ Without(guesses, gone)[j] = IF j \in gone THEN 0 ELSE guesses[j]
             /\ count[j] \in Nat /\ guesses[j] \in Int /\ count[j] <= guesses[j]
             /\ Cardinality(Held(j)) <= guesses[j] /\ Cardinality(Held(j)) \in Nat
  BY KeyFacts, HeldCard DEF Without, StrikeInv
<1>9. ASSUME NEW j \in Keys PROVE count'[j] <= guesses'[j] /\ Cardinality(Held(j)') <= guesses'[j]
  <2> DEFINE kept == {q \in stay : req[q].key = j}
  <2>1. /\ IsFiniteSet(kept) /\ Cardinality(kept) \in Nat
        /\ j \in gone => Cardinality(kept) = 0
        /\ j \notin gone => Cardinality(kept) <= Cardinality(Held(j))
    BY <1>7
  <2>2. CASE /\ count' = Without(count, gone) /\ guesses' = Without(guesses, gone)
             /\ home' = stay
    <3>1. Held(j)' = kept
      BY <1>3, <2>2 DEF Held
    <3> HIDE DEF kept
    <3> QED
      BY <1>8, <2>1, <2>2, <3>1
  <2>3. CASE /\ count' = [Without(count, gone) EXCEPT ![k] = @ + 1]
             /\ guesses' = [Without(guesses, gone) EXCEPT ![k] = @ + 1]
             /\ home' = stay \union {p}
             /\ Goto(p, Attempt("reserved", k, 0))
    <3>1. req'[p].key = k
      <4>1. Attempt("reserved", k, 0) \in Request /\ Attempt("reserved", k, 0).key = k
        BY <1>1, Bounds, AttemptType
      <4> QED
        BY <2>3, <4>1, GotoType DEF IInv
    <3>2. p \notin kept
      BY <1>4
    <3>3. Held(j)' = kept \union (IF j = k THEN {p} ELSE {})
      BY <1>3, <2>3, <3>1 DEF Held
    <3>4. /\ count'[j] = Without(count, gone)[j] + (IF j = k THEN 1 ELSE 0)
          /\ guesses'[j] = Without(guesses, gone)[j] + (IF j = k THEN 1 ELSE 0)
      <4>1. Without(count, gone) \in [Keys -> Int] /\ Without(guesses, gone) \in [Keys -> Int]
        BY <1>8 DEF Without
      <4> QED
        BY <1>1, <2>3, <4>1
    <3> HIDE DEF kept
    <3>5. Cardinality(kept \union {p}) = Cardinality(kept) + 1
      BY <2>1, <3>2, FS_AddElement
    <3>6. Cardinality(Held(j)') = Cardinality(kept) + (IF j = k THEN 1 ELSE 0)
      <4>1. CASE j = k
        BY <3>3, <3>5, <4>1
      <4>2. CASE j # k
        <5>1. Held(j)' = kept
          BY <3>3, <4>2
        <5> QED
          BY <2>1, <4>2, <5>1
      <4> QED
        BY <4>1, <4>2
    <3> QED
      BY <1>8, <2>1, <3>4, <3>6
  <2> QED
    BY <1>2, <2>2, <2>3
<1> QED
  BY <1>6, <1>9 DEF StrikeInv

-----------------------------------------------------------------------------
(* The slots.                                                              *)

Hashing == {q \in Callers : hash[q] = "hashing"}

\* The channel holds one entry for every hash under way.
SlotInv ==
    /\ HashTypeOK
    /\ IsFiniteSet(Hashing) /\ Cardinality(Hashing) = hashSlots

LEMMA SlotInvMove ==
    ASSUME SlotInv, NEW p \in Callers, NEW from, NEW to \in HashSteps, Move(p, from, to)
    PROVE  /\ hash' \in [Callers -> HashSteps]
           /\ Hashing' = (Hashing \ {p}) \union (IF to = "hashing" THEN {p} ELSE {})
           /\ p \in Hashing <=> from = "hashing"
BY DEF Move, SlotInv, HashTypeOK, Hashing

LEMMA SlotInvStep ==
    ASSUME SlotInv, NEW p \in Callers,
           \/ CallHash(p) \/ HashStep(p) \/ Returned(p, "busy") \/ Returned(p, "hashed")
    PROVE  SlotInv'
<1>1. maxConcurrentHashes \in Nat /\ hashSlots \in Nat /\ hashSlots <= maxConcurrentHashes
  BY PasswordHashAssumption DEF SlotInv, HashTypeOK
<1>2. CASE acquireHashSlot(p)
  <2>1. hash' \in [Callers -> HashSteps] /\ Hashing' = Hashing \union {p} /\ p \notin Hashing
    BY <1>2, SlotInvMove DEF acquireHashSlot, HashSteps
  <2>2. IsFiniteSet(Hashing') /\ Cardinality(Hashing') = hashSlots + 1
    BY <2>1, FS_AddElement DEF SlotInv
  <2> QED
    BY <1>1, <1>2, <2>1, <2>2 DEF acquireHashSlot, SlotInv, HashTypeOK
<1>3. CASE releaseHashSlot(p)
  <2>1. hash' \in [Callers -> HashSteps] /\ Hashing' = Hashing \ {p} /\ p \in Hashing
    BY <1>3, SlotInvMove DEF releaseHashSlot, HashSteps
  <2>2. IsFiniteSet(Hashing') /\ Cardinality(Hashing') = hashSlots - 1
    BY <2>1, FS_RemoveElement DEF SlotInv
  <2> QED
    BY <1>1, <1>3, <2>1, <2>2 DEF releaseHashSlot, SlotInv, HashTypeOK
<1>4. CASE CallHash(p) \/ TimerFires(p) \/ Returned(p, "busy") \/ Returned(p, "hashed")
  <2>1. hash' \in [Callers -> HashSteps] /\ Hashing' = Hashing /\ hashSlots' = hashSlots
    <3>1. CASE CallHash(p)
      BY <3>1, SlotInvMove DEF CallHash, HashSteps
    <3>2. CASE TimerFires(p)
      BY <3>2, SlotInvMove DEF TimerFires, HashSteps
    <3>3. CASE Returned(p, "busy")
      BY <3>3, SlotInvMove DEF Returned, HashSteps
    <3>4. CASE Returned(p, "hashed")
      BY <3>4, SlotInvMove DEF Returned, HashSteps
    <3> QED
      BY <1>4, <3>1, <3>2, <3>3, <3>4
  <2> QED
    BY <2>1 DEF SlotInv, HashTypeOK
<1> QED
  BY <1>2, <1>3, <1>4 DEF HashStep

-----------------------------------------------------------------------------
(* The theorems.                                                           *)

\* What a step is: one of the limiter, one of the slots, or both at once.
LEMMA Steps ==
    ASSUME [Next]_vars
    PROVE  /\ \/ UNCHANGED limiter
              \/ Tick
              \/ \E p \in Goroutines : \/ \E k \in Keys : Arrive(p, k)
                                      \/ reserve(p) \/ Busy(p) \/ Succeed(p) \/ Strike(p)
           /\ \/ UNCHANGED hashing
              \/ \E p \in Callers : \/ CallHash(p) \/ HashStep(p)
                                   \/ Returned(p, "busy") \/ Returned(p, "hashed")
<1>1. ASSUME NEW p \in Logins, login(p)
      PROVE  /\ \/ UNCHANGED limiter
                \/ (\E k \in Keys : Arrive(p, k)) \/ reserve(p) \/ Busy(p) \/ Succeed(p) \/ Strike(p)
             /\ \/ UNCHANGED hashing
                \/ CallHash(p) \/ Returned(p, "busy") \/ Returned(p, "hashed")
  BY <1>1 DEF login, checkPassword, Keys
<1>2. ASSUME NEW p \in Pages, verifyCodeThrottled(p)
      PROVE  /\ (\E k \in Keys : Arrive(p, k)) \/ reserve(p) \/ Succeed(p) \/ Strike(p)
             /\ UNCHANGED hashing
  BY <1>2 DEF verifyCodeThrottled, Keys
<1>3. ASSUME NEW p \in Setups, setup(p)
      PROVE  /\ UNCHANGED limiter
             /\ CallHash(p) \/ Returned(p, "busy") \/ Returned(p, "hashed")
  BY <1>3 DEF setup
<1>4. Logins \subseteq Goroutines /\ Pages \subseteq Goroutines /\ Logins \subseteq Callers /\ Setups \subseteq Callers
  BY ThrottleAssumption DEF Goroutines
<1>5. CASE \E p \in Logins : login(p)
  BY <1>1, <1>4, <1>5
<1>6. CASE \E p \in Pages : verifyCodeThrottled(p)
  BY <1>2, <1>4, <1>6
<1>7. CASE \E p \in Setups : setup(p)
  BY <1>3, <1>4, <1>7
<1>8. CASE \E p \in Callers : HashStep(p) /\ UNCHANGED limiter
  BY <1>8
<1>9. CASE Tick /\ UNCHANGED hashing
  BY <1>9
<1>10. CASE UNCHANGED vars
  BY <1>10 DEF vars
<1> QED
  BY <1>5, <1>6, <1>7, <1>8, <1>9, <1>10 DEF Next

\* Every step keeps the invariant, and moves the end of no period that is running.
LEMMA StepEffect ==
    ASSUME IInv, [Next]_vars
    PROVE  /\ IInv'
           /\ \A j \in Keys : /\ j \in open /\ now <= resetAt[j] /\ j \in open'
                              => resetAt'[j] = resetAt[j]
<1>1. ASSUME NEW p \in Goroutines, NEW k \in Keys, Arrive(p, k) PROVE IInv' /\ resetAt' = resetAt
  BY <1>1, ArriveEffect
<1>2. ASSUME NEW p \in Goroutines, reserve(p) \/ Busy(p) \/ Succeed(p) \/ Strike(p)
      PROVE  /\ IInv'
             /\ \A j \in Keys : /\ j \in open /\ now <= resetAt[j] /\ j \in open'
                                => resetAt'[j] = resetAt[j]
  BY <1>2, ReserveEffect, BusyEffect, SucceedEffect, StrikeEffect
<1>3. CASE Tick
  BY <1>3, TickEffect
<1>4. CASE UNCHANGED limiter
  BY <1>4 DEF limiter, buckets, history, IInv, BucketsOK, CountInv, ClockInv, HomeInv
<1> QED
  BY <1>1, <1>2, <1>3, <1>4, Steps

LEMMA StrikeStep ==
    ASSUME IInv, StrikeInv, [Next]_vars
    PROVE  StrikeInv'
<1>1. CASE Tick \/ UNCHANGED limiter
  BY <1>1 DEF Tick, limiter, buckets, history, StrikeInv, Held
<1> QED
  BY <1>1, Steps, StrikeInvBusy, StrikeInvSucceed, StrikeInvSame, StrikeInvReserve

LEMMA SlotStep ==
    ASSUME SlotInv, [Next]_vars
    PROVE  SlotInv'
<1>1. CASE UNCHANGED hashing
  BY <1>1 DEF hashing, SlotInv, HashTypeOK, Hashing
<1> QED
  BY <1>1, Steps, SlotInvStep

LEMMA InitInv == Init => IInv /\ StrikeInv /\ SlotInv
<1> SUFFICES ASSUME Init PROVE IInv /\ StrikeInv /\ SlotInv
  OBVIOUS
<1>1. req \in [Goroutines -> Request] /\ \A p \in Goroutines : req[p].at = "idle"
  BY IdleType DEF Init
<1>2. \A k \in Keys : Zero[k] = 0
  BY DEF Zero
<1>3. Zero \in [Keys -> 0..Max] /\ Zero \in [Keys -> 0..(MaxTime + Period)] /\ Zero \in [Keys -> Nat]
      /\ Zero \in [Keys -> Int]
  BY Bounds DEF Zero
<1>4. IInv
  BY <1>1, <1>2, <1>3, Bounds DEF Init, IInv, BucketsOK, CountInv, ClockInv, HomeInv
<1>5. StrikeInv
  <2>1. \A k \in Keys : Held(k) = {}
    BY DEF Init, Held
  <2> QED
    BY <1>2, <2>1, FS_EmptySet DEF Init, StrikeInv
<1>6. SlotInv
  <2>1. Hashing = {} /\ hash \in [Callers -> HashSteps] /\ hashSlots = 0
    BY DEF Init, HashInit, Hashing, HashSteps
  <2> QED
    BY <2>1, FS_EmptySet, PasswordHashAssumption DEF SlotInv, HashTypeOK
<1> QED
  BY <1>4, <1>5, <1>6

\* The invariant of the whole module is inductive.
LEMMA Inductive ==
    IInv /\ StrikeInv /\ SlotInv /\ [Next]_vars => IInv' /\ StrikeInv' /\ SlotInv'
BY StepEffect, StrikeStep, SlotStep

\* Counts stay between 0 and Max, a key without a bucket has nothing on record,
\* whatever is given back, cleared, pruned or replaced meanwhile, and the channel of
\* the slots is never overfull.
THEOREM TypeCorrect == Spec => []TypeOK
<1>1. IInv /\ SlotInv => TypeOK
  BY DEF IInv, SlotInv, TypeOK
<1> QED
  BY InitInv, Inductive, <1>1, PTL DEF Spec

\* Ceiling: parallel attempts get no more checks out of one bucket than Max, and one
\* for each place given back to the wrong bucket.
THEOREM CeilingHolds == Spec => []Ceiling
<1>1. IInv => Ceiling
  <2> SUFFICES ASSUME IInv, NEW k \in Keys PROVE guesses[k] <= Max + strays[k]
    BY DEF Ceiling
  <2>1. count[k] <= Max
    BY Bounds DEF IInv, BucketsOK
  <2> QED
    BY <2>1, Bounds, KeyFacts
<1> QED
  BY InitInv, Inductive, <1>1, PTL DEF Spec

\* BusyIsNoStrike: a bucket counts nothing it did not admit, whatever attempts of
\* earlier buckets give back to it.
THEOREM StrikesAreChecks == Spec => []BusyIsNoStrike
<1>1. StrikeInv => BusyIsNoStrike
  BY DEF StrikeInv, BusyIsNoStrike
<1> QED
  BY InitInv, Inductive, <1>1, PTL DEF Spec

\* HashesBounded: never more than maxConcurrentHashes hashes at a time, for any number
\* of callers, because the channel holds an entry for each.
THEOREM SlotsHold == Spec => []HashesBounded
<1>1. SlotInv => HashesBounded
  BY PasswordHashAssumption DEF SlotInv, HashTypeOK, HashesBounded, Hashing
<1> QED
  BY InitInv, Inductive, <1>1, PTL DEF Spec

\* SlotsExact: the channel has an entry for each hash under way and no other, so giving
\* a slot back never blocks and none is lost.
THEOREM NoSlotIsLost == Spec => []SlotsExact
<1>1. SlotInv => SlotsExact
  <2> SUFFICES ASSUME SlotInv, NEW p \in Hashing PROVE hashSlots > 0
    BY DEF SlotInv, SlotsExact, Hashing
  <2>1. /\ IsFiniteSet(Hashing \ {p}) /\ Cardinality(Hashing \ {p}) \in Nat
        /\ Cardinality(Hashing \ {p}) = Cardinality(Hashing) - 1
    BY FS_RemoveElement, FS_CardinalityType DEF SlotInv
  <2> QED
    BY <2>1 DEF SlotInv, HashTypeOK
<1> QED
  BY InitInv, Inductive, <1>1, PTL DEF Spec

\* BlockEnds: no attempt, however stale its clock, moves the end of a running period.
THEOREM BlocksEnd == Spec => BlockEnds
<1>1. IInv /\ [Next]_vars =>
        [\A k \in Keys : Blocked(k) /\ k \in open' /\ now' <= resetAt'[k]
                           => resetAt'[k] = resetAt[k]]_vars
  BY StepEffect DEF Blocked
<1> QED
  BY InitInv, Inductive, <1>1, PTL DEF Spec, BlockEnds
=============================================================================
