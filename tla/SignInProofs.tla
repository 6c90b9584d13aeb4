---------------------------- MODULE SignInProofs ----------------------------
(***************************************************************************)
(* For any number of logins, account pages, secrets and clock steps: no    *)
(* code opens two sessions, nobody is locked out, sessions end exactly     *)
(* when they should, and one account page at a time cannot be used to      *)
(* strip the factor.                                                       *)
(***************************************************************************)
EXTENDS SignIn, TLAPS

\* A spent code is on record, or it is too old for any goroutine to hold it still.
SpentInv == \A c \in spent : Recorded(c) \/ now > c + Skew + MaxStall
\* A code is recorded no earlier than a clock drift before its period.
UsedInv  == \A r \in used : r.period <= r.at + Skew
\* What a goroutine knows of the code it holds.
Knows(p) ==
    /\ req[p].at = "claim" => /\ req[p].since <= now /\ now <= req[p].since + MaxStall
                              /\ req[p].since <= req[p].period + Skew
                              /\ req[p].period <= req[p].since + Skew
    /\ req[p].at \in {"enable", "burn"} => req[p].period <= now + Skew
HeldInv == \A p \in Goroutines : Knows(p)
CodeInv == SpentInv /\ UsedInv /\ HeldInv

\* A goroutine about to switch the factor on has been shown a code of its secret.
ProvedInv ==
    /\ NoLockout
    /\ \A p \in Goroutines : req[p].at = "enable" => req[p].user.secret \in proved

\* An account page that nothing overtakes acts on the row as it is.
FreshInv ==
    \A v \in Visits :
        /\ req[v].at \in {"loaded", "enable", "clear"} => req[v].user = account
        /\ req[v].at = "enable" => ~account.enabled
        /\ req[v].at = "clear"  => account.enabled

-----------------------------------------------------------------------------
(* What the building blocks do.                                            *)

LEMMA Bounds ==
    /\ Skew \in Nat /\ Keep \in Nat /\ SessionTTL \in Nat
    /\ MaxStall \in Nat /\ MaxSessions \in Nat /\ MaxTime \in Nat
    /\ Keep >= 2 * Skew + MaxStall
    /\ 0 \in Periods /\ 0 \in 0..MaxTime /\ Periods \subseteq Nat
    /\ 0..MaxTime \subseteq Nat
BY SignInAssumption DEF Periods

LEMMA Times ==
    ASSUME TypeOK
    PROVE  /\ now \in Nat
           /\ \A r \in used : r.period \in Nat /\ r.at \in Nat
           /\ \A p \in Goroutines : req[p].period \in Nat /\ req[p].since \in Nat
<1>1. now \in Nat
  BY Bounds DEF TypeOK
<1>2. ASSUME NEW r \in used PROVE r.period \in Nat /\ r.at \in Nat
  <2>1. r \in [period : Periods, at : 0..MaxTime]
    BY DEF TypeOK
  <2>2. r.period \in Periods /\ r.at \in 0..MaxTime
    BY <2>1
  <2> QED
    BY <2>2, Bounds
<1>3. ASSUME NEW p \in Goroutines PROVE req[p].period \in Nat /\ req[p].since \in Nat
  <2>1. req[p].period \in Periods /\ req[p].since \in 0..MaxTime
    BY DEF TypeOK, Request
  <2> QED
    BY <2>1, Bounds
<1> QED
  BY <1>1, <1>2, <1>3

LEMMA LocalType ==
    ASSUME NEW s \in Steps, NEW u \in Account, NEW c \in Periods, NEW t \in 0..MaxTime
    PROVE  /\ Local(s, u, c, t) \in Request
           /\ Local(s, u, c, t).at = s /\ Local(s, u, c, t).user = u
           /\ Local(s, u, c, t).period = c /\ Local(s, u, c, t).since = t
BY DEF Local, Request

LEMMA AccountType ==
    /\ Off \in Account /\ ~Off.enabled /\ Off.secret = None
    /\ \A s \in Secrets, e \in BOOLEAN : [secret |-> s, enabled |-> e] \in Account
BY DEF Off, Account

LEMMA IdleType == Idle \in Request /\ Idle.at = "idle"
<1>1. "idle" \in Steps
  BY DEF Steps
<1> QED
  BY <1>1, AccountType, Bounds, LocalType DEF Idle

LEMMA GotoType ==
    ASSUME TypeOK, NEW p \in Goroutines, NEW l \in Request, Goto(p, l)
    PROVE  /\ req' \in [Goroutines -> Request]
           /\ req'[p] = l
           /\ \A q \in Goroutines : q # p => req'[q] = req[q]
BY DEF TypeOK, Goto

LEMMA AnswerType ==
    ASSUME TypeOK, NEW p \in Goroutines, Answer(p)
    PROVE  /\ req' \in [Goroutines -> Request]
           /\ req'[p].at = "idle"
           /\ \A q \in Goroutines : q # p => req'[q] = req[q]
BY IdleType, GotoType DEF Answer

LEMMA LoadType ==
    ASSUME TypeOK, NEW p \in Goroutines, LoadUser(p) \/ LoadAccount(p)
    PROVE  /\ req' \in [Goroutines -> Request]
           /\ req'[p].at = IF LoadUser(p) THEN "user" ELSE "loaded"
           /\ req'[p].user = account
           /\ \A q \in Goroutines : q # p => req'[q] = req[q]
<1>1. account \in Account /\ "user" \in Steps /\ "loaded" \in Steps
  BY DEF TypeOK, Steps
<1>2. CASE LoadUser(p)
  BY <1>1, <1>2, Bounds, LocalType, GotoType DEF LoadUser
<1>3. CASE LoadAccount(p) /\ ~LoadUser(p)
  BY <1>1, <1>3, Bounds, LocalType, GotoType DEF LoadAccount
<1> QED
  BY <1>2, <1>3

\* After Record the code is on record, once, and no other record is lost.
LEMMA RecordType ==
    ASSUME TypeOK, NEW c \in Periods, Record(c)
    PROVE  /\ used' \subseteq [period : Periods, at : 0..MaxTime]
           /\ \A r1, r2 \in used' : r1.period = r2.period => r1 = r2
           /\ spent' = spent \union {c} /\ spent' \subseteq Periods
           /\ \E r \in used' : r.period = c
           /\ used \subseteq used'
           /\ \A r \in used' : r \in used \/ (r.period = c /\ r.at = now)
<1> DEFINE new == [period |-> c, at |-> now]
<1>1. new \in [period : Periods, at : 0..MaxTime] /\ new.period = c /\ new.at = now
  BY DEF TypeOK
<1>2. (used' = used /\ Recorded(c)) \/ (used' = used \union {new} /\ ~Recorded(c))
  BY DEF Record
<1> HIDE DEF new
<1>3. CASE used' = used /\ Recorded(c)
  BY <1>3 DEF TypeOK, Record, Recorded
<1>4. CASE used' = used \union {new} /\ ~Recorded(c)
  <2>1. \A r \in used : r.period # c
    BY <1>4 DEF Recorded
  <2>2. \A r1, r2 \in used' : r1.period = r2.period => r1 = r2
    BY <1>1, <1>4, <2>1 DEF TypeOK
  <2>3. used' \subseteq [period : Periods, at : 0..MaxTime]
    BY <1>1, <1>4 DEF TypeOK
  <2>4. spent' = spent \union {c} /\ spent' \subseteq Periods
    BY DEF TypeOK, Record
  <2> QED
    BY <1>1, <1>4, <2>2, <2>3, <2>4
<1> QED
  BY <1>2, <1>3, <1>4

-----------------------------------------------------------------------------
(* A request goroutine moves no other; a login leaves the factor alone and *)
(* goes to steps of its own, and so does an account page.                  *)

LEMMA GotoMoves ==
    ASSUME TypeOK, NEW p \in Goroutines, NEW l, Goto(p, l)
    PROVE  req'[p] = l /\ \A q \in Goroutines : q # p => req'[q] = req[q]
BY DEF TypeOK, Goto

LEMMA LoginMoves ==
    ASSUME TypeOK, NEW p \in Logins, handleLogin(p)
    PROVE  /\ \A q \in Goroutines : q # p => req'[q] = req[q]
           /\ account' = account /\ proved' = proved
           /\ req'[p].at \in {"idle", "user", "claim", "start"}
<1> USE DEF store, history
<1> DEFINE Moved == /\ \A q \in Goroutines : q # p => req'[q] = req[q]
                    /\ account' = account /\ proved' = proved
                    /\ req'[p].at \in {"idle", "user", "claim", "start"}
<1>1. p \in Goroutines
  BY DEF Goroutines
<1>2. CASE LoadUser(p)
  BY <1>1, <1>2, GotoMoves DEF LoadUser, Local
<1>3. ASSUME NEW c \in Window, CheckCode(p, c) PROVE Moved
  BY <1>1, <1>3, GotoMoves DEF CheckCode, Local
<1>4. CASE ClaimTOTPCode(p)
  BY <1>1, <1>4, GotoMoves, AnswerType DEF ClaimTOTPCode, Local
<1>5. CASE StartSession(p)
  BY <1>1, <1>5, AnswerType DEF StartSession
<1> QED
  BY <1>2, <1>3, <1>4, <1>5 DEF handleLogin

LEMMA VisitMoves ==
    ASSUME TypeOK, NEW p \in Visits, handleAccountPost(p)
    PROVE  /\ \A q \in Goroutines : q # p => req'[q] = req[q]
           /\ req'[p].at # "start"
<1> DEFINE Moved == /\ \A q \in Goroutines : q # p => req'[q] = req[q]
                    /\ req'[p].at # "start"
<1>1. p \in Goroutines
  BY DEF Goroutines
<1>2. ASSUME NEW i \in sessions, LoadSession(p, i) PROVE Moved
  BY <1>1, <1>2, GotoMoves DEF LoadSession, Local
<1>3. ASSUME NEW c \in Window, VerifyConfirm(p, c) PROVE Moved
  BY <1>1, <1>3, GotoMoves DEF VerifyConfirm, Local
<1>4. CASE LoadAccount(p) \/ Begin(p)
  BY <1>1, <1>4, GotoMoves, AnswerType DEF LoadAccount, Begin, Local
<1>5. CASE Enable(p) \/ Burn(p)
  BY <1>1, <1>5, GotoMoves, AnswerType DEF Enable, Burn, Local
<1>6. CASE VerifyDisable(p) \/ Clear(p)
  BY <1>1, <1>6, GotoMoves, AnswerType DEF VerifyDisable, Clear, Local
<1> QED
  BY <1>2, <1>3, <1>4, <1>5, <1>6 DEF handleAccountPost

-----------------------------------------------------------------------------
(* Types.                                                                  *)

LEMMA InitType == Init => TypeOK
<1> SUFFICES ASSUME Init PROVE TypeOK
  OBVIOUS
<1>1. account \in Account /\ minted \subseteq Secrets /\ proved \subseteq Secrets
  BY AccountType DEF Init
<1>2. req \in [Goroutines -> Request]
  BY IdleType DEF Init
<1> QED
  BY <1>1, <1>2, Bounds DEF Init, TypeOK

LEMMA LoginType ==
    ASSUME TypeOK, NEW p \in Logins, handleLogin(p)
    PROVE  TypeOK'
<1> USE DEF store, history
<1>1. p \in Goroutines /\ req[p] \in Request
  BY DEF Goroutines, TypeOK
<1>2. CASE LoadUser(p)
  BY <1>1, <1>2, LoadType DEF LoadUser, TypeOK
<1>3. ASSUME NEW c \in Window, CheckCode(p, c) PROVE TypeOK'
  <2>1. c \in Periods /\ "claim" \in Steps /\ now \in 0..MaxTime
    BY DEF Window, Steps, TypeOK
  <2>2. req' \in [Goroutines -> Request]
    BY <1>1, <1>3, <2>1, AccountType, LocalType, GotoType DEF CheckCode
  <2> QED
    BY <1>3, <2>2 DEF CheckCode, TypeOK
<1>4. CASE ClaimTOTPCode(p)
  <2>1. req[p].period \in Periods /\ "start" \in Steps
    BY <1>1 DEF Request, Steps
  <2>2. Local("start", Off, 0, 0) \in Request
    BY <2>1, AccountType, Bounds, LocalType
  <2>3. req' \in [Goroutines -> Request]
    BY <1>1, <1>4, <2>2, GotoType, AnswerType DEF ClaimTOTPCode
  <2> QED
    BY <1>4, <2>1, <2>3, RecordType DEF ClaimTOTPCode, TypeOK
<1>5. CASE StartSession(p)
  <2>1. now + SessionTTL \in Nat
    BY Bounds DEF TypeOK
  <2>2. /\ expires' \in Seq(Nat) /\ DOMAIN expires \subseteq DOMAIN expires'
        /\ Len(expires) + 1 \in DOMAIN expires'
    BY <1>5, <2>1 DEF StartSession, TypeOK
  <2>3. req' \in [Goroutines -> Request]
    BY <1>1, <1>5, AnswerType DEF StartSession
  <2> QED
    BY <1>5, <2>2, <2>3 DEF StartSession, TypeOK
<1> QED
  BY <1>2, <1>3, <1>4, <1>5 DEF handleLogin

LEMMA VisitType ==
    ASSUME TypeOK, NEW p \in Visits, handleAccountPost(p)
    PROVE  TypeOK'
<1> USE DEF store, history
<1>1. p \in Goroutines /\ req[p] \in Request
  BY DEF Goroutines, TypeOK
<1>a. req[p].user \in Account /\ req[p].period \in Periods
  BY <1>1 DEF Request
<1>2. ASSUME NEW i \in sessions, LoadSession(p, i) PROVE TypeOK'
  <2>1. "session" \in Steps
    BY DEF Steps
  <2>2. req' \in [Goroutines -> Request]
    BY <1>1, <1>2, <2>1, AccountType, Bounds, LocalType, GotoType DEF LoadSession
  <2> QED
    BY <1>2, <2>2 DEF LoadSession, TypeOK
<1>3. CASE LoadAccount(p)
  BY <1>1, <1>3, LoadType DEF LoadAccount, TypeOK
<1>4. CASE Begin(p)
  <2>1. account' \in Account /\ minted' \subseteq Secrets
    BY <1>4, AccountType DEF Begin, TypeOK
  <2> QED
    BY <1>1, <1>4, <2>1, AnswerType DEF Begin, TypeOK
<1>5. ASSUME NEW c \in Window, VerifyConfirm(p, c) PROVE TypeOK'
  <2>1. c \in Periods /\ "enable" \in Steps
    BY DEF Window, Steps
  <2>2. req' \in [Goroutines -> Request]
    BY <1>1, <1>a, <1>5, <2>1, Bounds, LocalType, GotoType DEF VerifyConfirm
  <2>3. req[p].user.secret \in Secrets
    BY <1>a, <1>5 DEF Account, VerifyConfirm
  <2> QED
    BY <1>5, <2>2, <2>3 DEF VerifyConfirm, TypeOK
<1>6. CASE Enable(p)
  <2>1. "burn" \in Steps /\ account' \in Account
    BY <1>a, <1>6 DEF Steps, Enable, Account
  <2>2. req' \in [Goroutines -> Request]
    BY <1>1, <1>a, <1>6, <2>1, AccountType, Bounds, LocalType, GotoType DEF Enable
  <2> QED
    BY <1>6, <2>1, <2>2 DEF Enable, TypeOK
<1>7. CASE Burn(p)
  BY <1>1, <1>a, <1>7, RecordType, AnswerType DEF Burn, TypeOK
<1>8. CASE VerifyDisable(p)
  <2>1. "clear" \in Steps
    BY DEF Steps
  <2>2. req' \in [Goroutines -> Request]
    BY <1>1, <1>a, <1>8, <2>1, Bounds, LocalType, GotoType DEF VerifyDisable
  <2> QED
    BY <1>8, <2>2 DEF VerifyDisable, TypeOK
<1>9. CASE Clear(p)
  BY <1>1, <1>9, AccountType, AnswerType DEF Clear, TypeOK
<1> QED
  BY <1>2, <1>3, <1>4, <1>5, <1>6, <1>7, <1>8, <1>9 DEF handleAccountPost

LEMMA StepType ==
    ASSUME TypeOK, [Next]_vars
    PROVE  TypeOK'
<1> USE DEF store, history
<1>1. ASSUME NEW p \in Logins, handleLogin(p) PROVE TypeOK'
  BY <1>1, LoginType
<1>2. ASSUME NEW p \in Visits, handleAccountPost(p) PROVE TypeOK'
  BY <1>2, VisitType
<1>3. ASSUME NEW p \in Goroutines, GiveUp(p) PROVE TypeOK'
  BY <1>3, AnswerType DEF GiveUp, TypeOK
<1>4. ASSUME NEW i \in DOMAIN expires, DeleteSession(i) PROVE TypeOK'
  BY <1>4 DEF DeleteSession, TypeOK
<1>5. CASE PruneExpiredSessions
  BY <1>5 DEF PruneExpiredSessions, TypeOK
<1>6. CASE PruneTOTPUsed
  BY <1>6 DEF PruneTOTPUsed, TypeOK
<1>7. CASE Tick
  BY <1>7, Bounds DEF Tick, TypeOK
<1>8. CASE UNCHANGED vars
  BY <1>8 DEF vars, TypeOK
<1> QED
  BY <1>1, <1>2, <1>3, <1>4, <1>5, <1>6, <1>7, <1>8 DEF Next

\* A code is recorded at most once, whoever claims it, and no operation leaves a
\* value out of its type.
THEOREM TypeCorrect == Spec => []TypeOK
<1>1. TypeOK /\ [Next]_vars => TypeOK'
  BY StepType
<1> QED
  BY InitType, <1>1, PTL DEF Spec

-----------------------------------------------------------------------------
(* Codes are not replayed.                                                 *)

LEMMA OthersKnow ==
    ASSUME CodeInv, now' = now, NEW p \in Goroutines, Knows(p)',
           \A q \in Goroutines : q # p => req'[q] = req[q]
    PROVE  HeldInv'
BY DEF CodeInv, HeldInv, Knows

LEMMA HoldsNone ==
    ASSUME NEW p \in Goroutines, req'[p].at \notin {"claim", "enable", "burn"}
    PROVE  Knows(p)'
BY DEF Knows

\* A step of goroutine p that leaves the records and the clock alone.
LEMMA CodesAside ==
    ASSUME CodeInv, UNCHANGED <<now, used, spent>>, NEW p \in Goroutines, Knows(p)',
           \A q \in Goroutines : q # p => req'[q] = req[q]
    PROVE  CodeInv'
<1>1. SpentInv' /\ UsedInv'
  BY DEF CodeInv, SpentInv, UsedInv, Recorded
<1> QED
  BY <1>1, OthersKnow DEF CodeInv

\* A step that records a code which is not ahead of the clock by more than the drift.
LEMMA CodesRecorded ==
    ASSUME TypeOK, CodeInv, now' = now, NEW p \in Goroutines,
           Record(req[p].period), req[p].period <= now + Skew,
           req'[p].at \notin {"claim", "enable", "burn"},
           \A q \in Goroutines : q # p => req'[q] = req[q]
    PROVE  CodeInv'
<1>1. req[p].period \in Periods
  BY DEF TypeOK, Request
<1>2. SpentInv'
  <2> SUFFICES ASSUME NEW c \in spent', ~(now > c + Skew + MaxStall)
               PROVE  \E r \in used' : r.period = c
    BY DEF SpentInv, Recorded
  <2>1. CASE c = req[p].period
    BY <1>1, <2>1, RecordType
  <2>2. CASE c # req[p].period
    <3>1. c \in spent
      BY <1>1, <2>2, RecordType
    <3>2. PICK r \in used : r.period = c
      BY <3>1 DEF CodeInv, SpentInv, Recorded
    <3> QED
      BY <1>1, <3>2, RecordType
  <2> QED
    BY <2>1, <2>2
<1>3. UsedInv'
  <2> SUFFICES ASSUME NEW r \in used' PROVE r.period <= r.at + Skew
    BY DEF UsedInv
  <2>1. r \in used \/ (r.period = req[p].period /\ r.at = now)
    BY <1>1, RecordType
  <2> QED
    BY <2>1 DEF CodeInv, UsedInv
<1> QED
  BY <1>2, <1>3, HoldsNone, OthersKnow DEF CodeInv

\* The janitor forgets a code only when it is too old.
LEMMA CodesPruned ==
    ASSUME TypeOK, CodeInv, PruneTOTPUsed
    PROVE  CodeInv'
<1> USE DEF PruneTOTPUsed, history
<1>1. UsedInv' /\ HeldInv'
  BY DEF CodeInv, UsedInv, HeldInv, Knows
<1>2. SpentInv'
  <2> SUFFICES ASSUME NEW c \in spent, ~(now > c + Skew + MaxStall)
               PROVE  \E r \in used' : r.period = c
    BY DEF SpentInv, Recorded
  <2>1. PICK r \in used : r.period = c
    BY DEF CodeInv, SpentInv, Recorded
  <2>2. r.period \in Nat /\ r.at \in Nat /\ now \in Nat
    BY Times
  <2>3. r.period <= r.at + Skew /\ now <= r.period + Skew + MaxStall
    BY <2>1, <2>2, Bounds DEF CodeInv, UsedInv
  <2>4. r.at >= now - Keep
    BY <2>2, <2>3, Bounds
  <2> QED
    BY <2>1, <2>4
<1> QED
  BY <1>1, <1>2 DEF CodeInv

LEMMA CodesTick ==
    ASSUME TypeOK, CodeInv, Tick
    PROVE  CodeInv'
<1> USE DEF Tick, store, history
<1>1. SpentInv' /\ UsedInv'
  BY Bounds DEF TypeOK, CodeInv, SpentInv, UsedInv, Recorded
<1>2. ASSUME NEW p \in Goroutines PROVE Knows(p)'
  <2>1. req[p].period \in Nat /\ req[p].since \in Nat /\ now \in Nat
    BY Times
  <2> QED
    BY <2>1, Bounds DEF CodeInv, HeldInv, Knows
<1> QED
  BY <1>1, <1>2 DEF CodeInv, HeldInv

LEMMA CodesStep ==
    ASSUME TypeOK, CodeInv, [Next]_vars
    PROVE  CodeInv'
<1> USE DEF store, history
<1>1. ASSUME NEW p \in Logins, handleLogin(p) PROVE CodeInv'
  <2>1. p \in Goroutines /\ req[p] \in Request
    BY DEF Goroutines, TypeOK
  <2>2. CASE LoadUser(p)
    BY <2>1, <2>2, LoadType, HoldsNone, CodesAside DEF LoadUser
  <2>3. ASSUME NEW c \in Window, CheckCode(p, c) PROVE CodeInv'
    <3>1. c \in Periods /\ "claim" \in Steps /\ now \in 0..MaxTime
      BY DEF Window, Steps, TypeOK
    <3>2. /\ req'[p].at = "claim" /\ req'[p].period = c /\ req'[p].since = now
          /\ \A q \in Goroutines : q # p => req'[q] = req[q]
      BY <2>1, <2>3, <3>1, AccountType, LocalType, GotoType DEF CheckCode
    <3>3. c \in Nat /\ now \in Nat /\ now - Skew <= c /\ c <= now + Skew
      BY <3>1, Bounds DEF Window
    <3>4. now <= now + MaxStall /\ now <= c + Skew
      BY <3>3, Bounds
    <3>5. Knows(p)'
      BY <2>3, <3>2, <3>3, <3>4 DEF CheckCode, Knows
    <3> QED
      BY <2>1, <2>3, <3>2, <3>5, CodesAside DEF CheckCode
  <2>4. CASE ClaimTOTPCode(p)
    <3>1. "start" \in Steps
      BY DEF Steps
    <3>2. /\ req'[p].at \in {"idle", "start"}
          /\ \A q \in Goroutines : q # p => req'[q] = req[q]
      BY <2>1, <2>4, <3>1, AccountType, Bounds, LocalType, GotoType, AnswerType
         DEF ClaimTOTPCode
    <3>3. req[p].period <= now + Skew
      <4>1. req[p].since <= now /\ req[p].period <= req[p].since + Skew
        BY <2>1, <2>4 DEF CodeInv, HeldInv, Knows, ClaimTOTPCode
      <4>2. req[p].period \in Nat /\ req[p].since \in Nat /\ now \in Nat
        BY <2>1, Times
      <4> QED
        BY <4>1, <4>2, Bounds
    <3> QED
      BY <2>1, <2>4, <3>2, <3>3, CodesRecorded DEF ClaimTOTPCode
  <2>5. CASE StartSession(p)
    BY <2>1, <2>5, AnswerType, HoldsNone, CodesAside DEF StartSession
  <2> QED
    BY <1>1, <2>2, <2>3, <2>4, <2>5 DEF handleLogin
<1>2. ASSUME NEW p \in Visits, handleAccountPost(p) PROVE CodeInv'
  <2>1. p \in Goroutines /\ req[p] \in Request
    BY DEF Goroutines, TypeOK
  <2>a. req[p].user \in Account /\ req[p].period \in Periods
    BY <2>1 DEF Request
  <2>2. ASSUME NEW i \in sessions, LoadSession(p, i) PROVE CodeInv'
    <3>1. "session" \in Steps
      BY DEF Steps
    <3>2. /\ req'[p].at = "session"
          /\ \A q \in Goroutines : q # p => req'[q] = req[q]
      BY <2>1, <2>2, <3>1, AccountType, Bounds, LocalType, GotoType DEF LoadSession
    <3> QED
      BY <2>1, <2>2, <3>2, HoldsNone, CodesAside DEF LoadSession
  <2>3. CASE LoadAccount(p)
    BY <2>1, <2>3, LoadType, HoldsNone, CodesAside DEF LoadAccount
  <2>4. CASE Begin(p)
    BY <2>1, <2>4, AnswerType, HoldsNone, CodesAside DEF Begin
  <2>5. ASSUME NEW c \in Window, VerifyConfirm(p, c) PROVE CodeInv'
    <3>1. c \in Periods /\ "enable" \in Steps /\ c <= now + Skew
      BY DEF Window, Steps
    <3>2. /\ req'[p].at = "enable" /\ req'[p].period = c
          /\ \A q \in Goroutines : q # p => req'[q] = req[q]
      BY <2>1, <2>a, <2>5, <3>1, Bounds, LocalType, GotoType DEF VerifyConfirm
    <3>3. Knows(p)'
      BY <2>5, <3>1, <3>2 DEF VerifyConfirm, Knows
    <3> QED
      BY <2>1, <2>5, <3>2, <3>3, CodesAside DEF VerifyConfirm
  <2>6. CASE Enable(p)
    <3>1. "burn" \in Steps
      BY DEF Steps
    <3>2. /\ req'[p].at = "burn" /\ req'[p].period = req[p].period
          /\ \A q \in Goroutines : q # p => req'[q] = req[q]
      <4> DEFINE l == Local("burn", Off, req[p].period, 0)
      <4>1. l \in Request /\ l.at = "burn" /\ l.period = req[p].period
        BY <2>a, <3>1, AccountType, Bounds DEF Local, Request
      <4>2. Goto(p, l)
        BY <2>6 DEF Enable
      <4> HIDE DEF l
      <4> QED
        BY <2>1, <4>1, <4>2, GotoType
    <3>3. Knows(p)'
      BY <2>1, <2>6, <3>2 DEF Enable, Knows, CodeInv, HeldInv
    <3> QED
      BY <2>1, <2>6, <3>2, <3>3, CodesAside DEF Enable
  <2>7. CASE Burn(p)
    <3>1. req[p].period <= now + Skew
      BY <2>1, <2>7 DEF Burn, CodeInv, HeldInv, Knows
    <3> QED
      BY <2>1, <2>7, <3>1, AnswerType, CodesRecorded DEF Burn
  <2>8. CASE VerifyDisable(p)
    <3>1. "clear" \in Steps
      BY DEF Steps
    <3>2. /\ req'[p].at = "clear"
          /\ \A q \in Goroutines : q # p => req'[q] = req[q]
      BY <2>1, <2>a, <2>8, <3>1, Bounds, LocalType, GotoType DEF VerifyDisable
    <3> QED
      BY <2>1, <2>8, <3>2, HoldsNone, CodesAside DEF VerifyDisable
  <2>9. CASE Clear(p)
    BY <2>1, <2>9, AnswerType, HoldsNone, CodesAside DEF Clear
  <2> QED
    BY <1>2, <2>2, <2>3, <2>4, <2>5, <2>6, <2>7, <2>8, <2>9 DEF handleAccountPost
<1>3. ASSUME NEW p \in Goroutines, GiveUp(p) PROVE CodeInv'
  BY <1>3, AnswerType, HoldsNone, CodesAside DEF GiveUp
<1>4. ASSUME NEW i \in DOMAIN expires, DeleteSession(i) PROVE CodeInv'
  BY <1>4 DEF DeleteSession, CodeInv, SpentInv, UsedInv, HeldInv, Recorded, Knows
<1>5. CASE PruneExpiredSessions
  BY <1>5 DEF PruneExpiredSessions, CodeInv, SpentInv, UsedInv, HeldInv, Recorded, Knows
<1>6. CASE PruneTOTPUsed
  BY <1>6, CodesPruned
<1>7. CASE Tick
  BY <1>7, CodesTick
<1>8. CASE UNCHANGED vars
  BY <1>8 DEF vars, CodeInv, SpentInv, UsedInv, HeldInv, Recorded, Knows
<1> QED
  BY <1>1, <1>2, <1>3, <1>4, <1>5, <1>6, <1>7, <1>8 DEF Next

LEMMA InitCodes == Init => CodeInv
<1> SUFFICES ASSUME Init PROVE CodeInv
  OBVIOUS
<1>1. \A p \in Goroutines : req[p].at = "idle"
  BY IdleType DEF Init
<1> QED
  BY <1>1 DEF Init, CodeInv, SpentInv, UsedInv, HeldInv, Knows

\* Only a claim of a code nobody has recorded gets a login to the session.
LEMMA ClaimFresh ==
    ASSUME TypeOK, CodeInv, [Next]_vars, NEW p \in Logins,
           req[p].at = "claim", req'[p].at = "start"
    PROVE  req[p].period \notin spent
<1> USE DEF store, history
<1>1. p \in Goroutines
  BY DEF Goroutines
<1>2. req'[p] # req[p]
  OBVIOUS
<1>a. handleLogin(p)
  <2>1. ASSUME NEW q \in Logins, handleLogin(q) PROVE q = p
    BY <1>1, <1>2, <2>1, LoginMoves
  <2>2. ASSUME NEW q \in Visits, handleAccountPost(q) PROVE FALSE
    BY <1>1, <1>2, <2>2, VisitMoves
  <2>3. ASSUME NEW q \in Goroutines, GiveUp(q) PROVE FALSE
    BY <1>1, <1>2, <2>3, AnswerType DEF GiveUp
  <2>4. ASSUME NEW i \in DOMAIN expires, DeleteSession(i) PROVE FALSE
    BY <1>2, <2>4 DEF DeleteSession
  <2>5. ~PruneExpiredSessions /\ ~PruneTOTPUsed /\ ~Tick /\ ~UNCHANGED vars
    BY <1>2 DEF PruneExpiredSessions, PruneTOTPUsed, Tick, vars
  <2> QED
    BY <2>1, <2>2, <2>3, <2>4, <2>5 DEF Next
<1>b. ClaimTOTPCode(p)
  BY <1>a DEF handleLogin, LoadUser, CheckCode, StartSession
<1>c. ~Recorded(req[p].period)
  BY <1>1, <1>b, AnswerType DEF ClaimTOTPCode
<1>3. now <= req[p].period + Skew + MaxStall
  <2>1. /\ now <= req[p].since + MaxStall /\ req[p].since <= req[p].period + Skew
    BY <1>1 DEF CodeInv, HeldInv, Knows
  <2>2. now \in Nat /\ req[p].period \in Nat /\ req[p].since \in Nat
    BY <1>1, Times
  <2> QED
    BY <2>1, <2>2, Bounds
<1>4. req[p].period \in Nat /\ now \in Nat
  BY <1>1, Times
<1> QED
  BY <1>c, <1>3, <1>4, Bounds DEF CodeInv, SpentInv

\* NoReplay: a code of the account opens at most one session and one that enrolled
\* opens none once it is recorded, for every number of goroutines, every drift and
\* every janitor, as long as records are kept for 2 * Skew + MaxStall.
THEOREM CodesUsedOnce == Spec => NoReplay
<1>1. TypeOK /\ CodeInv /\ [Next]_vars => TypeOK' /\ CodeInv'
  BY StepType, CodesStep
<1>2. TypeOK /\ CodeInv /\ [Next]_vars =>
        [\A p \in Logins : req[p].at = "claim" /\ req'[p].at = "start"
                             => req[p].period \notin spent]_vars
  BY ClaimFresh
<1> QED
  BY InitType, InitCodes, <1>1, <1>2, PTL DEF Spec, NoReplay

-----------------------------------------------------------------------------
(* Nobody is locked out.                                                   *)

LEMMA ProvedStep ==
    ASSUME TypeOK, ProvedInv, [Next]_vars
    PROVE  ProvedInv'
<1> USE DEF store, history
<1>1. ASSUME NEW p \in Goroutines, req'[p].at # "enable",
             \A q \in Goroutines : q # p => req'[q] = req[q],
             account' = account \/ ~account'.enabled, proved' = proved
      PROVE  ProvedInv'
  BY <1>1 DEF ProvedInv, NoLockout
<1>2. ASSUME NEW p \in Logins, handleLogin(p) PROVE ProvedInv'
  <2>1. p \in Goroutines
    BY DEF Goroutines
  <2>2. req'[p].at # "enable"
    <3>1. CASE LoadUser(p)
      BY <2>1, <3>1, LoadType DEF LoadUser
    <3>2. ASSUME NEW c \in Window, CheckCode(p, c) PROVE req'[p].at # "enable"
      BY <2>1, <3>2 DEF CheckCode, Goto, Local, TypeOK
    <3>3. CASE ClaimTOTPCode(p)
      BY <2>1, <3>3, AnswerType DEF ClaimTOTPCode, Goto, Local, TypeOK
    <3>4. CASE StartSession(p)
      BY <2>1, <3>4, AnswerType DEF StartSession
    <3> QED
      BY <1>2, <3>1, <3>2, <3>3, <3>4 DEF handleLogin
  <2> QED
    BY <1>1, <1>2, <2>1, <2>2, LoginMoves
<1>3. ASSUME NEW p \in Visits, handleAccountPost(p) PROVE ProvedInv'
  <2>1. p \in Goroutines /\ req[p] \in Request
    BY DEF Goroutines, TypeOK
  <2>2. \A q \in Goroutines : q # p => req'[q] = req[q]
    BY <1>3, VisitMoves
  <2>3. ASSUME NEW i \in sessions, LoadSession(p, i) PROVE ProvedInv'
    <3>1. req'[p].at # "enable"
      BY <2>1, <2>3 DEF LoadSession, Goto, Local, TypeOK
    <3> QED
      BY <1>1, <2>1, <2>2, <2>3, <3>1 DEF LoadSession
  <2>4. CASE LoadAccount(p)
    BY <1>1, <2>1, <2>2, <2>4, LoadType DEF LoadAccount
  <2>5. CASE Begin(p)
    BY <1>1, <2>1, <2>2, <2>5, AnswerType DEF Begin
  <2>6. ASSUME NEW c \in Window, VerifyConfirm(p, c) PROVE ProvedInv'
    <3>1. req'[p].user = req[p].user
      BY <2>1, <2>6 DEF VerifyConfirm, Goto, Local, TypeOK
    <3>2. proved' = proved \union {req[p].user.secret} /\ account' = account
      BY <2>6 DEF VerifyConfirm
    <3>3. NoLockout'
      BY <3>2 DEF ProvedInv, NoLockout
    <3>4. ASSUME NEW q \in Goroutines, req'[q].at = "enable"
          PROVE  req'[q].user.secret \in proved'
      <4>1. CASE q = p
        BY <3>1, <3>2, <4>1
      <4>2. CASE q # p
        BY <2>2, <3>2, <3>4, <4>2 DEF ProvedInv
      <4> QED
        BY <4>1, <4>2
    <3> QED
      BY <3>3, <3>4 DEF ProvedInv
  <2>7. CASE Enable(p)
    <3>1. req'[p].at # "enable"
      BY <2>1, <2>7 DEF Enable, Goto, Local, TypeOK
    <3>2. req[p].user.secret \in proved /\ proved' = proved
      BY <2>1, <2>7 DEF Enable, ProvedInv
    <3>3. account'.secret = req[p].user.secret
      BY <2>7 DEF Enable
    <3> QED
      BY <2>2, <3>1, <3>2, <3>3 DEF ProvedInv, NoLockout
  <2>8. CASE Burn(p)
    BY <1>1, <2>1, <2>2, <2>8, AnswerType DEF Burn
  <2>9. CASE VerifyDisable(p)
    <3>1. req'[p].at # "enable"
      BY <2>1, <2>9 DEF VerifyDisable, Goto, Local, TypeOK
    <3> QED
      BY <1>1, <2>1, <2>2, <2>9, <3>1 DEF VerifyDisable
  <2>10. CASE Clear(p)
    BY <1>1, <2>1, <2>2, <2>10, AnswerType, AccountType DEF Clear
  <2> QED
    BY <1>3, <2>3, <2>4, <2>5, <2>6, <2>7, <2>8, <2>9, <2>10 DEF handleAccountPost
<1>4. ASSUME NEW p \in Goroutines, GiveUp(p) PROVE ProvedInv'
  BY <1>1, <1>4, AnswerType DEF GiveUp
<1>5. ASSUME UNCHANGED <<account, proved, req>> PROVE ProvedInv'
  BY <1>5 DEF ProvedInv, NoLockout
<1>6. ASSUME NEW i \in DOMAIN expires, DeleteSession(i) PROVE ProvedInv'
  BY <1>5, <1>6 DEF DeleteSession
<1>7. CASE PruneExpiredSessions \/ PruneTOTPUsed \/ Tick \/ UNCHANGED vars
  BY <1>5, <1>7 DEF PruneExpiredSessions, PruneTOTPUsed, Tick, vars
<1> QED
  BY <1>2, <1>3, <1>4, <1>6, <1>7 DEF Next

LEMMA InitProved == Init => ProvedInv
<1> SUFFICES ASSUME Init PROVE ProvedInv
  OBVIOUS
<1>1. \A p \in Goroutines : req[p].at = "idle"
  BY IdleType DEF Init
<1>2. NoLockout
  BY AccountType DEF Init, NoLockout
<1> QED
  BY <1>1, <1>2 DEF ProvedInv

\* NoLockout: however many account pages begin, confirm and disable at once, the
\* secret of a factor that is on is one whose code its owner has typed in.
THEOREM NobodyLockedOut == Spec => []NoLockout
<1>1. TypeOK /\ ProvedInv /\ [Next]_vars => TypeOK' /\ ProvedInv'
  BY StepType, ProvedStep
<1>2. ProvedInv => NoLockout
  BY DEF ProvedInv
<1> QED
  BY InitType, InitProved, <1>1, <1>2, PTL DEF Spec

-----------------------------------------------------------------------------
(* Sessions end when they should.                                          *)

LEMMA SessionsStep ==
    ASSUME TypeOK, SessionsExact, [Next]_vars
    PROVE  SessionsExact'
<1> USE DEF store, history, SessionsExact, Accepted
<1>1. ASSUME UNCHANGED <<now, expires, sessions, loggedOut>> PROVE SessionsExact'
  BY <1>1
<1>2. ASSUME NEW p \in Logins, StartSession(p) PROVE SessionsExact'
  <2>1. /\ expires \in Seq(Nat) /\ now + SessionTTL \in Nat
        /\ sessions \subseteq DOMAIN expires /\ loggedOut \subseteq DOMAIN expires
    BY Bounds DEF TypeOK
  <2>2. /\ DOMAIN expires' = DOMAIN expires \union {Len(expires) + 1}
        /\ Len(expires) + 1 \notin DOMAIN expires
        /\ \A i \in DOMAIN expires : expires'[i] = expires[i]
    BY <1>2, <2>1 DEF StartSession
  <2>3. /\ sessions' = sessions \union {Len(expires) + 1}
        /\ loggedOut' = loggedOut /\ now' = now
    BY <1>2 DEF StartSession
  <2> QED
    BY <2>1, <2>2, <2>3
<1>3. ASSUME NEW p \in Logins, handleLogin(p) PROVE SessionsExact'
  BY <1>1, <1>2, <1>3 DEF handleLogin, LoadUser, CheckCode, ClaimTOTPCode
<1>4. ASSUME NEW p \in Visits, handleAccountPost(p) PROVE SessionsExact'
  BY <1>1, <1>4 DEF handleAccountPost, LoadSession, LoadAccount, Begin, VerifyConfirm,
                    Enable, Burn, VerifyDisable, Clear
<1>5. ASSUME NEW p \in Goroutines, GiveUp(p) PROVE SessionsExact'
  BY <1>1, <1>5 DEF GiveUp
<1>6. ASSUME NEW i \in DOMAIN expires, DeleteSession(i) PROVE SessionsExact'
  BY <1>6 DEF DeleteSession
<1>7. CASE PruneExpiredSessions
  BY <1>7 DEF PruneExpiredSessions
<1>8. CASE PruneTOTPUsed
  BY <1>1, <1>8 DEF PruneTOTPUsed
<1>9. CASE Tick
  <2>1. expires \in Seq(Nat) /\ now \in Nat
    BY Bounds DEF TypeOK
  <2>2. \A i \in DOMAIN expires : expires[i] \in Nat
    BY <2>1
  <2> QED
    BY <1>9, <2>1, <2>2 DEF Tick
<1>10. CASE UNCHANGED vars
  BY <1>1, <1>10 DEF vars
<1> QED
  BY <1>3, <1>4, <1>5, <1>6, <1>7, <1>8, <1>9, <1>10 DEF Next

\* SessionsExact: a session is accepted until it expires or is logged out, whenever
\* the janitor runs.
THEOREM SessionsEndOnTime == Spec => []SessionsExact
<1>1. Init => SessionsExact
  BY DEF Init, SessionsExact, Accepted
<1>2. TypeOK /\ SessionsExact /\ [Next]_vars => TypeOK' /\ SessionsExact'
  BY StepType, SessionsStep
<1> QED
  BY InitType, <1>1, <1>2, PTL DEF Spec

-----------------------------------------------------------------------------
(* One account page at a time.                                             *)

OnePage == \A v1, v2 \in Visits : v1 = v2

LEMMA FreshVisit ==
    ASSUME TypeOK, FreshInv, OnePage, NEW p \in Visits, handleAccountPost(p)
    PROVE  /\ FreshInv'
           /\ account.enabled /\ account' # account =>
                req[p].at = "clear" /\ req[p].user.secret = account.secret
<1> USE DEF store, history
<1> DEFINE Fresh == /\ req'[p].at \in {"loaded", "enable", "clear"} => req'[p].user = account'
                    /\ req'[p].at = "enable" => ~account'.enabled
                    /\ req'[p].at = "clear"  => account'.enabled
           Proof == account.enabled /\ account' # account =>
                      req[p].at = "clear" /\ req[p].user.secret = account.secret
<1>1. p \in Goroutines
  BY DEF Goroutines
<1> SUFFICES Fresh /\ Proof
  BY DEF OnePage, FreshInv
<1>2. ASSUME NEW i \in sessions, LoadSession(p, i) PROVE Fresh /\ Proof
  BY <1>1, <1>2 DEF LoadSession, Goto, Local, TypeOK
<1>3. CASE LoadAccount(p)
  BY <1>1, <1>3, LoadType DEF LoadAccount
<1>4. CASE Begin(p)
  <2>1. ~account.enabled
    BY <1>4 DEF Begin, FreshInv
  <2> QED
    BY <1>1, <1>4, <2>1, AnswerType DEF Begin
<1>5. ASSUME NEW c \in Window, VerifyConfirm(p, c) PROVE Fresh /\ Proof
  <2>1. req'[p].at = "enable" /\ req'[p].user = req[p].user
    BY <1>1, <1>5 DEF VerifyConfirm, Goto, Local, TypeOK
  <2>2. req[p].user = account /\ ~req[p].user.enabled /\ account' = account
    BY <1>5 DEF VerifyConfirm, FreshInv
  <2> QED
    BY <2>1, <2>2
<1>6. CASE Enable(p)
  <2>1. req'[p].at = "burn"
    BY <1>1, <1>6 DEF Enable, Goto, Local, TypeOK
  <2>2. ~account.enabled
    BY <1>6 DEF Enable, FreshInv
  <2> QED
    BY <2>1, <2>2
<1>7. CASE Burn(p)
  BY <1>1, <1>7, AnswerType DEF Burn
<1>8. CASE VerifyDisable(p)
  <2>1. req'[p].at = "clear" /\ req'[p].user = req[p].user
    BY <1>1, <1>8 DEF VerifyDisable, Goto, Local, TypeOK
  <2>2. req[p].user = account /\ req[p].user.enabled /\ account' = account
    BY <1>8 DEF VerifyDisable, FreshInv
  <2> QED
    BY <2>1, <2>2
<1>9. CASE Clear(p)
  <2>1. req[p].at = "clear" /\ req[p].user = account
    BY <1>9 DEF Clear, FreshInv
  <2> QED
    BY <1>1, <1>9, <2>1, AnswerType DEF Clear
<1> QED
  BY <1>2, <1>3, <1>4, <1>5, <1>6, <1>7, <1>8, <1>9 DEF handleAccountPost

LEMMA FreshStep ==
    ASSUME TypeOK, FreshInv, OnePage, [Next]_vars
    PROVE  /\ FreshInv'
           /\ account.enabled /\ account' # account =>
                \E p \in Visits : /\ req[p].at = "clear"
                                  /\ req[p].user.secret = account.secret
<1> USE DEF store, history
<1> DEFINE Proof == account.enabled /\ account' # account =>
                      \E p \in Visits : /\ req[p].at = "clear"
                                        /\ req[p].user.secret = account.secret
<1>1. ASSUME account' = account,
             \A v \in Visits : req'[v] = req[v] \/ req'[v].at = "idle"
      PROVE  FreshInv' /\ Proof
  BY <1>1 DEF FreshInv
<1>2. ASSUME NEW p \in Logins, handleLogin(p) PROVE FreshInv' /\ Proof
  <2>1. \A v \in Visits : v \in Goroutines
    BY DEF Goroutines
  <2>2. /\ account' = account
        /\ \A v \in Visits : req'[v] = req[v] \/ req'[v].at \in {"idle", "user", "claim", "start"}
    BY <1>2, <2>1, LoginMoves
  <2> QED
    BY <2>2 DEF FreshInv
<1>3. ASSUME NEW p \in Visits, handleAccountPost(p) PROVE FreshInv' /\ Proof
  BY <1>3, FreshVisit
<1>4. ASSUME NEW p \in Goroutines, GiveUp(p) PROVE FreshInv' /\ Proof
  <2>1. \A v \in Visits : v \in Goroutines
    BY DEF Goroutines
  <2> QED
    BY <1>1, <1>4, <2>1, AnswerType DEF GiveUp
<1>5. ASSUME NEW i \in DOMAIN expires, DeleteSession(i) PROVE FreshInv' /\ Proof
  BY <1>1, <1>5 DEF DeleteSession
<1>6. CASE PruneExpiredSessions \/ PruneTOTPUsed \/ Tick \/ UNCHANGED vars
  BY <1>1, <1>6 DEF PruneExpiredSessions, PruneTOTPUsed, Tick, vars
<1> QED
  BY <1>2, <1>3, <1>4, <1>5, <1>6 DEF Next

LEMMA InitFresh == Init => FreshInv
<1> SUFFICES ASSUME Init PROVE FreshInv
  OBVIOUS
<1>1. \A v \in Visits : req[v].at = "idle"
  BY IdleType DEF Init, Goroutines
<1> QED
  BY <1>1 DEF FreshInv

\* StripNeedsProof: with account pages served one at a time, whatever logins, logouts
\* and the janitor do meanwhile, a factor that is on goes only with one of its codes.
THEOREM StripNeedsProofOnePage == OnePage /\ Spec => StripNeedsProof
<1>1. OnePage /\ TypeOK /\ FreshInv /\ [Next]_vars => TypeOK' /\ FreshInv'
  BY StepType, FreshStep
<1>2. OnePage /\ TypeOK /\ FreshInv /\ [Next]_vars =>
        [account.enabled /\ account' # account =>
           \E p \in Visits : /\ req[p].at = "clear"
                             /\ req[p].user.secret = account.secret]_vars
  BY FreshStep
<1>3. CASE OnePage
  BY InitType, InitFresh, <1>1, <1>2, <1>3, PTL DEF Spec, StripNeedsProof
<1> QED
  BY <1>3
=============================================================================
