-------------------------- MODULE RetentionProofs ---------------------------
(***************************************************************************)
(* Nothing is deleted before its window has passed, for all windows, forms, *)
(* interleavings and failing calls.                                        *)
(***************************************************************************)
EXTENDS Retention, TLAPS

\* What the janitor knows comes from settings as they were, or were read, in its pass.
Entitled(t) == \E d \in InForce(t) :
    d \in 1..MaxRetentionDays /\ janitor.cutoff <= clock - d
JanitorInv ==
    /\ janitor.at = "prune runs"  => Entitled("runs")
    /\ janitor.at = "prune audit" => Entitled("audit")
    /\ janitor.at = "read runs"   => \E a \in during["audit"] : AuditKnob(a) = Unset

IInv == TypeOK /\ JanitorInv

-----------------------------------------------------------------------------
(* The code's windows are the ones the documentation promises.             *)

LEMMA RunWindowRight ==
    ASSUME NEW v \in Int
    PROVE  retentionDays(v) = RunWindow(v) /\ retentionDays(v) \in 0..MaxRetentionDays
BY RetentionAssumption DEF retentionDays, RunWindow, FirstValid, Valid, boundedRetention

LEMMA AuditWindowRight ==
    ASSUME NEW a \in Int, NEW v \in Int
    PROVE  /\ AuditKnob(a) \in 0..MaxRetentionDays \union {Unset}
           /\ AuditWindow(a, v) = IF AuditKnob(a) = Unset THEN RunWindow(v) ELSE AuditKnob(a)
BY RetentionAssumption
   DEF AuditKnob, AuditWindow, FirstValid, Valid, boundedRetention, Unset

\* Within the bound the date arithmetic does not wrap.
LEMMA NoWrap ==
    ASSUME NEW d \in 0..MaxRetentionDays
    PROVE  d % Wrap = d
BY RetentionAssumption

LEMMA NotAtLeast ==
    ASSUME NEW a \in Int, NEW b \in Int, ~(a >= b)
    PROVE  a < b
OBVIOUS

LEMMA AtMostItself ==
    ASSUME NEW a \in Int, NEW b \in Int
    PROVE  a - b <= a - b
OBVIOUS

LEMMA ValuesType == Values \subseteq Int /\ Unset \in Values
BY RetentionAssumption DEF Values, Unset

-----------------------------------------------------------------------------
(* Types.                                                                  *)

LEMMA SaveType ==
    ASSUME TypeOK, NEW t \in Tables, NEW raw \in Values
    PROVE  LET v == saveIntSetting(saved[t], raw)
           IN  v \in Values \union 0..MaxRetentionDays
               /\ v \in Legacy \union {Unset} \union 0..MaxRetentionDays
               /\ v \in {saved[t], raw, Unset}
<1>1. saved[t] \in Values /\ saved[t] \in Legacy \union {Unset} \union 0..MaxRetentionDays
  BY DEF TypeOK
<1> QED
  BY <1>1 DEF saveIntSetting, boundedRetention

LEMMA FaultType ==
    ASSUME TypeOK, Fault \/ NoFault
    PROVE  faults' \in 0..MaxFaults
BY RetentionAssumption DEF TypeOK, Fault, NoFault

LEMMA FormType ==
    ASSUME TypeOK, NEW f \in Forms, handleSettingsPost(f)
    PROVE  /\ TypeOK'
           /\ janitor' = janitor /\ clock' = clock
           /\ \A t \in Tables : during[t] \subseteq during'[t] /\ rows[t] \subseteq rows'[t]
<1> USE DEF TypeOK
<1>1. ASSUME NEW t \in Tables, NEW raw \in Values, NEW g \in [Forms -> Form],
             faults' \in 0..MaxFaults, form' = g, Follow,
             \/ saved' = [saved EXCEPT ![t] = saveIntSetting(@, raw)]
             \/ saved' = saved,
             UNCHANGED <<clock, rows, janitor, crashes>>
      PROVE  /\ TypeOK'
             /\ janitor' = janitor /\ clock' = clock
             /\ \A u \in Tables : during[u] \subseteq during'[u] /\ rows[u] \subseteq rows'[u]
  <2>1. saved'[t] \in {saved[t], raw, Unset} /\ \A u \in Tables : u # t => saved'[u] = saved[u]
    BY <1>1, SaveType
  <2>2. saved'[t] \in Legacy \union {Unset} \union 0..MaxRetentionDays
    BY <1>1, SaveType
  <2>3. saved' \in [Tables -> Values]
    BY <1>1, <2>1, ValuesType
  <2>4. \A u \in Tables : saved'[u] \in Legacy \union {Unset} \union 0..MaxRetentionDays
    BY <2>1, <2>2
  <2>5. during' = [u \in Tables |-> during[u] \union {saved'[u]}]
    BY <1>1 DEF Follow
  <2>6. /\ during' \in [Tables -> SUBSET Values]
        /\ \A u \in Tables : saved'[u] \in during'[u] /\ during[u] \subseteq during'[u]
    BY <2>3, <2>5
  <2> QED
    BY <1>1, <2>3, <2>4, <2>6
<1>2. "runs" \in Tables /\ "audit" \in Tables
  BY DEF Tables
<1>3. ASSUME NEW r \in Posted \union {Unset}, NEW a \in Posted \union {Unset}, SaveRuns(f, r, a)
      PROVE  /\ TypeOK'
             /\ janitor' = janitor /\ clock' = clock
             /\ \A u \in Tables : during[u] \subseteq during'[u] /\ rows[u] \subseteq rows'[u]
  <2>1. r \in Values /\ a \in Values
    BY DEF Values
  <2>2. form' \in [Forms -> Form] /\ faults' \in 0..MaxFaults
    <3>1. [at |-> "runs saved", audit |-> a] \in Form
      BY <2>1 DEF Form
    <3>2. faults' \in 0..MaxFaults
      <4>1. Fault \/ NoFault
        BY <1>3, Zenon DEF SaveRuns
      <4> QED
        BY <4>1, FaultType
    <3> QED
      BY <1>3, <3>1, <3>2 DEF SaveRuns
  <2>3. \/ saved' = [saved EXCEPT !["runs"] = saveIntSetting(@, r)]
        \/ saved' = saved
    BY <1>3 DEF SaveRuns
  <2> QED
    BY <1>1, <1>2, <1>3, <2>1, <2>2, <2>3 DEF SaveRuns
<1>4. CASE SaveAudit(f)
  <2>1. form[f].audit \in Values
    BY DEF Form
  <2>2. form' \in [Forms -> Form] /\ faults' \in 0..MaxFaults
    <3>1. [form[f] EXCEPT !.at = "both saved"] \in Form
      BY DEF Form
    <3>2. faults' \in 0..MaxFaults
      <4>1. Fault \/ NoFault
        BY <1>4, Zenon DEF SaveAudit
      <4> QED
        BY <4>1, FaultType
    <3> QED
      BY <1>4, <3>1, <3>2 DEF SaveAudit
  <2>3. \/ saved' = [saved EXCEPT !["audit"] = saveIntSetting(@, form[f].audit)]
        \/ saved' = saved
    BY <1>4 DEF SaveAudit
  <2> QED
    BY <1>1, <1>2, <1>4, <2>1, <2>2, <2>3 DEF SaveAudit
<1>5. CASE Record(f)
  <2>1. NoForm \in Form
    BY ValuesType DEF NoForm, Form
  <2>2. /\ rows' \in [Tables -> SUBSET (0..MaxTime)]
        /\ \A t \in Tables : rows[t] \subseteq rows'[t]
    BY <1>2, <1>5 DEF Record
  <2>3. faults' \in 0..MaxFaults
    <3>1. Fault \/ NoFault
      BY <1>5, Zenon DEF Record
    <3> QED
      BY <3>1, FaultType
  <2>4. form' \in [Forms -> Form]
    BY <1>5, <2>1 DEF Record
  <2> QED
    BY <1>5, <2>2, <2>3, <2>4 DEF Record
<1> QED
  BY <1>3, <1>4, <1>5 DEF handleSettingsPost

\* The cutoff is an integer whatever the window.
LEMMA CutoffType ==
    ASSUME TypeOK, NEW d \in Int
    PROVE  AddDate(d) \in Int
<1>1. Wrap \in Nat /\ Wrap > 0 /\ clock \in Int
  BY RetentionAssumption DEF TypeOK
<1>2. d % Wrap \in Int
  BY <1>1
<1> QED
  BY <1>1, <1>2 DEF AddDate

LEMMA PassType ==
    ASSUME TypeOK, janitorPass
    PROVE  TypeOK'
<1> USE DEF TypeOK
<1>1. 0 \in Int
  OBVIOUS
<1>2. ASSUME NEW d \in Int, NEW step \in {"prune runs", "prune audit"}, Go(step, d)
      PROVE  janitor' \in Janitor
  <2>1. AddDate(d) \in Int
    BY CutoffType
  <2>2. janitor' = [at |-> step, cutoff |-> AddDate(d)]
    BY <1>2 DEF Go
  <2> QED
    BY <2>1, <2>2 DEF Janitor
<1>3. ASSUME NEW step \in {"idle", "read audit", "read runs"}, Rest(step)
      PROVE  janitor' \in Janitor
  <2>1. janitor' = [at |-> step, cutoff |-> 0]
    BY <1>3 DEF Rest
  <2> QED
    BY <1>1, <2>1 DEF Janitor
<1>4. ASSUME NEW t \in Tables, NEW v \in Values, Read(t, v)
      PROVE  faults' \in 0..MaxFaults
  <2>1. Fault \/ NoFault
    BY <1>4, Zenon DEF Read
  <2> QED
    BY <2>1, FaultType
<1>5. \A v \in Values : retentionDays(v) \in Int /\ AuditKnob(v) \in Int
  BY RunWindowRight, AuditWindowRight, ValuesType DEF Unset
<1>6. CASE ReadRetention
  <2>1. PICK v \in Values :
          /\ Read("runs", v)
          /\ IF retentionDays(v) > 0 THEN Go("prune runs", retentionDays(v))
                                     ELSE Rest("read audit")
          /\ during' = [t \in Tables |-> {saved[t]} \union (IF t = "runs" THEN {v} ELSE {})]
    BY <1>6 DEF ReadRetention
  <2>2. janitor' \in Janitor
    BY <1>2, <1>3, <1>5, <2>1
  <2>3. faults' \in 0..MaxFaults
    BY <1>4, <2>1 DEF Tables
  <2>4. /\ during' \in [Tables -> SUBSET Values]
        /\ \A t \in Tables : saved[t] \in during'[t]
    BY <2>1
  <2> QED
    BY <1>6, <2>2, <2>3, <2>4 DEF ReadRetention
<1>7. ASSUME NEW t \in Tables, NEW next \in {"idle", "read audit"}, Prune(t, next)
      PROVE  TypeOK'
  <2>1. rows' \in [Tables -> SUBSET (0..MaxTime)]
    BY <1>7 DEF Prune
  <2>2. faults' \in 0..MaxFaults
    <3>1. Fault \/ NoFault
      BY <1>7, Zenon DEF Prune
    <3> QED
      BY <3>1, FaultType
  <2>3. janitor' \in Janitor
    BY <1>3, <1>7 DEF Prune
  <2> QED
    BY <1>7, <2>1, <2>2, <2>3 DEF Prune
<1>8. CASE PruneRuns
  BY <1>7, <1>8 DEF PruneRuns, Tables
<1>9. CASE PruneAudit
  BY <1>7, <1>9 DEF PruneAudit, Tables
<1>10. CASE ReadAudit
  <2>1. PICK v \in Values :
          /\ Read("audit", v)
          /\ CASE AuditKnob(v) = Unset -> Rest("read runs")
               [] AuditKnob(v) = 0     -> Rest("idle")
               [] OTHER                -> Go("prune audit", AuditKnob(v))
          /\ Took("audit", v)
    BY <1>10 DEF ReadAudit
  <2>2. Rest("read runs") \/ Rest("idle") \/ Go("prune audit", AuditKnob(v))
    BY <2>1
  <2>3. janitor' \in Janitor
    BY <1>2, <1>3, <1>5, <2>2
  <2>4. faults' \in 0..MaxFaults
    BY <1>4, <2>1 DEF Tables
  <2>5. /\ during' \in [Tables -> SUBSET Values]
        /\ \A t \in Tables : saved[t] \in during'[t]
    BY <2>1 DEF Took, Tables
  <2> QED
    BY <1>10, <2>3, <2>4, <2>5 DEF ReadAudit
<1>11. CASE ReadRetentionForAudit
  <2>1. PICK v \in Values :
          /\ Read("runs", v)
          /\ IF retentionDays(v) > 0 THEN Go("prune audit", retentionDays(v))
                                     ELSE Rest("idle")
          /\ Took("runs", v)
    BY <1>11 DEF ReadRetentionForAudit
  <2>2. janitor' \in Janitor
    BY <1>2, <1>3, <1>5, <2>1
  <2>3. faults' \in 0..MaxFaults
    BY <1>4, <2>1 DEF Tables
  <2>4. /\ during' \in [Tables -> SUBSET Values]
        /\ \A t \in Tables : saved[t] \in during'[t]
    BY <2>1 DEF Took, Tables
  <2> QED
    BY <1>11, <2>2, <2>3, <2>4 DEF ReadRetentionForAudit
<1> QED
  BY <1>6, <1>8, <1>9, <1>10, <1>11 DEF janitorPass

LEMMA TypeStep == TypeOK /\ [Next]_vars => TypeOK'
<1> SUFFICES ASSUME TypeOK, [Next]_vars PROVE TypeOK'
  OBVIOUS
<1>1. CASE UNCHANGED vars
  BY <1>1 DEF TypeOK, vars
<1>2. CASE Tick
  BY <1>2, RetentionAssumption DEF TypeOK, Tick
<1>3. ASSUME NEW t \in Tables, Arrive(t) PROVE TypeOK'
  <2>1. rows' \in [Tables -> SUBSET (0..MaxTime)]
    BY <1>3 DEF TypeOK, Arrive
  <2> QED
    BY <1>3, <2>1 DEF TypeOK, Arrive
<1>4. CASE Crash
  <2>1. NoForm \in Form /\ AtRest \in Janitor
    BY ValuesType DEF NoForm, Form, AtRest, Janitor
  <2>2. crashes' \in 0..MaxCrashes
    BY <1>4, RetentionAssumption DEF TypeOK, Crash
  <2> QED
    BY <1>4, <2>1, <2>2 DEF TypeOK, Crash
<1> QED
  BY <1>1, <1>2, <1>3, <1>4, FormType, PassType DEF Next

\* Types hold, and the form never stores a window out of range.
THEOREM TypeCorrect == Spec => []TypeOK
<1>1. Init => TypeOK
  <2> SUFFICES ASSUME Init PROVE TypeOK
    OBVIOUS
  <2>1. saved \in [Tables -> Values] /\ \A t \in Tables : saved[t] \in Legacy \union {Unset}
    BY DEF Init, Values
  <2>2. NoForm \in Form /\ AtRest \in Janitor
    BY ValuesType DEF NoForm, Form, AtRest, Janitor
  <2>3. /\ during \in [Tables -> SUBSET Values]
        /\ \A t \in Tables : saved[t] \in during[t]
    BY <2>1 DEF Init
  <2> QED
    BY <2>1, <2>2, <2>3, RetentionAssumption DEF Init, TypeOK
<1> QED
  BY <1>1, TypeStep, PTL DEF Spec

-----------------------------------------------------------------------------
(* Nothing is deleted early.                                               *)

\* A row may go on being deleted when time passes or forms are saved.
LEMMA StillEntitled ==
    ASSUME TypeOK, NEW t \in Tables, Entitled(t), janitor' = janitor,
           clock' \in Int, clock <= clock',
           \A u \in Tables : during[u] \subseteq during'[u]
    PROVE  Entitled(t)'
<1>1. PICK d \in InForce(t) : d \in 1..MaxRetentionDays /\ janitor.cutoff <= clock - d
  BY DEF Entitled
<1>2. d \in InForce(t)'
  <2>1. "runs" \in Tables /\ "audit" \in Tables
    BY DEF Tables
  <2>2. during["runs"] \subseteq during'["runs"] /\ during["audit"] \subseteq during'["audit"]
    BY <2>1
  <2>3. CASE t = "runs"
    BY <1>1, <2>2, <2>3 DEF InForce, RunWindow, FirstValid, Valid
  <2>4. CASE t # "runs"
    BY <1>1, <2>2, <2>4 DEF InForce, AuditWindow, RunWindow, FirstValid, Valid
  <2> QED
    BY <2>3, <2>4
<1>3. d \in Int /\ clock \in Int /\ janitor.cutoff \in Int
  <2>1. d \in Int
    BY <1>1, RetentionAssumption
  <2>2. clock \in 0..MaxTime /\ janitor \in Janitor
    BY DEF TypeOK
  <2>3. janitor.cutoff \in Int
    BY <2>2 DEF Janitor
  <2> QED
    BY <2>1, <2>2, <2>3, RetentionAssumption
<1>4. janitor'.cutoff <= clock' - d
  BY <1>1, <1>3
<1> QED
  BY <1>1, <1>2, <1>4 DEF Entitled

\* A deleted row was condemned by a cutoff the pass computed.
LEMMA OnlyPrune ==
    ASSUME TypeOK, [Next]_vars, NEW t \in Tables, NEW x \in rows[t] \ rows'[t]
    PROVE  /\ x < janitor.cutoff
           /\ \/ t = "runs"  /\ janitor.at = "prune runs"
              \/ t = "audit" /\ janitor.at = "prune audit"
<1>1. x \in Int /\ janitor.cutoff \in Int /\ rows \in [Tables -> SUBSET (0..MaxTime)]
  <2>1. rows[t] \in SUBSET (0..MaxTime) /\ janitor \in Janitor
    BY DEF TypeOK
  <2>2. x \in 0..MaxTime
    BY <2>1
  <2>3. janitor.cutoff \in Int
    BY <2>1 DEF Janitor
  <2> QED
    BY <2>2, <2>3, RetentionAssumption DEF TypeOK
<1>2. ASSUME NEW u \in Tables, NEW next \in {"idle", "read audit"}, Prune(u, next)
      PROVE  t = u /\ x < janitor.cutoff
  <2>1. rows' = [rows EXCEPT ![u] = {y \in @ : y >= janitor.cutoff}]
    BY <1>2 DEF Prune
  <2>2. t = u
    BY <1>1, <2>1
  <2>3. ~(x >= janitor.cutoff)
    BY <1>1, <2>1, <2>2
  <2>4. x \in Int /\ janitor.cutoff \in Int
    BY <1>1
  <2>5. x < janitor.cutoff
    BY <2>3, <2>4, NotAtLeast, Zenon
  <2> QED
    BY <2>2, <2>5
<1>3. CASE PruneRuns
  BY <1>2, <1>3 DEF PruneRuns, Tables
<1>4. CASE PruneAudit
  BY <1>2, <1>4 DEF PruneAudit, Tables
<1>5. ASSUME NEW u \in Tables, Arrive(u) PROVE FALSE
  BY <1>1, <1>5 DEF Arrive
<1>6. ASSUME NEW f \in Forms, handleSettingsPost(f) PROVE FALSE
  BY <1>6, FormType
<1> QED
  BY <1>3, <1>4, <1>5, <1>6
     DEF Next, vars, Tick, Crash, janitorPass, ReadRetention, ReadAudit, ReadRetentionForAudit

\* A pass is entitled to every cutoff it computes.
LEMMA PassStep ==
    ASSUME IInv, janitorPass
    PROVE  JanitorInv'
<1> USE DEF IInv
<1>1. \A t \in Tables : during[t] \subseteq Values /\ \A v \in Values : v \in Int
  BY ValuesType DEF TypeOK
<1>2. /\ clock' = clock /\ clock \in Int /\ saved' = saved
      /\ \A t \in Tables : saved[t] \in Values /\ saved[t] \in Int /\ saved[t] \in during[t]
      /\ "runs" \in Tables /\ "audit" \in Tables
  <2>1. clock' = clock /\ saved' = saved
    BY DEF janitorPass, ReadRetention, PruneRuns, ReadAudit, ReadRetentionForAudit,
           PruneAudit, Prune
  <2>2. clock \in Int
    BY RetentionAssumption DEF TypeOK
  <2>3. \A t \in Tables : saved[t] \in Values /\ saved[t] \in during[t]
    BY DEF TypeOK
  <2>4. \A t \in Tables : saved[t] \in Int
    BY <2>3, ValuesType
  <2> QED
    BY <2>1, <2>2, <2>3, <2>4 DEF Tables
<1>3. ASSUME NEW d \in 1..MaxRetentionDays, NEW step, Go(step, d)
      PROVE  janitor'.at = step /\ janitor'.cutoff = clock - d
  <2>1. d % Wrap = d
    BY NoWrap, RetentionAssumption
  <2> QED
    BY <1>3, <2>1 DEF Go, AddDate
<1>4. ASSUME NEW step \in {"idle", "read audit"}, Rest(step)
      PROVE  JanitorInv'
  BY <1>4 DEF Rest, JanitorInv
<1>5. CASE ReadRetention
  <2>1. PICK v \in Values :
          /\ IF retentionDays(v) > 0 THEN Go("prune runs", retentionDays(v))
                                     ELSE Rest("read audit")
          /\ during' = [t \in Tables |-> {saved[t]} \union (IF t = "runs" THEN {v} ELSE {})]
    BY <1>5 DEF ReadRetention
  <2>2. CASE retentionDays(v) > 0
    <3> DEFINE d == retentionDays(v)
    <3>1. d = RunWindow(v) /\ d \in 1..MaxRetentionDays
      <4>1. v \in Int
        BY ValuesType
      <4> QED
        BY <2>2, <4>1, RunWindowRight, RetentionAssumption
    <3>2. janitor'.at = "prune runs" /\ janitor'.cutoff = clock - d
      BY <1>3, <2>1, <2>2, <3>1
    <3>3. v \in during'["runs"]
      BY <1>2, <2>1
    <3>4. d \in InForce("runs")'
      BY <3>1, <3>3 DEF InForce, RunWindow, FirstValid, Valid
    <3> HIDE DEF d
    <3>5. janitor'.cutoff <= clock' - d
      <4>1. clock' = clock /\ clock \in Int
        BY <1>2
      <4>2. d \in Int
        BY <3>1, RetentionAssumption
      <4> QED
        BY <3>2, <4>1, <4>2, AtMostItself, Zenon
    <3> QED
      BY <3>1, <3>2, <3>4, <3>5 DEF JanitorInv, Entitled
  <2>3. CASE ~(retentionDays(v) > 0)
    BY <1>4, <2>1, <2>3
  <2> QED
    BY <2>2, <2>3
<1>6. CASE PruneRuns \/ PruneAudit
  BY <1>4, <1>6 DEF PruneRuns, PruneAudit, Prune
<1>7. CASE ReadAudit
  <2>0. PICK v \in Values :
          /\ CASE AuditKnob(v) = Unset -> Rest("read runs")
               [] AuditKnob(v) = 0     -> Rest("idle")
               [] OTHER                -> Go("prune audit", AuditKnob(v))
          /\ Took("audit", v)
    BY <1>7 DEF ReadAudit
  <2> DEFINE k == AuditKnob(v)
  <2>1. /\ k = Unset => Rest("read runs")
        /\ k = 0 => Rest("idle")
        /\ k # Unset /\ k # 0 => Go("prune audit", k)
    <3>1. Unset # 0
      BY DEF Unset
    <3> QED
      BY <2>0, <3>1
  <2>2. k \in 0..MaxRetentionDays \union {Unset}
    <3>1. v \in Int
      BY ValuesType
    <3> QED
      BY <1>2, <3>1, AuditWindowRight
  <2>3. v \in during'["audit"] /\ saved["runs"] \in during'["runs"]
    BY <1>2, <2>0 DEF Took, TypeOK
  <2>4. CASE k = Unset
    <3>1. janitor'.at = "read runs"
      <4>1. Rest("read runs")
        BY <2>1, <2>4
      <4> QED
        BY <4>1 DEF Rest
    <3>2. \E a \in during'["audit"] : AuditKnob(a) = Unset
      BY <1>2, <2>3, <2>4
    <3> QED
      BY <3>1, <3>2 DEF JanitorInv, AuditKnob, boundedRetention
  <2>5. CASE k = 0
    BY <1>4, <2>1, <2>5
  <2>6. CASE k # Unset /\ k # 0
    <3>1. k \in 1..MaxRetentionDays
      BY <2>2, <2>6, RetentionAssumption
    <3>2. janitor'.at = "prune audit" /\ janitor'.cutoff = clock - k
      BY <1>3, <2>1, <2>6, <3>1
    <3>3. k = AuditWindow(v, saved["runs"])
      BY <1>1, <1>2, <2>6, AuditWindowRight
    <3>4. k \in InForce("audit")'
      BY <1>2, <2>3, <3>3 DEF InForce, AuditWindow, RunWindow, FirstValid, Valid
    <3> HIDE DEF k
    <3>5. janitor'.cutoff <= clock' - k
      <4>1. clock' = clock /\ clock \in Int
        BY <1>2
      <4>2. k \in Int
        BY <3>1, RetentionAssumption
      <4> QED
        BY <3>2, <4>1, <4>2, AtMostItself, Zenon
    <3> QED
      BY <3>1, <3>2, <3>4, <3>5 DEF JanitorInv, Entitled
  <2> QED
    BY <2>4, <2>5, <2>6
<1>8. CASE ReadRetentionForAudit
  <2>1. PICK v \in Values :
          /\ IF retentionDays(v) > 0 THEN Go("prune audit", retentionDays(v))
                                     ELSE Rest("idle")
          /\ Took("runs", v)
    BY <1>8 DEF ReadRetentionForAudit
  <2>2. CASE retentionDays(v) > 0
    <3> DEFINE d == retentionDays(v)
    <3>1. d = RunWindow(v) /\ d \in 1..MaxRetentionDays
      <4>1. v \in Int
        BY ValuesType
      <4> QED
        BY <2>2, <4>1, RunWindowRight, RetentionAssumption
    <3>2. janitor'.at = "prune audit" /\ janitor'.cutoff = clock - d
      BY <1>3, <2>1, <2>2, <3>1
    <3>3. /\ during["audit"] \subseteq during'["audit"] /\ v \in during'["runs"]
          /\ janitor.at = "read runs"
      BY <1>2, <1>8, <2>1 DEF ReadRetentionForAudit, Took, TypeOK
    <3>4. PICK a \in during["audit"] : AuditKnob(a) = Unset
      BY <3>3 DEF JanitorInv
    <3>5. a \in Int
      BY <1>1, <1>2, <3>4
    <3>6. d = AuditWindow(a, v)
      BY <1>1, <1>2, <3>1, <3>4, <3>5, AuditWindowRight
    <3>7. d \in InForce("audit")'
      <4>1. a \in during'["audit"] /\ v \in during'["runs"]
        BY <1>2, <3>3, <3>4
      <4> HIDE DEF d
      <4> QED
        BY <3>6, <4>1 DEF InForce, AuditWindow, RunWindow, FirstValid, Valid
    <3> HIDE DEF d
    <3>8. janitor'.cutoff <= clock' - d
      <4>1. clock' = clock /\ clock \in Int
        BY <1>2
      <4>2. d \in Int
        BY <3>1, RetentionAssumption
      <4> QED
        BY <3>2, <4>1, <4>2, AtMostItself, Zenon
    <3> QED
      BY <3>1, <3>2, <3>7, <3>8 DEF JanitorInv, Entitled
  <2>3. CASE ~(retentionDays(v) > 0)
    BY <1>4, <2>1, <2>3
  <2> QED
    BY <2>2, <2>3
<1> QED
  BY <1>5, <1>6, <1>7, <1>8 DEF janitorPass

LEMMA InvStep ==
    ASSUME IInv, [Next]_vars
    PROVE  IInv'
<1>1. TypeOK'
  BY TypeStep DEF IInv
<1>2. ASSUME janitor' = janitor, clock <= clock',
             \A t \in Tables : during[t] \subseteq during'[t]
      PROVE  JanitorInv'
  <2>1. clock' \in Int
    BY <1>1, RetentionAssumption DEF TypeOK
  <2>2. "runs" \in Tables /\ "audit" \in Tables
    BY DEF Tables
  <2>3. Entitled("runs") => Entitled("runs")'
    BY <1>2, <2>1, <2>2, StillEntitled DEF IInv
  <2>4. Entitled("audit") => Entitled("audit")'
    BY <1>2, <2>1, <2>2, StillEntitled DEF IInv
  <2> QED
    BY <1>2, <2>2, <2>3, <2>4 DEF IInv, JanitorInv, AuditKnob, boundedRetention
<1>3. clock \in Int
  BY RetentionAssumption DEF IInv, TypeOK
<1>4. ASSUME UNCHANGED vars PROVE JanitorInv'
  <2>1. janitor' = janitor /\ clock' = clock /\ during' = during
    BY <1>4 DEF vars
  <2>2. clock <= clock'
    BY <1>3, <2>1
  <2> QED
    BY <1>2, <2>1, <2>2
<1>5. ASSUME Tick PROVE JanitorInv'
  <2>1. janitor' = janitor /\ clock' = clock + 1 /\ during' = during
    BY <1>5 DEF Tick
  <2>2. clock <= clock'
    BY <1>3, <2>1
  <2> QED
    BY <1>2, <2>1, <2>2
<1>6. ASSUME NEW t \in Tables, Arrive(t) PROVE JanitorInv'
  BY <1>2, <1>3, <1>6 DEF Arrive
<1>7. ASSUME Crash PROVE JanitorInv'
  <2>1. janitor'.at = "idle"
    BY <1>7 DEF Crash, AtRest
  <2> QED
    BY <2>1 DEF JanitorInv
<1>8. ASSUME NEW f \in Forms, handleSettingsPost(f) PROVE JanitorInv'
  BY <1>2, <1>3, <1>8, FormType DEF IInv
<1>9. ASSUME janitorPass PROVE JanitorInv'
  BY <1>9, PassStep
<1> QED
  BY <1>1, <1>4, <1>5, <1>6, <1>7, <1>8, <1>9 DEF Next, IInv

\* No row is deleted before a window that was in force during the pass, or stood in for
\* one that could not be read, has gone by.
THEOREM NothingPrunedEarly == Spec => NoEarlyPrune
<1>1. Init => JanitorInv
  BY DEF Init, AtRest, JanitorInv
<1>2. IInv /\ [Next]_vars =>
        \A t \in Tables : \A x \in rows[t] \ rows'[t] :
          \E d \in InForce(t) : d > 0 /\ x < clock - d
  <2> SUFFICES ASSUME IInv, [Next]_vars, NEW t \in Tables, NEW x \in rows[t] \ rows'[t]
               PROVE  \E d \in InForce(t) : d > 0 /\ x < clock - d
    OBVIOUS
  <2>1. x < janitor.cutoff /\ Entitled(t)
    BY OnlyPrune DEF IInv, JanitorInv
  <2>2. PICK d \in InForce(t) : d \in 1..MaxRetentionDays /\ janitor.cutoff <= clock - d
    BY <2>1 DEF Entitled
  <2>3. x \in Int /\ janitor.cutoff \in Int /\ clock \in Int
    <3>1. rows[t] \in SUBSET (0..MaxTime) /\ janitor \in Janitor /\ clock \in 0..MaxTime
      BY DEF IInv, TypeOK
    <3>2. janitor.cutoff \in Int
      BY <3>1 DEF Janitor
    <3>3. x \in 0..MaxTime
      BY <3>1
    <3> QED
      BY <3>1, <3>2, <3>3, RetentionAssumption
  <2> QED
    BY <2>1, <2>2, <2>3, RetentionAssumption
<1>3. IInv /\ [Next]_vars => IInv'
  BY InvStep
<1>4. TypeOK /\ JanitorInv <=> IInv
  BY DEF IInv
<1> QED
  BY <1>1, <1>2, <1>3, <1>4, TypeCorrect, PTL DEF NoEarlyPrune, Spec
=============================================================================
