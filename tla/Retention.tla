----------------------------- MODULE Retention ------------------------------
(***************************************************************************)
(* How long runs and audit events are kept.                                *)
(*                                                                         *)
(* The windows come from the settings form, else from the environment, else *)
(* rows are kept.  The form saves its fields one by one; the janitor reads *)
(* the settings one by one, computes a cutoff and deletes in a statement of *)
(* its own, and a failing read looks like a setting that is not there.     *)
(* Time counts in days.  Rows are told apart by their date only.           *)
(***************************************************************************)
EXTENDS Integers, FiniteSets

CONSTANTS
    Posted,            \* values the form may hold, in and out of range
    Legacy,            \* values stored before the bound existed
    EnvRetention,      \* EGRET_NEST_RETENTION_DAYS
    EnvAudit,          \* EGRET_NEST_AUDIT_RETENTION_DAYS
    MaxRetentionDays,
    Wrap,              \* days after which time.AddDate wraps around
    Forms,             \* goroutines that serve POST /admin/settings
    MaxTime,           \* bound: the clock
    MaxFaults,         \* bound: how many store calls fail
    MaxCrashes         \* bound: how often the process dies

Unset == -1            \* no settings row, a blank field

ASSUME RetentionAssumption ==
    /\ Posted \subseteq Int /\ Legacy \subseteq Int
    /\ EnvRetention \in Int /\ EnvAudit \in Int
    /\ MaxRetentionDays \in Nat /\ Wrap \in Nat /\ MaxRetentionDays < Wrap
    /\ MaxTime \in Nat /\ MaxFaults \in Nat /\ MaxCrashes \in Nat

VARIABLES
    clock,     \* the day
    saved,     \* saved[t]: the settings row for table t, or Unset
    rows,      \* rows[t]: the dates of the rows of table t
    form,      \* form[f]: the local variables of handleSettingsPost
    janitor,   \* the local variables of janitorPass
    during,    \* during[t]: history variable, what saved[t] was, or was taken for, since
               \* the pass began
    faults, crashes

vars == <<clock, saved, rows, form, janitor, during, faults, crashes>>

-----------------------------------------------------------------------------

Tables == {"runs", "audit"}
Values == Posted \union Legacy \union {Unset}
Form == [at : {"idle", "runs saved", "both saved"}, audit : Values]
Janitor == [at : {"idle", "prune runs", "read audit", "read runs", "prune audit"},
            cutoff : Int]
NoForm == [at |-> "idle", audit |-> Unset]
AtRest == [at |-> "idle", cutoff |-> 0]

\* A store call fails: bounded, and it changes no row.
Fault   == faults < MaxFaults /\ faults' = faults + 1
NoFault == faults' = faults

boundedRetention_NoMax(n) == n >= 0        \* a slip: overflow is not thought of
boundedRetention(n) == n \in 0..MaxRetentionDays

\* A GUI value in range, else the environment's, else 0, which keeps everything.
retentionDays_GUIOnly(v) == IF boundedRetention(v) THEN v ELSE 0       \* a slip
retentionDays(v) ==
    IF boundedRetention(v) THEN v
    ELSE IF boundedRetention(EnvRetention) THEN EnvRetention ELSE 0

\* The audit knobs, if one of them is set; otherwise the run window is asked for.
AuditKnob(v) == IF boundedRetention(v) THEN v
                ELSE IF boundedRetention(EnvAudit) /\ EnvAudit > 0 THEN EnvAudit
                ELSE Unset

\* A blank field clears the setting, a value out of range is ignored.
saveIntSetting(old, raw) ==
    IF raw = Unset THEN Unset ELSE IF boundedRetention(raw) THEN raw ELSE old

\* time.Now().AddDate(0, 0, -d), whose seconds have a fixed width.
AddDate(d) == clock - (d % Wrap)

\* The history variable follows the settings while a pass is under way.
Follow == during' = [t \in Tables |-> during[t] \union {saved'[t]}]

Init ==
    /\ clock = 0
    /\ saved \in [Tables -> Legacy \union {Unset}]
    /\ rows = [t \in Tables |-> {}]
    /\ form = [f \in Forms |-> NoForm]
    /\ janitor = AtRest
    /\ during = [t \in Tables |-> {saved[t]}]
    /\ faults = 0 /\ crashes = 0

-----------------------------------------------------------------------------
(* The environment.                                                        *)

Tick ==
    /\ clock < MaxTime
    /\ clock' = clock + 1
    /\ UNCHANGED <<saved, rows, form, janitor, during, faults, crashes>>

\* A run is ingested, or an audited action happens.
Arrive(t) ==
    /\ rows' = [rows EXCEPT ![t] = @ \union {clock}]
    /\ UNCHANGED <<clock, saved, form, janitor, during, faults, crashes>>

Crash ==
    /\ crashes < MaxCrashes /\ crashes' = crashes + 1
    /\ form' = [f \in Forms |-> NoForm]
    /\ janitor' = AtRest
    /\ UNCHANGED <<clock, saved, rows, during, faults>>

-----------------------------------------------------------------------------
(* handleSettingsPost, action "save"; errors of the store are ignored.     *)

SaveRuns(f, r, a) ==
    /\ form[f].at = "idle"
    /\ \/ NoFault /\ saved' = [saved EXCEPT !["runs"] = saveIntSetting(@, r)]
       \/ Fault /\ UNCHANGED saved
    /\ form' = [form EXCEPT ![f] = [at |-> "runs saved", audit |-> a]]
    /\ Follow
    /\ UNCHANGED <<clock, rows, janitor, crashes>>

SaveAudit(f) ==
    /\ form[f].at = "runs saved"
    /\ \/ NoFault /\ saved' = [saved EXCEPT !["audit"] = saveIntSetting(@, form[f].audit)]
       \/ Fault /\ UNCHANGED saved
    /\ form' = [form EXCEPT ![f].at = "both saved"]
    /\ Follow
    /\ UNCHANGED <<clock, rows, janitor, crashes>>

\* s.audit: the change is recorded, or recording it fails.
Record(f) ==
    /\ form[f].at = "both saved"
    /\ \/ NoFault /\ rows' = [rows EXCEPT !["audit"] = @ \union {clock}]
       \/ Fault /\ UNCHANGED rows
    /\ form' = [form EXCEPT ![f] = NoForm]
    /\ UNCHANGED <<clock, saved, janitor, during, crashes>>

-----------------------------------------------------------------------------
(* janitorPass.                                                            *)

\* GetSetting, whose error is dropped: the row, or nothing when it cannot be read.
Read(t, v) ==
    \/ NoFault /\ v = saved[t]
    \/ Fault /\ v = Unset

Go(step, d) == janitor' = [at |-> step, cutoff |-> AddDate(d)]
Rest(step)  == janitor' = [at |-> step, cutoff |-> 0]

\* The history variable follows what the pass takes a setting for.
Took(t, v) == during' = [during EXCEPT ![t] = @ \union {v}]

\* A pass begins: the window for runs.
ReadRetention ==
    /\ janitor.at = "idle"
    /\ \E v \in Values :
          /\ Read("runs", v)
          /\ IF retentionDays(v) > 0 THEN Go("prune runs", retentionDays(v))
                                     ELSE Rest("read audit")
          /\ during' = [t \in Tables |-> {saved[t]} \union (IF t = "runs" THEN {v} ELSE {})]
    /\ UNCHANGED <<clock, saved, rows, form, crashes>>

Prune(t, next) ==
    /\ \/ NoFault /\ rows' = [rows EXCEPT ![t] = {x \in @ : x >= janitor.cutoff}]
       \/ Fault /\ UNCHANGED rows
    /\ Rest(next)
    /\ UNCHANGED <<clock, saved, form, during, crashes>>

PruneRuns == janitor.at = "prune runs" /\ Prune("runs", "read audit")

\* The audit window; when no knob of its own is set retentionDays is asked again.
ReadAudit ==
    /\ janitor.at = "read audit"
    /\ \E v \in Values :
          /\ Read("audit", v)
          /\ CASE AuditKnob(v) = Unset -> Rest("read runs")
               [] AuditKnob(v) = 0     -> Rest("idle")
               [] OTHER                -> Go("prune audit", AuditKnob(v))
          /\ Took("audit", v)
    /\ UNCHANGED <<clock, saved, rows, form, crashes>>

ReadRetentionForAudit ==
    /\ janitor.at = "read runs"
    /\ \E v \in Values :
          /\ Read("runs", v)
          /\ IF retentionDays(v) > 0 THEN Go("prune audit", retentionDays(v))
                                     ELSE Rest("idle")
          /\ Took("runs", v)
    /\ UNCHANGED <<clock, saved, rows, form, crashes>>

PruneAudit == janitor.at = "prune audit" /\ Prune("audit", "idle")

janitorPass ==
    ReadRetention \/ PruneRuns \/ ReadAudit \/ ReadRetentionForAudit \/ PruneAudit

-----------------------------------------------------------------------------

handleSettingsPost(f) ==
    \/ \E r, a \in Posted \union {Unset} : SaveRuns(f, r, a)
    \/ SaveAudit(f)
    \/ Record(f)

Next ==
    \/ Tick
    \/ \E t \in Tables : Arrive(t)
    \/ \E f \in Forms : handleSettingsPost(f)
    \/ janitorPass
    \/ Crash

Spec == Init /\ [][Next]_vars

\* RunJanitor passes at once and every hour for as long as the process runs.
LiveSpec == Spec /\ WF_vars(janitorPass)

-----------------------------------------------------------------------------
(* Properties.  The windows as an operator reads the documentation: a value *)
(* from 1 to MaxRetentionDays is a window, 0 keeps, anything else is absent. *)

\* Types; the form never stores a value out of range (saveIntSetting).
TypeOK ==
    /\ \A t \in Tables : saved[t] \in Legacy \union {Unset} \union 0..MaxRetentionDays
    /\ clock \in 0..MaxTime
    /\ saved \in [Tables -> Values]
    /\ rows \in [Tables -> SUBSET (0..MaxTime)]
    /\ form \in [Forms -> Form]
    /\ janitor \in Janitor
    /\ during \in [Tables -> SUBSET Values] /\ \A t \in Tables : saved[t] \in during[t]
    /\ faults \in 0..MaxFaults /\ crashes \in 0..MaxCrashes

Valid == 0..MaxRetentionDays
FirstValid(a, b, c) == IF a \in Valid THEN a ELSE IF b \in Valid THEN b ELSE c
RunWindow(r)      == FirstValid(r, EnvRetention, 0)
AuditWindow(a, r) == FirstValid(a, IF EnvAudit = 0 THEN Unset ELSE EnvAudit, RunWindow(r))

\* Windows that were in force for a table while the current pass ran, or that stood in
\* for one when a setting could not be read.
InForce(t) ==
    IF t = "runs" THEN {RunWindow(r) : r \in during["runs"]}
    ELSE {AuditWindow(a, r) : a \in during["audit"], r \in during["runs"]}

\* Nothing is deleted early: a row goes only if it is older than a window that was
\* in force during the pass, and never when the settings say to keep everything.
\* Not a huge value, a form saved during the pass, a failing statement or a crash
\* deletes more than that; a setting that cannot be read may put the environment's
\* window in its place, and no other.
NoEarlyPrune ==
    [][\A t \in Tables : \A x \in rows[t] \ rows'[t] :
          \E d \in InForce(t) : d > 0 /\ x < clock - d]_vars

Window(t) == IF t = "runs" THEN RunWindow(saved["runs"])
             ELSE AuditWindow(saved["audit"], saved["runs"])
Expired(t, x) == x \in rows[t] /\ Window(t) > 0 /\ x < clock - Window(t)

\* What has outlived its window is deleted in the end, failing statements and
\* crashes notwithstanding, unless the window is changed.
EventuallyPruned ==
    \A t \in Tables, x \in 0..MaxTime : Expired(t, x) ~> ~Expired(t, x)
=============================================================================
