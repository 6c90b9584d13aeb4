--------------------------- MODULE DeliveryProofs ---------------------------
(***************************************************************************)
(* Opening the store destroys nothing, and what a CI job was told is in it, *)
(* for any number of processes, jobs, requests, attempts and kills.        *)
(***************************************************************************)
EXTENDS Delivery, FiniteSetTheorems, WellFoundedInduction, TLAPS

-----------------------------------------------------------------------------
(* Opening the store.                                                      *)

\* Steps of a process that leave the tables missing at first.
Before == {"off", "runs", "seen"}

\* endpoints_seen_new is there as long as a process is rebuilding, and it is the only
\* one; what it has copied is all of the old history.
Staged ==
    /\ \A p \in Processes : proc[p] \in Rebuild =>
          /\ staging.form = "current"
          /\ \A q \in Processes : proc[q] \in Rebuild => q = p
    /\ \A p \in Processes : proc[p] = "copy" => staging.rows = {}
    /\ \A p \in Processes : proc[p] \in {"drop", "rename"} => owed \subseteq staging.rows
    /\ staging = NoTable \/ staging.form = "current"
    /\ staging # NoTable => Rebuilding \/ interrupted

\* How far the statements of the processes have brought the tables.
Brought ==
    /\ seen.form = "absent" => seen.rows = {}
    /\ \A p \in Processes : proc[p] \notin {"off", "runs"} => runs # "absent"
    /\ \A p \in Processes :
          proc[p] \in Rebuild \union {"org?", "create", "auth", "open"} => runs = "current"
    /\ \A p \in Processes : proc[p] \in {"auth", "open"} => seen.form # "old"
    /\ \/ seen.form # "absent"
       \/ \A p \in Processes : proc[p] \in Before
       \/ \E p \in Processes : proc[p] = "rename"
       \/ interrupted

OpenInv ==
    /\ TypeOK
    /\ owed \subseteq {Unassigned} \X Endpoints
    /\ OldRowsSurvive
    /\ Staged
    /\ Brought

LEMMA RowsType ==
    /\ Server \in Processes /\ Unassigned \in OrgIds
    /\ Backfilled \subseteq {Unassigned} \X Endpoints
    /\ {Unassigned} \X Endpoints \subseteq Rows
BY UpgradeAssumption DEF Processes, Backfilled, Rows

LEMMA OpenInit == Init => OpenInv
<1> SUFFICES ASSUME Init PROVE OpenInv
  OBVIOUS
<1>1. TypeOK
  <2>1. Backfilled \in SUBSET Rows /\ {} \in SUBSET Rows
    BY RowsType
  <2>2. /\ runs \in Forms /\ owed \subseteq Rows
        /\ {seen, staging} \subseteq [form : Forms, rows : SUBSET Rows]
    <3>1. CASE runs = "absent" /\ seen = NoTable /\ owed = {}
      BY <3>1 DEF Init, NoTable, Forms
    <3>2. CASE runs = "old" /\ seen = Table("old", Backfilled) /\ owed = Backfilled
      BY <2>1, <3>2 DEF Init, NoTable, Table, Forms
    <3> QED
      BY <3>1, <3>2 DEF Init
  <2>3. /\ proc \in [Processes -> Steps] /\ crashes \in 0..MaxCrashes
        /\ interrupted \in BOOLEAN
    <3>1. "off" \in Steps
      BY DEF Steps
    <3>2. crashes = 0 /\ interrupted = FALSE /\ proc = [q \in Processes |-> "off"]
      BY DEF Init
    <3>3. 0 \in 0..MaxCrashes
      BY UpgradeAssumption
    <3> QED
      BY <3>1, <3>2, <3>3
  <2> QED
    BY <2>2, <2>3 DEF TypeOK
<1>2. OldRowsSurvive /\ owed \subseteq {Unassigned} \X Endpoints
  BY RowsType DEF Init, OldRowsSurvive, NoTable, Table
<1>3. Staged
  BY DEF Init, Staged, Rebuild, NoTable, Rebuilding
<1>4. Brought
  BY DEF Init, Brought, Rebuild, Before, NoTable, Table
<1> QED
  BY <1>1, <1>2, <1>3, <1>4 DEF OpenInv

\* One process moves: the others stay where they are.
Moves(p, step) ==
    /\ \A q \in Processes : proc'[q] = IF q = p THEN step ELSE proc[q]
    /\ proc' \in [Processes -> Steps]

LEMMA GotoMoves ==
    ASSUME OpenInv, NEW p \in Processes, NEW step \in Steps, Goto(p, step)
    PROVE  Moves(p, step) /\ UNCHANGED <<crashes, interrupted>>
BY DEF OpenInv, TypeOK, Goto, Moves

LEMMA ExitMoves ==
    ASSUME OpenInv, NEW p \in Processes, Exit(p)
    PROVE  /\ Moves(p, "off") /\ interrupted' \in BOOLEAN
           /\ interrupted' = (interrupted \/ proc[p] \in Rebuild)
BY DEF OpenInv, TypeOK, Exit, Moves, Steps

\* A process goes on without touching a table, or ends.
LEMMA QuietStep ==
    ASSUME OpenInv, NEW p \in Processes, NEW step \in Steps \ Rebuild, Moves(p, step),
           UNCHANGED tables, crashes' \in 0..MaxCrashes, interrupted' \in BOOLEAN,
           interrupted' = (interrupted \/ proc[p] \in Rebuild),
           step \notin {"off", "runs"} => runs # "absent",
           step \in {"org?", "create", "auth", "open"} => runs = "current",
           step \in {"auth", "open"} => seen.form # "old",
           step \notin Before => proc[p] \notin Before
    PROVE  OpenInv'
<1>1. TypeOK'
  BY DEF OpenInv, TypeOK, Moves, tables
<1>2. OldRowsSurvive' /\ owed' \subseteq {Unassigned} \X Endpoints
  BY DEF OpenInv, OldRowsSurvive, tables
<1>3. Staged'
  <2>1. \A q \in Processes : proc'[q] \in Rebuild => proc[q] = proc'[q] /\ q # p
    BY DEF Moves
  <2>2. Rebuilding => Rebuilding' \/ interrupted'
    <3>1. ASSUME NEW q \in Processes, proc[q] \in Rebuild PROVE Rebuilding' \/ interrupted'
      BY <3>1 DEF Moves, Rebuilding
    <3> QED
      BY <3>1 DEF Rebuilding
  <2> QED
    BY <2>1, <2>2 DEF OpenInv, Staged, tables, Rebuild
<1>4. Brought'
  <2>1. ASSUME NEW q \in Processes, proc[q] = "rename"
        PROVE  interrupted' \/ \E r \in Processes : proc'[r] = "rename"
    BY <2>1 DEF Moves, Rebuild
  <2>2. \/ seen'.form # "absent"
        \/ \A q \in Processes : proc'[q] \in Before
        \/ \E q \in Processes : proc'[q] = "rename"
        \/ interrupted'
    BY <2>1 DEF OpenInv, Brought, Moves, tables
  <2> QED
    BY <2>2 DEF OpenInv, Brought, Moves, tables, Rebuild
<1> QED
  BY <1>1, <1>2, <1>3, <1>4 DEF OpenInv

LEMMA FailStep ==
    ASSUME OpenInv, NEW p \in Processes, Fail(p)
    PROVE  OpenInv'
<1>1. Moves(p, "off") /\ interrupted' \in BOOLEAN
      /\ interrupted' = (interrupted \/ proc[p] \in Rebuild)
  BY ExitMoves DEF Fail
<1>2. crashes' \in 0..MaxCrashes /\ UNCHANGED tables
  BY DEF Fail, OpenInv, TypeOK
<1> QED
  BY <1>1, <1>2, QuietStep DEF Steps, Rebuild, Before

LEMMA CrashStep ==
    ASSUME OpenInv, NEW p \in Processes, Crash(p)
    PROVE  OpenInv'
<1>1. Moves(p, "off") /\ interrupted' \in BOOLEAN
      /\ interrupted' = (interrupted \/ proc[p] \in Rebuild)
  BY ExitMoves DEF Crash
<1>2. crashes' \in 0..MaxCrashes /\ UNCHANGED tables
  BY UpgradeAssumption DEF Crash, OpenInv, TypeOK
<1> QED
  BY <1>1, <1>2, QuietStep DEF Steps, Rebuild, Before

\* A statement that changes no table.
LEMMA LookStep ==
    ASSUME OpenInv, NEW p \in Processes,
           Start(p) \/ HasCount(p) \/ HasOrg(p) \/ MigrateAuth(p) \/ CloseStore(p)
    PROVE  OpenInv'
<1>1. PICK step \in {"runs", "count", "org?", "create", "auth", "open", "off"} :
         /\ Goto(p, step) /\ UNCHANGED tables
         /\ proc[p] \notin Rebuild
         /\ step \notin {"off", "runs"} => runs # "absent"
         /\ step \in {"org?", "create", "auth", "open"} => runs = "current"
         /\ step \in {"auth", "open"} => seen.form # "old"
         /\ step \notin Before => proc[p] \notin Before
  <2>1. CASE Start(p)
    BY <2>1 DEF Start, Before, Rebuild
  <2>2. CASE HasCount(p)
    BY <2>2 DEF HasCount, OpenInv, Brought, Before, Rebuild
  <2>3. CASE HasOrg(p)
    BY <2>3 DEF HasOrg, OpenInv, Brought, Before, Rebuild
  <2>4. CASE MigrateAuth(p)
    BY <2>4 DEF MigrateAuth, OpenInv, Brought, Before, Rebuild
  <2>5. CASE CloseStore(p)
    BY <2>5 DEF CloseStore, OpenInv, Brought, Before, Rebuild
  <2> QED
    BY <2>1, <2>2, <2>3, <2>4, <2>5
<1>2. step \in Steps \ Rebuild
  BY DEF Steps, Rebuild
<1>3. Moves(p, step) /\ UNCHANGED <<crashes, interrupted>>
  BY <1>1, <1>2, GotoMoves
<1>4. crashes' \in 0..MaxCrashes /\ interrupted' \in BOOLEAN
      /\ interrupted' = (interrupted \/ proc[p] \in Rebuild)
  BY <1>1, <1>3 DEF OpenInv, TypeOK
<1> QED
  BY <1>1, <1>2, <1>3, <1>4, QuietStep

\* A statement that changes a table outside a rebuild: it adds to it.
LEMMA AddStep ==
    ASSUME OpenInv, NEW p \in Processes, NEW step \in {"seen", "count?", "org?"},
           Moves(p, step), UNCHANGED <<staging, owed, crashes, interrupted>>,
           proc[p] \notin Rebuild \union {"auth", "open"},
           runs' \in {runs, "current"}, runs' # "absent",
           step = "org?" => runs' = "current" /\ proc[p] \notin Before,
           step = "count?" => seen'.form # "absent",
           \/ UNCHANGED seen
           \/ seen.form = "absent" /\ seen' = Table("current", {})
    PROVE  OpenInv'
<1>1. TypeOK'
  BY DEF OpenInv, TypeOK, Moves, Forms, Table
<1>2. OldRowsSurvive' /\ owed' \subseteq {Unassigned} \X Endpoints
  BY DEF OpenInv, OldRowsSurvive, Brought, Table
<1>3. Staged'
  <2>1. \A q \in Processes : proc'[q] \in Rebuild <=> proc[q] \in Rebuild
    BY DEF Moves, Rebuild
  <2>2. \A q \in Processes : proc'[q] \in Rebuild => proc'[q] = proc[q]
    BY DEF Moves, Rebuild
  <2> QED
    BY <2>1, <2>2 DEF OpenInv, Staged, Rebuilding, Rebuild
<1>4. Brought'
  <2>1. \A q \in Processes : q # p => proc'[q] = proc[q]
    BY DEF Moves
  <2>2. proc'[p] = step
    BY DEF Moves
  <2>3. seen'.form = "absent" => seen' = seen
    BY DEF Table
  <2>4. \/ seen'.form # "absent"
        \/ \A q \in Processes : proc'[q] \in Before
        \/ \E q \in Processes : proc'[q] = "rename"
        \/ interrupted'
    BY <2>1, <2>2, <2>3 DEF OpenInv, Brought, Before, Rebuild
  <2> QED
    BY <2>1, <2>2, <2>3, <2>4 DEF OpenInv, Brought, Table, Rebuild
<1> QED
  BY <1>1, <1>2, <1>3, <1>4 DEF OpenInv

LEMMA CreateRunsStep ==
    ASSUME OpenInv, NEW p \in Processes, CreateRuns(p)
    PROVE  OpenInv'
<1>1. Moves(p, "seen") /\ UNCHANGED <<crashes, interrupted>>
  BY GotoMoves DEF CreateRuns, Steps
<1> QED
  BY <1>1, AddStep DEF CreateRuns, Rebuild

LEMMA CreateSeenStep ==
    ASSUME OpenInv, NEW p \in Processes, CreateSeen(p)
    PROVE  OpenInv'
<1>1. Moves(p, "count?") /\ UNCHANGED <<crashes, interrupted>>
  BY GotoMoves DEF CreateSeen, Steps
<1>2. runs # "absent" /\ UNCHANGED <<runs, staging, owed>>
  BY DEF CreateSeen, OpenInv, Brought
<1>3. seen'.form # "absent"
  BY DEF CreateSeen, Table
<1> QED
  BY <1>1, <1>2, <1>3, AddStep DEF CreateSeen, Rebuild

LEMMA AddCountStep ==
    ASSUME OpenInv, NEW p \in Processes, AddCount(p)
    PROVE  OpenInv'
<1>1. CASE runs = "old"
  <2>1. Moves(p, "org?") /\ UNCHANGED <<crashes, interrupted>>
    BY <1>1, GotoMoves DEF AddCount, Steps
  <2> QED
    BY <1>1, <2>1, AddStep DEF AddCount, Rebuild, Before
<1>2. CASE runs # "old"
  BY <1>2, FailStep DEF AddCount
<1> QED
  BY <1>1, <1>2

\* A statement of the rebuild, which only one process is in.
LEMMA OthersOutside ==
    ASSUME OpenInv, NEW p \in Processes,
           proc[p] \in Rebuild \/ (proc[p] = "create" /\ staging = NoTable)
    PROVE  \A q \in Processes : q # p => proc[q] \notin Rebuild
BY DEF OpenInv, Staged, NoTable

LEMMA CreateStagingStep ==
    ASSUME OpenInv, NEW p \in Processes, CreateStaging(p)
    PROVE  OpenInv'
<1>1. CASE staging # NoTable
  BY <1>1, FailStep DEF CreateStaging
<1>2. CASE staging = NoTable
  <2>1. /\ Moves(p, "copy") /\ staging' = Table("current", {})
        /\ proc[p] = "create" /\ UNCHANGED <<runs, seen, owed, crashes, interrupted>>
    BY <1>2, GotoMoves DEF CreateStaging, Steps, Rebuild
  <2>2. \A q \in Processes : q # p => proc'[q] = proc[q] /\ proc[q] \notin Rebuild
    BY <1>2, <2>1, OthersOutside DEF Moves
  <2>3. proc'[p] = "copy"
    BY <2>1 DEF Moves
  <2>4. TypeOK'
    BY <2>1 DEF OpenInv, TypeOK, Moves, Table, Forms
  <2>5. OldRowsSurvive' /\ owed' \subseteq {Unassigned} \X Endpoints
    BY <1>2, <2>1 DEF OpenInv, OldRowsSurvive, NoTable
  <2>6. Staged'
    BY <2>1, <2>2, <2>3 DEF Staged, Rebuilding, Rebuild, Table
  <2>7. Brought'
    BY <2>1, <2>2, <2>3 DEF OpenInv, Brought, Rebuild, Before
  <2> QED
    BY <2>4, <2>5, <2>6, <2>7 DEF OpenInv
<1> QED
  BY <1>1, <1>2

\* The old rows are those of organization 0, so the copy has them all.
LEMMA CopyRowsStep ==
    ASSUME OpenInv, NEW p \in Processes, CopyRows(p)
    PROVE  OpenInv'
<1> DEFINE copied == {<<Unassigned, r[2]>> : r \in seen.rows}
<1>1. CASE Fail(p)
  BY <1>1, FailStep
<1>2. CASE ~Fail(p)
  <2>1. /\ Moves(p, "drop") /\ staging' = Table("current", copied)
        /\ proc[p] = "copy" /\ UNCHANGED <<runs, seen, owed, crashes, interrupted>>
    BY <1>2, GotoMoves DEF CopyRows, Steps, Rebuild
  <2>2. \A q \in Processes : q # p => proc'[q] = proc[q] /\ proc[q] \notin Rebuild
    BY <2>1, OthersOutside DEF Moves, Rebuild
  <2>3. proc'[p] = "drop"
    BY <2>1 DEF Moves
  <2>4. owed \subseteq seen.rows
    BY <2>1 DEF OpenInv, OldRowsSurvive, Staged
  <2>5. owed \subseteq copied
    <3> SUFFICES ASSUME NEW r \in owed PROVE r \in copied
      OBVIOUS
    <3>1. r \in {Unassigned} \X Endpoints /\ r \in seen.rows
      BY <2>4 DEF OpenInv
    <3>2. r = <<Unassigned, r[2]>>
      BY <3>1
    <3> QED
      BY <3>1, <3>2
  <2>6. copied \subseteq Rows
    <3>1. seen.rows \subseteq OrgIds \X Endpoints
      BY DEF OpenInv, TypeOK, Rows
    <3> QED
      BY <3>1, UpgradeAssumption DEF Rows
  <2>7. TypeOK'
    BY <2>1, <2>6 DEF OpenInv, TypeOK, Moves, Table, Forms
  <2> HIDE DEF copied
  <2>8. OldRowsSurvive' /\ owed' \subseteq {Unassigned} \X Endpoints
    BY <2>1, <2>4 DEF OpenInv, OldRowsSurvive
  <2>9. Staged'
    BY <2>1, <2>2, <2>3, <2>5 DEF OpenInv, Staged, Rebuilding, Rebuild, Table
  <2>10. Brought'
    BY <2>1, <2>2, <2>3 DEF OpenInv, Brought, Rebuild, Before
  <2> QED
    BY <2>7, <2>8, <2>9, <2>10 DEF OpenInv
<1> QED
  BY <1>1, <1>2

LEMMA DropSeenStep ==
    ASSUME OpenInv, NEW p \in Processes, DropSeen(p)
    PROVE  OpenInv'
<1>1. CASE seen.form = "absent"
  BY <1>1, FailStep DEF DropSeen
<1>2. CASE seen.form # "absent"
  <2>1. /\ Moves(p, "rename") /\ seen' = NoTable
        /\ proc[p] = "drop" /\ UNCHANGED <<runs, staging, owed, crashes, interrupted>>
    BY <1>2, GotoMoves DEF DropSeen, Steps, Rebuild
  <2>2. \A q \in Processes : q # p => proc'[q] = proc[q] /\ proc[q] \notin Rebuild
    BY <2>1, OthersOutside DEF Moves, Rebuild
  <2>3. proc'[p] = "rename"
    BY <2>1 DEF Moves
  <2>4. TypeOK'
    BY <2>1 DEF OpenInv, TypeOK, Moves, NoTable, Forms
  <2>5. OldRowsSurvive' /\ owed' \subseteq {Unassigned} \X Endpoints
    BY <2>1 DEF OpenInv, OldRowsSurvive, Staged
  <2>6. Staged'
    BY <2>1, <2>2, <2>3 DEF OpenInv, Staged, Rebuilding, Rebuild
  <2>7. Brought'
    BY <2>1, <2>2, <2>3 DEF OpenInv, Brought, Rebuild, Before, NoTable
  <2> QED
    BY <2>4, <2>5, <2>6, <2>7 DEF OpenInv
<1> QED
  BY <1>1, <1>2

LEMMA RenameStagingStep ==
    ASSUME OpenInv, NEW p \in Processes, RenameStaging(p)
    PROVE  OpenInv'
<1>1. CASE seen.form # "absent"
  BY <1>1, FailStep DEF RenameStaging
<1>2. CASE seen.form = "absent"
  <2>1. /\ Moves(p, "auth") /\ seen' = staging /\ staging' = NoTable
        /\ proc[p] = "rename" /\ UNCHANGED <<runs, owed, crashes, interrupted>>
    BY <1>2, GotoMoves DEF RenameStaging, Steps, Rebuild
  <2>2. \A q \in Processes : q # p => proc'[q] = proc[q] /\ proc[q] \notin Rebuild
    BY <2>1, OthersOutside DEF Moves, Rebuild
  <2>3. proc'[p] = "auth" /\ staging.form = "current" /\ owed \subseteq staging.rows
    BY <2>1 DEF Moves, OpenInv, Staged, Rebuild
  <2>4. TypeOK'
    BY <2>1 DEF OpenInv, TypeOK, Moves, NoTable, Forms
  <2>5. OldRowsSurvive' /\ owed' \subseteq {Unassigned} \X Endpoints
    BY <2>1, <2>3 DEF OpenInv, OldRowsSurvive
  <2>6. Staged'
    BY <2>1, <2>2, <2>3 DEF OpenInv, Staged, Rebuilding, Rebuild
  <2>7. Brought'
    BY <2>1, <2>2, <2>3 DEF OpenInv, Brought, Rebuild, Before
  <2> QED
    BY <2>4, <2>5, <2>6, <2>7 DEF OpenInv
<1> QED
  BY <1>1, <1>2

LEMMA RecordStep ==
    ASSUME OpenInv, NEW row \in Rows, Record(row)
    PROVE  OpenInv'
<1>1. /\ seen.form = "current" /\ seen' = Table("current", seen.rows \union {row})
      /\ UNCHANGED <<runs, staging, owed, proc, crashes, interrupted>>
  BY DEF Record, CanRecord
<1>2. TypeOK'
  BY <1>1 DEF OpenInv, TypeOK, Table, Forms
<1>3. OldRowsSurvive' /\ owed' \subseteq {Unassigned} \X Endpoints
  BY <1>1 DEF OpenInv, OldRowsSurvive, Table
<1>4. Staged'
  BY <1>1 DEF OpenInv, Staged, Rebuilding
<1>5. Brought'
  BY <1>1 DEF OpenInv, Brought, Table
<1> QED
  BY <1>2, <1>3, <1>4, <1>5 DEF OpenInv

LEMMA OpenStep == OpenInv /\ [Next]_vars => OpenInv'
<1> SUFFICES ASSUME OpenInv, [Next]_vars PROVE OpenInv'
  OBVIOUS
<1>1. ASSUME NEW p \in Processes, Start(p) \/ CloseStore(p) \/ Crash(p) PROVE OpenInv'
  BY <1>1, LookStep, CrashStep
<1>2. ASSUME NEW p \in Processes, migrate(p) PROVE OpenInv'
  BY <1>2, LookStep, CreateRunsStep, CreateSeenStep, AddCountStep, CreateStagingStep,
     CopyRowsStep, DropSeenStep, RenameStagingStep DEF migrate
<1>3. ASSUME NEW row \in Rows, Record(row) PROVE OpenInv'
  BY <1>3, RecordStep
<1>4. CASE UNCHANGED vars
  BY <1>4 DEF vars, tables, OpenInv, TypeOK, OldRowsSurvive, Staged, Brought, Rebuilding
<1> QED
  BY <1>1, <1>2, <1>3, <1>4 DEF Next

LEMMA OpenInPlace == OpenInv => UpgradedInPlace
<1> SUFFICES ASSUME OpenInv, Serving, ~Rebuilding, ~interrupted
             PROVE  runs = "current" /\ seen.form = "current" /\ owed \subseteq seen.rows
  BY DEF UpgradedInPlace
<1>1. Server \in Processes /\ proc[Server] = "open"
  BY RowsType DEF Serving
<1>2. staging = NoTable
  BY DEF OpenInv, Staged
<1>3. owed \subseteq seen.rows
  BY <1>2 DEF OpenInv, OldRowsSurvive, NoTable
<1>4. runs = "current" /\ seen.form # "old" /\ seen.form # "absent"
  BY <1>1 DEF OpenInv, Brought, Before, Rebuilding, Rebuild
<1>5. seen.form \in Forms
  BY DEF OpenInv, TypeOK
<1> QED
  BY <1>3, <1>4, <1>5 DEF Forms

-----------------------------------------------------------------------------
(* Theorems: opening the store.                                            *)

\* Types, with however many processes.
THEOREM TypeCorrect == Spec => []TypeOK
<1>1. OpenInv => TypeOK
  BY DEF OpenInv
<1> QED
  BY <1>1, OpenInit, OpenStep, PTL DEF Spec

\* Nothing of the old history is destroyed, wherever processes are killed.
THEOREM RowsSurvive == Spec => []OldRowsSurvive
<1>1. OpenInv => OldRowsSurvive
  BY DEF OpenInv
<1> QED
  BY <1>1, OpenInit, OpenStep, PTL DEF Spec

\* A serving server has all of it in tables of the current form.
THEOREM InPlace == Spec => []UpgradedInPlace
BY OpenInPlace, OpenInit, OpenStep, PTL DEF Spec

-----------------------------------------------------------------------------
(* Delivery: types.                                                        *)

Shapes == {o.shape : o \in Outcomes} \union {Unread}
ReqTypes ==
    {NoReq}
      \union [at : {"read"}, job : Jobs, heard : BOOLEAN]
      \union [at : {"insert"}, job : Jobs, heard : BOOLEAN, shape : Shapes]
      \union [at : {"answered"}, job : Jobs, heard : BOOLEAN, code : Codes, shape : Shapes]
JobTypes == [at : {"ready", "waiting", "done", "refused"}, tries : Nat]

ClientTypes ==
    /\ body \in [Jobs -> Outcomes]
    /\ job \in [Jobs -> JobTypes]
    /\ req \in [Requests -> ReqTypes]
    /\ stored \in [Jobs -> Nat] /\ unheard \in [Jobs -> Nat]

LEMMA ReqTyped ==
    ASSUME ClientTypes, NEW r \in Requests
    PROVE  /\ req[r] \in ReqTypes
           /\ req[r] = NoReq <=> req[r].at = "free"
           /\ req[r].at \in {"free", "read", "insert", "answered"}
           /\ req[r].at # "free" => req[r].job \in Jobs /\ req[r].heard \in BOOLEAN
           /\ req[r].at \in {"insert", "answered"} => req[r].shape \in Shapes
           /\ req[r].at = "answered" => req[r].code \in Codes
<1>1. req[r] \in ReqTypes
  BY DEF ClientTypes
<1> QED
  BY <1>1 DEF ReqTypes, NoReq

\* The kinds of step a request takes: it is answered, or goes on to the transaction,
\* or is over.  The others stay as they are.
Becomes(r, v) ==
    /\ req' \in [Requests -> ReqTypes]
    /\ req'[r] = v
    /\ \A s \in Requests : s # r => req'[s] = req[s]

LEMMA SetReq ==
    ASSUME ClientTypes, NEW r \in Requests, NEW v \in ReqTypes, req' = [req EXCEPT ![r] = v]
    PROVE  Becomes(r, v)
BY DEF ClientTypes, Becomes

Answered(r, code, shape) ==
    [at |-> "answered", job |-> req[r].job, heard |-> req[r].heard, code |-> code,
     shape |-> shape]

LEMMA AnswerWithBecomes ==
    ASSUME ClientTypes, NEW r \in Requests, req[r].at # "free",
           NEW code \in Codes, NEW shape \in Shapes, AnswerWith(r, code, shape)
    PROVE  Becomes(r, Answered(r, code, shape))
<1>1. Answered(r, code, shape) \in ReqTypes
  BY ReqTyped DEF Answered, ReqTypes
<1>2. req' = [req EXCEPT ![r] = Answered(r, code, shape)]
  BY DEF AnswerWith, Answered, ClientTypes
<1> QED
  BY <1>1, <1>2, SetReq

-----------------------------------------------------------------------------
(* What it does to the tables is a step of a process or a run.             *)

LEMMA DeliveryTables == ClientTypes /\ [DeliveryNext]_allVars => [Next]_vars
<1> SUFFICES ASSUME ClientTypes, DeliveryNext, ~UNCHANGED vars PROVE Next
  BY DEF allVars
<1>1. Server \in Processes /\ Backups \subseteq Processes
  BY DEF Processes
<1>2. ASSUME NEW r \in Requests, request(r) PROVE \E row \in Rows : Record(row)
  <2>1. Commit(r)
    BY <1>2 DEF request, ReadFails, ReadBody, Invalid, Rollback, accessLog, recoverPanic
  <2>2. req[r].job \in Jobs
    BY <2>1, ReqTyped DEF Commit
  <2>3. JobRow[req[r].job] \in Rows
    BY <2>2, DeliveryAssumption
  <2> QED
    BY <2>1, <2>3 DEF Commit
<1>3. CASE Drained \/ Killed \/ Others
  BY <1>1, <1>3 DEF Drained, Killed, Others, Next
<1>4. ~Shutdown /\ \A j \in Jobs : ~GiveUp(j) /\ \A r \in Requests : ~Send(j, r)
  BY DEF Shutdown, GiveUp, Send
<1> QED
  BY <1>2, <1>3, <1>4 DEF DeliveryNext, Next

-----------------------------------------------------------------------------
(* What a job was told, and how often its envelope is stored.              *)

\* Requests of j that may still commit and that nobody listens to any more.
Pending(j) == {r \in Requests :
                  req[r].at \in {"read", "insert"} /\ req[r].job = j /\ ~req[r].heard}

\* j waits for the answer of r.
Listens(r, j) == req[r].at # "free" /\ req[r].job = j /\ req[r].heard

\* The attempt j has heard of, or the last one it waits for, has stored the envelope
\* as far as j can tell.
Counted(j) ==
    \/ job[j].at = "done"
    \/ /\ job[j].at = "waiting"
       /\ \A r \in Requests : Listens(r, j) => req[r].at = "answered" /\ req[r].code = 202

Told ==
    /\ \A r \in Requests : req[r].at = "answered" /\ req[r].code = 202 => stored[req[r].job] > 0
    /\ AckMeansStored

OneListener ==
    \A j \in Jobs, r \in Requests : Listens(r, j) =>
        job[j].at = "waiting" /\ \A s \in Requests : Listens(s, j) => s = r

\* Every run beyond the one j knows of comes from an attempt j gave up on, and each of
\* those that may still commit is such an attempt too.
Balanced(j) ==
    stored[j] + Cardinality(Pending(j)) <= unheard[j] + IF Counted(j) THEN 1 ELSE 0

DeliveryInv ==
    /\ ClientTypes /\ Told /\ OneListener
    /\ \A j \in Jobs : Balanced(j)

LEMMA PendingFinite ==
    \A j : IsFiniteSet(Pending(j)) /\ Cardinality(Pending(j)) \in Nat
<1> SUFFICES ASSUME NEW j PROVE IsFiniteSet(Pending(j)) /\ Cardinality(Pending(j)) \in Nat
  OBVIOUS
<1>1. Pending(j) \in SUBSET Requests
  BY DEF Pending
<1> QED
  BY <1>1, DeliveryAssumption, FS_Subset, FS_CardinalityType

\* The balance of j is kept when nothing is stored or given up, no attempt becomes
\* pending, and the attempt that counts goes on counting.
LEMMA BalanceKept ==
    ASSUME ClientTypes, NEW j \in Jobs, Balanced(j), stored'[j] = stored[j],
           unheard'[j] = unheard[j],
           Pending(j)' \subseteq Pending(j), Counted(j) => Counted(j)'
    PROVE  Balanced(j)'
<1> DEFINE P == Pending(j)
           Q == Pending(j)'
<1>1. IsFiniteSet(P) /\ Cardinality(P) \in Nat
  BY PendingFinite
<1>2. Q \in SUBSET P
  OBVIOUS
<1>3. Cardinality(Q) \in Nat /\ Cardinality(Q) <= Cardinality(P)
  <2> HIDE DEF P, Q
  <2> QED
    BY <1>1, <1>2, FS_Subset, FS_CardinalityType
<1>4. stored[j] \in Nat /\ unheard[j] \in Nat
  BY DEF ClientTypes
<1>5. stored[j] + Cardinality(P) <= unheard[j] + IF Counted(j) THEN 1 ELSE 0
  BY DEF Balanced
<1>6. stored'[j] + Cardinality(Q) <= unheard'[j] + IF Counted(j)' THEN 1 ELSE 0
  <2> HIDE DEF P, Q
  <2>1. CASE Counted(j)
    BY <1>1, <1>3, <1>4, <1>5, <2>1
  <2>2. CASE ~Counted(j)
    <3>1. stored'[j] + Cardinality(Q) <= unheard'[j]
      BY <1>1, <1>3, <1>4, <1>5, <2>2
    <3> QED
      BY <1>4, <3>1, <1>3
  <2> QED
    BY <2>1, <2>2
<1> QED
  BY <1>6 DEF Balanced

LEMMA DeliveryStart == DeliveryInit => DeliveryInv
<1> SUFFICES ASSUME DeliveryInit PROVE DeliveryInv
  OBVIOUS
<1>1. ClientTypes
  BY DEF DeliveryInit, ClientTypes, ReqTypes, JobTypes
<1>2. \A r \in Requests : req[r].at = "free"
  BY DEF DeliveryInit, NoReq
<1>3. Told /\ OneListener
  BY <1>2 DEF DeliveryInit, Told, AckMeansStored, OneListener, Listens
<1>4. ASSUME NEW j \in Jobs PROVE Balanced(j)
  <2>1. Pending(j) = {}
    BY <1>2 DEF Pending
  <2>2. Cardinality(Pending(j)) = 0
    BY <2>1, FS_EmptySet
  <2>3. stored[j] = 0 /\ unheard[j] = 0
    BY DEF DeliveryInit
  <2> QED
    BY <2>2, <2>3 DEF Balanced
<1> QED
  BY <1>1, <1>3, <1>4 DEF DeliveryInv

\* A request goes on, or is answered with something else than 202.
LEMMA AdvanceStep ==
    ASSUME DeliveryInv, NEW r \in Requests, NEW v, Becomes(r, v),
           req[r].at \in {"read", "insert"}, v.at \in {"insert", "answered"},
           v.job = req[r].job, v.heard = req[r].heard,
           v.at = "answered" => v.code # 202, UNCHANGED <<clients, stored>>
    PROVE  DeliveryInv'
<1>1. ClientTypes'
  BY DEF DeliveryInv, ClientTypes, Becomes, clients
<1>2. \A s \in Requests : \A j : Listens(s, j)' <=> Listens(s, j)
  BY DEF Becomes, Listens
<1>3. Told' /\ OneListener'
  BY <1>2 DEF DeliveryInv, Told, AckMeansStored, OneListener, Becomes, clients
<1>4. ASSUME NEW j \in Jobs PROVE Balanced(j)'
  <2>1. Pending(j)' \subseteq Pending(j)
    BY DEF Becomes, Pending
  <2>2. Counted(j) => Counted(j)'
    BY <1>2 DEF Counted, Becomes, clients
  <2> QED
    BY <2>1, <2>2, BalanceKept DEF DeliveryInv, clients
<1> QED
  BY <1>1, <1>3, <1>4 DEF DeliveryInv

\* The process and its requests are gone.
LEMMA ForgetStep ==
    ASSUME DeliveryInv, Forget, UNCHANGED <<clients, stored>>
    PROVE  DeliveryInv'
<1>1. \A r \in Requests : req'[r] = NoReq /\ req'[r].at = "free"
  BY DEF Forget, NoReq
<1>2. ClientTypes'
  BY DEF Forget, DeliveryInv, ClientTypes, clients, ReqTypes
<1>3. \A r \in Requests : \A j : ~Listens(r, j)'
  BY <1>1 DEF Listens
<1>4. Told' /\ OneListener'
  BY <1>1, <1>3 DEF DeliveryInv, Told, AckMeansStored, OneListener, clients
<1>5. ASSUME NEW j \in Jobs PROVE Balanced(j)'
  <2>1. Pending(j)' \subseteq Pending(j)
    BY <1>1 DEF Pending
  <2>2. Counted(j) => Counted(j)'
    BY <1>3 DEF Counted, clients
  <2> QED
    BY <2>1, <2>2, BalanceKept DEF DeliveryInv, clients
<1> QED
  BY <1>2, <1>4, <1>5 DEF DeliveryInv

\* A heard attempt comes to count; one given up on is no longer pending.
LEMMA CommitStep ==
    ASSUME DeliveryInv, NEW r \in Requests, Commit(r)
    PROVE  DeliveryInv'
<1>1. PICK k \in Jobs :
         /\ k = req[r].job
         /\ req[r].heard \in BOOLEAN /\ req[r].at = "insert" /\ req[r].shape \in Shapes
  BY ReqTyped DEF Commit, DeliveryInv
<1> DEFINE v == Answered(r, 202, req[r].shape)
<1>2. Becomes(r, v)
  BY <1>1, AnswerWithBecomes DEF Commit, DeliveryInv, Codes
<1>3. v.at = "answered" /\ v.job = k /\ v.heard = req[r].heard /\ v.code = 202
  BY <1>1 DEF Answered
<1>4. /\ UNCHANGED clients
      /\ \A j \in Jobs : stored'[j] = IF j = k THEN stored[j] + 1 ELSE stored[j]
      /\ stored' \in [Jobs -> Nat]
  BY <1>1 DEF Commit, DeliveryInv, ClientTypes
<1> HIDE DEF v
<1>5. ClientTypes'
  BY <1>2, <1>4 DEF DeliveryInv, ClientTypes, Becomes, clients
<1>6. \A s \in Requests : \A j : Listens(s, j)' <=> Listens(s, j)
  BY <1>1, <1>2, <1>3 DEF Becomes, Listens
<1>7. Told'
  <2>1. \A j \in Jobs : stored[j] > 0 => stored'[j] > 0
    BY <1>4 DEF DeliveryInv, ClientTypes
  <2>2. stored'[k] > 0
    BY <1>1, <1>4 DEF DeliveryInv, ClientTypes
  <2>3. \A s \in Requests : s # r => req'[s] = req[s]
    BY <1>2 DEF Becomes
  <2>4. \A s \in Requests : req[s].at = "answered" => req[s].job \in Jobs
    BY ReqTyped DEF DeliveryInv
  <2>5. req'[r].job = k
    BY <1>2, <1>3 DEF Becomes
  <2> QED
    BY <1>4, <2>1, <2>2, <2>3, <2>4, <2>5 DEF DeliveryInv, Told, AckMeansStored, clients
<1>8. OneListener'
  BY <1>4, <1>6 DEF DeliveryInv, OneListener, clients
<1>9. ASSUME NEW j \in Jobs, j # k PROVE Balanced(j)'
  <2>1. Pending(j)' \subseteq Pending(j)
    BY <1>2, <1>3, <1>9 DEF Becomes, Pending
  <2>2. Counted(j) => Counted(j)'
    BY <1>2, <1>3, <1>4, <1>6, <1>9 DEF Counted, Becomes, Listens, clients
  <2> QED
    BY <1>4, <1>9, <2>1, <2>2, BalanceKept DEF DeliveryInv, clients
<1>10. CASE req[r].heard
  <2>1. Listens(r, k)
    BY <1>1, <1>10 DEF Listens
  <2>2. job[k].at = "waiting" /\ \A s \in Requests : Listens(s, k) => s = r
    BY <1>1, <2>1 DEF DeliveryInv, OneListener
  <2>3. ~Counted(k) /\ Counted(k)'
    BY <1>1, <1>2, <1>3, <1>4, <1>6, <2>1, <2>2 DEF Counted, Becomes, clients
  <2>4. Pending(k)' = Pending(k)
    BY <1>2, <1>3, <1>10 DEF Becomes, Pending
  <2>5. Cardinality(Pending(k)) \in Nat /\ stored[k] \in Nat /\ unheard[k] \in Nat
    BY <1>1, PendingFinite DEF DeliveryInv, ClientTypes
  <2>6. stored[k] + Cardinality(Pending(k)) <= unheard[k] + 0
    BY <1>1, <2>3 DEF DeliveryInv, Balanced
  <2>7. stored'[k] + Cardinality(Pending(k)') <= unheard'[k] + 1
    BY <1>1, <1>4, <2>4, <2>5, <2>6 DEF clients
  <2>8. Balanced(k)'
    BY <2>3, <2>7 DEF Balanced
  <2> QED
    BY <1>5, <1>7, <1>8, <1>9, <2>8 DEF DeliveryInv
<1>11. CASE ~req[r].heard
  <2> DEFINE P == Pending(k)
             Q == Pending(k)'
  <2>1. r \in P /\ Q = P \ {r}
    BY <1>1, <1>2, <1>3, <1>11 DEF Becomes, Pending
  <2>2. Cardinality(Q) = Cardinality(P) - 1 /\ IsFiniteSet(P) /\ Cardinality(P) \in Nat
    <3>1. IsFiniteSet(P) /\ Cardinality(P) \in Nat
      BY PendingFinite
    <3> HIDE DEF P, Q
    <3> QED
      BY <2>1, <3>1, FS_RemoveElement
  <2>3. Counted(k) => Counted(k)'
    <3>1. ~Listens(r, k)
      BY <1>11 DEF Listens
    <3>2. \A s \in Requests : Listens(s, k) => req'[s] = req[s]
      BY <1>2, <3>1 DEF Becomes
    <3>3. job' = job
      BY <1>4 DEF clients
    <3> QED
      BY <1>6, <3>2, <3>3 DEF Counted
  <2>4. stored[k] \in Nat /\ unheard[k] \in Nat
    BY <1>1 DEF DeliveryInv, ClientTypes
  <2>5. stored[k] + Cardinality(P) <= unheard[k] + IF Counted(k) THEN 1 ELSE 0
    BY <1>1 DEF DeliveryInv, Balanced
  <2>6. stored'[k] + Cardinality(Q) = stored[k] + Cardinality(P)
    <3> HIDE DEF P, Q
    <3> QED
      BY <1>1, <1>4, <2>2, <2>4
  <2>7. stored'[k] + Cardinality(Q) <= unheard'[k] + IF Counted(k)' THEN 1 ELSE 0
    <3> HIDE DEF P, Q
    <3>1. unheard'[k] = unheard[k]
      BY <1>4 DEF clients
    <3>2. CASE Counted(k)
      BY <2>3, <2>5, <2>6, <3>1, <3>2
    <3>3. CASE ~Counted(k)
      <4>1. stored'[k] + Cardinality(Q) <= unheard'[k]
        BY <2>4, <2>5, <2>6, <3>1, <3>3
      <4> QED
        BY <2>2, <2>4, <2>6, <3>1, <4>1
    <3> QED
      BY <3>2, <3>3
  <2>8. Balanced(k)'
    BY <2>7 DEF Balanced
  <2> QED
    BY <1>5, <1>7, <1>8, <1>9, <2>8 DEF DeliveryInv
<1> QED
  BY <1>1, <1>10, <1>11

\* The answer is sent: only a job that hears it changes, and to what it was told.
LEMMA FinishStep ==
    ASSUME DeliveryInv, NEW r \in Requests, NEW code \in Codes, req[r].at # "free",
           Finish(r, code), code = 202 => req[r].at = "answered",
           req[r].at = "answered" => code = req[r].code,
           UNCHANGED <<body, unheard, stored>>
    PROVE  DeliveryInv'
<1> DEFINE k == req[r].job
           to == CASE code = 202 -> "done" [] code = 500 -> "ready" [] OTHER -> "refused"
<1>1. k \in Jobs /\ req[r].heard \in BOOLEAN /\ job[k] \in JobTypes
  BY ReqTyped DEF DeliveryInv, ClientTypes
<1>2. Becomes(r, NoReq)
  BY SetReq DEF Finish, DeliveryInv, ReqTypes
<1>3. /\ to \in {"ready", "done", "refused"} /\ (to = "done" => code = 202)
      /\ job' \in [Jobs -> JobTypes]
      /\ \A j \in Jobs : job'[j].at = IF req[r].heard /\ j = k THEN to ELSE job[j].at
  <2>1. to \in {"ready", "done", "refused"} /\ (to = "done" => code = 202)
    OBVIOUS
  <2>2. CASE req[r].heard
    <3>1. job' = [job EXCEPT ![k] = [job[k] EXCEPT !.at = to]]
      BY <2>2 DEF Finish, Heard, DeliveryInv, ClientTypes
    <3>2. [job[k] EXCEPT !.at = to] \in JobTypes /\ [job[k] EXCEPT !.at = to].at = to
      BY <1>1, <2>1 DEF JobTypes
    <3> HIDE DEF to
    <3> QED
      BY <1>1, <2>1, <2>2, <3>1, <3>2 DEF DeliveryInv, ClientTypes
  <2>3. CASE ~req[r].heard
    BY <2>1, <2>3 DEF Finish, DeliveryInv, ClientTypes
  <2> QED
    BY <1>1, <2>2, <2>3
<1> HIDE DEF to
<1>4. ClientTypes'
  BY <1>2, <1>3 DEF DeliveryInv, ClientTypes, Becomes
<1>5. \A s \in Requests : \A j : Listens(s, j)' <=> Listens(s, j) /\ s # r
  BY <1>2 DEF Becomes, Listens, NoReq
<1>6. Told'
  <2>1. code = 202 => stored[k] > 0
    BY DEF DeliveryInv, Told
  <2>2. \A j \in Jobs : job'[j].at = "done" => stored[j] > 0
    BY <1>3, <2>1 DEF DeliveryInv, Told, AckMeansStored
  <2> QED
    BY <1>2, <2>2 DEF DeliveryInv, Told, AckMeansStored, Becomes, NoReq
<1>7. OneListener'
  <2> SUFFICES ASSUME NEW j \in Jobs, NEW s \in Requests, Listens(s, j), s # r
               PROVE  job'[j].at = "waiting" /\ \A t \in Requests : Listens(t, j) => t = s
    BY <1>5 DEF OneListener
  <2>1. job[j].at = "waiting" /\ \A t \in Requests : Listens(t, j) => t = s
    BY DEF DeliveryInv, OneListener
  <2>2. ~Listens(r, j)
    BY <2>1
  <2>3. ~(req[r].heard /\ j = k)
    BY <2>2 DEF Listens
  <2> QED
    BY <1>3, <2>1, <2>3
<1>8. ASSUME NEW j \in Jobs PROVE Balanced(j)'
  <2>1. Pending(j)' \subseteq Pending(j)
    BY <1>2 DEF Becomes, Pending, NoReq
  <2>2. Counted(j) => Counted(j)'
    <3>1. CASE req[r].heard /\ j = k
      <4>1. Listens(r, j)
        BY <3>1 DEF Listens
      <4>2. job[j].at = "waiting"
        BY <4>1 DEF DeliveryInv, OneListener
      <4>3. Counted(j) => req[r].at = "answered" /\ req[r].code = 202
        BY <4>1, <4>2 DEF Counted
      <4>4. Counted(j) => to = "done"
        BY <4>3 DEF to
      <4> QED
        BY <1>3, <3>1, <4>4 DEF Counted
    <3>2. CASE ~(req[r].heard /\ j = k)
      <4>1. job'[j].at = job[j].at
        BY <1>3, <3>2
      <4> QED
        BY <1>2, <1>5, <4>1 DEF Counted, Becomes
    <3> QED
      BY <3>1, <3>2
  <2> QED
    BY <2>1, <2>2, BalanceKept DEF DeliveryInv
<1> QED
  BY <1>4, <1>6, <1>7, <1>8 DEF DeliveryInv

\* The job listens to the new request and to no other.
LEMMA SendStep ==
    ASSUME DeliveryInv, NEW k \in Jobs, NEW r \in Requests, Send(k, r)
    PROVE  DeliveryInv'
<1> DEFINE v == [at |-> "read", job |-> k, heard |-> TRUE]
           w == [at |-> "waiting", tries |-> job[k].tries + 1]
<1>1. v \in ReqTypes /\ w \in JobTypes /\ w.at = "waiting"
  BY DEF ReqTypes, JobTypes, DeliveryInv, ClientTypes
<1>2. Becomes(r, v) /\ v.at = "read" /\ v.job = k /\ v.heard
  BY <1>1, SetReq DEF Send, DeliveryInv
<1>3. /\ job' = [job EXCEPT ![k] = w] /\ job[k].at = "ready"
      /\ req[r].at = "free" /\ UNCHANGED <<body, unheard, stored>>
  BY DEF Send, NoReq, DeliveryInv, ClientTypes
<1>4. /\ \A j \in Jobs : job'[j].at = IF j = k THEN "waiting" ELSE job[j].at
      /\ job' \in [Jobs -> JobTypes]
  BY <1>1, <1>3 DEF DeliveryInv, ClientTypes
<1> HIDE DEF v, w
<1>5. ClientTypes'
  BY <1>2, <1>3, <1>4 DEF DeliveryInv, ClientTypes, Becomes
<1>6. \A s \in Requests : ~Listens(s, k)
  BY <1>3 DEF DeliveryInv, OneListener
<1>7. \A s \in Requests : \A j : Listens(s, j)' <=> Listens(s, j) \/ (s = r /\ j = k)
  BY <1>2, <1>3 DEF Becomes, Listens
<1>8. Told'
  BY <1>2, <1>3, <1>4 DEF DeliveryInv, Told, AckMeansStored, Becomes
<1>9. OneListener'
  BY <1>4, <1>6, <1>7 DEF DeliveryInv, OneListener
<1>10. ASSUME NEW j \in Jobs PROVE Balanced(j)'
  <2>1. Pending(j)' \subseteq Pending(j)
    BY <1>2 DEF Becomes, Pending
  <2>2. Counted(j) => Counted(j)'
    <3>1. CASE j = k
      BY <1>3, <3>1 DEF Counted
    <3>2. CASE j # k
      <4>1. \A s \in Requests : Listens(s, j) => s # r
        BY <1>3 DEF Listens
      <4> QED
        BY <1>2, <1>4, <1>7, <3>2, <4>1 DEF Counted, Becomes
    <3> QED
      BY <3>1, <3>2
  <2> QED
    BY <1>3, <2>1, <2>2, BalanceKept DEF DeliveryInv
<1> QED
  BY <1>5, <1>8, <1>9, <1>10 DEF DeliveryInv

\* The attempt given up on is the one listened to: it may become pending, and no
\* longer counts.
LEMMA GiveUpStep ==
    ASSUME DeliveryInv, NEW k \in Jobs, GiveUp(k)
    PROVE  DeliveryInv'
<1>1. /\ \A s \in Requests : req'[s] =
            IF req[s] # NoReq /\ req[s].job = k THEN [req[s] EXCEPT !.heard = FALSE] ELSE req[s]
      /\ req' = [s \in Requests |-> req'[s]]
      /\ UNCHANGED <<body, stored>> /\ job[k].at = "waiting"
  BY DEF GiveUp
<1>2. \A s \in Requests :
         /\ req'[s] \in ReqTypes /\ req'[s].at = req[s].at
         /\ req[s].at # "free" =>
              /\ req'[s].job = req[s].job
              /\ req'[s].heard <=> (req[s].heard /\ req[s].job # k)
         /\ req[s].at = "answered" => req'[s].code = req[s].code
         /\ req[s].at # "free" /\ req[s].job # k => req'[s] = req[s]
  <2> SUFFICES ASSUME NEW s \in Requests
               PROVE  /\ req'[s] \in ReqTypes /\ req'[s].at = req[s].at
                      /\ req[s].at # "free" =>
                           /\ req'[s].job = req[s].job
                           /\ req'[s].heard <=> (req[s].heard /\ req[s].job # k)
                      /\ req[s].at = "answered" => req'[s].code = req[s].code
                      /\ req[s].at # "free" /\ req[s].job # k => req'[s] = req[s]
    OBVIOUS
  <2>1. req[s] \in ReqTypes /\ (req[s] = NoReq <=> req[s].at = "free")
    BY ReqTyped DEF DeliveryInv
  <2>2. CASE req[s] = NoReq
    BY <1>1, <2>1, <2>2
  <2>3. CASE req[s] # NoReq /\ req[s].job # k
    BY <1>1, <2>1, <2>3
  <2>4. CASE req[s] # NoReq /\ req[s].job = k
    <3>1. req'[s] = [req[s] EXCEPT !.heard = FALSE]
      BY <1>1, <2>4
    <3> QED
      BY <2>1, <2>4, <3>1 DEF ReqTypes
  <2> QED
    BY <2>2, <2>3, <2>4
<1>3. /\ job' \in [Jobs -> JobTypes]
      /\ \A j \in Jobs : job'[j].at = IF j = k THEN "ready" ELSE job[j].at
  BY DEF GiveUp, DeliveryInv, ClientTypes, JobTypes
<1>4. /\ unheard' \in [Jobs -> Nat]
      /\ \A j \in Jobs : unheard'[j] = IF j = k THEN unheard[j] + 1 ELSE unheard[j]
  BY DEF GiveUp, DeliveryInv, ClientTypes
<1>5. ClientTypes'
  <2>1. req' \in [Requests -> ReqTypes]
    BY <1>1, <1>2
  <2> QED
    BY <1>1, <1>3, <1>4, <2>1 DEF DeliveryInv, ClientTypes
<1>6. \A s \in Requests : \A j : Listens(s, j)' <=> Listens(s, j) /\ j # k
  BY <1>2 DEF Listens
<1>7. Told'
  BY <1>1, <1>2, <1>3 DEF DeliveryInv, Told, AckMeansStored
<1>8. OneListener'
  BY <1>3, <1>6 DEF DeliveryInv, OneListener
<1>9. ASSUME NEW j \in Jobs, j # k PROVE Balanced(j)'
  <2>1. Pending(j)' \subseteq Pending(j)
    BY <1>2, <1>9 DEF Pending
  <2>2. Counted(j) => Counted(j)'
    BY <1>2, <1>3, <1>6, <1>9 DEF Counted, Listens
  <2> QED
    BY <1>1, <1>4, <1>9, <2>1, <2>2, BalanceKept DEF DeliveryInv
<1>10. Balanced(k)'
  <2> DEFINE P == Pending(k)
             Q == Pending(k)'
  <2>1. /\ IsFiniteSet(P) /\ Cardinality(P) \in Nat
        /\ stored[k] \in Nat /\ unheard[k] \in Nat
    BY PendingFinite DEF DeliveryInv, ClientTypes
  <2>2. stored[k] + Cardinality(P) <= unheard[k] + IF Counted(k) THEN 1 ELSE 0
    BY DEF DeliveryInv, Balanced
  <2>3. Cardinality(Q) \in Nat /\ stored[k] + Cardinality(Q) <= unheard[k] + 1
    <3>1. CASE \E s \in Requests : Listens(s, k) /\ req[s].at \in {"read", "insert"}
      <4>1. PICK s \in Requests : Listens(s, k) /\ req[s].at \in {"read", "insert"}
        BY <3>1
      <4>2. \A t \in Requests : Listens(t, k) => t = s
        BY <4>1 DEF DeliveryInv, OneListener
      <4>3. s \notin P /\ Q = P \union {s}
        BY <1>2, <4>1, <4>2 DEF Pending, Listens
      <4>4. ~Counted(k)
        BY <1>1, <4>1 DEF Counted
      <4>5. Cardinality(Q) = Cardinality(P) + 1
        <5> HIDE DEF P, Q
        <5> QED
          BY <2>1, <4>3, FS_AddElement
      <4> QED
        <5> HIDE DEF P, Q
        <5>1. stored[k] + Cardinality(P) <= unheard[k] + 0
          BY <2>2, <4>4
        <5> QED
          BY <2>1, <4>5, <5>1
    <3>2. CASE ~\E s \in Requests : Listens(s, k) /\ req[s].at \in {"read", "insert"}
      <4>1. Q = P
        BY <1>2, <3>2 DEF Pending, Listens
      <4> QED
        <5> HIDE DEF P, Q
        <5>1. stored[k] + Cardinality(P) <= unheard[k] + 1
          <6>1. CASE Counted(k)
            BY <2>2, <6>1
          <6>2. CASE ~Counted(k)
            <7>1. stored[k] + Cardinality(P) <= unheard[k] + 0
              BY <2>2, <6>2
            <7> QED
              BY <2>1, <7>1
          <6> QED
            BY <6>1, <6>2
        <5> QED
          BY <2>1, <4>1, <5>1
    <3> QED
      BY <3>1, <3>2
  <2>4. ~Counted(k)'
    BY <1>3 DEF Counted
  <2>5. stored'[k] + Cardinality(Q) <= unheard'[k] + 0
    <3> HIDE DEF P, Q
    <3> QED
      BY <1>1, <1>4, <2>1, <2>3
  <2> QED
    BY <2>4, <2>5 DEF Balanced
<1> QED
  BY <1>5, <1>7, <1>8, <1>9, <1>10 DEF DeliveryInv

LEMMA RequestStep ==
    ASSUME DeliveryInv, NEW r \in Requests, request(r)
    PROVE  DeliveryInv'
<1>1. req[r].at # "free" => req[r].job \in Jobs /\ req[r].heard \in BOOLEAN
  BY ReqTyped DEF DeliveryInv
<1>2. ASSUME NEW code \in Codes, NEW shape \in Shapes, AnswerWith(r, code, shape), code # 202,
             req[r].at \in {"read", "insert"}, UNCHANGED <<clients, stored>>
      PROVE  DeliveryInv'
  <2>1. Becomes(r, Answered(r, code, shape))
    BY <1>2, AnswerWithBecomes DEF DeliveryInv
  <2> QED
    BY <1>2, <2>1, AdvanceStep DEF Answered
<1>3. ASSUME NEW code \in Codes, ReadFails(r, code) PROVE DeliveryInv'
  BY <1>2, <1>3 DEF ReadFails, Shapes
<1>4. CASE ReadBody(r)
  <2>1. req[r].at = "read" /\ UNCHANGED <<clients, stored>>
    BY <1>4 DEF ReadBody
  <2>2. body[req[r].job].shape \in Shapes
    BY <1>1, <2>1 DEF DeliveryInv, ClientTypes, Shapes
  <2>3. CASE body[req[r].job].verdict \in {"tooLarge", "malformed"}
    <3>1. PICK code \in {400, 413} : AnswerWith(r, code, body[req[r].job].shape)
      BY <1>4, <2>3 DEF ReadBody
    <3>2. code \in Codes /\ code # 202
      BY <3>1 DEF Codes
    <3> QED
      BY <1>2, <2>1, <2>2, <3>1, <3>2
  <2>4. CASE body[req[r].job].verdict \notin {"tooLarge", "malformed"}
    <3> DEFINE v == [at |-> "insert", job |-> req[r].job, heard |-> req[r].heard,
                     shape |-> body[req[r].job].shape]
    <3>1. v \in ReqTypes
      BY <1>1, <2>1, <2>2 DEF ReqTypes
    <3>2. req' = [req EXCEPT ![r] = v]
      BY <1>4, <2>4 DEF ReadBody, DeliveryInv, ClientTypes
    <3>3. Becomes(r, v)
      BY <3>1, <3>2, SetReq DEF DeliveryInv
    <3> QED
      BY <2>1, <3>3, AdvanceStep
  <2> QED
    BY <2>3, <2>4
<1>5. CASE Invalid(r) \/ Rollback(r)
  <2>1. req[r].at = "insert" /\ req[r].shape \in Shapes /\ UNCHANGED <<clients, stored>>
    BY <1>5, ReqTyped DEF Invalid, Rollback, DeliveryInv
  <2> QED
    BY <1>2, <1>5, <2>1 DEF Invalid, Rollback, Codes
<1>6. CASE Commit(r)
  BY <1>6, CommitStep
<1>7. CASE accessLog(r)
  <2>1. req[r].at = "answered" /\ req[r].code \in Codes
    BY <1>7, ReqTyped DEF accessLog, DeliveryInv
  <2> QED
    BY <1>7, <2>1, FinishStep DEF accessLog
<1>8. CASE recoverPanic(r)
  <2>1. req[r].at \in {"read", "insert"} /\ 500 \in Codes
    BY <1>8 DEF recoverPanic, Codes
  <2> QED
    BY <1>8, <2>1, FinishStep DEF recoverPanic
<1> QED
  BY <1>3, <1>4, <1>5, <1>6, <1>7, <1>8 DEF request

LEMMA DeliveryStep == DeliveryInv /\ [DeliveryNext]_allVars => DeliveryInv'
<1> SUFFICES ASSUME DeliveryInv, [DeliveryNext]_allVars PROVE DeliveryInv'
  OBVIOUS
<1>1. ASSUME NEW j \in Jobs, GiveUp(j) \/ \E r \in Requests : Send(j, r) PROVE DeliveryInv'
  BY <1>1, GiveUpStep, SendStep
<1>2. ASSUME NEW r \in Requests, request(r) PROVE DeliveryInv'
  BY <1>2, RequestStep
<1>3. CASE Drained \/ Killed
  BY <1>3, ForgetStep DEF Drained, Killed
<1>4. CASE UNCHANGED <<clients, req, stored>>
  <2>1. ClientTypes' /\ Told' /\ OneListener'
    BY <1>4 DEF DeliveryInv, ClientTypes, Told, AckMeansStored, OneListener, Listens, clients
  <2>2. ASSUME NEW j \in Jobs PROVE Balanced(j)'
    <3>1. Pending(j)' \subseteq Pending(j) /\ (Counted(j) => Counted(j)')
      BY <1>4 DEF Pending, Counted, Listens, clients
    <3> QED
      BY <1>4, <3>1, BalanceKept DEF DeliveryInv, clients
  <2> QED
    BY <2>1, <2>2 DEF DeliveryInv
<1>5. Shutdown \/ Others \/ UNCHANGED allVars => UNCHANGED <<clients, req, stored>>
  BY DEF Shutdown, Others, allVars, handlers, clients
<1> QED
  BY <1>1, <1>2, <1>3, <1>4, <1>5 DEF DeliveryNext

LEMMA DeliveryInvariance == DeliverySpec => [](DeliveryInv /\ OpenInv)
<1>1. DeliveryInit => OpenInv
  BY OpenInit DEF DeliveryInit
<1>2. OpenInv /\ DeliveryInv /\ [DeliveryNext]_allVars => OpenInv'
  BY DeliveryTables, OpenStep DEF DeliveryInv
<1> QED
  BY <1>1, <1>2, DeliveryStart, DeliveryStep, PTL DEF DeliverySpec

\* 202 means stored, whatever becomes of the server.
THEOREM Acknowledged == DeliverySpec => []AckMeansStored
<1>1. DeliveryInv => AckMeansStored
  BY DEF DeliveryInv, Told
<1> QED
  BY <1>1, DeliveryInvariance, PTL

\* A run is stored twice only for an attempt whose answer was not heard.
THEOREM Duplicated == DeliverySpec => []DuplicatesExplained
<1>1. DeliveryInv => DuplicatesExplained
  <2> SUFFICES ASSUME DeliveryInv, NEW j \in Jobs
               PROVE  stored[j] <= unheard[j] +
                         IF job[j].at \in {"waiting", "done"} THEN 1 ELSE 0
    BY DEF DuplicatesExplained
  <2> DEFINE n == Cardinality(Pending(j))
  <2>1. n \in Nat /\ stored[j] \in Nat /\ unheard[j] \in Nat
    BY PendingFinite DEF DeliveryInv, ClientTypes
  <2>2. stored[j] + n <= unheard[j] + IF Counted(j) THEN 1 ELSE 0
    BY DEF DeliveryInv, Balanced
  <2>3. Counted(j) => job[j].at \in {"waiting", "done"}
    BY DEF Counted
  <2> HIDE DEF n
  <2>4. CASE Counted(j)
    BY <2>1, <2>2, <2>3, <2>4
  <2>5. CASE ~Counted(j)
    <3>1. stored[j] <= unheard[j]
      BY <2>1, <2>2, <2>5
    <3> QED
      BY <2>1, <3>1
  <2> QED
    BY <2>4, <2>5
<1> QED
  BY <1>1, DeliveryInvariance, PTL

\* The old history survives, and is served, while runs are delivered and the server is
\* stopped and killed.
THEOREM HistorySurvivesDelivery == DeliverySpec => [](OldRowsSurvive /\ UpgradedInPlace)
<1>1. OpenInv => OldRowsSurvive
  BY DEF OpenInv
<1> QED
  BY <1>1, OpenInPlace, DeliveryInvariance, PTL
-----------------------------------------------------------------------------
(* The request log: what its methods do to the history of requests.        *)

\* The remainder of what is less than two rounds.
LEMMA Wrap ==
    ASSUME NEW C \in Nat, C > 0, NEW a \in Int, a >= 0, a < 2 * C
    PROVE  a % C = IF a < C THEN a ELSE a - C
<1>1. CASE a < C
  BY <1>1, SMT
<1>2. CASE a >= C
  BY <1>2, SMT
<1> QED
  BY <1>1, <1>2

\* The buffer r holds the requests of past, newest first.
Holds(r, past) ==
    /\ r \in RingLog
    /\ past \in Seq(Entries)
    /\ Len(past) = Size(r)
    /\ \A i \in 1..Len(past) : past[i] = Ago(r, i)

\* What accessLog does to the history of requests.
Logged(past, e) ==
    SubSeq(<<e>> \o past, 1, IF Len(past) < Capacity THEN Len(past) + 1 ELSE Capacity)

\* Where the entry written i requests ago is.
Slot(n, i) == IF i <= n THEN n - i ELSE n - i + Capacity

\* Ago reads that slot.
LEMMA AgoSlot ==
    ASSUME NEW r \in RingLog, NEW i \in 1..Capacity
    PROVE  Ago(r, i) = r.buf[Slot(r.next, i)] /\ Slot(r.next, i) \in Slots
<1> DEFINE n == r.next
<1>1. n \in Slots /\ Capacity \in Nat /\ Capacity > 0
  BY RequestLogAssumption DEF RingLog
<1>2. n \in Nat /\ n < Capacity
  BY <1>1 DEF Slots
<1> HIDE DEF n
<1> DEFINE a == n - i + Capacity
<1>3. a \in Int /\ a >= 0 /\ a < 2 * Capacity
  BY <1>1, <1>2
<1> HIDE DEF a
<1>4. a % Capacity = IF a < Capacity THEN a ELSE a - Capacity
  BY <1>1, <1>3, Wrap
<1> USE DEF a
<1>5. (n - i + Capacity) % Capacity = Slot(n, i) /\ Slot(n, i) \in Slots
  BY <1>1, <1>2, <1>4 DEF Slot, Slots
<1> QED
  BY <1>5 DEF Ago, n

\* The history has one request more at its head, and no more than the buffer has.
LEMMA LoggedIs ==
    ASSUME NEW past \in Seq(Entries), NEW e \in Entries, Len(past) <= Capacity
    PROVE  /\ Logged(past, e) \in Seq(Entries)
           /\ Len(Logged(past, e)) = IF Len(past) < Capacity THEN Len(past) + 1 ELSE Capacity
           /\ \A i \in 1..Len(Logged(past, e)) :
                 Logged(past, e)[i] = IF i = 1 THEN e ELSE past[i - 1]
<1> DEFINE m == IF Len(past) < Capacity THEN Len(past) + 1 ELSE Capacity
           long == <<e>> \o past
<1>1. Capacity \in Nat /\ Capacity > 0
  BY RequestLogAssumption
<1>2. long \in Seq(Entries) /\ Len(long) = Len(past) + 1
  OBVIOUS
<1>3. \A i \in 1..Len(long) : long[i] = IF i = 1 THEN e ELSE past[i - 1]
  OBVIOUS
<1>4. m \in Nat /\ m <= Len(long)
  BY <1>1, <1>2
<1> HIDE DEF long, m
<1>5. SubSeq(long, 1, m) = [i \in 1..m |-> long[i]]
  BY <1>2, <1>4
<1>6. SubSeq(long, 1, m) \in Seq(Entries) /\ Len(SubSeq(long, 1, m)) = m
  BY <1>2, <1>4
<1>7. Logged(past, e) = SubSeq(long, 1, m)
  BY DEF Logged, long, m
<1>8. ASSUME NEW i \in 1..m PROVE SubSeq(long, 1, m)[i] = IF i = 1 THEN e ELSE past[i - 1]
  <2>1. i \in 1..Len(long)
    BY <1>2, <1>4
  <2> QED
    BY <1>3, <1>5, <2>1
<1> QED
  BY <1>6, <1>7, <1>8 DEF m

\* add keeps the buffer and the history in step, also where the buffer wraps.
LEMMA AddHolds ==
    ASSUME NEW r, NEW past, NEW e \in Entries, Holds(r, past)
    PROVE  Holds(add(r, e), Logged(past, e))
<1> DEFINE n == r.next
           after == IF n + 1 < Capacity THEN n + 1 ELSE 0
           s == add(r, e)
<1>1. /\ Capacity \in Nat /\ Capacity > 0 /\ n \in Nat /\ n < Capacity /\ n \in Slots
      /\ r.buf \in [Slots -> Entries \union {NoEntry}] /\ r.full \in BOOLEAN
  BY RequestLogAssumption DEF Holds, RingLog, Slots
<1>2. (n + 1) % Capacity = after
  BY <1>1, Wrap
<1>3. s = [buf |-> [r.buf EXCEPT ![n] = e], next |-> after, full |-> r.full \/ after = 0]
  BY <1>2 DEF add
<1>4. after \in Slots
  BY <1>1 DEF Slots
<1>5. s \in RingLog
  BY <1>1, <1>3, <1>4 DEF RingLog
<1>6. past \in Seq(Entries) /\ Len(past) = IF r.full THEN Capacity ELSE n
  BY DEF Holds, Size
<1>7. Len(past) <= Capacity
  BY <1>1, <1>6
<1>8. s.next = after /\ s.full = (r.full \/ after = 0) /\ s.buf = [r.buf EXCEPT ![n] = e]
  BY <1>3
<1> DEFINE new == Logged(past, e)
<1>9. /\ new \in Seq(Entries)
      /\ Len(new) = IF Len(past) < Capacity THEN Len(past) + 1 ELSE Capacity
      /\ \A i \in 1..Len(new) : new[i] = IF i = 1 THEN e ELSE past[i - 1]
  BY <1>6, <1>7, LoggedIs
<1> HIDE DEF new, s
<1>10. Len(new) = Size(s)
  <2>1. Size(s) = IF r.full \/ after = 0 THEN Capacity ELSE after
    BY <1>8 DEF Size
  <2>2. CASE r.full
    BY <1>1, <1>6, <1>9, <2>1, <2>2
  <2>3. CASE ~r.full /\ n + 1 < Capacity
    BY <1>1, <1>6, <1>9, <2>1, <2>3
  <2>4. CASE ~r.full /\ n + 1 = Capacity
    BY <1>1, <1>6, <1>9, <2>1, <2>4
  <2> QED
    BY <1>1, <2>2, <2>3, <2>4
<1>11. ASSUME NEW i \in 1..Len(new) PROVE new[i] = Ago(s, i)
  <2>1. i \in 1..Capacity
    BY <1>1, <1>6, <1>7, <1>9
  <2>2. Ago(s, i) = s.buf[Slot(after, i)] /\ Slot(after, i) \in Slots
    BY <1>5, <1>8, <2>1, AgoSlot
  <2>3. CASE i = 1
    <3>1. Slot(after, i) = n
      BY <1>1, <2>3 DEF Slot
    <3> QED
      BY <1>1, <1>8, <1>9, <2>2, <2>3, <3>1
  <2>4. CASE i # 1
    <3>1. i - 1 \in 1..Len(past) /\ i - 1 \in 1..Capacity
      BY <1>1, <1>6, <1>7, <1>9, <2>1, <2>4
    <3>2. Slot(after, i) = Slot(n, i - 1) /\ Slot(after, i) # n
      BY <1>1, <2>1, <2>4 DEF Slot
    <3>3. past[i - 1] = r.buf[Slot(n, i - 1)]
      BY <3>1, AgoSlot DEF Holds
    <3> QED
      BY <1>1, <1>8, <1>9, <2>2, <2>4, <3>2, <3>3
  <2> QED
    BY <2>3, <2>4
<1> QED
  BY <1>5, <1>9, <1>10, <1>11 DEF Holds, new, s

\* A new buffer holds nothing.
LEMMA EmptyHolds == Holds(newRingLog, <<>>)
BY RequestLogAssumption DEF Holds, newRingLog, RingLog, Slots, Size

\* What the log page reads.
LEMMA RecentReads ==
    ASSUME NEW r, NEW past, Holds(r, past), NEW limit \in Int
    PROVE  recent(r, limit) =
             IF limit \in 1..Len(past) THEN SubSeq(past, 1, limit) ELSE past
<1>1. past \in Seq(Entries) /\ Len(past) = Size(r) /\ Len(past) \in Nat
  BY DEF Holds
<1>2. \A i \in 1..Len(past) : past[i] = Ago(r, i)
  BY DEF Holds
<1>3. CASE limit \in 1..Len(past)
  <2>1. recent(r, limit) = [i \in 1..limit |-> Ago(r, i)]
    BY <1>1, <1>3 DEF recent
  <2>2. SubSeq(past, 1, limit) = [i \in 1..limit |-> past[i]]
    BY <1>1, <1>3
  <2> QED
    BY <1>2, <1>3, <2>1, <2>2
<1>4. CASE limit \notin 1..Len(past)
  <2>1. recent(r, limit) = [i \in 1..Len(past) |-> Ago(r, i)]
    BY <1>1, <1>4 DEF recent
  <2>2. past = [i \in 1..Len(past) |-> past[i]]
    BY <1>1
  <2> QED
    BY <1>2, <1>4, <2>1, <2>2
<1> QED
  BY <1>3, <1>4

\* The buffer of the server holds the latest requests.
LogInv == Holds(logs, latest)

\* Every step logs one request, forgets all of them or leaves the log alone.
LEMMA LogStep == DeliveryInv /\ LogInv /\ [DeliveryNext]_allVars => LogInv'
<1> SUFFICES ASSUME DeliveryInv, LogInv, [DeliveryNext]_allVars PROVE LogInv'
  OBVIOUS
<1>1. ASSUME UNCHANGED <<logs, latest>> PROVE LogInv'
  BY <1>1 DEF LogInv, Holds, RingLog, Size, Ago
<1>2. ASSUME NEW r \in Requests, accessLog(r) PROVE LogInv'
  <2>1. req[r].code \in Entries
    BY <1>2, ReqTyped, EntriesAssumption DEF accessLog, DeliveryInv, ReqTypes
  <2>2. logs' = add(logs, req[r].code) /\ latest' = Logged(latest, req[r].code)
    BY <1>2 DEF accessLog, Logged
  <2>3. Holds(add(logs, req[r].code), Logged(latest, req[r].code))
    BY <2>1, AddHolds DEF LogInv
  <2> QED
    BY <2>2, <2>3 DEF LogInv, Holds, RingLog, Size, Ago
<1>3. ASSUME Forget PROVE LogInv'
  <2>1. logs' = newRingLog /\ latest' = <<>>
    BY <1>3 DEF Forget
  <2> QED
    BY <2>1, EmptyHolds DEF LogInv, Holds, RingLog, Size, Ago
<1>4. CASE \E j \in Jobs : GiveUp(j) \/ \E r \in Requests : Send(j, r)
  BY <1>1, <1>4 DEF GiveUp, Send
<1>5. CASE \E r \in Requests : request(r)
  <2> PICK r \in Requests : request(r)
    BY <1>5
  <2>1. CASE accessLog(r)
    BY <1>2, <2>1
  <2>2. CASE UNCHANGED <<logs, latest>>
    BY <1>1, <2>2
  <2>3. CASE ReadBody(r)
    BY <2>2, <2>3, Zenon DEF ReadBody
  <2>4. CASE (\E code \in Codes : ReadFails(r, code)) \/ Invalid(r) \/ Rollback(r)
    BY <2>2, <2>4 DEF ReadFails, Invalid, Rollback
  <2>5. CASE Commit(r) \/ recoverPanic(r)
    BY <2>2, <2>5 DEF Commit, recoverPanic
  <2> QED
    BY <2>1, <2>3, <2>4, <2>5, Zenon DEF request
<1>6. CASE Shutdown
  BY <1>1, <1>6 DEF Shutdown
<1>7. CASE Drained \/ Killed
  BY <1>3, <1>7 DEF Drained, Killed
<1>8. CASE Others
  BY <1>1, <1>8 DEF Others, handlers
<1>9. CASE UNCHANGED allVars
  BY <1>1, <1>9 DEF allVars, handlers
<1> QED
  BY <1>4, <1>5, <1>6, <1>7, <1>8, <1>9 DEF DeliveryNext

\* The log page shows the latest requests, newest first, for a buffer of any size:
\* wrapped or not, and after every restart.
THEOREM LogShowsLatest == DeliverySpec => []LogIsRecent
<1>1. DeliveryInit => LogInv
  BY EmptyHolds DEF DeliveryInit, LogInv, Holds, RingLog, Size, Ago
<1>2. LogInv => LogIsRecent
  BY RecentReads, RequestLogAssumption DEF LogInv, LogIsRecent
<1> QED
  BY <1>1, <1>2, LogStep, DeliveryInvariance, PTL DEF DeliverySpec

-----------------------------------------------------------------------------
(* The shape of a document.  The proof goes from one token to the next: the  *)
(* natural numbers are well founded, and what holds of the empty prefix, and *)
(* of the next prefix when it holds of one, holds of the document.           *)

Smaller == {ss \in Nat \X Nat : ss[1] < ss[2]}

LEMMA SmallerWellFounded == IsWellFoundedOn(Smaller, Nat)
BY NatLessThanWellFounded DEF OpToRel, Smaller

\* Induction up to n, with a set for the property: the first number that is not in
\* it has a predecessor that is.
LEMMA UpTo ==
    ASSUME NEW n \in Nat, NEW S, 0 \in S, \A k \in 0..(n - 1) : k \in S => k + 1 \in S
    PROVE  0..n \subseteq S
<1> DEFINE T == (0..n) \ S
<1>1. SUFFICES ASSUME T # {} PROVE FALSE
  OBVIOUS
<1>2. T \subseteq Nat
  OBVIOUS
<1>3. \E x \in T : \A y \in T : ~(<<y, x>> \in Smaller)
  <2> HIDE DEF T
  <2> QED
    BY <1>1, <1>2, WFMin, SmallerWellFounded
<1>4. PICK x \in T : \A y \in T : ~(<<y, x>> \in Smaller)
  BY <1>3
<1>5. x \in 0..n /\ x \notin S /\ x # 0
  BY <1>4
<1>6. <<x - 1, x>> \in Smaller /\ x - 1 \in 0..(n - 1)
  BY <1>5 DEF Smaller
<1>7. x - 1 \notin T
  BY <1>4, <1>6
<1>8. x - 1 \in S
  BY <1>6, <1>7
<1> QED
  BY <1>5, <1>6, <1>8

\* A set of numbers up to n has a greatest one.
LEMMA MaxIs ==
    ASSUME NEW n \in Nat, NEW s \in SUBSET (1..n), s # {}
    PROVE  Max(s) \in s /\ \A y \in s : y <= Max(s)
<1> DEFINE S == {k \in 0..n : \A r \in SUBSET (1..k) :
                     r # {} => \E x \in r : \A y \in r : y <= x}
<1>1. 0 \in S
  <2>1. ASSUME NEW r \in SUBSET (1..0), r # {}
        PROVE  \E x \in r : \A y \in r : y <= x
    <3>1. PICK x \in r : TRUE
      BY <2>1
    <3>2. x \in 1..0
      BY <3>1
    <3> QED
      BY <3>2
  <2>2. 0 \in 0..n
    OBVIOUS
  <2> QED
    BY <2>1, <2>2
<1>2. ASSUME NEW k \in 0..(n - 1), k \in S PROVE k + 1 \in S
  <2>1. ASSUME NEW r \in SUBSET (1..(k + 1)), r # {}
        PROVE  \E x \in r : \A y \in r : y <= x
    <3>1. CASE k + 1 \in r
      BY <3>1
    <3>2. CASE k + 1 \notin r
      <4>1. r \in SUBSET (1..k)
        BY <3>2
      <4> QED
        BY <1>2, <2>1, <4>1
    <3> QED
      BY <3>1, <3>2
  <2> QED
    BY <2>1
<1> HIDE DEF S
<1>3. n \in S
  BY <1>1, <1>2, UpTo
<1>4. \E x \in s : \A y \in s : y <= x
  BY <1>3 DEF S
<1>5. \E x \in s : \A y \in s : x >= y
  BY <1>4
<1>6. Max(s) \in s /\ \A y \in s : Max(s) >= y
  BY <1>5 DEF Max
<1> QED
  BY <1>6

-----------------------------------------------------------------------------
(* The scan as a fold.                                                     *)

\* The function the fold iterates, on sets of positions up to k.
Unfolds(doc, f, k) ==
    f = [s \in SUBSET (1..k) |->
           IF s = {} THEN ScanInit ELSE ScanToken(f[s \ {Max(s)}], doc[Max(s)])]

Iter(doc) == CHOOSE f : Unfolds(doc, f, Len(doc))

\* The state of the scan after i tokens.
After(doc, i) == Iter(doc)[1..i]

LEMMA UnfoldsExists ==
    ASSUME NEW doc, NEW n \in Nat
    PROVE  \E f : Unfolds(doc, f, n)
<1> DEFINE S == {k \in 0..n : \E f : Unfolds(doc, f, k)}
<1>1. 0 \in S
  <2>1. Unfolds(doc, [s \in SUBSET (1..0) |-> ScanInit], 0)
    BY DEF Unfolds
  <2> QED
    BY <2>1
<1>2. ASSUME NEW k \in 0..(n - 1), k \in S PROVE k + 1 \in S
  <2>1. PICK f : Unfolds(doc, f, k)
    BY <1>2
  <2> DEFINE g == [s \in SUBSET (1..(k + 1)) |->
                     IF s = {} THEN ScanInit ELSE ScanToken(f[s \ {Max(s)}], doc[Max(s)])]
  <2>2. ASSUME NEW s \in SUBSET (1..k) PROVE g[s] = f[s]
    <3>1. f[s] = IF s = {} THEN ScanInit ELSE ScanToken(f[s \ {Max(s)}], doc[Max(s)])
      BY <2>1 DEF Unfolds
    <3>2. s \in SUBSET (1..(k + 1))
      OBVIOUS
    <3> QED
      BY <3>1, <3>2
  <2>3. ASSUME NEW s \in SUBSET (1..(k + 1)), s # {}
        PROVE  g[s \ {Max(s)}] = f[s \ {Max(s)}]
    <3>1. Max(s) \in s /\ \A y \in s : y <= Max(s)
      BY <2>3, k + 1 \in Nat, MaxIs
    <3>2. ASSUME NEW y \in s, y # Max(s) PROVE y \in 1..k
      <4>1. PICK m \in s : m = Max(s) /\ y <= m
        BY <3>1, <3>2
      <4>2. y # m /\ m \in 1..(k + 1) /\ y \in 1..(k + 1)
        BY <3>2, <4>1
      <4> QED
        BY <4>1, <4>2
    <3>3. s \ {Max(s)} \in SUBSET (1..k)
      BY <3>2
    <3> QED
      BY <2>2, <3>3
  <2>4. ASSUME NEW s \in SUBSET (1..(k + 1))
        PROVE  (IF s = {} THEN ScanInit ELSE ScanToken(f[s \ {Max(s)}], doc[Max(s)]))
                 = IF s = {} THEN ScanInit ELSE ScanToken(g[s \ {Max(s)}], doc[Max(s)])
    BY <2>3
  <2>5. g = [s \in SUBSET (1..(k + 1)) |->
               IF s = {} THEN ScanInit ELSE ScanToken(g[s \ {Max(s)}], doc[Max(s)])]
    BY <2>4
  <2> HIDE DEF g
  <2>6. Unfolds(doc, g, k + 1)
    BY <2>5 DEF Unfolds
  <2> QED
    BY <2>6
<1> HIDE DEF S
<1>3. n \in S
  BY <1>1, <1>2, UpTo
<1> QED
  BY <1>3 DEF S

\* The scan begins with ScanInit and takes one token after the other.
LEMMA ScanSteps ==
    ASSUME NEW doc \in Seq(Lexemes)
    PROVE  /\ After(doc, 0) = ScanInit
           /\ \A i \in 0..(Len(doc) - 1) :
                 After(doc, i + 1) = ScanToken(After(doc, i), doc[i + 1])
           /\ FoldLeft(ScanToken, ScanInit, doc) = After(doc, Len(doc))
<1> DEFINE n == Len(doc)
<1>1. n \in Nat /\ DOMAIN doc = 1..n
  OBVIOUS
<1>2. Unfolds(doc, Iter(doc), n)
  BY <1>1, UnfoldsExists DEF Iter
<1> DEFINE f == Iter(doc)
<1>3. ASSUME NEW s \in SUBSET (1..n)
      PROVE  f[s] = IF s = {} THEN ScanInit ELSE ScanToken(f[s \ {Max(s)}], doc[Max(s)])
  BY <1>2 DEF Unfolds
<1>4. After(doc, 0) = ScanInit
  <2>1. f[{}] = ScanInit
    BY <1>3
  <2>2. 1..0 = {}
    OBVIOUS
  <2> QED
    BY <2>1, <2>2 DEF After
<1>5. ASSUME NEW i \in 0..(n - 1)
      PROVE  After(doc, i + 1) = ScanToken(After(doc, i), doc[i + 1])
  <2>1. 1..(i + 1) \in SUBSET (1..n) /\ i + 1 \in 1..(i + 1) /\ i + 1 \in Nat
    BY <1>1
  <2>2. Max(1..(i + 1)) = i + 1
    <3>1. /\ Max(1..(i + 1)) \in 1..(i + 1)
          /\ \A y \in 1..(i + 1) : y <= Max(1..(i + 1))
      BY <2>1, MaxIs
    <3> QED
      BY <2>1, <3>1
  <2>3. (1..(i + 1)) \ {i + 1} = 1..i
    BY <1>1
  <2>4. f[1..(i + 1)] = ScanToken(f[(1..(i + 1)) \ {Max(1..(i + 1))}], doc[Max(1..(i + 1))])
    BY <1>3, <2>1
  <2> QED
    BY <2>2, <2>3, <2>4 DEF After
<1>6. FoldLeft(ScanToken, ScanInit, doc) = After(doc, n)
  <2> DEFINE F(D) == (CHOOSE g : g = [s \in SUBSET D |->
                        IF s = {} THEN ScanInit
                        ELSE ScanToken(g[s \ {Max(s)}], doc[Max(s)])])[D]
  <2>1. FoldLeft(ScanToken, ScanInit, doc) = F(DOMAIN doc)
    BY DEF FoldLeft, MapThenFoldSet
  <2>2. F(1..n) = After(doc, n)
    BY DEF After, Iter, Unfolds
  <2> HIDE DEF F
  <2> QED
    BY <1>1, <2>1, <2>2
<1> QED
  BY <1>4, <1>5, <1>6

-----------------------------------------------------------------------------
(* Counting tokens.                                                        *)

Count(A, i) == Cardinality((1..i) \cap A)

LEMMA Counts ==
    ASSUME NEW A, NEW i \in Nat
    PROVE  /\ Count(A, 0) = 0 /\ Count(A, i) \in Nat
           /\ i + 1 \in A => Count(A, i + 1) = Count(A, i) + 1
           /\ i + 1 \notin A => Count(A, i + 1) = Count(A, i)
<1>1. IsFiniteSet((1..i) \cap A)
  <2>1. IsFiniteSet(1..i)
    BY FS_Interval
  <2> QED
    BY <2>1, FS_Subset
<1>2. Count(A, i) \in Nat
  BY <1>1, FS_CardinalityType DEF Count
<1>3. Count(A, 0) = 0
  <2>1. (1..0) \cap A = {}
    <3>1. 1..0 = {}
      OBVIOUS
    <3> QED
      BY <3>1
  <2> QED
    BY <2>1, FS_EmptySet DEF Count
<1>4. 1..(i + 1) = (1..i) \union {i + 1} /\ i + 1 \notin 1..i
  OBVIOUS
<1>5. ASSUME i + 1 \in A PROVE Count(A, i + 1) = Count(A, i) + 1
  <2>1. (1..(i + 1)) \cap A = ((1..i) \cap A) \union {i + 1}
    BY <1>4, <1>5
  <2>2. i + 1 \notin (1..i) \cap A
    BY <1>4
  <2> QED
    BY <1>1, <2>1, <2>2, FS_AddElement DEF Count
<1>6. ASSUME i + 1 \notin A PROVE Count(A, i + 1) = Count(A, i)
  <2>1. (1..(i + 1)) \cap A = (1..i) \cap A
    BY <1>4, <1>6
  <2> QED
    BY <2>1 DEF Count
<1> QED
  BY <1>2, <1>3, <1>5, <1>6

\* How one token changes the depth.
LEMMA Depths ==
    ASSUME NEW doc, NEW i \in Nat
    PROVE  /\ Depth(doc, 0) = 0 /\ Depth(doc, i) \in Int
           /\ doc[i + 1] \in Opening => Depth(doc, i + 1) = Depth(doc, i) + 1
           /\ doc[i + 1] = "end" => Depth(doc, i + 1) = Depth(doc, i) - 1
           /\ doc[i + 1] \notin Opening \union {"end"} => Depth(doc, i + 1) = Depth(doc, i)
<1> DEFINE A == {k \in Nat : doc[k] \in Opening}
           B == {k \in Nat : doc[k] = "end"}
<1>1. ASSUME NEW n \in Nat PROVE Depth(doc, n) = Count(A, n) - Count(B, n)
  <2>1. {k \in 1..n : doc[k] \in Opening} = (1..n) \cap A
    OBVIOUS
  <2>2. {k \in 1..n : doc[k] = "end"} = (1..n) \cap B
    OBVIOUS
  <2> QED
    BY <2>1, <2>2 DEF Depth, Count
<1>2. Depth(doc, 0) = Count(A, 0) - Count(B, 0)
  BY <1>1
<1>3. Depth(doc, i) = Count(A, i) - Count(B, i)
  BY <1>1
<1>4. Depth(doc, i + 1) = Count(A, i + 1) - Count(B, i + 1)
  BY <1>1, i + 1 \in Nat
<1>5. /\ i + 1 \in A <=> doc[i + 1] \in Opening
      /\ i + 1 \in B <=> doc[i + 1] = "end"
  OBVIOUS
<1>6. ~("end" \in Opening)
  BY DEF Opening
<1> HIDE DEF A, B
<1>7. /\ Count(A, 0) = 0 /\ Count(B, 0) = 0 /\ Count(A, i) \in Nat /\ Count(B, i) \in Nat
      /\ i + 1 \in A => Count(A, i + 1) = Count(A, i) + 1
      /\ i + 1 \notin A => Count(A, i + 1) = Count(A, i)
      /\ i + 1 \in B => Count(B, i + 1) = Count(B, i) + 1
      /\ i + 1 \notin B => Count(B, i + 1) = Count(B, i)
  BY Counts
<1> QED
  BY <1>2, <1>3, <1>4, <1>5, <1>6, <1>7

\* How one token changes the number of elements.
LEMMA ElementCounts ==
    ASSUME NEW doc, NEW i \in Nat
    PROVE  /\ Elements(doc, 0) = 0 /\ Elements(doc, i) \in Nat
           /\ IsElement(doc, i + 1) => Elements(doc, i + 1) = Elements(doc, i) + 1
           /\ ~IsElement(doc, i + 1) => Elements(doc, i + 1) = Elements(doc, i)
<1> DEFINE A == {k \in Nat : IsElement(doc, k)}
<1>1. ASSUME NEW n \in Nat PROVE Elements(doc, n) = Count(A, n)
  <2>1. {k \in 1..n : IsElement(doc, k)} = (1..n) \cap A
    OBVIOUS
  <2> QED
    BY <2>1 DEF Elements, Count
<1>2. Elements(doc, 0) = Count(A, 0) /\ Elements(doc, i) = Count(A, i)
  BY <1>1
<1>3. Elements(doc, i + 1) = Count(A, i + 1)
  BY <1>1, i + 1 \in Nat
<1>4. i + 1 \in A <=> IsElement(doc, i + 1)
  OBVIOUS
<1> HIDE DEF A
<1> QED
  BY <1>2, <1>3, <1>4, Counts

-----------------------------------------------------------------------------
(* What the scan knows after i tokens.                                     *)

\* Token k opened the level l that is still open after i tokens.
Opens(doc, k, l, i) ==
    doc[k] \in Opening /\ Depth(doc, k) = l /\ \A m \in k..i : Depth(doc, m) >= l

\* The first value has begun, unless nothing was read, has not ended and is within
\* the limits; the stack holds what is open.
Within(doc, i, s) ==
    /\ Readable(doc, i)
    /\ \A k \in 1..i : Depth(doc, k) > 0 /\ ~Exceeds(doc, k)
    /\ s.stack \in Seq(Opening) /\ Len(s.stack) = Depth(doc, i)
    /\ Len(s.stack) <= maxIngestDepth
    /\ s.elements = Elements(doc, i) /\ s.elements <= maxIngestElements
    /\ \A l \in 1..Len(s.stack) : \E k \in 1..i : doc[k] = s.stack[l] /\ Opens(doc, k, l, i)

\* The state of the scan after i tokens is right about them.
Agrees(doc, i, s) ==
    \/ s.verdict = "more" /\ Within(doc, i, s)
    \/ s.verdict = "tooLarge" /\ \E j \in 1..i : Exceeds(doc, j)
    \/ /\ s.verdict = "ok"
       /\ \E j \in 1..i : Ends(doc, j) /\ \A k \in 1..j : ~Exceeds(doc, k)
    \/ /\ s.verdict = "malformed"
       /\ \E j \in 1..i : /\ ~Readable(doc, j)
                          /\ \A k \in 1..(j - 1) : ~Exceeds(doc, k) /\ ~Ends(doc, k)

\* Only one token opened a level that is open.
LEMMA OneOpener ==
    ASSUME NEW doc, NEW i \in Nat, NEW l,
           NEW k1 \in 1..i, Opens(doc, k1, l, i), NEW k2 \in 1..i, Opens(doc, k2, l, i)
    PROVE  k1 = k2
<1>1. ASSUME NEW a \in 1..i, NEW b \in 1..i, Opens(doc, a, l, i), Opens(doc, b, l, i)
      PROVE  ~(a < b)
  <2>1. SUFFICES ASSUME a < b PROVE FALSE
    OBVIOUS
  <2>2. PICK c \in Nat : b = c + 1
    <3>1. b - 1 \in Nat /\ b = (b - 1) + 1
      OBVIOUS
    <3> QED
      BY <3>1
  <2>3. Depth(doc, b) = l /\ Depth(doc, b) = Depth(doc, c) + 1 /\ Depth(doc, c) \in Int
    BY <1>1, <2>2, Depths DEF Opens
  <2>4. c \in a..i
    BY <2>1, <2>2
  <2>5. Depth(doc, c) >= l
    BY <1>1, <2>4 DEF Opens
  <2> QED
    BY <2>3, <2>5
<1>2. ~(k1 < k2) /\ ~(k2 < k1)
  BY <1>1
<1> QED
  BY <1>2

\* The top of the stack says what the next token stands in.
LEMMA TopOfStack ==
    ASSUME NEW doc, NEW i \in Nat, NEW s, Within(doc, i, s)
    PROVE  InArray(s.stack) <=> \E k \in 1..i : doc[k] = "array" /\ Encloses(doc, k, i + 1)
<1>1. Depth(doc, i) \in Int /\ (i + 1) - 1 = i
  BY Depths
<1>2. ASSUME NEW k \in 1..i
      PROVE  Encloses(doc, k, i + 1) <=> Opens(doc, k, Depth(doc, i), i)
  BY <1>1 DEF Encloses, Opens
<1>3. s.stack \in Seq(Opening) /\ Len(s.stack) = Depth(doc, i)
  BY DEF Within
<1>4. ASSUME InArray(s.stack)
      PROVE  \E k \in 1..i : doc[k] = "array" /\ Encloses(doc, k, i + 1)
  <2>1. Len(s.stack) \in 1..Len(s.stack) /\ s.stack[Len(s.stack)] = "array"
    BY <1>3, <1>4 DEF InArray, Last
  <2>2. PICK k \in 1..i : /\ doc[k] = s.stack[Len(s.stack)]
                          /\ Opens(doc, k, Len(s.stack), i)
    BY <2>1 DEF Within
  <2> QED
    BY <1>2, <1>3, <2>1, <2>2
<1>5. ASSUME NEW k \in 1..i, doc[k] = "array", Encloses(doc, k, i + 1)
      PROVE  InArray(s.stack)
  <2>1. Opens(doc, k, Depth(doc, i), i)
    BY <1>2, <1>5
  <2>2. Depth(doc, i) > 0
    BY DEF Within
  <2>3. Depth(doc, i) \in 1..Len(s.stack)
    BY <1>1, <1>3, <2>2
  <2>4. PICK m \in 1..i : /\ doc[m] = s.stack[Depth(doc, i)]
                          /\ Opens(doc, m, Depth(doc, i), i)
    BY <2>3 DEF Within
  <2>5. m = k
    BY <2>1, <2>4, OneOpener
  <2>6. s.stack # <<>>
    BY <1>3, <2>2
  <2> QED
    BY <1>3, <1>5, <2>4, <2>5, <2>6 DEF InArray, Last
<1> QED
  BY <1>4, <1>5

\* A prefix that is longer by one token keeps what is said of the shorter one.
LEMMA FindingStays ==
    ASSUME NEW doc, NEW i \in Nat, NEW s, Agrees(doc, i, s), s.verdict # "more"
    PROVE  Agrees(doc, i + 1, s)
<1>1. 1..i \subseteq 1..(i + 1)
  OBVIOUS
<1> QED
  BY <1>1 DEF Agrees

\* What is readable, and what exceeds or ends, at the next token.
LEMMA NextToken ==
    ASSUME NEW doc, NEW i \in Nat, NEW s, Within(doc, i, s)
    PROVE  /\ Readable(doc, i + 1) <=> doc[i + 1] # "bad" /\ Depth(doc, i + 1) >= 0
           /\ Exceeds(doc, i + 1) <=>
                /\ Readable(doc, i + 1)
                /\ \/ Elements(doc, i + 1) > maxIngestElements
                   \/ Depth(doc, i + 1) > maxIngestDepth
           /\ Ends(doc, i + 1) <=> Readable(doc, i + 1) /\ Depth(doc, i + 1) = 0
           /\ \A k \in 1..i : ~Exceeds(doc, k) /\ ~Ends(doc, k)
           /\ s.stack = <<>> => i = 0
<1>1. Readable(doc, i) /\ \A k \in 1..i : Depth(doc, k) > 0 /\ ~Exceeds(doc, k)
  BY DEF Within
<1>2. (i + 1) - 1 = i /\ 1..(i + 1) = (1..i) \union {i + 1}
  OBVIOUS
<1>3. Readable(doc, i + 1) <=> doc[i + 1] # "bad" /\ Depth(doc, i + 1) >= 0
  BY <1>1, <1>2 DEF Readable
<1>4. ASSUME NEW k \in 1..i PROVE ~Ends(doc, k)
  BY <1>1 DEF Ends
<1>5. ASSUME s.stack = <<>> PROVE i = 0
  <2>1. Depth(doc, i) = 0
    BY <1>5 DEF Within
  <2>2. i \notin 1..i
    BY <1>1, <2>1
  <2> QED
    BY <2>2
<1> QED
  BY <1>1, <1>2, <1>3, <1>4, <1>5 DEF Exceeds, Ends

\* A level that is not closed by the next token stays open.
LEMMA StaysOpen ==
    ASSUME NEW doc, NEW i \in Nat, NEW l, NEW k \in 1..i, Opens(doc, k, l, i),
           Depth(doc, i + 1) >= l
    PROVE  k \in 1..(i + 1) /\ Opens(doc, k, l, i + 1)
<1>1. k..(i + 1) = (k..i) \union {i + 1}
  OBVIOUS
<1> QED
  BY <1>1 DEF Opens

LEMMA CloseAgrees ==
    ASSUME NEW doc, NEW i \in Nat, NEW s, Within(doc, i, s), s.verdict = "more",
           doc[i + 1] = "end"
    PROVE  Agrees(doc, i + 1, Close(s))
<1>1. /\ Depth(doc, i) \in Int /\ Depth(doc, i + 1) = Depth(doc, i) - 1
      /\ Elements(doc, i + 1) = Elements(doc, i)
  BY Depths, ElementCounts DEF IsElement
<1>2. s.stack \in Seq(Opening) /\ Len(s.stack) = Depth(doc, i)
  BY DEF Within
<1>3. i + 1 \in 1..(i + 1) /\ (i + 1) - 1 = i
  OBVIOUS
<1>4. CASE s.stack = <<>>
  <2>1. Close(s).verdict = "malformed"
    BY <1>4 DEF Close, Scan
  <2>2. ~Readable(doc, i + 1)
    BY <1>1, <1>2, <1>4, NextToken
  <2>3. \A k \in 1..i : ~Exceeds(doc, k) /\ ~Ends(doc, k)
    BY NextToken
  <2> QED
    BY <1>3, <2>1, <2>2, <2>3 DEF Agrees
<1>5. CASE s.stack # <<>>
  <2>1. PICK rest : rest = Front(s.stack)
    OBVIOUS
  <2>2. /\ rest \in Seq(Opening) /\ Len(rest) = Len(s.stack) - 1
        /\ \A l \in 1..Len(rest) : rest[l] = s.stack[l]
    BY <1>2, <1>5, <2>1 DEF Front
  <2>3. Close(s) = Scan(rest, s.elements, IF rest = <<>> THEN "ok" ELSE "more")
    BY <1>5, <2>1 DEF Close
  <2>4. Readable(doc, i + 1)
    BY <1>1, <1>2, <2>2, NextToken
  <2>5. /\ s.elements = Elements(doc, i) /\ s.elements <= maxIngestElements
        /\ Len(s.stack) <= maxIngestDepth
    BY DEF Within
  <2>6. ~Exceeds(doc, i + 1)
    <3>1. Elements(doc, i) \in Nat
      BY ElementCounts
    <3>2. Exceeds(doc, i + 1) => \/ Elements(doc, i + 1) > maxIngestElements
                                \/ Depth(doc, i + 1) > maxIngestDepth
      BY NextToken
    <3> QED
      BY <1>1, <1>2, <2>5, <3>1, <3>2, IngestShapeAssumption
  <2>7. \A k \in 1..(i + 1) : ~Exceeds(doc, k)
    BY <2>6, NextToken
  <2>8. CASE rest = <<>>
    <3>1. Close(s).verdict = "ok"
      BY <2>3, <2>8 DEF Scan
    <3>2. Ends(doc, i + 1)
      BY <1>1, <1>2, <2>2, <2>4, <2>8, NextToken
    <3> QED
      BY <1>3, <2>7, <3>1, <3>2 DEF Agrees
  <2>9. CASE rest # <<>>
    <3>1. Close(s).verdict = "more" /\ Close(s).stack = rest /\ Close(s).elements = s.elements
      BY <2>3, <2>9 DEF Scan
    <3>2. Len(rest) = Depth(doc, i + 1) /\ Len(rest) > 0 /\ Len(rest) <= maxIngestDepth
      BY <1>1, <1>2, <2>2, <2>5, <2>9, IngestShapeAssumption
    <3>3. \A k \in 1..(i + 1) : Depth(doc, k) > 0
      BY <3>2 DEF Within
    <3>4. ASSUME NEW l \in 1..Len(rest)
          PROVE  \E k \in 1..(i + 1) : doc[k] = rest[l] /\ Opens(doc, k, l, i + 1)
      <4>1. l \in 1..Len(s.stack) /\ rest[l] = s.stack[l] /\ Depth(doc, i + 1) >= l
        BY <1>2, <2>2, <3>2
      <4>2. PICK k \in 1..i : doc[k] = s.stack[l] /\ Opens(doc, k, l, i)
        BY <4>1 DEF Within
      <4>3. k \in 1..(i + 1) /\ Opens(doc, k, l, i + 1)
        BY <4>1, <4>2, StaysOpen
      <4> QED
        BY <4>1, <4>2, <4>3
    <3>5. Within(doc, i + 1, Close(s))
      BY <1>1, <2>2, <2>4, <2>5, <2>7, <3>1, <3>2, <3>3, <3>4 DEF Within
    <3> QED
      BY <3>1, <3>5 DEF Agrees
  <2> QED
    BY <2>8, <2>9
<1> QED
  BY <1>4, <1>5

LEMMA ValueAgrees ==
    ASSUME NEW doc, NEW i \in Nat, NEW s, Within(doc, i, s), s.verdict = "more",
           doc[i + 1] \in Opening \union {"scalar"}
    PROVE  Agrees(doc, i + 1, Value(s, doc[i + 1]))
<1>1. PICK n : n = IF InArray(s.stack) THEN s.elements + 1 ELSE s.elements
  OBVIOUS
<1>2. /\ s.stack \in Seq(Opening) /\ Len(s.stack) = Depth(doc, i)
      /\ s.elements = Elements(doc, i) /\ Len(s.stack) <= maxIngestDepth
  BY DEF Within
<1>3. doc[i + 1] \notin {"end", "bad"} /\ "scalar" \notin Opening
  BY DEF Opening
<1>4. n = Elements(doc, i + 1) /\ n \in Nat
  <2>1. InArray(s.stack) <=> IsElement(doc, i + 1)
    <3>1. (i + 1) - 1 = i
      OBVIOUS
    <3> QED
      BY <1>3, <3>1, TopOfStack DEF IsElement
  <2> QED
    BY <1>1, <1>2, <2>1, ElementCounts
<1>5. /\ Depth(doc, i) \in Nat
      /\ doc[i + 1] \in Opening => Depth(doc, i + 1) = Depth(doc, i) + 1
      /\ doc[i + 1] \notin Opening => Depth(doc, i + 1) = Depth(doc, i)
  BY <1>2, <1>3, Depths
<1>6. Readable(doc, i + 1)
  BY <1>3, <1>5, NextToken
<1>7. i + 1 \in 1..(i + 1) /\ (i + 1) - 1 = i
  OBVIOUS
<1>8. CASE n > maxIngestElements \/ (doc[i + 1] \in Opening /\ Len(s.stack) = maxIngestDepth)
  <2>1. Value(s, doc[i + 1]).verdict = "tooLarge"
    BY <1>1, <1>8 DEF Value, Scan
  <2>2. \/ Elements(doc, i + 1) > maxIngestElements
        \/ Depth(doc, i + 1) > maxIngestDepth
    BY <1>2, <1>4, <1>5, <1>8, IngestShapeAssumption
  <2>3. Exceeds(doc, i + 1)
    BY <1>6, <2>2, NextToken
  <2> QED
    BY <1>7, <2>1, <2>3 DEF Agrees
<1>9. CASE ~(n > maxIngestElements \/ (doc[i + 1] \in Opening /\ Len(s.stack) = maxIngestDepth))
  <2>1. n <= maxIngestElements /\ Depth(doc, i + 1) <= maxIngestDepth
    <3>1. n <= maxIngestElements
      BY <1>4, <1>9, IngestShapeAssumption
    <3>2. CASE doc[i + 1] \in Opening
      BY <1>2, <1>5, <1>9, <3>1, <3>2, IngestShapeAssumption
    <3>3. CASE doc[i + 1] \notin Opening
      BY <1>2, <1>5, <3>1, <3>3
    <3> QED
      BY <3>2, <3>3
  <2>2. ~Exceeds(doc, i + 1)
    <3>1. Exceeds(doc, i + 1) => \/ Elements(doc, i + 1) > maxIngestElements
                                \/ Depth(doc, i + 1) > maxIngestDepth
      BY NextToken
    <3>2. Depth(doc, i + 1) \in Int
      BY <1>5
    <3> QED
      BY <1>4, <2>1, <3>1, <3>2, IngestShapeAssumption
  <2>3. \A k \in 1..(i + 1) : ~Exceeds(doc, k)
    BY <2>2, NextToken
  <2>4. ASSUME NEW l \in 1..Len(s.stack)
        PROVE  \E k \in 1..(i + 1) : doc[k] = s.stack[l] /\ Opens(doc, k, l, i + 1)
    <3>1. PICK k \in 1..i : doc[k] = s.stack[l] /\ Opens(doc, k, l, i)
      BY DEF Within
    <3>2. Depth(doc, i + 1) >= l
      BY <1>2, <1>5
    <3> QED
      BY <3>1, <3>2, StaysOpen
  <2>5. CASE doc[i + 1] \in Opening
    <3>1. PICK st : st = Append(s.stack, doc[i + 1])
      OBVIOUS
    <3>2. PICK v : v = Value(s, doc[i + 1])
      OBVIOUS
    <3>3. v.verdict = "more" /\ v.stack = st /\ v.elements = n
      BY <1>1, <1>9, <2>5, <3>1, <3>2 DEF Value, Scan
    <3>4. /\ st \in Seq(Opening) /\ Len(st) = Len(s.stack) + 1
          /\ st[Len(st)] = doc[i + 1] /\ \A l \in 1..Len(s.stack) : st[l] = s.stack[l]
      BY <1>2, <2>5, <3>1
    <3>5. Len(st) = Depth(doc, i + 1) /\ Len(st) > 0 /\ Len(st) <= maxIngestDepth
      BY <1>2, <1>5, <2>1, <2>5, <3>4
    <3>6. \A k \in 1..(i + 1) : Depth(doc, k) > 0
      BY <3>5 DEF Within
    <3>7. Opens(doc, i + 1, Len(st), i + 1)
      <4>1. \A m \in (i + 1)..(i + 1) : m = i + 1
        OBVIOUS
      <4> QED
        BY <2>5, <3>5, <4>1 DEF Opens
    <3>8. ASSUME NEW l \in 1..Len(st)
          PROVE  \E k \in 1..(i + 1) : doc[k] = st[l] /\ Opens(doc, k, l, i + 1)
      <4>1. CASE l = Len(st)
        BY <1>7, <3>4, <3>7, <4>1
      <4>2. CASE l # Len(st)
        <5>1. l \in 1..Len(s.stack)
          BY <1>2, <3>4, <4>2
        <5> QED
          BY <2>4, <3>4, <5>1
      <4> QED
        BY <4>1, <4>2
    <3>9. Within(doc, i + 1, v)
      BY <1>4, <1>6, <2>1, <2>3, <3>3, <3>4, <3>5, <3>6, <3>8 DEF Within
    <3> QED
      BY <3>2, <3>3, <3>9 DEF Agrees
  <2>6. CASE doc[i + 1] \notin Opening
    <3>1. PICK v : v = Value(s, doc[i + 1])
      OBVIOUS
    <3>2. v = Scan(s.stack, n, IF s.stack = <<>> THEN "ok" ELSE "more")
      BY <1>1, <1>9, <2>6, <3>1 DEF Value
    <3>3. v.stack = s.stack /\ v.elements = n
      BY <3>2 DEF Scan
    <3>4. CASE s.stack = <<>>
      <4>1. v.verdict = "ok"
        BY <3>2, <3>4 DEF Scan
      <4>2. Ends(doc, i + 1)
        BY <1>2, <1>5, <1>6, <2>6, <3>4, NextToken
      <4> QED
        BY <1>7, <2>3, <3>1, <4>1, <4>2 DEF Agrees
    <3>5. CASE s.stack # <<>>
      <4>1. v.verdict = "more"
        BY <3>2, <3>5 DEF Scan
      <4>2. Len(s.stack) = Depth(doc, i + 1) /\ Len(s.stack) > 0
        BY <1>2, <1>5, <2>6, <3>5
      <4>3. \A k \in 1..(i + 1) : Depth(doc, k) > 0
        BY <4>2 DEF Within
      <4>4. Within(doc, i + 1, v)
        BY <1>2, <1>4, <1>6, <2>1, <2>3, <2>4, <3>3, <4>2, <4>3 DEF Within
      <4> QED
        BY <3>1, <4>1, <4>4 DEF Agrees
    <3> QED
      BY <3>4, <3>5
  <2> QED
    BY <2>5, <2>6
<1> QED
  BY <1>8, <1>9

LEMMA ScanTokenAgrees ==
    ASSUME NEW doc, NEW i \in Nat, NEW s, doc[i + 1] \in Lexemes, Agrees(doc, i, s)
    PROVE  Agrees(doc, i + 1, ScanToken(s, doc[i + 1]))
<1>1. CASE s.verdict # "more"
  BY <1>1, FindingStays DEF ScanToken
<1>2. CASE s.verdict = "more"
  <2>1. Within(doc, i, s)
    BY <1>2 DEF Agrees
  <2>2. CASE doc[i + 1] = "bad"
    <3>1. ScanToken(s, doc[i + 1]).verdict = "malformed"
      BY <1>2, <2>2 DEF ScanToken, Scan
    <3>2. ~Readable(doc, i + 1) /\ \A k \in 1..i : ~Exceeds(doc, k) /\ ~Ends(doc, k)
      BY <2>1, <2>2, NextToken
    <3>3. i + 1 \in 1..(i + 1) /\ (i + 1) - 1 = i
      OBVIOUS
    <3> QED
      BY <3>1, <3>2, <3>3 DEF Agrees
  <2>3. CASE doc[i + 1] = "end"
    <3>1. ScanToken(s, doc[i + 1]) = Close(s)
      BY <1>2, <2>3 DEF ScanToken
    <3> QED
      BY <1>2, <2>1, <2>3, <3>1, CloseAgrees
  <2>4. CASE doc[i + 1] \notin {"bad", "end"}
    <3>1. ScanToken(s, doc[i + 1]) = Value(s, doc[i + 1])
      BY <1>2, <2>4 DEF ScanToken
    <3>2. doc[i + 1] \in Opening \union {"scalar"}
      BY <2>4 DEF Lexemes
    <3> QED
      BY <1>2, <2>1, <3>1, <3>2, ValueAgrees
  <2> QED
    BY <2>2, <2>3, <2>4
<1> QED
  BY <1>1, <1>2

\* The scan is right about every document, of any length and with any limits: it
\* says of it what its shape is.
THEOREM ShapeAgrees == \A doc \in Seq(Lexemes) : checkIngestShape(doc) = Shape(doc)
<1> TAKE doc \in Seq(Lexemes)
<1>1. PICK n \in Nat : n = Len(doc)
  OBVIOUS
<1>2. PICK s : s = After(doc, n)
  OBVIOUS
<1>3. Agrees(doc, n, s)
  <2> DEFINE S == {i \in 0..n : Agrees(doc, i, After(doc, i))}
  <2>1. 0 \in S
    <3>1. After(doc, 0) = ScanInit /\ ScanInit.verdict = "more"
      <4>1. After(doc, 0) = ScanInit
        BY ScanSteps
      <4>2. ScanInit.verdict = "more"
        BY DEF ScanInit, Scan
      <4> QED
        BY <4>1, <4>2
    <3>2. Within(doc, 0, ScanInit)
      <4>1. \A k \in 1..0 : FALSE
        OBVIOUS
      <4>2. ScanInit.stack = <<>> /\ ScanInit.elements = 0
        BY DEF ScanInit, Scan
      <4>3. Depth(doc, 0) = 0 /\ Elements(doc, 0) = 0
        BY Depths, ElementCounts
      <4>4. Readable(doc, 0)
        BY <4>1 DEF Readable
      <4> QED
        BY <4>1, <4>2, <4>3, <4>4, IngestShapeAssumption DEF Within
    <3>3. Agrees(doc, 0, After(doc, 0))
      BY <3>1, <3>2 DEF Agrees
    <3> QED
      BY <3>3
  <2>2. ASSUME NEW i \in 0..(n - 1), i \in S PROVE i + 1 \in S
    <3>1. After(doc, i + 1) = ScanToken(After(doc, i), doc[i + 1])
      BY <1>1, ScanSteps
    <3>2. i \in Nat /\ i + 1 \in 0..n /\ doc[i + 1] \in Lexemes
      BY <1>1
    <3>3. Agrees(doc, i, After(doc, i))
      BY <2>2
    <3> QED
      BY <3>1, <3>2, <3>3, ScanTokenAgrees
  <2> HIDE DEF S
  <2>3. 0..n \subseteq S
    BY <2>1, <2>2, UpTo
  <2>4. n \in S
    BY <2>3
  <2> QED
    BY <1>2, <2>4 DEF S
<1>4. checkIngestShape(doc) = IF s.verdict = "more" THEN "malformed" ELSE s.verdict
  BY <1>1, <1>2, ScanSteps DEF checkIngestShape
<1>5. ASSUME NEW j \in 1..n, ~Readable(doc, j), NEW k \in 1..n, k >= j
      PROVE  ~Exceeds(doc, k) /\ ~Ends(doc, k)
  <2>1. 1..j \subseteq 1..k
    BY <1>5
  <2> QED
    BY <1>5, <2>1 DEF Readable, Exceeds, Ends
<1>6. ASSUME NEW j \in 1..n, Ends(doc, j), NEW k \in 1..n, k > j
      PROVE  ~Exceeds(doc, k)
  <2>1. j \in 1..(k - 1) /\ ~(Depth(doc, j) > 0)
    BY <1>6 DEF Ends
  <2> QED
    BY <2>1 DEF Exceeds
<1>7. CASE s.verdict = "more" /\ Within(doc, n, s)
  <2>1. \A k \in 1..n : ~Exceeds(doc, k) /\ ~Ends(doc, k)
    BY <1>7, NextToken
  <2> QED
    BY <1>1, <1>4, <1>7, <2>1 DEF Shape
<1>8. CASE s.verdict = "tooLarge" /\ \E j \in 1..n : Exceeds(doc, j)
  BY <1>1, <1>4, <1>8 DEF Shape
<1>9. CASE /\ s.verdict = "ok"
           /\ \E j \in 1..n : Ends(doc, j) /\ \A k \in 1..j : ~Exceeds(doc, k)
  <2>1. PICK j \in 1..n : Ends(doc, j) /\ \A k \in 1..j : ~Exceeds(doc, k)
    BY <1>9
  <2>2. ASSUME NEW k \in 1..n PROVE ~Exceeds(doc, k)
    <3>1. CASE k > j
      BY <1>6, <2>1, <3>1
    <3>2. CASE ~(k > j)
      BY <2>1, <3>2
    <3> QED
      BY <3>1, <3>2
  <2> QED
    BY <1>1, <1>4, <1>9, <2>1, <2>2 DEF Shape
<1>10. CASE /\ s.verdict = "malformed"
            /\ \E j \in 1..n : /\ ~Readable(doc, j)
                               /\ \A k \in 1..(j - 1) : ~Exceeds(doc, k) /\ ~Ends(doc, k)
  <2>1. PICK j \in 1..n : /\ ~Readable(doc, j)
                          /\ \A k \in 1..(j - 1) : ~Exceeds(doc, k) /\ ~Ends(doc, k)
    BY <1>10
  <2>2. ASSUME NEW k \in 1..n PROVE ~Exceeds(doc, k) /\ ~Ends(doc, k)
    <3>1. CASE k >= j
      BY <1>5, <2>1, <3>1
    <3>2. CASE ~(k >= j)
      BY <2>1, <3>2
    <3> QED
      BY <3>1, <3>2
  <2> QED
    BY <1>1, <1>4, <1>10, <2>2 DEF Shape
<1> QED
  BY <1>3, <1>7, <1>8, <1>9, <1>10 DEF Agrees

-----------------------------------------------------------------------------
(* What becomes of a body.                                                 *)

\* What the handler does with a body fits its shape.
Fits(v) ==
    /\ v.at = "insert" => v.shape = "ok"
    /\ v.at = "answered" =>
          /\ v.shape = "tooLarge" => v.code = 413
          /\ v.shape = "malformed" => v.code = 400
          /\ v.code = 413 => v.shape \in {Unread, "tooLarge"}

\* Every request fits.
Fitting == \A q \in Requests : Fits(req[q])

LEMMA OutcomesAgree ==
    ASSUME NEW o \in Outcomes
    PROVE  o.verdict = o.shape /\ o.shape \in Verdicts
<1>1. PICK d \in Bodies : o = [verdict |-> checkIngestShape(d), shape |-> Shape(d)]
  BY DEF Outcomes
<1>2. checkIngestShape(d) = Shape(d)
  BY BodiesAssumption, ShapeAgrees
<1>3. Shape(d) \in Verdicts
  BY DEF Shape, Verdicts
<1> QED
  BY <1>1, <1>2, <1>3

\* An answer that fits leaves every request fitting.
LEMMA AnswerFits ==
    ASSUME ClientTypes, Fitting, NEW r \in Requests,
           req[r].at # "free", NEW code \in Codes, NEW shape \in Shapes,
           AnswerWith(r, code, shape), shape = "tooLarge" => code = 413,
           shape = "malformed" => code = 400, code = 413 => shape \in {Unread, "tooLarge"}
    PROVE  \A q \in Requests : Fits(req'[q])
<1>1. Becomes(r, Answered(r, code, shape))
  BY AnswerWithBecomes
<1>2. Fits(Answered(r, code, shape))
  BY DEF Answered, Fits
<1> QED
  BY <1>1, <1>2 DEF Becomes, Fitting

LEMMA RequestFits ==
    ASSUME DeliveryInv, Fitting, NEW r \in Requests, request(r)
    PROVE  \A q \in Requests : Fits(req'[q])
<1>1. ClientTypes
  BY DEF DeliveryInv
<1>2. req[r].at # "free" => req[r].job \in Jobs /\ req[r].heard \in BOOLEAN
  BY <1>1, ReqTyped
<1>3. ASSUME NEW code \in Codes, ReadFails(r, code) PROVE \A q \in Requests : Fits(req'[q])
  BY <1>1, <1>3, AnswerFits DEF ReadFails, Shapes, Unread
<1>4. CASE ReadBody(r)
  <2>1. PICK b \in Outcomes : b = body[req[r].job]
    BY <1>1, <1>2, <1>4 DEF ReadBody, ClientTypes
  <2>2. b.verdict = b.shape /\ b.shape \in Verdicts /\ b.shape \in Shapes
    BY OutcomesAgree DEF Shapes
  <2>3. CASE b.shape = "tooLarge"
    <3>1. req[r].at = "read" /\ AnswerWith(r, 413, b.shape)
      BY <1>4, <2>1, <2>2, <2>3 DEF ReadBody
    <3> QED
      BY <1>1, <2>2, <2>3, <3>1, AnswerFits DEF Codes
  <2>4. CASE b.shape = "malformed"
    <3>1. req[r].at = "read" /\ AnswerWith(r, 400, b.shape)
      BY <1>4, <2>1, <2>2, <2>4 DEF ReadBody
    <3> QED
      BY <1>1, <2>2, <2>4, <3>1, AnswerFits DEF Codes
  <2>5. CASE b.shape = "ok"
    <3>1. PICK v : v = [at |-> "insert", job |-> req[r].job, heard |-> req[r].heard,
                        shape |-> b.shape]
      OBVIOUS
    <3>2. v \in ReqTypes
      BY <1>2, <1>4, <2>2, <3>1 DEF ReadBody, ReqTypes
    <3>3. req' = [req EXCEPT ![r] = v]
      BY <1>1, <1>4, <2>1, <2>2, <2>5, <3>1 DEF ReadBody, ClientTypes
    <3>4. Fits(v)
      BY <2>5, <3>1 DEF Fits
    <3> QED
      BY <1>1, <3>2, <3>3, <3>4, SetReq DEF Becomes, Fitting
  <2> QED
    BY <2>2, <2>3, <2>4, <2>5 DEF Verdicts
<1>5. ASSUME NEW code \in Codes, code # 413, req[r].at = "insert",
             AnswerWith(r, code, req[r].shape)
      PROVE  \A q \in Requests : Fits(req'[q])
  <2>1. req[r].shape = "ok" /\ req[r].shape \in Shapes
    BY <1>1, <1>5, ReqTyped DEF Fits, Fitting
  <2> QED
    BY <1>1, <1>5, <2>1, AnswerFits
<1>6. CASE Invalid(r) \/ Commit(r) \/ Rollback(r)
  BY <1>5, <1>6 DEF Invalid, Commit, Rollback, Codes
<1>7. CASE accessLog(r) \/ recoverPanic(r)
  <2>1. req' = [req EXCEPT ![r] = NoReq]
    BY <1>7 DEF accessLog, recoverPanic, Finish
  <2>2. Fits(NoReq) /\ NoReq \in ReqTypes
    BY DEF Fits, NoReq, ReqTypes
  <2> QED
    BY <1>1, <2>1, <2>2, SetReq DEF Becomes, Fitting
<1> QED
  BY <1>3, <1>4, <1>6, <1>7 DEF request

LEMMA DeliveryFits == DeliveryInv /\ Fitting /\ [DeliveryNext]_allVars => Fitting'
<1> SUFFICES ASSUME DeliveryInv, Fitting, [DeliveryNext]_allVars
             PROVE  \A q \in Requests : Fits(req'[q])
  BY DEF Fitting, Fits
<1>1. ClientTypes
  BY DEF DeliveryInv
<1>2. ASSUME NEW r \in Requests, request(r) PROVE \A q \in Requests : Fits(req'[q])
  BY <1>2, RequestFits
<1>3. ASSUME NEW j \in Jobs, GiveUp(j), NEW q \in Requests PROVE Fits(req'[q])
  <2>1. req'[q] = req[q] \/ (req[q] # NoReq /\ req'[q] = [req[q] EXCEPT !.heard = FALSE])
    BY <1>3 DEF GiveUp
  <2>2. req[q] \in ReqTypes
    BY <1>1 DEF ClientTypes
  <2> QED
    BY <2>1, <2>2 DEF Fits, Fitting, ReqTypes, NoReq
<1>4. ASSUME NEW j \in Jobs, NEW r \in Requests, Send(j, r)
      PROVE  \A q \in Requests : Fits(req'[q])
  <2>1. PICK v : v = [at |-> "read", job |-> j, heard |-> TRUE]
    OBVIOUS
  <2>2. req' = [req EXCEPT ![r] = v] /\ v \in ReqTypes /\ Fits(v)
    BY <1>4, <2>1 DEF Send, ReqTypes, Fits
  <2> QED
    BY <1>1, <2>2, SetReq DEF Becomes, Fitting
<1>5. ASSUME Forget PROVE \A q \in Requests : Fits(req'[q])
  BY <1>5 DEF Forget, Fits, NoReq
<1>6. Shutdown \/ Others \/ UNCHANGED allVars => req' = req
  BY DEF Shutdown, Others, allVars, handlers
<1> QED
  BY <1>2, <1>3, <1>4, <1>5, <1>6 DEF Fitting, DeliveryNext, Drained, Killed

\* A body is refused as too large just when its shape is, and goes on to the
\* transaction just when it is complete, for documents of any length, any limits and
\* any number of requests.
THEOREM ShapeIsExact == DeliverySpec => []ShapeExact
<1>1. DeliveryInit => Fitting
  BY DEF DeliveryInit, NoReq, Fits, Fitting
<1>2. Fitting => ShapeExact
  BY DEF Fits, Fitting, ShapeExact
<1> QED
  BY <1>1, <1>2, DeliveryFits, DeliveryInvariance, PTL DEF DeliverySpec

-----------------------------------------------------------------------------
(* Delivery implements what the jobs are promised.                         *)

promised == <<stored, attempts, Assured>>

LEMMA UnderwayFinite ==
    \A j : IsFiniteSet(Underway(j)) /\ Cardinality(Underway(j)) \in Nat
<1> SUFFICES ASSUME NEW j PROVE IsFiniteSet(Underway(j)) /\ Cardinality(Underway(j)) \in Nat
  OBVIOUS
<1>1. Underway(j) \in SUBSET Requests
  BY DEF Underway
<1> QED
  BY <1>1, DeliveryAssumption, FS_Subset, FS_CardinalityType

LEMMA AttemptsTyped == attempts \in [Jobs -> Nat]
BY UnderwayFinite DEF attempts

\* Attempts come to nothing, as many as you like.
LEMMA LoseStep ==
    ASSUME UNCHANGED <<stored, Assured>>,
           \A j \in Jobs : Underway(j)' \subseteq Underway(j)
    PROVE  Promise!Lose
<1>1. ASSUME NEW j \in Jobs
      PROVE  Cardinality(Underway(j)') \in Nat /\ Cardinality(Underway(j)') <= Cardinality(Underway(j))
  <2> DEFINE A == Underway(j)
             B == Underway(j)'
  <2>1. IsFiniteSet(A) /\ B \in SUBSET A
    BY UnderwayFinite
  <2> HIDE DEF A, B
  <2>2. Cardinality(B) \in Nat /\ Cardinality(B) <= Cardinality(A)
    BY <2>1, FS_Subset, FS_CardinalityType
  <2> QED
    BY <2>2 DEF A, B
<1>2. attempts' \in [Jobs -> Nat] /\ \A j \in Jobs : attempts'[j] <= attempts[j]
  BY <1>1 DEF attempts
<1> QED
  BY <1>2 DEF Promise!Lose

\* The attempt of r is no longer under way, and was if it stores its envelope.
LEMMA EndStep ==
    ASSUME ClientTypes, NEW r \in Requests, NEW v, Becomes(r, v), v.at \in {"free", "answered"}
    PROVE  \A j \in Jobs : Underway(j)' = Underway(j) \ {r}
BY DEF Becomes, Underway

LEMMA SendPromised ==
    ASSUME DeliveryInv, NEW k \in Jobs, NEW r \in Requests, Send(k, r)
    PROVE  Promise!Attempt(k)
<1> DEFINE v == [at |-> "read", job |-> k, heard |-> TRUE]
<1>1. v \in ReqTypes
  BY DEF ReqTypes
<1>2. Becomes(r, v) /\ v.at = "read" /\ v.job = k
  BY <1>1, SetReq DEF Send, DeliveryInv
<1>3. req[r].at = "free" /\ job[k].at = "ready" /\ stored' = stored
  BY DEF Send, NoReq
<1> HIDE DEF v
<1>4. r \notin Underway(k) /\ \A j \in Jobs : Underway(j)' = Underway(j) \union (IF j = k THEN {r} ELSE {})
  BY <1>2, <1>3 DEF Becomes, Underway
<1>5. Cardinality(Underway(k)') = Cardinality(Underway(k)) + 1
  <2> DEFINE A == Underway(k)
             B == Underway(k)'
  <2>1. IsFiniteSet(A) /\ r \notin A /\ B = A \union {r}
    BY <1>4, UnderwayFinite
  <2> HIDE DEF A, B
  <2>2. Cardinality(B) = Cardinality(A) + 1
    BY <2>1, FS_AddElement
  <2> QED
    BY <2>2 DEF A, B
<1>6. \A j \in Jobs : j # k => Underway(j)' = Underway(j)
  BY <1>4
<1>7. attempts' = [attempts EXCEPT ![k] = @ + 1]
  BY <1>5, <1>6 DEF attempts
<1>8. Assured' = Assured /\ k \notin Assured
  BY <1>3 DEF Send, Assured, DeliveryInv, ClientTypes, JobTypes
<1> QED
  BY <1>3, <1>7, <1>8 DEF Promise!Attempt

LEMMA CommitPromised ==
    ASSUME DeliveryInv, NEW r \in Requests, Commit(r)
    PROVE  \E k \in Jobs : Promise!Store(k)
<1>1. PICK k \in Jobs :
         k = req[r].job /\ req[r].at = "insert" /\ req[r].shape \in Shapes
  BY ReqTyped DEF Commit, DeliveryInv
<1>2. Becomes(r, Answered(r, 202, req[r].shape))
  BY <1>1, AnswerWithBecomes DEF Commit, DeliveryInv, Codes
<1>3. Answered(r, 202, req[r].shape).at = "answered"
  BY DEF Answered
<1>4. r \in Underway(k) /\ \A j \in Jobs : Underway(j)' = Underway(j) \ {r}
  <2>1. \A j \in Jobs : Underway(j)' = Underway(j) \ {r}
    BY <1>2, <1>3, EndStep DEF DeliveryInv
  <2> QED
    BY <1>1, <2>1 DEF Underway
<1>5. /\ Cardinality(Underway(k)') = Cardinality(Underway(k)) - 1
      /\ Cardinality(Underway(k)) > 0
  <2> DEFINE A == Underway(k)
             B == Underway(k)'
  <2>1. IsFiniteSet(A) /\ r \in A /\ B = A \ {r} /\ Cardinality(A) \in Nat
    BY <1>4, UnderwayFinite
  <2> HIDE DEF A, B
  <2>2. Cardinality(B) = Cardinality(A) - 1 /\ Cardinality(B) \in Nat
    BY <2>1, FS_RemoveElement, FS_CardinalityType
  <2>3. Cardinality(A) > 0
    BY <2>1, <2>2
  <2> QED
    BY <2>2, <2>3 DEF A, B
<1>6. \A j \in Jobs : j # k => Underway(j)' = Underway(j)
  <2>1. \A j \in Jobs : j # k => r \notin Underway(j)
    BY <1>1 DEF Underway
  <2> QED
    BY <1>4, <2>1
<1>7. attempts' = [attempts EXCEPT ![k] = @ - 1] /\ attempts[k] > 0
  BY <1>5, <1>6 DEF attempts
<1>8. stored' = [stored EXCEPT ![k] = @ + 1] /\ Assured' = Assured
  BY <1>1 DEF Commit, Assured, clients
<1> QED
  BY <1>7, <1>8 DEF Promise!Store

\* Only the answer 202, which the request has since its commit, tells a job.
LEMMA FinishPromised ==
    ASSUME DeliveryInv, NEW r \in Requests, NEW code \in Codes, req[r].at # "free",
           Finish(r, code), code = 202 => req[r].at = "answered",
           req[r].at = "answered" => code = req[r].code, stored' = stored
    PROVE  Promise!Lose \/ \E k \in Jobs : Promise!Tell(k)
<1>1. PICK k \in Jobs : k = req[r].job
  BY ReqTyped DEF DeliveryInv
<1>2. \A j \in Jobs : Underway(j)' = Underway(j) \ {r}
  <2>1. Becomes(r, NoReq) /\ NoReq.at = "free"
    BY SetReq DEF Finish, DeliveryInv, ReqTypes, NoReq
  <2> QED
    BY <2>1, EndStep DEF DeliveryInv
<1>3. job[k].at # "done" \/ ~req[r].heard
  BY <1>1 DEF DeliveryInv, OneListener, Listens
<1>4. CASE req[r].heard /\ code = 202
  <2>1. \A j \in Jobs : job'[j].at = IF j = k THEN "done" ELSE job[j].at
    BY <1>1, <1>4 DEF Finish, Heard, DeliveryInv, ClientTypes, JobTypes
  <2>2. Assured' = Assured \union {k}
    BY <2>1 DEF Assured
  <2>3. \A j \in Jobs : Underway(j)' = Underway(j)
    BY <1>2, <1>4 DEF Underway
  <2>4. attempts' = attempts
    BY <2>3 DEF attempts
  <2>5. stored[k] > 0
    BY <1>1, <1>4 DEF DeliveryInv, Told
  <2> QED
    BY <2>2, <2>4, <2>5 DEF Promise!Tell
<1>5. CASE ~(req[r].heard /\ code = 202)
  <2>1. \A j \in Jobs : job'[j].at = "done" <=> job[j].at = "done"
    <3>1. CASE ~req[r].heard
      BY <3>1 DEF Finish
    <3>2. CASE req[r].heard /\ code = 500
      BY <1>1, <1>3, <3>2 DEF Finish, Heard, DeliveryInv, ClientTypes, JobTypes
    <3>3. CASE req[r].heard /\ code \notin {202, 500}
      BY <1>1, <1>3, <3>3 DEF Finish, Heard, DeliveryInv, ClientTypes, JobTypes
    <3> QED
      BY <1>5, <3>1, <3>2, <3>3
  <2>2. Assured' = Assured
    BY <2>1 DEF Assured
  <2> QED
    BY <1>2, <2>2, LoseStep
<1> QED
  BY <1>4, <1>5

LEMMA RequestPromised ==
    ASSUME DeliveryInv, NEW r \in Requests, request(r)
    PROVE  Promise!Next
<1>1. req[r].at # "free" => req[r].job \in Jobs /\ req[r].heard \in BOOLEAN
  BY ReqTyped DEF DeliveryInv
<1>2. ASSUME NEW code \in Codes, NEW shape \in Shapes, AnswerWith(r, code, shape),
             req[r].at # "free", UNCHANGED <<clients, stored>>
      PROVE  Promise!Next
  <2>1. Becomes(r, Answered(r, code, shape)) /\ Answered(r, code, shape).at = "answered"
    BY <1>2, AnswerWithBecomes DEF DeliveryInv, Answered
  <2>2. \A j \in Jobs : Underway(j)' \subseteq Underway(j)
    BY <2>1, EndStep DEF DeliveryInv
  <2>3. Assured' = Assured
    BY <1>2 DEF Assured, clients
  <2> QED
    BY <1>2, <2>2, <2>3, LoseStep DEF Promise!Next
<1>3. ASSUME NEW code \in Codes, ReadFails(r, code) PROVE Promise!Next
  BY <1>2, <1>3 DEF ReadFails, Shapes
<1>4. CASE ReadBody(r)
  <2>1. req[r].at = "read" /\ UNCHANGED <<clients, stored>>
    BY <1>4 DEF ReadBody
  <2>2. body[req[r].job].shape \in Shapes
    BY <1>1, <2>1 DEF DeliveryInv, ClientTypes, Shapes
  <2>3. CASE body[req[r].job].verdict \in {"tooLarge", "malformed"}
    <3>1. PICK code \in {400, 413} : AnswerWith(r, code, body[req[r].job].shape)
      BY <1>4, <2>3 DEF ReadBody
    <3>2. code \in Codes
      BY <3>1 DEF Codes
    <3> QED
      BY <1>2, <2>1, <2>2, <3>1, <3>2
  <2>4. CASE body[req[r].job].verdict \notin {"tooLarge", "malformed"}
    <3>1. /\ \A s \in Requests : s # r => req'[s] = req[s]
          /\ req'[r].job = req[r].job
      BY <1>4, <2>4 DEF ReadBody, DeliveryInv, ClientTypes
    <3>2. \A j \in Jobs : Underway(j)' \subseteq Underway(j)
      BY <2>1, <3>1 DEF Underway
    <3>3. Assured' = Assured
      BY <2>1 DEF Assured, clients
    <3> QED
      BY <2>1, <3>2, <3>3, LoseStep DEF Promise!Next
  <2> QED
    BY <2>3, <2>4
<1>5. CASE Invalid(r) \/ Rollback(r)
  <2>1. req[r].at = "insert" /\ req[r].shape \in Shapes /\ UNCHANGED <<clients, stored>>
    BY <1>5, ReqTyped DEF Invalid, Rollback, DeliveryInv
  <2> QED
    BY <1>2, <1>5, <2>1 DEF Invalid, Rollback, Codes
<1>6. CASE Commit(r)
  BY <1>6, CommitPromised DEF Promise!Next
<1>7. CASE accessLog(r)
  <2>1. req[r].at = "answered" /\ req[r].code \in Codes
    BY <1>7, ReqTyped DEF accessLog, DeliveryInv
  <2> QED
    BY <1>7, <2>1, FinishPromised DEF accessLog, Promise!Next
<1>8. CASE recoverPanic(r)
  <2>1. req[r].at \in {"read", "insert"} /\ 500 \in Codes
    BY <1>8 DEF recoverPanic, Codes
  <2> QED
    BY <1>8, <2>1, FinishPromised DEF recoverPanic, Promise!Next
<1> QED
  BY <1>3, <1>4, <1>5, <1>6, <1>7, <1>8 DEF request

LEMMA GiveUpPromised ==
    ASSUME DeliveryInv, NEW k \in Jobs, GiveUp(k)
    PROVE  Promise!Lose
<1>1. \A j \in Jobs : job'[j].at = "done" <=> job[j].at = "done"
  BY DEF GiveUp, DeliveryInv, ClientTypes, JobTypes
<1>2. \A s \in Requests : req'[s].at \in {"read", "insert"} =>
         req[s].at \in {"read", "insert"} /\ req'[s].job = req[s].job
  <2> SUFFICES ASSUME NEW s \in Requests, req'[s].at \in {"read", "insert"}
               PROVE  req[s].at \in {"read", "insert"} /\ req'[s].job = req[s].job
    OBVIOUS
  <2>1. req[s] \in ReqTypes
    BY ReqTyped DEF DeliveryInv
  <2>2. req'[s] = [req[s] EXCEPT !.heard = FALSE] \/ req'[s] = req[s]
    BY DEF GiveUp
  <2> QED
    BY <2>1, <2>2 DEF ReqTypes, NoReq
<1>3. \A j \in Jobs : Underway(j)' \subseteq Underway(j)
  BY <1>2 DEF Underway
<1>4. Assured' = Assured /\ stored' = stored
  BY <1>1 DEF Assured, GiveUp
<1> QED
  BY <1>3, <1>4, LoseStep

LEMMA PromiseStep ==
    DeliveryInv /\ [DeliveryNext]_allVars => [Promise!Next]_promised
<1> SUFFICES ASSUME DeliveryInv, [DeliveryNext]_allVars PROVE [Promise!Next]_promised
  OBVIOUS
<1>1. ASSUME NEW j \in Jobs, GiveUp(j) PROVE Promise!Next
  BY <1>1, GiveUpPromised DEF Promise!Next
<1>2. ASSUME NEW j \in Jobs, NEW r \in Requests, Send(j, r) PROVE Promise!Next
  BY <1>2, SendPromised DEF Promise!Next
<1>3. ASSUME NEW r \in Requests, request(r) PROVE Promise!Next
  BY <1>3, RequestPromised
<1>4. CASE Drained \/ Killed
  <2>1. \A r \in Requests : req'[r].at = "free"
    BY <1>4 DEF Drained, Killed, Forget, NoReq
  <2>2. \A j \in Jobs : Underway(j)' \subseteq Underway(j)
    BY <2>1 DEF Underway
  <2>3. UNCHANGED <<stored, Assured>>
    BY <1>4 DEF Drained, Killed, Assured, clients
  <2> QED
    BY <2>2, <2>3, LoseStep DEF Promise!Next
<1>5. CASE Shutdown \/ Others \/ UNCHANGED allVars
  <2>1. UNCHANGED <<clients, req, stored>>
    BY <1>5 DEF Shutdown, Others, allVars, handlers, clients
  <2>2. \A j : Underway(j)' = Underway(j)
    BY <2>1 DEF Underway
  <2>3. UNCHANGED promised
    BY <2>1, <2>2 DEF promised, attempts, Assured, clients
  <2> QED
    BY <2>3
<1> QED
  BY <1>1, <1>2, <1>3, <1>4, <1>5 DEF DeliveryNext

\* AtLeastOnceDelivery: whatever is lost, given up on, refused or killed, delivery is
\* the abstract specification's.
THEOREM DeliveryIsPromised == DeliverySpec => AtLeastOnceDelivery
<1>1. DeliveryInit => Promise!Init
  <2> SUFFICES ASSUME DeliveryInit PROVE Promise!Init
    OBVIOUS
  <2>1. \A r \in Requests : req[r].at = "free"
    BY DEF DeliveryInit, NoReq
  <2>2. \A j \in Jobs : Underway(j) = {}
    BY <2>1 DEF Underway
  <2>3. attempts = [j \in Jobs |-> 0]
    BY <2>2, FS_EmptySet DEF attempts
  <2>4. Assured = {}
    BY DEF DeliveryInit, Assured
  <2> QED
    BY <2>3, <2>4 DEF DeliveryInit, Promise!Init
<1> QED
  BY <1>1, PromiseStep, DeliveryInvariance, PTL
     DEF DeliverySpec, AtLeastOnceDelivery, Promise!Spec, promised

\* Delivery adds nothing to what processes do to the tables: each of its steps is one
\* of Upgrade, or leaves the tables and the processes alone.
THEOREM DeliveryUpgrades == DeliverySpec => Init /\ [][Next]_vars
<1>1. DeliveryInit => Init
  BY DEF DeliveryInit
<1>2. DeliveryInv /\ [DeliveryNext]_allVars => [Next]_vars
  BY DeliveryTables DEF DeliveryInv
<1> QED
  BY <1>1, <1>2, DeliveryInvariance, PTL DEF DeliverySpec
=============================================================================
