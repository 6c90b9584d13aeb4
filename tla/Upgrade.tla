------------------------------ MODULE Upgrade -------------------------------
(***************************************************************************)
(* Opening the store: the schema statements every process runs before it   *)
(* uses the database, on a database of the release before organizations.   *)
(*                                                                         *)
(* Two kinds of process open the database: the server, which its           *)
(* supervisor starts again whenever it ends, and the backup command.       *)
(* Neither runs its statements in a transaction, so the other process runs *)
(* between any two of them and a crash leaves the first few done.          *)
(***************************************************************************)
EXTENDS Naturals, FiniteSets

CONSTANTS
    Server,      \* the process that serves
    Backups,     \* processes that run `egret-nest backup`
    OrgIds,      \* organizations of the endpoint history, 0 among them
    Endpoints,
    OldRows,     \* endpoints the old database has in its history
    MaxCrashes   \* bound: how often a process is killed

Unassigned == 0
Processes == Backups \union {Server}
Rows == OrgIds \X Endpoints
Backfilled == {Unassigned} \X OldRows

ASSUME UpgradeAssumption ==
    /\ Server \notin Backups
    /\ Unassigned \in OrgIds
    /\ OldRows \subseteq Endpoints
    /\ MaxCrashes \in Nat

VARIABLES
    runs,        \* table runs: "absent", "old", or "current" with num_new_endpoints
    seen,        \* table endpoints_seen: the same forms, and its rows
    staging,     \* table endpoints_seen_new
    proc,        \* proc[p]: the statement process p runs next
    crashes,     \* how many processes were killed
    owed,        \* history: the rows the database had before the upgrade
    interrupted  \* history: a rebuild of endpoints_seen was begun and given up

tables == <<runs, seen, staging, owed>>
vars   == <<tables, proc, crashes, interrupted>>

-----------------------------------------------------------------------------

Forms   == {"absent", "old", "current"}
Rebuild == {"copy", "drop", "rename"}      \* endpoints_seen_new exists
Steps   == {"off", "runs", "seen", "count?", "count", "org?", "create", "auth", "open"}
             \union Rebuild

NoTable == [form |-> "absent", rows |-> {}]
Table(form, rows) == [form |-> form, rows |-> rows]

\* A new database, or one of the release before organizations.
Init ==
    /\ \/ runs = "absent" /\ seen = NoTable /\ owed = {}
       \/ runs = "old" /\ seen = Table("old", Backfilled) /\ owed = Backfilled
    /\ staging = NoTable
    /\ proc = [p \in Processes |-> "off"]
    /\ crashes = 0 /\ interrupted = FALSE

Goto(p, step) == proc' = [proc EXCEPT ![p] = step] /\ UNCHANGED <<crashes, interrupted>>

\* The process ends: the tables stay as its statements left them.
Exit(p) ==
    /\ proc' = [proc EXCEPT ![p] = "off"]
    /\ interrupted' = (interrupted \/ proc[p] \in Rebuild)

\* A statement that fails ends the process (log.Fatalf).
Fail(p) == Exit(p) /\ UNCHANGED <<tables, crashes>>

-----------------------------------------------------------------------------
(* Open and migrate.                                                       *)

Start(p) ==
    /\ proc[p] = "off"
    /\ Goto(p, "runs")
    /\ UNCHANGED tables

\* CREATE TABLE IF NOT EXISTS runs, and its indexes.
CreateRuns(p) ==
    /\ proc[p] = "runs"
    /\ runs' = IF runs = "absent" THEN "current" ELSE runs
    /\ Goto(p, "seen")
    /\ UNCHANGED <<seen, staging, owed>>

\* CREATE TABLE IF NOT EXISTS endpoints_seen.
CreateSeen(p) ==
    /\ proc[p] = "seen"
    /\ seen' = IF seen.form = "absent" THEN Table("current", {}) ELSE seen
    /\ Goto(p, "count?")
    /\ UNCHANGED <<runs, staging, owed>>

HasCount_Always(p) ==        \* a slip: the column is added without looking
    /\ proc[p] = "count?"
    /\ Goto(p, "count")
    /\ UNCHANGED tables

\* hasColumn("runs", "num_new_endpoints").
HasCount(p) ==
    /\ proc[p] = "count?"
    /\ Goto(p, IF runs = "current" THEN "org?" ELSE "count")
    /\ UNCHANGED tables

\* ALTER TABLE runs ADD COLUMN: fails when the column is there by now.
AddCount(p) ==
    /\ proc[p] = "count"
    /\ IF runs = "old"
         THEN runs' = "current" /\ Goto(p, "org?") /\ UNCHANGED <<seen, staging, owed>>
         ELSE Fail(p)

HasOrg_NoRebuild(p) ==       \* a slip: the new key is not missed
    /\ proc[p] = "org?"
    /\ Goto(p, "auth")
    /\ UNCHANGED tables

\* hasColumn("endpoints_seen", "org_id"): a table that is missing has no column.
HasOrg(p) ==
    /\ proc[p] = "org?"
    /\ Goto(p, IF seen.form = "current" THEN "auth" ELSE "create")
    /\ UNCHANGED tables

\* CREATE TABLE endpoints_seen_new: without IF NOT EXISTS.
CreateStaging(p) ==
    /\ proc[p] = "create"
    /\ IF staging = NoTable
         THEN staging' = Table("current", {}) /\ Goto(p, "copy") /\ UNCHANGED <<runs, seen, owed>>
         ELSE Fail(p)

\* INSERT INTO endpoints_seen_new SELECT repository, 0, ...: two rows of one
\* endpoint, of different organizations, violate the primary key.
CopyRows(p) ==
    /\ proc[p] = "copy"
    /\ IF seen.form # "absent" /\ \A r, s \in seen.rows : r[2] = s[2] => r = s
         THEN /\ staging' = Table("current", {<<Unassigned, r[2]>> : r \in seen.rows})
              /\ Goto(p, "drop") /\ UNCHANGED <<runs, seen, owed>>
         ELSE Fail(p)

DropSeen_NotCopied(p) ==     \* a slip: dropped before the rows are copied
    /\ proc[p] \in {"copy", "drop"}
    /\ seen' = NoTable /\ Goto(p, "rename") /\ UNCHANGED <<runs, staging, owed>>

DropSeen(p) ==
    /\ proc[p] = "drop"
    /\ IF seen.form # "absent"
         THEN seen' = NoTable /\ Goto(p, "rename") /\ UNCHANGED <<runs, staging, owed>>
         ELSE Fail(p)

\* ALTER TABLE endpoints_seen_new RENAME TO endpoints_seen.
RenameStaging(p) ==
    /\ proc[p] = "rename"
    /\ IF seen.form = "absent"
         THEN seen' = staging /\ staging' = NoTable /\ Goto(p, "auth") /\ UNCHANGED <<runs, owed>>
         ELSE Fail(p)

\* migrateAuth: every statement is CREATE ... IF NOT EXISTS.
MigrateAuth(p) ==
    /\ proc[p] = "auth"
    /\ Goto(p, "open")
    /\ UNCHANGED tables

-----------------------------------------------------------------------------
(* The open store.                                                         *)

\* The history rows of a run: the statement fails while the table is missing.
CanRecord == proc[Server] = "open" /\ runs = "current" /\ seen.form = "current"
Record(row) ==
    /\ CanRecord
    /\ seen' = Table("current", seen.rows \union {row})
    /\ UNCHANGED <<runs, staging, owed, proc, crashes, interrupted>>

\* The backup is written to a new file (VACUUM INTO), or the server has drained.
CloseStore(p) ==
    /\ proc[p] = "open"
    /\ Goto(p, "off")
    /\ UNCHANGED tables

\* A process is killed between two statements.
Crash(p) ==
    /\ proc[p] # "off" /\ crashes < MaxCrashes
    /\ crashes' = crashes + 1
    /\ Exit(p)
    /\ UNCHANGED tables

-----------------------------------------------------------------------------

migrate(p) ==
    \/ CreateRuns(p) \/ CreateSeen(p)
    \/ HasCount(p) \/ AddCount(p)
    \/ HasOrg(p) \/ CreateStaging(p) \/ CopyRows(p) \/ DropSeen(p) \/ RenameStaging(p)
    \/ MigrateAuth(p)

Next ==
    \/ \E p \in Processes : Start(p) \/ migrate(p) \/ CloseStore(p) \/ Crash(p)
    \/ \E row \in Rows : Record(row)

\* The supervisor starts the server again, and statements end.
Fairness ==
    /\ WF_vars(Start(Server))
    /\ \A p \in Processes : WF_vars(migrate(p))

Spec == Init /\ [][Next]_vars /\ Fairness

-----------------------------------------------------------------------------
(* Properties.                                                             *)

\* The tables have one of their forms, the rows are rows, and a process is at one
\* of its statements.
TypeOK ==
    /\ runs \in Forms
    /\ {seen, staging} \subseteq [form : Forms, rows : SUBSET Rows]
    /\ proc \in [Processes -> Steps]
    /\ crashes \in 0..MaxCrashes
    /\ owed \subseteq Rows
    /\ interrupted \in BOOLEAN

\* Nothing of the history is destroyed, wherever a process is killed and whatever
\* the other one does meanwhile: DROP TABLE comes after the rows are copied
\* (store.go:182-185), so what the old database had is in one of the two tables.
OldRowsSurvive == owed \subseteq seen.rows \union staging.rows

Rebuilding == \E p \in Processes : proc[p] \in Rebuild

\* The server has opened the store: every process that does is past its own
\* statements, but another one may be in the middle of a rebuild.
Serving == proc[Server] = "open"

\* "the DB upgrades in place" (docs/DEPLOY.md:116): a serving server finds tables of
\* the current form with all of the history, unless a rebuild was given up halfway.
\* Kills elsewhere and a backup that opens the same database change nothing.
UpgradedInPlace ==
    Serving /\ ~Rebuilding /\ ~interrupted =>
        runs = "current" /\ seen.form = "current" /\ owed \subseteq seen.rows

\* The same without the exception: "Schema migrations are idempotent and apply on
\* startup" (docs/DEPLOY.md:115).
HistoryKept == Serving /\ ~Rebuilding => owed \subseteq seen.rows

\* A server that is down serves again, unless a rebuild was given up halfway: it
\* may lose the race for a statement to the backup command, and then starts anew.
ServesAgain == (proc[Server] = "off") ~> (Serving \/ interrupted)
=============================================================================
