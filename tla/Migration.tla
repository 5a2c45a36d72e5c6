------------------------------- MODULE Migration -------------------------------
(***************************************************************************)
(* Opening the trace library: TraceStore.initialize (storage.py), which    *)
(* every server and every command runs before anything else.  The script   *)
(* creates what is missing, table by table; then the columns of the runs   *)
(* table that earlier releases did not have are looked up and added, each  *)
(* by an ALTER TABLE that commits on its own.  Several processes may do    *)
(* this at once on one database of an earlier release, and any of them may *)
(* be killed or locked out between two statements.                         *)
(***************************************************************************)
EXTENDS SequencesExt

CONSTANTS
  Processes,      \* servers and commands that open the library
  Tables,         \* tables of SCHEMA, in its order
  Runs,           \* the runs table, one of them
  ExtraColumns,   \* _EXTRA_COLUMNS, in its order
  Releases        \* databases found on disk: their tables and extra columns

ASSUME MigrationAssumption ==
  /\ Tables \in Seq(STRING) /\ Runs \in ToSet(Tables)
  /\ ExtraColumns \in Seq(STRING) /\ IsInjective(ExtraColumns)
  /\ \A d \in Releases : /\ d.tables \subseteq ToSet(Tables)
                         /\ d.columns \subseteq ToSet(ExtraColumns)
                         /\ d.columns # {} => Runs \in d.tables

VARIABLES
  tables,    \* tables the database has
  columns,   \* extra columns its runs table has
  stage,     \* stage[p]: where process p is with its opening
  todo,      \* todo[p]: tables or columns of that stage still to do
  seen,      \* seen[p]: the columns process p found when it looked
  error      \* error[p]: the OperationalError that ended p, or ""

schema == <<tables, columns>>
migrationVars == <<tables, columns, stage, todo, seen, error>>

Stages == {"closed", "script", "check", "alter", "open"}

MigrationInit ==
  /\ \E d \in Releases : tables = d.tables /\ columns = d.columns
  /\ stage = [p \in Processes |-> "closed"]
  /\ todo = [p \in Processes |-> << >>]
  /\ seen = [p \in Processes |-> {}]
  /\ error = [p \in Processes |-> ""]

Enter(p, where, names, found) ==
  /\ stage' = [stage EXCEPT ![p] = where]
  /\ todo' = [todo EXCEPT ![p] = names]
  /\ seen' = [seen EXCEPT ![p] = found]

Launch(p) ==
  /\ stage[p] = "closed"
  /\ Enter(p, "script", Tables, {})
  /\ error' = [error EXCEPT ![p] = ""]
  /\ UNCHANGED schema

(* CREATE TABLE IF NOT EXISTS: a new runs table has every column.          *)
CreateTable(p) ==
  /\ stage[p] = "script" /\ todo[p] # << >>
  /\ tables' = tables \cup {Head(todo[p])}
  /\ columns' = IF Head(todo[p]) = Runs /\ Runs \notin tables
                THEN ToSet(ExtraColumns) ELSE columns
  /\ Enter(p, "script", Tail(todo[p]), {})
  /\ UNCHANGED error

ScriptDone(p) ==
  /\ stage[p] = "script" /\ todo[p] = << >>
  /\ Enter(p, "check", << >>, {})
  /\ UNCHANGED <<schema, error>>

Looked(p, complete) ==
  IF complete THEN Enter(p, "open", << >>, {})
              ELSE Enter(p, "alter", ExtraColumns, columns)

(* Mutant: a table that has the first extra column has them all.           *)
TableInfoOfFirst(p) ==
  /\ stage[p] = "check"
  /\ Looked(p, Head(ExtraColumns) \in columns)
  /\ UNCHANGED <<schema, error>>

(* PRAGMA table_info(runs)                                                 *)
TableInfo(p) ==
  /\ stage[p] = "check"
  /\ Looked(p, ToSet(ExtraColumns) \subseteq columns)
  /\ UNCHANGED <<schema, error>>

Column(p) == Head(todo[p])

Altered(p) ==
  IF Tail(todo[p]) = << >> THEN Enter(p, "open", << >>, {})
                           ELSE Enter(p, "alter", Tail(todo[p]), seen[p])

(* if column in existing: continue                                         *)
HasColumn(p) ==
  /\ stage[p] = "alter" /\ Column(p) \in seen[p]
  /\ Altered(p)
  /\ UNCHANGED <<schema, error>>

AddColumn(p) ==
  /\ stage[p] = "alter" /\ Column(p) \notin seen[p] /\ Column(p) \notin columns
  /\ columns' = columns \cup {Column(p)}
  /\ Altered(p)
  /\ UNCHANGED <<tables, error>>

(* The other process was faster: the duplicate counts as done.             *)
DuplicateColumn(p) ==
  /\ stage[p] = "alter" /\ Column(p) \notin seen[p] /\ Column(p) \in columns
  /\ Altered(p)
  /\ UNCHANGED <<schema, error>>

Fail(p, why) ==
  /\ Enter(p, "closed", << >>, {})
  /\ error' = [error EXCEPT ![p] = why]
  /\ UNCHANGED schema

(* No statement of an opening is retried.                                  *)
OpeningLocked(p) ==
  /\ stage[p] \in {"script", "check", "alter"}
  /\ Fail(p, "database is locked")

(* The process ends, or is killed.                                         *)
Close(p) == Enter(p, "closed", << >>, {}) /\ UNCHANGED <<schema, error>>

OpeningStep(p) ==
  \/ CreateTable(p) \/ ScriptDone(p) \/ TableInfo(p)
  \/ HasColumn(p) \/ AddColumn(p) \/ DuplicateColumn(p)

OpeningNext ==
  \E p \in Processes : Launch(p) \/ OpeningStep(p) \/ OpeningLocked(p) \/ Close(p)

Opening == MigrationInit /\ [][OpeningNext]_migrationVars

-----------------------------------------------------------------------------
Complete == tables = ToSet(Tables) /\ columns = ToSet(ExtraColumns)

(* storage.py:167, "Two processes may run the migration at once, so a      *)
(* duplicate column error counts as done": whoever else migrates, is       *)
(* killed or locked out meanwhile, a process that has its library open     *)
(* finds every table and column there, and the only error an opening ends  *)
(* with is a lock.                                                         *)
MigrationsTolerateEachOther ==
  \A p \in Processes : /\ stage[p] = "open" => Complete
                       /\ error[p] \in {"", "database is locked"}
=============================================================================
