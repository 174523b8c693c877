------------------------------ MODULE SchemaSetup ------------------------------
(***************************************************************************)
(* Opening the database: every command, the daemon and every dispatcher is *)
(* a process that builds a Repository on the same file, which runs the     *)
(* schema script and the migrations the file has not had, and then adds    *)
(* missing columns again before each operation on targets and before each  *)
(* claim of notifications.  No transaction spans two of these statements   *)
(* (sqlite3 begins none for DDL, and executescript commits first), so      *)
(* another process may come, or this one die, between any two.             *)
(*                                                                         *)
(* Of a table only the columns that were added later are told apart; "id"  *)
(* stands for all it always had, a table without it does not exist.        *)
(* Tables that never changed are left out.                                 *)
(***************************************************************************)
EXTENDS Integers

CONSTANTS
  Processes,
  NoteColumns,    \* columns added to notifications
  TargetColumns,  \* columns added to targets
  MaxCrashes,     \* bound: processes killed between two statements
  MaxErrors       \* bound: statements that fail for want of the lock, disk, ...

ASSUME SchemaAssumption ==
  /\ "id" \notin NoteColumns \cup TargetColumns
  /\ MaxCrashes \in Nat /\ MaxErrors \in Nat

SCHEMA_VERSION == 3
Versions == 0..SCHEMA_VERSION
Tables == {"notifications", "host_rate_limits", "targets"}

(* What CREATE TABLE makes today. *)
Full == [notifications    |-> {"id"} \cup NoteColumns,
         host_rate_limits |-> {"id", "claim_until"},
         targets          |-> {"id"} \cup TargetColumns]

VARIABLES
  columns,   \* table -> its columns
  versions,  \* rows of schema_version
  proc,      \* process -> where it is
  crashes, errors

vars == <<columns, versions, proc, crashes, errors>>

Closed == [pc |-> "closed", next |-> 0, todo |-> {}]

(* next is the statement of the script, the migration that is under way,   *)
(* or 0 afterwards; todo the columns found missing.                        *)
TypeOK ==
  /\ columns \in [Tables -> SUBSET ({"id", "claim_until"} \cup NoteColumns \cup TargetColumns)]
  /\ \A t \in Tables : columns[t] \subseteq Full[t]
  /\ versions \subseteq Versions
  /\ proc \in [Processes ->
       [pc : {"closed", "script", "version", "migrate", "notifications", "targets", "stamp", "open"},
        next : Versions, todo : SUBSET (NoteColumns \cup TargetColumns)]]
  /\ crashes \in 0..MaxCrashes /\ errors \in 0..MaxErrors

(* What migration v is for. *)
Applied(v) ==
  CASE v = 0 -> TRUE
    [] v = 1 -> columns["notifications"] = Full["notifications"]
    [] v = 2 -> columns["host_rate_limits"] # {}
    [] v = 3 -> columns["host_rate_limits"] = Full["host_rate_limits"]

(* A new file, or one that an earlier release has left at some version.    *)
Init ==
  /\ versions \in {{}} \cup {0..v : v \in Versions}
  /\ columns \in [Tables -> SUBSET ({"id", "claim_until"} \cup NoteColumns \cup TargetColumns)]
  /\ \A t \in Tables : columns[t] \subseteq Full[t] /\ (columns[t] # {} => "id" \in columns[t])
  /\ \A v \in versions : Applied(v)
  /\ proc = [p \in Processes |-> Closed]
  /\ crashes = 0 /\ errors = 0

Goto(p, pc, next, todo) == proc' = [proc EXCEPT ![p] = [pc |-> pc, next |-> next, todo |-> todo]]
Raise(p) == proc' = [proc EXCEPT ![p] = Closed]
NoFault == UNCHANGED <<crashes, errors>>

(* CREATE TABLE IF NOT EXISTS *)
WithTable(t) == IF columns[t] = {} THEN [columns EXCEPT ![t] = Full[t]] ELSE columns

--------------------------------------------------------------------------------
(* Repository.__init__ *)
Open(p) ==
  /\ proc[p].pc = "closed"
  /\ Goto(p, "script", 1, {})
  /\ NoFault /\ UNCHANGED <<columns, versions>>

(* The statements of the script that touch the state, in their order.      *)
RunScript(p) ==
  /\ proc[p].pc = "script"
  /\ \/ /\ proc[p].next = 1
        /\ versions' = versions \cup {0}   \* INSERT OR IGNORE
        /\ Goto(p, "script", 2, {}) /\ UNCHANGED columns
     \/ /\ proc[p].next = 2
        /\ columns' = WithTable("notifications")
        /\ Goto(p, "script", 3, {}) /\ UNCHANGED versions
     \/ /\ proc[p].next = 3
        /\ columns' = WithTable("host_rate_limits")
        /\ Goto(p, "version", 0, {}) /\ UNCHANGED versions
  /\ NoFault

(* A mutant: the first row instead of the largest.                         *)
FirstVersion == 0

_get_schema_version == CHOOSE v \in versions \cup {0} : \A w \in versions : w <= v

(* Two mutants: the upper end of the range one too small, one too large.   *)
ContinueShort(p, next) ==
  IF next < SCHEMA_VERSION THEN Goto(p, "migrate", next, {}) ELSE Goto(p, "open", 0, {})
ContinueLong(p, next) ==
  IF next <= SCHEMA_VERSION + 1 THEN Goto(p, "migrate", next, {}) ELSE Goto(p, "open", 0, {})

(* The range of migrations is fixed by what ReadVersion has read.          *)
Continue(p, next) ==
  IF next <= SCHEMA_VERSION THEN Goto(p, "migrate", next, {}) ELSE Goto(p, "open", 0, {})

ReadVersion(p) ==
  /\ proc[p].pc = "version"
  /\ Continue(p, _get_schema_version + 1)
  /\ NoFault /\ UNCHANGED <<columns, versions>>

(* Migration 1 reads which columns there are, ...                          *)
InitNotificationTable(p) ==
  /\ proc[p].pc = "migrate" /\ proc[p].next = 1
  /\ Goto(p, "notifications", 1, Full["notifications"] \ columns["notifications"])
  /\ NoFault /\ UNCHANGED <<columns, versions>>

InitHostRateLimitTable(p) ==
  /\ proc[p].pc = "migrate" /\ proc[p].next = 2
  /\ columns' = WithTable("host_rate_limits")
  /\ Goto(p, "stamp", 2, {})
  /\ NoFault /\ UNCHANGED versions

(* ... migration 3 just tries; the exception of a column that exists, like *)
(* every other OperationalError (WriteFails), is passed over.              *)
InitHostRateLimitClaimUntil(p) ==
  /\ proc[p].pc = "migrate" /\ proc[p].next = 3
  /\ columns' = [columns EXCEPT !["host_rate_limits"] = @ \cup {"claim_until"}]
  /\ Goto(p, "stamp", 3, {})
  /\ NoFault /\ UNCHANGED versions

(* The commit at the end of the loop over the columns.                     *)
AllAdded(p) == IF proc[p].next = 1 THEN Goto(p, "stamp", 1, {}) ELSE Goto(p, "open", 0, {})

(* One column, in any order, which is more than the code does.  A column   *)
(* that another process has added by now is a duplicate.                   *)
AddColumn(p, t) ==
  /\ proc[p].pc = t
  /\ \/ proc[p].todo = {} /\ AllAdded(p) /\ UNCHANGED columns
     \/ \E c \in proc[p].todo :
          IF c \in columns[t]
            THEN Raise(p) /\ UNCHANGED columns
            ELSE /\ columns' = [columns EXCEPT ![t] = @ \cup {c}]
                 /\ Goto(p, t, proc[p].next, proc[p].todo \ {c})
  /\ NoFault /\ UNCHANGED versions

(* _set_schema_version: the version is the primary key.                    *)
SetVersion(p) ==
  /\ proc[p].pc = "stamp"
  /\ IF proc[p].next \in versions THEN Raise(p) ELSE Continue(p, proc[p].next + 1)
  /\ versions' = versions \cup {proc[p].next}
  /\ NoFault /\ UNCHANGED columns

--------------------------------------------------------------------------------
(* An operation begins: _init_target_table, or _init_notification_table of *)
(* claim_notifications.                                                    *)
UseTargets(p) ==
  /\ proc[p].pc = "open"
  /\ columns' = WithTable("targets")
  /\ Goto(p, "targets", 0, Full["targets"] \ columns'["targets"])
  /\ NoFault /\ UNCHANGED versions

UseNotifications(p) ==
  /\ proc[p].pc = "open"
  /\ Goto(p, "notifications", 0, Full["notifications"] \ columns["notifications"])
  /\ NoFault /\ UNCHANGED <<columns, versions>>

Close(p) ==
  /\ proc[p].pc = "open"
  /\ Raise(p)
  /\ NoFault /\ UNCHANGED <<columns, versions>>

Crash(p) ==
  /\ proc[p].pc # "closed" /\ crashes < MaxCrashes
  /\ crashes' = crashes + 1
  /\ Raise(p)
  /\ UNCHANGED <<columns, versions, errors>>

(* A statement that fails ends the process like a crash, but migration 3   *)
(* goes on and is recorded.                                                *)
WriteFails(p) ==
  /\ proc[p].pc \in {"script", "migrate", "notifications", "targets", "stamp"}
  /\ errors < MaxErrors
  /\ errors' = errors + 1
  /\ IF proc[p].pc = "migrate" /\ proc[p].next = 3 THEN Goto(p, "stamp", 3, {}) ELSE Raise(p)
  /\ UNCHANGED <<columns, versions, crashes>>

Run(p) ==
  \/ Open(p) \/ RunScript(p) \/ ReadVersion(p)
  \/ InitNotificationTable(p) \/ InitHostRateLimitTable(p) \/ InitHostRateLimitClaimUntil(p)
  \/ AddColumn(p, "notifications") \/ AddColumn(p, "targets") \/ SetVersion(p)

Next ==
  \E p \in Processes :
    Run(p) \/ UseTargets(p) \/ UseNotifications(p) \/ Close(p) \/ Crash(p) \/ WriteFails(p)

(* Statements return and commands are run again.                           *)
Spec == Init /\ [][Next]_vars /\ \A p \in Processes : WF_vars(Run(p))

--------------------------------------------------------------------------------
(* A repository that is open has every column its statements name, and an  *)
(* operation that ends its own check has those of its table, whatever      *)
(* other processes did and whichever of them died.  Only a statement that  *)
(* fails can cost the column of migration 3, recorded either way.          *)
OpenIsComplete ==
  \A p \in Processes :
    /\ proc[p].pc = "open" => Applied(1) /\ Applied(2) /\ (errors = 0 => Applied(3))
    /\ proc[p].pc = "targets" /\ proc[p].todo = {} => columns["targets"] = Full["targets"]

(* However often processes collide on a column or a version, each gets the *)
(* database open, again and again.                                         *)
OpensAgain == \A p \in Processes : []<>(proc[p].pc = "open")
================================================================================
