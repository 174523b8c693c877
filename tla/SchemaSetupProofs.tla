--------------------------- MODULE SchemaSetupProofs ---------------------------
(***************************************************************************)
(* Whatever number of processes open the database, and wherever they are   *)
(* interrupted: types are kept, and an open repository has its columns.    *)
(***************************************************************************)
EXTENDS SchemaSetup, TLAPS

A1 == columns["notifications"] = Full["notifications"]
A2 == columns["host_rate_limits"] # {}
A3 == errors = 0 => columns["host_rate_limits"] = Full["host_rate_limits"]

(* The migrations up to v have had their effect.                           *)
Upto(v) == (v >= 1 => A1) /\ (v >= 2 => A2) /\ (v >= 3 => A3)

TablesHaveIds == \A t \in Tables : columns[t] # {} => "id" \in columns[t]
RecordedIsDone == \A v \in versions : Upto(v)

(* What a process may rely on where it is; what it has read has only grown. *)
Knows(p) ==
  LET q == proc[p] IN
  /\ q.pc = "script" => q.next \in 1..3 /\ (q.next = 3 => columns["notifications"] # {})
  /\ q.pc \in {"version", "migrate", "notifications", "targets", "stamp", "open"} =>
       columns["notifications"] # {} /\ columns["host_rate_limits"] # {}
  /\ q.pc = "migrate" => q.next \in 1..3 /\ Upto(q.next - 1)
  /\ q.pc = "notifications" =>
       /\ q.next \in {0, 1} /\ (q.next = 0 => Upto(3))
       /\ q.todo \subseteq NoteColumns /\ Full["notifications"] \ columns["notifications"] \subseteq q.todo
  /\ q.pc = "stamp" => q.next \in 1..3 /\ Upto(q.next)
  /\ q.pc = "targets" =>
       /\ q.next = 0 /\ Upto(3) /\ columns["targets"] # {}
       /\ q.todo \subseteq TargetColumns /\ Full["targets"] \ columns["targets"] \subseteq q.todo
  /\ q.pc = "open" => Upto(3)

IInv == TypeOK /\ TablesHaveIds /\ RecordedIsDone /\ \A p \in Processes : Knows(p)

(* Columns are only added, and no error is forgotten.                      *)
Grows ==
  /\ columns' \in [Tables -> SUBSET ({"id", "claim_until"} \cup NoteColumns \cup TargetColumns)]
  /\ \A t \in Tables : columns[t] \subseteq columns'[t] /\ columns'[t] \subseteq Full[t]
  /\ \A t \in Tables : columns'[t] # {} => "id" \in columns'[t]
  /\ errors' \in 0..MaxErrors /\ crashes' \in 0..MaxCrashes /\ errors <= errors'

LEMMA FullTables ==
  /\ Full["notifications"] = {"id"} \cup NoteColumns
  /\ Full["host_rate_limits"] = {"id", "claim_until"}
  /\ Full["targets"] = {"id"} \cup TargetColumns
BY DEF Full, Tables

LEMMA LastVersion ==
  ASSUME versions \subseteq Versions
  PROVE  /\ _get_schema_version \in versions \cup {0}
         /\ _get_schema_version \in 0..3
<1>1. \E v \in versions \cup {0} : \A w \in versions : w <= v
  <2>1. CASE 3 \in versions
    BY <2>1 DEF Versions, SCHEMA_VERSION
  <2>2. CASE 3 \notin versions /\ 2 \in versions
    BY <2>2 DEF Versions, SCHEMA_VERSION
  <2>3. CASE 3 \notin versions /\ 2 \notin versions /\ 1 \in versions
    BY <2>3 DEF Versions, SCHEMA_VERSION
  <2>4. CASE 3 \notin versions /\ 2 \notin versions /\ 1 \notin versions
    BY <2>4 DEF Versions, SCHEMA_VERSION
  <2> QED BY <2>1, <2>2, <2>3, <2>4
<1>2. _get_schema_version \in versions \cup {0}
  BY <1>1 DEF _get_schema_version
<1> QED BY <1>2 DEF Versions, SCHEMA_VERSION

(* What is done stays done.                                                *)
LEMMA UptoStable ==
  ASSUME TypeOK, Grows, NEW v \in 0..3, Upto(v)
  PROVE  Upto(v)'
BY FullTables DEF TypeOK, Grows, Upto, A1, A2, A3, Tables

LEMMA KnowsStable ==
  ASSUME TypeOK, Grows, NEW p \in Processes, Knows(p), proc'[p] = proc[p]
  PROVE  Knows(p)'
<1>1. \A v \in 0..3 : Upto(v) => Upto(v)'
  BY UptoStable
<1>2. columns["notifications"] # {} => columns'["notifications"] # {}
  BY DEF Grows, Tables
<1>3. columns["host_rate_limits"] # {} => columns'["host_rate_limits"] # {}
  BY DEF Grows, Tables
<1>3a. columns["targets"] # {} => columns'["targets"] # {}
  BY DEF Grows, Tables
<1>4. \A S : \A t \in Tables : Full[t] \ columns[t] \subseteq S => Full[t] \ columns'[t] \subseteq S
  BY DEF Grows
<1>5. Full["notifications"] \ columns["notifications"] \subseteq proc[p].todo
      => Full["notifications"] \ columns'["notifications"] \subseteq proc[p].todo
  BY <1>4 DEF Tables
<1>6. Full["targets"] \ columns["targets"] \subseteq proc[p].todo
      => Full["targets"] \ columns'["targets"] \subseteq proc[p].todo
  BY <1>4 DEF Tables
<1>7. proc[p].pc = "migrate" => Upto(proc[p].next - 1)'
  BY <1>1 DEF Knows
<1>8. proc[p].pc = "stamp" => Upto(proc[p].next)'
  BY <1>1 DEF Knows
<1>9. proc[p].pc \in {"open", "targets"} \/ (proc[p].pc = "notifications" /\ proc[p].next = 0) => Upto(3)'
  BY <1>1 DEF Knows
<1> QED BY <1>2, <1>3, <1>3a, <1>5, <1>6, <1>7, <1>8, <1>9 DEF Knows

Place == [pc : {"closed", "script", "version", "migrate", "notifications", "targets", "stamp", "open"},
          next : Versions, todo : SUBSET (NoteColumns \cup TargetColumns)]

(* A step of p keeps the invariant if columns grow, p knows what it may    *)
(* rely on next, and a version it records is done.                         *)
LEMMA Preserved ==
  ASSUME IInv, Grows, NEW p \in Processes, NEW r \in Place,
         proc' = [proc EXCEPT ![p] = r], Knows(p)',
         versions' \subseteq Versions, \A v \in versions' \ versions : Upto(v)'
  PROVE  IInv'
<1>1. TypeOK'
  BY DEF IInv, TypeOK, Grows, Place
<1>2. TablesHaveIds'
  BY DEF Grows, TablesHaveIds
<1>3. RecordedIsDone'
  <2>1. \A v \in 0..3 : Upto(v) => Upto(v)'
    BY UptoStable DEF IInv
  <2> QED BY <2>1 DEF IInv, TypeOK, RecordedIsDone, Versions, SCHEMA_VERSION
<1>4. ASSUME NEW q \in Processes, q # p PROVE Knows(q)'
  <2>1. proc'[q] = proc[q]
    BY <1>4 DEF IInv, TypeOK
  <2> QED BY <2>1, KnowsStable DEF IInv
<1> QED BY <1>1, <1>2, <1>3, <1>4 DEF IInv

LEMMA SameGrows ==
  ASSUME IInv, columns' = columns, errors' \in 0..MaxErrors, errors <= errors', crashes' \in 0..MaxCrashes
  PROVE  Grows
BY DEF IInv, TypeOK, TablesHaveIds, Grows

LEMMA CreateGrows ==
  ASSUME IInv, NoFault, NEW t \in Tables, columns' = WithTable(t)
  PROVE  Grows /\ columns'[t] # {}
<1>1. "id" \in Full[t] /\ Full[t] \subseteq {"id", "claim_until"} \cup NoteColumns \cup TargetColumns
  BY FullTables DEF Tables
<1>2. errors' = errors /\ crashes' = crashes /\ errors \in Nat
  BY DEF IInv, TypeOK, NoFault
<1>3. CASE columns[t] = {}
  BY <1>1, <1>2, <1>3 DEF IInv, TypeOK, TablesHaveIds, Grows, WithTable
<1>4. CASE columns[t] # {}
  BY <1>2, <1>4 DEF IInv, TypeOK, TablesHaveIds, Grows, WithTable
<1> QED BY <1>3, <1>4

LEMMA AddGrows ==
  ASSUME IInv, NoFault, NEW t \in Tables, NEW c \in Full[t], columns[t] # {},
         columns' = [columns EXCEPT ![t] = @ \cup {c}]
  PROVE  Grows /\ columns'[t] = columns[t] \cup {c}
<1>1. Full[t] \subseteq {"id", "claim_until"} \cup NoteColumns \cup TargetColumns
  BY FullTables DEF Tables
<1>2. errors' = errors /\ crashes' = crashes /\ errors \in Nat
  BY DEF IInv, TypeOK, NoFault
<1> QED BY <1>1, <1>2 DEF IInv, TypeOK, TablesHaveIds, Grows

(* A process that ends keeps no place.                                     *)
LEMMA RaiseKeepsInv ==
  ASSUME IInv, NEW p \in Processes, Raise(p), Grows, versions' = versions
  PROVE  IInv'
<1>1. Closed \in Place
  BY DEF Closed, Place, Versions, SCHEMA_VERSION
<1>2. proc'[p] = Closed
  BY DEF IInv, TypeOK, Raise
<1>3. Knows(p)'
  BY <1>2 DEF Knows, Closed
<1> QED BY <1>1, <1>3, Preserved DEF IInv, TypeOK, Raise

(* Before migration n, all earlier ones are done; after the last, all are. *)
LEMMA ContinueKeepsInv ==
  ASSUME IInv, NEW p \in Processes, NEW n \in 1..4, Continue(p, n), Grows, Upto(n - 1)',
         columns'["notifications"] # {}, columns'["host_rate_limits"] # {},
         versions' \subseteq Versions, \A v \in versions' \ versions : Upto(v)'
  PROVE  IInv'
<1>1. CASE n <= 3
  <2> DEFINE r == [pc |-> "migrate", next |-> n, todo |-> {}]
  <2>1. proc' = [proc EXCEPT ![p] = r]
    BY <1>1 DEF Continue, Goto, SCHEMA_VERSION
  <2>2. r \in Place
    BY <1>1 DEF Place, Versions, SCHEMA_VERSION
  <2>3. proc'[p] = r
    BY <2>1 DEF IInv, TypeOK
  <2>4. Knows(p)'
    BY <1>1, <2>3 DEF Knows
  <2> QED BY <2>1, <2>2, <2>4, Preserved
<1>2. CASE n = 4
  <2> DEFINE r == [pc |-> "open", next |-> 0, todo |-> {}]
  <2>1. proc' = [proc EXCEPT ![p] = r]
    BY <1>2 DEF Continue, Goto, SCHEMA_VERSION
  <2>2. r \in Place
    BY DEF Place, Versions, SCHEMA_VERSION
  <2>3. proc'[p] = r
    BY <2>1 DEF IInv, TypeOK
  <2>4. Knows(p)'
    BY <1>2, <2>3 DEF Knows
  <2> QED BY <2>1, <2>2, <2>4, Preserved
<1> QED BY <1>1, <1>2

(* The common form of the remaining cases: a Goto within Place.            *)
LEMMA GotoKeepsInv ==
  ASSUME IInv, Grows, NEW p \in Processes, NEW pc, NEW n, NEW S,
         [pc |-> pc, next |-> n, todo |-> S] \in Place, Goto(p, pc, n, S),
         proc'[p] = [pc |-> pc, next |-> n, todo |-> S] => Knows(p)',
         versions' \subseteq Versions, \A v \in versions' \ versions : Upto(v)'
  PROVE  IInv'
<1>1. proc'[p] = [pc |-> pc, next |-> n, todo |-> S]
  BY DEF IInv, TypeOK, Goto
<1> QED BY <1>1, Preserved DEF Goto

LEMMA StepKeepsInv == IInv /\ [Next]_vars => IInv'
<1> SUFFICES ASSUME IInv, [Next]_vars PROVE IInv'
  OBVIOUS
<1> USE DEF Versions, SCHEMA_VERSION
<1>f. NoFault => errors' \in 0..MaxErrors /\ errors <= errors' /\ crashes' \in 0..MaxCrashes
  BY DEF IInv, TypeOK, NoFault
<1>s. NoFault /\ columns' = columns => Grows
  BY <1>f, SameGrows
<1>v. versions \subseteq Versions
  BY DEF IInv, TypeOK
<1>k. \A p \in Processes : Knows(p)
  BY DEF IInv
<1>1. ASSUME NEW p \in Processes, Open(p) PROVE IInv'
  <2>1. [pc |-> "script", next |-> 1, todo |-> {}] \in Place
    BY DEF Place
  <2>2. Grows /\ Goto(p, "script", 1, {}) /\ versions' = versions
    BY <1>1, <1>s DEF Open
  <2>3. proc'[p] = [pc |-> "script", next |-> 1, todo |-> {}] => Knows(p)'
    BY DEF Knows
  <2> QED BY <2>1, <2>2, <2>3, <1>v, GotoKeepsInv
<1>2. ASSUME NEW p \in Processes, RunScript(p) PROVE IInv'
  <2>1. CASE proc[p].next = 1
    <3>1. [pc |-> "script", next |-> 2, todo |-> {}] \in Place
      BY DEF Place
    <3>2. Grows /\ Goto(p, "script", 2, {}) /\ versions' = versions \cup {0}
      BY <1>2, <2>1, <1>s DEF RunScript
    <3>3. proc'[p] = [pc |-> "script", next |-> 2, todo |-> {}] => Knows(p)'
      BY DEF Knows
    <3>4. Upto(0)'
      BY DEF Upto
    <3> QED BY <3>1, <3>2, <3>3, <3>4, <1>v, GotoKeepsInv
  <2>2. CASE proc[p].next = 2
    <3>1. [pc |-> "script", next |-> 3, todo |-> {}] \in Place
      BY DEF Place
    <3>2. /\ Goto(p, "script", 3, {}) /\ versions' = versions
          /\ Grows /\ columns'["notifications"] # {}
      BY <1>2, <2>2, CreateGrows DEF RunScript, Tables
    <3>3. proc'[p] = [pc |-> "script", next |-> 3, todo |-> {}] => Knows(p)'
      BY <3>2 DEF Knows
    <3> QED BY <3>1, <3>2, <3>3, <1>v, GotoKeepsInv
  <2>3. CASE proc[p].next = 3
    <3>1. [pc |-> "version", next |-> 0, todo |-> {}] \in Place
      BY DEF Place
    <3>2. /\ Goto(p, "version", 0, {}) /\ versions' = versions
          /\ Grows /\ columns'["host_rate_limits"] # {}
      BY <1>2, <2>3, CreateGrows DEF RunScript, Tables
    <3>3. columns["notifications"] # {}
      BY <1>2, <2>3, <1>k DEF RunScript, Knows
    <3>4. columns'["notifications"] # {}
      BY <3>2, <3>3 DEF Grows, Tables
    <3>5. proc'[p] = [pc |-> "version", next |-> 0, todo |-> {}] => Knows(p)'
      BY <3>2, <3>4 DEF Knows
    <3> QED BY <3>1, <3>2, <3>5, <1>v, GotoKeepsInv
  <2> QED BY <1>2, <2>1, <2>2, <2>3 DEF RunScript
<1>3. ASSUME NEW p \in Processes, ReadVersion(p) PROVE IInv'
  <2>1. Grows /\ versions' = versions /\ columns' = columns /\ errors' = errors
    BY <1>3, <1>s DEF ReadVersion, NoFault
  <2>2. PICK n \in 1..4 : n - 1 = _get_schema_version
    BY <1>v, LastVersion
  <2>3. Upto(n - 1)
    <3>1. Upto(0)
      BY DEF Upto
    <3> QED BY <3>1, <1>v, <2>2, LastVersion DEF IInv, RecordedIsDone
  <2>4. Upto(n - 1)'
    BY <2>1, <2>3 DEF Upto, A1, A2, A3
  <2>5. columns'["notifications"] # {} /\ columns'["host_rate_limits"] # {}
    BY <1>3, <1>k, <2>1 DEF ReadVersion, Knows
  <2>6. Continue(p, n)
    <3>1. n = _get_schema_version + 1
      BY <1>v, <2>2, LastVersion
    <3> QED BY <1>3, <3>1 DEF ReadVersion
  <2> QED BY <2>1, <2>4, <2>5, <2>6, <1>v, ContinueKeepsInv
<1>4. ASSUME NEW p \in Processes, InitNotificationTable(p) PROVE IInv'
  <2> DEFINE S == Full["notifications"] \ columns["notifications"]
  <2>1. Grows /\ versions' = versions /\ columns' = columns
    BY <1>4, <1>s DEF InitNotificationTable
  <2>2. columns["notifications"] # {} /\ columns["host_rate_limits"] # {}
    BY <1>4, <1>k DEF InitNotificationTable, Knows
  <2>3. "id" \in columns["notifications"]
    BY <2>2 DEF IInv, TablesHaveIds, Tables
  <2>4. S \subseteq NoteColumns
    BY <2>3, FullTables
  <2>5. [pc |-> "notifications", next |-> 1, todo |-> S] \in Place
    BY <2>4 DEF Place
  <2>6. proc'[p] = [pc |-> "notifications", next |-> 1, todo |-> S] => Knows(p)'
    BY <2>1, <2>2, <2>4 DEF Knows
  <2>7. Goto(p, "notifications", 1, S)
    BY <1>4 DEF InitNotificationTable
  <2> HIDE DEF S
  <2> QED BY <2>1, <2>5, <2>6, <2>7, <1>v, GotoKeepsInv
<1>5. ASSUME NEW p \in Processes, InitHostRateLimitTable(p) PROVE IInv'
  <2>1. /\ Goto(p, "stamp", 2, {}) /\ versions' = versions
        /\ Grows /\ columns'["host_rate_limits"] # {}
    BY <1>5, CreateGrows DEF InitHostRateLimitTable, Tables
  <2>2. Upto(1) /\ columns["notifications"] # {}
    BY <1>5, <1>k DEF InitHostRateLimitTable, Knows
  <2>3. Upto(1)' /\ columns'["notifications"] # {}
    BY <2>1, <2>2, UptoStable DEF IInv, Grows, Tables
  <2>4. Upto(2)'
    BY <2>1, <2>3 DEF Upto, A2
  <2>5. [pc |-> "stamp", next |-> 2, todo |-> {}] \in Place
    BY DEF Place
  <2>6. proc'[p] = [pc |-> "stamp", next |-> 2, todo |-> {}] => Knows(p)'
    BY <2>1, <2>3, <2>4 DEF Knows
  <2> QED BY <2>1, <2>5, <2>6, <1>v, GotoKeepsInv
<1>6. ASSUME NEW p \in Processes, InitHostRateLimitClaimUntil(p) PROVE IInv'
  <2>1. Upto(2) /\ columns["notifications"] # {} /\ columns["host_rate_limits"] # {}
    BY <1>6, <1>k DEF InitHostRateLimitClaimUntil, Knows
  <2>2. /\ Goto(p, "stamp", 3, {}) /\ versions' = versions
        /\ Grows /\ columns'["host_rate_limits"] = columns["host_rate_limits"] \cup {"claim_until"}
    BY <1>6, <2>1, AddGrows, FullTables DEF InitHostRateLimitClaimUntil, Tables
  <2>3. columns'["host_rate_limits"] = Full["host_rate_limits"]
    BY <2>1, <2>2, FullTables DEF IInv, TypeOK, TablesHaveIds, Tables
  <2>4. Upto(2)' /\ columns'["notifications"] # {} /\ columns'["host_rate_limits"] # {}
    BY <2>1, <2>2, UptoStable DEF IInv, Grows, Tables
  <2>5. Upto(3)'
    BY <2>3, <2>4 DEF Upto, A3
  <2>6. [pc |-> "stamp", next |-> 3, todo |-> {}] \in Place
    BY DEF Place
  <2>7. proc'[p] = [pc |-> "stamp", next |-> 3, todo |-> {}] => Knows(p)'
    BY <2>4, <2>5 DEF Knows
  <2> QED BY <2>2, <2>6, <2>7, <1>v, GotoKeepsInv
<1>7. ASSUME NEW p \in Processes, AddColumn(p, "notifications") PROVE IInv'
  <2>1. /\ columns["notifications"] # {} /\ columns["host_rate_limits"] # {}
        /\ proc[p].next \in {0, 1} /\ (proc[p].next = 0 => Upto(3))
        /\ proc[p].todo \subseteq NoteColumns
        /\ Full["notifications"] \ columns["notifications"] \subseteq proc[p].todo
    BY <1>7, <1>k DEF AddColumn, Knows
  <2>2. CASE proc[p].todo = {} /\ AllAdded(p) /\ columns' = columns
    <3>1. Grows /\ versions' = versions /\ errors' = errors
      BY <1>7, <2>2, <1>s DEF AddColumn, NoFault
    <3>2. A1'
      BY <2>1, <2>2 DEF IInv, TypeOK, Tables, A1
    <3>3. CASE proc[p].next = 1
      <4>1. Goto(p, "stamp", 1, {})
        BY <2>2, <3>3 DEF AllAdded
      <4>2. [pc |-> "stamp", next |-> 1, todo |-> {}] \in Place
        BY DEF Place
      <4>3. proc'[p] = [pc |-> "stamp", next |-> 1, todo |-> {}] => Knows(p)'
        BY <2>1, <2>2, <3>2 DEF Knows, Upto
      <4> QED BY <3>1, <4>1, <4>2, <4>3, <1>v, GotoKeepsInv
    <3>4. CASE proc[p].next = 0
      <4>1. Goto(p, "open", 0, {})
        BY <2>2, <3>4 DEF AllAdded
      <4>2. [pc |-> "open", next |-> 0, todo |-> {}] \in Place
        BY DEF Place
      <4>3. Upto(3)'
        BY <2>1, <3>1, <3>4, UptoStable DEF IInv
      <4>4. proc'[p] = [pc |-> "open", next |-> 0, todo |-> {}] => Knows(p)'
        BY <2>1, <2>2, <4>3 DEF Knows
      <4> QED BY <3>1, <4>1, <4>2, <4>4, <1>v, GotoKeepsInv
    <3> QED BY <2>1, <3>3, <3>4
  <2>3. ASSUME NEW c \in proc[p].todo, c \in columns["notifications"], Raise(p), columns' = columns
        PROVE  IInv'
    BY <1>7, <2>3, <1>s, RaiseKeepsInv DEF AddColumn
  <2>4. ASSUME NEW c \in proc[p].todo,
               columns' = [columns EXCEPT !["notifications"] = @ \cup {c}],
               Goto(p, "notifications", proc[p].next, proc[p].todo \ {c})
        PROVE  IInv'
    <3> DEFINE n == proc[p].next
               S == proc[p].todo \ {c}
    <3>1. c \in Full["notifications"]
      BY <2>1, FullTables
    <3>2. Grows /\ columns'["notifications"] = columns["notifications"] \cup {c} /\ versions' = versions
      BY <1>7, <2>1, <2>4, <3>1, AddGrows DEF AddColumn, Tables
    <3>3. [pc |-> "notifications", next |-> n, todo |-> S] \in Place
      BY <2>1 DEF Place
    <3>4. n = 0 => Upto(3)'
      BY <2>1, <3>2, UptoStable DEF IInv
    <3>5. columns'["notifications"] # {} /\ columns'["host_rate_limits"] # {}
      BY <2>1, <3>2 DEF Grows, Tables
    <3>6. proc'[p] = [pc |-> "notifications", next |-> n, todo |-> S] => Knows(p)'
      BY <2>1, <3>2, <3>4, <3>5 DEF Knows
    <3>7. Goto(p, "notifications", n, S)
      BY <2>4
    <3> HIDE DEF n, S
    <3> QED BY <3>2, <3>3, <3>6, <3>7, <1>v, GotoKeepsInv
  <2> QED BY <1>7, <2>2, <2>3, <2>4 DEF AddColumn
<1>8. ASSUME NEW p \in Processes, AddColumn(p, "targets") PROVE IInv'
  <2>1. /\ columns["notifications"] # {} /\ columns["host_rate_limits"] # {}
        /\ columns["targets"] # {} /\ proc[p].next = 0 /\ Upto(3) /\ proc[p].todo \subseteq TargetColumns
        /\ Full["targets"] \ columns["targets"] \subseteq proc[p].todo
    BY <1>8, <1>k DEF AddColumn, Knows
  <2>2. CASE proc[p].todo = {} /\ AllAdded(p) /\ columns' = columns
    <3>1. Grows /\ versions' = versions
      BY <1>8, <2>2, <1>s DEF AddColumn
    <3>2. Goto(p, "open", 0, {})
      BY <2>1, <2>2 DEF AllAdded
    <3>3. [pc |-> "open", next |-> 0, todo |-> {}] \in Place
      BY DEF Place
    <3>4. Upto(3)'
      BY <2>1, <3>1, UptoStable DEF IInv
    <3>5. proc'[p] = [pc |-> "open", next |-> 0, todo |-> {}] => Knows(p)'
      BY <2>1, <2>2, <3>4 DEF Knows
    <3> QED BY <3>1, <3>2, <3>3, <3>5, <1>v, GotoKeepsInv
  <2>3. ASSUME NEW c \in proc[p].todo, Raise(p), columns' = columns
        PROVE  IInv'
    BY <1>8, <2>3, <1>s, RaiseKeepsInv DEF AddColumn
  <2>4. ASSUME NEW c \in proc[p].todo,
               columns' = [columns EXCEPT !["targets"] = @ \cup {c}],
               Goto(p, "targets", proc[p].next, proc[p].todo \ {c})
        PROVE  IInv'
    <3> DEFINE S == proc[p].todo \ {c}
    <3>1. c \in Full["targets"]
      BY <2>1, FullTables
    <3>2. Grows /\ columns'["targets"] = columns["targets"] \cup {c} /\ versions' = versions
      BY <1>8, <2>1, <2>4, <3>1, AddGrows DEF AddColumn, Tables
    <3>3. [pc |-> "targets", next |-> 0, todo |-> S] \in Place
      BY <2>1 DEF Place
    <3>4. Upto(3)'
      BY <2>1, <3>2, UptoStable DEF IInv
    <3>5. columns'["notifications"] # {} /\ columns'["host_rate_limits"] # {}
      BY <2>1, <3>2 DEF Grows, Tables
    <3>6. proc'[p] = [pc |-> "targets", next |-> 0, todo |-> S] => Knows(p)'
      BY <2>1, <3>2, <3>4, <3>5 DEF Knows
    <3>7. Goto(p, "targets", 0, S)
      BY <2>1, <2>4
    <3> HIDE DEF S
    <3> QED BY <3>2, <3>3, <3>6, <3>7, <1>v, GotoKeepsInv
  <2> QED BY <1>8, <2>2, <2>3, <2>4 DEF AddColumn
<1>9. ASSUME NEW p \in Processes, SetVersion(p) PROVE IInv'
  <2>1. Grows /\ columns' = columns /\ errors' = errors /\ versions' = versions \cup {proc[p].next}
    BY <1>9, <1>s DEF SetVersion, NoFault
  <2>2. proc[p].next \in 1..3 /\ Upto(proc[p].next)
    BY <1>9, <1>k DEF SetVersion, Knows
  <2>3. CASE proc[p].next \in versions
    BY <1>9, <2>1, <2>3, RaiseKeepsInv DEF SetVersion
  <2>4. CASE proc[p].next \notin versions
    <3>1. PICK n \in 1..4 : n - 1 = proc[p].next /\ n = proc[p].next + 1
      BY <2>2
    <3>2. Upto(n - 1)
      BY <2>2, <3>1
    <3>3. Continue(p, n)
      BY <1>9, <2>4, <3>1 DEF SetVersion
    <3>4. n - 1 \in 0..3 /\ versions' = versions \cup {n - 1}
      BY <2>1, <2>2, <3>1
    <3>5. Upto(n - 1)'
      BY <2>1, <3>2 DEF Upto, A1, A2, A3
    <3>6. columns'["notifications"] # {} /\ columns'["host_rate_limits"] # {}
      BY <1>9, <1>k, <2>1 DEF SetVersion, Knows
    <3> QED BY <2>1, <3>1, <3>3, <3>4, <3>5, <3>6, <1>v, ContinueKeepsInv
  <2> QED BY <2>3, <2>4
<1>10. ASSUME NEW p \in Processes, UseTargets(p) PROVE IInv'
  <2> DEFINE S == Full["targets"] \ columns'["targets"]
  <2>1. Upto(3) /\ columns["notifications"] # {} /\ columns["host_rate_limits"] # {}
    BY <1>10, <1>k DEF UseTargets, Knows
  <2>2. Grows /\ columns'["targets"] # {} /\ versions' = versions
    BY <1>10, CreateGrows DEF UseTargets, Tables
  <2>3. S \subseteq TargetColumns
    BY <2>2, FullTables DEF Grows, Tables
  <2>4. Upto(3)' /\ columns'["notifications"] # {} /\ columns'["host_rate_limits"] # {}
    BY <2>1, <2>2, UptoStable DEF IInv, Grows, Tables
  <2>5. [pc |-> "targets", next |-> 0, todo |-> S] \in Place
    BY <2>3 DEF Place
  <2>6. proc'[p] = [pc |-> "targets", next |-> 0, todo |-> S] => Knows(p)'
    BY <2>2, <2>3, <2>4 DEF Knows
  <2>7. Goto(p, "targets", 0, S)
    BY <1>10 DEF UseTargets
  <2> HIDE DEF S
  <2> QED BY <2>2, <2>5, <2>6, <2>7, <1>v, GotoKeepsInv
<1>11. ASSUME NEW p \in Processes, UseNotifications(p) PROVE IInv'
  <2> DEFINE S == Full["notifications"] \ columns["notifications"]
  <2>1. Upto(3) /\ columns["notifications"] # {} /\ columns["host_rate_limits"] # {}
    BY <1>11, <1>k DEF UseNotifications, Knows
  <2>2. Grows /\ versions' = versions /\ columns' = columns
    BY <1>11, <1>s DEF UseNotifications
  <2>3. S = {}
    BY <2>1 DEF Upto, A1
  <2>4. Upto(3)'
    BY <2>1, <2>2, UptoStable DEF IInv
  <2>5. [pc |-> "notifications", next |-> 0, todo |-> {}] \in Place
    BY DEF Place
  <2>6. proc'[p] = [pc |-> "notifications", next |-> 0, todo |-> {}] => Knows(p)'
    BY <2>1, <2>2, <2>3, <2>4 DEF Knows
  <2>7. Goto(p, "notifications", 0, {})
    BY <1>11, <2>3 DEF UseNotifications
  <2> QED BY <2>2, <2>5, <2>6, <2>7, <1>v, GotoKeepsInv
<1>12. ASSUME NEW p \in Processes, Close(p) PROVE IInv'
  BY <1>12, <1>s, RaiseKeepsInv DEF Close
<1>13. ASSUME NEW p \in Processes, Crash(p) PROVE IInv'
  <2>1. Grows
    BY <1>13, SchemaAssumption, SameGrows DEF Crash, IInv, TypeOK
  <2> QED BY <1>13, <2>1, RaiseKeepsInv DEF Crash
<1>14. ASSUME NEW p \in Processes, WriteFails(p) PROVE IInv'
  <2>1. Grows /\ columns' = columns /\ versions' = versions /\ errors' # 0
    BY <1>14, SchemaAssumption, SameGrows DEF WriteFails, IInv, TypeOK
  <2>2. CASE proc[p].pc = "migrate" /\ proc[p].next = 3
    <3>1. Upto(2) /\ columns["notifications"] # {} /\ columns["host_rate_limits"] # {}
      BY <2>2, <1>k DEF Knows
    <3>2. Upto(2)'
      BY <2>1, <3>1, UptoStable DEF IInv
    <3>3. Upto(3)'
      BY <2>1, <3>2 DEF Upto, A3
    <3>4. [pc |-> "stamp", next |-> 3, todo |-> {}] \in Place
      BY DEF Place
    <3>5. proc'[p] = [pc |-> "stamp", next |-> 3, todo |-> {}] => Knows(p)'
      BY <2>1, <3>1, <3>3 DEF Knows
    <3>6. Goto(p, "stamp", 3, {})
      BY <1>14, <2>2 DEF WriteFails
    <3> QED BY <2>1, <3>4, <3>5, <3>6, <1>v, GotoKeepsInv
  <2>3. CASE ~(proc[p].pc = "migrate" /\ proc[p].next = 3)
    BY <1>14, <2>1, <2>3, RaiseKeepsInv DEF WriteFails
  <2> QED BY <2>2, <2>3
<1>15. CASE UNCHANGED vars
  BY <1>15 DEF vars, IInv, TypeOK, TablesHaveIds, RecordedIsDone, Knows, Upto, A1, A2, A3
<1> QED BY <1>1, <1>2, <1>3, <1>4, <1>5, <1>6, <1>7, <1>8, <1>9, <1>10, <1>11, <1>12, <1>13, <1>14, <1>15
        DEF Next, Run

LEMMA InitEstablishesInv == Init => IInv
<1> SUFFICES ASSUME Init PROVE IInv
  OBVIOUS
<1> USE DEF Versions, SCHEMA_VERSION
<1>1. versions \subseteq Versions
  BY DEF Init
<1>2. TypeOK
  BY <1>1, SchemaAssumption DEF Init, TypeOK, Closed
<1>3. TablesHaveIds
  BY DEF Init, TablesHaveIds
<1>4. RecordedIsDone
  <2> SUFFICES ASSUME NEW v \in versions PROVE Upto(v)
    BY DEF RecordedIsDone
  <2>1. \A w \in 0..v : Applied(w)
    BY DEF Init
  <2>2. v >= 1 => Applied(1)
    BY <1>1, <2>1
  <2>3. v >= 2 => Applied(2)
    BY <1>1, <2>1
  <2>4. v >= 3 => Applied(3)
    BY <1>1, <2>1
  <2> QED BY <2>2, <2>3, <2>4 DEF Upto, A1, A2, A3, Applied
<1>5. \A p \in Processes : Knows(p)
  BY DEF Init, Closed, Knows
<1> QED BY <1>2, <1>3, <1>4, <1>5 DEF IInv

LEMMA Invariant == Spec => []IInv
BY InitEstablishesInv, StepKeepsInv, PTL DEF Spec

(* Every reachable state is well typed.                                    *)
THEOREM TypeCorrect == Spec => []TypeOK
<1>1. IInv => TypeOK
  BY DEF IInv
<1> QED BY <1>1, Invariant, PTL

(* An open repository has every column its statements name, and so has a   *)
(* table whose check has ended, for any number of processes and crashes.   *)
THEOREM OpenRepositoriesAreComplete == Spec => []OpenIsComplete
<1>1. IInv => OpenIsComplete
  <2> SUFFICES ASSUME IInv, NEW p \in Processes
               PROVE  /\ proc[p].pc = "open" => Applied(1) /\ Applied(2) /\ (errors = 0 => Applied(3))
                      /\ proc[p].pc = "targets" /\ proc[p].todo = {} => columns["targets"] = Full["targets"]
    BY DEF OpenIsComplete
  <2>1. Knows(p)
    BY DEF IInv
  <2>2. proc[p].pc = "open" => Upto(3)
    BY <2>1 DEF Knows
  <2>3. proc[p].pc = "open" => Applied(1) /\ Applied(2) /\ (errors = 0 => Applied(3))
    BY <2>2 DEF Upto, A1, A2, A3, Applied
  <2>4. proc[p].pc = "targets" /\ proc[p].todo = {} => Full["targets"] \ columns["targets"] = {}
    BY <2>1 DEF Knows
  <2>5. columns["targets"] \subseteq Full["targets"]
    BY DEF IInv, TypeOK, Tables
  <2> QED BY <2>3, <2>4, <2>5
<1> QED BY <1>1, Invariant, PTL
================================================================================
