----------------------- MODULE DatabaseMigrationProofs -----------------------
(***************************************************************************)
(* Proofs about DatabaseMigration for any rows, tables and files, any      *)
(* number of writes and crashes.                                           *)
(*                                                                         *)
(* Rows of the source only grow: 0, then 1 .. MaxVersion, then Gone.  So   *)
(* a row read with the same content by the copy and by the comparison had  *)
(* it all the time between, and with it every other row that was copied:   *)
(* the instant of the copy is the one between the two passes.              *)
(***************************************************************************)
EXTENDS DatabaseMigration, FiniteSetTheorems, TLAPS

TargetContents == 0 .. MaxVersion \cup {Changed}

SourceInv ==
  /\ source \in [made : BOOLEAN, missing : 0..1, stamped : BOOLEAN, rows : [Rows -> 0..Gone]]
  /\ \A r \in Rows : TableOf[r] \in Kept => source.rows[r] # Gone

TargetInv ==
  /\ target \in [made : 0..TableCount, version : {"none", "empty", "head"},
                 rows : [Rows -> TargetContents]]
  /\ target.version = "head" => target.made = TableCount
  /\ target.version # "head" => target.rows = NoRows

\* What is served is ready, and stays so.
ServeInv ==
  /\ app \in [source : {"down", "local", "test"}, target : {"down"} \cup Supported,
              boot : {"none", "local", "test"}]
  /\ source.stamped => source.made /\ source.missing = 0
  /\ app.boot # "none" => source.made
  /\ app.source # "down" => source.made /\ source.missing = 0
  /\ app.target # "down" => target.version = "head"

Copying == {"copy", "compare", "check", "commit"}
Migrating == {"measure", "plan", "inspect", "upgrade", "files"} \cup Copying

CommandInv ==
  /\ DOMAIN cmd = DOMAIN Idle
  /\ \/ cmd.name = "none" /\ cmd.pc = "idle"
     \/ cmd.name = "upgrade" /\ cmd.pc = "upgrade"
     \/ cmd.name = "adopt" /\ cmd.pc \in {"backup", "stamp"}
     \/ cmd.name = "migrate" /\ cmd.pc \in Migrating
  /\ cmd.i \in Nat
  /\ cmd.pc = "upgrade" => cmd.i <= target.made
  /\ report \in {"none", "blocked", "ready", "failed", "completed", "traceback"}

BackupInv ==
  /\ backups \in [Backups -> {"none", "partial", "whole"}]
  /\ cmd.pc \in {"backup", "stamp"} => source.made /\ source.missing = 0
  /\ cmd.pc = "backup" => \E p \in Backups : cmd.file = {p}
  /\ cmd.pc = "stamp" => \E p \in Backups : backups[p] = "whole"
  /\ source.stamped => \E p \in Backups : backups[p] = "whole"

-----------------------------------------------------------------------------
(* A migration                                                             *)

MeasureInv ==
  cmd.name = "migrate" =>
    /\ cmd.first \in [Rows -> 0..MaxVersion]
    /\ \A r \in Rows : cmd.first[r] # 0 => source.rows[r] # 0
    /\ cmd.instants \subseteq [Rows -> 0..MaxVersion]
    /\ Actual(source.rows) \in cmd.instants

\* The transaction on the target, and what requests touched there meanwhile.
TransactionInv ==
  cmd.name = "migrate" =>
    /\ cmd.mine \in [Rows -> 0..MaxVersion]
    /\ cmd.again \in [Rows -> 0..MaxVersion]
    /\ cmd.snap \in [Rows -> TargetContents]
    /\ cmd.pc \notin Copying => cmd.mine = NoRows /\ cmd.again = NoRows /\ ~cmd.begun
    /\ \A r \in Rows : cmd.mine[r] # 0 => target.rows[r] = 0
    /\ cmd.begun => \A r \in Rows : r \in cmd.touched \/ target.rows[r] = cmd.snap[r]
    /\ ~cmd.begun => cmd.snap = NoRows
    /\ cmd.begun /\ ~cmd.resume => cmd.pc = "commit"
    /\ cmd.pc = "commit" => cmd.begun
    /\ cmd.pc \in {"compare", "check", "commit"} \/ (cmd.pc = "copy" /\ cmd.i > 1) =>
         (cmd.resume => cmd.begun)
    /\ cmd.pc = "copy" => cmd.again = NoRows
    /\ cmd.pc \in {"copy", "compare"} => cmd.i > 0
    /\ cmd.pc \in Copying \cup {"files"} => target.version = "head"
    /\ cmd.pc = "upgrade" => target.version # "head"
    /\ cmd.pc \in Copying /\ ~cmd.resume =>
         \A r \in Rows : r \in cmd.touched \/ target.rows[r] = 0

\* The tables before the one a pass has come to.
Done(r) == \E j \in 1 .. cmd.i - 1 : Order[j] = TableOf[r]

\* The rows of the copy: those inserted and, when resuming, those found.
Copied == Over(cmd.snap, cmd.mine)

\* What has been copied was in the source, what was not is not any more.
Copies(r) ==
  /\ Copied[r] # 0 => Copied[r] \in 1..MaxVersion /\ source.rows[r] >= Copied[r]
  /\ Copied[r] = 0 /\ cmd.first[r] # 0 => source.rows[r] = Gone

CopyInv ==
  cmd.name = "migrate" =>
    /\ cmd.pc = "copy" => \A r \in Rows : IF Done(r) THEN Copies(r) ELSE cmd.mine[r] = 0
    /\ cmd.pc \in {"compare", "check"} => \A r \in Rows : Copies(r)

\* now is the source between the two passes: after row r was copied ...
After(now, r) ==
  /\ Copied[r] # 0 /\ now[r] # 0 => now[r] >= Copied[r]
  /\ Copied[r] # 0 /\ now[r] = 0 => source.rows[r] = Gone
  /\ Copied[r] = 0 /\ now[r] # 0 => cmd.first[r] = 0
  /\ source.rows[r] >= now[r]

\* ... and before it was read again.
Before(now, r) ==
  /\ cmd.again[r] # 0 /\ now[r] # 0 => cmd.again[r] >= now[r]
  /\ cmd.again[r] # 0 /\ Copied[r] # 0 => now[r] # 0
  /\ cmd.again[r] = 0 /\ now[r] # 0 => source.rows[r] = Gone

CompareInv ==
  cmd.name = "migrate" /\ cmd.pc \in {"compare", "check"} =>
    \E now \in cmd.instants : \A r \in Rows :
      /\ After(now, r)
      /\ IF cmd.pc = "check" \/ Done(r) THEN Before(now, r) ELSE cmd.again[r] = 0

\* rows are those of an instant of the source, but for what came and went and
\* what requests touched on the target.
IsInstant(rows, now) ==
  \A r \in Rows : \/ r \in cmd.touched
                  \/ rows[r] = now[r]
                  \/ rows[r] = 0 /\ cmd.first[r] = 0 /\ source.rows[r] = Gone

InstantInv ==
  cmd.name = "migrate" =>
    /\ cmd.pc = "commit" => \E now \in cmd.instants : IsInstant(Copied, now)
    /\ cmd.pc = "files" => \E now \in cmd.instants : IsInstant(target.rows, now)

FilesInv ==
  /\ files \in [source : [Files -> 0..Gone], target : [Files -> Contents]]
  /\ cmd.name = "migrate" =>
       /\ cmd.kept \subseteq Files /\ cmd.todo \subseteq Files
       /\ cmd.pc # "files" => cmd.file = {}
       /\ cmd.pc = "files" =>
            /\ \A f \in Files : cmd.file = {f} => files.target[f] = Torn
            /\ \A f \in cmd.kept \ cmd.todo : files.target[f] = files.source[f]
            /\ \A f \in cmd.kept : files.source[f] # Gone

IInv ==
  /\ SourceInv /\ TargetInv /\ ServeInv /\ CommandInv /\ BackupInv
  /\ MeasureInv /\ TransactionInv /\ CopyInv /\ CompareInv /\ InstantInv /\ FilesInv

-----------------------------------------------------------------------------
(* The operators of the model                                              *)

LEMMA SortedTablesFinite == IsFiniteSet(DOMAIN SortedTables)
<1> DEFINE S == {RootTables[i] : i \in DOMAIN RootTables}
                  \cup {ConferenceTables[i] : i \in DOMAIN ConferenceTables}
                  \cup {RecordTables[i] : i \in DOMAIN RecordTables}
<1>1. CreateOrder \in Seq(S)
  <2>1. RootTables \in Seq(S)
    BY DEF RootTables
  <2>2. ConferenceTables \in Seq(S)
    BY DEF ConferenceTables
  <2>3. RecordTables \in Seq(S)
    BY DEF RecordTables
  <2>4. QED
    <3> HIDE DEF S
    <3>1. QED
      BY <2>1, <2>2, <2>3 DEF CreateOrder
<1>2. Len(CreateOrder) \in Nat /\ DOMAIN CreateOrder = 1 .. Len(CreateOrder)
  BY <1>1
<1>3. DOMAIN SortedTables = 1 .. Len(CreateOrder)
  BY <1>2 DEF SortedTables
<1>4. QED
  BY <1>2, <1>3, FS_Interval

LEMMA CountPlaces ==
  /\ TableCount \in Nat
  /\ \A p \in Places : p \in Int /\ Cardinality(Places \cap 1..p) \in 1..TableCount
  /\ \A p, q \in Places :
       Cardinality(Places \cap 1..p) = Cardinality(Places \cap 1..q) => p = q
<1>1. DOMAIN SortedTables \subseteq Nat \ {0}
  BY DEF SortedTables, CreateOrder, RootTables, ConferenceTables, RecordTables
<1>2. IsFiniteSet(Places) /\ Places \subseteq Nat \ {0}
  <2>1. Places \subseteq DOMAIN SortedTables
    BY DEF Places
  <2>2. QED
    BY <1>1, <2>1, SortedTablesFinite, FS_Subset
<1>3. TableCount \in Nat
  BY <1>2, FS_CardinalityType DEF TableCount
<1>4. ASSUME NEW p \in Places
      PROVE  /\ IsFiniteSet(Places \cap 1..p)
             /\ Cardinality(Places \cap 1..p) \in 1..TableCount
  <2>1. IsFiniteSet(Places \cap 1..p) /\ Cardinality(Places \cap 1..p) <= TableCount
    BY <1>2, FS_Subset DEF TableCount
  <2>2. p \in Places \cap 1..p
    BY <1>2
  <2>3. Cardinality(Places \cap 1..p) \in Nat /\ Cardinality(Places \cap 1..p) # 0
    BY <2>1, <2>2, FS_CardinalityType, FS_EmptySet
  <2>4. QED
    BY <1>3, <2>1, <2>3
<1>5. ASSUME NEW p \in Places, NEW q \in Places, p < q
      PROVE  Cardinality(Places \cap 1..p) # Cardinality(Places \cap 1..q)
  <2>1. Places \cap 1..p \subseteq Places \cap 1..q
    BY <1>2, <1>5
  <2>2. q \in Places \cap 1..q /\ q \notin Places \cap 1..p
    BY <1>2, <1>5
  <2>3. Cardinality(Places \cap 1..p) < Cardinality(Places \cap 1..q)
    BY <1>4, <2>1, <2>2, FS_Subset
  <2>4. QED
    BY <1>3, <1>4, <2>3
<1>6. \A p, q \in Places : p # q => p < q \/ q < p
  BY <1>2
<1>7. QED
  BY <1>2, <1>3, <1>4, <1>5, <1>6

\* A pass over the tables comes to every row.
LEMMA OrderComplete ==
  ASSUME NEW r \in Rows
  PROVE  \E j \in 1..TableCount : Order[j] = TableOf[r]
<1>1. PICK p \in DOMAIN SortedTables : SortedTables[p] = TableOf[r]
  BY RowsAssumption, BaselineMatchesModel DEF ToSet
<1>2. p \in Places
  BY <1>1 DEF Places
<1> DEFINE j == Cardinality(Places \cap 1..p)
<1>3. j \in 1..TableCount
  BY <1>2, CountPlaces
<1>4. (CHOOSE q \in Places : Cardinality(Places \cap 1..q) = j) = p
  BY <1>2, CountPlaces
<1>5. Order[j] = SortedTables[p]
  BY <1>3, <1>4 DEF Order
<1>6. QED
  BY <1>1, <1>3, <1>5

LEMMA ContentValues ==
  /\ Gone = MaxVersion + 1 /\ Changed = MaxVersion + 2 /\ MaxVersion \in Nat \ {0}
  /\ Gone \notin TargetContents /\ 0 \in TargetContents /\ 0..MaxVersion \subseteq TargetContents
  /\ NoRows \in [Rows -> 0..MaxVersion] /\ \A r \in Rows : NoRows[r] = 0
BY BoundsAssumption DEF Gone, Changed, TargetContents, NoRows

LEMMA OverProperties ==
  ASSUME NEW S, NEW a \in [Rows -> S], NEW b \in [Rows -> S]
  PROVE  /\ Over(a, b) \in [Rows -> S]
         /\ \A r \in Rows : Over(a, b)[r] = IF b[r] # 0 THEN b[r] ELSE a[r]
BY DEF Over

LEMMA OverVersions ==
  ASSUME NEW a \in [Rows -> 0..MaxVersion], NEW b \in [Rows -> 0..MaxVersion]
  PROVE  /\ Over(a, b) \in [Rows -> 0..MaxVersion]
         /\ \A r \in Rows : Over(a, b)[r] = IF b[r] # 0 THEN b[r] ELSE a[r]
BY DEF Over

LEMMA ReadingProperties ==
  ASSUME NEW rows \in [Rows -> 0..Gone]
  PROVE  /\ Reading(rows) \in [Rows -> 0..MaxVersion]
         /\ \A r \in Rows : Reading(rows)[r] # 0 => Reading(rows)[r] = rows[r]
         /\ \A r \in Rows : TableOf[r] = Order[cmd.i] /\ Reading(rows)[r] = 0 => rows[r] \in {0, Gone}
         /\ \A r \in Rows : Reading(rows)[r] # 0 => TableOf[r] = Order[cmd.i]
BY BoundsAssumption DEF Reading, Exists, Gone

LEMMA ActualProperties ==
  ASSUME NEW rows \in [Rows -> 0..Gone]
  PROVE  /\ Actual(rows) \in [Rows -> 0..MaxVersion]
         /\ \A r \in Rows : Actual(rows)[r] # 0 => Actual(rows)[r] = rows[r]
         /\ \A r \in Rows : Actual(rows)[r] = 0 => rows[r] \in {0, Gone}
BY BoundsAssumption DEF Actual, Exists, Gone

LEMMA SeededProperties ==
  ASSUME NEW S, 1 \in S, NEW rows \in [Rows -> S], NEW seeds \in SUBSET Rows
  PROVE  /\ Seeded(rows, seeds) \in [Rows -> S]
         /\ \A r \in Rows : \/ Seeded(rows, seeds)[r] = rows[r]
                            \/ /\ r \in seeds /\ rows[r] \in {0, Gone}
                               /\ Seeded(rows, seeds)[r] = 1
BY DEF Seeded, Exists

-----------------------------------------------------------------------------
(* The source                                                              *)

\* What a step does to the rows of the source.
Grown == \A r \in Rows : source'.rows[r] >= source.rows[r]

LEMMA StepSource ==
  ASSUME SourceInv, [Next]_vars
  PROVE  SourceInv' /\ Grown
<1> USE BoundsAssumption DEF Gone
<1>1. /\ source \in [made : BOOLEAN, missing : 0..1, stamped : BOOLEAN, rows : [Rows -> 0..Gone]]
      /\ \A r \in Rows : source.rows[r] \in 0..Gone
  BY DEF SourceInv
<1>2. ASSUME source'.rows = source.rows,
             source' \in [made : BOOLEAN, missing : 0..1, stamped : BOOLEAN, rows : [Rows -> 0..Gone]]
      PROVE  SourceInv' /\ Grown
  BY <1>1, <1>2 DEF SourceInv, Grown
<1>3. ASSUME NEW env \in Environments, StartDashboard(env) PROVE SourceInv' /\ Grown
  <2>1. source' = source \/ source' = [source EXCEPT !.made = TRUE]
    BY <1>3 DEF StartDashboard
  <2>2. QED
    BY <1>1, <1>2, <2>1
<1>4. CASE EnsureColumns
  <2>1. source' = [source EXCEPT !.missing = @ - 1] /\ source.missing > 0
    BY <1>4 DEF EnsureColumns
  <2>2. QED
    BY <1>1, <1>2, <2>1
<1>5. CASE SeedSource
  <2> DEFINE seeded == Seeded(source.rows, SourceSeeds)
             movable == {r \in In("conferences", seeded) : seeded[r] < MaxVersion}
             moving(moved) == [r \in Rows |-> IF r \in moved THEN seeded[r] + 1 ELSE seeded[r]]
  <2>1. PICK moved \in SUBSET movable : source' = [source EXCEPT !.rows = moving(moved)]
    BY <1>5 DEF SeedSource
  <2>2. /\ seeded \in [Rows -> 0..Gone]
        /\ \A r \in Rows : \/ seeded[r] = source.rows[r]
                           \/ r \in SourceSeeds /\ source.rows[r] \in {0, Gone} /\ seeded[r] = 1
    <3>1. SourceSeeds \in SUBSET Rows /\ 1 \in 0..Gone /\ source.rows \in [Rows -> 0..Gone]
      BY <1>1, SeedsAssumption
    <3>2. /\ Seeded(source.rows, SourceSeeds) \in [Rows -> 0..Gone]
          /\ \A r \in Rows : \/ Seeded(source.rows, SourceSeeds)[r] = source.rows[r]
                             \/ /\ r \in SourceSeeds /\ source.rows[r] \in {0, Gone}
                                /\ Seeded(source.rows, SourceSeeds)[r] = 1
      <4> DEFINE S == 0..Gone
      <4>1. 1 \in S /\ source.rows \in [Rows -> S]
        BY <3>1
      <4> HIDE DEF S
      <4>2. Seeded(source.rows, SourceSeeds) \in [Rows -> S]
        BY <3>1, <4>1, SeededProperties
      <4>3. QED
        BY <3>1, <4>1, <4>2, SeededProperties DEF S
    <3>3. QED
      BY <3>2
  <2>3. \A r \in SourceSeeds : source.rows[r] # Gone
    BY SeedsAssumption DEF SourceInv
  <2>4. \A r \in movable : r \in Rows /\ seeded[r] < MaxVersion /\ TableOf[r] \notin Kept
    BY DEF In, Present, Kept
  <2> HIDE DEF seeded, movable
  <2>5. \A r \in Rows : /\ seeded[r] \in 0..Gone /\ seeded[r] >= source.rows[r]
                        /\ seeded[r] = Gone => source.rows[r] = Gone
    BY <1>1, <2>2, <2>3
  <2>6. /\ moving(moved) \in [Rows -> 0..Gone]
        /\ \A r \in Rows : moving(moved)[r] >= source.rows[r]
        /\ \A r \in Rows : TableOf[r] \in Kept => moving(moved)[r] = seeded[r]
    BY <1>1, <2>4, <2>5
  <2> HIDE DEF moving
  <2>7. source'.rows = moving(moved)
    BY <1>1, <2>1
  <2>8. source' \in [made : BOOLEAN, missing : 0..1, stamped : BOOLEAN, rows : [Rows -> 0..Gone]]
    BY <1>1, <2>1, <2>6
  <2>9. QED
    BY <2>5, <2>6, <2>7, <2>8 DEF SourceInv, Grown
<1>6. CASE SourceWrite
  <2>1. CASE source' = source
    BY <1>1, <1>2, <2>1
  <2>2. CASE \E new \in Writes : source' = [source EXCEPT !.rows = new]
    <3>1. PICK new \in Writes : source' = [source EXCEPT !.rows = new]
      BY <2>2
    <3>2. /\ new \in [Rows -> 0..Gone]
          /\ \A r \in Rows : \/ new[r] = source.rows[r]
                             \/ source.rows[r] < MaxVersion /\ new[r] = source.rows[r] + 1
                             \/ TableOf[r] \notin Kept /\ new[r] = Gone
      BY DEF Writes
    <3>3. source'.rows = new
      BY <1>1, <3>1
    <3>4. source' \in [made : BOOLEAN, missing : 0..1, stamped : BOOLEAN, rows : [Rows -> 0..Gone]]
      BY <1>1, <3>1, <3>2
    <3>5. \A r \in Rows : new[r] >= source.rows[r] /\ (TableOf[r] \in Kept => new[r] # Gone)
      BY <1>1, <3>2 DEF SourceInv
    <3>6. QED
      BY <3>3, <3>4, <3>5 DEF SourceInv, Grown
  <2>3. QED
    BY <1>6, <2>1, <2>2 DEF SourceWrite
<1>7. CASE Stamp
  <2>1. source' = [source EXCEPT !.stamped = TRUE]
    BY <1>7 DEF Stamp
  <2>2. QED
    BY <1>1, <1>2, <2>1
<1>8. ASSUME source' = source PROVE SourceInv' /\ Grown
  BY <1>1, <1>2, <1>8
<1>9. CASE Migrate
  <2>1. source' = source
    BY <1>9 DEF Migrate, MeasureSource, PlanFiles, InspectTarget, CopyTable, CompareTable,
       CompareTarget, CommitRows, CopyFile, FinishFile, Reconcile, UpgradeStep
  <2>2. QED
    BY <1>8, <2>1
<1>10. CASE \/ StopDashboard \/ TargetWrite \/ StartUpgrade \/ UpgradeStep \/ SeedTarget
            \/ FinishBackup \/ Crash \/ UNCHANGED vars
            \/ \E p \in Backups : StartAdoption(p)
            \/ \E opt \in Options : StartMigration(opt)
  <2>1. source' = source
    BY <1>10 DEF StopDashboard, TargetWrite, StartUpgrade, UpgradeStep, SeedTarget, FinishBackup,
       Crash, vars, StartAdoption, StartMigration
  <2>2. QED
    BY <1>8, <2>1
<1>11. QED
  BY <1>3, <1>4, <1>5, <1>6, <1>7, <1>9, <1>10 DEF Next

-----------------------------------------------------------------------------
(* The command in progress                                                 *)

Fields == {"name", "pc", "i", "apply", "resume", "trees", "refused", "begun", "first", "again",
           "snap", "mine", "touched", "todo", "kept", "file", "instants"}

LEMMA IdleFields ==
  /\ DOMAIN Idle = Fields
  /\ Idle.name = "none" /\ Idle.pc = "idle" /\ Idle.i = 0 /\ Idle.begun = FALSE
  /\ Idle.first = NoRows /\ Idle.again = NoRows /\ Idle.snap = NoRows /\ Idle.mine = NoRows
  /\ Idle.touched = {} /\ Idle.todo = {} /\ Idle.kept = {} /\ Idle.file = {} /\ Idle.instants = {}
BY DEF Idle, Fields


LEMMA NextTableFields ==
  ASSUME DOMAIN cmd = Fields, NEW pc
  PROVE  /\ DOMAIN NextTable(pc) = Fields
         /\ \/ /\ cmd.i < TableCount
               /\ NextTable(pc).i = cmd.i + 1 /\ NextTable(pc).pc = cmd.pc
            \/ /\ ~(cmd.i < TableCount)
               /\ NextTable(pc).i = 1 /\ NextTable(pc).pc = pc
         /\ \A x \in Fields \ {"i", "pc"} : NextTable(pc)[x] = cmd[x]
<1>1. CASE cmd.i < TableCount
  <2>1. NextTable(pc) = [cmd EXCEPT !.i = cmd.i + 1]
    BY <1>1 DEF NextTable
  <2>2. QED
    BY <1>1, <2>1 DEF Fields
<1>2. CASE ~(cmd.i < TableCount)
  <2>1. NextTable(pc) = [cmd EXCEPT !.i = 1, !.pc = pc]
    BY <1>2 DEF NextTable
  <2>2. QED
    BY <1>2, <2>1 DEF Fields
<1>3. QED
  BY <1>1, <1>2

\* What goes on beside a migration: requests, start-ups, stops.
Beside ==
  /\ DOMAIN cmd' = Fields
  /\ \A x \in Fields \ {"instants", "kept", "touched"} : cmd'[x] = cmd[x]
  /\ cmd'.kept \subseteq cmd.kept /\ cmd.touched \subseteq cmd'.touched
  /\ \/ source'.rows = source.rows /\ cmd'.instants = cmd.instants
     \/ /\ cmd'.instants = IF cmd.name = "migrate" THEN cmd.instants \cup {Actual(source'.rows)}
                           ELSE cmd.instants
        /\ target' = target
  /\ target'.version = target.version /\ target'.made = target.made
  /\ \A r \in Rows : \/ target'.rows[r] = target.rows[r]
                     \/ /\ cmd.mine[r] = 0
                        /\ cmd.pc \in Copying \cup {"files"} => r \in cmd'.touched
  /\ UNCHANGED <<backups, report>>

LEMMA NotedFields ==
  ASSUME DOMAIN cmd = Fields, NEW rows
  PROVE  /\ DOMAIN Noted(rows) = Fields
         /\ \A x \in Fields \ {"instants"} : Noted(rows)[x] = cmd[x]
         /\ Noted(rows).instants = IF cmd.name = "migrate" THEN cmd.instants \cup {Actual(rows)}
                                   ELSE cmd.instants
<1>1. CASE cmd.name = "migrate"
  <2>1. Noted(rows) = [cmd EXCEPT !.instants = cmd.instants \cup {Actual(rows)}]
    BY <1>1 DEF Noted
  <2>2. QED
    BY <1>1, <2>1 DEF Fields
<1>2. CASE cmd.name # "migrate"
  BY <1>2 DEF Noted
<1>3. QED
  BY <1>1, <1>2

LEMMA TouchedFields ==
  ASSUME DOMAIN cmd = Fields, NEW new
  PROVE  /\ DOMAIN Touched(new) = Fields
         /\ \A x \in Fields \ {"touched"} : Touched(new)[x] = cmd[x]
         /\ cmd.touched \subseteq Touched(new).touched
         /\ cmd.pc \in Copying \cup {"files"} =>
              \A r \in Rows : new[r] # target.rows[r] => r \in Touched(new).touched
<1> DEFINE changed == {r \in Rows : new[r] # target.rows[r]}
<1>1. CASE cmd.pc \in Copying \cup {"files"}
  <2>1. Touched(new) = [cmd EXCEPT !.touched = cmd.touched \cup changed]
    BY <1>1 DEF Touched, Copying
  <2>2. /\ DOMAIN Touched(new) = Fields /\ Touched(new).touched = cmd.touched \cup changed
        /\ \A x \in Fields \ {"touched"} : Touched(new)[x] = cmd[x]
    <3> HIDE DEF changed
    <3>1. QED
      BY <2>1 DEF Fields
  <2>3. QED
    BY <2>2
<1>2. CASE cmd.pc \notin Copying \cup {"files"}
  BY <1>2 DEF Touched, Copying
<1>3. QED
  BY <1>1, <1>2

\* A request on the target writes any content, but no row the copy inserted.
LEMMA TargetWriteEffect ==
  ASSUME TargetInv, TargetWrite
  PROVE  \E new \in [Rows -> TargetContents] :
           /\ target' = [target EXCEPT !.rows = new] /\ cmd' = Touched(new)
           /\ \A r \in Rows : new[r] = target.rows[r] \/ cmd.mine[r] = 0
<1>1. PICK new \in TargetWrites :
        target' = [target EXCEPT !.rows = new] /\ cmd' = Touched(new)
  BY DEF TargetWrite
<1>2. /\ new \in [Rows -> 0..Changed]
      /\ \A r \in Rows : new[r] = target.rows[r] \/ (cmd.mine[r] = 0 /\ new[r] # Gone)
  BY DEF TargetWrites
<1>3. target.rows \in [Rows -> TargetContents]
  BY DEF TargetInv
<1>4. ASSUME NEW r \in Rows PROVE new[r] \in TargetContents
  BY <1>2, <1>3, ContentValues DEF TargetContents
<1>5. QED
  BY <1>1, <1>2, <1>4

LEMMA BesideSteps ==
  ASSUME SourceInv, TargetInv, DOMAIN cmd = Fields,
         \/ \E env \in Environments : StartDashboard(env)
         \/ EnsureColumns \/ SeedSource \/ StopDashboard \/ SourceWrite \/ TargetWrite
         \/ UNCHANGED vars
  PROVE  Beside
<1>1. /\ source \in [made : BOOLEAN, missing : 0..1, stamped : BOOLEAN, rows : [Rows -> 0..Gone]]
      /\ target \in [made : 0..TableCount, version : {"none", "empty", "head"},
                     rows : [Rows -> TargetContents]]
  BY DEF SourceInv, TargetInv
<1>2. ASSUME cmd' = cmd, target' = target, source'.rows = source.rows, UNCHANGED <<backups, report>>
      PROVE  Beside
  BY <1>2 DEF Beside
<1>3. ASSUME NEW env \in Environments, StartDashboard(env) PROVE Beside
  <2>1. /\ cmd' = cmd /\ target' = target /\ UNCHANGED <<backups, report>>
        /\ source' = source \/ source' = [source EXCEPT !.made = TRUE]
    BY <1>3 DEF StartDashboard
  <2>2. source'.rows = source.rows
    BY <1>1, <2>1
  <2>3. QED
    BY <1>2, <2>1, <2>2
<1>4. CASE EnsureColumns
  <2>1. /\ cmd' = cmd /\ target' = target /\ UNCHANGED <<backups, report>>
        /\ source' = [source EXCEPT !.missing = @ - 1]
    BY <1>4 DEF EnsureColumns
  <2>2. source'.rows = source.rows
    BY <1>1, <2>1
  <2>3. QED
    BY <1>2, <2>1, <2>2
<1>5. ASSUME NEW rows, source' = [source EXCEPT !.rows = rows], cmd' = Noted(rows),
             target' = target, UNCHANGED <<backups, report>>
      PROVE  Beside
  <2>1. source'.rows = rows
    BY <1>1, <1>5
  <2>2. /\ DOMAIN cmd' = Fields
        /\ \A x \in Fields \ {"instants"} : cmd'[x] = cmd[x]
        /\ cmd'.instants = IF cmd.name = "migrate" THEN cmd.instants \cup {Actual(source'.rows)}
                           ELSE cmd.instants
    BY <1>5, <2>1, NotedFields
  <2>3. cmd'.kept = cmd.kept /\ cmd'.touched = cmd.touched
    BY <2>2 DEF Fields
  <2>4. QED
    BY <1>5, <2>2, <2>3 DEF Beside
<1>6. CASE SeedSource
  <2> DEFINE seeded == Seeded(source.rows, SourceSeeds)
             movable == {r \in In("conferences", seeded) : seeded[r] < MaxVersion}
             moving(moved) == [r \in Rows |-> IF r \in moved THEN seeded[r] + 1 ELSE seeded[r]]
  <2>1. PICK moved \in SUBSET movable :
          source' = [source EXCEPT !.rows = moving(moved)] /\ cmd' = Noted(moving(moved))
    BY <1>6 DEF SeedSource
  <2>2. target' = target /\ UNCHANGED <<backups, report>>
    BY <1>6 DEF SeedSource
  <2> HIDE DEF moving
  <2>3. QED
    BY <1>5, <2>1, <2>2
<1>7. CASE SourceWrite
  <2>1. target' = target /\ UNCHANGED <<backups, report>>
    BY <1>7 DEF SourceWrite
  <2>2. CASE \E new \in Writes : source' = [source EXCEPT !.rows = new] /\ cmd' = Noted(new)
    BY <1>5, <2>1, <2>2
  <2>3. CASE source' = source /\ \E f \in Files : cmd' = [cmd EXCEPT !.kept = @ \ {f}]
    <3>1. PICK f \in Files : cmd' = [cmd EXCEPT !.kept = cmd.kept \ {f}]
      BY <2>3
    <3>2. /\ DOMAIN cmd' = Fields /\ \A x \in Fields \ {"kept"} : cmd'[x] = cmd[x]
          /\ cmd'.kept = cmd.kept \ {f}
      BY <3>1 DEF Fields
    <3>3. cmd'.instants = cmd.instants /\ cmd'.touched = cmd.touched
      BY <3>2 DEF Fields
    <3>4. QED
      BY <2>1, <2>3, <3>2, <3>3 DEF Beside
  <2>4. QED
    BY <1>7, <2>2, <2>3 DEF SourceWrite
<1>8. CASE TargetWrite
  <2>1. source' = source /\ UNCHANGED <<backups, report>>
    BY <1>8 DEF TargetWrite
  <2>2. PICK new \in [Rows -> TargetContents] :
          /\ target' = [target EXCEPT !.rows = new] /\ cmd' = Touched(new)
          /\ \A r \in Rows : new[r] = target.rows[r] \/ cmd.mine[r] = 0
    BY <1>8, TargetWriteEffect
  <2>3. /\ target'.version = target.version /\ target'.made = target.made
        /\ target'.rows = new
    BY <1>1, <2>2
  <2>4. /\ DOMAIN cmd' = Fields
        /\ \A x \in Fields \ {"touched"} : cmd'[x] = cmd[x]
        /\ cmd.touched \subseteq cmd'.touched
        /\ cmd.pc \in Copying \cup {"files"} =>
             \A r \in Rows : new[r] # target.rows[r] => r \in cmd'.touched
    BY <2>2, TouchedFields
  <2>5. cmd'.kept = cmd.kept /\ cmd'.instants = cmd.instants
    BY <2>4 DEF Fields
  <2>6. QED
    BY <2>1, <2>2, <2>3, <2>4, <2>5 DEF Beside
<1>9. CASE StopDashboard \/ UNCHANGED vars
  BY <1>2, <1>9 DEF StopDashboard, vars
<1>10. QED
  BY <1>3, <1>4, <1>6, <1>7, <1>8, <1>9

\* The rows that a table is copied with.
Inserted == [r \in Rows |-> IF cmd.resume /\ Exists(Snapshot, r) THEN 0
                            ELSE Reading(source.rows)[r]]

LEMMA CopyTableEffect ==
  ASSUME CopyTable
  PROVE  /\ cmd.pc = "copy" /\ UNCHANGED <<source, target, files, backups, app, budget>>
         /\ \/ Report("failed")
            \/ /\ report' = report
               /\ cmd.resume => ~Refuses(Order[cmd.i], Reading(source.rows))
               /\ \A r \in In(Order[cmd.i], Inserted) : ~Exists(target.rows, r)
               /\ cmd' = [NextTable("compare") EXCEPT
                            !.mine = Over(cmd.mine, Inserted),
                            !.begun = @ \/ cmd.resume,
                            !.snap = IF cmd.resume THEN Snapshot ELSE @]
BY DEF CopyTable, Inserted

LEMMA StepCommand ==
  ASSUME SourceInv, TargetInv, CommandInv, [Next]_vars
  PROVE  CommandInv'
<1> DEFINE Reports == {"none", "blocked", "ready", "failed", "completed", "traceback"}
<1>1. /\ DOMAIN cmd = Fields /\ cmd.i \in Nat /\ report \in Reports
      /\ DOMAIN Idle = Fields
  BY IdleFields DEF CommandInv
<1>2. ASSUME cmd' = Idle, report' \in Reports PROVE CommandInv'
  BY <1>1, <1>2, IdleFields DEF CommandInv
<1>3. ASSUME Beside PROVE CommandInv'
  <2>1. /\ DOMAIN cmd' = Fields /\ cmd'.name = cmd.name /\ cmd'.pc = cmd.pc /\ cmd'.i = cmd.i
        /\ target'.made = target.made /\ report' = report
    BY <1>3 DEF Beside, Fields
  <2>2. QED
    BY <1>1, <2>1 DEF CommandInv
<1>4. CASE \/ \E env \in Environments : StartDashboard(env)
           \/ EnsureColumns \/ SeedSource \/ StopDashboard \/ SourceWrite \/ TargetWrite
           \/ UNCHANGED vars
  BY <1>1, <1>3, <1>4, BesideSteps
<1>5. CASE StartUpgrade
  <2>1. /\ cmd' = [Idle EXCEPT !.name = "upgrade", !.pc = "upgrade"]
        /\ target' = target /\ report' = "none"
    BY <1>5 DEF StartUpgrade, Begin
  <2>2. /\ DOMAIN cmd' = Fields /\ cmd'.name = "upgrade" /\ cmd'.pc = "upgrade" /\ cmd'.i = 0
    BY <1>1, <2>1, IdleFields DEF Fields
  <2>3. target'.made \in Nat
    BY <2>1, CountPlaces DEF TargetInv
  <2>4. QED
    BY <1>1, <2>1, <2>2, <2>3 DEF CommandInv
<1>6. ASSUME cmd.pc = "upgrade", UpgradeStep PROVE CommandInv'
  <2>1. cmd.name \in {"upgrade", "migrate"} /\ cmd.i <= target.made /\ report' = report
    BY <1>6 DEF CommandInv, UpgradeStep
  <2>2. target.made \in 0..TableCount /\ TableCount \in Nat
    BY CountPlaces DEF TargetInv
  <2>3. CASE UpgradeEnds
    <3>1. CASE cmd.name = "upgrade"
      BY <1>1, <1>2, <2>1, <2>3, <3>1 DEF UpgradeEnds, End
    <3>2. CASE cmd.name = "migrate"
      <4>1. cmd' = [cmd EXCEPT !.pc = "copy", !.i = 1]
        BY <2>3, <3>2 DEF UpgradeEnds
      <4>2. DOMAIN cmd' = Fields /\ cmd'.name = "migrate" /\ cmd'.pc = "copy" /\ cmd'.i = 1
        BY <1>1, <3>2, <4>1 DEF Fields
      <4>3. QED
        BY <1>1, <2>1, <4>2 DEF CommandInv, Migrating, Copying
    <3>3. QED
      BY <2>1, <3>1, <3>2
  <2>4. CASE End
    BY <1>1, <1>2, <2>1, <2>4 DEF End
  <2>5. CASE target' = [target EXCEPT !.version = "empty"] /\ UNCHANGED cmd
    <3>1. target'.made = target.made
      BY <2>5 DEF TargetInv
    <3>2. QED
      BY <1>1, <2>1, <2>5, <3>1 DEF CommandInv
  <2>6. CASE target' = [target EXCEPT !.made = @ + 1] /\ cmd' = [cmd EXCEPT !.i = @ + 1]
    <3>1. target'.made = target.made + 1
      BY <2>6 DEF TargetInv
    <3>2. DOMAIN cmd' = Fields /\ cmd'.name = cmd.name /\ cmd'.pc = cmd.pc /\ cmd'.i = cmd.i + 1
      BY <1>1, <2>6 DEF Fields
    <3>3. QED
      BY <1>1, <1>6, <2>1, <2>2, <3>1, <3>2 DEF CommandInv
  <2>7. QED
    BY <1>6, <2>3, <2>4, <2>5, <2>6 DEF UpgradeStep
<1>7. ASSUME NEW p \in Backups, StartAdoption(p) PROVE CommandInv'
  <2>1. cmd' = [Idle EXCEPT !.name = "adopt", !.pc = "backup", !.file = {p}] /\ report' = "none"
    BY <1>7 DEF StartAdoption, Begin
  <2>2. DOMAIN cmd' = Fields /\ cmd'.name = "adopt" /\ cmd'.pc = "backup" /\ cmd'.i = 0
    BY <1>1, <2>1, IdleFields DEF Fields
  <2>3. QED
    BY <1>1, <2>1, <2>2 DEF CommandInv
<1>8. CASE FinishBackup
  <2>1. CASE cmd' = [cmd EXCEPT !.pc = "stamp"]
    <3>1. DOMAIN cmd' = Fields /\ cmd'.name = cmd.name /\ cmd'.pc = "stamp" /\ cmd'.i = cmd.i
      BY <1>1, <2>1 DEF Fields
    <3>2. cmd.name = "adopt" /\ report' = report
      BY <1>8 DEF FinishBackup, CommandInv, Migrating, Copying
    <3>3. QED
      BY <1>1, <3>1, <3>2 DEF CommandInv
  <2>2. CASE End
    BY <1>1, <1>2, <1>8, <2>2 DEF End, FinishBackup
  <2>3. QED
    BY <1>8, <2>1, <2>2 DEF FinishBackup
<1>9. ASSUME NEW opt \in Options, StartMigration(opt) PROVE CommandInv'
  <2>1. /\ report' = "none"
        /\ cmd' = [Idle EXCEPT !.name = "migrate", !.pc = "measure", !.i = 1,
                     !.apply = opt.apply, !.resume = opt.resume, !.trees = opt.trees,
                     !.instants = {Actual(source.rows)}]
    BY <1>9 DEF StartMigration, Begin
  <2>2. DOMAIN cmd' = Fields /\ cmd'.name = "migrate" /\ cmd'.pc = "measure" /\ cmd'.i = 1
    BY <1>1, <2>1, IdleFields DEF Fields
  <2>3. QED
    BY <1>1, <2>1, <2>2 DEF CommandInv, Migrating
<1>10. ASSUME cmd.name = "migrate", DOMAIN cmd' = Fields, cmd'.name = cmd.name,
              cmd'.pc \in Migrating \ {"upgrade"}, cmd'.i \in Nat, report' \in Reports
       PROVE  CommandInv'
  BY <1>10, <1>1 DEF CommandInv
<1>11. ASSUME NEW first, NEW pc, cmd.name = "migrate", cmd.pc \in Migrating \ {"upgrade"},
              pc \in Migrating \ {"upgrade"}, report' = report,
              DOMAIN cmd' = DOMAIN NextTable(pc), cmd'.name = NextTable(pc).name,
              cmd'.pc = NextTable(pc).pc, cmd'.i = NextTable(pc).i
       PROVE  CommandInv'
  <2>1. /\ DOMAIN cmd' = Fields /\ cmd'.name = cmd.name
        /\ cmd'.pc \in {cmd.pc, pc} /\ cmd'.i \in {cmd.i + 1, 1}
    BY <1>1, <1>11, NextTableFields DEF Fields
  <2>2. QED
    BY <1>1, <1>10, <1>11, <2>1
<1>12. CASE MeasureSource
  <2>1. cmd' = [NextTable("plan") EXCEPT !.first = Over(@, Reading(source.rows))] /\ report' = report
    BY <1>12 DEF MeasureSource
  <2>2. /\ DOMAIN cmd' = DOMAIN NextTable("plan") /\ cmd'.name = NextTable("plan").name
        /\ cmd'.pc = NextTable("plan").pc /\ cmd'.i = NextTable("plan").i
    BY <1>1, <2>1, NextTableFields DEF Fields
  <2>3. cmd.name = "migrate" /\ cmd.pc = "measure"
    BY <1>12 DEF MeasureSource, CommandInv
  <2>4. QED
    BY <1>11, <2>1, <2>2, <2>3 DEF Migrating, Copying
<1>13. CASE PlanFiles
  <2>1. /\ \E refused : cmd' = [cmd EXCEPT !.pc = "inspect", !.refused = refused]
        /\ report' = report /\ cmd.name = "migrate"
    BY <1>13 DEF PlanFiles, CommandInv
  <2>2. DOMAIN cmd' = Fields /\ cmd'.name = cmd.name /\ cmd'.pc = "inspect" /\ cmd'.i = cmd.i
    BY <1>1, <2>1 DEF Fields
  <2>3. QED
    BY <1>1, <1>10, <2>1, <2>2 DEF Migrating, Copying
<1>14. CASE InspectTarget
  <2>1. cmd.name = "migrate"
    BY <1>14 DEF InspectTarget, CommandInv
  <2>2. CASE Report("blocked") \/ Report("ready")
    BY <1>2, <2>2 DEF Report, End
  <2>3. CASE cmd' = [cmd EXCEPT !.pc = "upgrade", !.i = 0] /\ target' = target /\ UNCHANGED report
    <3>1. DOMAIN cmd' = Fields /\ cmd'.name = cmd.name /\ cmd'.pc = "upgrade" /\ cmd'.i = 0
      BY <1>1, <2>3 DEF Fields
    <3>2. target'.made \in Nat
      BY <2>3, CountPlaces DEF TargetInv
    <3>3. QED
      BY <1>1, <2>1, <2>3, <3>1, <3>2 DEF CommandInv, Migrating
  <2>4. CASE cmd' = [cmd EXCEPT !.pc = "copy", !.i = 1] /\ UNCHANGED report
    <3>1. DOMAIN cmd' = Fields /\ cmd'.name = cmd.name /\ cmd'.pc = "copy" /\ cmd'.i = 1
      BY <1>1, <2>4 DEF Fields
    <3>2. QED
      BY <1>1, <1>10, <2>1, <2>4, <3>1 DEF Migrating, Copying
  <2>5. QED
    BY <1>14, <2>2, <2>3, <2>4 DEF InspectTarget
<1>15. CASE CopyTable
  <2>1. CASE Report("failed")
    BY <1>2, <2>1 DEF Report, End
  <2>2. CASE /\ report' = report
             /\ cmd' = [NextTable("compare") EXCEPT
                          !.mine = Over(cmd.mine, Inserted),
                          !.begun = @ \/ cmd.resume,
                          !.snap = IF cmd.resume THEN Snapshot ELSE @]
    <3>1. /\ DOMAIN cmd' = DOMAIN NextTable("compare") /\ cmd'.name = NextTable("compare").name
          /\ cmd'.pc = NextTable("compare").pc /\ cmd'.i = NextTable("compare").i
      BY <1>1, <2>2, NextTableFields DEF Fields
    <3>2. cmd.name = "migrate" /\ cmd.pc = "copy"
      BY <1>15 DEF CopyTable, CommandInv
    <3>3. QED
      BY <1>11, <2>2, <3>1, <3>2 DEF Migrating, Copying
  <2>3. QED
    BY <1>15, <2>1, <2>2, CopyTableEffect
<1>16. CASE CompareTable
  <2>1. cmd' = [NextTable("check") EXCEPT !.again = Over(@, Reading(source.rows))] /\ report' = report
    BY <1>16 DEF CompareTable
  <2>2. /\ DOMAIN cmd' = DOMAIN NextTable("check") /\ cmd'.name = NextTable("check").name
        /\ cmd'.pc = NextTable("check").pc /\ cmd'.i = NextTable("check").i
    BY <1>1, <2>1, NextTableFields DEF Fields
  <2>3. cmd.name = "migrate" /\ cmd.pc = "compare"
    BY <1>16 DEF CompareTable, CommandInv
  <2>4. QED
    BY <1>11, <2>1, <2>2, <2>3 DEF Migrating, Copying
<1>17. CASE CompareTarget
  <2>1. CASE Report("failed")
    BY <1>2, <2>1 DEF Report, End
  <2>2. CASE cmd' = [cmd EXCEPT !.pc = "commit", !.begun = TRUE, !.snap = Snapshot] /\ report' = report
    <3>1. DOMAIN cmd' = Fields /\ cmd'.name = cmd.name /\ cmd'.pc = "commit" /\ cmd'.i = cmd.i
      BY <1>1, <2>2 DEF Fields
    <3>2. cmd.name = "migrate"
      BY <1>17 DEF CompareTarget, CommandInv
    <3>3. QED
      BY <1>1, <1>10, <2>2, <3>1, <3>2 DEF Migrating, Copying
  <2>3. QED
    BY <1>17, <2>1, <2>2 DEF CompareTarget
<1>18. CASE CommitRows
  <2>1. /\ \E listed : cmd' = [cmd EXCEPT !.pc = "files", !.todo = listed, !.kept = listed,
                                          !.begun = FALSE, !.snap = NoRows, !.mine = NoRows,
                                          !.again = NoRows]
        /\ report' = report /\ cmd.name = "migrate"
    BY <1>18 DEF CommitRows, CommandInv
  <2>2. DOMAIN cmd' = Fields /\ cmd'.name = cmd.name /\ cmd'.pc = "files" /\ cmd'.i = cmd.i
    BY <1>1, <2>1 DEF Fields
  <2>3. QED
    BY <1>1, <1>10, <2>1, <2>2 DEF Migrating
<1>19. ASSUME NEW f \in Files, CopyFile(f) \/ FinishFile(f) PROVE CommandInv'
  <2>1. cmd.name = "migrate" /\ cmd.pc = "files"
    BY <1>19 DEF CopyFile, FinishFile, CommandInv
  <2>2. CASE Report("failed") \/ Report("traceback")
    BY <1>2, <2>2 DEF Report, End
  <2>3. CASE /\ report' = report
             /\ \E todo, file : cmd' \in {[cmd EXCEPT !.todo = todo], [cmd EXCEPT !.file = file],
                                          [cmd EXCEPT !.file = file, !.todo = todo]}
    <3>1. DOMAIN cmd' = Fields /\ cmd'.name = cmd.name /\ cmd'.pc = cmd.pc /\ cmd'.i = cmd.i
      BY <1>1, <2>3 DEF Fields
    <3>2. QED
      BY <1>1, <1>10, <2>1, <2>3, <3>1 DEF Migrating
  <2>4. QED
    BY <1>19, <2>2, <2>3 DEF CopyFile, FinishFile
<1>20. CASE Reconcile
  BY <1>2, <1>20 DEF Reconcile, Report, End
<1>21. CASE Stamp \/ SeedTarget
  <2>1. CASE Stamp
    BY <1>1, <1>2, <2>1 DEF Stamp, End
  <2>2. CASE SeedTarget
    <3>1. cmd' = cmd /\ report' = report /\ cmd.name = "none"
      BY <2>2 DEF SeedTarget
    <3>2. QED
      BY <1>1, <3>1 DEF CommandInv
  <2>3. QED
    BY <1>21, <2>1, <2>2
<1>22. CASE Crash
  <2>1. CASE cmd' = Idle /\ report' \in {report, "traceback"}
    BY <1>1, <1>2, <2>1
  <2>2. CASE UNCHANGED <<cmd, report, target>>
    BY <1>1, <2>2 DEF CommandInv
  <2>3. QED
    BY <1>22, <2>1, <2>2 DEF Crash, End
<1>23. UpgradeStep => cmd.pc = "upgrade"
  BY DEF UpgradeStep
<1>24. QED
  BY <1>4, <1>5, <1>6, <1>7, <1>8, <1>9, <1>12, <1>13, <1>14, <1>15, <1>16, <1>17, <1>18, <1>19,
     <1>20, <1>21, <1>22, <1>23 DEF Next, Migrate

-----------------------------------------------------------------------------
(* The schema, what is served, backups                                     *)

LEMMA StepTarget ==
  ASSUME SourceInv, TargetInv, ServeInv, CommandInv, TransactionInv, [Next]_vars
  PROVE  /\ TargetInv'
         /\ target.version = "head" => target'.version = "head"
<1> DEFINE T == [made : 0..TableCount, version : {"none", "empty", "head"},
                 rows : [Rows -> TargetContents]]
<1>1. /\ target \in T /\ TableCount \in Nat
      /\ target.version = "head" => target.made = TableCount
      /\ target.version # "head" => target.rows = NoRows
  BY CountPlaces DEF TargetInv
<1>2. ASSUME target' = target PROVE TargetInv' /\ (target.version = "head" => target'.version = "head")
  BY <1>2 DEF TargetInv
<1>3. ASSUME target.version = "head", NEW rows \in [Rows -> TargetContents],
             target' = [target EXCEPT !.rows = rows]
      PROVE  TargetInv' /\ (target.version = "head" => target'.version = "head")
  <2>1. target' \in T /\ target'.version = "head" /\ target'.made = TableCount
    BY <1>1, <1>3
  <2>2. QED
    BY <2>1 DEF TargetInv
<1>4. CASE TargetWrite
  <2>1. target.version = "head"
    BY <1>4 DEF TargetWrite, ServeInv
  <2>2. \E new \in [Rows -> TargetContents] : target' = [target EXCEPT !.rows = new]
    BY <1>4, TargetWriteEffect
  <2>3. QED
    BY <1>3, <2>1, <2>2
<1>5. CASE SeedTarget
  <2>1. target.version = "head" /\ target' = [target EXCEPT !.rows = Seeded(@, TargetSeeds)]
    BY <1>5 DEF SeedTarget, TargetReady
  <2>2. 1 \in TargetContents /\ target.rows \in [Rows -> TargetContents] /\ TargetSeeds \in SUBSET Rows
    BY <1>1, BoundsAssumption, SeedsAssumption DEF TargetContents
  <2>3. Seeded(target.rows, TargetSeeds) \in [Rows -> TargetContents]
    BY <2>2, SeededProperties
  <2>4. QED
    BY <1>3, <2>1, <2>3
<1>6. CASE CommitRows
  <2>1. /\ cmd.name = "migrate" /\ cmd.pc = "commit"
        /\ target' = [target EXCEPT !.rows = Over(@, cmd.mine)]
    BY <1>6 DEF CommitRows, CommandInv
  <2>2. cmd.mine \in [Rows -> 0..MaxVersion] /\ target.version = "head"
    BY <2>1 DEF TransactionInv, Copying
  <2>3. cmd.mine \in [Rows -> TargetContents] /\ target.rows \in [Rows -> TargetContents]
    BY <1>1, <2>2 DEF TargetContents
  <2>4. Over(target.rows, cmd.mine) \in [Rows -> TargetContents]
    BY <2>3, OverProperties
  <2>5. QED
    BY <1>3, <2>1, <2>2, <2>4
<1>7. CASE UpgradeStep
  <2>1. cmd.pc = "upgrade" /\ cmd.i \in Nat /\ cmd.i <= target.made
    BY <1>7 DEF UpgradeStep, CommandInv
  <2>2. CASE target.version = "none" /\ target' = [target EXCEPT !.version = "empty"]
    <3>1. target' \in T /\ target'.version = "empty" /\ target'.rows = target.rows
      BY <1>1, <2>2
    <3>2. QED
      BY <1>1, <2>2, <3>1 DEF TargetInv, NoRows
  <2>3. CASE /\ target.version = "empty" /\ target.made < TableCount
             /\ target' = [target EXCEPT !.made = @ + 1]
    <3>1. target' \in T /\ target'.version = "empty" /\ target'.rows = target.rows
      BY <1>1, <2>3
    <3>2. QED
      BY <1>1, <2>3, <3>1 DEF TargetInv, NoRows
  <2>4. CASE cmd.i = TableCount /\ target' = [target EXCEPT !.version = "head"]
    <3>1. target' \in T /\ target'.version = "head" /\ target'.made = TableCount
      BY <1>1, <2>1, <2>4
    <3>2. QED
      BY <3>1 DEF TargetInv
  <2>5. QED
    BY <1>2, <1>7, <2>2, <2>3, <2>4 DEF UpgradeStep
<1>8. CASE Migrate
  <2>1. CASE CommitRows \/ UpgradeStep
    BY <1>6, <1>7, <2>1
  <2>2. CASE ~(CommitRows \/ UpgradeStep)
    <3>1. target' = target
      BY <1>8, <2>2 DEF Migrate, MeasureSource, PlanFiles, InspectTarget, CopyTable, CompareTable,
         CompareTarget, CopyFile, FinishFile, Reconcile
    <3>2. QED
      BY <1>2, <3>1
  <2>3. QED
    BY <2>1, <2>2
<1>9. CASE \/ \E env \in Environments : StartDashboard(env)
           \/ EnsureColumns \/ SeedSource \/ StopDashboard \/ SourceWrite \/ StartUpgrade
           \/ FinishBackup \/ Stamp \/ Crash \/ UNCHANGED vars
           \/ \E p \in Backups : StartAdoption(p)
           \/ \E opt \in Options : StartMigration(opt)
  <2>1. target' = target
    BY <1>9 DEF StartDashboard, EnsureColumns, SeedSource, StopDashboard, SourceWrite,
       StartUpgrade, FinishBackup, Stamp, Crash, vars, StartAdoption, StartMigration
  <2>2. QED
    BY <1>2, <2>1
<1>10. QED
  BY <1>4, <1>5, <1>7, <1>8, <1>9 DEF Next

LEMMA StepServe ==
  ASSUME SourceInv, TargetInv, ServeInv, CommandInv, BackupInv, TransactionInv, [Next]_vars
  PROVE  ServeInv'
<1> DEFINE A == [source : {"down", "local", "test"}, target : {"down"} \cup Supported,
                 boot : {"none", "local", "test"}]
<1>1. /\ app \in A
      /\ source.stamped => source.made /\ source.missing = 0
      /\ app.boot # "none" => source.made
      /\ app.source # "down" => source.made /\ source.missing = 0
      /\ app.target # "down" => target.version = "head"
  BY DEF ServeInv
<1>2. /\ source \in [made : BOOLEAN, missing : 0..1, stamped : BOOLEAN, rows : [Rows -> 0..Gone]]
      /\ target.version = "head" => target'.version = "head"
  BY StepTarget DEF SourceInv
<1>3. ASSUME source'.made = source.made, source'.missing = source.missing,
             source'.stamped = source.stamped, app' = app
      PROVE  ServeInv'
  BY <1>1, <1>2, <1>3 DEF ServeInv
<1>4. ASSUME NEW env \in Environments, StartDashboard(env) PROVE ServeInv'
  <2>1. env.APP_ENV \in Supported
    BY <1>4 DEF StartDashboard, FromEnv
  <2>2. CASE UsesMariaDB(env)
    <3>1. /\ target.version = "head" /\ source' = source
          /\ app' = [app EXCEPT !.target = env.APP_ENV]
      BY <1>4, <2>2 DEF StartDashboard, TargetReady
    <3>2. /\ app' \in A /\ app'.source = app.source /\ app'.boot = app.boot
          /\ app'.target = env.APP_ENV
      BY <1>1, <2>1, <3>1
    <3>3. QED
      BY <1>1, <1>2, <3>1, <3>2 DEF ServeInv
  <2>3. CASE ~UsesMariaDB(env)
    <3>1. env.APP_ENV \in {"local", "test"}
      BY <1>4, <2>1, <2>3 DEF StartDashboard, EngineOk, Deployed, Supported
    <3>2. /\ app' = IF source.stamped THEN [app EXCEPT !.source = env.APP_ENV]
                    ELSE [app EXCEPT !.boot = env.APP_ENV]
          /\ source' = [source EXCEPT !.made = TRUE]
      BY <1>4, <2>3 DEF StartDashboard, SourceReady
    <3>3. /\ source'.made = TRUE /\ source'.missing = source.missing
          /\ source'.stamped = source.stamped
      BY <1>2, <3>2
    <3>4. CASE source.stamped
      <4>1. /\ app' \in A /\ app'.target = app.target /\ app'.boot = app.boot
        BY <1>1, <3>1, <3>2, <3>4
      <4>2. QED
        BY <1>1, <1>2, <3>3, <3>4, <4>1 DEF ServeInv
    <3>5. CASE ~source.stamped
      <4>1. /\ app' \in A /\ app'.target = app.target /\ app'.source = app.source
        BY <1>1, <3>1, <3>2, <3>5
      <4>2. QED
        BY <1>1, <1>2, <3>3, <3>5, <4>1 DEF ServeInv
    <3>6. QED
      BY <3>4, <3>5
  <2>4. QED
    BY <2>2, <2>3
<1>5. CASE EnsureColumns
  <2>1. source' = [source EXCEPT !.missing = @ - 1] /\ source.missing > 0 /\ app' = app
    BY <1>5 DEF EnsureColumns
  <2>2. /\ source'.made = source.made /\ source'.stamped = source.stamped
        /\ source.missing # 0
    BY <1>2, <2>1
  <2>3. QED
    BY <1>1, <1>2, <2>1, <2>2 DEF ServeInv
<1>6. CASE SeedSource
  <2>1. /\ app.boot # "none" /\ source.missing = 0
        /\ \E rows : source' = [source EXCEPT !.rows = rows]
        /\ app' = [app EXCEPT !.boot = "none", !.source = app.boot]
    BY <1>6 DEF SeedSource
  <2>2. /\ source'.made = source.made /\ source'.missing = source.missing
        /\ source'.stamped = source.stamped
    BY <1>2, <2>1
  <2>3. app' \in A /\ app'.target = app.target /\ app'.boot = "none"
    BY <1>1, <2>1
  <2>4. QED
    BY <1>1, <1>2, <2>1, <2>2, <2>3 DEF ServeInv
<1>7. CASE StopDashboard
  <2>1. source' = source /\ app' \in {[app EXCEPT !.source = "down"], [app EXCEPT !.target = "down"]}
    BY <1>7 DEF StopDashboard
  <2>2. /\ app' \in A /\ app'.boot = app.boot /\ app'.source \in {app.source, "down"}
        /\ app'.target \in {app.target, "down"}
    BY <1>1, <2>1
  <2>3. QED
    BY <1>1, <1>2, <2>1, <2>2 DEF ServeInv
<1>8. CASE SourceWrite
  <2>1. app' = app /\ (source' = source \/ \E rows : source' = [source EXCEPT !.rows = rows])
    BY <1>8 DEF SourceWrite
  <2>2. /\ source'.made = source.made /\ source'.missing = source.missing
        /\ source'.stamped = source.stamped
    BY <1>2, <2>1
  <2>3. QED
    BY <1>3, <2>1, <2>2
<1>9. CASE Stamp
  <2>1. source' = [source EXCEPT !.stamped = TRUE] /\ app' = app /\ cmd.pc = "stamp"
    BY <1>9 DEF Stamp
  <2>2. source.made /\ source.missing = 0
    BY <2>1 DEF BackupInv
  <2>3. source'.made = source.made /\ source'.missing = source.missing
    BY <1>2, <2>1
  <2>4. QED
    BY <1>1, <1>2, <2>1, <2>2, <2>3 DEF ServeInv
<1>10. CASE Crash
  <2>1. source' = source /\ app' \in {app, [app EXCEPT !.boot = "none"]}
    BY <1>10 DEF Crash
  <2>2. /\ app' \in A /\ app'.source = app.source /\ app'.target = app.target
        /\ app'.boot \in {app.boot, "none"}
    BY <1>1, <2>1
  <2>3. QED
    BY <1>1, <1>2, <2>1, <2>2 DEF ServeInv
<1>11. CASE Migrate
  <2>1. source' = source /\ app' = app
    BY <1>11 DEF Migrate, MeasureSource, PlanFiles, InspectTarget, CopyTable, CompareTable,
       CompareTarget, CommitRows, CopyFile, FinishFile, Reconcile, UpgradeStep
  <2>2. QED
    BY <1>3, <2>1
<1>12. CASE \/ TargetWrite \/ StartUpgrade \/ UpgradeStep \/ SeedTarget
            \/ FinishBackup \/ UNCHANGED vars
            \/ \E p \in Backups : StartAdoption(p)
            \/ \E opt \in Options : StartMigration(opt)
  <2>1. source' = source /\ app' = app
    BY <1>12 DEF TargetWrite, StartUpgrade, UpgradeStep, SeedTarget, FinishBackup,
       vars, StartAdoption, StartMigration
  <2>2. QED
    BY <1>3, <2>1
<1>13. QED
  BY <1>4, <1>5, <1>6, <1>7, <1>8, <1>9, <1>10, <1>11, <1>12 DEF Next

LEMMA StepBackup ==
  ASSUME SourceInv, TargetInv, ServeInv, CommandInv, BackupInv, [Next]_vars
  PROVE  BackupInv'
<1>1. /\ backups \in [Backups -> {"none", "partial", "whole"}]
      /\ source \in [made : BOOLEAN, missing : 0..1, stamped : BOOLEAN, rows : [Rows -> 0..Gone]]
      /\ source' \in [made : BOOLEAN, missing : 0..1, stamped : BOOLEAN, rows : [Rows -> 0..Gone]]
      /\ DOMAIN cmd = Fields /\ DOMAIN Idle = Fields /\ CommandInv'
  BY StepSource, StepCommand, IdleFields DEF SourceInv, BackupInv, CommandInv
\* Columns and tables only come.
<1>2. source.made /\ source.missing = 0 => source'.made /\ source'.missing = 0
  <2>1. \/ source'.made = source.made /\ source'.missing = source.missing
        \/ source' = [source EXCEPT !.made = TRUE]
        \/ source.missing > 0
    <3>1. \/ source' = source
          \/ \E rows : source' = [source EXCEPT !.rows = rows]
          \/ source' = [source EXCEPT !.stamped = TRUE]
          \/ source' = [source EXCEPT !.made = TRUE]
          \/ source.missing > 0
      BY DEF Next, vars, Migrate, MeasureSource, PlanFiles, InspectTarget, CopyTable, CompareTable,
         CompareTarget, CommitRows, CopyFile, FinishFile, Reconcile, UpgradeStep, StopDashboard,
         TargetWrite, StartUpgrade, SeedTarget, FinishBackup, Crash, StartAdoption, StartMigration,
         Stamp, SourceWrite, SeedSource, EnsureColumns, StartDashboard
    <3>2. QED
      BY <1>1, <3>1
  <2>2. CASE source' = [source EXCEPT !.made = TRUE]
    <3>1. source'.made = TRUE /\ source'.missing = source.missing
      BY <1>1, <2>2
    <3>2. QED
      BY <3>1
  <2>3. source.missing = 0 => ~(source.missing > 0)
    OBVIOUS
  <2>4. QED
    BY <2>1, <2>2, <2>3
<1>3. ASSUME backups' = backups, source'.stamped = source.stamped,
             cmd'.pc \in {"backup", "stamp"} => cmd'.pc = cmd.pc /\ cmd'.file = cmd.file
      PROVE  BackupInv'
  BY <1>2, <1>3 DEF BackupInv
<1>4. CASE \/ \E env \in Environments : StartDashboard(env)
           \/ EnsureColumns \/ SeedSource \/ StopDashboard \/ SourceWrite \/ TargetWrite
           \/ UNCHANGED vars
  <2>1. backups' = backups /\ cmd'.pc = cmd.pc /\ cmd'.file = cmd.file
    BY <1>1, <1>4, BesideSteps DEF Beside, Fields
  <2>2. \/ source' = source
        \/ \E rows : source' = [source EXCEPT !.rows = rows]
        \/ source' = [source EXCEPT !.made = TRUE]
        \/ source' = [source EXCEPT !.missing = @ - 1]
    BY <1>4 DEF StopDashboard, TargetWrite, vars, SourceWrite, SeedSource, EnsureColumns,
       StartDashboard
  <2>3. source'.stamped = source.stamped
    BY <1>1, <2>2
  <2>4. QED
    BY <1>3, <2>1, <2>3
<1>5. CASE Stamp
  <2>1. /\ source' = [source EXCEPT !.stamped = TRUE] /\ backups' = backups
        /\ cmd' = Idle /\ cmd.pc = "stamp"
    BY <1>5 DEF Stamp, End
  <2>2. cmd'.pc = "idle"
    BY <2>1, IdleFields
  <2>3. QED
    BY <2>1, <2>2 DEF BackupInv
<1>6. ASSUME NEW p \in Backups, StartAdoption(p) PROVE BackupInv'
  <2>1. /\ source' = source /\ source.made /\ source.missing = 0 /\ ~source.stamped
        /\ backups' = [backups EXCEPT ![p] = "partial"]
        /\ cmd' = [Idle EXCEPT !.name = "adopt", !.pc = "backup", !.file = {p}]
    BY <1>6 DEF StartAdoption, Begin
  <2>2. cmd'.pc = "backup" /\ cmd'.file = {p}
    BY <1>1, <2>1 DEF Fields
  <2>3. QED
    BY <1>1, <2>1, <2>2 DEF BackupInv
<1>7. CASE FinishBackup
  <2>1. source' = source /\ cmd.pc = "backup"
    BY <1>7 DEF FinishBackup
  <2>2. CASE cmd' = Idle /\ backups' = backups
    BY <1>3, <2>1, <2>2, IdleFields
  <2>3. CASE /\ backups' = [p \in Backups |-> IF p \in cmd.file THEN "whole" ELSE backups[p]]
             /\ cmd' = [cmd EXCEPT !.pc = "stamp"]
    <3>1. PICK p \in Backups : cmd.file = {p}
      BY <2>1 DEF BackupInv
    <3>2. cmd'.pc = "stamp" /\ backups'[p] = "whole" /\ source'.made /\ source'.missing = 0
      BY <1>1, <2>1, <2>3, <3>1 DEF BackupInv, Fields
    <3>3. backups' \in [Backups -> {"none", "partial", "whole"}]
      BY <1>1, <2>3
    <3>4. QED
      BY <3>2, <3>3 DEF BackupInv
  <2>4. QED
    BY <1>7, <2>2, <2>3 DEF FinishBackup, End
<1>8. CASE \/ StartUpgrade \/ SeedTarget \/ Crash \/ Migrate
           \/ (cmd.name = "upgrade" /\ UpgradeStep)
           \/ \E opt \in Options : StartMigration(opt)
  <2>1. backups' = backups /\ source' = source
    BY <1>8 DEF StartUpgrade, SeedTarget, Crash, Migrate, MeasureSource, PlanFiles, InspectTarget,
       CopyTable, CompareTable, CompareTarget, CommitRows, CopyFile, FinishFile, Reconcile,
       UpgradeStep, StartMigration
  <2>2. CASE StartUpgrade \/ \E opt \in Options : StartMigration(opt)
    <3>1. cmd'.pc \in {"upgrade", "measure"}
      <4>1. CASE StartUpgrade
        BY <1>1, <4>1 DEF StartUpgrade, Begin, Fields
      <4>2. ASSUME NEW opt \in Options, StartMigration(opt) PROVE cmd'.pc \in {"upgrade", "measure"}
        BY <1>1, <4>2 DEF StartMigration, Begin, Fields
      <4>3. QED
        BY <2>2, <4>1, <4>2
    <3>2. QED
      BY <1>3, <2>1, <3>1
  <2>3. CASE SeedTarget
    BY <1>3, <2>1, <2>3 DEF SeedTarget
  <2>4. CASE Crash
    <3>1. cmd' \in {cmd, Idle}
      BY <2>4 DEF Crash, End
    <3>2. QED
      BY <1>3, <2>1, <3>1, IdleFields
  <2>5. CASE Migrate \/ (cmd.name = "upgrade" /\ UpgradeStep)
    <3>1. cmd.pc \notin {"backup", "stamp"} /\ cmd.name \in {"upgrade", "migrate"}
      BY <2>5 DEF CommandInv, Migrate, MeasureSource, PlanFiles, InspectTarget, CopyTable,
         CompareTable, CompareTarget, CommitRows, CopyFile, FinishFile, Reconcile, UpgradeStep,
         Migrating, Copying
    <3>2. cmd' = Idle \/ cmd'.name = cmd.name
      <4>1. /\ \A pc : NextTable(pc).name = cmd.name
            /\ \A pc : DOMAIN NextTable(pc) = Fields
        BY <1>1, NextTableFields DEF Fields
      <4>2. CASE cmd.name = "upgrade" /\ UpgradeStep
        BY <1>1, <4>2 DEF UpgradeStep, UpgradeEnds, End, Fields
      <4>3. CASE cmd.name = "migrate" /\ UpgradeStep
        BY <1>1, <4>3 DEF UpgradeStep, UpgradeEnds, End, Fields
      <4>4. CASE CopyTable
        <5>1. \/ cmd' = Idle
              \/ \E mine, begun, snap : cmd' = [NextTable("compare") EXCEPT
                                               !.mine = mine, !.begun = begun, !.snap = snap]
          <6>1. CASE cmd' = [NextTable("compare") EXCEPT
                               !.mine = Over(cmd.mine, Inserted),
                               !.begun = @ \/ cmd.resume,
                               !.snap = IF cmd.resume THEN Snapshot ELSE @]
            BY <6>1
          <6>2. QED
            BY <4>4, <6>1, CopyTableEffect DEF Report, End
        <5>2. QED
          BY <4>1, <5>1 DEF Fields
      <4>5. CASE MeasureSource \/ CompareTable
        BY <1>1, <4>1, <4>5 DEF MeasureSource, CompareTable, Fields
      <4>6. CASE PlanFiles \/ InspectTarget
        BY <1>1, <4>6 DEF PlanFiles, InspectTarget, Report, End, Fields
      <4>7. CASE CompareTarget \/ CommitRows \/ Reconcile
        BY <1>1, <4>7 DEF CompareTarget, CommitRows, Reconcile, Report, End, Fields
      <4>8. CASE \E f \in Files : CopyFile(f) \/ FinishFile(f)
        BY <1>1, <4>8 DEF CopyFile, FinishFile, Report, End, Fields
      <4>9. QED
        BY <2>5, <4>2, <4>3, <4>4, <4>5, <4>6, <4>7, <4>8 DEF Migrate
    <3>3. cmd'.pc \notin {"backup", "stamp"}
      BY <1>1, <3>1, <3>2, IdleFields DEF CommandInv, Migrating, Copying
    <3>4. QED
      BY <1>3, <2>1, <3>3
  <2>6. QED
    BY <1>8, <2>2, <2>3, <2>4, <2>5
<1>9. QED
  BY <1>4, <1>5, <1>6, <1>7, <1>8 DEF Next

-----------------------------------------------------------------------------
(* The steps of a migration                                                *)

\* The command keeps its fields but for some.
Same(changed) == DOMAIN cmd' = Fields /\ \A x \in Fields \ changed : cmd'[x] = cmd[x]

Advance(pc) ==
  \/ cmd.i < TableCount /\ cmd'.i = cmd.i + 1 /\ cmd'.pc = cmd.pc
  \/ ~(cmd.i < TableCount) /\ cmd'.i = 1 /\ cmd'.pc = pc

Started ==
  /\ cmd'.pc = "measure" /\ cmd'.i = 1 /\ cmd'.begun = FALSE
  /\ cmd'.first = NoRows /\ cmd'.again = NoRows /\ cmd'.snap = NoRows /\ cmd'.mine = NoRows
  /\ cmd'.todo = {} /\ cmd'.kept = {} /\ cmd'.file = {}
  /\ cmd'.instants = {Actual(source.rows)}
  /\ UNCHANGED <<source, target>>

Measured ==
  /\ cmd.name = "migrate" /\ cmd.pc = "measure"
  /\ Same({"first", "i", "pc"}) /\ cmd'.pc \in {"measure", "plan"}
  /\ cmd'.first = Over(cmd.first, Reading(source.rows))
  /\ UNCHANGED <<source, target>>

\* From the plan to a target that can be copied to.
Prepared ==
  /\ cmd.name = "migrate" /\ cmd.pc \in {"plan", "inspect", "upgrade"}
  /\ Same({"pc", "i", "refused"}) /\ cmd'.pc \in {"inspect", "upgrade", "copy"}
  /\ source' = source /\ target'.rows = target.rows
  /\ cmd'.pc = "upgrade" => target'.version # "head"
  /\ cmd'.pc = "copy" =>
       cmd'.i = 1 /\ target'.version = "head" /\ (~cmd.resume => target.rows = NoRows)

CopiedOne ==
  /\ cmd.name = "migrate" /\ cmd.pc = "copy"
  /\ Same({"mine", "begun", "snap", "i", "pc"}) /\ Advance("compare")
  /\ cmd.resume => ~Refuses(Order[cmd.i], Reading(source.rows))
  /\ \A r \in In(Order[cmd.i], Inserted) : ~Exists(target.rows, r)
  /\ cmd'.mine = Over(cmd.mine, Inserted)
  /\ cmd'.begun <=> (cmd.begun \/ cmd.resume)
  /\ cmd'.snap = IF cmd.resume THEN Snapshot ELSE cmd.snap
  /\ UNCHANGED <<source, target>>

ComparedOne ==
  /\ cmd.name = "migrate" /\ cmd.pc = "compare"
  /\ Same({"again", "i", "pc"}) /\ Advance("check")
  /\ cmd'.again = Over(cmd.again, Reading(source.rows))
  /\ UNCHANGED <<source, target>>

Agreed ==
  /\ cmd.name = "migrate" /\ cmd.pc = "check" /\ SameRows(cmd.again, View)
  /\ Same({"pc", "begun", "snap"}) /\ cmd'.pc = "commit"
  /\ cmd'.begun = TRUE /\ cmd'.snap = Snapshot
  /\ UNCHANGED <<source, target>>

Committed ==
  /\ cmd.name = "migrate" /\ cmd.pc = "commit"
  /\ Same({"pc", "todo", "kept", "begun", "snap", "mine", "again"}) /\ cmd'.pc = "files"
  /\ cmd'.begun = FALSE /\ cmd'.snap = NoRows /\ cmd'.mine = NoRows /\ cmd'.again = NoRows
  /\ cmd'.todo = cmd'.kept /\ cmd'.kept \subseteq {f \in Files : files.source[f] \in 1..MaxVersion}
  /\ target' = [target EXCEPT !.rows = Over(@, cmd.mine)] /\ source' = source

FilesCopied ==
  /\ cmd.name = "migrate" /\ cmd.pc = "files" /\ Same({"todo", "file"})
  /\ \E f \in Files : CopyFile(f) \/ FinishFile(f)
  /\ UNCHANGED <<source, target>>

LEMMA MigrationSteps ==
  ASSUME SourceInv, TargetInv, CommandInv, TransactionInv, [Next]_vars, cmd'.name = "migrate"
  PROVE  \/ Beside /\ cmd.name = "migrate"
         \/ Started \/ Measured \/ Prepared \/ CopiedOne \/ ComparedOne \/ Agreed \/ Committed
         \/ FilesCopied
<1>1. DOMAIN cmd = Fields /\ DOMAIN Idle = Fields /\ cmd' # Idle
  BY IdleFields DEF CommandInv
<1>2. CASE \/ \E env \in Environments : StartDashboard(env)
           \/ EnsureColumns \/ SeedSource \/ StopDashboard \/ SourceWrite \/ TargetWrite
           \/ UNCHANGED vars
  <2>1. Beside
    BY <1>1, <1>2, BesideSteps
  <2>2. cmd.name = "migrate"
    BY <2>1 DEF Beside, Fields
  <2>3. QED
    BY <2>1, <2>2
<1>3. CASE StartUpgrade \/ SeedTarget \/ FinishBackup \/ Stamp \/ \E p \in Backups : StartAdoption(p)
  <2>1. CASE StartUpgrade
    <3>1. cmd'.name = "upgrade"
      BY <1>1, <2>1 DEF StartUpgrade, Begin, Fields
    <3>2. QED
      BY <3>1
  <2>2. CASE SeedTarget \/ Stamp
    BY <1>1, <2>2 DEF SeedTarget, Stamp, End
  <2>3. CASE FinishBackup
    <3>1. cmd.name = "adopt"
      BY <2>3 DEF FinishBackup, CommandInv, Migrating, Copying
    <3>2. cmd'.name = "adopt"
      BY <1>1, <2>3, <3>1 DEF FinishBackup, End, Fields
    <3>3. QED
      BY <3>2
  <2>4. ASSUME NEW p \in Backups, StartAdoption(p) PROVE FALSE
    <3>1. cmd'.name = "adopt"
      BY <1>1, <2>4 DEF StartAdoption, Begin, Fields
    <3>2. QED
      BY <3>1
  <2>5. QED
    BY <1>3, <2>1, <2>2, <2>3, <2>4
<1>4. CASE Crash
  <2>1. cmd' = cmd /\ UNCHANGED <<source, target, backups, report>>
    BY <1>1, <1>4 DEF Crash, End
  <2>2. Beside
    BY <1>1, <2>1 DEF Beside
  <2>3. QED
    BY <2>1, <2>2
<1>5. ASSUME NEW opt \in Options, StartMigration(opt) PROVE Started
  <2>1. /\ UNCHANGED <<source, target>>
        /\ cmd' = [Idle EXCEPT !.name = "migrate", !.pc = "measure", !.i = 1,
                     !.apply = opt.apply, !.resume = opt.resume, !.trees = opt.trees,
                     !.instants = {Actual(source.rows)}]
    BY <1>5 DEF StartMigration, Begin
  <2>2. QED
    BY <1>1, <2>1, IdleFields DEF Started, Fields
<1>6. CASE MeasureSource
  <2>1. /\ cmd' = [NextTable("plan") EXCEPT !.first = Over(NextTable("plan").first, Reading(source.rows))]
        /\ UNCHANGED <<source, target>> /\ cmd.pc = "measure" /\ cmd.name = "migrate"
    BY <1>6 DEF MeasureSource, CommandInv
  <2>2. NextTable("plan").first = cmd.first
    BY <1>1, NextTableFields DEF Fields
  <2>3. Same({"first", "i", "pc"}) /\ cmd'.first = Over(cmd.first, Reading(source.rows))
    BY <1>1, <2>1, <2>2, NextTableFields DEF Same, Fields
  <2>4. cmd'.pc \in {"measure", "plan"}
    BY <1>1, <2>1, NextTableFields DEF Fields
  <2>5. QED
    BY <2>1, <2>3, <2>4 DEF Measured
<1>7. CASE PlanFiles
  <2>1. /\ \E refused : cmd' = [cmd EXCEPT !.pc = "inspect", !.refused = refused]
        /\ UNCHANGED <<source, target>> /\ cmd.pc = "plan" /\ cmd.name = "migrate"
    BY <1>7 DEF PlanFiles, CommandInv
  <2>2. Same({"pc", "i", "refused"}) /\ cmd'.pc = "inspect"
    BY <1>1, <2>1 DEF Same, Fields
  <2>3. QED
    BY <2>1, <2>2 DEF Prepared
<1>8. CASE InspectTarget
  <2>1. /\ UNCHANGED <<source, target>> /\ cmd.pc = "inspect" /\ cmd.name = "migrate"
    BY <1>8 DEF InspectTarget, CommandInv
  <2>2. CASE TargetSchema = "absent" /\ cmd' = [cmd EXCEPT !.pc = "upgrade", !.i = 0]
    <3>1. target.version = "none"
      BY <2>2 DEF TargetSchema
    <3>2. Same({"pc", "i", "refused"}) /\ cmd'.pc = "upgrade"
      BY <1>1, <2>2 DEF Same, Fields
    <3>3. QED
      BY <2>1, <3>1, <3>2 DEF Prepared
  <2>3. CASE /\ TargetSchema = "current" /\ (Present(target.rows) # {} => cmd.resume)
             /\ cmd' = [cmd EXCEPT !.pc = "copy", !.i = 1]
    <3>1. target.version = "head"
      BY <2>3 DEF TargetSchema
    <3>2. Same({"pc", "i", "refused"}) /\ cmd'.pc = "copy" /\ cmd'.i = 1
      BY <1>1, <2>3 DEF Same, Fields
    <3>3. ~cmd.resume => target.rows = NoRows
      <4>1. target.rows \in [Rows -> TargetContents] /\ Gone \notin TargetContents
        BY BoundsAssumption DEF TargetInv, TargetContents, Gone, Changed
      <4>2. QED
        BY <2>3, <4>1 DEF Present, Exists, NoRows
    <3>4. QED
      BY <2>1, <3>1, <3>2, <3>3 DEF Prepared
  <2>4. TargetSchema \in {"absent", "incompatible", "current"}
    BY DEF TargetSchema
  <2>5. ~Report("blocked") /\ ~Report("ready")
    BY <1>1 DEF Report, End
  <2>6. QED
    BY <1>8, <2>2, <2>3, <2>4, <2>5 DEF InspectTarget
<1>9. CASE CopyTable
  <2>1. cmd.pc = "copy" /\ cmd.name = "migrate" /\ UNCHANGED <<source, target>>
    BY <1>9, CopyTableEffect DEF CommandInv
  <2>2. /\ cmd.resume => ~Refuses(Order[cmd.i], Reading(source.rows))
        /\ \A r \in In(Order[cmd.i], Inserted) : ~Exists(target.rows, r)
        /\ cmd' = [NextTable("compare") EXCEPT
                     !.mine = Over(cmd.mine, Inserted),
                     !.begun = @ \/ cmd.resume,
                     !.snap = IF cmd.resume THEN Snapshot ELSE @]
    BY <1>1, <1>9, CopyTableEffect DEF Report, End
  <2>3. NextTable("compare").begun = cmd.begun /\ NextTable("compare").snap = cmd.snap
    BY <1>1, NextTableFields DEF Fields
  <2>4. /\ Same({"mine", "begun", "snap", "i", "pc"}) /\ cmd'.mine = Over(cmd.mine, Inserted)
        /\ cmd'.i = NextTable("compare").i /\ cmd'.pc = NextTable("compare").pc
    <3>1. PICK mine, begun, snap :
            /\ mine = Over(cmd.mine, Inserted)
            /\ cmd' = [NextTable("compare") EXCEPT !.mine = mine, !.begun = begun, !.snap = snap]
      BY <2>2
    <3>2. /\ DOMAIN NextTable("compare") = Fields
          /\ \A x \in Fields \ {"i", "pc"} : NextTable("compare")[x] = cmd[x]
      BY <1>1, NextTableFields
    <3>3. /\ cmd'.mine = mine /\ cmd'.i = NextTable("compare").i
          /\ cmd'.pc = NextTable("compare").pc
      BY <3>1, <3>2 DEF Fields
    <3>4. Same({"mine", "begun", "snap", "i", "pc"})
      <4>1. DOMAIN cmd' = Fields
        BY <3>1, <3>2
      <4>2. ASSUME NEW x \in Fields \ {"mine", "begun", "snap", "i", "pc"} PROVE cmd'[x] = cmd[x]
        BY <3>1, <3>2, <4>2
      <4>3. QED
        BY <4>1, <4>2 DEF Same
    <3>5. QED
      BY <3>1, <3>3, <3>4
  <2>5. /\ cmd'.begun = (NextTable("compare").begun \/ cmd.resume)
        /\ cmd'.snap = IF cmd.resume THEN Snapshot ELSE NextTable("compare").snap
    BY <1>1, <2>2, NextTableFields DEF Fields
  <2>6. Advance("compare")
    BY <1>1, <2>4, NextTableFields DEF Advance
  <2>7. QED
    BY <2>1, <2>2, <2>3, <2>4, <2>5, <2>6 DEF CopiedOne
<1>10. CASE CompareTable
  <2>1. /\ cmd' = [NextTable("check") EXCEPT !.again = Over(NextTable("check").again, Reading(source.rows))]
        /\ UNCHANGED <<source, target>> /\ cmd.pc = "compare" /\ cmd.name = "migrate"
    BY <1>10 DEF CompareTable, CommandInv
  <2>2. NextTable("check").again = cmd.again
    BY <1>1, NextTableFields DEF Fields
  <2>3. /\ Same({"again", "i", "pc"}) /\ cmd'.again = Over(cmd.again, Reading(source.rows))
        /\ cmd'.i = NextTable("check").i /\ cmd'.pc = NextTable("check").pc
    BY <1>1, <2>1, <2>2, NextTableFields DEF Same, Fields
  <2>4. Advance("check")
    BY <1>1, <2>3, NextTableFields DEF Advance
  <2>5. QED
    BY <2>1, <2>3, <2>4 DEF ComparedOne
<1>11. CASE CompareTarget
  <2>1. /\ cmd.pc = "check" /\ cmd.name = "migrate" /\ UNCHANGED <<source, target>>
        /\ SameRows(cmd.again, View)
        /\ cmd' = [cmd EXCEPT !.pc = "commit", !.begun = TRUE, !.snap = Snapshot]
    BY <1>1, <1>11 DEF CompareTarget, Report, End, CommandInv
  <2>2. /\ Same({"pc", "begun", "snap"}) /\ cmd'.pc = "commit"
        /\ cmd'.begun = TRUE /\ cmd'.snap = Snapshot
    BY <1>1, <2>1 DEF Same, Fields
  <2>3. QED
    BY <2>1, <2>2 DEF Agreed
<1>12. CASE CommitRows
  <2>1. /\ cmd.name = "migrate" /\ cmd.pc = "commit"
        /\ target' = [target EXCEPT !.rows = Over(@, cmd.mine)] /\ source' = source
    BY <1>12 DEF CommitRows, CommandInv
  <2>2. PICK listed \in SUBSET {f \in Files : files.source[f] \in 1..MaxVersion} :
          cmd' = [cmd EXCEPT !.pc = "files", !.todo = listed, !.kept = listed,
                             !.begun = FALSE, !.snap = NoRows, !.mine = NoRows,
                             !.again = NoRows]
    BY <1>12 DEF CommitRows
  <2>3. /\ Same({"pc", "todo", "kept", "begun", "snap", "mine", "again"}) /\ cmd'.pc = "files"
        /\ cmd'.begun = FALSE /\ cmd'.snap = NoRows /\ cmd'.mine = NoRows /\ cmd'.again = NoRows
    BY <1>1, <2>2 DEF Same, Fields
  <2>4. cmd'.todo = listed /\ cmd'.kept = listed
    BY <1>1, <2>2 DEF Fields
  <2>5. QED
    BY <2>1, <2>3, <2>4 DEF Committed
<1>13. ASSUME NEW f \in Files, CopyFile(f) \/ FinishFile(f) PROVE FilesCopied
  <2>1. cmd.name = "migrate" /\ cmd.pc = "files" /\ UNCHANGED <<source, target>>
    BY <1>13 DEF CopyFile, FinishFile, CommandInv
  <2>2. \E todo, file : cmd' \in {[cmd EXCEPT !.todo = todo], [cmd EXCEPT !.file = file],
                                  [cmd EXCEPT !.file = file, !.todo = todo]}
    BY <1>1, <1>13 DEF CopyFile, FinishFile, Report, End
  <2>3. Same({"todo", "file"})
    BY <1>1, <2>2 DEF Same, Fields
  <2>4. QED
    BY <1>13, <2>1, <2>3 DEF FilesCopied
<1>14. CASE Reconcile
  BY <1>1, <1>14 DEF Reconcile, Report, End
<1>15. CASE UpgradeStep
  <2>1. cmd.pc = "upgrade" /\ source' = source /\ cmd.name \in {"upgrade", "migrate"}
    BY <1>15 DEF UpgradeStep, CommandInv
  <2>2. cmd.name = "migrate"
    <3>1. cmd' = Idle \/ cmd'.name = cmd.name \/ cmd.name = "migrate"
      BY <1>1, <1>15, <2>1 DEF UpgradeStep, UpgradeEnds, End, Fields
    <3>2. QED
      BY <1>1, <2>1, <3>1
  <2>3. target.version # "head" /\ target.rows = NoRows
    BY <2>1, <2>2 DEF TransactionInv, TargetInv
  <2>4. CASE UpgradeEnds /\ target' = [target EXCEPT !.version = "head"]
    <3>1. cmd' = [cmd EXCEPT !.pc = "copy", !.i = 1]
      BY <2>2, <2>4 DEF UpgradeEnds
    <3>2. Same({"pc", "i", "refused"}) /\ cmd'.pc = "copy" /\ cmd'.i = 1
      BY <1>1, <3>1 DEF Same, Fields
    <3>3. target'.version = "head" /\ target'.rows = target.rows
      BY <2>4 DEF TargetInv
    <3>4. QED
      BY <2>1, <2>2, <2>3, <3>2, <3>3 DEF Prepared
  <2>5. CASE /\ target.version \in {"none", "empty"}
             /\ target' \in {[target EXCEPT !.version = "empty"], [target EXCEPT !.made = @ + 1]}
             /\ cmd' \in {cmd, [cmd EXCEPT !.i = @ + 1]}
    <3>1. target'.version # "head" /\ target'.rows = target.rows
      BY <2>3, <2>5 DEF TargetInv
    <3>2. Same({"pc", "i", "refused"}) /\ cmd'.pc = "upgrade"
      BY <1>1, <2>1, <2>5 DEF Same, Fields
    <3>3. QED
      BY <2>1, <2>2, <3>1, <3>2 DEF Prepared
  <2>6. QED
    BY <1>1, <1>15, <2>3, <2>4, <2>5 DEF UpgradeStep, End
<1>16. QED
  BY <1>2, <1>3, <1>4, <1>5, <1>6, <1>7, <1>8, <1>9, <1>10, <1>11, <1>12, <1>13, <1>14, <1>15
     DEF Next, Migrate

LEMMA StepMeasure ==
  ASSUME SourceInv, TargetInv, CommandInv, TransactionInv, MeasureInv, [Next]_vars
  PROVE  MeasureInv'
<1>1. SUFFICES ASSUME cmd'.name = "migrate" PROVE MeasureInv'
  BY DEF MeasureInv
<1>2. /\ source.rows \in [Rows -> 0..Gone] /\ source'.rows \in [Rows -> 0..Gone]
      /\ \A r \in Rows : source'.rows[r] >= source.rows[r]
  BY StepSource DEF SourceInv, Grown
<1>3. /\ Actual(source.rows) \in [Rows -> 0..MaxVersion]
      /\ Actual(source'.rows) \in [Rows -> 0..MaxVersion]
  BY <1>2, ActualProperties
<1>4. \A r \in Rows : source.rows[r] # 0 => source'.rows[r] # 0
  BY <1>2, ContentValues
<1>5. ASSUME cmd.name = "migrate", cmd'.first = cmd.first,
             \/ cmd'.instants = cmd.instants /\ source'.rows = source.rows
             \/ cmd'.instants = cmd.instants \cup {Actual(source'.rows)}
      PROVE  MeasureInv'
  <2>1. /\ cmd.first \in [Rows -> 0..MaxVersion]
        /\ \A r \in Rows : cmd.first[r] # 0 => source.rows[r] # 0
        /\ cmd.instants \subseteq [Rows -> 0..MaxVersion]
        /\ Actual(source.rows) \in cmd.instants
    BY <1>5 DEF MeasureInv
  <2>2. /\ cmd'.instants \subseteq [Rows -> 0..MaxVersion]
        /\ Actual(source'.rows) \in cmd'.instants
    BY <1>3, <1>5, <2>1
  <2>3. \A r \in Rows : cmd'.first[r] # 0 => source'.rows[r] # 0
    BY <1>4, <1>5, <2>1
  <2>4. QED
    BY <1>5, <2>1, <2>2, <2>3 DEF MeasureInv, Actual, Exists
<1>6. CASE Beside /\ cmd.name = "migrate"
  BY <1>5, <1>6 DEF Beside, Fields
<1>7. CASE Started
  BY <1>3, <1>7, ContentValues DEF Started, MeasureInv
<1>8. CASE Measured
  <2>1. /\ cmd'.instants = cmd.instants /\ source' = source
        /\ cmd'.first = Over(cmd.first, Reading(source.rows))
        /\ cmd.first \in [Rows -> 0..MaxVersion]
        /\ \A r \in Rows : cmd.first[r] # 0 => source.rows[r] # 0
        /\ cmd.instants \subseteq [Rows -> 0..MaxVersion]
        /\ Actual(source.rows) \in cmd.instants
    BY <1>8 DEF Measured, Same, Fields, MeasureInv
  <2>2. /\ Reading(source.rows) \in [Rows -> 0..MaxVersion]
        /\ \A r \in Rows : Reading(source.rows)[r] # 0 => Reading(source.rows)[r] = source.rows[r]
    BY <1>2, ReadingProperties
  <2>3. /\ cmd'.first \in [Rows -> 0..MaxVersion]
        /\ \A r \in Rows : cmd'.first[r] = IF Reading(source.rows)[r] # 0
                                           THEN Reading(source.rows)[r] ELSE cmd.first[r]
    BY <2>1, <2>2, OverVersions
  <2>4. \A r \in Rows : cmd'.first[r] # 0 => source'.rows[r] # 0
    BY <2>1, <2>2, <2>3
  <2>5. QED
    BY <2>1, <2>3, <2>4 DEF MeasureInv
<1>9. CASE Prepared \/ CopiedOne \/ ComparedOne \/ Agreed \/ Committed \/ FilesCopied
  <2>1. /\ cmd.name = "migrate" /\ cmd'.first = cmd.first /\ cmd'.instants = cmd.instants
        /\ source' = source
    BY <1>9 DEF Prepared, CopiedOne, ComparedOne, Agreed, Committed, FilesCopied, Same, Fields
  <2>2. QED
    BY <1>5, <2>1
<1>10. QED
  BY <1>1, <1>6, <1>7, <1>8, <1>9, MigrationSteps

\* What a table adds to the copy: rows of the source that the target lacks.
LEMMA InsertedProperties ==
  ASSUME SourceInv
  PROVE  /\ Inserted \in [Rows -> 0..MaxVersion]
         /\ \A r \in Rows : Inserted[r] # 0 => Inserted[r] = source.rows[r] /\ TableOf[r] = Order[cmd.i]
         /\ \A r \in Rows : TableOf[r] = Order[cmd.i] /\ Inserted[r] = 0 =>
              \/ source.rows[r] \in {0, Gone}
              \/ cmd.resume /\ Exists(Snapshot, r)
<1>1. source.rows \in [Rows -> 0..Gone]
  BY DEF SourceInv
<1>2. QED
  BY <1>1, ReadingProperties, ContentValues DEF Inserted

LEMMA StepTransaction ==
  ASSUME SourceInv, TargetInv, CommandInv, TransactionInv, [Next]_vars
  PROVE  TransactionInv'
<1>1. SUFFICES ASSUME cmd'.name = "migrate" PROVE TransactionInv'
  BY DEF TransactionInv
<1>2. target.rows \in [Rows -> TargetContents] /\ cmd.i \in Nat
  BY DEF TargetInv, CommandInv
<1>3. CASE Beside /\ cmd.name = "migrate"
  <2>1. /\ cmd'.pc = cmd.pc /\ cmd'.i = cmd.i /\ cmd'.resume = cmd.resume /\ cmd'.mine = cmd.mine
        /\ cmd'.again = cmd.again /\ cmd'.snap = cmd.snap /\ cmd'.begun = cmd.begun
        /\ target'.version = target.version
    BY <1>3 DEF Beside, Fields
  <2>2. /\ cmd.touched \subseteq cmd'.touched
        /\ \A r \in Rows : \/ target'.rows[r] = target.rows[r]
                           \/ /\ cmd.mine[r] = 0
                              /\ cmd.pc \in Copying \cup {"files"} => r \in cmd'.touched
    BY <1>3 DEF Beside
  <2>3. \A r \in Rows : cmd'.mine[r] # 0 => target'.rows[r] = 0
    BY <1>3, <2>1, <2>2 DEF TransactionInv
  <2>4. cmd'.begun => \A r \in Rows : r \in cmd'.touched \/ target'.rows[r] = cmd'.snap[r]
    <3>1. cmd.begun => cmd.pc \in Copying
      BY <1>3 DEF TransactionInv
    <3>2. cmd.begun => \A r \in Rows : r \in cmd.touched \/ target.rows[r] = cmd.snap[r]
      BY <1>3 DEF TransactionInv
    <3>3. QED
      BY <2>1, <2>2, <3>1, <3>2
  <2>5. cmd'.pc \in Copying /\ ~cmd'.resume => \A r \in Rows : r \in cmd'.touched \/ target'.rows[r] = 0
    <3>1. cmd.pc \in Copying /\ ~cmd.resume => \A r \in Rows : r \in cmd.touched \/ target.rows[r] = 0
      BY <1>3 DEF TransactionInv
    <3>2. QED
      BY <2>1, <2>2, <3>1
  <2>6. QED
    BY <1>3, <2>1, <2>3, <2>4, <2>5 DEF TransactionInv
<1>4. CASE Started
  BY <1>4, ContentValues DEF Started, TransactionInv, Copying, TargetContents, NoRows
<1>5. CASE Prepared
  <2>1. /\ cmd'.resume = cmd.resume /\ cmd'.mine = cmd.mine
        /\ cmd'.again = cmd.again /\ cmd'.snap = cmd.snap /\ cmd'.begun = cmd.begun
        /\ target'.rows = target.rows
        /\ cmd'.pc \in {"inspect", "upgrade", "copy"}
        /\ cmd'.pc = "upgrade" => target'.version # "head"
        /\ cmd'.pc = "copy" =>
             cmd'.i = 1 /\ target'.version = "head" /\ (~cmd.resume => target.rows = NoRows)
    BY <1>5 DEF Prepared, Same, Fields
  <2>2. /\ cmd.mine = NoRows /\ cmd.again = NoRows /\ ~cmd.begun /\ cmd.snap = NoRows
        /\ cmd.name = "migrate" /\ cmd.snap \in [Rows -> TargetContents]
    BY <1>5 DEF Prepared, TransactionInv, Copying
  <2>3. QED
    BY <2>1, <2>2, ContentValues DEF TransactionInv, Copying
<1>6. CASE Measured \/ FilesCopied
  <2>1. /\ cmd'.resume = cmd.resume /\ cmd'.mine = cmd.mine
        /\ cmd'.again = cmd.again /\ cmd'.snap = cmd.snap /\ cmd'.begun = cmd.begun
        /\ target' = target /\ cmd'.pc \in {"measure", "plan", "files"}
        /\ cmd'.pc = "files" => cmd.pc = "files"
        /\ cmd.name = "migrate" /\ cmd.pc \in {"measure", "files"}
    BY <1>6 DEF Measured, FilesCopied, Same, Fields
  <2>2. QED
    BY <2>1 DEF TransactionInv, Copying
<1>7. CASE CopiedOne
  <2>1. /\ cmd'.resume = cmd.resume /\ cmd'.again = cmd.again /\ target' = target
        /\ cmd'.touched = cmd.touched
        /\ cmd.name = "migrate" /\ cmd.pc = "copy"
        /\ cmd'.mine = Over(cmd.mine, Inserted)
        /\ cmd'.begun <=> (cmd.begun \/ cmd.resume)
        /\ cmd'.snap = IF cmd.resume THEN Snapshot ELSE cmd.snap
        /\ \A r \in In(Order[cmd.i], Inserted) : ~Exists(target.rows, r)
    BY <1>7 DEF CopiedOne, Same, Fields
  <2>2. cmd'.pc \in {"copy", "compare"} /\ cmd'.i > 0
    BY <1>2, <1>7 DEF CopiedOne, Advance
  <2>3. /\ cmd.mine \in [Rows -> 0..MaxVersion] /\ cmd.snap \in [Rows -> TargetContents]
        /\ cmd.again \in [Rows -> 0..MaxVersion] /\ cmd.again = NoRows
        /\ \A r \in Rows : cmd.mine[r] # 0 => target.rows[r] = 0
        /\ cmd.begun => \A r \in Rows : r \in cmd.touched \/ target.rows[r] = cmd.snap[r]
        /\ ~cmd.begun => cmd.snap = NoRows
        /\ ~cmd.resume => ~cmd.begun
        /\ target.version = "head"
        /\ ~cmd.resume => \A r \in Rows : r \in cmd.touched \/ target.rows[r] = 0
    BY <2>1 DEF TransactionInv, Copying
  <2>4. /\ cmd'.mine \in [Rows -> 0..MaxVersion]
        /\ \A r \in Rows : cmd'.mine[r] = IF Inserted[r] # 0 THEN Inserted[r] ELSE cmd.mine[r]
    BY <2>1, <2>3, InsertedProperties, OverVersions
  <2>5. \A r \in Rows : Inserted[r] # 0 => target.rows[r] = 0
    <3>1. ASSUME NEW r \in Rows, Inserted[r] # 0 PROVE r \in In(Order[cmd.i], Inserted)
      BY <3>1, InsertedProperties, ContentValues DEF In, Present, Exists
    <3>2. QED
      BY <1>2, <2>1, <3>1, ContentValues DEF Exists
  <2>6. cmd'.snap \in [Rows -> TargetContents]
    BY <1>2, <2>1, <2>3 DEF Snapshot
  <2>7. cmd'.begun => \A r \in Rows : r \in cmd'.touched \/ target'.rows[r] = cmd'.snap[r]
    BY <2>1, <2>3 DEF Snapshot
  <2>8. ~cmd'.begun => cmd'.snap = NoRows
    BY <2>1, <2>3
  <2>9. \A r \in Rows : cmd'.mine[r] # 0 => target'.rows[r] = 0
    BY <2>1, <2>3, <2>4, <2>5
  <2>10. QED
    BY <2>1, <2>2, <2>3, <2>4, <2>6, <2>7, <2>8, <2>9 DEF TransactionInv, Copying
<1>8. CASE ComparedOne
  <2>1. /\ cmd'.resume = cmd.resume /\ cmd'.mine = cmd.mine /\ cmd'.touched = cmd.touched
        /\ cmd'.snap = cmd.snap /\ cmd'.begun = cmd.begun /\ target' = target
        /\ cmd'.pc \in {"compare", "check"}
        /\ cmd.name = "migrate" /\ cmd.pc = "compare"
        /\ cmd'.again = Over(cmd.again, Reading(source.rows))
    BY <1>8 DEF ComparedOne, Advance, Same, Fields
  <2>2. cmd'.again \in [Rows -> 0..MaxVersion]
    <3>1. cmd.again \in [Rows -> 0..MaxVersion]
      BY <2>1 DEF TransactionInv
    <3>2. Reading(source.rows) \in [Rows -> 0..MaxVersion]
      BY ReadingProperties DEF SourceInv
    <3>3. QED
      BY <2>1, <3>1, <3>2, OverVersions
  <2>3. cmd'.pc = "compare" => cmd'.i > 0
    BY <1>2, <1>8 DEF ComparedOne, Advance
  <2>4. QED
    BY <2>1, <2>2, <2>3 DEF TransactionInv, Copying
<1>9. CASE Agreed
  <2>1. /\ cmd'.resume = cmd.resume /\ cmd'.mine = cmd.mine /\ cmd'.touched = cmd.touched
        /\ cmd'.again = cmd.again /\ target' = target
        /\ cmd'.snap = Snapshot /\ cmd'.begun = TRUE /\ cmd'.pc = "commit"
        /\ cmd.name = "migrate" /\ cmd.pc = "check"
    BY <1>9 DEF Agreed, Same, Fields
  <2>2. /\ cmd.snap \in [Rows -> TargetContents]
        /\ cmd.begun => \A r \in Rows : r \in cmd.touched \/ target.rows[r] = cmd.snap[r]
    BY <2>1 DEF TransactionInv
  <2>3. cmd'.snap \in [Rows -> TargetContents]
    BY <1>2, <2>1, <2>2 DEF Snapshot
  <2>4. \A r \in Rows : r \in cmd'.touched \/ target'.rows[r] = cmd'.snap[r]
    BY <2>1, <2>2 DEF Snapshot
  <2>5. QED
    BY <2>1, <2>3, <2>4 DEF TransactionInv, Copying
<1>10. CASE Committed
  <2>1. /\ cmd'.resume = cmd.resume /\ cmd'.pc = "files"
        /\ cmd'.begun = FALSE /\ cmd'.snap = NoRows /\ cmd'.mine = NoRows /\ cmd'.again = NoRows
        /\ cmd.name = "migrate" /\ cmd.pc = "commit"
    BY <1>10 DEF Committed, Same, Fields
  <2>2. target'.version = "head"
    BY <1>10, <2>1 DEF Committed, TransactionInv, TargetInv, Copying
  <2>3. QED
    BY <2>1, <2>2, ContentValues DEF TransactionInv, Copying, TargetContents, NoRows
<1>11. QED
  BY <1>1, <1>3, <1>4, <1>5, <1>6, <1>7, <1>8, <1>9, <1>10, MigrationSteps

-----------------------------------------------------------------------------
(* The copy is an instant of the source                                    *)

LEMMA CopiedProperties ==
  ASSUME TransactionInv, cmd.name = "migrate"
  PROVE  /\ Copied \in [Rows -> TargetContents]
         /\ \A r \in Rows : Copied[r] = IF cmd.mine[r] # 0 THEN cmd.mine[r] ELSE cmd.snap[r]
<1>1. cmd.mine \in [Rows -> TargetContents] /\ cmd.snap \in [Rows -> TargetContents]
  BY ContentValues DEF TransactionInv
<1>2. QED
  BY <1>1, OverProperties DEF Copied

\* While the transaction stays as it is, what was copied stays so.
LEMMA CopiesStay ==
  ASSUME SourceInv, [Next]_vars, cmd'.mine = cmd.mine, cmd'.snap = cmd.snap,
         cmd'.first = cmd.first, NEW r \in Rows, Copies(r)
  PROVE  Copies(r)'
<1>1. /\ source.rows[r] \in 0..Gone /\ source'.rows[r] \in 0..Gone
      /\ source'.rows[r] >= source.rows[r]
  BY StepSource DEF SourceInv, Grown
<1>2. Copied' = Copied
  BY DEF Copied, Over
<1>3. QED
  BY <1>1, <1>2, ContentValues DEF Copies

\* What a pass over the tables has done when it comes to the next one.
LEMMA DoneAdvance ==
  ASSUME cmd.i \in Nat, cmd.i > 0, NEW pc, Advance(pc)
  PROVE  \/ /\ cmd'.i = cmd.i + 1 /\ cmd'.pc = cmd.pc
            /\ \A r \in Rows : Done(r)' <=> Done(r) \/ TableOf[r] = Order[cmd.i]
         \/ /\ cmd'.i = 1 /\ cmd'.pc = pc
            /\ \A r \in Rows : Done(r) \/ TableOf[r] = Order[cmd.i]
<1>1. TableCount \in Nat
  BY CountPlaces
<1>2. CASE cmd.i < TableCount /\ cmd'.i = cmd.i + 1 /\ cmd'.pc = cmd.pc
  <2>1. \A j \in Int : j \in 1 .. cmd'.i - 1 <=> j \in 1 .. cmd.i - 1 \/ j = cmd.i
    BY <1>2
  <2>2. QED
    BY <1>2, <2>1 DEF Done
<1>3. CASE ~(cmd.i < TableCount) /\ cmd'.i = 1 /\ cmd'.pc = pc
  <2>1. ASSUME NEW r \in Rows PROVE Done(r) \/ TableOf[r] = Order[cmd.i]
    <3>1. PICK j \in 1..TableCount : Order[j] = TableOf[r]
      BY OrderComplete
    <3>2. j \in 1 .. cmd.i - 1 \/ j = cmd.i
      BY <1>1, <1>3
    <3>3. QED
      BY <3>1, <3>2 DEF Done
  <2>2. QED
    BY <1>3, <2>1
<1>4. QED
  BY <1>2, <1>3 DEF Advance

LEMMA StepCopy ==
  ASSUME SourceInv, TargetInv, CommandInv, MeasureInv, TransactionInv, CopyInv, [Next]_vars
  PROVE  CopyInv'
<1>1. SUFFICES ASSUME cmd'.name = "migrate", cmd'.pc \in {"copy", "compare", "check"}
               PROVE  CopyInv'
  BY DEF CopyInv
<1>2. /\ source.rows \in [Rows -> 0..Gone] /\ target.rows \in [Rows -> TargetContents]
      /\ cmd.i \in Nat /\ TableCount \in Nat
  BY CountPlaces DEF SourceInv, TargetInv, CommandInv
<1>3. CASE Beside /\ cmd.name = "migrate"
  <2>1. /\ cmd'.mine = cmd.mine /\ cmd'.snap = cmd.snap /\ cmd'.first = cmd.first
        /\ cmd'.pc = cmd.pc /\ cmd'.i = cmd.i
    BY <1>3 DEF Beside, Fields
  <2>2. \A r \in Rows : (Copies(r) => Copies(r)') /\ (Done(r)' <=> Done(r))
    BY <2>1, CopiesStay DEF Done
  <2>3. QED
    BY <1>3, <2>1, <2>2 DEF CopyInv
<1>4. CASE Started \/ Measured \/ Agreed \/ Committed \/ FilesCopied
  BY <1>1, <1>4 DEF Started, Measured, Agreed, Committed, FilesCopied, Same, Fields
<1>5. CASE Prepared
  <2>1. cmd'.pc = "copy" /\ cmd'.i = 1 /\ cmd'.mine = cmd.mine
    BY <1>1, <1>5 DEF Prepared, Same, Fields
  <2>2. cmd.mine = NoRows
    BY <1>5 DEF Prepared, TransactionInv, Copying
  <2>3. \A r \in Rows : ~Done(r)' /\ cmd'.mine[r] = 0
    BY <2>1, <2>2, ContentValues DEF Done
  <2>4. QED
    BY <2>1, <2>3 DEF CopyInv
<1>6. CASE ComparedOne
  <2>1. /\ cmd'.mine = cmd.mine /\ cmd'.snap = cmd.snap /\ cmd'.first = cmd.first
        /\ cmd.name = "migrate" /\ cmd.pc = "compare" /\ cmd'.pc \in {"compare", "check"}
    BY <1>6 DEF ComparedOne, Advance, Same, Fields
  <2>2. \A r \in Rows : Copies(r) => Copies(r)'
    BY <2>1, CopiesStay
  <2>3. QED
    BY <2>1, <2>2 DEF CopyInv
<1>7. CASE CopiedOne
  <2>1. /\ cmd.name = "migrate" /\ cmd.pc = "copy" /\ cmd'.first = cmd.first
        /\ source' = source /\ cmd'.resume = cmd.resume
        /\ cmd'.mine = Over(cmd.mine, Inserted)
        /\ cmd'.snap = IF cmd.resume THEN Snapshot ELSE cmd.snap
        /\ cmd.resume => ~Refuses(Order[cmd.i], Reading(source.rows))
    BY <1>7 DEF CopiedOne, Same, Fields
  <2>2. /\ cmd.mine \in [Rows -> 0..MaxVersion] /\ cmd.snap \in [Rows -> TargetContents]
        /\ ~cmd.begun => cmd.snap = NoRows
        /\ ~cmd.resume => ~cmd.begun
        /\ cmd.i > 1 => (cmd.resume => cmd.begun)
    BY <2>1 DEF TransactionInv, Copying
  <2>3. /\ Inserted \in [Rows -> 0..MaxVersion]
        /\ \A r \in Rows : cmd'.mine[r] = IF Inserted[r] # 0 THEN Inserted[r] ELSE cmd.mine[r]
    BY <2>1, <2>2, InsertedProperties, OverVersions
  <2>4. TransactionInv' /\ \A r \in Rows : Copied'[r] = IF cmd'.mine[r] # 0 THEN cmd'.mine[r] ELSE cmd'.snap[r]
    <3>1. TransactionInv'
      BY StepTransaction
    <3>2. cmd'.mine \in [Rows -> TargetContents] /\ cmd'.snap \in [Rows -> TargetContents]
      BY <1>1, <3>1, ContentValues DEF TransactionInv
    <3>3. QED
      BY <3>1, <3>2 DEF Copied, Over
  <2>5. \A r \in Rows : IF Done(r) THEN Copies(r) ELSE cmd.mine[r] = 0
    BY <2>1 DEF CopyInv
  <2>6. \A r \in Rows : cmd.first[r] # 0 => source.rows[r] # 0
    BY <2>1 DEF MeasureInv
  \* The table that is read.
  <2>7. ASSUME NEW r \in Rows, TableOf[r] = Order[cmd.i] PROVE Copies(r)'
    <3>1. CASE Inserted[r] # 0
      <4>1. Inserted[r] \in 1..MaxVersion /\ Inserted[r] = source.rows[r]
        BY <2>3, <3>1, InsertedProperties
      <4>2. Copied'[r] = source.rows[r]
        BY <2>3, <2>4, <3>1, <4>1
      <4>3. QED
        BY <1>2, <2>1, <4>1, <4>2, ContentValues DEF Copies
    <3>2. CASE Inserted[r] = 0 /\ cmd.mine[r] # 0
      <4>1. Copies(r) /\ Copied[r] = cmd.mine[r]
        BY <2>1, <2>5, <3>2, CopiedProperties
      <4>2. Copied'[r] = Copied[r]
        BY <2>3, <2>4, <3>2, <4>1
      <4>3. QED
        BY <2>1, <3>2, <4>1, <4>2 DEF Copies
    <3>3. CASE Inserted[r] = 0 /\ cmd.mine[r] = 0
      <4>1. Copied'[r] = cmd'.snap[r]
        BY <2>3, <2>4, <3>3
      <4>2. \/ source.rows[r] \in {0, Gone}
            \/ cmd.resume /\ Exists(Snapshot, r)
        BY <2>7, <3>3, InsertedProperties
      <4>3. CASE cmd.resume /\ Exists(Snapshot, r)
        <5>1. r \in In(Order[cmd.i], Snapshot)
          BY <2>7, <4>3 DEF In, Present
        <5>2. Reading(source.rows)[r] = Snapshot[r]
          BY <2>1, <4>3, <5>1 DEF Refuses
        <5>3. Snapshot[r] # 0 /\ Copied'[r] = Snapshot[r]
          BY <2>1, <4>1, <4>3 DEF Exists
        <5>4. source.rows[r] = Snapshot[r] /\ Snapshot[r] \in 0..MaxVersion
          BY <1>2, <5>2, <5>3, ReadingProperties
        <5>5. QED
          BY <2>1, <5>3, <5>4, ContentValues DEF Copies
      <4>4. CASE ~(cmd.resume /\ Exists(Snapshot, r))
        <5>1. Copied'[r] = 0
          <6>1. CASE cmd.resume
            <7>1. Snapshot[r] \in TargetContents
              BY <1>2, <2>2 DEF Snapshot
            <7>2. QED
              BY <2>1, <4>1, <4>4, <6>1, <7>1, ContentValues DEF Exists
          <6>2. CASE ~cmd.resume
            BY <2>1, <2>2, <4>1, <6>2, ContentValues
          <6>3. QED
            BY <6>1, <6>2
        <5>2. QED
          BY <2>1, <2>6, <4>2, <4>4, <5>1 DEF Copies
      <4>5. QED
        BY <4>3, <4>4
    <3>4. QED
      BY <3>1, <3>2, <3>3
  \* The others stay as they are.
  <2>8. ASSUME NEW r \in Rows, TableOf[r] # Order[cmd.i]
        PROVE  cmd'.mine[r] = cmd.mine[r] /\ (Done(r) => Copies(r)')
    <3>1. Inserted[r] = 0 /\ cmd'.mine[r] = cmd.mine[r]
      BY <2>3, <2>8, InsertedProperties
    <3>2. ASSUME Done(r) PROVE Copies(r)'
      <4>1. cmd.i > 1 /\ Copies(r)
        BY <1>2, <2>5, <3>2 DEF Done
      <4>2. cmd'.snap[r] = cmd.snap[r]
        BY <2>1, <2>2, <4>1 DEF Snapshot
      <4>3. Copied'[r] = Copied[r]
        BY <2>1, <2>4, <3>1, <4>2, CopiedProperties
      <4>4. QED
        BY <2>1, <4>1, <4>3 DEF Copies
    <3>3. QED
      BY <3>1, <3>2
  <2>9. CASE /\ cmd'.pc = "copy"
             /\ \A r \in Rows : Done(r)' <=> Done(r) \/ TableOf[r] = Order[cmd.i]
    <3>1. \A r \in Rows : IF Done(r)' THEN Copies(r)' ELSE cmd'.mine[r] = 0
      BY <2>5, <2>7, <2>8, <2>9
    <3>2. QED
      BY <2>9, <3>1 DEF CopyInv
  <2>10. CASE /\ cmd'.pc = "compare"
              /\ \A r \in Rows : Done(r) \/ TableOf[r] = Order[cmd.i]
    <3>1. \A r \in Rows : Copies(r)'
      BY <2>7, <2>8, <2>10
    <3>2. QED
      BY <2>10, <3>1 DEF CopyInv
  <2>11. cmd.i > 0 /\ Advance("compare")
    BY <1>7, <2>1 DEF CopiedOne, TransactionInv
  <2>12. QED
    BY <1>2, <2>1, <2>9, <2>10, <2>11, DoneAdvance
<1>8. QED
  BY <1>1, <1>3, <1>4, <1>5, <1>6, <1>7, MigrationSteps

LEMMA StepCompare ==
  ASSUME SourceInv, TargetInv, CommandInv, MeasureInv, TransactionInv, CopyInv, CompareInv,
         [Next]_vars
  PROVE  CompareInv'
<1>1. SUFFICES ASSUME cmd'.name = "migrate", cmd'.pc \in {"compare", "check"} PROVE CompareInv'
  BY DEF CompareInv
<1>2. /\ source.rows \in [Rows -> 0..Gone] /\ source'.rows \in [Rows -> 0..Gone]
      /\ \A r \in Rows : source'.rows[r] >= source.rows[r]
      /\ cmd.i \in Nat
  BY StepSource DEF SourceInv, Grown, CommandInv
<1>3. TransactionInv' /\ CopyInv' /\ MeasureInv'
  BY StepTransaction, StepCopy, StepMeasure
<1>4. CASE Started \/ Measured \/ Prepared \/ Agreed \/ Committed \/ FilesCopied
  BY <1>1, <1>4 DEF Started, Measured, Prepared, Agreed, Committed, FilesCopied, Same, Fields
<1>5. CASE Beside /\ cmd.name = "migrate"
  <2>1. /\ cmd'.mine = cmd.mine /\ cmd'.snap = cmd.snap /\ cmd'.first = cmd.first
        /\ cmd'.pc = cmd.pc /\ cmd'.i = cmd.i /\ cmd'.again = cmd.again
        /\ cmd.instants \subseteq cmd'.instants
    BY <1>5 DEF Beside, Fields
  <2>2. PICK now \in cmd.instants : \A r \in Rows :
          /\ After(now, r)
          /\ IF cmd.pc = "check" \/ Done(r) THEN Before(now, r) ELSE cmd.again[r] = 0
    BY <1>1, <1>5, <2>1 DEF CompareInv
  <2>3. now \in [Rows -> 0..MaxVersion]
    BY <1>5 DEF MeasureInv
  <2>4. Copied' = Copied
    BY <2>1 DEF Copied, Over
  <2>5. ASSUME NEW r \in Rows
        PROVE  After(now, r)' /\ (Before(now, r) => Before(now, r)')
    <3>1. source.rows[r] = Gone => source'.rows[r] = Gone
      BY <1>2, ContentValues
    <3>2. now[r] \in 0..MaxVersion /\ source.rows[r] \in 0..Gone /\ source'.rows[r] \in 0..Gone
          /\ source'.rows[r] >= source.rows[r]
      BY <1>2, <2>3
    <3>3. After(now, r)
      BY <2>2
    <3>4. After(now, r)'
      BY <2>1, <2>4, <3>1, <3>2, <3>3, ContentValues DEF After
    <3>5. Before(now, r) => Before(now, r)'
      BY <2>1, <2>4, <3>1 DEF Before
    <3>6. QED
      BY <3>4, <3>5
  <2>6. \A r \in Rows : Done(r)' <=> Done(r)
    BY <2>1 DEF Done
  <2>7. \A r \in Rows :
          /\ After(now, r)'
          /\ IF cmd'.pc = "check" \/ Done(r)' THEN Before(now, r)' ELSE cmd'.again[r] = 0
    BY <2>1, <2>2, <2>5, <2>6
  <2>8. now \in cmd'.instants
    BY <2>1
  <2>9. QED
    BY <2>7, <2>8 DEF CompareInv
<1>6. CASE CopiedOne
  <2>1. PICK now : now = Actual(source.rows)
    OBVIOUS
  <2>2. /\ cmd'.instants = cmd.instants /\ cmd'.again = cmd.again /\ source' = source
        /\ cmd.name = "migrate" /\ cmd.pc = "copy" /\ Advance("compare")
    BY <1>6 DEF CopiedOne, Same, Fields
  <2>3. cmd'.i = 1 /\ cmd'.pc = "compare" /\ now \in cmd'.instants /\ cmd'.again = NoRows
    BY <1>1, <2>1, <2>2 DEF Advance, MeasureInv, TransactionInv
  <2>4. \A r \in Rows : ~Done(r)' /\ cmd'.again[r] = 0
    BY <2>3, ContentValues DEF Done
  <2>5. ASSUME NEW r \in Rows PROVE After(now, r)'
    <3>1. Copies(r)'
      BY <1>1, <1>3, <2>3 DEF CopyInv
    <3>2. /\ now[r] \in 0..MaxVersion
          /\ now[r] # 0 => now[r] = source.rows[r]
          /\ now[r] = 0 => source.rows[r] \in {0, Gone}
      BY <1>2, <2>1, ActualProperties
    <3>3. source.rows[r] \in 0..Gone
      BY <1>2
    <3>4. QED
      BY <2>2, <3>1, <3>2, <3>3, ContentValues DEF Copies, After
  <2>6. \A r \in Rows :
          /\ After(now, r)'
          /\ IF cmd'.pc = "check" \/ Done(r)' THEN Before(now, r)' ELSE cmd'.again[r] = 0
    BY <2>3, <2>4, <2>5
  <2>7. QED
    BY <2>3, <2>6 DEF CompareInv
<1>7. CASE ComparedOne
  <2>1. /\ cmd'.instants = cmd.instants /\ source' = source /\ cmd'.first = cmd.first
        /\ cmd'.mine = cmd.mine /\ cmd'.snap = cmd.snap
        /\ cmd.name = "migrate" /\ cmd.pc = "compare" /\ Advance("check")
        /\ cmd'.again = Over(cmd.again, Reading(source.rows))
    BY <1>7 DEF ComparedOne, Same, Fields
  <2>2. PICK now \in cmd.instants : \A r \in Rows :
          After(now, r) /\ IF Done(r) THEN Before(now, r) ELSE cmd.again[r] = 0
    BY <2>1 DEF CompareInv
  <2>3. now \in [Rows -> 0..MaxVersion] /\ cmd.again \in [Rows -> 0..MaxVersion] /\ cmd.i > 0
    BY <2>1 DEF MeasureInv, TransactionInv
  <2>4. Copied' = Copied
    BY <2>1 DEF Copied, Over
  <2>5. /\ Reading(source.rows) \in [Rows -> 0..MaxVersion]
        /\ \A r \in Rows : cmd'.again[r] = IF Reading(source.rows)[r] # 0
                                           THEN Reading(source.rows)[r] ELSE cmd.again[r]
    BY <1>2, <2>1, <2>3, ReadingProperties, OverVersions
  <2>6. ASSUME NEW r \in Rows PROVE After(now, r)'
    BY <2>1, <2>2, <2>4 DEF After
  <2>7. ASSUME NEW r \in Rows, TableOf[r] = Order[cmd.i] PROVE Before(now, r)'
    <3>1. After(now, r) /\ (cmd.again[r] = 0 \/ Before(now, r))
      BY <2>2
    <3>2. /\ now[r] \in 0..MaxVersion /\ cmd.again[r] \in 0..MaxVersion
          /\ source.rows[r] \in 0..Gone
      BY <1>2, <2>3
    <3>3. CASE Reading(source.rows)[r] # 0
      <4>1. cmd'.again[r] = source.rows[r] /\ source.rows[r] \in 1..MaxVersion
        BY <1>2, <2>5, <3>3, ReadingProperties
      <4>2. QED
        BY <2>1, <2>4, <3>1, <3>2, <4>1, ContentValues DEF After, Before
    <3>4. CASE Reading(source.rows)[r] = 0
      <4>1. cmd'.again[r] = cmd.again[r] /\ source.rows[r] \in {0, Gone}
        BY <1>2, <2>5, <2>7, <3>4, ReadingProperties
      <4>2. QED
        BY <2>1, <2>4, <3>1, <3>2, <4>1, ContentValues DEF After, Before
    <3>5. QED
      BY <3>3, <3>4
  <2>8. ASSUME NEW r \in Rows, TableOf[r] # Order[cmd.i]
        PROVE  cmd'.again[r] = cmd.again[r] /\ (Before(now, r) => Before(now, r)')
    <3>1. cmd'.again[r] = cmd.again[r]
      BY <1>2, <2>5, <2>8, ReadingProperties
    <3>2. QED
      BY <2>1, <2>4, <3>1 DEF Before
  <2>9. \A r \in Rows :
          IF cmd'.pc = "check" \/ Done(r)' THEN Before(now, r)' ELSE cmd'.again[r] = 0
    <3>1. CASE /\ cmd'.pc = "compare"
               /\ \A r \in Rows : Done(r)' <=> Done(r) \/ TableOf[r] = Order[cmd.i]
      BY <2>2, <2>7, <2>8, <3>1
    <3>2. CASE /\ cmd'.pc = "check"
               /\ \A r \in Rows : Done(r) \/ TableOf[r] = Order[cmd.i]
      BY <2>2, <2>7, <2>8, <3>2
    <3>3. QED
      BY <1>2, <2>1, <2>3, <3>1, <3>2, DoneAdvance
  <2>10. now \in cmd'.instants
    BY <2>1
  <2>11. QED
    BY <2>6, <2>9, <2>10 DEF CompareInv
<1>8. QED
  BY <1>1, <1>4, <1>5, <1>6, <1>7, MigrationSteps

\* What was copied of a row no request touched is what the comparison read.
LEMMA AgreedRows ==
  ASSUME TargetInv, TransactionInv, Agreed, NEW r \in Rows, r \notin cmd.touched
  PROVE  cmd.again[r] = Copied[r] /\ Copied'[r] = Copied[r]
<1>1. /\ cmd.name = "migrate" /\ cmd.pc = "check" /\ SameRows(cmd.again, View)
      /\ cmd'.mine = cmd.mine /\ cmd'.snap = Snapshot
  BY DEF Agreed, Same, Fields
<1>2. /\ cmd.mine \in [Rows -> 0..MaxVersion] /\ cmd.again \in [Rows -> 0..MaxVersion]
      /\ cmd.snap \in [Rows -> TargetContents] /\ target.rows \in [Rows -> TargetContents]
      /\ ~cmd.begun => ~cmd.resume /\ cmd.snap = NoRows
      /\ ~cmd.resume => target.rows[r] = 0
  BY <1>1 DEF TransactionInv, TargetInv, Copying
<1>3. Snapshot \in [Rows -> TargetContents] /\ cmd.mine \in [Rows -> TargetContents]
  BY <1>2, ContentValues DEF Snapshot
<1>4. /\ View \in [Rows -> TargetContents]
      /\ View[r] = IF cmd.mine[r] # 0 THEN cmd.mine[r] ELSE Snapshot[r]
  BY <1>3, OverProperties DEF View
<1>5. Snapshot[r] = cmd.snap[r]
  <2>1. CASE cmd.begun
    BY <2>1 DEF Snapshot
  <2>2. CASE ~cmd.begun
    BY <1>2, <2>2, ContentValues DEF Snapshot
  <2>3. QED
    BY <2>1, <2>2
<1>6. Copied[r] = View[r]
  BY <1>1, <1>4, <1>5, CopiedProperties
<1>7. cmd.again[r] = View[r]
  <2>1. /\ Exists(cmd.again, r) <=> Exists(View, r)
        /\ Exists(cmd.again, r) => cmd.again[r] = View[r]
    BY <1>1 DEF SameRows, Present
  <2>2. cmd.again[r] \in 0..MaxVersion /\ View[r] \in TargetContents
    BY <1>2, <1>4
  <2>3. QED
    BY <2>1, <2>2, ContentValues DEF Exists
<1>8. Copied'[r] = IF cmd.mine[r] # 0 THEN cmd.mine[r] ELSE Snapshot[r]
  BY <1>1 DEF Copied, Over
<1>9. QED
  BY <1>4, <1>6, <1>7, <1>8

\* When the two passes agree, the instant between them is that of the copy.
LEMMA AgreedInstant ==
  ASSUME TargetInv, MeasureInv, TransactionInv, CopyInv, CompareInv, Agreed
  PROVE  \E now \in cmd.instants : IsInstant(Copied, now)
<1>1. cmd.name = "migrate" /\ cmd.pc = "check"
  BY DEF Agreed
<1>2. cmd.again \in [Rows -> 0..MaxVersion]
  BY <1>1 DEF TransactionInv
<1>3. PICK now \in cmd.instants : \A r \in Rows : After(now, r) /\ Before(now, r)
  BY <1>1 DEF CompareInv
<1>4. now \in [Rows -> 0..MaxVersion]
  BY <1>1 DEF MeasureInv
<1>5. ASSUME NEW r \in Rows, r \notin cmd.touched
      PROVE  \/ Copied[r] = now[r]
             \/ Copied[r] = 0 /\ cmd.first[r] = 0 /\ source.rows[r] = Gone
  <2>1. /\ After(now, r) /\ Before(now, r)
        /\ cmd.again[r] = Copied[r] /\ cmd.again[r] \in 0..MaxVersion /\ now[r] \in 0..MaxVersion
    BY <1>2, <1>3, <1>4, <1>5, AgreedRows
  <2>2. QED
    BY <2>1, ContentValues DEF After, Before
<1>6. QED
  BY <1>5 DEF IsInstant

LEMMA StepInstant ==
  ASSUME SourceInv, TargetInv, CommandInv, MeasureInv, TransactionInv, CopyInv, CompareInv,
         InstantInv, [Next]_vars
  PROVE  InstantInv'
<1>1. SUFFICES ASSUME cmd'.name = "migrate", cmd'.pc \in {"commit", "files"} PROVE InstantInv'
  BY DEF InstantInv
<1>2. \A r \in Rows : source.rows[r] = Gone => source'.rows[r] = Gone
  BY StepSource, ContentValues DEF SourceInv, Grown
\* Rows that only change where a request touched them are still an instant.
<1>3. ASSUME NEW old, NEW new, NEW now, IsInstant(old, now), cmd'.first = cmd.first,
             cmd.touched \subseteq cmd'.touched,
             \A r \in Rows : r \in cmd'.touched \/ new[r] = old[r]
      PROVE  \A r \in Rows : \/ r \in cmd'.touched
                             \/ new[r] = now[r]
                             \/ new[r] = 0 /\ cmd'.first[r] = 0 /\ source'.rows[r] = Gone
  BY <1>2, <1>3 DEF IsInstant
<1>4. CASE Beside /\ cmd.name = "migrate"
  <2>1. /\ cmd'.mine = cmd.mine /\ cmd'.snap = cmd.snap /\ cmd'.first = cmd.first
        /\ cmd'.pc = cmd.pc /\ cmd.instants \subseteq cmd'.instants
        /\ cmd.touched \subseteq cmd'.touched
    BY <1>4 DEF Beside, Fields
  <2>2. CASE cmd.pc = "commit"
    <3>1. PICK now \in cmd.instants : IsInstant(Copied, now)
      BY <1>4, <2>2 DEF InstantInv
    <3>2. Copied' = Copied
      BY <2>1 DEF Copied, Over
    <3>3. IsInstant(Copied, now)'
      BY <1>3, <2>1, <3>1, <3>2 DEF IsInstant
    <3>4. QED
      BY <2>1, <2>2, <3>1, <3>3 DEF InstantInv
  <2>3. CASE cmd.pc = "files"
    <3>1. PICK now \in cmd.instants : IsInstant(target.rows, now)
      BY <1>4, <2>3 DEF InstantInv
    <3>2. \A r \in Rows : r \in cmd'.touched \/ target'.rows[r] = target.rows[r]
      BY <1>4, <2>3 DEF Beside
    <3>3. IsInstant(target.rows, now)'
      BY <1>3, <2>1, <3>1, <3>2 DEF IsInstant
    <3>4. QED
      BY <2>1, <2>3, <3>1, <3>3 DEF InstantInv
  <2>4. QED
    BY <1>1, <2>1, <2>2, <2>3
<1>5. CASE Started \/ Measured \/ Prepared \/ CopiedOne \/ ComparedOne
  BY <1>1, <1>5 DEF Started, Measured, Prepared, CopiedOne, ComparedOne, Advance, Same, Fields
<1>6. CASE Agreed
  <2>1. /\ cmd'.first = cmd.first /\ cmd'.touched = cmd.touched
        /\ cmd'.pc = "commit" /\ cmd'.instants = cmd.instants
    BY <1>6 DEF Agreed, Same, Fields
  <2>2. PICK now \in cmd.instants : IsInstant(Copied, now)
    BY <1>6, AgreedInstant
  <2>3. \A r \in Rows : r \in cmd'.touched \/ Copied'[r] = Copied[r]
    BY <1>6, <2>1, AgreedRows
  <2>4. IsInstant(Copied, now)'
    BY <1>3, <2>1, <2>2, <2>3 DEF IsInstant
  <2>5. QED
    BY <2>1, <2>2, <2>4 DEF InstantInv
<1>7. CASE Committed
  <2>1. /\ cmd'.first = cmd.first /\ cmd'.pc = "files" /\ cmd'.instants = cmd.instants
        /\ cmd'.touched = cmd.touched /\ cmd.name = "migrate" /\ cmd.pc = "commit"
        /\ target' = [target EXCEPT !.rows = Over(@, cmd.mine)]
    BY <1>7 DEF Committed, Same, Fields
  <2>2. PICK now \in cmd.instants : IsInstant(Copied, now)
    BY <2>1 DEF InstantInv
  <2>3. /\ cmd.mine \in [Rows -> TargetContents] /\ target.rows \in [Rows -> TargetContents]
        /\ \A r \in Rows : r \in cmd.touched \/ target.rows[r] = cmd.snap[r]
    BY <2>1, ContentValues DEF TransactionInv, TargetInv
  <2>4. \A r \in Rows : target'.rows[r] = IF cmd.mine[r] # 0 THEN cmd.mine[r] ELSE target.rows[r]
    <3>1. target'.rows = Over(target.rows, cmd.mine)
      BY <2>1 DEF TargetInv
    <3>2. QED
      BY <3>1 DEF Over
  <2>5. \A r \in Rows : r \in cmd'.touched \/ target'.rows[r] = Copied[r]
    BY <2>1, <2>3, <2>4, CopiedProperties
  <2>6. IsInstant(target.rows, now)'
    BY <1>3, <2>1, <2>2, <2>5 DEF IsInstant
  <2>7. QED
    BY <2>1, <2>2, <2>6 DEF InstantInv
<1>8. CASE FilesCopied
  <2>1. /\ cmd'.first = cmd.first /\ cmd'.pc = cmd.pc /\ cmd.pc = "files"
        /\ cmd'.instants = cmd.instants /\ cmd.name = "migrate" /\ target' = target
        /\ cmd'.touched = cmd.touched
    BY <1>8 DEF FilesCopied, Same, Fields
  <2>2. PICK now \in cmd.instants : IsInstant(target.rows, now)
    BY <2>1 DEF InstantInv
  <2>3. IsInstant(target.rows, now)'
    BY <1>3, <2>1, <2>2 DEF IsInstant
  <2>4. QED
    BY <2>1, <2>2, <2>3 DEF InstantInv
<1>9. QED
  BY <1>1, <1>4, <1>5, <1>6, <1>7, <1>8, MigrationSteps

-----------------------------------------------------------------------------
(* The file trees                                                          *)

LEMMA StepFiles ==
  ASSUME SourceInv, TargetInv, CommandInv, TransactionInv, FilesInv, [Next]_vars
  PROVE  FilesInv'
<1>1. /\ files \in [source : [Files -> 0..Gone], target : [Files -> Contents]]
      /\ DOMAIN cmd = Fields /\ DOMAIN Idle = Fields /\ Idle.name = "none"
  BY IdleFields DEF FilesInv, CommandInv
<1>2. 0..Gone \subseteq Contents /\ Torn \in Contents
  BY ContentValues DEF Contents, Torn
<1>3. ASSUME NEW f \in Files, CopyFile(f) PROVE FilesInv'
  <2>1. cmd.name = "migrate" /\ cmd.pc = "files" /\ cmd.file = {} /\ f \in cmd.todo
    BY <1>3 DEF CopyFile, CommandInv
  <2>2. /\ cmd.kept \subseteq Files /\ cmd.todo \subseteq Files
        /\ \A g \in cmd.kept \ cmd.todo : files.target[g] = files.source[g]
        /\ \A g \in cmd.kept : files.source[g] # Gone
    BY <2>1 DEF FilesInv
  <2>3. CASE /\ cmd' = [cmd EXCEPT !.todo = @ \ {f}] /\ files' = files
             /\ files.source[f] = Gone \/ files.target[f] = files.source[f]
    <3>1. /\ cmd'.name = "migrate" /\ cmd'.pc = "files" /\ cmd'.file = {} /\ cmd'.kept = cmd.kept
          /\ cmd'.todo = cmd.todo \ {f}
      BY <1>1, <2>1, <2>3 DEF Fields
    <3>2. QED
      BY <1>1, <2>2, <2>3, <3>1 DEF FilesInv
  <2>4. CASE cmd' = [cmd EXCEPT !.file = {f}] /\ files' = [files EXCEPT !.target[f] = Torn]
    <3>1. /\ cmd'.name = "migrate" /\ cmd'.pc = "files" /\ cmd'.file = {f} /\ cmd'.kept = cmd.kept
          /\ cmd'.todo = cmd.todo
      BY <1>1, <2>1, <2>4 DEF Fields
    <3>2. /\ files' \in [source : [Files -> 0..Gone], target : [Files -> Contents]]
          /\ files'.source = files.source /\ files'.target[f] = Torn
          /\ \A g \in Files \ {f} : files'.target[g] = files.target[g]
      BY <1>1, <1>2, <2>4
    <3>3. QED
      BY <2>1, <2>2, <3>1, <3>2 DEF FilesInv
  <2>5. CASE cmd' = Idle /\ files' = files
    BY <1>1, <2>5 DEF FilesInv
  <2>6. QED
    BY <1>3, <2>3, <2>4, <2>5 DEF CopyFile, Report, End
<1>4. ASSUME NEW f \in Files, FinishFile(f) PROVE FilesInv'
  <2>1. cmd.name = "migrate" /\ cmd.pc = "files" /\ cmd.file = {f}
    BY <1>4 DEF FinishFile, CommandInv
  <2>2. /\ cmd.kept \subseteq Files /\ cmd.todo \subseteq Files
        /\ \A g \in cmd.kept \ cmd.todo : files.target[g] = files.source[g]
        /\ \A g \in cmd.kept : files.source[g] # Gone
    BY <2>1 DEF FilesInv
  <2>3. CASE /\ cmd' = [cmd EXCEPT !.file = {}, !.todo = @ \ {f}]
             /\ \E read \in Contents : /\ files' = [files EXCEPT !.target[f] = read]
                                       /\ f \in cmd.kept => read = files.source[f]
    <3>1. /\ cmd'.name = "migrate" /\ cmd'.pc = "files" /\ cmd'.file = {} /\ cmd'.kept = cmd.kept
          /\ cmd'.todo = cmd.todo \ {f}
      BY <1>1, <2>1, <2>3 DEF Fields
    <3>2. PICK read \in Contents : /\ files' = [files EXCEPT !.target[f] = read]
                                   /\ f \in cmd.kept => read = files.source[f]
      BY <2>3
    <3>3. /\ files' \in [source : [Files -> 0..Gone], target : [Files -> Contents]]
          /\ files'.source = files.source /\ files'.target[f] = read
          /\ \A g \in Files \ {f} : files'.target[g] = files.target[g]
      BY <1>1, <3>2
    <3>4. QED
      BY <2>2, <3>1, <3>2, <3>3 DEF FilesInv
  <2>4. CASE cmd' = Idle /\ files' = files
    BY <1>1, <2>4 DEF FilesInv
  <2>5. files.source[f] \in Contents
    BY <1>1, <1>2
  <2>6. QED
    BY <1>2, <1>4, <2>3, <2>4, <2>5 DEF FinishFile, Report, End
<1>5. ASSUME NEW f \in Files, NEW new \in {files.source[f] + 1, Gone}, files.source[f] < MaxVersion,
             files' = [files EXCEPT !.source[f] = new], cmd' = [cmd EXCEPT !.kept = @ \ {f}]
      PROVE  FilesInv'
  <2>1. /\ cmd'.name = cmd.name /\ cmd'.pc = cmd.pc /\ cmd'.file = cmd.file
        /\ cmd'.kept = cmd.kept \ {f} /\ cmd'.todo = cmd.todo
    BY <1>1, <1>5 DEF Fields
  <2>2. new \in 0..Gone
    BY <1>1, <1>5, ContentValues
  <2>3. /\ files' \in [source : [Files -> 0..Gone], target : [Files -> Contents]]
        /\ files'.target = files.target
        /\ \A g \in Files \ {f} : files'.source[g] = files.source[g]
    BY <1>1, <1>5, <2>2
  <2>4. QED
    BY <2>1, <2>3 DEF FilesInv
<1>6. ASSUME files' = files PROVE FilesInv'
  <2>1. CASE cmd'.name # "migrate"
    BY <1>1, <1>6, <2>1 DEF FilesInv
  <2>2. CASE Beside /\ cmd.name = "migrate"
    <3>1. /\ cmd'.name = cmd.name /\ cmd'.pc = cmd.pc /\ cmd'.file = cmd.file
          /\ cmd'.kept \subseteq cmd.kept /\ cmd'.todo = cmd.todo
      BY <2>2 DEF Beside, Fields
    <3>2. QED
      BY <1>1, <1>6, <2>2, <3>1 DEF FilesInv
  <2>3. CASE Started
    BY <1>1, <1>6, <2>3 DEF Started, FilesInv
  <2>4. CASE Measured \/ Prepared \/ CopiedOne \/ ComparedOne \/ Agreed
    <3>1. /\ cmd'.file = cmd.file /\ cmd'.kept = cmd.kept /\ cmd'.todo = cmd.todo
          /\ cmd.name = "migrate" /\ cmd.pc # "files" /\ cmd'.pc # "files"
      BY <2>4 DEF Measured, Prepared, CopiedOne, ComparedOne, Agreed, Advance, Same, Fields
    <3>2. QED
      BY <1>1, <1>6, <3>1 DEF FilesInv
  <2>5. CASE Committed
    <3>1. /\ cmd'.file = cmd.file /\ cmd'.kept = cmd'.todo /\ cmd'.kept \subseteq Files
          /\ cmd.name = "migrate" /\ cmd.pc # "files"
          /\ \A f \in cmd'.kept : files.source[f] # Gone
      BY <2>5, ContentValues DEF Committed, Same, Fields
    <3>2. cmd'.file = {}
      BY <3>1 DEF FilesInv
    <3>3. QED
      BY <1>1, <1>6, <3>1, <3>2 DEF FilesInv
  <2>6. CASE FilesCopied
    BY <1>3, <1>4, <2>6 DEF FilesCopied
  <2>7. QED
    BY <2>1, <2>2, <2>3, <2>4, <2>5, <2>6, MigrationSteps
<1>7. \/ files' = files
      \/ \E f \in Files : CopyFile(f) \/ FinishFile(f)
      \/ \E f \in Files : \E new \in {files.source[f] + 1, Gone} :
           /\ files.source[f] < MaxVersion /\ files' = [files EXCEPT !.source[f] = new]
           /\ cmd' = [cmd EXCEPT !.kept = @ \ {f}]
  <2>1. CASE SourceWrite
    BY <2>1 DEF SourceWrite
  <2>2. CASE Migrate
    BY <2>2 DEF Migrate, MeasureSource, PlanFiles, InspectTarget, CopyTable, CompareTable,
       CompareTarget, CommitRows, Reconcile, UpgradeStep
  <2>3. CASE \/ EnsureColumns \/ SeedSource \/ StopDashboard \/ TargetWrite \/ StartUpgrade
             \/ UpgradeStep \/ SeedTarget \/ FinishBackup \/ Stamp \/ Crash \/ UNCHANGED vars
             \/ \E p \in Backups : StartAdoption(p)
             \/ \E opt \in Options : StartMigration(opt)
             \/ \E env \in Environments : StartDashboard(env)
    BY <2>3 DEF EnsureColumns, SeedSource, StopDashboard, TargetWrite, StartUpgrade, UpgradeStep,
       SeedTarget, FinishBackup, Stamp, Crash, vars, StartAdoption, StartMigration, StartDashboard
  <2>4. QED
    BY <2>1, <2>2, <2>3 DEF Next
<1>8. QED
  BY <1>3, <1>4, <1>5, <1>6, <1>7

-----------------------------------------------------------------------------
(* The theorems                                                            *)

LEMMA InitInv == Init => IInv
<1> SUFFICES ASSUME Init PROVE IInv
  OBVIOUS
<1>1. /\ cmd = Idle /\ report = "none" /\ target = [made |-> 0, version |-> "none", rows |-> NoRows]
      /\ app = [source |-> "down", target |-> "down", boot |-> "none"]
      /\ files = [source |-> [f \in Files |-> 1], target |-> [f \in Files |-> 0]]
      /\ backups = [p \in Backups |-> "none"]
  BY DEF Init
<1>2. cmd.name = "none" /\ cmd.pc = "idle" /\ cmd.i = 0 /\ TableCount \in Nat
  BY <1>1, IdleFields, CountPlaces
<1>3. SourceInv
  <2> DEFINE old == [r \in Rows |-> IF r \in TargetOwn THEN 0 ELSE 1]
  <2>1. /\ old \in [Rows -> 0..Gone] /\ NoRows \in [Rows -> 0..Gone]
        /\ \A r \in Rows : old[r] # Gone /\ NoRows[r] # Gone
    BY ContentValues
  <2>2. \/ source \in [made : {TRUE}, missing : {1}, stamped : {FALSE}, rows : {old}]
        \/ source = [made |-> FALSE, missing |-> 0, stamped |-> FALSE, rows |-> NoRows]
    BY DEF Init
  <2> HIDE DEF old
  <2>3. CASE source \in [made : {TRUE}, missing : {1}, stamped : {FALSE}, rows : {old}]
    <3>1. /\ source.made = TRUE /\ source.missing = 1 /\ source.stamped = FALSE /\ source.rows = old
          /\ source = [made |-> TRUE, missing |-> 1, stamped |-> FALSE, rows |-> old]
      BY <2>3
    <3>2. source \in [made : BOOLEAN, missing : 0..1, stamped : BOOLEAN, rows : [Rows -> 0..Gone]]
      BY <2>1, <3>1
    <3>3. QED
      BY <2>1, <3>1, <3>2 DEF SourceInv
  <2>4. CASE source = [made |-> FALSE, missing |-> 0, stamped |-> FALSE, rows |-> NoRows]
    BY <2>1, <2>4 DEF SourceInv
  <2>5. QED
    BY <2>2, <2>3, <2>4
<1>4. TargetInv
  BY <1>1, <1>2, ContentValues DEF TargetInv, NoRows
<1>5. ServeInv /\ BackupInv
  <2>1. source.stamped = FALSE
    <3>1. CASE source = [made |-> FALSE, missing |-> 0, stamped |-> FALSE, rows |-> NoRows]
      BY <3>1
    <3>2. CASE \E old : source \in [made : {TRUE}, missing : {1}, stamped : {FALSE}, rows : {old}]
      BY <3>2
    <3>3. QED
      BY <3>1, <3>2 DEF Init
  <2>2. ServeInv
    BY <1>1, <2>1 DEF ServeInv
  <2>3. BackupInv
    BY <1>1, <1>2, <2>1 DEF BackupInv
  <2>4. QED
    BY <2>2, <2>3
<1>6. CommandInv
  BY <1>1, <1>2 DEF CommandInv
<1>7. MeasureInv /\ TransactionInv /\ CopyInv /\ CompareInv /\ InstantInv
  BY <1>2 DEF MeasureInv, TransactionInv, CopyInv, CompareInv, InstantInv
<1>8. FilesInv
  BY <1>1, <1>2, ContentValues DEF FilesInv, Contents, Torn
<1>9. QED
  BY <1>3, <1>4, <1>5, <1>6, <1>7, <1>8 DEF IInv

LEMMA StepInv == IInv /\ [Next]_vars => IInv'
BY StepSource, StepTarget, StepServe, StepCommand, StepBackup, StepMeasure, StepTransaction,
   StepCopy, StepCompare, StepInstant, StepFiles DEF IInv

LEMMA Invariance == Spec => []IInv
BY InitInv, StepInv, PTL DEF Spec

\* The state of every component stays within its type, whatever fails: no
\* upgrade creates a table more than there are, no file is in no tree.
THEOREM TypeCorrect == Spec => []TypeOK
<1>1. IInv => TypeOK
  <2>1. TargetContents \subseteq 0..Changed
    BY ContentValues DEF TargetContents
  <2>2. SourceInv /\ TargetInv /\ ServeInv /\ CommandInv /\ BackupInv /\ FilesInv => TypeOK
    BY <2>1 DEF SourceInv, TargetInv, ServeInv, CommandInv, BackupInv, FilesInv, TypeOK, Supported
  <2>3. QED
    BY <2>2 DEF IInv
<1>2. QED
  BY <1>1, Invariance, PTL

\* A dashboard only serves a whole schema, whatever upgrades, crashes and
\* restarts came before (verify_database_ready, init_dashboard).
THEOREM ServedCorrect == Spec => []ServedIsWhole
<1>1. IInv => ServedIsWhole
  BY DEF IInv, ServeInv, TargetInv, ServedIsWhole, Healthy, TargetReady
<1>2. QED
  BY <1>1, Invariance, PTL

\* A database is never stamped without a whole backup of it, even when
\* backups fail, commands die and are repeated (adopt_sqlite_database).
THEOREM BackupCorrect == Spec => []BackedUpBeforeStamp
<1>1. IInv => BackedUpBeforeStamp
  BY DEF IInv, BackupInv, BackedUpBeforeStamp
<1>2. QED
  BY <1>1, Invariance, PTL

SnapshotCommitted ==
  \E rows \in cmd.instants : \A r \in Rows \ cmd.touched :
    \/ Actual(target'.rows)[r] = rows[r]
    \/ CameAndWent(target'.rows, r)

LEMMA CommitStep == IInv /\ IInv' /\ CommitRows => SnapshotCommitted
<1> SUFFICES ASSUME IInv, IInv', CommitRows PROVE SnapshotCommitted
  OBVIOUS
<1>1. cmd.name = "migrate" /\ DOMAIN cmd = Fields /\ source' = source
  BY IdleFields DEF IInv, CommandInv, CommitRows
<1>2. /\ cmd'.name = "migrate" /\ cmd'.pc = "files" /\ cmd'.touched = cmd.touched
      /\ cmd'.instants = cmd.instants /\ cmd'.first = cmd.first
  BY <1>1 DEF CommitRows, Fields
<1>3. PICK now \in cmd.instants : IsInstant(target.rows, now)'
  BY <1>2 DEF IInv, InstantInv
<1>4. now \in [Rows -> 0..MaxVersion] /\ target'.rows \in [Rows -> TargetContents]
  BY <1>1 DEF IInv, MeasureInv, TargetInv
<1>5. ASSUME NEW r \in Rows \ cmd.touched
      PROVE  \/ Actual(target'.rows)[r] = now[r]
             \/ CameAndWent(target'.rows, r)
  <2>1. \/ target'.rows[r] = now[r]
        \/ target'.rows[r] = 0 /\ cmd.first[r] = 0 /\ source.rows[r] = Gone
    BY <1>1, <1>2, <1>3 DEF IsInstant
  <2>2. now[r] \in 0..MaxVersion
    BY <1>4
  <2>3. target'.rows[r] = now[r] => Actual(target'.rows)[r] = now[r]
    BY <2>2, ContentValues DEF Actual, Exists
  <2>4. QED
    BY <2>1, <2>3 DEF CameAndWent, Exists
<1>6. QED
  BY <1>5 DEF SnapshotCommitted

\* The rows a migration commits, with those it found, are rows the source had
\* at one instant of the migration, although they were read table by table
\* while requests changed the source, but for what came and went there and what
\* a dashboard on the target wrote or deleted since (_copy_database_rows).
THEOREM CommitsCorrect == Spec => CommitsSnapshot
<1>1. IInv /\ IInv' /\ [Next]_vars => [CommitRows => SnapshotCommitted]_vars
  BY CommitStep
<1>2. QED
  BY <1>1, Invariance, PTL DEF Spec, CommitsSnapshot, SnapshotCommitted

SnapshotCompleted ==
  \E rows \in cmd.instants : \A r \in Rows :
    IF r \in cmd.touched THEN Actual(target.rows)[r] = cmd.first[r]
    ELSE Actual(target.rows)[r] = rows[r] \/ CameAndWent(target.rows, r)

LEMMA CompletedStep == IInv /\ Reconcile /\ report' = "completed" => SnapshotCompleted
<1> SUFFICES ASSUME IInv, Reconcile, report' = "completed" PROVE SnapshotCompleted
  OBVIOUS
<1>1. cmd.name = "migrate" /\ cmd.pc = "files" /\ SameRows(cmd.first, target.rows)
  BY DEF IInv, CommandInv, Reconcile, Report
<1>2. PICK now \in cmd.instants : IsInstant(target.rows, now)
  BY <1>1 DEF IInv, InstantInv
<1>3. /\ now \in [Rows -> 0..MaxVersion] /\ target.rows \in [Rows -> TargetContents]
      /\ cmd.first \in [Rows -> 0..MaxVersion]
  BY <1>1 DEF IInv, MeasureInv, TargetInv
<1>4. ASSUME NEW r \in Rows PROVE Actual(target.rows)[r] = cmd.first[r]
  <2>1. /\ Exists(cmd.first, r) <=> Exists(target.rows, r)
        /\ Exists(cmd.first, r) => cmd.first[r] = target.rows[r]
    BY <1>1 DEF SameRows, Present
  <2>2. cmd.first[r] \in 0..MaxVersion
    BY <1>3
  <2>3. QED
    BY <2>1, <2>2, ContentValues DEF Actual, Exists
<1>5. ASSUME NEW r \in Rows \ cmd.touched
      PROVE  Actual(target.rows)[r] = now[r] \/ CameAndWent(target.rows, r)
  <2>1. \/ target.rows[r] = now[r]
        \/ target.rows[r] = 0 /\ cmd.first[r] = 0 /\ source.rows[r] = Gone
    BY <1>2 DEF IsInstant
  <2>2. now[r] \in 0..MaxVersion
    BY <1>3
  <2>3. target.rows[r] = now[r] => Actual(target.rows)[r] = now[r]
    BY <2>2, ContentValues DEF Actual, Exists
  <2>4. QED
    BY <2>1, <2>3 DEF CameAndWent, Exists
<1>6. QED
  BY <1>4, <1>5 DEF SnapshotCompleted

\* "completed" is only reported when the target holds the rows the source had
\* at one instant of the migration, but for what came and went, and those a
\* dashboard on the target wrote or deleted are as first measured
\* (migrate_sqlite_database).
THEOREM CompletedCorrect == Spec => CompletedIsSnapshot
<1>1. IInv /\ IInv' /\ [Next]_vars =>
        [Reconcile /\ report' = "completed" => SnapshotCompleted]_vars
  BY CompletedStep
<1>2. QED
  BY <1>1, Invariance, PTL DEF Spec, CompletedIsSnapshot, SnapshotCompleted

FilesCompleted == \A f \in cmd.kept : files.target[f] = files.source[f]

\* ... and when every file it listed, and no request wrote since, is the same
\* on both sides, also after an earlier copy was cut short (_copy_file_trees).
THEOREM CompletedFilesCorrect == Spec => CompletedMeansFiles
<1>1. IInv /\ Reconcile => FilesCompleted
  <2> SUFFICES ASSUME IInv, Reconcile PROVE FilesCompleted
    OBVIOUS
  <2>1. cmd.name = "migrate" /\ cmd.pc = "files" /\ cmd.todo = {}
    BY DEF IInv, CommandInv, Reconcile
  <2>2. \A f \in cmd.kept \ cmd.todo : files.target[f] = files.source[f]
    BY <2>1 DEF IInv, FilesInv
  <2>3. QED
    BY <2>1, <2>2 DEF FilesCompleted
<1>2. IInv /\ IInv' /\ [Next]_vars =>
        [Reconcile /\ report' = "completed" => FilesCompleted]_vars
  BY <1>1
<1>3. QED
  BY <1>2, Invariance, PTL DEF Spec, CompletedMeansFiles, FilesCompleted

Overwritten ==
  \/ \E r \in Present(target.rows) : target'.rows[r] # target.rows[r]
  \/ \E f \in Files : files.target[f] \in 1..MaxVersion /\ files'.target[f] # files.target[f]

LEMMA MigrateKeeps == IInv /\ Migrate => ~Overwritten
<1> SUFFICES ASSUME IInv, Migrate PROVE ~Overwritten
  OBVIOUS
<1>1. /\ files \in [source : [Files -> 0..Gone], target : [Files -> Contents]]
      /\ target \in [made : 0..TableCount, version : {"none", "empty", "head"},
                     rows : [Rows -> TargetContents]]
  BY DEF IInv, FilesInv, TargetInv
<1>2. ASSUME target' = target, files' = files PROVE ~Overwritten
  BY <1>2 DEF Overwritten
<1>3. CASE \/ MeasureSource \/ PlanFiles \/ InspectTarget \/ CopyTable \/ CompareTable
           \/ CompareTarget \/ Reconcile
  BY <1>2, <1>3 DEF MeasureSource, PlanFiles, InspectTarget, CopyTable, CompareTable,
     CompareTarget, Reconcile
<1>4. CASE CommitRows
  <2>1. /\ target' = [target EXCEPT !.rows = Over(@, cmd.mine)] /\ files' = files
        /\ cmd.name = "migrate"
    BY <1>4 DEF CommitRows, IInv, CommandInv
  <2>2. \A r \in Rows : cmd.mine[r] # 0 => target.rows[r] = 0
    BY <2>1 DEF IInv, TransactionInv
  <2>3. \A r \in Rows : target'.rows[r] = IF cmd.mine[r] # 0 THEN cmd.mine[r] ELSE target.rows[r]
    BY <1>1, <2>1 DEF Over
  <2>4. QED
    BY <2>1, <2>2, <2>3 DEF Overwritten, Present, Exists
<1>5. ASSUME NEW f \in Files, CopyFile(f) PROVE ~Overwritten
  <2>1. /\ target' = target
        /\ \/ files' = files
           \/ files.target[f] = 0 /\ files' = [files EXCEPT !.target[f] = Torn]
    BY <1>5 DEF CopyFile
  <2>2. QED
    BY <1>1, <2>1 DEF Overwritten
<1>6. ASSUME NEW f \in Files, FinishFile(f) PROVE ~Overwritten
  <2>1. /\ target' = target
        /\ files' = files \/ \E read : files' = [files EXCEPT !.target[f] = read]
    BY <1>6 DEF FinishFile
  <2>2. files.target[f] = Torn
    BY <1>6 DEF FinishFile, IInv, CommandInv, FilesInv
  <2>3. Torn \notin 1..MaxVersion
    BY ContentValues DEF Torn
  <2>4. QED
    BY <1>1, <2>1, <2>2, <2>3 DEF Overwritten
<1>7. CASE UpgradeStep
  <2>1. files' = files /\ target'.rows = target.rows
    BY <1>1, <1>7 DEF UpgradeStep
  <2>2. QED
    BY <2>1 DEF Overwritten
<1>8. QED
  BY <1>3, <1>4, <1>5, <1>6, <1>7 DEF Migrate

\* A migration never changes or removes a row or a whole file it found.
THEOREM NothingOverwrittenCorrect == Spec => NothingOverwritten
<1>1. ~Overwritten =>
        /\ \A r \in Present(target.rows) : target'.rows[r] = target.rows[r]
        /\ \A f \in Files : files.target[f] \in 1..MaxVersion =>
                             files'.target[f] = files.target[f]
  BY DEF Overwritten
<1>2. IInv /\ IInv' /\ [Next]_vars =>
        [Migrate => /\ \A r \in Present(target.rows) : target'.rows[r] = target.rows[r]
                    /\ \A f \in Files : files.target[f] \in 1..MaxVersion =>
                                         files'.target[f] = files.target[f]]_vars
  BY <1>1, MigrateKeeps
<1>3. QED
  BY <1>2, Invariance, PTL DEF Spec, NothingOverwritten
=============================================================================
