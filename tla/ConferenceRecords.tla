-------------------------- MODULE ConferenceRecords --------------------------
(***************************************************************************)
(* Conference records, their milestones and spreadsheet imports:           *)
(* app/dashboard.py, create_conference, update_conference,                 *)
(* update_conference_milestone, refresh_conference, apply_import,          *)
(* rollback_import and delete_conference_record, all of which end in       *)
(* recalculate (except the last two) and one commit.                       *)
(*                                                                         *)
(* Every request has a session of its own.  FastAPI runs the plain `def'   *)
(* endpoints on a thread pool, so several sessions are open at once; on    *)
(* MariaDB 10.6 each of them reads from the snapshot of its first SELECT   *)
(* (REPEATABLE READ) and writes, at its commit, the columns whose value    *)
(* differs from the one it loaded.  A request is therefore two steps:      *)
(* one that reads and computes, and Commit.  `async def' endpoints never   *)
(* overlap one another.                                                    *)
(*                                                                         *)
(* The score is represented by what it is computed from, the milestone     *)
(* statuses; dates, issues, contacts and the append-only history, snapshot *)
(* and score tables, which no request below reads, are left out.           *)
(***************************************************************************)
EXTENDS Naturals, FiniteSets, MilestoneRules

CONSTANTS
  Confs,           \* conference ids (uuid4, never reused)
  Key,             \* the normalized acronym and year of each of them
  Codes,           \* the codes of the milestone definitions
  Files,           \* spreadsheets: [key, cells, sheet], see below
  Selections,      \* sets of columns a user may tick before applying
  ManualTitles,    \* titles a user may enter
  ManualStatuses,  \* milestone statuses a user may choose
  Absent, Deleted, \* a conference without a row: not created yet, deleted
  None,            \* no session, no file, no conference
  Slots,           \* requests that can be in progress at once
  MaxBatches       \* bound: imports

FactFields == {"application_status", "finance_status", "publication_status"}
Required   == {"official_title", "sponsorship_type", "conference_series"}
Fields     == FactFields \cup Required

\* cells: some columns of a Conferences row; sheet: a row of Milestones.
ASSUME FilesAssumption ==
  \A file \in Files :
    /\ DOMAIN file.cells \subseteq Fields
    /\ DOMAIN file.sheet \subseteq Codes
    /\ \A f \in DOMAIN file.cells \cap FactFields : file.cells[f] \in Statuses
    /\ \A k \in DOMAIN file.sheet : file.sheet[k] \in Statuses

ASSUME CodesAssumption ==
  /\ "APPLICATION" \in Codes
  /\ Codes \subseteq {"APPLICATION"} \cup FinanceCodes \cup PublicationCodes

ASSUME BoundsAssumption ==
  IsFiniteSet(Slots) /\ MaxBatches \in Nat /\ ManualStatuses \subseteq Statuses

\* The columns of a conference, and a conference with milestones and score.
Values ==
  Statuses \cup ManualTitles \cup {"Own", "Flagship", "TCS"} \cup
  UNION {{file.cells[f] : f \in DOMAIN file.cells} : file \in Files}
Columns == {row \in [Fields -> Values] : \A f \in FactFields : row[f] \in Statuses}
Rows    == [row : Columns, ms : [Codes -> Statuses], score : [Codes -> Statuses]]

ASSUME SentinelAssumption ==
  Absent # Deleted /\ Absent \notin Rows /\ Deleted \notin Rows /\ None \notin Confs

VARIABLES
  db,        \* the conferences table with its milestones: [row, ms, score]
  batches,   \* import_batches: the file and import_status of each
  changes,   \* field_changes of imports
  open,      \* the session of each busy request slot
  undone     \* conferences rolled back since they were last recalculated

vars == <<db, batches, changes, open, undone>>

Existing == {c \in Confs : db[c] \notin {Absent, Deleted}}
Entry(b, c, f, old, new) ==
  [batch |-> b, conf |-> c, field |-> f, old |-> old, new |-> new]

Init ==
  /\ db = [c \in Confs |-> Absent]
  /\ batches = [b \in {} |-> None]
  /\ changes = {}
  /\ open = [t \in Slots |-> None]
  /\ undone = {}

-----------------------------------------------------------------------------
(* Derived values                                                          *)

\* sync_conference_facts_from_milestones.
SyncFacts(row, ms) ==
  [row EXCEPT
    !.application_status = ms["APPLICATION"],
    !.finance_status = FinanceStatus(ms, @),
    !.publication_status = PublicationStatus(ms, @)]

IsTcs(row) == row.sponsorship_type = "TCS" \/ row.conference_series = "TCS"

\* apply_tcs_conference_policy.
PolicyRow(row) == IF IsTcs(row) THEN [row EXCEPT !.conference_series = "TCS"] ELSE row
PolicyMilestones(row, ms) == FinanceExcluded(IsTcs(row), ms)

\* NothingToRecalculate: the facts are derived before the policy applies.
RecalculateFactsFirst(row, ms) ==
  LET ms2 == PolicyMilestones(row, ms)
  IN [row |-> SyncFacts(PolicyRow(row), ms), ms |-> ms2, score |-> ms2]

\* recalculate.
Recalculate(row, ms) ==
  LET ms2 == PolicyMilestones(row, ms)
  IN [row |-> SyncFacts(PolicyRow(row), ms2), ms |-> ms2, score |-> ms2]

\* ensure_milestones, for a conference that has none.
EnsureMilestones(row) ==
  [k \in Codes |->
    CASE k = "APPLICATION"                  -> row.application_status
      [] k \in {"BUDGET", "BANKING"}        -> row.finance_status
      [] k \in {"PROCEEDINGS", "REVIEWS"}   -> row.publication_status
      [] k \in {"FIN_CLOSE", "CFP"}         -> "Unknown"]

NewRow(title, sponsorship, series) ==
  [official_title |-> title, sponsorship_type |-> sponsorship, conference_series |-> series,
   application_status |-> "Unknown", finance_status |-> "Unknown",
   publication_status |-> "Unknown"]

-----------------------------------------------------------------------------
(* Requests, up to their commit                                            *)

Session(kind, c, before, after) ==
  [kind |-> kind, conf |-> c, before |-> before, after |-> after,
   batch |-> 0, file |-> None, entries |-> {}]

Begin(t, s) ==
  /\ open[t] = None
  /\ open' = [open EXCEPT ![t] = s]
  /\ UNCHANGED <<db, batches, changes, undone>>

\* A fresh id, and no conference with its acronym and year (else 409).
Fresh(c)    == db[c] = Absent /\ \A t \in Slots : open[t] # None => open[t].conf # c
Matches(c)  == {d \in Existing : Key[d] = Key[c]}

CreateConference(t) ==
  \E c \in Confs, title \in ManualTitles :
    LET row == NewRow(title, "Flagship", "Own") IN
    /\ Fresh(c) /\ Matches(c) = {}
    /\ Begin(t, Session("create", c, Absent, Recalculate(row, EnsureMilestones(row))))

\* Only fields that are not derived can be set by hand.
UpdateConference(t) ==
  \E c \in Existing :
    \E row \in {[db[c].row EXCEPT !.official_title = v] : v \in ManualTitles}
               \cup {[db[c].row EXCEPT !.conference_series = v] : v \in {"Own", "TCS"}} :
      Begin(t, Session("edit", c, db[c], Recalculate(row, db[c].ms)))

UpdateMilestone(t) ==
  \E c \in Existing, k \in Codes, v \in ManualStatuses :
    LET ms == [db[c].ms EXCEPT ![k] = v]
    IN Begin(t, Session("edit", c, db[c], Recalculate(SyncFacts(db[c].row, ms), ms)))

RefreshConference(t) ==
  \E c \in Existing :
    Begin(t, Session("edit", c, db[c],
                     Recalculate(SyncFacts(db[c].row, db[c].ms), db[c].ms)))

\* The session of an import: the selected cells of the Conferences row, then
\* the approved milestones, which the preview compared with the stored ones.
ApplyRow(before, row, cells, sel) ==
  LET row2 == [f \in Fields |-> IF f \in sel THEN cells[f] ELSE row[f]]
      ms   == IF before = Absent THEN EnsureMilestones(row2) ELSE before.ms
      ms2  == IF row2.application_status # row.application_status
                THEN [ms EXCEPT !["APPLICATION"] = row2.application_status] ELSE ms
  IN IF sel = {} THEN before ELSE Recalculate(row2, ms2)

ApplySheet(before, after, sheet, approved) ==
  LET differ == {k \in approved : before.ms[k] # sheet[k]}
  IN IF differ = {} THEN after
     ELSE Recalculate(after.row, [k \in Codes |-> IF k \in differ THEN sheet[k] ELSE after.ms[k]])

\* Ids (uuid4) no import has; a finite supply of them.
NewBatches ==
  (1 .. MaxBatches) \ (DOMAIN batches \cup {open[t].batch : t \in {u \in Slots : open[u] # None}})

\* TypeOK: a change is recorded for every ticked cell, changed or not.
ImportSessionRecordsAll(c, file, before, row, sel, approved) ==
  LET b     == CHOOSE n \in NewBatches : TRUE
      after == ApplyRow(before, row, file.cells, sel)
  IN [kind |-> "import", conf |-> c, before |-> before, batch |-> b, file |-> file,
      after |-> ApplySheet(before, after, file.sheet, approved),
      entries |-> {Entry(b, c, f, row[f], file.cells[f]) : f \in sel}]

\* What the batch is, what the conference becomes, and what is recorded.
ImportSession(c, file, before, row, sel, approved) ==
  LET b     == CHOOSE n \in NewBatches : TRUE
      after == ApplyRow(before, row, file.cells, sel)
      cells == {f \in sel : row[f] # file.cells[f]}
      marks == {k \in approved : file.sheet[k] \notin {before.ms[k], after.ms[k]}}
  IN [kind |-> "import", conf |-> c, before |-> before, batch |-> b, file |-> file,
      after |-> ApplySheet(before, after, file.sheet, approved),
      entries |-> {Entry(b, c, f, row[f], file.cells[f]) : f \in cells} \cup
                  {Entry(b, c, "milestone_status", before.ms[k], file.sheet[k]) : k \in marks}]

\* ImportOnce: a plain `def' endpoint, so that imports overlap as well.
ApplyImportOnThreads(t) ==
  \E file \in Files : \E sel \in {s \cap DOMAIN file.cells : s \in Selections} :
    /\ NewBatches # {} /\ sel # {}
    /\ ~\E b \in DOMAIN batches : batches[b] = [file |-> file, status |-> "Applied"]
    /\ \E c \in {d \in Existing : Key[d] = file.key} :
         Begin(t, ImportSession(c, file, db[c], db[c].row, sel, {}))

\* A file that is Applied is refused (409).  Milestones of a conference that
\* the same file creates were not matched by the preview and are skipped.
ApplyFile(t, file, sel, approved) ==
  /\ \A u \in Slots : open[u] # None => open[u].kind # "import"
  /\ NewBatches # {}
  /\ ~\E b \in DOMAIN batches : batches[b] = [file |-> file, status |-> "Applied"]
  /\ \E c \in {d \in Confs : Key[d] = file.key} :
       \/ /\ c \in Matches(c)
          /\ sel # {} \/ \E k \in approved : db[c].ms[k] # file.sheet[k]
          /\ Begin(t, ImportSession(c, file, db[c], db[c].row, sel, approved))
       \/ /\ Fresh(c) /\ Matches(c) = {} /\ sel # {}
          /\ Required \subseteq DOMAIN file.cells
          /\ Begin(t, ImportSession(c, file, Absent,
                      NewRow(file.cells.official_title, file.cells.sponsorship_type,
                             file.cells.conference_series), sel, {}))

ApplyImport(t) ==
  \E file \in Files :
    \E sel \in {s \cap DOMAIN file.cells : s \in Selections}, approved \in {{}, DOMAIN file.sheet} :
      ApplyFile(t, file, sel, approved)

\* rollback_import sets what field_changes remembers of the conference, if it
\* is still there, and no more.  The batch may have been rolled back before.
Restored(c, b) ==
  LET mine == {e \in changes : e.batch = b /\ e.field \in Fields}
  IN [f \in Fields |-> IF \E e \in mine : e.field = f
                          THEN (CHOOSE e \in mine : e.field = f).old ELSE db[c].row[f]]

RollbackImport(t) ==
  \E b \in DOMAIN batches :
    LET moved == {c \in {e.conf : e \in {x \in changes : x.batch = b}} :
                    Restored(c, b) # db[c].row}
    IN \/ /\ moved = {}
          /\ Begin(t, [Session("rollback", None, None, None) EXCEPT !.batch = b])
       \/ \E c \in moved :
            Begin(t, [Session("rollback", c, db[c], [db[c] EXCEPT !.row = Restored(c, b)])
                        EXCEPT !.batch = b])

\* One row of one table after the other, in one short transaction.
DeleteConference ==
  \E c \in Existing :
    /\ db' = [db EXCEPT ![c] = Deleted]
    /\ changes' = {e \in changes : e.conf # c}
    /\ undone' = undone \ {c}
    /\ UNCHANGED <<batches, open>>

-----------------------------------------------------------------------------
\* An UPDATE names the columns whose value differs from the one loaded.
Changed(now, before, after) ==
  [x \in DOMAIN now |-> IF after[x] # before[x] THEN after[x] ELSE now[x]]

Store(now, s) ==
  IF s.before = Absent THEN s.after
  ELSE [row   |-> Changed(now.row, s.before.row, s.after.row),
        ms    |-> Changed(now.ms, s.before.ms, s.after.ms),
        score |-> IF s.after.score # s.before.score THEN s.after.score ELSE now.score]

\* A request that loaded a conference which is gone by now.
Lost(s) == s.conf # None /\ s.before # Absent /\ s.conf \notin Existing

\* DeletedForGood: the object is merged, which inserts it when it is missing.
CommitMerged(t) ==
  /\ open[t] # None
  /\ LET s == open[t] IN
     db' = [c \in Confs |->
              IF c # s.conf THEN db[c] ELSE IF Lost(s) THEN s.after ELSE Store(db[c], s)]
  /\ open' = [open EXCEPT ![t] = None]
  /\ UNCHANGED <<batches, changes, undone>>

Commit(t) ==
  /\ open[t] # None
  /\ LET s == open[t] IN
     /\ ~Lost(s)
     /\ db' = [c \in Confs |-> IF c = s.conf THEN Store(db[c], s) ELSE db[c]]
     /\ changes' = changes \cup s.entries
     /\ undone' = IF s.kind = "rollback" THEN undone \cup ({s.conf} \ {None})
                  ELSE undone \ {s.conf}
     /\ batches' =
          [b \in DOMAIN batches \cup ({s.batch} \ {0}) |->
             IF b # s.batch THEN batches[b]
             ELSE IF s.kind = "import" THEN [file |-> s.file, status |-> "Applied"]
             ELSE [batches[b] EXCEPT !.status = "Rolled Back"]]
  /\ open' = [open EXCEPT ![t] = None]

\* The flush finds no row to update and the session is rolled back.
Abort(t) ==
  /\ open[t] # None /\ Lost(open[t])
  /\ open' = [open EXCEPT ![t] = None]
  /\ UNCHANGED <<db, batches, changes, undone>>

Next ==
  \/ DeleteConference
  \/ \E t \in Slots :
       \/ CreateConference(t) \/ UpdateConference(t) \/ UpdateMilestone(t)
       \/ RefreshConference(t) \/ ApplyImport(t) \/ RollbackImport(t)
       \/ Commit(t) \/ Abort(t)

\* A request that was started ends.
Spec == Init /\ [][Next]_vars /\ \A t \in Slots : WF_vars(Commit(t) \/ Abort(t))
-----------------------------------------------------------------------------
(* Properties                                                              *)

\* Every variable stays within the values the code gives it.
TypeOK ==
  /\ db \in [Confs -> Rows \cup {Absent, Deleted}]
  /\ DOMAIN batches \subseteq 1 .. MaxBatches
  /\ \A b \in DOMAIN batches :
       batches[b] \in [file : Files, status : {"Applied", "Rolled Back"}]
  /\ \A e \in changes : e.conf \in Confs /\ e.batch \in DOMAIN batches /\ e.old # e.new
  /\ DOMAIN open = Slots
  /\ \A t \in Slots : open[t] # None => open[t].conf \in Confs \cup {None}
  /\ undone \subseteq Confs

\* After any sequence of requests, served one at a time, recalculating a
\* conference changes nothing: its application, finance and publication status
\* are those of its milestones, its series and finance milestones obey the TCS
\* policy, and its score was computed from the milestones it has.  Only a
\* rollback leaves a record that is not recalculated.
NothingToRecalculate ==
  Cardinality(Slots) = 1 =>
    \A c \in Existing \ undone :
      db[c] = Recalculate(db[c].row, db[c].ms)

\* A file is not applied twice, however its imports meet other requests; after
\* a rollback it may be imported again.
ImportOnce ==
  \A a, b \in DOMAIN batches :
    batches[a] = batches[b] /\ batches[a].status = "Applied" => a = b

\* A deleted conference does not come back with the commit of a request that
\* had loaded it before, and takes the history of its imports along.
DeletedForGood ==
  [][/\ \A c \in Confs : db[c] = Deleted => db'[c] = Deleted
     /\ \A e \in changes' : db'[e.conf] # Deleted]_vars

\* "Import rolled back" (frontend/src/views/Imports.tsx:259): what a file
\* brought into a conference is not there once its import is rolled back.
RolledBackIsGone ==
  \A e \in changes :
    e.field \in Fields /\ batches[e.batch].status = "Rolled Back" =>
      \/ db[e.conf].row[e.field] # e.new
      \/ \E x \in changes : /\ [x EXCEPT !.batch = e.batch, !.old = e.old] = e
                            /\ batches[x.batch].status = "Applied"
=============================================================================
