------------------------ MODULE ConferenceRecordsProofs ------------------------
(***************************************************************************)
(* Proofs about ConferenceRecords for any conferences, spreadsheets and    *)
(* number of concurrent requests.                                          *)
(*                                                                         *)
(* The state of the database alone is not inductive: a request that is in  *)
(* progress carries what it read and what it will write.  SessionInv says  *)
(* what a session may carry; what a commit makes of it follows.            *)
(***************************************************************************)
EXTENDS ConferenceRecords, MilestoneRulesProofs, FiniteSetTheorems

Recalculated(r) == r = Recalculate(r.row, r.ms)

\* What an entry of field_changes may say.
EntryInv(e) ==
  /\ e.conf \in Confs /\ e.old # e.new
  /\ e.field \in Fields => e.old \in Values
  /\ e.field \in FactFields => e.old \in Statuses

\* What a session may carry to its commit ...
SessionOK(s) ==
  /\ s.kind \in {"create", "edit", "import", "rollback"}
  /\ s.conf \in Confs \/ (s.conf = None /\ s.kind = "rollback")
  /\ s.conf \in Confs => s.before \in Rows \cup {Absent} /\ s.after \in Rows
  /\ s.kind # "rollback" => Recalculated(s.after)

\* ... what it knows of the imports ...
BatchOK(s) ==
  /\ s.kind = "import" =>
       /\ s.batch \in (1 .. MaxBatches) \ DOMAIN batches /\ s.file \in Files
       /\ \A b \in DOMAIN batches : batches[b] # [file |-> s.file, status |-> "Applied"]
       /\ \A e \in s.entries : EntryInv(e) /\ e.conf = s.conf /\ e.batch = s.batch
  /\ s.kind = "rollback" => s.batch \in DOMAIN batches
  /\ s.kind \in {"create", "edit"} => s.batch = 0
  /\ s.kind # "import" => s.entries = {}

\* ... and that nobody else creates its conference, or imports.
Creates(s) == s.conf \in Confs /\ s.before = Absent

Alone(t, s) ==
  \A u \in Slots \ {t} : open[u] # None =>
    /\ Creates(s) => open[u].conf # s.conf
    /\ s.kind = "import" => open[u].kind # "import"

SessionInv(t) ==
  LET s == open[t] IN
  /\ SessionOK(s) /\ BatchOK(s) /\ Alone(t, s)
  /\ Creates(s) => db[s.conf] = Absent

\* The history of an import is about conferences that exist.
HistoryInv == \A e \in changes : EntryInv(e) /\ db[e.conf] \notin {Absent, Deleted}

IInv ==
  /\ TypeOK
  /\ \A t \in Slots : open[t] # None => SessionInv(t)
  /\ HistoryInv
  /\ ImportOnce

\* With one request at a time, a session still has before it what it read.
SerialInv ==
  /\ \A t \in Slots : open[t] # None /\ open[t].conf \in Confs /\ open[t].before # Absent =>
       db[open[t].conf] \in {open[t].before, Deleted}
  /\ \A c \in Existing \ undone : Recalculated(db[c])

-----------------------------------------------------------------------------
(* The derived values                                                      *)

LEMMA FieldNames ==
  /\ FactFields \subseteq Fields /\ Required \subseteq Fields
  /\ Statuses \subseteq Values /\ {"Own", "Flagship", "TCS"} \subseteq Values
  /\ "Unknown" \in Statuses
BY DEF Fields, Values, Statuses

LEMMA SyncFactsType ==
  ASSUME NEW row \in Columns, NEW ms \in [Codes -> Statuses]
  PROVE  /\ SyncFacts(row, ms) \in Columns
         /\ SyncFacts(row, ms).sponsorship_type = row.sponsorship_type
         /\ SyncFacts(row, ms).conference_series = row.conference_series
         /\ SyncFacts(row, ms).official_title = row.official_title
<1>1. ms["APPLICATION"] \in Statuses
  BY CodesAssumption
<1>2. row \in [Fields -> Values] /\ \A f \in FactFields : row[f] \in Statuses
  BY DEF Columns
<1>3. row.finance_status \in Statuses /\ row.publication_status \in Statuses
  BY <1>2 DEF FactFields
<1>4. /\ FinanceStatus(ms, row.finance_status) \in Statuses
      /\ PublicationStatus(ms, row.publication_status) \in Statuses
  BY <1>3, FinanceStatusType, PublicationStatusType
<1>5. QED
  BY <1>1, <1>2, <1>4, FieldNames DEF SyncFacts, Columns, Fields, FactFields, Required

LEMMA PolicyRowType ==
  ASSUME NEW row \in Columns
  PROVE  /\ PolicyRow(row) \in Columns
         /\ IsTcs(PolicyRow(row)) = IsTcs(row)
         /\ PolicyRow(PolicyRow(row)) = PolicyRow(row)
BY FieldNames DEF PolicyRow, IsTcs, Columns, Fields, FactFields, Required

LEMMA PolicyMilestonesType ==
  ASSUME NEW row, NEW ms \in [Codes -> Statuses]
  PROVE  PolicyMilestones(row, ms) \in [Codes -> Statuses]
BY FinanceExcludedType DEF PolicyMilestones

LEMMA RecalculateType ==
  ASSUME NEW row \in Columns, NEW ms \in [Codes -> Statuses]
  PROVE  Recalculate(row, ms) \in Rows
BY SyncFactsType, PolicyRowType, PolicyMilestonesType DEF Recalculate, Rows

\* Deriving the facts a second time changes nothing.
LEMMA SyncFactsTwice ==
  ASSUME NEW row \in Columns, NEW ms \in [Codes -> Statuses]
  PROVE  SyncFacts(SyncFacts(row, ms), ms) = SyncFacts(row, ms)
<1> DEFINE once == SyncFacts(row, ms)
<1>1. row \in [Fields -> Values]
  BY DEF Columns
<1>2. /\ once.finance_status = FinanceStatus(ms, row.finance_status)
      /\ once.publication_status = PublicationStatus(ms, row.publication_status)
      /\ once.application_status = ms["APPLICATION"]
  BY <1>1 DEF SyncFacts, Fields, FactFields
<1>3. once \in [Fields -> Values]
  BY SyncFactsType DEF Columns
<1>4. SyncFacts(once, ms) = once
  <2> HIDE DEF once
  <2>1. QED
    BY <1>2, <1>3, DerivedTwice DEF SyncFacts, Fields, FactFields
<1>5. QED
  BY <1>4

\* recalculate is idempotent: the policy sees the row and the milestones that
\* it left, and the facts are those of the same milestones.
THEOREM RecalculateTwice ==
  ASSUME NEW row \in Columns, NEW ms \in [Codes -> Statuses]
  PROVE  Recalculated(Recalculate(row, ms))
<1> DEFINE row1 == PolicyRow(row)
           ms2  == PolicyMilestones(row, ms)
           row2 == SyncFacts(row1, ms2)
<1>1. row1 \in Columns /\ ms2 \in [Codes -> Statuses] /\ row2 \in Columns
  BY PolicyRowType, PolicyMilestonesType, SyncFactsType
<1>2. IsTcs(row2) = IsTcs(row)
  BY <1>1, PolicyRowType, SyncFactsType DEF IsTcs
<1>3. PolicyRow(row2) = row2
  <2>1. IsTcs(row) => row1.conference_series = "TCS"
    BY DEF PolicyRow, Columns, Fields, Required
  <2>2. IsTcs(row) => row2.conference_series = "TCS"
    BY <1>1, <2>1, SyncFactsType
  <2>3. QED
    BY <1>1, <1>2, <2>2 DEF PolicyRow, Columns
<1>4. PolicyMilestones(row2, ms2) = ms2
  BY <1>2, FinanceExcludedTwice DEF PolicyMilestones
<1>5. SyncFacts(row2, ms2) = row2
  BY <1>1, SyncFactsTwice
<1>6. Recalculate(row, ms) = [row |-> row2, ms |-> ms2, score |-> ms2]
  BY DEF Recalculate
<1>7. Recalculate(row2, ms2) = [row |-> row2, ms |-> ms2, score |-> ms2]
  BY <1>3, <1>4, <1>5 DEF Recalculate
<1>8. QED
  BY <1>6, <1>7 DEF Recalculated

LEMMA EnsureMilestonesType ==
  ASSUME NEW row \in Columns
  PROVE  EnsureMilestones(row) \in [Codes -> Statuses]
<1>1. /\ row.application_status \in Statuses /\ row.finance_status \in Statuses
      /\ row.publication_status \in Statuses
  BY DEF Columns, FactFields
<1>2. QED
  BY <1>1, CodesAssumption, FieldNames
     DEF EnsureMilestones, FinanceCodes, PublicationCodes

LEMMA NewRowType ==
  ASSUME NEW title \in Values, NEW sponsorship \in Values, NEW series \in Values
  PROVE  NewRow(title, sponsorship, series) \in Columns
BY FieldNames DEF NewRow, Columns, Fields, FactFields, Required

-----------------------------------------------------------------------------
(* What an import makes of a conference                                    *)

LEMMA CellsType ==
  ASSUME NEW file \in Files
  PROVE  /\ DOMAIN file.cells \subseteq Fields
         /\ \A f \in DOMAIN file.cells : file.cells[f] \in Values
         /\ \A f \in DOMAIN file.cells \cap FactFields : file.cells[f] \in Statuses
BY FilesAssumption DEF Values

LEMMA ApplyRowType ==
  ASSUME NEW file \in Files, NEW sel \in SUBSET DOMAIN file.cells, sel # {},
         NEW before \in Rows \cup {Absent}, NEW row \in Columns
  PROVE  /\ ApplyRow(before, row, file.cells, sel) \in Rows
         /\ Recalculated(ApplyRow(before, row, file.cells, sel))
<1> DEFINE row2 == [f \in Fields |-> IF f \in sel THEN file.cells[f] ELSE row[f]]
           ms   == IF before = Absent THEN EnsureMilestones(row2) ELSE before.ms
           ms2  == IF row2.application_status # row.application_status
                     THEN [ms EXCEPT !["APPLICATION"] = row2.application_status] ELSE ms
<1>1. row2 \in Columns
  BY CellsType, FieldNames DEF Columns
<1>2. ms \in [Codes -> Statuses]
  BY <1>1, EnsureMilestonesType DEF Rows
<1>3. row2.application_status \in Statuses
  BY <1>1 DEF Columns, FactFields
<1>4. ms2 \in [Codes -> Statuses]
  <2> HIDE DEF ms, row2
  <2>1. QED
    BY <1>2, <1>3
<1>5. ApplyRow(before, row, file.cells, sel) = Recalculate(row2, ms2)
  BY DEF ApplyRow
<1>6. QED
  <2> HIDE DEF ms2, row2
  <2>1. QED
    BY <1>1, <1>4, <1>5, RecalculateType, RecalculateTwice

LEMMA ApplySheetType ==
  ASSUME NEW file \in Files, NEW approved \in SUBSET DOMAIN file.sheet,
         NEW before, NEW after \in Rows,
         Recalculated(after) \/ \E k \in approved : before.ms[k] # file.sheet[k]
  PROVE  /\ ApplySheet(before, after, file.sheet, approved) \in Rows
         /\ Recalculated(ApplySheet(before, after, file.sheet, approved))
<1> DEFINE differ == {k \in approved : before.ms[k] # file.sheet[k]}
           ms == [k \in Codes |-> IF k \in differ THEN file.sheet[k] ELSE after.ms[k]]
<1>1. after.row \in Columns /\ after.ms \in [Codes -> Statuses]
  BY DEF Rows
<1>2. ms \in [Codes -> Statuses]
  BY <1>1, FilesAssumption
<1>3. CASE differ = {}
  BY <1>3 DEF ApplySheet
<1>4. CASE differ # {}
  <2>1. ApplySheet(before, after, file.sheet, approved) = Recalculate(after.row, ms)
    BY <1>4 DEF ApplySheet
  <2> HIDE DEF ms
  <2>2. QED
    BY <1>1, <1>2, <2>1, RecalculateType, RecalculateTwice
<1>5. QED
  BY <1>3, <1>4

LEMMA NewBatchChosen ==
  ASSUME NewBatches # {}
  PROVE  (CHOOSE n \in NewBatches : TRUE) \in (1 .. MaxBatches) \ DOMAIN batches
BY DEF NewBatches

\* The session of an import is one that SessionInv admits.
LEMMA ImportSessionOK ==
  ASSUME NEW c \in Confs, NEW file \in Files, NEW sel \in SUBSET DOMAIN file.cells,
         NEW approved \in SUBSET DOMAIN file.sheet, NEW before \in Rows \cup {Absent},
         NEW row \in Columns,
         before = Absent => sel # {} /\ approved = {},
         before # Absent => row = before.row,
         sel # {} \/ \E k \in approved : before.ms[k] # file.sheet[k],
         NewBatches # {},
         ~\E b \in DOMAIN batches : batches[b] = [file |-> file, status |-> "Applied"]
  PROVE  LET s == ImportSession(c, file, before, row, sel, approved) IN
         /\ SessionOK(s) /\ BatchOK(s)
         /\ s.kind = "import" /\ s.conf = c /\ s.before = before
<1> DEFINE s     == ImportSession(c, file, before, row, sel, approved)
           b     == CHOOSE n \in NewBatches : TRUE
           after == ApplyRow(before, row, file.cells, sel)
           cells == {f \in sel : row[f] # file.cells[f]}
           marks == {k \in approved : file.sheet[k] \notin {before.ms[k], after.ms[k]}}
<1>1. /\ s.kind = "import" /\ s.conf = c /\ s.before = before /\ s.batch = b /\ s.file = file
      /\ s.after = ApplySheet(before, after, file.sheet, approved)
      /\ s.entries = {Entry(b, c, f, row[f], file.cells[f]) : f \in cells} \cup
                     {Entry(b, c, "milestone_status", before.ms[k], file.sheet[k]) : k \in marks}
  BY DEF ImportSession
<1>2. b \in (1 .. MaxBatches) \ DOMAIN batches
  BY NewBatchChosen
<1>3. after \in Rows /\ (Recalculated(after) \/ \E k \in approved : before.ms[k] # file.sheet[k])
  <2>1. CASE sel # {}
    BY <2>1, ApplyRowType
  <2>2. CASE sel = {}
    BY <2>2 DEF ApplyRow
  <2>3. QED
    BY <2>1, <2>2
<1>4. s.after \in Rows /\ Recalculated(s.after)
  <2> HIDE DEF s, after
  <2>1. /\ ApplySheet(before, after, file.sheet, approved) \in Rows
        /\ Recalculated(ApplySheet(before, after, file.sheet, approved))
    BY <1>3, ApplySheetType
  <2>2. QED
    BY <1>1, <2>1
<1>5. ASSUME NEW e \in s.entries
      PROVE  EntryInv(e) /\ e.conf = c /\ e.batch = b
  <2>1. CASE \E f \in cells : e = Entry(b, c, f, row[f], file.cells[f])
    BY <2>1, CellsType DEF Entry, EntryInv, Columns
  <2>2. CASE \E k \in marks : e = Entry(b, c, "milestone_status", before.ms[k], file.sheet[k])
    BY <2>2 DEF Entry, EntryInv, Fields, FactFields, Required
  <2>3. QED
    BY <1>1, <1>5, <2>1, <2>2
<1>6. QED
  <2> HIDE DEF s, b
  <2>1. SessionOK(s)
    BY <1>1, <1>4 DEF SessionOK
  <2>2. BatchOK(s)
    BY <1>1, <1>2, <1>5 DEF BatchOK
  <2>3. QED
    BY <1>1, <2>1, <2>2 DEF s

-----------------------------------------------------------------------------
(* The inductive invariant                                                 *)

LEMMA InitIInv == Init => IInv
BY DEF Init, IInv, TypeOK, HistoryInv, ImportOnce

LEMMA ExistingRows ==
  ASSUME TypeOK
  PROVE  /\ \A c \in Confs : c \in Existing <=> db[c] \in Rows
         /\ \A c \in Existing : db[c].row \in Columns /\ db[c].ms \in [Codes -> Statuses]
         /\ Existing \subseteq Confs
BY SentinelAssumption DEF TypeOK, Existing, Rows

\* A request that starts with a session SessionInv admits keeps the invariant.
LEMMA BeginStep ==
  ASSUME IInv, NEW t \in Slots, NEW s, Begin(t, s),
         SessionOK(s), BatchOK(s), Alone(t, s),
         Creates(s) => db[s.conf] = Absent,
         s.conf \in Confs /\ ~Creates(s) => db[s.conf] # Absent
  PROVE  IInv'
<1> USE DEF Begin
<1>1. TypeOK'
  BY DEF IInv, TypeOK, SessionOK
<1>2. HistoryInv' /\ ImportOnce'
  BY DEF IInv, HistoryInv, ImportOnce
<1>3. ASSUME NEW u \in Slots, open'[u] # None
      PROVE  SessionInv(u)'
  <2>1. CASE u = t
    <3>1. open'[u] = s /\ \A v \in Slots \ {t} : open'[v] = open[v]
      BY <2>1 DEF IInv, TypeOK
    <3>2. SessionOK(s)' /\ BatchOK(s)'
      BY DEF SessionOK, BatchOK
    <3>3. Alone(t, s)'
      BY <3>1 DEF Alone, Creates
    <3>4. QED
      BY <2>1, <3>1, <3>2, <3>3 DEF SessionInv, Creates
  <2>2. CASE u # t
    <3>1. open'[u] = open[u] /\ open[u] # None /\ SessionInv(u)
      BY <1>3, <2>2 DEF IInv
    <3>2. SessionOK(open[u])' /\ BatchOK(open[u])'
      BY <3>1 DEF SessionInv, SessionOK, BatchOK
    <3>3. Alone(u, open[u])'
      BY <2>2, <3>1, SentinelAssumption DEF SessionInv, Alone, Creates, SessionOK
    <3>4. QED
      BY <3>1, <3>2, <3>3 DEF SessionInv, Creates
  <2>3. QED
    BY <2>1, <2>2
<1>4. QED
  BY <1>1, <1>2, <1>3 DEF IInv

\* Every request begins with a session BeginStep admits.
BeginOK(t, s) ==
  /\ Begin(t, s)
  /\ SessionOK(s) /\ BatchOK(s) /\ Alone(t, s)
  /\ Creates(s) => db[s.conf] = Absent
  /\ s.conf \in Confs /\ ~Creates(s) => s.conf \in Existing /\ s.before = db[s.conf]

LEMMA CreateBegins ==
  ASSUME IInv, NEW t \in Slots, CreateConference(t)
  PROVE  \E s : BeginOK(t, s)
<1>1. PICK c \in Confs, title \in ManualTitles :
        LET row == NewRow(title, "Flagship", "Own") IN
        /\ Fresh(c)
        /\ Begin(t, Session("create", c, Absent, Recalculate(row, EnsureMilestones(row))))
  BY DEF CreateConference
<1> DEFINE row   == NewRow(title, "Flagship", "Own")
           after == Recalculate(row, EnsureMilestones(row))
           s     == Session("create", c, Absent, after)
<1>2. row \in Columns
  BY NewRowType, FieldNames DEF Values
<1>3. after \in Rows /\ Recalculated(after)
  <2> HIDE DEF row
  <2>1. QED
    BY <1>2, EnsureMilestonesType, RecalculateType, RecalculateTwice
<1>4. Begin(t, s) /\ Fresh(c)
  BY <1>1
<1>5. BeginOK(t, s)
  <2> HIDE DEF after
  <2>1. QED
    BY <1>3, <1>4 DEF BeginOK, SessionOK, BatchOK, Alone, Creates, Session, Fresh
<1>6. QED
  BY <1>5

\* An edit loads a conference and stores it recalculated.
LEMMA EditBegins ==
  ASSUME IInv, NEW t \in Slots, NEW c \in Existing, NEW row \in Columns,
         NEW ms \in [Codes -> Statuses],
         Begin(t, Session("edit", c, db[c], Recalculate(row, ms)))
  PROVE  \E s : BeginOK(t, s)
<1> DEFINE after == Recalculate(row, ms)
           s     == Session("edit", c, db[c], after)
<1>1. after \in Rows /\ Recalculated(after)
  BY RecalculateType, RecalculateTwice
<1>2. c \in Confs /\ db[c] \in Rows /\ db[c] # Absent
  BY ExistingRows, SentinelAssumption DEF IInv, Existing
<1>3. BeginOK(t, s)
  <2>1. Begin(t, s)
    OBVIOUS
  <2> HIDE DEF after
  <2>2. QED
    BY <1>1, <1>2, <2>1 DEF BeginOK, SessionOK, BatchOK, Alone, Creates, Session
<1>4. QED
  BY <1>3

LEMMA UpdateBegins ==
  ASSUME IInv, NEW t \in Slots, UpdateConference(t)
  PROVE  \E s : BeginOK(t, s)
<1>1. PICK c \in Existing :
        \E row \in {[db[c].row EXCEPT !.official_title = v] : v \in ManualTitles}
                   \cup {[db[c].row EXCEPT !.conference_series = v] : v \in {"Own", "TCS"}} :
          Begin(t, Session("edit", c, db[c], Recalculate(row, db[c].ms)))
  BY DEF UpdateConference
<1>2. PICK row \in {[db[c].row EXCEPT !.official_title = v] : v \in ManualTitles}
                   \cup {[db[c].row EXCEPT !.conference_series = v] : v \in {"Own", "TCS"}} :
        Begin(t, Session("edit", c, db[c], Recalculate(row, db[c].ms)))
  BY <1>1
<1>3. db[c].row \in Columns /\ db[c].ms \in [Codes -> Statuses]
  BY ExistingRows DEF IInv
<1>4. row \in Columns
  BY <1>3, FieldNames DEF Columns, Fields, FactFields, Required, Values
<1>5. QED
  BY <1>2, <1>3, <1>4, EditBegins

LEMMA MilestoneBegins ==
  ASSUME IInv, NEW t \in Slots, UpdateMilestone(t)
  PROVE  \E s : BeginOK(t, s)
<1>1. PICK c \in Existing, k \in Codes, v \in ManualStatuses :
        LET ms == [db[c].ms EXCEPT ![k] = v] IN
        Begin(t, Session("edit", c, db[c], Recalculate(SyncFacts(db[c].row, ms), ms)))
  BY DEF UpdateMilestone
<1> DEFINE ms == [db[c].ms EXCEPT ![k] = v]
<1>2. db[c].row \in Columns /\ ms \in [Codes -> Statuses]
  BY ExistingRows, BoundsAssumption DEF IInv
<1>3. SyncFacts(db[c].row, ms) \in Columns
  BY <1>2, SyncFactsType
<1>4. Begin(t, Session("edit", c, db[c], Recalculate(SyncFacts(db[c].row, ms), ms)))
  BY <1>1
<1>5. QED
  <2> HIDE DEF ms
  <2>1. QED
    BY <1>2, <1>3, <1>4, EditBegins

LEMMA RefreshBegins ==
  ASSUME IInv, NEW t \in Slots, RefreshConference(t)
  PROVE  \E s : BeginOK(t, s)
<1>1. PICK c \in Existing :
        Begin(t, Session("edit", c, db[c],
                         Recalculate(SyncFacts(db[c].row, db[c].ms), db[c].ms)))
  BY DEF RefreshConference
<1>2. db[c].row \in Columns /\ db[c].ms \in [Codes -> Statuses]
  BY ExistingRows DEF IInv
<1>3. SyncFacts(db[c].row, db[c].ms) \in Columns
  BY <1>2, SyncFactsType
<1>4. QED
  BY <1>1, <1>2, <1>3, EditBegins

LEMMA FileBegins ==
  ASSUME IInv, NEW t \in Slots, NEW file \in Files, NEW sel \in SUBSET DOMAIN file.cells,
         NEW approved \in SUBSET DOMAIN file.sheet, ApplyFile(t, file, sel, approved)
  PROVE  \E s : BeginOK(t, s)
<1>1. /\ \A u \in Slots : open[u] # None => open[u].kind # "import"
      /\ NewBatches # {}
      /\ ~\E b \in DOMAIN batches : batches[b] = [file |-> file, status |-> "Applied"]
  BY DEF ApplyFile
<1>2. PICK c \in Confs :
        \/ /\ c \in Matches(c)
           /\ sel # {} \/ \E k \in approved : db[c].ms[k] # file.sheet[k]
           /\ Begin(t, ImportSession(c, file, db[c], db[c].row, sel, approved))
        \/ /\ Fresh(c) /\ sel # {}
           /\ Required \subseteq DOMAIN file.cells
           /\ Begin(t, ImportSession(c, file, Absent,
                       NewRow(file.cells.official_title, file.cells.sponsorship_type,
                              file.cells.conference_series), sel, {}))
  BY DEF ApplyFile
<1>3. CASE /\ c \in Matches(c)
           /\ sel # {} \/ \E k \in approved : db[c].ms[k] # file.sheet[k]
           /\ Begin(t, ImportSession(c, file, db[c], db[c].row, sel, approved))
  <2> DEFINE s == ImportSession(c, file, db[c], db[c].row, sel, approved)
  <2>1. c \in Existing
    BY <1>3 DEF Matches
  <2>2. db[c] \in Rows /\ db[c] # Absent /\ db[c].row \in Columns
    BY <2>1, ExistingRows DEF IInv, Existing
  <2>3. SessionOK(s) /\ BatchOK(s) /\ s.kind = "import" /\ s.conf = c /\ s.before = db[c]
    BY <1>1, <1>3, <2>2, ImportSessionOK
  <2>4. BeginOK(t, s)
    <3>1. Begin(t, s)
      BY <1>3
    <3> HIDE DEF s
    <3>2. QED
      BY <1>1, <2>1, <2>2, <2>3, <3>1 DEF BeginOK, Alone, Creates
  <2>5. QED
    BY <2>4
<1>4. CASE /\ Fresh(c) /\ sel # {}
           /\ Required \subseteq DOMAIN file.cells
           /\ Begin(t, ImportSession(c, file, Absent,
                       NewRow(file.cells.official_title, file.cells.sponsorship_type,
                              file.cells.conference_series), sel, {}))
  <2> DEFINE row == NewRow(file.cells.official_title, file.cells.sponsorship_type,
                           file.cells.conference_series)
             s   == ImportSession(c, file, Absent, row, sel, {})
  <2>1. row \in Columns
    BY <1>4, CellsType, NewRowType DEF Required
  <2>2. SessionOK(s) /\ BatchOK(s) /\ s.kind = "import" /\ s.conf = c /\ s.before = Absent
    <3> HIDE DEF row
    <3>1. QED
      BY <1>1, <1>4, <2>1, ImportSessionOK
  <2>3. BeginOK(t, s)
    <3>1. Begin(t, s)
      BY <1>4
    <3> HIDE DEF s
    <3>2. QED
      BY <1>1, <1>4, <2>2, <3>1 DEF BeginOK, Alone, Creates, Fresh
  <2>4. QED
    BY <2>3
<1>5. QED
  BY <1>2, <1>3, <1>4

LEMMA ImportBegins ==
  ASSUME IInv, NEW t \in Slots, ApplyImport(t)
  PROVE  \E s : BeginOK(t, s)
<1>1. PICK file \in Files :
        \E sel \in {s \cap DOMAIN file.cells : s \in Selections}, approved \in {{}, DOMAIN file.sheet} :
          ApplyFile(t, file, sel, approved)
  BY DEF ApplyImport
<1>2. PICK sel \in SUBSET DOMAIN file.cells :
        \E approved \in SUBSET DOMAIN file.sheet : ApplyFile(t, file, sel, approved)
  BY <1>1
<1>3. QED
  BY <1>2, FileBegins

LEMMA RestoredType ==
  ASSUME IInv, NEW c \in Existing, NEW b
  PROVE  Restored(c, b) \in Columns
<1> DEFINE mine == {e \in changes : e.batch = b /\ e.field \in Fields}
           Of(f) == CHOOSE e \in mine : e.field = f
<1>1. db[c].row \in Columns
  BY ExistingRows DEF IInv
<1>2. ASSUME NEW f \in Fields, \E e \in mine : e.field = f
      PROVE  Of(f) \in changes /\ Of(f).field = f
  BY <1>2
<1>3. ASSUME NEW f \in Fields, \E e \in mine : e.field = f
      PROVE  Of(f).old \in Values /\ (f \in FactFields => Of(f).old \in Statuses)
  <2> HIDE DEF Of
  <2>1. QED
    BY <1>2, <1>3 DEF IInv, HistoryInv, EntryInv
<1>4. Restored(c, b) =
        [f \in Fields |-> IF \E e \in mine : e.field = f THEN Of(f).old ELSE db[c].row[f]]
  BY DEF Restored
<1>5. QED
  <2> HIDE DEF Of, mine
  <2>1. QED
    BY <1>1, <1>3, <1>4, FieldNames DEF Columns

LEMMA RollbackBegins ==
  ASSUME IInv, NEW t \in Slots, RollbackImport(t)
  PROVE  \E s : BeginOK(t, s)
<1>1. PICK b \in DOMAIN batches :
        \/ Begin(t, [Session("rollback", None, None, None) EXCEPT !.batch = b])
        \/ \E c \in {e.conf : e \in {x \in changes : x.batch = b}} :
             Begin(t, [Session("rollback", c, db[c], [db[c] EXCEPT !.row = Restored(c, b)])
                         EXCEPT !.batch = b])
  BY DEF RollbackImport
<1>2. CASE Begin(t, [Session("rollback", None, None, None) EXCEPT !.batch = b])
  <2> DEFINE s == [Session("rollback", None, None, None) EXCEPT !.batch = b]
  <2>1. BeginOK(t, s)
    BY <1>2, SentinelAssumption DEF BeginOK, SessionOK, BatchOK, Alone, Creates, Session
  <2>2. QED
    BY <2>1
<1>3. ASSUME NEW c \in {e.conf : e \in {x \in changes : x.batch = b}},
             Begin(t, [Session("rollback", c, db[c], [db[c] EXCEPT !.row = Restored(c, b)])
                         EXCEPT !.batch = b])
      PROVE  \E s : BeginOK(t, s)
  <2> DEFINE after == [db[c] EXCEPT !.row = Restored(c, b)]
             s     == [Session("rollback", c, db[c], after) EXCEPT !.batch = b]
  <2>1. c \in Existing
    BY DEF IInv, HistoryInv, EntryInv, Existing
  <2>2. c \in Confs /\ db[c] \in Rows /\ db[c] # Absent
    BY <2>1, ExistingRows DEF IInv, Existing
  <2>3. after \in Rows
    BY <2>1, <2>2, RestoredType DEF Rows
  <2>4. BeginOK(t, s)
    <3> HIDE DEF after
    <3>1. QED
      BY <1>3, <2>1, <2>2, <2>3 DEF after, BeginOK, SessionOK, BatchOK, Alone, Creates, Session
  <2>5. QED
    BY <2>4
<1>4. QED
  BY <1>1, <1>2, <1>3

LEMMA StoreType ==
  ASSUME NEW now \in Rows, NEW s, s.before \in Rows, s.after \in Rows
  PROVE  Store(now, s) \in Rows
<1>1. s.before # Absent
  BY SentinelAssumption
<1>2. Changed(now.row, s.before.row, s.after.row) \in Columns
  BY FieldNames DEF Rows, Columns, Changed
<1>3. Changed(now.ms, s.before.ms, s.after.ms) \in [Codes -> Statuses]
  BY DEF Rows, Changed
<1>4. QED
  BY <1>1, <1>2, <1>3 DEF Store, Rows

\* What a commit does to the tables, whatever was committed in between.
LEMMA CommitEffect ==
  ASSUME IInv, NEW t \in Slots, Commit(t)
  PROVE  LET s == open[t] IN
         /\ s # None /\ SessionInv(t)
         /\ db' \in [Confs -> Rows \cup {Absent, Deleted}]
         /\ \A c \in Confs \ {s.conf} : db'[c] = db[c]
         /\ s.conf \in Confs => db'[s.conf] \in Rows /\ db[s.conf] # Deleted
         /\ changes' = changes \cup s.entries
         /\ open'[t] = None /\ DOMAIN open' = Slots
         /\ \A u \in Slots \ {t} : open'[u] = open[u]
<1> DEFINE s == open[t]
<1>1. s # None /\ SessionInv(t) /\ ~Lost(s)
  BY DEF Commit, IInv
<1>2. db' = [c \in Confs |-> IF c = s.conf THEN Store(db[c], s) ELSE db[c]]
  BY DEF Commit
<1>3. db \in [Confs -> Rows \cup {Absent, Deleted}]
  BY DEF IInv, TypeOK
<1>4. ASSUME s.conf \in Confs
      PROVE  Store(db[s.conf], s) \in Rows /\ db[s.conf] # Deleted
  <2>1. CASE s.before = Absent
    BY <1>1, <1>4, <2>1, SentinelAssumption DEF SessionInv, SessionOK, Creates, Store
  <2>2. CASE s.before # Absent
    <3>1. s.conf \in Existing
      BY <1>1, <1>4, <2>2, SentinelAssumption DEF Lost
    <3>2. db[s.conf] \in Rows /\ s.before \in Rows /\ s.after \in Rows
      BY <1>1, <1>4, <2>2, <3>1, ExistingRows DEF IInv, SessionInv, SessionOK
    <3>3. QED
      BY <3>1, <3>2, StoreType DEF Existing
  <2>3. QED
    BY <2>1, <2>2
<1>5. open'[t] = None /\ DOMAIN open' = Slots /\ \A u \in Slots \ {t} : open'[u] = open[u]
  BY DEF Commit, IInv, TypeOK
<1>6. changes' = changes \cup s.entries
  BY DEF Commit
<1>7. QED
  <2> HIDE DEF s
  <2>1. /\ db' \in [Confs -> Rows \cup {Absent, Deleted}]
        /\ \A c \in Confs \ {s.conf} : db'[c] = db[c]
        /\ s.conf \in Confs => db'[s.conf] \in Rows /\ db[s.conf] # Deleted
    BY <1>2, <1>3, <1>4
  <2>2. QED
    BY <1>1, <1>5, <1>6, <2>1 DEF s

\* ... and to the list of imports.
LEMMA CommitBatches ==
  ASSUME IInv, NEW t \in Slots, Commit(t)
  PROVE  LET s == open[t] IN
         /\ s.kind = "import" =>
              /\ DOMAIN batches' = DOMAIN batches \cup {s.batch}
              /\ batches'[s.batch] = [file |-> s.file, status |-> "Applied"]
         /\ s.kind = "rollback" =>
              /\ DOMAIN batches' = DOMAIN batches
              /\ batches'[s.batch] = [batches[s.batch] EXCEPT !.status = "Rolled Back"]
         /\ s.kind \in {"create", "edit"} => DOMAIN batches' = DOMAIN batches
         /\ \A b \in DOMAIN batches : s.batch # b => batches'[b] = batches[b]
<1> DEFINE s == open[t]
<1>1. BatchOK(s) /\ DOMAIN batches \subseteq 1 .. MaxBatches
  BY DEF Commit, IInv, SessionInv, TypeOK
<1>2. batches' =
        [b \in DOMAIN batches \cup ({s.batch} \ {0}) |->
           IF b # s.batch THEN batches[b]
           ELSE IF s.kind = "import" THEN [file |-> s.file, status |-> "Applied"]
           ELSE [batches[b] EXCEPT !.status = "Rolled Back"]]
  BY DEF Commit
<1>3. 0 \notin 1 .. MaxBatches
  OBVIOUS
<1>4. QED
  <2> HIDE DEF s
  <2>1. s.kind = "import" => s.batch \notin DOMAIN batches /\ s.batch # 0
    BY <1>1, <1>3 DEF BatchOK
  <2>2. s.kind = "rollback" => s.batch \in DOMAIN batches /\ s.batch # 0
    BY <1>1, <1>3 DEF BatchOK
  <2>3. s.kind \in {"create", "edit"} => s.batch = 0
    BY <1>1 DEF BatchOK
  <2>4. /\ s.kind = "import" =>
             /\ DOMAIN batches' = DOMAIN batches \cup {s.batch}
             /\ batches'[s.batch] = [file |-> s.file, status |-> "Applied"]
        /\ s.kind = "rollback" =>
             /\ DOMAIN batches' = DOMAIN batches
             /\ batches'[s.batch] = [batches[s.batch] EXCEPT !.status = "Rolled Back"]
    BY <1>2, <2>1, <2>2
  <2>5. s.kind \in {"create", "edit"} => DOMAIN batches' = DOMAIN batches
    BY <1>2, <2>3
  <2>6. \A b \in DOMAIN batches : s.batch # b => batches'[b] = batches[b]
    BY <1>2
  <2>7. QED
    BY <2>4, <2>5, <2>6 DEF s

LEMMA CommitStep ==
  ASSUME IInv, NEW t \in Slots, Commit(t)
  PROVE  IInv'
<1> DEFINE s == open[t]
<1>0. SessionOK(s) /\ BatchOK(s) /\ Alone(t, s) /\ s # None
  BY CommitEffect DEF SessionInv
<1>1. /\ db' \in [Confs -> Rows \cup {Absent, Deleted}]
      /\ \A c \in Confs \ {s.conf} : db'[c] = db[c]
      /\ s.conf \in Confs => db'[s.conf] \in Rows /\ db[s.conf] # Deleted
      /\ changes' = changes \cup s.entries
      /\ open'[t] = None /\ DOMAIN open' = Slots
      /\ \A u \in Slots \ {t} : open'[u] = open[u]
  BY CommitEffect
<1>2. /\ s.kind = "import" =>
           /\ DOMAIN batches' = DOMAIN batches \cup {s.batch}
           /\ batches'[s.batch] = [file |-> s.file, status |-> "Applied"]
      /\ s.kind = "rollback" =>
           /\ DOMAIN batches' = DOMAIN batches
           /\ batches'[s.batch] = [batches[s.batch] EXCEPT !.status = "Rolled Back"]
      /\ s.kind \in {"create", "edit"} => DOMAIN batches' = DOMAIN batches
      /\ \A b \in DOMAIN batches : s.batch # b => batches'[b] = batches[b]
  BY CommitBatches
<1>3. undone' \subseteq undone \cup ({s.conf} \ {None})
  BY DEF Commit
<1>4. DOMAIN batches \subseteq DOMAIN batches'
  BY <1>0, <1>2 DEF SessionOK
<1> HIDE DEF s
<1>a. /\ \A b \in DOMAIN batches :
           batches[b] \in [file : Files, status : {"Applied", "Rolled Back"}]
      /\ DOMAIN batches \subseteq 1 .. MaxBatches
  BY DEF IInv, TypeOK
<1>b. s.kind \in {"create", "edit"} => s.batch \notin DOMAIN batches
  <2>1. 0 \notin 1 .. MaxBatches
    OBVIOUS
  <2>2. QED
    BY <1>0, <1>a, <2>1 DEF BatchOK
<1>5. \A b \in DOMAIN batches' :
        batches'[b] \in [file : Files, status : {"Applied", "Rolled Back"}]
  <2>1. CASE s.kind = "import"
    <3>1. batches'[s.batch] \in [file : Files, status : {"Applied", "Rolled Back"}]
      <4>1. s.file \in Files
        BY <1>0, <2>1 DEF BatchOK
      <4>2. batches'[s.batch] = [file |-> s.file, status |-> "Applied"]
        BY <1>2, <2>1
      <4>3. QED
        BY <4>1, <4>2
    <3>2. QED
      BY <1>2, <1>a, <2>1, <3>1
  <2>2. CASE s.kind = "rollback"
    <3>1. batches'[s.batch] \in [file : Files, status : {"Applied", "Rolled Back"}]
      BY <1>0, <1>2, <1>a, <2>2 DEF BatchOK
    <3>2. QED
      BY <1>2, <1>a, <2>2, <3>1
  <2>3. CASE s.kind \in {"create", "edit"}
    BY <1>2, <1>a, <1>b, <2>3
  <2>4. QED
    BY <1>0, <2>1, <2>2, <2>3 DEF SessionOK
<1>6. \A e \in s.entries : EntryInv(e) /\ e.conf = s.conf /\ e.batch \in DOMAIN batches'
  BY <1>0, <1>2 DEF SessionOK, BatchOK
<1>7. TypeOK'
  <2>1. DOMAIN batches' \subseteq 1 .. MaxBatches
    BY <1>0, <1>2 DEF SessionOK, BatchOK, IInv, TypeOK
  <2>2. \A e \in changes' : e.conf \in Confs /\ e.batch \in DOMAIN batches' /\ e.old # e.new
    BY <1>1, <1>4, <1>6 DEF EntryInv, IInv, TypeOK
  <2>3. \A u \in Slots : open'[u] # None => open'[u].conf \in Confs \cup {None}
    BY <1>1 DEF IInv, TypeOK
  <2>4. undone' \subseteq Confs
    BY <1>0, <1>3 DEF SessionOK, IInv, TypeOK
  <2>5. QED
    BY <1>1, <1>5, <2>1, <2>2, <2>3, <2>4 DEF TypeOK
<1>8. HistoryInv'
  <2>1. ASSUME NEW e \in changes'
        PROVE  EntryInv(e) /\ db'[e.conf] \notin {Absent, Deleted}
    <3>1. EntryInv(e) /\ (e \in changes \/ e.conf = s.conf)
      BY <1>1, <1>6 DEF IInv, HistoryInv
    <3>2. CASE e.conf = s.conf
      BY <1>1, <3>1, <3>2, SentinelAssumption DEF EntryInv
    <3>3. CASE e.conf # s.conf
      BY <1>1, <3>1, <3>3 DEF EntryInv, IInv, HistoryInv
    <3>4. QED
      BY <3>2, <3>3
  <2>2. QED
    BY <2>1 DEF HistoryInv, EntryInv
<1>9. ImportOnce'
  <2>1. CASE s.kind = "import"
    BY <1>0, <1>2, <2>1 DEF BatchOK, IInv, ImportOnce
  <2>2. CASE s.kind = "rollback"
    <3>1. batches'[s.batch].status = "Rolled Back"
      BY <1>0, <1>2, <2>2 DEF BatchOK, IInv, TypeOK
    <3>2. \A b \in DOMAIN batches' : b # s.batch => batches'[b] = batches[b]
      BY <1>2, <2>2
    <3>3. QED
      BY <1>2, <2>2, <3>1, <3>2 DEF IInv, ImportOnce
  <2>3. CASE s.kind \in {"create", "edit"}
    BY <1>2, <1>b, <2>3 DEF IInv, ImportOnce
  <2>4. QED
    BY <1>0, <2>1, <2>2, <2>3 DEF SessionOK
<1>10. ASSUME NEW u \in Slots, open'[u] # None
       PROVE  SessionInv(u)'
  <2>1. u # t /\ open'[u] = open[u] /\ open[u] # None /\ SessionInv(u)
    BY <1>1, <1>10 DEF IInv
  <2>2. SessionOK(open[u])'
    BY <2>1 DEF SessionInv, SessionOK
  <2>3. Alone(u, open[u])'
    BY <1>1, <2>1 DEF SessionInv, Alone, Creates
  <2>4. Creates(open[u]) => db'[open[u].conf] = Absent
    <3>1. Creates(open[u]) => open[u].conf # s.conf
      BY <1>0, <2>1 DEF SessionInv, Alone, s
    <3>2. QED
      BY <1>1, <2>1, <3>1 DEF SessionInv, Creates
  <2>5. BatchOK(open[u])'
    <3>1. ~(s.kind = "import" /\ open[u].kind = "import")
      BY <1>0, <2>1 DEF SessionInv, Alone, s
    <3>2. BatchOK(open[u])
      BY <2>1 DEF SessionInv
    <3>3. CASE open[u].kind = "import"
      <4>1. DOMAIN batches' = DOMAIN batches
        BY <1>0, <1>2, <3>1, <3>3 DEF SessionOK
      <4>2. ASSUME NEW b \in DOMAIN batches
            PROVE  batches'[b] # [file |-> open[u].file, status |-> "Applied"]
        <5>1. batches[b] # [file |-> open[u].file, status |-> "Applied"]
          BY <3>2, <3>3 DEF BatchOK
        <5>2. CASE b # s.batch
          BY <1>2, <5>1, <5>2
        <5>3. CASE b = s.batch
          <6>1. s.kind = "rollback"
            BY <1>0, <1>b, <3>1, <3>3, <5>3 DEF SessionOK
          <6>2. batches'[b].status = "Rolled Back"
            BY <1>2, <1>a, <5>3, <6>1
          <6>3. [file |-> open[u].file, status |-> "Applied"].status = "Applied"
            OBVIOUS
          <6>4. QED
            BY <6>2, <6>3
        <5>4. QED
          BY <5>2, <5>3
      <4>3. QED
        BY <2>1, <3>2, <3>3, <4>1, <4>2 DEF BatchOK
    <3>4. CASE open[u].kind # "import"
      BY <1>4, <2>1, <3>2, <3>4 DEF BatchOK
    <3>5. QED
      BY <3>3, <3>4
  <2>6. QED
    BY <2>1, <2>2, <2>3, <2>4, <2>5 DEF SessionInv, Creates
<1>11. QED
  BY <1>7, <1>8, <1>9, <1>10 DEF IInv

LEMMA DeleteStep ==
  ASSUME IInv, DeleteConference
  PROVE  IInv'
<1>1. PICK c \in Existing :
        /\ db' = [db EXCEPT ![c] = Deleted]
        /\ changes' = {e \in changes : e.conf # c}
        /\ undone' = undone \ {c}
        /\ UNCHANGED <<batches, open>>
  BY DEF DeleteConference
<1>2. c \in Confs /\ db[c] \in Rows
  BY ExistingRows DEF IInv
<1>3. TypeOK'
  BY <1>1 DEF IInv, TypeOK
<1>4. HistoryInv'
  BY <1>1 DEF IInv, TypeOK, HistoryInv, EntryInv
<1>5. ASSUME NEW u \in Slots, open'[u] # None
      PROVE  SessionInv(u)'
  <2>1. SessionInv(u)
    BY <1>1, <1>5 DEF IInv
  <2>2. SessionOK(open[u])' /\ BatchOK(open[u])' /\ Alone(u, open[u])'
    BY <1>1, <2>1 DEF SessionInv, SessionOK, BatchOK, Alone, Creates
  <2>3. Creates(open[u]) => db'[open[u].conf] = Absent
    <3>1. Creates(open[u]) => open[u].conf # c
      BY <1>2, <2>1, SentinelAssumption DEF SessionInv
    <3>2. QED
      BY <1>1, <2>1, <3>1 DEF SessionInv, Creates, IInv, TypeOK
  <2>4. QED
    BY <1>1, <2>2, <2>3 DEF SessionInv, Creates
<1>6. ImportOnce'
  BY <1>1 DEF IInv, ImportOnce
<1>7. QED
  BY <1>3, <1>4, <1>5, <1>6 DEF IInv

LEMMA AbortStep ==
  ASSUME IInv, NEW t \in Slots, Abort(t)
  PROVE  IInv'
<1>1. /\ \A u \in Slots : open'[u] # None => open'[u] = open[u]
      /\ DOMAIN open' = Slots /\ UNCHANGED <<db, batches, changes, undone>>
  BY DEF Abort, IInv, TypeOK
<1>2. TypeOK' /\ HistoryInv' /\ ImportOnce'
  BY <1>1 DEF IInv, TypeOK, HistoryInv, ImportOnce
<1>3. ASSUME NEW u \in Slots, open'[u] # None
      PROVE  SessionInv(u)'
  <2>1. open'[u] = open[u] /\ open[u] # None /\ SessionInv(u)
    BY <1>1, <1>3 DEF IInv
  <2>2. SessionOK(open[u])' /\ BatchOK(open[u])'
    BY <1>1, <2>1 DEF SessionInv, SessionOK, BatchOK
  <2>3. Alone(u, open[u])'
    BY <1>1, <2>1 DEF SessionInv, Alone, Creates
  <2>4. QED
    BY <1>1, <2>1, <2>2, <2>3 DEF SessionInv, Creates
<1>4. QED
  BY <1>2, <1>3 DEF IInv

\* A step that is not a commit, an abort or a deletion begins a request.
LEMMA RequestBegins ==
  ASSUME IInv, NEW t \in Slots,
         \/ CreateConference(t) \/ UpdateConference(t) \/ UpdateMilestone(t)
         \/ RefreshConference(t) \/ ApplyImport(t) \/ RollbackImport(t)
  PROVE  \E s : BeginOK(t, s)
BY CreateBegins, UpdateBegins, MilestoneBegins, RefreshBegins, ImportBegins, RollbackBegins

LEMMA BeginKeepsIInv ==
  ASSUME IInv, NEW t \in Slots, NEW s, BeginOK(t, s)
  PROVE  IInv'
<1>1. s.conf \in Confs /\ ~Creates(s) => db[s.conf] # Absent
  BY DEF BeginOK, Existing
<1>2. QED
  BY <1>1, BeginStep DEF BeginOK

LEMMA StepIInv == IInv /\ [Next]_vars => IInv'
<1> SUFFICES ASSUME IInv, [Next]_vars PROVE IInv'
  OBVIOUS
<1>1. CASE DeleteConference
  BY <1>1, DeleteStep
<1>2. ASSUME NEW t \in Slots, Commit(t) PROVE IInv'
  BY <1>2, CommitStep
<1>3. ASSUME NEW t \in Slots, Abort(t) PROVE IInv'
  BY <1>3, AbortStep
<1>4. ASSUME NEW t \in Slots,
             \/ CreateConference(t) \/ UpdateConference(t) \/ UpdateMilestone(t)
             \/ RefreshConference(t) \/ ApplyImport(t) \/ RollbackImport(t)
      PROVE  IInv'
  BY <1>4, RequestBegins, BeginKeepsIInv
<1>5. CASE UNCHANGED vars
  <2>1. UNCHANGED <<db, batches, changes, open, undone>>
    BY <1>5 DEF vars
  <2>2. TypeOK' /\ HistoryInv' /\ ImportOnce'
    BY <2>1 DEF IInv, TypeOK, HistoryInv, ImportOnce
  <2>3. ASSUME NEW u \in Slots, open'[u] # None
        PROVE  SessionInv(u)'
    <3>1. SessionInv(u)
      BY <2>1, <2>3 DEF IInv
    <3>2. QED
      BY <2>1, <3>1 DEF SessionInv, SessionOK, BatchOK, Alone, Creates
  <2>4. QED
    BY <2>2, <2>3 DEF IInv
<1>6. QED
  BY <1>1, <1>2, <1>3, <1>4, <1>5 DEF Next

LEMMA Inductive == Spec => []IInv
BY InitIInv, StepIInv, PTL DEF Spec

-----------------------------------------------------------------------------
\* Every table keeps its type, however many requests overlap: rows with all
\* their columns, known statuses, and a history that names real changes.
THEOREM TypeCorrect == Spec => []TypeOK
<1>1. IInv => TypeOK
  BY DEF IInv
<1>2. QED
  BY <1>1, Inductive, PTL

\* No spreadsheet is applied twice unless its import was rolled back, however
\* its imports meet other requests.
THEOREM ImportCorrect == Spec => []ImportOnce
<1>1. IInv => ImportOnce
  BY DEF IInv
<1>2. QED
  BY <1>1, Inductive, PTL

\* The commit of a request that had loaded a conference does not bring it back
\* after its deletion, nor leave history of it behind.
THEOREM DeletedCorrect == Spec => DeletedForGood
<1> DEFINE Stays == /\ \A c \in Confs : db[c] = Deleted => db'[c] = Deleted
                    /\ \A e \in changes' : db'[e.conf] # Deleted
<1>1. ASSUME IInv, [Next]_vars PROVE [Stays]_vars
  <2>1. \A e \in changes' : db'[e.conf] # Deleted
    BY <1>1, StepIInv DEF IInv, HistoryInv
  <2>2. ASSUME NEW t \in Slots, Commit(t)
        PROVE  \A c \in Confs : db[c] = Deleted => db'[c] = Deleted
    BY <1>1, <2>2, CommitEffect
  <2>3. CASE DeleteConference
    <3>1. db \in [Confs -> Rows \cup {Absent, Deleted}]
      BY <1>1 DEF IInv, TypeOK
    <3>2. QED
      BY <2>1, <2>3, <3>1 DEF DeleteConference
  <2>4. ASSUME NEW t \in Slots, Abort(t) \/ \E s : BeginOK(t, s)
        PROVE  UNCHANGED db
    BY <2>4 DEF Abort, BeginOK, Begin
  <2>5. QED
    BY <1>1, <2>1, <2>2, <2>3, <2>4, RequestBegins DEF Next
<1>2. QED
  BY <1>1, Inductive, PTL DEF Spec, DeletedForGood

-----------------------------------------------------------------------------
(* One request at a time                                                   *)

LEMMA StoreAll ==
  ASSUME NEW s, s.before \in Rows, s.after \in Rows
  PROVE  Store(s.before, s) = s.after
<1>1. s.before # Absent
  BY SentinelAssumption
<1>2. Changed(s.before.row, s.before.row, s.after.row) = s.after.row
  BY DEF Rows, Columns, Changed
<1>3. Changed(s.before.ms, s.before.ms, s.after.ms) = s.after.ms
  BY DEF Rows, Changed
<1>4. QED
  BY <1>1, <1>2, <1>3 DEF Store, Rows

LEMMA OneSlot ==
  ASSUME Cardinality(Slots) = 1
  PROVE  \A t, u \in Slots : t = u
BY FS_Singleton, BoundsAssumption

LEMMA CommitSerial ==
  ASSUME \A t, u \in Slots : t = u, IInv, SerialInv, NEW t \in Slots, Commit(t)
  PROVE  SerialInv'
<1> DEFINE s == open[t]
<1>1. /\ SessionOK(s) /\ s # None
      /\ \A c \in Confs \ {s.conf} : db'[c] = db[c]
      /\ s.conf \in Confs => db'[s.conf] \in Rows /\ db[s.conf] # Deleted
      /\ open'[t] = None
  BY CommitEffect DEF SessionInv
<1>2. undone' = IF s.kind = "rollback" THEN undone \cup ({s.conf} \ {None})
                                      ELSE undone \ {s.conf}
  BY DEF Commit
<1>3. ASSUME s.conf \in Confs
      PROVE  db'[s.conf] = s.after
  <2>1. db'[s.conf] = Store(db[s.conf], s)
    BY <1>3 DEF Commit
  <2>2. CASE s.before = Absent
    BY <2>1, <2>2 DEF Store
  <2>3. CASE s.before # Absent
    <3>1. db[s.conf] = s.before
      BY <1>1, <1>3, <2>3 DEF SerialInv
    <3>2. s.before \in Rows /\ s.after \in Rows
      BY <1>1, <1>3, <2>3 DEF SessionOK
    <3>3. QED
      BY <2>1, <3>1, <3>2, StoreAll
  <2>4. QED
    BY <2>2, <2>3
<1>4. ASSUME NEW c \in Existing' \ undone'
      PROVE  Recalculated(db'[c])
  <2>1. c \in Confs
    BY DEF Existing
  <2>2. CASE c = s.conf
    <3>1. s.kind # "rollback"
      BY <1>2, <2>1, <2>2, SentinelAssumption
    <3>2. QED
      BY <1>1, <1>3, <2>1, <2>2, <3>1 DEF SessionOK
  <2>3. CASE c # s.conf
    <3>1. db'[c] = db[c] /\ c \in Existing /\ c \notin undone
      BY <1>1, <1>2, <2>1, <2>3 DEF Existing
    <3>2. QED
      BY <3>1 DEF SerialInv
  <2>4. QED
    BY <2>2, <2>3
<1>5. \A u \in Slots : open'[u] = None
  BY <1>1
<1>6. QED
  BY <1>4, <1>5 DEF SerialInv

LEMMA StepSerial ==
  ASSUME \A t, u \in Slots : t = u, IInv, SerialInv, [Next]_vars
  PROVE  SerialInv'
<1>1. ASSUME NEW t \in Slots, Commit(t) PROVE SerialInv'
  BY <1>1, CommitSerial
<1>2. CASE DeleteConference
  <2>1. db \in [Confs -> Rows \cup {Absent, Deleted}]
    BY DEF IInv, TypeOK
  <2>2. PICK c \in Existing : /\ db' = [db EXCEPT ![c] = Deleted]
                              /\ undone' = undone \ {c} /\ open' = open
    BY <1>2 DEF DeleteConference
  <2>3. \A d \in Confs : db'[d] = IF d = c THEN Deleted ELSE db[d]
    BY <2>1, <2>2
  <2>4. QED
    BY <2>2, <2>3 DEF SerialInv, Existing
<1>3. ASSUME NEW t \in Slots, NEW s, BeginOK(t, s) PROVE SerialInv'
  <2>1. UNCHANGED <<db, undone>> /\ open' = [open EXCEPT ![t] = s] /\ DOMAIN open = Slots
    BY <1>3 DEF BeginOK, Begin, IInv, TypeOK
  <2>2. \A u \in Slots : open'[u] = s
    BY <2>1
  <2>3. s.conf \in Confs /\ s.before # Absent => s.before = db[s.conf]
    BY <1>3 DEF BeginOK, Creates
  <2>4. QED
    BY <2>1, <2>2, <2>3 DEF SerialInv, Existing
<1>4. ASSUME NEW t \in Slots, Abort(t) PROVE SerialInv'
  <2>1. UNCHANGED <<db, undone>> /\ open'[t] = None
    BY <1>4 DEF Abort, IInv, TypeOK
  <2>2. \A u \in Slots : open'[u] = None
    BY <2>1
  <2>3. QED
    BY <2>1, <2>2 DEF SerialInv, Existing
<1>5. CASE UNCHANGED vars
  BY <1>5 DEF vars, SerialInv, Existing
<1>6. QED
  BY <1>1, <1>2, <1>3, <1>4, <1>5, RequestBegins DEF Next

\* After any sequence of requests served one at a time, whatever they were,
\* recalculating a conference changes nothing, unless it was rolled back.
THEOREM RecalculatedCorrect == Spec => []NothingToRecalculate
<1>1. CASE Cardinality(Slots) = 1
  <2>1. \A t, u \in Slots : t = u
    BY <1>1, OneSlot
  <2>2. Init => SerialInv
    BY DEF Init, SerialInv, Existing
  <2>3. IInv /\ SerialInv /\ [Next]_vars => SerialInv'
    BY <2>1, StepSerial
  <2>4. SerialInv => NothingToRecalculate
    BY DEF SerialInv, NothingToRecalculate, Recalculated
  <2>5. QED
    BY <2>2, <2>3, <2>4, Inductive, PTL DEF Spec
<1>2. CASE Cardinality(Slots) # 1
  <2>1. NothingToRecalculate
    BY <1>2 DEF NothingToRecalculate
  <2>2. QED
    BY <2>1, PTL
<1>3. QED
  BY <1>1, <1>2
=============================================================================
