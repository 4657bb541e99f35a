--------------------------- MODULE PortfolioProofs ---------------------------
(***************************************************************************)
(* Proofs about Portfolio for any conferences, vocabularies, score         *)
(* settings and generations.                                               *)
(*                                                                         *)
(* What a recalculation stores is a fixed point of the policy and of the   *)
(* facts (Synced); so a generation, which recalculates from its snapshot,  *)
(* finds facts it would not change and leaves the stored ones alone.  A    *)
(* score is a quotient of sums over the milestones: it is bounded and      *)
(* compared by what holds of each of them.                                 *)
(***************************************************************************)
EXTENDS Portfolio, MilestoneRulesProofs

\* A row of conferences with its milestones.
Milestones(ms) == ms = [k \in Codes |-> [status |-> ms[k].status, due |-> ms[k].due]]

Conference(x) ==
  x = [tcs |-> x.tcs, start |-> x.start, end |-> x.end, contact |-> x.contact, ms |-> x.ms,
       application |-> x.application, mou |-> x.mou, finance |-> x.finance,
       publication |-> x.publication, base |-> x.base, penalty |-> x.penalty,
       score |-> x.score, completeness |-> x.completeness, phase |-> x.phase,
       status |-> x.status, band |-> x.band]

Shaped(x) == Conference(x) /\ Milestones(x.ms)

\* Policy and facts have nothing to change.
Synced(x) ==
  /\ Shaped(x)
  /\ x.tcs => \A k \in Codes \cap FinanceCodes : x.ms[k].status = "Not Applicable"
  /\ "APPLICATION" \in Codes => x.application = x.ms["APPLICATION"].status
  /\ "MOU" \in Codes => x.mou = x.ms["MOU"].status
  /\ x.finance = FinanceStatus(StatusOf(x), x.finance)
  /\ x.publication = PublicationStatus(StatusOf(x), x.publication)

\* Two rows with the same columns but for the score's.
SameFacts(x, y) ==
  /\ x.tcs = y.tcs /\ x.start = y.start /\ x.end = y.end /\ x.contact = y.contact
  /\ x.ms = y.ms /\ x.application = y.application /\ x.mou = y.mou
  /\ x.finance = y.finance /\ x.publication = y.publication

PolicyMs(x) ==
  [k \in Codes |->
    [status |-> IF x.tcs /\ k \in FinanceCodes THEN "Not Applicable" ELSE x.ms[k].status,
     due |-> x.ms[k].due]]

\* The statuses of its milestones and its facts are configured ones, but for
\* those recalculate itself puts there (VocabularyKept).
Keeps(x, v, codes, value) ==
  value \in Vocabulary[v].statuses
  \/ (x.tcs /\ codes \subseteq FinanceCodes /\ value = "Not Applicable")

MsKept(x, v) == \A k \in Codes : Keeps(x, v, {k}, x.ms[k].status)

FinanceKept(x, v) ==
  \/ Keeps(x, v, FinanceCodes, x.finance)
  \/ /\ x.finance = "In Progress"
     /\ \A k \in {"BUDGET", "BANKING"} \cap Codes : x.ms[k].status \in {"Approved", "Complete"}

FactsKept(x, v) ==
  /\ MsKept(x, v) /\ FinanceKept(x, v)
  /\ {x.application, x.mou, x.publication} \subseteq Vocabulary[v].statuses

\* A row whose recalculation keeps the vocabulary: a fact without a milestone
\* stays what it is.
WillKeep(x, v) ==
  /\ MsKept(x, v)
  /\ "APPLICATION" \notin Codes => x.application \in Vocabulary[v].statuses
  /\ "MOU" \notin Codes => x.mou \in Vocabulary[v].statuses
  /\ Codes \cap FinanceCodes = {} => FinanceKept(x, v)
  /\ Codes \cap PublicationCodes = {} => x.publication \in Vocabulary[v].statuses

IssueKept(x, v) ==
  x.stray # "yes" =>
    x.severity \in Vocabulary[v].severities /\ x.status \in Vocabulary[v].statuses

Issue(x) ==
  /\ x = [conf |-> x.conf, title |-> x.title, severity |-> x.severity, status |-> x.status,
          assessment |-> x.assessment, active |-> x.active, stray |-> x.stray]
  /\ x.conf \in Confs /\ x.active \in BOOLEAN

\* Dates, and what is computed from them.
Date == Int \cup {NoDate}

Dated(x) == x.start \in Date /\ x.end \in Date /\ \A k \in Codes : x.ms[k].due \in Date

Typed(x) ==
  Dated(x) /\ x.base \in 0 .. 1000 /\ x.score \in 0 .. 1000 /\ x.completeness \in 0 .. 1000

Rows(d) == DOMAIN d = Confs /\ \A c \in Confs : Synced(d[c]) /\ Typed(d[c])

\* The snapshot of a generation has the rows of some earlier state.
Generation(g) ==
  g.targets \subseteq Confs /\ Rows(g.seen.confs) /\ g.seen.scoring \in Scorings

RowsInv ==
  /\ day \in Days /\ vocab \in Vocabularies /\ scoring \in Scorings
  /\ confs = [c \in Confs |-> confs[c]] /\ Rows(confs)
  /\ trace = [c \in Confs |-> trace[c]]

IssuesOK(all, v) ==
  /\ all = [i \in Issues |-> all[i]]
  /\ \A i \in Issues : all[i] # NoIssue => Issue(all[i]) /\ IssueKept(all[i], v)

\* Two issues that look alike to the generation.
Twins(x, y) ==
  /\ x # NoIssue /\ y # NoIssue /\ x.active /\ y.active
  /\ x.conf = y.conf /\ x.title = y.title /\ x.title # "manual"
  /\ x.stray = "no" /\ y.stray = "no"

Twinless(all) == \A i, j \in Issues : i # j => ~Twins(all[i], all[j])

GensInv ==
  /\ gens = [t \in Slots |-> gens[t]]
  /\ \A t \in Slots : gens[t] # Idle => Generation(gens[t])

Fresh(c) ==
  Recalculate(confs[c], IssuesOf(c, issues), Scoring[scoring],
              Vocabulary[vocab].phases, confs[c].contact, trace[c].day)

\* A row agrees with its recalculation, but for what may lag.
Agrees(x, fresh, lags) ==
  x = IF lags THEN [fresh EXCEPT !.completeness = x.completeness, !.band = x.band]
      ELSE fresh

Current(c) == trace[c].stale \/ Agrees(confs[c], Fresh(c), trace[c].lags)

\* The last recalculation divided by nothing that is zero.
Computed(c) == trace[c].stale \/ Computable(confs[c], trace[c].day, Scoring[scoring])

IInv ==
  /\ RowsInv /\ GensInv
  /\ \A c \in Confs : FactsKept(confs[c], vocab)
  /\ \A c \in Confs : confs[c].phase \in Vocabulary[vocab].phases \/ trace[c].stale
  /\ \A c \in Confs : Current(c) /\ Computed(c)
  /\ IssuesOK(issues, vocab) /\ Twinless(issues)

-----------------------------------------------------------------------------
(* Recalculation                                                           *)

\* What the first part of recalculate leaves, column by column.
LEMMA PreparedColumns ==
  ASSUME NEW x, Shaped(x)
  PROVE  LET p == Prepared(x) IN
         /\ Shaped(p) /\ p.ms = PolicyMs(x)
         /\ p.tcs = x.tcs /\ p.start = x.start /\ p.end = x.end /\ p.contact = x.contact
         /\ p.application = IF "APPLICATION" \in Codes THEN p.ms["APPLICATION"].status
                            ELSE x.application
         /\ p.mou = IF "MOU" \in Codes THEN p.ms["MOU"].status ELSE x.mou
         /\ p.finance = FinanceStatus(StatusOf(p), x.finance)
         /\ p.publication = PublicationStatus(StatusOf(p), x.publication)
         /\ p.phase = x.phase /\ p.status = x.status
<1> DEFINE ms == PolicyMs(x)
           status == FinanceExcluded(x.tcs, StatusOf(x))
           y == [x EXCEPT !.ms = [k \in Codes |-> [@[k] EXCEPT !.status = status[k]]]]
<1>1. [k \in Codes |-> [x.ms[k] EXCEPT !.status = status[k]]] = ms
  <2>1. ASSUME NEW k \in Codes
        PROVE  [x.ms[k] EXCEPT !.status = status[k]] = ms[k]
    <3>1. x.ms[k] = [status |-> x.ms[k].status, due |-> x.ms[k].due]
      BY DEF Shaped, Milestones
    <3>2. status[k] = IF x.tcs /\ k \in FinanceCodes THEN "Not Applicable" ELSE x.ms[k].status
      BY DEF FinanceExcluded, StatusOf
    <3> DEFINE new == status[k]
    <3>3. ms[k] = [status |-> new, due |-> x.ms[k].due]
      BY <3>2 DEF PolicyMs
    <3> HIDE DEF new, ms
    <3>4. [x.ms[k] EXCEPT !.status = new] = [status |-> new, due |-> x.ms[k].due]
      BY <3>1
    <3>5. QED
      BY <3>3, <3>4 DEF new
  <2>2. QED
    BY <2>1 DEF PolicyMs
<1>2. y = [x EXCEPT !.ms = ms]
  BY <1>1 DEF Shaped, Conference
<1>3. Milestones(ms)
  BY DEF Milestones, PolicyMs
<1>4. Prepared(x) = SyncFacts(y)
  BY DEF Prepared
<1> HIDE DEF y, ms
<1>5. /\ Conference(y) /\ y.ms = ms
      /\ y.tcs = x.tcs /\ y.start = x.start /\ y.end = x.end /\ y.contact = x.contact
      /\ y.application = x.application /\ y.mou = x.mou /\ y.finance = x.finance
      /\ y.publication = x.publication /\ y.phase = x.phase /\ y.status = x.status
  BY <1>2 DEF Shaped, Conference
<1>6. /\ Conference(SyncFacts(y)) /\ SyncFacts(y).ms = ms
      /\ SyncFacts(y).tcs = y.tcs /\ SyncFacts(y).start = y.start /\ SyncFacts(y).end = y.end
      /\ SyncFacts(y).contact = y.contact /\ SyncFacts(y).phase = y.phase
      /\ SyncFacts(y).status = y.status
      /\ SyncFacts(y).application =
           IF "APPLICATION" \in Codes THEN ms["APPLICATION"].status ELSE y.application
      /\ SyncFacts(y).mou = IF "MOU" \in Codes THEN ms["MOU"].status ELSE y.mou
      /\ SyncFacts(y).finance = FinanceStatus(StatusOf(y), y.finance)
      /\ SyncFacts(y).publication = PublicationStatus(StatusOf(y), y.publication)
  <2> DEFINE application == IF "APPLICATION" \in Codes THEN y.ms["APPLICATION"].status
                            ELSE y.application
             mou == IF "MOU" \in Codes THEN y.ms["MOU"].status ELSE y.mou
             finance == FinanceStatus(StatusOf(y), y.finance)
             publication == PublicationStatus(StatusOf(y), y.publication)
  <2>1. Conference(y)
    BY <1>5
  <2>2. SyncFacts(y) = [y EXCEPT !.application = application, !.mou = mou,
                                 !.finance = finance, !.publication = publication]
    BY <2>1 DEF SyncFacts, Conference
  <2> HIDE DEF application, mou, finance, publication
  <2> DEFINE z == SyncFacts(y)
  <2>3. z = [tcs |-> y.tcs, start |-> y.start, end |-> y.end, contact |-> y.contact,
             ms |-> y.ms, application |-> application, mou |-> mou, finance |-> finance,
             publication |-> publication, base |-> y.base, penalty |-> y.penalty,
             score |-> y.score, completeness |-> y.completeness, phase |-> y.phase,
             status |-> y.status, band |-> y.band]
    BY <2>1, <2>2 DEF Conference
  <2> HIDE DEF z
  <2>4. /\ z.tcs = y.tcs /\ z.start = y.start /\ z.end = y.end /\ z.contact = y.contact
        /\ z.ms = y.ms /\ z.application = application /\ z.mou = mou /\ z.finance = finance
        /\ z.publication = publication /\ z.phase = y.phase /\ z.status = y.status
        /\ Conference(z)
    BY <2>3 DEF Conference
  <2>5. QED
    BY <1>5, <2>4 DEF z, application, mou, finance, publication
<1>7. StatusOf(SyncFacts(y)) = StatusOf(y)
  BY <1>5, <1>6 DEF StatusOf
<1>8. QED
  BY <1>3, <1>4, <1>5, <1>6, <1>7 DEF Shaped, ms

\* A row prepared for the formula has the facts of its milestones.
LEMMA PreparedSynced ==
  ASSUME NEW x, Shaped(x)
  PROVE  Synced(Prepared(x))
<1> DEFINE p == Prepared(x)
<1>1. /\ Shaped(p) /\ p.ms = PolicyMs(x) /\ p.tcs = x.tcs
      /\ p.application = IF "APPLICATION" \in Codes THEN p.ms["APPLICATION"].status
                         ELSE x.application
      /\ p.mou = IF "MOU" \in Codes THEN p.ms["MOU"].status ELSE x.mou
      /\ p.finance = FinanceStatus(StatusOf(p), x.finance)
      /\ p.publication = PublicationStatus(StatusOf(p), x.publication)
  BY PreparedColumns
<1> HIDE DEF p
<1>2. p.tcs => \A k \in Codes \cap FinanceCodes : p.ms[k].status = "Not Applicable"
  <2>1. SUFFICES ASSUME p.tcs, NEW k \in Codes \cap FinanceCodes
                 PROVE  p.ms[k].status = "Not Applicable"
    OBVIOUS
  <2>2. x.tcs
    BY <1>1, <2>1
  <2>3. PolicyMs(x)[k].status = "Not Applicable"
    BY <2>2 DEF PolicyMs
  <2>4. QED
    BY <1>1, <2>3
<1>3. /\ p.finance = FinanceStatus(StatusOf(p), p.finance)
      /\ p.publication = PublicationStatus(StatusOf(p), p.publication)
  BY <1>1, DerivedTwice
<1>4. Synced(p)
  BY <1>1, <1>2, <1>3 DEF Synced
<1>5. QED
  BY <1>4 DEF p

\* The policy and the facts are idempotent.
LEMMA SyncedPrepared ==
  ASSUME NEW x, Synced(x)
  PROVE  Prepared(x) = x
<1> DEFINE status == FinanceExcluded(x.tcs, StatusOf(x))
           y == [x EXCEPT !.ms = [k \in Codes |-> [@[k] EXCEPT !.status = status[k]]]]
<1>1. [k \in Codes |-> [x.ms[k] EXCEPT !.status = status[k]]] = x.ms
  <2>1. ASSUME NEW k \in Codes
        PROVE  [x.ms[k] EXCEPT !.status = status[k]] = x.ms[k]
    <3>1. x.ms[k] = [status |-> x.ms[k].status, due |-> x.ms[k].due]
      BY DEF Synced, Shaped, Milestones
    <3>2. status[k] = x.ms[k].status
      BY DEF FinanceExcluded, StatusOf, Synced
    <3>3. QED
      BY <3>1, <3>2
  <2>2. x.ms = [k \in Codes |-> x.ms[k]]
    BY DEF Synced, Shaped, Milestones
  <2>3. QED
    BY <2>1, <2>2
<1>2. y = x
  <2>1. y = [x EXCEPT !.ms = x.ms]
    BY <1>1 DEF Synced, Shaped, Conference
  <2>2. QED
    BY <2>1 DEF Synced, Shaped, Conference
<1>3. Prepared(x) = SyncFacts(y)
  BY DEF Prepared
<1> HIDE DEF y
<1>4. SyncFacts(x) = x
  <2>1. Conference(x)
    BY DEF Synced, Shaped
  <2>2. SyncFacts(x) =
          [x EXCEPT !.application = x.application, !.mou = x.mou, !.finance = x.finance,
                    !.publication = x.publication]
    BY <2>1 DEF SyncFacts, Synced, Conference
  <2>3. QED
    BY <2>1, <2>2 DEF Conference
<1>5. QED
  BY <1>2, <1>3, <1>4

\* What recalculate leaves: the facts, and each column of the score.
LEMMA RecalculateColumns ==
  ASSUME NEW x, Shaped(x), NEW all, NEW s, NEW phases, NEW contact, NEW today
  PROVE  LET d == Prepared(x)
             r == Recalculate(x, all, s, phases, contact, today)
             stats == Stats(d.ms, today)
             derived == LifecyclePhase(d, stats, today)
         IN
         /\ Conference(r) /\ SameFacts(r, d)
         /\ r.base = BaseScore(d.ms, d.tcs, today, s)
         /\ r.penalty = IssuePenalty(all, s)
         /\ r.score = Clamped(FormulaScore(s.formula, r.base, r.penalty, stats))
         /\ r.completeness = DataCompleteness(d, contact)
         /\ r.phase = (IF derived \in phases THEN derived ELSE "Unknown")
         /\ r.status = ConferenceStatus(d, r.score, r.phase, stats)
         /\ r.band = StatusBand(r.score, r.completeness, r.status)
<1> DEFINE d        == Prepared(x)
           stats    == Stats(d.ms, today)
           base     == BaseScore(d.ms, d.tcs, today, s)
           penalty  == IssuePenalty(all, s)
           score    == Clamped(FormulaScore(s.formula, base, penalty, stats))
           complete == DataCompleteness(d, contact)
           derived  == LifecyclePhase(d, stats, today)
           phase    == IF derived \in phases THEN derived ELSE "Unknown"
           status   == ConferenceStatus(d, score, phase, stats)
           band     == StatusBand(score, complete, status)
           r        == Recalculate(x, all, s, phases, contact, today)
<1>1. r = [d EXCEPT !.base = base, !.penalty = penalty, !.score = score,
                    !.completeness = complete, !.phase = phase, !.status = status,
                    !.band = band]
  BY DEF Recalculate
<1>2. Conference(d)
  BY PreparedColumns DEF Shaped
<1> HIDE DEF d, stats, base, penalty, score, complete, derived, phase, status, band, r
<1>3. r = [tcs |-> d.tcs, start |-> d.start, end |-> d.end, contact |-> d.contact, ms |-> d.ms,
           application |-> d.application, mou |-> d.mou, finance |-> d.finance,
           publication |-> d.publication, base |-> base, penalty |-> penalty,
           score |-> score, completeness |-> complete, phase |-> phase,
           status |-> status, band |-> band]
  BY <1>1, <1>2 DEF Conference
<1>4. /\ Conference(r) /\ SameFacts(r, d) /\ r.base = base /\ r.penalty = penalty
      /\ r.score = score /\ r.completeness = complete /\ r.phase = phase
      /\ r.status = status /\ r.band = band
  BY <1>3 DEF Conference, SameFacts
<1>5. QED
  BY <1>4 DEF d, stats, base, penalty, score, complete, derived, phase, status, band, r

\* Whether facts agree with milestones is read from the facts alone.
LEMMA SameFactsSynced ==
  ASSUME NEW x, NEW y, Synced(x), Conference(y), SameFacts(x, y)
  PROVE  Synced(y)
<1>1. StatusOf(y) = StatusOf(x)
  BY DEF StatusOf, SameFacts
<1>2. Shaped(y)
  BY DEF Synced, Shaped, SameFacts
<1>3. y.tcs => \A k \in Codes \cap FinanceCodes : y.ms[k].status = "Not Applicable"
  <2>1. SUFFICES ASSUME y.tcs PROVE \A k \in Codes \cap FinanceCodes : y.ms[k].status = "Not Applicable"
    OBVIOUS
  <2>2. x.tcs
    BY <2>1 DEF SameFacts
  <2>3. QED
    BY <2>2 DEF Synced, SameFacts
<1>4. QED
  BY <1>1, <1>2, <1>3 DEF Synced, SameFacts

\* A recalculated row has facts that agree with its milestones, and a known phase.
LEMMA RecalculateSynced ==
  ASSUME NEW x, Shaped(x), NEW all, NEW s, NEW phases, NEW contact, NEW today
  PROVE  LET r == Recalculate(x, all, s, phases, contact, today) IN
         /\ Synced(r) /\ r.ms = PolicyMs(x) /\ r.tcs = x.tcs /\ r.contact = x.contact
         /\ r.phase \in phases \cup {"Unknown"}
<1> DEFINE d == Prepared(x)
           r == Recalculate(x, all, s, phases, contact, today)
<1>1. Conference(r) /\ SameFacts(r, d) /\ r.phase \in phases \cup {"Unknown"}
  BY RecalculateColumns
<1>2. Synced(d) /\ d.ms = PolicyMs(x) /\ d.tcs = x.tcs /\ d.contact = x.contact
  BY PreparedSynced, PreparedColumns
<1> HIDE DEF d, r
<1>3. Synced(r)
  BY <1>1, <1>2, SameFactsSynced DEF SameFacts
<1>4. Synced(r) /\ r.ms = PolicyMs(x) /\ r.tcs = x.tcs /\ r.contact = x.contact
  BY <1>1, <1>2, <1>3 DEF SameFacts
<1>5. QED
  BY <1>1, <1>4 DEF r

\* The lifecycle phase and the status look at nothing recalculate writes, but
\* for a status of Cancelled, which it keeps.
LEMMA PhaseOfFacts ==
  ASSUME NEW x, NEW y, SameFacts(x, y), NEW stats, NEW today
  PROVE  LifecyclePhase(x, stats, today) = LifecyclePhase(y, stats, today)
BY DEF LifecyclePhase, SameFacts

\* The conference's status follows from itself as it followed from the earlier one.
LEMMA StatusAgain ==
  ASSUME NEW x, NEW y, NEW score, NEW phase, NEW stats,
         y.status = ConferenceStatus(x, score, phase, stats)
  PROVE  ConferenceStatus(y, score, phase, stats) = y.status
BY DEF ConferenceStatus, ScoreStatus

\* data_completeness counts a phase that is known, and no other column that
\* recalculate derives.
LEMMA CompletenessOfFacts ==
  ASSUME NEW x, NEW y, SameFacts(x, y), (x.phase = "Unknown") <=> (y.phase = "Unknown"),
         NEW contact
  PROVE  DataCompleteness(x, contact) = DataCompleteness(y, contact)
<1>1. {f \in {"start", "end"} : x[f] # NoDate} = {f \in {"start", "end"} : y[f] # NoDate}
  BY DEF SameFacts
<1>2. {f \in {"application", "mou", "finance", "publication", "phase"} : x[f] # "Unknown"}
      = {f \in {"application", "mou", "finance", "publication", "phase"} : y[f] # "Unknown"}
  BY DEF SameFacts
<1>3. {k \in Codes : x.ms[k].status # "Unknown"} = {k \in Codes : y.ms[k].status # "Unknown"}
  BY DEF SameFacts
<1>4. QED
  BY <1>1, <1>2, <1>3 DEF DataCompleteness

\* recalculate is idempotent, but for the completeness and its band, which lag
\* behind a phase that was derived, or a contact that was added, with it.
THEOREM RecalculateAgain ==
  ASSUME NEW x, Shaped(x), NEW all, NEW s, NEW phases, NEW contact, NEW today
  PROVE  LET r == Recalculate(x, all, s, phases, contact, today)
             again == Recalculate(r, all, s, phases, r.contact, today)
         IN Agrees(r, again, Lags(x, r, contact))
<1> DEFINE d     == Prepared(x)
           r     == Recalculate(x, all, s, phases, contact, today)
           again == Recalculate(r, all, s, phases, r.contact, today)
           stats == Stats(d.ms, today)
           old   == LifecyclePhase(d, stats, today)
           new   == LifecyclePhase(r, stats, today)
<1>1. /\ Conference(r) /\ SameFacts(r, d)
      /\ r.base = BaseScore(d.ms, d.tcs, today, s)
      /\ r.penalty = IssuePenalty(all, s)
      /\ r.score = Clamped(FormulaScore(s.formula, r.base, r.penalty, stats))
      /\ r.completeness = DataCompleteness(d, contact)
      /\ r.phase = (IF old \in phases THEN old ELSE "Unknown")
      /\ r.status = ConferenceStatus(d, r.score, r.phase, stats)
      /\ r.band = StatusBand(r.score, r.completeness, r.status)
  BY RecalculateColumns
<1>2. Synced(r)
  BY RecalculateSynced
<1>3. Prepared(r) = r /\ Shaped(r)
  <2> HIDE DEF r
  <2>1. QED
    BY <1>2, SyncedPrepared DEF Synced
<1>4. d.phase = x.phase
  BY PreparedColumns
<1>5. d.ms = r.ms /\ d.tcs = r.tcs
  BY <1>1 DEF SameFacts
<1>6. LET e == Prepared(r) IN
      /\ Conference(again) /\ SameFacts(again, e)
      /\ again.base = BaseScore(e.ms, e.tcs, today, s)
      /\ again.penalty = IssuePenalty(all, s)
      /\ again.score = Clamped(FormulaScore(s.formula, again.base, again.penalty,
                                             Stats(e.ms, today)))
      /\ again.completeness = DataCompleteness(e, r.contact)
      /\ again.phase = (IF LifecyclePhase(e, Stats(e.ms, today), today) \in phases
                          THEN LifecyclePhase(e, Stats(e.ms, today), today) ELSE "Unknown")
      /\ again.status = ConferenceStatus(e, again.score, again.phase, Stats(e.ms, today))
      /\ again.band = StatusBand(again.score, again.completeness, again.status)
  <2> HIDE DEF r
  <2>1. QED
    BY <1>3, RecalculateColumns
<1> HIDE DEF d, r, again
<1>7. /\ Conference(again) /\ SameFacts(again, r)
      /\ again.base = r.base /\ again.penalty = r.penalty /\ again.score = r.score
  BY <1>1, <1>3, <1>5, <1>6
<1>8. new = old
  BY <1>1, PhaseOfFacts
<1>9. again.phase = r.phase
  <2> HIDE DEF new, old
  <2>1. again.phase = (IF new \in phases THEN new ELSE "Unknown")
    BY <1>3, <1>5, <1>6 DEF new
  <2>2. QED
    BY <1>1, <1>8, <2>1
<1>10. again.status = r.status
  <2>1. again.status = ConferenceStatus(r, r.score, r.phase, stats)
    BY <1>3, <1>5, <1>6, <1>7, <1>9
  <2>2. QED
    BY <1>1, <2>1, StatusAgain
<1>11. ASSUME ~Lags(x, r, contact)
       PROVE  again.completeness = r.completeness
  <2>1. contact = r.contact /\ ((d.phase = "Unknown") <=> (r.phase = "Unknown"))
    BY <1>4, <1>11 DEF Lags
  <2>2. DataCompleteness(r, contact) = DataCompleteness(d, contact)
    BY <1>1, <2>1, CompletenessOfFacts
  <2>3. QED
    BY <1>1, <1>3, <1>6, <2>1, <2>2
<1>12. ASSUME ~Lags(x, r, contact)
       PROVE  r = again
  <2>1. again.band = r.band
    BY <1>1, <1>3, <1>6, <1>7, <1>10, <1>11, <1>12
  <2>2. QED
    BY <1>1, <1>7, <1>9, <1>10, <1>11, <1>12, <2>1 DEF Conference, SameFacts
<1>13. r = [again EXCEPT !.completeness = r.completeness, !.band = r.band]
  <2> DEFINE complete == r.completeness
             band == r.band
             z == [again EXCEPT !.completeness = complete, !.band = band]
  <2> HIDE DEF complete, band
  <2>0. z = [again EXCEPT !.completeness = complete, !.band = band]
    OBVIOUS
  <2> HIDE DEF z
  <2>1. z = [tcs |-> again.tcs, start |-> again.start, end |-> again.end,
             contact |-> again.contact, ms |-> again.ms, application |-> again.application,
             mou |-> again.mou, finance |-> again.finance, publication |-> again.publication,
             base |-> again.base, penalty |-> again.penalty, score |-> again.score,
             completeness |-> complete, phase |-> again.phase,
             status |-> again.status, band |-> band]
    <3>1. Conference(again)
      BY <1>7
    <3>2. QED
      BY <2>0, <3>1 DEF Conference
  <2>2. r = z
    BY <1>1, <1>7, <1>9, <1>10, <2>1 DEF Conference, SameFacts, complete, band
  <2>3. QED
    BY <2>2 DEF z, complete, band
<1>14. QED
  BY <1>12, <1>13 DEF r, again, Agrees

-----------------------------------------------------------------------------
(* The vocabulary                                                          *)

\* An aggregate of milestones is the status of one of them, or unknown.
LEMMA AggregateOneOf ==
  ASSUME NEW a, NEW b, NEW c
  PROVE  AggregateStatus(<<a, b, c>>) \in {"Unknown", a, b, c}
<1> DEFINE list  == <<a, b, c>>
           known == {i \in DOMAIN list : list[i] # "Unknown"}
           ranks == {n \in DOMAIN Priority : \E i \in known : list[i] = Priority[n]}
<1>0. DOMAIN list = 1 .. 3 /\ list[1] = a /\ list[2] = b /\ list[3] = c
  OBVIOUS
<1>1. ASSUME NEW i \in 1 .. 3 PROVE list[i] \in {a, b, c}
  <2>1. i = 1 \/ i = 2 \/ i = 3
    OBVIOUS
  <2>2. QED
    BY <1>0, <2>1
<1>2. AggregateStatus(list) =
        CASE known = {}                   -> "Unknown"
          [] known # {} /\ ranks # {}     -> Priority[Min(ranks)]
          [] known # {} /\ ranks = {}     -> list[Min(known)]
  BY DEF AggregateStatus
<1>3. known \in SUBSET (1 .. 3) /\ ranks \in SUBSET (1 .. 14)
  BY <1>0, PriorityDomain
<1> HIDE DEF list, known, ranks
<1>4. CASE known = {}
  BY <1>2, <1>4 DEF list
<1>5. CASE known # {} /\ ranks # {}
  <2>1. Min(ranks) \in ranks
    BY <1>3, <1>5, MinOfNaturals
  <2>2. PICK i \in known : list[i] = Priority[Min(ranks)]
    BY <2>1 DEF ranks
  <2>3. AggregateStatus(list) = list[i]
    BY <1>2, <1>5, <2>2
  <2>4. QED
    BY <1>1, <1>3, <2>3 DEF list
<1>6. CASE known # {} /\ ranks = {}
  <2>1. Min(known) \in known
    BY <1>3, <1>6, MinOfNaturals
  <2>2. AggregateStatus(list) = list[Min(known)]
    BY <1>2, <1>6
  <2>3. QED
    BY <1>1, <1>3, <2>1, <2>2 DEF list
<1>7. QED
  BY <1>4, <1>5, <1>6

\* So is the finance fact, beside the one case in which it is computed.
LEMMA FinanceOneOf ==
  ASSUME NEW budget, NEW banking, NEW close
  PROVE  \/ AggregateFinance(budget, banking, close) \in {"Unknown", budget, banking, close}
         \/ /\ AggregateFinance(budget, banking, close) = "In Progress"
            /\ budget \in {"Approved", "Complete"} /\ banking \in {"Approved", "Complete"}
BY AggregateOneOf DEF AggregateFinance

\* The facts that recalculate leaves, from the milestones it leaves.
LEMMA RecalculateFacts ==
  ASSUME NEW x, Shaped(x), NEW all, NEW s, NEW phases, NEW contact, NEW today
  PROVE  LET r == Recalculate(x, all, s, phases, contact, today) IN
         /\ r.ms = PolicyMs(x) /\ r.tcs = x.tcs
         /\ r.application = IF "APPLICATION" \in Codes THEN r.ms["APPLICATION"].status
                            ELSE x.application
         /\ r.mou = IF "MOU" \in Codes THEN r.ms["MOU"].status ELSE x.mou
         /\ r.finance = FinanceStatus(StatusOf(r), x.finance)
         /\ r.publication = PublicationStatus(StatusOf(r), x.publication)
<1> DEFINE r == Recalculate(x, all, s, phases, contact, today)
           d == Prepared(x)
<1>1. /\ d.ms = PolicyMs(x) /\ d.tcs = x.tcs
      /\ d.application = IF "APPLICATION" \in Codes THEN d.ms["APPLICATION"].status
                         ELSE x.application
      /\ d.mou = IF "MOU" \in Codes THEN d.ms["MOU"].status ELSE x.mou
      /\ d.finance = FinanceStatus(StatusOf(d), x.finance)
      /\ d.publication = PublicationStatus(StatusOf(d), x.publication)
  BY PreparedColumns
<1>2. SameFacts(r, d)
  BY RecalculateColumns
<1> HIDE DEF r, d
<1>3. StatusOf(r) = StatusOf(d)
  BY <1>2 DEF StatusOf, SameFacts
<1>4. /\ r.ms = PolicyMs(x) /\ r.tcs = x.tcs
      /\ r.application = IF "APPLICATION" \in Codes THEN r.ms["APPLICATION"].status
                         ELSE x.application
      /\ r.mou = IF "MOU" \in Codes THEN r.ms["MOU"].status ELSE x.mou
      /\ r.finance = FinanceStatus(StatusOf(r), x.finance)
      /\ r.publication = PublicationStatus(StatusOf(r), x.publication)
  BY <1>1, <1>2, <1>3 DEF SameFacts
<1>5. QED
  BY <1>4 DEF r

\* What is configured before a recalculation is configured after it.
LEMMA RecalculateKeeps ==
  ASSUME NEW x, Shaped(x), NEW v \in Vocabularies, WillKeep(x, v),
         NEW all, NEW s, NEW phases, NEW contact, NEW today
  PROVE  FactsKept(Recalculate(x, all, s, phases, contact, today), v)
<1> DEFINE r == Recalculate(x, all, s, phases, contact, today)
           statuses == Vocabulary[v].statuses
           Of(k) == IF k \in Codes THEN r.ms[k].status ELSE "Unknown"
<1>1. {"Unknown", "Complete", "Approved"} \subseteq statuses
  BY PortfolioAssumption DEF Required
<1>2. /\ r.ms = PolicyMs(x) /\ r.tcs = x.tcs
      /\ r.application = IF "APPLICATION" \in Codes THEN r.ms["APPLICATION"].status
                         ELSE x.application
      /\ r.mou = IF "MOU" \in Codes THEN r.ms["MOU"].status ELSE x.mou
      /\ r.finance = FinanceStatus(StatusOf(r), x.finance)
      /\ r.publication = PublicationStatus(StatusOf(r), x.publication)
  BY RecalculateFacts
<1> HIDE DEF r, statuses
<1>3. ASSUME NEW k \in Codes
      PROVE  \/ r.ms[k].status \in statuses
             \/ x.tcs /\ k \in FinanceCodes /\ r.ms[k].status = "Not Applicable"
  <2>1. \/ x.tcs /\ k \in FinanceCodes /\ r.ms[k].status = "Not Applicable"
        \/ r.ms[k].status = x.ms[k].status
    <3>1. CASE x.tcs /\ k \in FinanceCodes
      <4>1. PolicyMs(x)[k].status = "Not Applicable"
        BY <3>1 DEF PolicyMs
      <4>2. QED
        BY <1>2, <3>1, <4>1
    <3>2. CASE ~(x.tcs /\ k \in FinanceCodes)
      <4>1. PolicyMs(x)[k].status = x.ms[k].status
        BY <3>2 DEF PolicyMs
      <4>2. QED
        BY <1>2, <4>1
    <3>3. QED
      BY <3>1, <3>2
  <2>2. Keeps(x, v, {k}, x.ms[k].status)
    BY DEF WillKeep, MsKept
  <2>3. QED
    BY <2>1, <2>2 DEF Keeps, statuses
<1>4. MsKept(r, v)
  BY <1>2, <1>3 DEF MsKept, Keeps, statuses
<1>5. r.application \in statuses /\ r.mou \in statuses
  <2>1. "APPLICATION" \notin FinanceCodes /\ "MOU" \notin FinanceCodes
    BY DEF FinanceCodes
  <2>2. QED
    BY <1>2, <1>3, <2>1 DEF WillKeep, statuses
<1>6. DOMAIN StatusOf(r) = Codes /\ \A k \in Codes : StatusOf(r)[k] = r.ms[k].status
  BY DEF StatusOf
<1>7. r.publication \in statuses
  <2>1. CASE Codes \cap PublicationCodes = {}
    BY <1>2, <1>6, <2>1 DEF PublicationStatus, WillKeep, statuses
  <2>2. CASE Codes \cap PublicationCodes # {}
    <3>1. r.publication = AggregateStatus(<<Of("CFP"), Of("REVIEWS"), Of("PROCEEDINGS")>>)
      BY <1>2, <1>6, <2>2 DEF PublicationStatus
    <3>2. {"CFP", "REVIEWS", "PROCEEDINGS"} \cap FinanceCodes = {}
      BY DEF FinanceCodes
    <3>3. Of("CFP") \in statuses /\ Of("REVIEWS") \in statuses /\ Of("PROCEEDINGS") \in statuses
      BY <1>1, <1>3, <3>2
    <3> HIDE DEF Of
    <3>4. QED
      BY <1>1, <3>1, <3>3, AggregateOneOf
  <2>3. QED
    BY <2>1, <2>2
<1>8. FinanceKept(r, v)
  <2>1. CASE Codes \cap FinanceCodes = {}
    <3>1. r.finance = x.finance
      BY <1>2, <1>6, <2>1 DEF FinanceStatus
    <3>2. FinanceKept(x, v)
      BY <2>1 DEF WillKeep
    <3>3. {"BUDGET", "BANKING"} \cap Codes = {}
      BY <2>1 DEF FinanceCodes
    <3>4. QED
      BY <1>2, <3>1, <3>2, <3>3 DEF FinanceKept, Keeps
  <2>2. CASE Codes \cap FinanceCodes # {}
    <3> DEFINE budget == Of("BUDGET")
               banking == Of("BANKING")
               close == Of("FIN_CLOSE")
    <3>1. r.finance = AggregateFinance(budget, banking, close)
      BY <1>2, <1>6, <2>2 DEF FinanceStatus
    <3>2. \A f \in {budget, banking, close} :
            f \in statuses \/ (x.tcs /\ f = "Not Applicable")
      BY <1>1, <1>3
    <3>3. {budget, banking} \subseteq {"Approved", "Complete"}
          => \A k \in {"BUDGET", "BANKING"} \cap Codes : r.ms[k].status \in {"Approved", "Complete"}
      OBVIOUS
    <3> HIDE DEF budget, banking, close
    <3>4. \/ r.finance \in {"Unknown", budget, banking, close}
          \/ r.finance = "In Progress" /\ {budget, banking} \subseteq {"Approved", "Complete"}
      <4> DEFINE f == AggregateFinance(budget, banking, close)
      <4>1. \/ f \in {"Unknown", budget, banking, close}
            \/ /\ f = "In Progress"
               /\ budget \in {"Approved", "Complete"} /\ banking \in {"Approved", "Complete"}
        BY FinanceOneOf
      <4>2. r.finance = f
        BY <3>1
      <4> HIDE DEF f
      <4>3. QED
        BY <4>1, <4>2
    <3>5. QED
      BY <1>1, <1>2, <3>2, <3>3, <3>4 DEF FinanceKept, Keeps, statuses
  <2>3. QED
    BY <2>1, <2>2
<1>9. QED
  BY <1>4, <1>5, <1>7, <1>8 DEF FactsKept, r, statuses

\* A row whose facts are kept today keeps them after every sync.
LEMMA KeptWillKeep ==
  ASSUME NEW x, NEW v, FactsKept(x, v)
  PROVE  WillKeep(x, v)
BY DEF FactsKept, WillKeep

\* Whether facts are kept is read from the facts alone.
LEMMA SameFactsKept ==
  ASSUME NEW x, NEW y, NEW v, FactsKept(x, v), SameFacts(x, y)
  PROVE  FactsKept(y, v)
<1>1. ASSUME NEW codes, NEW value, Keeps(x, v, codes, value)
      PROVE  Keeps(y, v, codes, value)
  BY <1>1 DEF Keeps, SameFacts
<1>2. QED
  BY <1>1 DEF FactsKept, MsKept, FinanceKept, SameFacts

-----------------------------------------------------------------------------
(* Scores                                                                  *)

\* A quotient grows with its fraction.
LEMMA DivisionGrows ==
  ASSUME NEW a \in Int, NEW b \in Nat \ {0}, NEW c \in Int, NEW d \in Nat \ {0}, a * d <= c * b
  PROVE  a \div b <= c \div d
<1> DEFINE q == a \div b
<1>1. q \in Int /\ b * q <= a
  OBVIOUS
<1> HIDE DEF q
<1>2. (b * q) * d <= a * d
  BY <1>1
<1>3. (b * q) * d = b * (q * d) /\ c * b = b * c
  BY <1>1
<1>4. b * (q * d) <= b * c
  BY <1>1, <1>2, <1>3
<1>5. q * d <= c
  BY <1>1, <1>4
<1>6. q <= c \div d
  BY <1>1, <1>5
<1>7. QED
  BY <1>6 DEF q

\* An average of points up to 100 is a percentage, in tenths.
LEMMA TenthsRange ==
  ASSUME NEW n \in Nat, NEW d \in Nat, n <= 100 * d
  PROVE  Tenths(n, d) \in 0 .. 1000
<1>1. CASE d = 0
  BY <1>1 DEF Tenths
<1>2. CASE d # 0
  <2> DEFINE e == 2 * d
             q == (20 * n + d) \div e
  <2>1. e \in Nat \ {0} /\ 20 * n + d \in Nat /\ 20 * n + d < 1001 * e
    BY <1>2
  <2> HIDE DEF e
  <2>2. q \in Int /\ 0 <= q /\ e * q <= 20 * n + d
    BY <2>1
  <2> HIDE DEF q
  <2>3. q < 1001
    BY <2>1, <2>2
  <2>4. QED
    BY <1>2, <2>2, <2>3 DEF Tenths, q, e
<1>3. QED
  BY <1>1, <1>2

\* Adding weight draws an average of at most best towards best, when the points
\* grow by as much.
LEMMA TenthsGrow ==
  ASSUME NEW n \in Nat, NEW d \in Nat, NEW m \in Nat, NEW e \in Nat,
         NEW best \in Nat, n <= best * d, d <= e, n + best * e <= m + best * d
  PROVE  Tenths(n, d) <= Tenths(m, e)
<1>1. CASE e = 0
  BY <1>1 DEF Tenths
<1>2. CASE d = 0 /\ e # 0
  <2>1. 20 * m + e \in Nat /\ 2 * e \in Nat \ {0}
    BY <1>2
  <2>2. 0 <= (20 * m + e) \div (2 * e)
    BY <2>1
  <2>3. QED
    BY <1>2, <2>2 DEF Tenths
<1>3. CASE d # 0
  <2> DEFINE x == e - d
  <2>1. x \in Nat /\ e = d + x
    OBVIOUS
  <2> HIDE DEF x
  <2>2. n + best * x <= m
    <3>1. best * e = best * d + best * x /\ best * e \in Int /\ best * d \in Int /\ best * x \in Int
      BY <2>1
    <3>2. QED
      BY <3>1
  <2>3. (n + best * x) * d <= m * d
    <3> DEFINE a == n + best * x
    <3>1. a \in Int /\ a <= m
      BY <2>1, <2>2
    <3> HIDE DEF a
    <3>2. a * d <= m * d
      BY <3>1
    <3>3. QED
      BY <3>2 DEF a
  <2>4. n * x <= (best * d) * x
    BY <2>1
  <2>5. (n + best * x) * d = n * d + (best * d) * x /\ n * e = n * d + n * x
    BY <2>1
  <2>6. n * e <= m * d
    <3>1. n * d \in Int /\ (best * d) * x \in Int /\ n * x \in Int /\ m * d \in Int /\ n * e \in Int
          /\ (n + best * x) * d \in Int
      BY <2>1
    <3>2. QED
      BY <2>3, <2>4, <2>5, <3>1
  <2>7. (20 * n + d) * (2 * e) <= (20 * m + e) * (2 * d)
    <3>1. (20 * n + d) * (2 * e) = 40 * (n * e) + 2 * (d * e)
      OBVIOUS
    <3>2. (20 * m + e) * (2 * d) = 40 * (m * d) + 2 * (d * e)
      OBVIOUS
    <3>3. n * e \in Int /\ m * d \in Int /\ d * e \in Int
      OBVIOUS
    <3>4. QED
      BY <2>6, <3>1, <3>2, <3>3
  <2>8. 2 * d \in Nat \ {0} /\ 2 * e \in Nat \ {0} /\ 20 * n + d \in Int /\ 20 * m + e \in Int /\ e # 0
    BY <1>3
  <2>9. (20 * n + d) \div (2 * d) <= (20 * m + e) \div (2 * e)
    <3> DEFINE a == 20 * n + d
               b == 2 * d
               u == 20 * m + e
               v == 2 * e
    <3>1. a \in Int /\ b \in Nat \ {0} /\ u \in Int /\ v \in Nat \ {0} /\ a * v <= u * b
      BY <2>7, <2>8
    <3> HIDE DEF a, b, u, v
    <3>2. a \div b <= u \div v
      BY <3>1, DivisionGrows
    <3>3. QED
      BY <3>2 DEF a, b, u, v
  <2>10. QED
    BY <1>3, <2>8, <2>9 DEF Tenths
<1>4. QED
  BY <1>1, <1>2, <1>3

\* No case of milestone_score leaves the range of the configured points.
LEMMA MilestoneScoreRange ==
  ASSUME NEW m, Scored(m), NEW today \in Int, NEW points, NEW bound \in Nat,
         m.due \in Date, PointsWithin(points, bound)
  PROVE  MilestoneScore(m, today, points) \in 0 .. bound
<1> DEFINE status == Normal(m.status)
<1>1. \/ status \in Settled \cup Awaiting \cup Blocking
                      \cup {"Unknown", "Not Started", "In Progress"}
      \/ status = "Open" /\ m.due = NoDate
  BY DEF Scored
<1> HIDE DEF status
<1>2. CASE status \in Settled \cup {"Unknown"} \/ m.due = NoDate
  BY <1>1, <1>2 DEF MilestoneScore, PointsWithin, Settled, status
<1>3. CASE ~(status \in Settled \cup {"Unknown"}) /\ m.due # NoDate
  <2>1. CASE status = "Not Started"
    BY <1>3, <2>1 DEF MilestoneScore, PointsWithin, Settled, status
  <2>2. CASE status = "In Progress"
    BY <1>3, <2>2 DEF MilestoneScore, PointsWithin, Settled, status
  <2>3. CASE status \in Awaiting
    BY <1>3, <2>3 DEF MilestoneScore, PointsWithin, Settled, Awaiting, status
  <2>4. CASE status \in Blocking
    BY <1>3, <2>4 DEF MilestoneScore, PointsWithin, Settled, Awaiting, Blocking, status
  <2>5. QED
    BY <1>1, <1>3, <2>1, <2>2, <2>3, <2>4
<1>4. QED
  BY <1>2, <1>3

\* An effective weight, of a late milestone or not, is a natural number.
LEMMA WeightRange ==
  ASSUME NEW m, m.due \in Date, NEW k \in Codes, NEW today \in Int, NEW s, ScoreSettings(s)
  PROVE  EffectiveWeight(m, k, today, s) \in Nat
<1> DEFINE w == s.weights[Dimension[k]]
           factor == IF s.step = 0 THEN 1
                     ELSE s.step + IF Overdue(m, today)
                                     THEN AtMost(s.cap_factor * s.step, today - m.due) ELSE 0
<1>1. w \in Nat /\ s.step \in Nat /\ s.cap_factor \in Nat
  BY DEF ScoreSettings
<1>2. s.cap_factor * s.step \in Nat
  BY <1>1
<1>3. Overdue(m, today) => today - m.due \in Nat
  BY DEF Overdue, Date
<1>4. factor \in Nat
  BY <1>1, <1>2, <1>3 DEF AtMost
<1>5. EffectiveWeight(m, k, today, s) = w * factor
  BY DEF EffectiveWeight
<1> HIDE DEF w, factor
<1>6. QED
  BY <1>1, <1>4, <1>5

\* The effective weights of the milestones, and with the points they score, with
\* zeros for those that do not count; and their sums.
Weights(ms, tcs, today, s) ==
  [k \in Codes |-> IF k \in Counted(ms, tcs) THEN EffectiveWeight(ms[k], k, today, s) ELSE 0]

Points(ms, tcs, today, s) ==
  [k \in Codes |-> IF k \in Counted(ms, tcs)
                     THEN EffectiveWeight(ms[k], k, today, s)
                          * MilestoneScore(ms[k], today, s.points)
                     ELSE 0]

Total(f) == SumsOf(f, Codes)[Codes]

\* There are finitely many milestone codes.
LEMMA CodesFinite == IsFiniteSet(Codes)
BY ScoreAssumption

\* base_score is a quotient of two totals, and no milestone has more points than
\* the bound times its weight.
LEMMA WeightsAndPoints ==
  ASSUME NEW ms, \A k \in Codes : ms[k].due \in Date, NEW tcs, NEW today \in Int,
         NEW s, ScoreSettings(s), NEW bound \in Nat, PointsWithin(s.points, bound)
  PROVE  LET w == Weights(ms, tcs, today, s)
             p == Points(ms, tcs, today, s)
         IN /\ w \in [Codes -> Nat] /\ p \in [Codes -> Nat]
            /\ \A k \in Codes : p[k] <= bound * w[k]
            /\ BaseScore(ms, tcs, today, s) = Tenths(Total(p), Total(w))
<1> DEFINE counted == Counted(ms, tcs)
           w == Weights(ms, tcs, today, s)
           p == Points(ms, tcs, today, s)
           W(k) == EffectiveWeight(ms[k], k, today, s)
           S(k) == MilestoneScore(ms[k], today, s.points)
           cw == [k \in counted |-> W(k)]
           cp == [k \in counted |-> cw[k] * S(k)]
<1>1. counted \subseteq Codes /\ \A k \in counted : Scored(ms[k])
  BY DEF Counted
<1>2. \A k \in Codes : W(k) \in Nat
  BY WeightRange
<1>3. \A k \in counted : S(k) \in 0 .. bound
  BY <1>1, MilestoneScoreRange
<1>4. /\ w = [k \in Codes |-> IF k \in counted THEN W(k) ELSE 0]
      /\ p = [k \in Codes |-> IF k \in counted THEN W(k) * S(k) ELSE 0]
      /\ BaseScore(ms, tcs, today, s) = Tenths(SumFunction(cp), SumFunction(cw))
  BY DEF Weights, Points, BaseScore
<1>5. cp = [k \in counted |-> W(k) * S(k)]
  OBVIOUS
<1> HIDE DEF counted, w, p, W, S
<1>6. ASSUME NEW k \in counted
      PROVE  W(k) * S(k) \in Nat /\ W(k) * S(k) <= bound * W(k)
  <2>1. W(k) \in Nat /\ S(k) \in Nat /\ S(k) <= bound
    BY <1>1, <1>2, <1>3
  <2>2. QED
    BY <2>1
<1>7. w \in [Codes -> Nat] /\ p \in [Codes -> Nat]
  BY <1>2, <1>4, <1>6
<1>8. ASSUME NEW k \in Codes
      PROVE  p[k] <= bound * w[k]
  BY <1>4, <1>6
<1>9. w \in [Codes -> Int] /\ p \in [Codes -> Int]
  BY <1>7
<1>10. cw \in [counted -> Int] /\ cp \in [counted -> Int]
  BY <1>1, <1>2, <1>5, <1>6
<1>11. /\ \A k \in Codes : w[k] = IF k \in counted THEN cw[k] ELSE 0
       /\ \A k \in Codes : p[k] = IF k \in counted THEN cp[k] ELSE 0
  BY <1>4, <1>5
<1> HIDE DEF cw, cp
<1>12. SumFunction(cw) = Total(w) 
  BY <1>1, <1>9, <1>10, <1>11, CodesFinite, SumPadded DEF Total
<1>13. SumFunction(cp) = Total(p)
  BY <1>1, <1>9, <1>10, <1>11, CodesFinite, SumPadded DEF Total
<1>14. QED
  BY <1>4, <1>7, <1>8, <1>12, <1>13 DEF w, p

\* The totals of functions keep their linear inequalities.
LEMMA TotalLinear ==
  ASSUME NEW n \in Int, NEW a \in [Codes -> Int], NEW b \in [Codes -> Int],
         NEW c \in [Codes -> Int], NEW d \in [Codes -> Int],
         \A k \in Codes : a[k] + n * b[k] <= c[k] + n * d[k]
  PROVE  Total(a) + n * Total(b) <= Total(c) + n * Total(d)
BY CodesFinite, SumsLinear DEF Total

\* A greater function has a greater total.
LEMMA TotalGrows ==
  ASSUME NEW a \in [Codes -> Int], NEW b \in [Codes -> Int], \A k \in Codes : a[k] <= b[k]
  PROVE  Total(a) <= Total(b)
BY CodesFinite, SumsGrow DEF Total

\* A total of natural numbers is one.
LEMMA TotalNatural ==
  ASSUME NEW a \in [Codes -> Nat]
  PROVE  Total(a) \in Nat
BY CodesFinite, SumsNatural DEF Total

\* An average of points is within the bound of the points.
LEMMA TotalRange ==
  ASSUME NEW w \in [Codes -> Nat], NEW p \in [Codes -> Nat], NEW bound \in Nat,
         \A k \in Codes : p[k] <= bound * w[k]
  PROVE  Total(p) \in Nat /\ Total(w) \in Nat /\ Total(p) <= bound * Total(w)
<1> DEFINE zero == [k \in Codes |-> 0]
<1>1. w \in [Codes -> Int] /\ p \in [Codes -> Int] /\ zero \in [Codes -> Int] /\ bound \in Int
  OBVIOUS
<1>2. Total(w) \in Nat /\ Total(p) \in Nat
  BY TotalNatural
<1>3. Total(zero) = 0
  BY CodesFinite, SumsZero DEF Total
<1>4. ASSUME NEW k \in Codes
      PROVE  p[k] + bound * zero[k] <= zero[k] + bound * w[k]
  <2>1. zero[k] = 0 /\ bound * 0 = 0 /\ p[k] \in Nat /\ w[k] \in Nat
    OBVIOUS
  <2> HIDE DEF zero
  <2>2. bound * w[k] \in Nat
    BY <2>1
  <2>3. QED
    BY <2>1, <2>2
<1> HIDE DEF zero
<1>5. Total(p) + bound * Total(zero) <= Total(zero) + bound * Total(w)
  BY <1>1, <1>4, TotalLinear
<1>6. bound * 0 = 0 /\ bound * Total(w) \in Nat
  BY <1>2
<1>7. QED
  BY <1>2, <1>3, <1>5, <1>6

\* base_score is a percentage, in tenths.
LEMMA BaseScoreRange ==
  ASSUME NEW ms, \A k \in Codes : ms[k].due \in Date, NEW tcs, NEW today \in Int,
         NEW s, ScoreSettings(s)
  PROVE  BaseScore(ms, tcs, today, s) \in 0 .. 1000
<1> DEFINE w == Weights(ms, tcs, today, s)
           p == Points(ms, tcs, today, s)
<1>1. PointsWithin(s.points, 100)
  BY DEF ScoreSettings
<1>2. /\ w \in [Codes -> Nat] /\ p \in [Codes -> Nat]
      /\ \A k \in Codes : p[k] <= 100 * w[k]
      /\ BaseScore(ms, tcs, today, s) = Tenths(Total(p), Total(w))
  BY <1>1, WeightsAndPoints
<1> HIDE DEF w, p
<1>3. Total(p) \in Nat /\ Total(w) \in Nat /\ Total(p) <= 100 * Total(w)
  BY <1>2, TotalRange
<1>4. Tenths(Total(p), Total(w)) \in 0 .. 1000
  BY <1>3, TenthsRange
<1>5. QED
  BY <1>2, <1>4

\* issue_penalty is within its cap.
LEMMA IssuePenaltyRange ==
  ASSUME NEW all, IsFiniteSet(DOMAIN all), NEW s, ScoreSettings(s)
  PROVE  IssuePenalty(all, s) \in 0 .. 100 * s.penalty_cap
<1> DEFINE Open == {i \in DOMAIN all : all[i].active /\ all[i].status # "Resolved"}
           Severity(x) == IF x \in DOMAIN s.severity THEN s.severity[x] ELSE 2
           Factor(x) == IF x \in DOMAIN s.assessment THEN s.assessment[x] ELSE 100
           points == [i \in Open |-> Severity(all[i].severity) * Factor(all[i].assessment)]
           sum == SumsOf(points, Open)[Open]
<1>1. IsFiniteSet(Open)
  BY FS_Subset
<1>2. IssuePenalty(all, s) = AtMost(100 * s.penalty_cap, SumFunction(points))
  BY DEF IssuePenalty
<1>3. \A x : Severity(x) \in Nat /\ Factor(x) \in Nat
  BY DEF ScoreSettings
<1> HIDE DEF Severity, Factor, Open
<1>4. /\ points \in [Open -> Int] /\ points \in [Open -> Nat]
      /\ \A i \in Open : points[i] = IF i \in Open THEN points[i] ELSE 0
  BY <1>3
<1> HIDE DEF points
<1>5. SumFunction(points) = sum
  <2>1. Open \in SUBSET Open
    OBVIOUS
  <2>2. QED
    BY <1>1, <1>4, <2>1, SumPadded
<1>6. sum \in Nat
  BY <1>1, <1>4, SumsNatural
<1>7. s.penalty_cap \in Nat
  BY DEF ScoreSettings
<1> HIDE DEF sum
<1>8. QED
  BY <1>2, <1>5, <1>6, <1>7 DEF AtMost

\* data_completeness is a percentage.
LEMMA CompletenessRange ==
  ASSUME NEW x, NEW contact
  PROVE  DataCompleteness(x, contact) \in 0 .. 1000
<1> DEFINE dates == {f \in {"start", "end"} : x[f] # NoDate}
           facts == {f \in {"application", "mou", "finance", "publication", "phase"} :
                       x[f] # "Unknown"}
           known == {k \in Codes : x.ms[k].status # "Unknown"}
           n == Filled + Cardinality(dates) + Cardinality(facts) + Cardinality(known)
                + IF contact THEN 1 ELSE 0
           m == 100 * n
           of == 17 + IF Codes = {} THEN 1 ELSE Cardinality(Codes)
<1>1. Cardinality({}) = 0 /\ IsFiniteSet({})
  BY FS_EmptySet
<1>2. Cardinality(dates) \in Nat /\ Cardinality(dates) <= 2
  <2> DEFINE S == {"start", "end"}
  <2>1. IsFiniteSet(S) /\ Cardinality(S) <= 2
    BY TwoAtMost
  <2>2. dates \subseteq S
    OBVIOUS
  <2> HIDE DEF S, dates
  <2>3. QED
    BY <2>1, <2>2, FS_Subset, FS_CardinalityType
<1>3. Cardinality(facts) \in Nat /\ Cardinality(facts) <= 5
  <2> DEFINE S == {"application", "mou", "finance", "publication", "phase"}
  <2>1. IsFiniteSet(S) /\ Cardinality(S) <= 5
    BY FiveAtMost
  <2>2. facts \subseteq S
    OBVIOUS
  <2> HIDE DEF S, facts
  <2>3. QED
    BY <2>1, <2>2, FS_Subset, FS_CardinalityType
<1>4. /\ Cardinality(known) \in Nat /\ Cardinality(known) <= Cardinality(Codes)
      /\ Cardinality(Codes) \in Nat
  BY CodesFinite, FS_Subset, FS_CardinalityType
<1>5. Filled \in Nat /\ Filled <= 9
  BY ScoreAssumption
<1>6. DataCompleteness(x, contact) = Tenths(m, of)
  BY DEF DataCompleteness
<1> HIDE DEF dates, facts, known
<1>7. m \in Nat /\ of \in Nat /\ m <= 100 * of
  <2>1. Codes = {} => Cardinality(Codes) = 0
    BY <1>1
  <2>2. (IF contact THEN 1 ELSE 0) \in 0 .. 1
    OBVIOUS
  <2>3. QED
    BY <1>2, <1>3, <1>4, <1>5, <2>1, <2>2
<1> HIDE DEF m, of
<1>8. Tenths(m, of) \in 0 .. 1000
  BY <1>7, TenthsRange
<1>9. QED
  BY <1>6, <1>8

\* A clamped score is a percentage, in tenths.
LEMMA ClampedRange ==
  ASSUME NEW n \in Int
  PROVE  Clamped(n) \in 0 .. 1000
BY DEF Clamped, AtMost

\* Clamping keeps the order.
LEMMA ClampedGrows ==
  ASSUME NEW n \in Int, NEW m \in Int, n <= m
  PROVE  Clamped(n) <= Clamped(m)
BY DEF Clamped, AtMost

\* What milestone_stats counts.
LEMMA TotalOf ==
  ASSUME NEW ms, NEW today
  PROVE  LET stats == Stats(ms, today) IN
         /\ IsFiniteSet(stats.total) /\ Cardinality(stats.total) \in Nat
         /\ Cardinality(stats.total) = 0 <=> stats.total = {}
         /\ stats.completed \subseteq stats.total
         /\ Cardinality(stats.completed) \in Nat
<1> DEFINE stats == Stats(ms, today)
<1>1. stats.total \subseteq Codes /\ stats.completed \subseteq stats.total
  BY DEF Stats
<1> HIDE DEF stats
<1>2. IsFiniteSet(stats.total)
  BY <1>1, CodesFinite, FS_Subset
<1>3. IsFiniteSet(stats.completed)
  BY <1>1, <1>2, FS_Subset
<1>4. Cardinality(stats.total) \in Nat /\ Cardinality(stats.completed) \in Nat
  BY <1>2, <1>3, FS_CardinalityType
<1>5. Cardinality(stats.total) = 0 <=> stats.total = {}
  BY <1>2, FS_EmptySet
<1>6. QED
  BY <1>1, <1>2, <1>4, <1>5 DEF stats

\* A formula that can be computed has an integer value.
LEMMA FormulaScoreType ==
  ASSUME NEW formula \in {"weighted", "completed"}, NEW base \in Int, NEW penalty \in Int,
         NEW ms, NEW today, formula = "completed" => Stats(ms, today).total # {}
  PROVE  FormulaScore(formula, base, penalty, Stats(ms, today)) \in Int
<1> DEFINE stats == Stats(ms, today)
           a == Cardinality(stats.completed)
           b == Cardinality(stats.total)
<1>1. CASE formula = "weighted"
  BY <1>1 DEF FormulaScore
<1>2. CASE formula = "completed"
  <2>1. a \in Nat /\ b \in Nat \ {0}
    BY <1>2, TotalOf
  <2>2. FormulaScore(formula, base, penalty, stats) = ((10000 * a) \div b) - penalty
    BY <1>2 DEF FormulaScore
  <2> HIDE DEF a, b
  <2>3. (10000 * a) \div b \in Int
    BY <2>1
  <2>4. QED
    BY <2>2, <2>3
<1>3. QED
  BY <1>1, <1>2

\* Whether the formula can be computed is read from the facts alone.
LEMMA ComputableOfFacts ==
  ASSUME NEW x, NEW y, SameFacts(x, y), NEW today, NEW s
  PROVE  Computable(x, today, s) <=> Computable(y, today, s)
BY DEF Computable, SameFacts

\* Whether a row is dated is read from its dates alone.
LEMMA SameDates ==
  ASSUME NEW x, Dated(x), NEW y, y.start = x.start, y.end = x.end,
         \A k \in Codes : y.ms[k].due = x.ms[k].due
  PROVE  Dated(y)
BY DEF Dated

\* Policy and facts move no date.
LEMMA RecalculateDated ==
  ASSUME NEW x, Shaped(x), Dated(x), NEW all, NEW s, NEW phases, NEW contact, NEW today
  PROVE  Dated(Prepared(x)) /\ Dated(Recalculate(x, all, s, phases, contact, today))
<1> DEFINE d == Prepared(x)
           r == Recalculate(x, all, s, phases, contact, today)
           ms == PolicyMs(x)
<1>1. d.ms = ms /\ d.start = x.start /\ d.end = x.end
  BY PreparedColumns
<1>2. SameFacts(r, d)
  BY RecalculateColumns
<1>3. ASSUME NEW k \in Codes
      PROVE  ms[k].due = x.ms[k].due
  <2> DEFINE status == IF x.tcs /\ k \in FinanceCodes THEN "Not Applicable" ELSE x.ms[k].status
             due == x.ms[k].due
  <2>1. ms[k] = [status |-> status, due |-> due]
    BY DEF PolicyMs
  <2> HIDE DEF status, due, ms
  <2>2. ms[k].due = due
    BY <2>1
  <2>3. QED
    BY <2>2 DEF due
<1> HIDE DEF d, r, ms
<1>4. Dated(d)
  BY <1>1, <1>3, SameDates
<1>5. Dated(r)
  BY <1>2, <1>4, SameDates DEF SameFacts
<1>6. QED
  BY <1>4, <1>5 DEF d, r

\* What is recalculated from dated milestones with computable settings.
LEMMA RecalculateTyped ==
  ASSUME NEW x, Shaped(x), Dated(x), NEW all, IsFiniteSet(DOMAIN all),
         NEW s, ScoreSettings(s), NEW phases, NEW contact, NEW today \in Int,
         Computable(Prepared(x), today, s)
  PROVE  LET r == Recalculate(x, all, s, phases, contact, today) IN
         Typed(r) /\ Computable(r, today, s)
<1> DEFINE d == Prepared(x)
           r == Recalculate(x, all, s, phases, contact, today)
           stats == Stats(d.ms, today)
<1>1. /\ SameFacts(r, d) /\ r.base = BaseScore(d.ms, d.tcs, today, s)
      /\ r.penalty = IssuePenalty(all, s)
      /\ r.score = Clamped(FormulaScore(s.formula, r.base, r.penalty, stats))
      /\ r.completeness = DataCompleteness(d, contact)
  BY RecalculateColumns
<1>2. Dated(d) /\ Dated(r)
  BY RecalculateDated
<1>3. Computable(d, today, s)
  OBVIOUS
<1> HIDE DEF d, r
<1>5. r.base \in 0 .. 1000
  BY <1>1, <1>2, BaseScoreRange DEF Dated
<1>4. r.penalty \in 0 .. 100 * s.penalty_cap
  BY <1>1, IssuePenaltyRange
<1>6. r.penalty \in Int
  BY <1>4 DEF ScoreSettings
<1>7. r.completeness \in 0 .. 1000
  BY <1>1, CompletenessRange
<1>8. r.score \in 0 .. 1000
  <2>1. s.formula \in {"weighted", "completed"} /\ (s.formula = "completed" => stats.total # {})
    BY <1>3 DEF ScoreSettings, Computable
  <2>2. r.base \in Int /\ r.penalty \in Int
    BY <1>5, <1>6
  <2>3. FormulaScore(s.formula, r.base, r.penalty, stats) \in Int
    BY <2>1, <2>2, FormulaScoreType
  <2>4. QED
    BY <1>1, <2>3, ClampedRange
<1>9. Computable(r, today, s)
  BY <1>1, <1>3, ComputableOfFacts
<1>10. QED
  BY <1>2, <1>5, <1>7, <1>8, <1>9 DEF Typed, r

\* A computed due date is a date.
LEMMA DueDateIs ==
  ASSUME NEW k \in Codes, NEW calendar, calendar.start \in Date, calendar.end \in Date,
         NEW table \in OffsetTables
  PROVE  DueDate(k, calendar, table) \in Date
<1>1. table[k].days \in Int
  BY PortfolioAssumption
<1>2. QED
  BY <1>1 DEF DueDate, Date

\* A conference has finitely many issues.
LEMMA IssuesFinite ==
  ASSUME NEW c, NEW all
  PROVE  IsFiniteSet(DOMAIN IssuesOf(c, all))
<1>1. DOMAIN IssuesOf(c, all) \subseteq Issues /\ IsFiniteSet(Issues)
  BY PortfolioAssumption DEF IssuesOf
<1>2. QED
  BY <1>1, FS_Subset

-----------------------------------------------------------------------------
(* Requests                                                                *)

\* What a request hands over to be recalculated and committed.
Request(C, d, all, v, s) ==
  /\ C \subseteq Confs /\ v \in Vocabularies /\ s \in Scorings
  /\ C = Confs \/ (v = vocab /\ s = scoring)
  /\ \A c \in C : Shaped(d[c]) /\ Dated(d[c]) /\ WillKeep(d[c], v)
  /\ \A c \in Confs \ C : d[c] = confs[c] /\ IssuesOf(c, all) = IssuesOf(c, issues)
  /\ IssuesOK(all, v) /\ Twinless(all)

\* Recalculating the conferences a request concerns from what it hands over
\* leaves every row synced, configured and current.
LEMMA StoreStep ==
  ASSUME IInv, NEW C, NEW d, NEW all, NEW v, NEW s, NEW contact,
         Request(C, d, all, v, s), Store(C, d, all, v, s, contact)
  PROVE  IInv'
<1> DEFINE phases == Vocabulary[v].phases
           r(c) == Recalculate(d[c], IssuesOf(c, all), Scoring[s], phases, contact[c], day)
<1>0. IInv
  OBVIOUS
<1>1. /\ confs' = [c \in Confs |-> IF c \in C THEN r(c) ELSE d[c]]
      /\ trace' = [c \in Confs |-> IF c \in C THEN Seen(d[c], confs'[c], contact[c]) ELSE trace[c]]
      /\ issues' = all /\ vocab' = v /\ scoring' = s /\ gens' = gens /\ day' = day
      /\ \A c \in C : Computable(Prepared(d[c]), day, Scoring[s])
  BY DEF Store, Recalculated
<1>2. /\ C \subseteq Confs /\ v \in Vocabularies /\ s \in Scorings
      /\ C = Confs \/ (v = vocab /\ s = scoring)
      /\ \A c \in C : Shaped(d[c]) /\ Dated(d[c]) /\ WillKeep(d[c], v)
      /\ \A c \in Confs \ C : d[c] = confs[c] /\ IssuesOf(c, all) = IssuesOf(c, issues)
      /\ IssuesOK(all, v) /\ Twinless(all)
  BY DEF Request
<1>3. "Unknown" \in phases
  BY <1>2, PortfolioAssumption
<1> HIDE DEF phases
<1>4. ASSUME NEW c \in C
      PROVE  /\ c \in Confs /\ confs'[c] = r(c) /\ trace'[c] = Seen(d[c], r(c), contact[c])
             /\ Synced(r(c)) /\ FactsKept(r(c), v) /\ r(c).phase \in phases
             /\ Typed(r(c)) /\ Computable(r(c), day, Scoring[s])
  <2>1. c \in Confs /\ confs'[c] = r(c) /\ trace'[c] = Seen(d[c], r(c), contact[c])
    BY <1>1, <1>2
  <2>2. Shaped(d[c]) /\ WillKeep(d[c], v)
    BY <1>2
  <2>3. Synced(r(c)) /\ r(c).phase \in phases \cup {"Unknown"}
    BY <2>2, RecalculateSynced
  <2>4. FactsKept(r(c), v)
    BY <1>2, <2>2, RecalculateKeeps
  <2>5. Typed(r(c)) /\ Computable(r(c), day, Scoring[s])
    <3>1. ScoreSettings(Scoring[s]) /\ day \in Int
      BY <1>0, <1>2, PortfolioAssumption DEF IInv, RowsInv
    <3>2. Dated(d[c]) /\ Computable(Prepared(d[c]), day, Scoring[s])
      BY <1>1, <1>2
    <3>3. QED
      BY <2>2, <3>1, <3>2, IssuesFinite, RecalculateTyped
  <2>6. QED
    BY <1>3, <2>1, <2>3, <2>4, <2>5
<1>5. ASSUME NEW c \in Confs \ C
      PROVE  /\ confs'[c] = confs[c] /\ trace'[c] = trace[c] /\ v = vocab /\ s = scoring
             /\ IssuesOf(c, all) = IssuesOf(c, issues)
             /\ Synced(confs[c]) /\ Typed(confs[c]) /\ FactsKept(confs[c], vocab)
             /\ confs[c].phase \in Vocabulary[vocab].phases \/ trace[c].stale
  BY <1>0, <1>1, <1>2 DEF IInv, RowsInv, Rows
<1>6. RowsInv'
  <2>1. \A c \in Confs : Synced(confs'[c]) /\ Typed(confs'[c])
    BY <1>4, <1>5
  <2>2. confs' = [c \in Confs |-> confs'[c]] /\ trace' = [c \in Confs |-> trace'[c]]
    BY <1>1
  <2>3. QED
    BY <1>0, <1>1, <1>2, <2>1, <2>2 DEF IInv, RowsInv, Rows
<1>7. GensInv'
  BY <1>0, <1>1 DEF IInv, GensInv
<1>8. \A c \in Confs : FactsKept(confs'[c], vocab')
  BY <1>1, <1>4, <1>5
<1>9. \A c \in Confs : confs'[c].phase \in Vocabulary[vocab'].phases \/ trace'[c].stale
  BY <1>1, <1>4, <1>5 DEF phases
<1>10. ASSUME NEW c \in C
       PROVE  Current(c)'
  <2> DEFINE again == Recalculate(r(c), IssuesOf(c, all), Scoring[s], phases, r(c).contact, day)
  <2>1. confs'[c] = r(c) /\ trace'[c] = Seen(d[c], r(c), contact[c])
    BY <1>4
  <2>2. Fresh(c)' = again
    BY <1>1, <2>1 DEF Fresh, Seen, phases
  <2>3. Shaped(d[c])
    BY <1>2
  <2>4. Agrees(r(c), again, Lags(d[c], r(c), contact[c]))
    BY <2>3, RecalculateAgain
  <2>5. trace'[c].lags = Lags(d[c], r(c), contact[c]) /\ trace'[c].stale = FALSE
    BY <2>1 DEF Seen
  <2> HIDE DEF r, again
  <2>6. QED
    BY <2>1, <2>2, <2>4, <2>5 DEF Current
<1>11. ASSUME NEW c \in Confs \ C
       PROVE  Current(c)'
  <2>1. Fresh(c)' = Fresh(c)
    BY <1>1, <1>5 DEF Fresh
  <2>2. Current(c)
    BY <1>0 DEF IInv
  <2>3. QED
    BY <1>5, <2>1, <2>2 DEF Current
<1>12. IssuesOK(issues', vocab') /\ Twinless(issues')
  BY <1>1, <1>2
<1>13. ASSUME NEW c \in Confs
       PROVE  Computed(c)'
  <2>1. CASE c \in C
    <3>1. /\ trace'[c] = Seen(d[c], r(c), contact[c]) /\ confs'[c] = r(c)
          /\ Computable(r(c), day, Scoring[s])
      BY <1>4, <2>1
    <3> HIDE DEF r
    <3>2. trace'[c].day = day
      BY <3>1 DEF Seen
    <3>3. QED
      BY <1>1, <3>1, <3>2 DEF Computed
  <2>2. CASE c \notin C
    <3>1. Computed(c)
      BY <1>0 DEF IInv
    <3>2. QED
      BY <1>1, <1>5, <2>2, <3>1 DEF Computed
  <2>3. QED
    BY <2>1, <2>2
<1>14. QED
  BY <1>6, <1>7, <1>8, <1>9, <1>10, <1>11, <1>12, <1>13 DEF IInv

\* What the invariant says of one conference.
LEMMA Conferences ==
  ASSUME IInv, NEW c \in Confs
  PROVE  /\ Synced(confs[c]) /\ Shaped(confs[c]) /\ FactsKept(confs[c], vocab)
         /\ WillKeep(confs[c], vocab) /\ Typed(confs[c]) /\ Dated(confs[c])
<1>1. Synced(confs[c]) /\ Typed(confs[c]) /\ FactsKept(confs[c], vocab)
  BY DEF IInv, RowsInv, Rows
<1>2. Shaped(confs[c]) /\ Dated(confs[c])
  BY <1>1 DEF Synced, Typed
<1>3. QED
  BY <1>1, <1>2, KeptWillKeep

\* A request on one conference, with the issues and settings as they are.
LEMMA ConferenceStep ==
  ASSUME IInv, NEW c \in Confs, NEW d, NEW contact,
         Store({c}, d, issues, vocab, scoring, contact),
         \A e \in Confs \ {c} : d[e] = confs[e],
         Shaped(d[c]), Dated(d[c]), WillKeep(d[c], vocab)
  PROVE  IInv'
<1>1. Request({c}, d, issues, vocab, scoring)
  BY DEF Request, IInv, RowsInv
<1>2. QED
  BY <1>1, StoreStep

\* Changing a milestone's status keeps the invariant.
LEMMA UpdateMilestoneStep ==
  ASSUME IInv, NEW c \in Confs, NEW k \in Codes, NEW status, UpdateMilestone(c, k, status)
  PROVE  IInv'
<1> DEFINE to == Configured(status, Vocabulary[vocab].statuses)
<1>1. PICK due \in {confs[c].ms[k].due, NoDate} :
        StoreConference(c, [confs EXCEPT ![c].ms[k] = [status |-> to, due |-> due]])
  BY DEF UpdateMilestone
<1> DEFINE new == [status |-> to, due |-> due]
           x == confs[c]
           ms == [x.ms EXCEPT ![k] = new]
           y == [x EXCEPT !.ms = ms]
           d == [confs EXCEPT ![c] = y]
<1>2. Store({c}, d, issues, vocab, scoring, Contacts(d))
  BY <1>1 DEF StoreConference
<1>3. Shaped(x) /\ Dated(x) /\ WillKeep(x, vocab)
  BY Conferences
<1>4. to \in Vocabulary[vocab].statuses
  BY PortfolioAssumption DEF Configured, Required, IInv, RowsInv
<1>5. d[c] = y /\ \A e \in Confs \ {c} : d[e] = confs[e]
  BY DEF IInv, RowsInv
<1>6. /\ DOMAIN ms = Codes /\ ms[k] = new /\ \A j \in Codes \ {k} : ms[j] = x.ms[j]
  BY <1>3 DEF Shaped, Milestones
<1> HIDE DEF to, ms
<1>7. Milestones(ms)
  <2>1. \A j \in Codes : ms[j] = [status |-> ms[j].status, due |-> ms[j].due]
    BY <1>3, <1>6 DEF Shaped, Milestones
  <2>2. ms = [j \in Codes |-> ms[j]]
    BY <1>6 DEF ms
  <2>3. QED
    BY <2>1, <2>2 DEF Milestones
<1>8. /\ Conference(y) /\ y.ms = ms /\ y.tcs = x.tcs /\ y.application = x.application
      /\ y.mou = x.mou /\ y.finance = x.finance /\ y.publication = x.publication
      /\ y.start = x.start /\ y.end = x.end
  BY <1>3 DEF Shaped, Conference
<1>9. Dated(y)
  <2>1. \A j \in Codes : ms[j].due \in {x.ms[j].due, NoDate}
    BY <1>6
  <2> HIDE DEF x, y
  <2>2. QED
    BY <1>3, <1>8, <2>1 DEF Dated, Date
<1> HIDE DEF x, y, d
<1>10. WillKeep(y, vocab)
  <2>1. ASSUME NEW j \in Codes PROVE Keeps(y, vocab, {j}, y.ms[j].status)
    <3>1. CASE j = k
      <4>1. y.ms[j] = new /\ new.status = to
        BY <1>6, <1>8, <3>1
      <4>2. y.ms[j].status \in Vocabulary[vocab].statuses
        BY <1>4, <4>1
      <4>3. QED
        BY <4>2 DEF Keeps
    <3>2. CASE j # k
      <4>1. Keeps(x, vocab, {j}, x.ms[j].status)
        BY <1>3 DEF WillKeep, MsKept
      <4>2. QED
        BY <1>6, <1>8, <3>2, <4>1 DEF Keeps
    <3>3. QED
      BY <3>1, <3>2
  <2>2. Codes \cap FinanceCodes = {} => FinanceKept(y, vocab)
    <3>1. SUFFICES ASSUME Codes \cap FinanceCodes = {} PROVE FinanceKept(y, vocab)
      OBVIOUS
    <3>2. FinanceKept(x, vocab)
      BY <1>3, <3>1 DEF WillKeep
    <3>3. {"BUDGET", "BANKING"} \cap Codes = {}
      BY <3>1 DEF FinanceCodes
    <3>4. QED
      BY <1>8, <3>2, <3>3 DEF FinanceKept, Keeps
  <2>3. QED
    BY <1>3, <1>8, <2>1, <2>2 DEF WillKeep, MsKept
<1>11. Shaped(y)
  BY <1>7, <1>8 DEF Shaped
<1>12. QED
  BY <1>2, <1>5, <1>9, <1>10, <1>11, ConferenceStep

\* Changes of columns that nothing is derived from but the score.
LEMMA OtherColumns ==
  ASSUME NEW x, NEW y, NEW v, Shaped(x), FactsKept(x, v), Conference(y),
         y.ms = x.ms, y.tcs = x.tcs, y.application = x.application, y.mou = x.mou,
         y.finance = x.finance, y.publication = x.publication
  PROVE  Shaped(y) /\ WillKeep(y, v)
<1>1. ASSUME NEW codes, NEW value, Keeps(x, v, codes, value)
      PROVE  Keeps(y, v, codes, value)
  BY <1>1 DEF Keeps
<1>2. FactsKept(y, v)
  BY <1>1 DEF FactsKept, MsKept, FinanceKept
<1>3. QED
  BY <1>2, KeptWillKeep DEF Shaped

\* So does storing a row with other columns and the milestones and facts it had.
LEMMA ColumnStep ==
  ASSUME IInv, NEW c \in Confs, NEW y, NEW contact,
         Store({c}, [confs EXCEPT ![c] = y], issues, vocab, scoring, contact),
         Conference(y), Dated(y), y.ms = confs[c].ms, y.tcs = confs[c].tcs,
         y.application = confs[c].application, y.mou = confs[c].mou,
         y.finance = confs[c].finance, y.publication = confs[c].publication
  PROVE  IInv'
<1> DEFINE d == [confs EXCEPT ![c] = y]
<1>1. d[c] = y /\ \A e \in Confs \ {c} : d[e] = confs[e]
  BY DEF IInv, RowsInv
<1>2. Shaped(y) /\ WillKeep(y, vocab)
  BY Conferences, OtherColumns
<1>3. QED
  BY <1>1, <1>2, ConferenceStep

\* Changing a conference keeps the invariant.
LEMMA ChangeConferenceStep ==
  ASSUME IInv, NEW c \in Confs, ChangeConference(c)
  PROVE  IInv'
<1> DEFINE x == confs[c]
<1>1. Conference(x) /\ Dated(x)
  BY Conferences DEF Shaped
<1>2. ASSUME NEW k \in Codes, NEW status \in ManualStatuses, UpdateMilestone(c, k, status)
      PROVE  IInv'
  BY <1>2, UpdateMilestoneStep
<1>3. ASSUME NEW calendar \in Calendars, UpdateConference(c, calendar)
      PROVE  IInv'
  <2> DEFINE start == calendar.start
             end == calendar.end
             y == [x EXCEPT !.start = start, !.end = end]
             d == [confs EXCEPT ![c] = y]
  <2>1. Store({c}, d, issues, vocab, scoring, Contacts(d))
    BY <1>3 DEF UpdateConference, StoreConference, IInv, RowsInv
  <2>2. y = [x EXCEPT !.start = start, !.end = end]
    OBVIOUS
  <2>3. start \in Date /\ end \in Date
    BY PortfolioAssumption DEF Date
  <2> HIDE DEF y, start, end
  <2>4. /\ Conference(y) /\ y.ms = x.ms /\ y.tcs = x.tcs /\ y.application = x.application
        /\ y.mou = x.mou /\ y.finance = x.finance /\ y.publication = x.publication
        /\ y.start = start /\ y.end = end
    BY <1>1, <2>2 DEF Conference
  <2>5. Dated(y)
    BY <1>1, <2>3, <2>4 DEF Dated
  <2>6. QED
    BY <2>1, <2>4, <2>5, ColumnStep
<1>4. ASSUME NEW status \in {"Cancelled", "In Progress"}, ImportStatus(c, status)
      PROVE  IInv'
  <2> DEFINE to == Configured(status, Vocabulary[vocab].statuses)
             y == [x EXCEPT !.status = to]
             d == [confs EXCEPT ![c] = y]
  <2>1. Store({c}, d, issues, vocab, scoring, Contacts(d))
    BY <1>4 DEF ImportStatus, StoreConference
  <2>2. y = [x EXCEPT !.status = to]
    OBVIOUS
  <2> HIDE DEF y, to
  <2>3. /\ Conference(y) /\ y.ms = x.ms /\ y.tcs = x.tcs /\ y.application = x.application
        /\ y.mou = x.mou /\ y.finance = x.finance /\ y.publication = x.publication
        /\ y.start = x.start /\ y.end = x.end
    BY <1>1, <2>2 DEF Conference
  <2>4. Dated(y)
    BY <1>1, <2>3, SameDates
  <2>5. QED
    BY <2>1, <2>3, <2>4, ColumnStep
<1>5. ASSUME RefreshConference(c) PROVE IInv'
  <2>1. Shaped(x) /\ Dated(x) /\ WillKeep(x, vocab)
    BY Conferences
  <2>2. QED
    BY <1>5, <2>1, ConferenceStep DEF RefreshConference, StoreConference
<1>6. ASSUME NEW contact, NEW has \in BOOLEAN,
             Store({c}, [confs EXCEPT ![c].contact = has], issues, vocab, scoring, contact)
      PROVE  IInv'
  <2> DEFINE y == [x EXCEPT !.contact = has]
  <2>1. Store({c}, [confs EXCEPT ![c] = y], issues, vocab, scoring, contact)
    BY <1>6
  <2>2. y = [x EXCEPT !.contact = has]
    OBVIOUS
  <2> HIDE DEF y
  <2>3. /\ Conference(y) /\ y.ms = x.ms /\ y.tcs = x.tcs /\ y.application = x.application
        /\ y.mou = x.mou /\ y.finance = x.finance /\ y.publication = x.publication
        /\ y.start = x.start /\ y.end = x.end
    BY <1>1, <2>2 DEF Conference
  <2>4. Dated(y)
    BY <1>1, <2>3, SameDates
  <2>5. QED
    BY <2>1, <2>3, <2>4, ColumnStep
<1>7. ASSUME NEW has \in BOOLEAN, UpdateContact(c, has) PROVE IInv'
  BY <1>6, <1>7 DEF UpdateContact, StoreConference
<1>8. ASSUME CreatePrimaryContact(c) PROVE IInv'
  BY <1>6, <1>8 DEF CreatePrimaryContact
<1>9. QED
  BY <1>2, <1>3, <1>4, <1>5, <1>7, <1>8 DEF ChangeConference

-----------------------------------------------------------------------------
(* Issues                                                                  *)

\* A request on one issue, of the conference c.
LEMMA IssueStep ==
  ASSUME IInv, NEW i \in Issues, NEW c \in Confs, NEW new,
         StoreIssues(c, [issues EXCEPT ![i] = new]),
         issues[i] = NoIssue \/ issues[i].conf = c,
         new # NoIssue => Issue(new) /\ new.conf = c /\ IssueKept(new, vocab),
         \A y : (Twins(new, y) => Twins(issues[i], y)) /\ (Twins(y, new) => Twins(y, issues[i]))
  PROVE  IInv'
<1> DEFINE all == [issues EXCEPT ![i] = new]
<1>1. /\ all = [j \in Issues |-> all[j]] /\ all[i] = new
      /\ \A j \in Issues \ {i} : all[j] = issues[j]
  BY DEF IInv, IssuesOK
<1>2. Store({c}, confs, all, vocab, scoring, Contacts(confs))
  BY DEF StoreIssues
<1> HIDE DEF all
<1>3. IssuesOK(all, vocab)
  BY <1>1 DEF IInv, IssuesOK
<1>4. Twinless(all)
  <2>1. SUFFICES ASSUME NEW j \in Issues, NEW k \in Issues, j # k, Twins(all[j], all[k])
                 PROVE  FALSE
    BY DEF Twinless
  <2>2. Twins(issues[j], issues[k])
    BY <1>1, <2>1
  <2>3. QED
    BY <2>1, <2>2 DEF IInv, Twinless
<1>5. ASSUME NEW e \in Confs \ {c}
      PROVE  IssuesOf(e, all) = IssuesOf(e, issues)
  <2>1. \A j \in Issues : (all[j] # NoIssue /\ all[j].conf = e)
                            <=> (issues[j] # NoIssue /\ issues[j].conf = e)
    BY <1>1
  <2>2. {j \in Issues : all[j] # NoIssue /\ all[j].conf = e}
        = {j \in Issues : issues[j] # NoIssue /\ issues[j].conf = e}
    BY <2>1
  <2>3. ASSUME NEW j \in Issues, issues[j] # NoIssue /\ issues[j].conf = e
        PROVE  all[j] = issues[j]
    BY <1>1, <2>3
  <2>4. QED
    BY <2>2, <2>3 DEF IssuesOf
<1>6. Request({c}, confs, all, vocab, scoring)
  BY <1>3, <1>4, <1>5, Conferences DEF Request, IInv, RowsInv
<1>7. QED
  BY <1>2, <1>6, StoreStep

\* Creating an issue keeps the invariant.
LEMMA CreateIssueStep ==
  ASSUME IInv, NEW i \in Issues, NEW c \in Confs, NEW severity, CreateIssue(c, i, severity)
  PROVE  IInv'
<1> DEFINE to == Configured(severity, Vocabulary[vocab].severities)
           new == NewIssue(c, "manual", to, "Unreviewed", "no")
<1>1. issues[i] = NoIssue /\ StoreIssues(c, [issues EXCEPT ![i] = new])
  BY DEF CreateIssue, Free
<1>2. to \in Vocabulary[vocab].severities
  BY PortfolioAssumption DEF Configured, IInv, RowsInv
<1>3. "Open" \in Vocabulary[vocab].statuses
  BY PortfolioAssumption DEF Required, IInv, RowsInv
<1>4. /\ new.conf = c /\ new.title = "manual" /\ new.severity = to /\ new.status = "Open"
      /\ Issue(new)
  <2> HIDE DEF to
  <2>1. QED
    BY DEF NewIssue, Issue
<1> HIDE DEF to, new
<1>5. IssueKept(new, vocab)
  BY <1>2, <1>3, <1>4 DEF IssueKept
<1>6. ASSUME NEW y
      PROVE  ~Twins(new, y) /\ ~Twins(y, new)
  BY <1>4 DEF Twins
<1>7. QED
  BY <1>1, <1>4, <1>5, <1>6, IssueStep

\* A change of status, assessment or activity of an issue that does not make
\* it active again.
LEMMA EditStep ==
  ASSUME IInv, NEW i \in Issues, issues[i] # NoIssue, NEW new,
         StoreIssues(issues[i].conf, [issues EXCEPT ![i] = new]),
         Issue(new), new.conf = issues[i].conf, new.title = issues[i].title,
         new.severity = issues[i].severity, new.stray = issues[i].stray,
         new.active => issues[i].active,
         new.status \in {"Open", "Resolved", issues[i].status}
  PROVE  IInv'
<1>1. Issue(issues[i]) /\ IssueKept(issues[i], vocab)
  BY DEF IInv, IssuesOK
<1>2. {"Open", "Resolved"} \subseteq Vocabulary[vocab].statuses
  BY PortfolioAssumption DEF Required, IInv, RowsInv
<1>3. IssueKept(new, vocab)
  BY <1>1, <1>2 DEF IssueKept
<1>4. ASSUME NEW y
      PROVE  (Twins(new, y) => Twins(issues[i], y)) /\ (Twins(y, new) => Twins(y, issues[i]))
  BY DEF Twins
<1>5. issues[i].conf \in Confs
  BY <1>1 DEF Issue
<1>6. QED
  BY <1>3, <1>4, <1>5, IssueStep

\* Changing an issue keeps the invariant.
LEMMA ChangeIssueStep ==
  ASSUME IInv, NEW i \in Issues, ChangeIssue(i)
  PROVE  IInv'
<1> DEFINE x == issues[i]
<1>1. x # NoIssue => Issue(x)
  BY DEF IInv, IssuesOK
<1>2. ASSUME NEW c \in Confs, NEW severity \in ManualSeverities, CreateIssue(c, i, severity)
      PROVE  IInv'
  BY <1>2, CreateIssueStep
<1>3. ASSUME UpdateIssue(i) PROVE IInv'
  <2>1. x # NoIssue /\ Issue(x)
    BY <1>1, <1>3 DEF UpdateIssue
  <2>2. PICK y \in Changes(x) :
          StoreIssues(x.conf, [issues EXCEPT ![i] = [y EXCEPT !.active = @ /\ ~Settling(y)]])
    BY <1>3 DEF UpdateIssue
  <2>3. /\ Issue(y) /\ y.conf = x.conf /\ y.title = x.title /\ y.severity = x.severity
        /\ y.stray = x.stray /\ y.active = x.active
        /\ y.status \in {"Open", "Resolved", x.status}
    <3> HIDE DEF x
    <3>1. CASE \E status \in {"Open", "Resolved"} : y = [x EXCEPT !.status = status]
      BY <2>1, <3>1 DEF Issue
    <3>2. CASE \E status \in {"On Track", "Not an Issue"} : y = [x EXCEPT !.assessment = status]
      BY <2>1, <3>2 DEF Issue
    <3>3. QED
      BY <2>2, <3>1, <3>2 DEF Changes
  <2> DEFINE active == y.active /\ ~Settling(y)
             new == [y EXCEPT !.active = active]
  <2>4. StoreIssues(x.conf, [issues EXCEPT ![i] = new])
    BY <2>2
  <2>5. active \in BOOLEAN /\ (active => y.active)
    OBVIOUS
  <2>6. new = [y EXCEPT !.active = active]
    OBVIOUS
  <2> HIDE DEF x, active, new
  <2>7. /\ Issue(new) /\ new.conf = y.conf /\ new.title = y.title /\ new.severity = y.severity
        /\ new.stray = y.stray /\ new.active = active /\ new.status = y.status
    BY <2>3, <2>5, <2>6 DEF Issue
  <2>8. new.active => x.active
    BY <2>3, <2>5, <2>7
  <2>9. QED
    BY <2>1, <2>3, <2>4, <2>7, <2>8, EditStep DEF x
<1>4. ASSUME ResolveIssue(i) PROVE IInv'
  <2> DEFINE new == [x EXCEPT !.status = "Resolved", !.assessment = "Not an Issue",
                              !.active = FALSE]
  <2>1. x # NoIssue /\ Issue(x) /\ StoreIssues(x.conf, [issues EXCEPT ![i] = new])
    BY <1>1, <1>4 DEF ResolveIssue
  <2>2. new = [x EXCEPT !.status = "Resolved", !.assessment = "Not an Issue", !.active = FALSE]
    OBVIOUS
  <2> HIDE DEF x, new
  <2>3. /\ Issue(new) /\ new.conf = x.conf /\ new.title = x.title /\ new.severity = x.severity
        /\ new.stray = x.stray /\ new.active = FALSE /\ new.status = "Resolved"
    BY <2>1, <2>2 DEF Issue
  <2>4. QED
    BY <2>1, <2>3, EditStep DEF x
<1>5. ASSUME DeleteIssue(i) PROVE IInv'
  <2>1. x # NoIssue /\ Issue(x) /\ StoreIssues(x.conf, [issues EXCEPT ![i] = NoIssue])
    BY <1>1, <1>5 DEF DeleteIssue
  <2>2. ASSUME NEW y
        PROVE  ~Twins(NoIssue, y) /\ ~Twins(y, NoIssue)
    BY DEF Twins
  <2>3. x.conf \in Confs
    BY <2>1 DEF Issue
  <2>4. QED
    BY <2>1, <2>2, <2>3, IssueStep
<1>6. QED
  BY <1>2, <1>3, <1>4, <1>5 DEF ChangeIssue

-----------------------------------------------------------------------------
(* Settings                                                                *)

\* A request that recalculates every conference.
LEMMA EveryStep ==
  ASSUME IInv, NEW d, NEW all, NEW v \in Vocabularies, NEW s \in Scorings, NEW contact,
         Store(Confs, d, all, v, s, contact),
         \A c \in Confs : Shaped(d[c]) /\ Dated(d[c]) /\ WillKeep(d[c], v),
         IssuesOK(all, v), Twinless(all)
  PROVE  IInv'
<1>1. Request(Confs, d, all, v, s)
  BY DEF Request
<1>2. QED
  BY <1>1, StoreStep

\* Other scoring settings keep the invariant.
LEMMA UpdateScoringStep ==
  ASSUME IInv, NEW s \in Scorings, NEW contact,
         Store(Confs, confs, issues, vocab, s, contact)
  PROVE  IInv'
<1>1. \A c \in Confs : Shaped(confs[c]) /\ Dated(confs[c]) /\ WillKeep(confs[c], vocab)
  BY Conferences
<1>2. QED
  BY <1>1, EveryStep DEF IInv, RowsInv

\* Due dates change no status.
LEMMA RecalculateDatesStep ==
  ASSUME IInv, NEW table \in OffsetTables, RecalculateDates(table)
  PROVE  IInv'
<1> DEFINE Due(c, k) == DueDate(k, [start |-> confs[c].start, end |-> confs[c].end], table)
           Dues(c) == [k \in Codes |-> IF Due(c, k) = NoDate THEN confs[c].ms[k]
                                       ELSE [confs[c].ms[k] EXCEPT !.due = Due(c, k)]]
           d == [c \in Confs |-> [confs[c] EXCEPT !.ms = Dues(c)]]
<1>1. Store(Confs, d, issues, vocab, scoring, Contacts(d))
  BY DEF RecalculateDates
<1>2. ASSUME NEW c \in Confs
      PROVE  Shaped(d[c]) /\ Dated(d[c]) /\ WillKeep(d[c], vocab)
  <2> DEFINE x == confs[c]
             ms == Dues(c)
             y == [x EXCEPT !.ms = ms]
  <2>1. Shaped(x) /\ FactsKept(x, vocab) /\ Dated(x)
    BY Conferences
  <2>2. ASSUME NEW k \in Codes
        PROVE  /\ ms[k].status = x.ms[k].status /\ ms[k].due \in Date
               /\ ms[k] = [status |-> ms[k].status, due |-> ms[k].due]
    <3> DEFINE due == Due(c, k)
               m == x.ms[k]
    <3>1. m = [status |-> m.status, due |-> m.due]
      BY <2>1 DEF Shaped, Milestones
    <3>2. ms[k] = m \/ ms[k] = [m EXCEPT !.due = due]
      OBVIOUS
    <3>3. m.due \in Date
      BY <2>1 DEF Dated
    <3>4. due \in Date
      <4> DEFINE calendar == [start |-> x.start, end |-> x.end]
      <4>1. calendar.start \in Date /\ calendar.end \in Date
        BY <2>1 DEF Dated
      <4>2. due = DueDate(k, calendar, table)
        OBVIOUS
      <4> HIDE DEF calendar, due
      <4>3. QED
        BY <4>1, <4>2, DueDateIs
    <3> HIDE DEF due, m, ms
    <3>5. CASE ms[k] = m
      BY <3>1, <3>3, <3>5 DEF m
    <3>6. CASE ms[k] = [m EXCEPT !.due = due]
      BY <3>1, <3>4, <3>6 DEF m
    <3>7. QED
      BY <3>2, <3>5, <3>6
  <2>3. ms = [k \in Codes |-> ms[k]]
    OBVIOUS
  <2>4. d[c] = y /\ y = [x EXCEPT !.ms = ms]
    OBVIOUS
  <2> HIDE DEF ms, y, d
  <2>5. Milestones(ms)
    BY <2>2, <2>3 DEF Milestones
  <2> HIDE DEF x
  <2>6. /\ Conference(y) /\ y.ms = ms /\ y.tcs = x.tcs /\ y.application = x.application
        /\ y.mou = x.mou /\ y.finance = x.finance /\ y.publication = x.publication
        /\ y.start = x.start /\ y.end = x.end
    BY <2>1, <2>4 DEF Shaped, Conference
  <2>7. Shaped(y) /\ Dated(y)
    BY <2>1, <2>2, <2>5, <2>6 DEF Shaped, Dated
  <2>8. ASSUME NEW codes, NEW value, Keeps(x, vocab, codes, value)
        PROVE  Keeps(y, vocab, codes, value)
    BY <2>6, <2>8 DEF Keeps
  <2>9. MsKept(y, vocab)
    BY <2>1, <2>2, <2>6, <2>8 DEF FactsKept, MsKept
  <2>10. FinanceKept(y, vocab)
    BY <2>1, <2>2, <2>6, <2>8 DEF FactsKept, FinanceKept
  <2>11. FactsKept(y, vocab)
    BY <2>1, <2>6, <2>9, <2>10 DEF FactsKept
  <2>12. QED
    BY <2>4, <2>7, <2>11, KeptWillKeep
<1> HIDE DEF d
<1>3. QED
  BY <1>1, <1>2, EveryStep DEF IInv, RowsInv

-----------------------------------------------------------------------------
(* The clean-up of the vocabulary                                          *)

\* A value replaced by a configured one is in the vocabulary.
LEMMA ConfiguredIs ==
  ASSUME NEW v \in Vocabularies, NEW value
  PROVE  /\ Configured(value, Vocabulary[v].statuses) \in Vocabulary[v].statuses
         /\ Configured(value, Vocabulary[v].severities) \in Vocabulary[v].severities
BY PortfolioAssumption DEF Configured, Required

\* The facts no milestone says anything about are configured.
Loose(x, v) ==
  LET S == Vocabulary[v].statuses IN
  /\ "APPLICATION" \notin Codes => x.application \in S
  /\ "MOU" \notin Codes => x.mou \in S
  /\ Codes \cap FinanceCodes = {} => x.finance \in S
  /\ Codes \cap PublicationCodes = {} => x.publication \in S

\* A cleaned row has its shape and dates, and facts of the vocabulary.
LEMMA CleanFacts ==
  ASSUME NEW x, Shaped(x), NEW v \in Vocabularies
  PROVE  LET y == CleanConference(x, v) IN
         /\ Shaped(y) /\ (Dated(x) => Dated(y))
         /\ {y.application, y.mou, y.finance, y.publication} \subseteq Vocabulary[v].statuses
<1> DEFINE Kept(value) == Configured(value, Vocabulary[v].statuses)
           phase == Configured(x.phase, Vocabulary[v].phases)
           application == Kept(x.application)
           mou == Kept(x.mou)
           finance == Kept(x.finance)
           publication == Kept(x.publication)
           y == CleanConference(x, v)
<1>1. Conference(x)
  BY DEF Shaped
<1>2. y = [x EXCEPT !.phase = phase, !.application = application, !.mou = mou,
                    !.finance = finance, !.publication = publication]
  BY <1>1 DEF CleanConference, Conference
<1>3. {application, mou, finance, publication} \subseteq Vocabulary[v].statuses
  BY ConfiguredIs
<1> HIDE DEF phase, application, mou, finance, publication, y
<1>4. y = [tcs |-> x.tcs, start |-> x.start, end |-> x.end, contact |-> x.contact, ms |-> x.ms,
           application |-> application, mou |-> mou, finance |-> finance,
           publication |-> publication, base |-> x.base, penalty |-> x.penalty,
           score |-> x.score, completeness |-> x.completeness, phase |-> phase,
           status |-> x.status, band |-> x.band]
  BY <1>1, <1>2 DEF Conference
<1>5. /\ Conference(y) /\ y.ms = x.ms /\ y.application = application /\ y.mou = mou
      /\ y.finance = finance /\ y.publication = publication
      /\ y.start = x.start /\ y.end = x.end
  BY <1>4 DEF Conference
<1>6. Dated(x) => Dated(y)
  BY <1>5, SameDates
<1>7. QED
  BY <1>3, <1>5, <1>6 DEF Shaped, y

\* Recalculating a row with facts of the vocabulary leaves them in it.
LEMMA LooseRecalculated ==
  ASSUME NEW x, Shaped(x), NEW v,
         {x.application, x.mou, x.finance, x.publication} \subseteq Vocabulary[v].statuses,
         NEW all, NEW s, NEW phases, NEW contact, NEW today
  PROVE  Loose(Recalculate(x, all, s, phases, contact, today), v)
<1> DEFINE r == Recalculate(x, all, s, phases, contact, today)
<1>1. /\ r.application = IF "APPLICATION" \in Codes THEN r.ms["APPLICATION"].status
                         ELSE x.application
      /\ r.mou = IF "MOU" \in Codes THEN r.ms["MOU"].status ELSE x.mou
      /\ r.finance = FinanceStatus(StatusOf(r), x.finance)
      /\ r.publication = PublicationStatus(StatusOf(r), x.publication)
  BY RecalculateFacts
<1> HIDE DEF r
<1>2. DOMAIN StatusOf(r) = Codes
  BY DEF StatusOf
<1>3. Loose(r, v)
  BY <1>1, <1>2 DEF Loose, FinanceStatus, PublicationStatus
<1>4. QED
  BY <1>3 DEF r

\* With its milestones cleaned as well, a row keeps its facts at every sync.
LEMMA CleanStatuses ==
  ASSUME NEW x, Shaped(x), NEW v \in Vocabularies, Loose(x, v)
  PROVE  /\ Shaped(CleanMilestones(x, v)) /\ WillKeep(CleanMilestones(x, v), v)
         /\ Dated(x) => Dated(CleanMilestones(x, v))
<1> DEFINE To(k) == Configured(x.ms[k].status, Vocabulary[v].statuses)
           ms == [k \in Codes |-> [x.ms[k] EXCEPT !.status = To(k)]]
           y == CleanMilestones(x, v)
<1>1. Conference(x)
  BY DEF Shaped
<1>2. y = [x EXCEPT !.ms = ms]
  <2>1. [k \in Codes |-> [x.ms[k] EXCEPT !.status = Configured(@, Vocabulary[v].statuses)]] = ms
    <3>1. ASSUME NEW k \in Codes
          PROVE  [x.ms[k] EXCEPT !.status = Configured(@, Vocabulary[v].statuses)]
                 = [x.ms[k] EXCEPT !.status = To(k)]
      <4>1. x.ms[k] = [status |-> x.ms[k].status, due |-> x.ms[k].due]
        BY DEF Shaped, Milestones
      <4>2. QED
        BY <4>1
    <3>2. QED
      BY <3>1
  <2>2. y = [x EXCEPT !.ms =
              [k \in Codes |-> [x.ms[k] EXCEPT !.status = Configured(@, Vocabulary[v].statuses)]]]
    BY DEF CleanMilestones
  <2> HIDE DEF ms, y
  <2>3. QED
    BY <2>1, <2>2
<1>3. ASSUME NEW k \in Codes
      PROVE  /\ ms[k] = [status |-> ms[k].status, due |-> ms[k].due]
             /\ ms[k].status \in Vocabulary[v].statuses /\ ms[k].due = x.ms[k].due
  <2> DEFINE to == To(k)
  <2>1. x.ms[k] = [status |-> x.ms[k].status, due |-> x.ms[k].due]
    BY DEF Shaped, Milestones
  <2>2. ms[k] = [x.ms[k] EXCEPT !.status = to] /\ to \in Vocabulary[v].statuses
    BY ConfiguredIs
  <2> HIDE DEF to, ms
  <2>3. ms[k] = [status |-> to, due |-> x.ms[k].due]
    BY <2>1, <2>2
  <2>4. QED
    BY <2>2, <2>3
<1>4. ms = [k \in Codes |-> ms[k]]
  OBVIOUS
<1> HIDE DEF ms, y
<1>5. Milestones(ms)
  BY <1>3, <1>4 DEF Milestones
<1>6. /\ Conference(y) /\ y.ms = ms /\ y.tcs = x.tcs /\ y.application = x.application
      /\ y.mou = x.mou /\ y.finance = x.finance /\ y.publication = x.publication
      /\ y.start = x.start /\ y.end = x.end
  BY <1>1, <1>2 DEF Conference
<1>7. Shaped(y) /\ (Dated(x) => Dated(y))
  BY <1>3, <1>5, <1>6, SameDates DEF Shaped
<1>8. MsKept(y, v)
  BY <1>3, <1>6 DEF MsKept, Keeps
<1>9. Codes \cap FinanceCodes = {} => FinanceKept(y, v)
  BY <1>6 DEF Loose, FinanceKept, Keeps
<1>10. WillKeep(y, v)
  BY <1>6, <1>8, <1>9 DEF WillKeep, Loose
<1>11. QED
  BY <1>7, <1>10 DEF y

\* Cleaned issues are of the vocabulary, and no two active ones are twins.
LEMMA CleanedIssues ==
  ASSUME IInv, NEW v \in Vocabularies
  PROVE  IssuesOK(CleanIssues(v), v) /\ Twinless(CleanIssues(v))
<1> DEFINE all == CleanIssues(v)
<1>1. all = [i \in Issues |-> all[i]]
  BY DEF CleanIssues
<1>2. ASSUME NEW i \in Issues, issues[i] = NoIssue
      PROVE  all[i] = NoIssue
  BY <1>2 DEF CleanIssues
<1>3. ASSUME NEW i \in Issues, issues[i] # NoIssue
      PROVE  LET x == issues[i] IN
             /\ Issue(all[i]) /\ IssueKept(all[i], v)
             /\ all[i].conf = x.conf /\ all[i].title = x.title /\ all[i].active = x.active
             /\ all[i].stray = "no" => x.stray = "no"
  <2> DEFINE x == issues[i]
             severity == Configured(x.severity, Vocabulary[v].severities)
             status == Configured(x.status, Vocabulary[v].statuses)
             stray == IF x.stray = "no" THEN x.stray ELSE "cleaned"
             y == all[i]
  <2>1. Issue(x)
    BY <1>3 DEF IInv, IssuesOK
  <2>2. y = [x EXCEPT !.severity = severity, !.status = status, !.stray = stray]
    BY <1>3, <2>1 DEF CleanIssues, Issue
  <2>3. /\ severity \in Vocabulary[v].severities /\ status \in Vocabulary[v].statuses
        /\ stray = "no" => x.stray = "no"
    BY ConfiguredIs
  <2> HIDE DEF x, severity, status, stray, y
  <2>4. y = [conf |-> x.conf, title |-> x.title, severity |-> severity, status |-> status,
             assessment |-> x.assessment, active |-> x.active, stray |-> stray]
    BY <2>1, <2>2 DEF Issue
  <2>5. /\ Issue(y) /\ y.conf = x.conf /\ y.title = x.title /\ y.active = x.active
        /\ y.severity = severity /\ y.status = status /\ y.stray = stray
    BY <2>1, <2>4 DEF Issue
  <2>6. IssueKept(y, v)
    BY <2>3, <2>5 DEF IssueKept
  <2>7. QED
    BY <2>3, <2>5, <2>6 DEF x, y
<1> HIDE DEF all
<1>4. IssuesOK(all, v)
  BY <1>1, <1>2, <1>3 DEF IssuesOK
<1>5. ASSUME NEW i \in Issues, NEW j \in Issues, Twins(all[i], all[j])
      PROVE  Twins(issues[i], issues[j])
  <2>1. issues[i] # NoIssue /\ issues[j] # NoIssue
    BY <1>2, <1>5 DEF Twins
  <2>2. QED
    BY <1>3, <1>5, <2>1 DEF Twins
<1>6. Twinless(all)
  BY <1>5 DEF IInv, Twinless
<1>7. QED
  BY <1>4, <1>6 DEF all

\* Another vocabulary keeps the invariant.
LEMMA UpdateReferenceConfigStep ==
  ASSUME IInv, NEW v \in Vocabularies, UpdateReferenceConfig(v)
  PROVE  IInv'
<1> DEFINE clean   == [c \in Confs |-> CleanConference(confs[c], v)]
           touched == {c \in Confs : clean[c] # confs[c]}
           first   == [c \in Confs |->
                        IF c \in touched
                          THEN Recalculated(c, clean, issues, scoring, v, clean[c].contact)
                          ELSE confs[c]]
           second  == [c \in Confs |-> CleanMilestones(first[c], v)]
<1>1. Store(Confs, second, CleanIssues(v), v, scoring, Contacts(second))
  BY DEF UpdateReferenceConfig
<1>2. ASSUME NEW c \in Confs
      PROVE  Shaped(second[c]) /\ Dated(second[c]) /\ WillKeep(second[c], v)
  <2> DEFINE y == clean[c]
             r == Recalculate(y, IssuesOf(c, issues), Scoring[scoring],
                              Vocabulary[v].phases, y.contact, day)
  <2>1. Shaped(confs[c]) /\ Dated(confs[c])
    BY Conferences
  <2>2. Shaped(y) /\ Dated(y) /\ {y.application, y.mou, y.finance, y.publication} \subseteq Vocabulary[v].statuses
    BY <2>1, CleanFacts
  <2>3. Shaped(first[c]) /\ Dated(first[c]) /\ Loose(first[c], v)
    <3>1. CASE y # confs[c]
      <4>1. first[c] = r
        BY <3>1 DEF Recalculated
      <4> HIDE DEF y, first
      <4>2. Shaped(r) /\ Dated(r) /\ Loose(r, v)
        BY <2>2, RecalculateSynced, RecalculateDated, LooseRecalculated DEF Synced
      <4>3. QED
        BY <4>1, <4>2
    <3>2. CASE y = confs[c]
      <4>1. first[c] = y
        BY <3>2
      <4>2. Loose(y, v)
        <5> HIDE DEF y
        <5>1. QED
          BY <2>2 DEF Loose
      <4>3. QED
        BY <2>2, <4>1, <4>2
    <3>3. QED
      BY <3>1, <3>2
  <2>4. second[c] = CleanMilestones(first[c], v)
    OBVIOUS
  <2> HIDE DEF first, second
  <2>5. QED
    BY <2>3, <2>4, CleanStatuses
<1>3. IssuesOK(CleanIssues(v), v) /\ Twinless(CleanIssues(v))
  BY CleanedIssues
<1> HIDE DEF second
<1>4. QED
  BY <1>1, <1>2, <1>3, EveryStep DEF IInv, RowsInv

\* Changing settings keeps the invariant.
LEMMA ChangeSettingsStep ==
  ASSUME IInv, ChangeSettings
  PROVE  IInv'
<1>1. ASSUME NEW s \in Scorings, UpdateScoring(s) PROVE IInv'
  BY <1>1, UpdateScoringStep DEF UpdateScoring
<1>2. ASSUME RecalculateAll PROVE IInv'
  BY <1>2, UpdateScoringStep DEF RecalculateAll, IInv, RowsInv
<1>3. QED
  BY <1>1, <1>2, RecalculateDatesStep, UpdateReferenceConfigStep DEF ChangeSettings

-----------------------------------------------------------------------------
(* Generated issues                                                        *)

Fields ==
  {"tcs", "start", "end", "contact", "ms", "application", "mou", "finance", "publication",
   "base", "penalty", "score", "completeness", "phase", "status", "band"}

\* A conference is the record of its fields.
LEMMA ConferenceIs ==
  ASSUME NEW x
  PROVE  /\ Conference(x) => DOMAIN x = Fields /\ x = [f \in Fields |-> x[f]]
         /\ x = [f \in Fields |-> x[f]] => Conference(x)
<1>1. ASSUME Conference(x)
      PROVE  DOMAIN x = Fields /\ x = [f \in Fields |-> x[f]]
  <2>1. DOMAIN x = Fields
    BY <1>1 DEF Conference, Fields
  <2>2. x = [f \in DOMAIN x |-> x[f]]
    BY <1>1 DEF Conference
  <2>3. QED
    BY <2>1, <2>2
<1>2. ASSUME x = [f \in Fields |-> x[f]]
      PROVE  Conference(x)
  BY <1>2 DEF Conference, Fields
<1>3. QED
  BY <1>1, <1>2

\* A row with the facts of one typed row, and each derived column of this or of
\* another typed row, is typed.
LEMMA TypedOfBoth ==
  ASSUME NEW m, NEW x, NEW y, Typed(x), Typed(y), SameFacts(y, m),
         m.base \in {x.base, y.base}, m.score \in {x.score, y.score},
         m.completeness \in {x.completeness, y.completeness}
  PROVE  Typed(m)
<1>1. Dated(m)
  BY DEF SameFacts, Typed, Dated
<1>2. /\ x.base \in 0 .. 1000 /\ x.score \in 0 .. 1000 /\ x.completeness \in 0 .. 1000
      /\ y.base \in 0 .. 1000 /\ y.score \in 0 .. 1000 /\ y.completeness \in 0 .. 1000
  BY DEF Typed
<1>3. m.base \in 0 .. 1000
  BY <1>2
<1>4. m.score \in 0 .. 1000
  BY <1>2
<1>5. m.completeness \in 0 .. 1000
  BY <1>2
<1>6. QED
  BY <1>1, <1>3, <1>4, <1>5 DEF Typed

\* A generation writes the score's columns that differ from its snapshot, and
\* leaves the facts as they are by then.
LEMMA MergedFields ==
  ASSUME NEW seen, NEW new, NEW stored, Shaped(stored), SameFacts(seen, new)
  PROVE  LET m == Merged(seen, new, stored)
             To(f) == IF new[f] # seen[f] THEN new[f] ELSE stored[f]
         IN
         /\ Conference(m) /\ SameFacts(stored, m)
         /\ m.base = To("base") /\ m.penalty = To("penalty") /\ m.score = To("score")
         /\ m.completeness = To("completeness") /\ m.phase = To("phase")
         /\ m.status = To("status") /\ m.band = To("band")
<1> DEFINE m == Merged(seen, new, stored)
           To(f) == IF new[f] # seen[f] THEN new[f] ELSE stored[f]
           ms == [k \in Codes |-> [g \in {"status", "due"} |->
                    IF new.ms[k][g] # seen.ms[k][g] THEN new.ms[k][g] ELSE stored.ms[k][g]]]
<1>1. DOMAIN stored = Fields
  BY ConferenceIs DEF Shaped
<1>2. ms = stored.ms
  <2>1. new.ms = seen.ms
    BY DEF SameFacts
  <2>2. ASSUME NEW k \in Codes
        PROVE  ms[k] = stored.ms[k]
    <3>1. ms[k] = [g \in {"status", "due"} |-> stored.ms[k][g]]
      BY <2>1
    <3>2. stored.ms[k] = [status |-> stored.ms[k].status, due |-> stored.ms[k].due]
      BY DEF Shaped, Milestones
    <3> HIDE DEF ms
    <3>3. QED
      BY <3>1, <3>2
  <2>3. stored.ms = [k \in Codes |-> stored.ms[k]] /\ ms = [k \in Codes |-> ms[k]]
    BY DEF Shaped, Milestones
  <2> HIDE DEF ms
  <2>4. QED
    BY <2>2, <2>3
<1>3. m = [f \in Fields |-> IF f = "ms" THEN ms ELSE To(f)]
  BY <1>1 DEF Merged
<1> HIDE DEF m, ms
<1>4. m = [f \in Fields |-> m[f]]
  BY <1>3
<1>5. Conference(m)
  BY <1>4, ConferenceIs
<1>6. /\ m.ms = stored.ms
      /\ \A f \in Fields \ {"ms"} : m[f] = To(f)
  BY <1>2, <1>3 DEF Fields
<1>7. /\ m.base = To("base") /\ m.penalty = To("penalty") /\ m.score = To("score")
      /\ m.completeness = To("completeness") /\ m.phase = To("phase")
      /\ m.status = To("status") /\ m.band = To("band")
  BY <1>6 DEF Fields
<1>8. /\ m.tcs = To("tcs") /\ m.start = To("start") /\ m.end = To("end")
      /\ m.contact = To("contact") /\ m.application = To("application")
      /\ m.mou = To("mou") /\ m.finance = To("finance") /\ m.publication = To("publication")
  BY <1>6 DEF Fields
<1>9. SameFacts(stored, m)
  BY <1>6, <1>8 DEF SameFacts
<1>10. QED
  BY <1>5, <1>7, <1>9 DEF m

\* When nothing was committed in between, what it computed is stored.
LEMMA MergedUnseen ==
  ASSUME NEW new, NEW stored, Shaped(stored), Conference(new), SameFacts(stored, new)
  PROVE  Merged(stored, new, stored) = new
<1> DEFINE m == Merged(stored, new, stored)
<1>1. /\ Conference(m) /\ SameFacts(stored, m)
      /\ m.base = new.base /\ m.penalty = new.penalty /\ m.score = new.score
      /\ m.completeness = new.completeness /\ m.phase = new.phase
      /\ m.status = new.status /\ m.band = new.band
  BY MergedFields
<1> HIDE DEF m
<1>2. m = new
  BY <1>1 DEF Conference, SameFacts
<1>3. QED
  BY <1>2 DEF m

\* The snapshot of a generation keeps the invariant.
LEMMA BeginGenerateStep ==
  ASSUME IInv, NEW t \in Slots, BeginGenerate(t)
  PROVE  IInv'
<1>1. PICK targets \in {{c} : c \in Confs} \cup {WatchList} :
        gens' = [gens EXCEPT ![t] = [targets |-> targets, seen |-> Snapshot]]
  BY DEF BeginGenerate
<1> DEFINE g == [targets |-> targets, seen |-> Snapshot]
<1>2. targets \subseteq Confs
  BY DEF WatchList
<1>3. Generation(g)
  BY <1>2 DEF Generation, Snapshot, IInv, RowsInv
<1>4. /\ vocab' = vocab /\ scoring' = scoring /\ confs' = confs /\ trace' = trace
      /\ issues' = issues /\ day' = day
  BY DEF BeginGenerate, settings
<1> HIDE DEF g
<1>5. GensInv'
  <2>1. gens' = [u \in Slots |-> gens'[u]]
    BY <1>1 DEF IInv, GensInv
  <2>2. ASSUME NEW u \in Slots, gens'[u] # Idle
        PROVE  Generation(gens'[u])
    <3>1. gens'[u] = g \/ gens'[u] = gens[u]
      BY <1>1 DEF IInv, GensInv, g
    <3>2. QED
      BY <1>3, <2>2, <3>1 DEF IInv, GensInv
  <2>3. QED
    BY <2>1, <2>2 DEF GensInv
<1>6. QED
  BY <1>4, <1>5 DEF IInv, RowsInv, Current, Fresh, Computed

\* What a generation adds was answered for a conference of its own, and had no
\* active twin in the snapshot.
LEMMA NewIs ==
  ASSUME NEW good, NEW answers, NEW seen, NEW x \in New(good, answers, seen)
  PROVE  /\ x[1] \in good /\ x[2] \in answers[x[1]] /\ x = <<x[1], x[2]>>
         /\ ~\E i \in Issues : seen.issues[i] # NoIssue /\ seen.issues[i].conf = x[1]
                               /\ seen.issues[i].active /\ seen.issues[i].title = x[2].title
<1>1. PICK c \in good : x \in Additions(c, answers[c], seen)
  BY DEF New
<1>2. PICK item \in answers[c] :
        /\ x = <<c, item>>
        /\ ~\E i \in Issues : seen.issues[i] # NoIssue /\ seen.issues[i].conf = c
                              /\ seen.issues[i].active /\ seen.issues[i].title = item.title
  BY <1>1 DEF Additions
<1>3. x[1] = c /\ x[2] = item
  BY <1>2
<1>4. QED
  BY <1>2, <1>3

\* Its new issues, one for each of new, and nothing else.
LEMMA MadeIs ==
  ASSUME NEW new, NEW id \in [new -> Free],
         \A x, y \in new : id[x] = id[y] => x = y,
         NEW all, NEW v, NEW stale \in BOOLEAN, NEW i \in Issues
  PROVE  LET made == Made(all, new, id, v, stale)[i] IN
         \/ /\ ~\E x \in new : id[x] = i
            /\ made = all[i]
         \/ /\ issues[i] = NoIssue
            /\ \E x \in new :
                 /\ id[x] = i
                 /\ made = NewIssue(x[1], x[2].title, AnsweredSeverity(x[2], v),
                                    x[2].assessment, IF stale THEN "yes" ELSE "no")
<1>1. CASE ~\E x \in new : id[x] = i
  BY <1>1 DEF Made
<1>2. CASE \E x \in new : id[x] = i
  <2> DEFINE x == CHOOSE y \in new : id[y] = i
  <2>1. x \in new /\ id[x] = i
    BY <1>2
  <2>2. issues[i] = NoIssue
    BY <2>1 DEF Free
  <2>3. Made(all, new, id, v, stale)[i]
        = NewIssue(x[1], x[2].title, AnsweredSeverity(x[2], v),
                   x[2].assessment, IF stale THEN "yes" ELSE "no")
    BY <1>2 DEF Made
  <2> HIDE DEF x
  <2>4. QED
    BY <2>1, <2>2, <2>3
<1>3. QED
  BY <1>1, <1>2

\* The fields of a new issue.
LEMMA NewIssueIs ==
  ASSUME NEW c \in Confs, NEW title, NEW severity, NEW assessment, NEW stray
  PROVE  LET x == NewIssue(c, title, severity, assessment, stray) IN
         /\ Issue(x) /\ x.conf = c /\ x.title = title /\ x.severity = severity
         /\ x.status = "Open" /\ x.active /\ x.stray = stray
BY DEF NewIssue, Issue

\* An answered severity is of the vocabulary.
LEMMA AnsweredIs ==
  ASSUME NEW item, NEW v \in Vocabularies
  PROVE  AnsweredSeverity(item, v) \in Vocabulary[v].severities
BY ConfiguredIs DEF AnsweredSeverity

\* New issues are configured ones and have no twin, unless something was
\* committed in between; they belong to the conferences that got an answer.
LEMMA MadeIssues ==
  ASSUME IInv, NEW seen, NEW stale \in BOOLEAN, ~stale => seen = Snapshot,
         NEW good \in SUBSET Confs, NEW answers, \A c \in good : answers[c] \in Answers,
         NEW id \in [New(good, answers, seen) -> Free],
         \A x, y \in New(good, answers, seen) : id[x] = id[y] => x = y
  PROVE  LET all == Made(issues, New(good, answers, seen), id, seen.vocab, stale) IN
         /\ IssuesOK(all, vocab) /\ Twinless(all)
         /\ \A c \in Confs \ good : IssuesOf(c, all) = IssuesOf(c, issues)
<1> DEFINE new == New(good, answers, seen)
           all == Made(issues, new, id, seen.vocab, stale)
           Stray == IF stale THEN "yes" ELSE "no"
           Made1(x) == NewIssue(x[1], x[2].title, AnsweredSeverity(x[2], seen.vocab),
                                x[2].assessment, Stray)
<1>0. IssuesOK(issues, vocab) /\ Twinless(issues) /\ vocab \in Vocabularies
  BY DEF IInv, RowsInv
<1>1. ASSUME NEW i \in Issues
      PROVE  \/ all[i] = issues[i]
             \/ issues[i] = NoIssue /\ \E x \in new : id[x] = i /\ all[i] = Made1(x)
  <2> DEFINE V == seen.vocab
  <2>1. /\ id \in [new -> Free]
        /\ \A x, y \in new : id[x] = id[y] => x = y
    OBVIOUS
  <2>2. all[i] = Made(issues, new, id, V, stale)[i]
    OBVIOUS
  <2> HIDE DEF new, V, all
  <2>3. LET made == Made(issues, new, id, V, stale)[i] IN
         \/ made = issues[i]
         \/ /\ issues[i] = NoIssue
            /\ \E x \in new :
                 /\ id[x] = i
                 /\ made = NewIssue(x[1], x[2].title, AnsweredSeverity(x[2], V),
                                    x[2].assessment, Stray)
    BY <2>1, MadeIs
  <2>4. QED
    BY <2>2, <2>3 DEF V
<1>2. ASSUME NEW x \in new
      PROVE  /\ x[1] \in good /\ x[2] \in answers[x[1]] /\ x = <<x[1], x[2]>>
             /\ ~\E i \in Issues : seen.issues[i] # NoIssue /\ seen.issues[i].conf = x[1]
                                   /\ seen.issues[i].active /\ seen.issues[i].title = x[2].title
  BY NewIs
<1> HIDE DEF new
<1>3. ASSUME NEW x \in new
      PROVE  /\ Issue(Made1(x)) /\ Made1(x).conf = x[1] /\ Made1(x).title = x[2].title
             /\ Made1(x).status = "Open" /\ Made1(x).stray = Stray
             /\ Made1(x).severity = AnsweredSeverity(x[2], seen.vocab)
  <2>1. x[1] \in Confs
    BY <1>2
  <2>2. QED
    BY <2>1, NewIssueIs
<1>4. ~stale => seen.vocab = vocab /\ seen.issues = issues
  BY DEF Snapshot
<1>5. Stray # "yes" => ~stale
  OBVIOUS
<1>6. ASSUME NEW x \in new
      PROVE  IssueKept(Made1(x), vocab)
  <2>1. SUFFICES ASSUME ~stale
                 PROVE  /\ AnsweredSeverity(x[2], seen.vocab) \in Vocabulary[vocab].severities
                        /\ "Open" \in Vocabulary[vocab].statuses
    <3> HIDE DEF Made1, Stray
    <3>1. QED
      BY <1>3, <1>5 DEF IssueKept
  <2>2. QED
    BY <1>0, <1>4, <2>1, AnsweredIs, PortfolioAssumption DEF Required
<1>7. all = [i \in Issues |-> all[i]]
  BY DEF Made
<1> HIDE DEF all, Made1
<1>8. IssuesOK(all, vocab)
  <2>1. ASSUME NEW i \in Issues, all[i] # NoIssue
        PROVE  Issue(all[i]) /\ IssueKept(all[i], vocab)
    <3>1. CASE all[i] = issues[i]
      BY <1>0, <2>1, <3>1 DEF IssuesOK
    <3>2. CASE \E x \in new : id[x] = i /\ all[i] = Made1(x)
      BY <1>3, <1>6, <3>2
    <3>3. QED
      BY <1>1, <3>1, <3>2
  <2>2. QED
    BY <1>7, <2>1 DEF IssuesOK
<1>9. Twinless(all)
  <2>1. ASSUME NEW i \in Issues, NEW j \in Issues, NEW x \in new,
               all[i] = Made1(x), all[j] = issues[j], all[i].stray = "no"
        PROVE  ~(/\ issues[j] # NoIssue /\ issues[j].active
                 /\ issues[j].conf = all[i].conf /\ issues[j].title = all[i].title)
    <3>1. ~stale
      BY <1>3, <1>5, <2>1
    <3>2. QED
      BY <1>2, <1>3, <1>4, <2>1, <3>1
  <2>2. ASSUME NEW x \in new, NEW y \in new, x[1] = y[1], x[2].title = y[2].title
        PROVE  x = y
    <3>1. x[2] \in answers[x[1]] /\ y[2] \in answers[x[1]] /\ answers[x[1]] \in Answers
      BY <1>2, <2>2
    <3>2. x[2] = y[2]
      BY <2>2, <3>1, PortfolioAssumption
    <3>3. QED
      BY <1>2, <2>2, <3>2
  <2>3. SUFFICES ASSUME NEW i \in Issues, NEW j \in Issues, i # j, Twins(all[i], all[j])
                 PROVE  FALSE
    BY DEF Twinless
  <2>4. /\ all[i] # NoIssue /\ all[j] # NoIssue /\ all[i].active /\ all[j].active
        /\ all[i].conf = all[j].conf /\ all[i].title = all[j].title
        /\ all[i].stray = "no" /\ all[j].stray = "no"
    BY <2>3 DEF Twins
  <2>5. CASE all[i] = issues[i] /\ all[j] = issues[j]
    BY <1>0, <2>3, <2>5 DEF Twinless
  <2>6. CASE all[i] = issues[i] /\ all[j] # issues[j]
    <3>1. PICK x \in new : all[j] = Made1(x)
      BY <1>1, <2>6
    <3>2. QED
      BY <2>1, <2>4, <2>6, <3>1
  <2>7. CASE all[i] # issues[i] /\ all[j] = issues[j]
    <3>1. PICK x \in new : all[i] = Made1(x)
      BY <1>1, <2>7
    <3>2. QED
      BY <2>1, <2>4, <2>7, <3>1
  <2>8. CASE all[i] # issues[i] /\ all[j] # issues[j]
    <3>1. PICK x \in new : id[x] = i /\ all[i] = Made1(x)
      BY <1>1, <2>8
    <3>2. PICK y \in new : id[y] = j /\ all[j] = Made1(y)
      BY <1>1, <2>8
    <3>3. x[1] = y[1] /\ x[2].title = y[2].title
      BY <1>3, <2>4, <3>1, <3>2
    <3>4. QED
      BY <2>2, <2>3, <3>1, <3>2, <3>3
  <2>9. QED
    BY <2>5, <2>6, <2>7, <2>8
<1>10. ASSUME NEW c \in Confs \ good
       PROVE  IssuesOf(c, all) = IssuesOf(c, issues)
  <2>1. ASSUME NEW i \in Issues
        PROVE  /\ (all[i] # NoIssue /\ all[i].conf = c)
                    <=> (issues[i] # NoIssue /\ issues[i].conf = c)
               /\ issues[i] # NoIssue => all[i] = issues[i]
    <3>1. CASE all[i] = issues[i]
      BY <3>1
    <3>2. CASE issues[i] = NoIssue /\ \E x \in new : all[i] = Made1(x)
      BY <1>2, <1>3, <3>2
    <3>3. QED
      BY <1>1, <3>1, <3>2
  <2>2. {i \in Issues : all[i] # NoIssue /\ all[i].conf = c}
        = {i \in Issues : issues[i] # NoIssue /\ issues[i].conf = c}
    BY <2>1
  <2>3. QED
    BY <2>1, <2>2 DEF IssuesOf
<1>11. QED
  BY <1>8, <1>9, <1>10 DEF all, new

\* Storing a generation keeps the invariant.
LEMMA FinishGenerateStep ==
  ASSUME IInv, NEW t \in Slots, FinishGenerate(t)
  PROVE  IInv'
<1> DEFINE seen  == gens[t].seen
           stale == seen # Snapshot
           Good(answers) == {c \in gens[t].targets : answers[c] # Failed}
           Ids(new) == {f \in [new -> Free] : \A x, y \in new : f[x] = f[y] => x = y}
<1>1. PICK answers \in [gens[t].targets -> Answers \cup {Failed}] :
        \E id \in Ids(New(Good(answers), answers, seen)) :
          CommitGenerated(Good(answers), New(Good(answers), answers, seen), id, seen, stale)
  BY DEF FinishGenerate
<1> DEFINE good == Good(answers)
           new  == New(good, answers, seen)
<1>2. PICK id \in Ids(new) : CommitGenerated(good, new, id, seen, stale)
  BY <1>1
<1>3. /\ good \in SUBSET gens[t].targets /\ \A c \in good : answers[c] \in Answers
      /\ stale \in BOOLEAN /\ (~stale => seen = Snapshot)
      /\ id \in [new -> Free] /\ \A x, y \in new : id[x] = id[y] => x = y
  BY <1>2
<1> DEFINE made == Made(issues, new, id, seen.vocab, stale)
           all == Made(seen.issues, new, id, seen.vocab, stale)
           x(c) == seen.confs[c]
           r(c) == Recalculate(x(c), IssuesOf(c, all), Scoring[seen.scoring],
                               Vocabulary[seen.vocab].phases, x(c).contact, day)
           m(c) == Merged(x(c), r(c), confs[c])
<1>4. IInv
  OBVIOUS
<1>5. /\ issues' = made /\ gens' = [gens EXCEPT ![t] = Idle]
      /\ vocab' = vocab /\ scoring' = scoring /\ day' = day
      /\ \A c \in good : Computable(Prepared(x(c)), day, Scoring[seen.scoring])
      /\ confs' = [c \in Confs |-> IF c \in good THEN m(c) ELSE confs[c]]
      /\ trace' = [c \in Confs |->
           IF c \notin good THEN trace[c]
           ELSE [Seen(x(c), r(c), x(c).contact) EXCEPT !.stale = stale]]
  BY <1>2 DEF CommitGenerated, Recalculated, FinishGenerate, settings
<1> HIDE DEF stale, good
<1>6. Generation(gens[t])
  BY <1>4 DEF IInv, GensInv, FinishGenerate
<1>7. good \subseteq Confs
  BY <1>6, <1>3 DEF Generation
<1>8. /\ IssuesOK(made, vocab) /\ Twinless(made)
      /\ \A c \in Confs \ good : IssuesOf(c, made) = IssuesOf(c, issues)
  BY <1>7, <1>3, MadeIssues
<1>9. ~stale => all = made /\ seen = Snapshot
  BY <1>3 DEF Snapshot
<1> HIDE DEF new, made, all, seen
<1>10. ASSUME NEW c \in good
      PROVE  /\ c \in Confs /\ Shaped(x(c)) /\ Conference(r(c)) /\ SameFacts(x(c), r(c))
             /\ r(c).phase \in Vocabulary[seen.vocab].phases \cup {"Unknown"}
             /\ Agrees(r(c), Recalculate(r(c), IssuesOf(c, all), Scoring[seen.scoring],
                                         Vocabulary[seen.vocab].phases, r(c).contact, day),
                       Lags(x(c), r(c), x(c).contact))
             /\ Typed(r(c)) /\ Computable(r(c), day, Scoring[seen.scoring])
  <2> DEFINE y == x(c)
  <2>1. c \in Confs
    BY <1>7
  <2>2. Synced(y) /\ Dated(y)
    <3>1. Rows(seen.confs)
      BY <1>6 DEF Generation, seen
    <3>2. Synced(y) /\ Typed(y)
      BY <2>1, <3>1 DEF Rows
    <3> HIDE DEF y
    <3>3. QED
      BY <3>2 DEF Typed
  <2>3. Shaped(y) /\ Prepared(y) = y
    BY <2>2, SyncedPrepared DEF Synced
  <2>4. Conference(r(c)) /\ SameFacts(r(c), Prepared(y))
    BY <2>3, RecalculateColumns
  <2>5. r(c).phase \in Vocabulary[seen.vocab].phases \cup {"Unknown"}
    BY <2>3, RecalculateSynced
  <2>6. Agrees(r(c), Recalculate(r(c), IssuesOf(c, all), Scoring[seen.scoring],
                                 Vocabulary[seen.vocab].phases, r(c).contact, day),
               Lags(y, r(c), y.contact))
    BY <2>3, RecalculateAgain
  <2>7. Typed(r(c)) /\ Computable(r(c), day, Scoring[seen.scoring])
    <3>1. ScoreSettings(Scoring[seen.scoring]) /\ day \in Int
      BY <1>4, <1>6, PortfolioAssumption DEF Generation, IInv, RowsInv, seen
    <3>2. Computable(Prepared(y), day, Scoring[seen.scoring])
      BY <1>5
    <3> HIDE DEF x
    <3>3. QED
      BY <2>2, <2>3, <3>1, <3>2, IssuesFinite, RecalculateTyped
  <2> HIDE DEF r, x
  <2>8. SameFacts(x(c), r(c))
    BY <2>3, <2>4 DEF SameFacts
  <2>9. QED
    BY <2>1, <2>3, <2>4, <2>5, <2>6, <2>7, <2>8
<1> HIDE DEF x, r
<1>11. ASSUME NEW c \in Confs
      PROVE  /\ Synced(confs[c]) /\ Shaped(confs[c]) /\ FactsKept(confs[c], vocab)
             /\ confs[c].phase \in Vocabulary[vocab].phases \/ trace[c].stale
             /\ Current(c) /\ Computed(c) /\ Typed(confs[c])
  BY <1>4, Conferences DEF IInv
<1>12. ASSUME NEW c \in good
      PROVE  /\ Conference(m(c)) /\ SameFacts(confs[c], m(c)) /\ Typed(m(c))
             /\ ~stale => m(c) = r(c)
  <2>1. /\ Conference(m(c)) /\ SameFacts(confs[c], m(c))
        /\ m(c).base \in {r(c).base, confs[c].base}
        /\ m(c).score \in {r(c).score, confs[c].score}
        /\ m(c).completeness \in {r(c).completeness, confs[c].completeness}
    BY <1>10, <1>11, MergedFields
  <2>2. ASSUME ~stale PROVE m(c) = r(c)
    <3>1. x(c) = confs[c]
      BY <1>9, <2>2 DEF x, Snapshot
    <3>2. Merged(confs[c], r(c), confs[c]) = r(c)
      BY <1>10, <3>1, MergedUnseen
    <3>3. QED
      BY <3>1, <3>2
  <2> HIDE DEF m
  <2>3. Typed(r(c)) /\ Typed(confs[c])
    BY <1>10, <1>11
  <2>4. Typed(m(c))
    BY <2>1, <2>3, TypedOfBoth
  <2>5. QED
    BY <2>1, <2>2, <2>4
<1> HIDE DEF m
<1>13. ASSUME NEW c \in good
      PROVE  /\ c \in Confs /\ confs'[c] = m(c) /\ trace'[c].day = day
             /\ trace'[c].lags = Lags(x(c), r(c), x(c).contact) /\ trace'[c].stale = stale
  <2> DEFINE lags == Lags(x(c), r(c), x(c).contact)
             old == Seen(x(c), r(c), x(c).contact)
  <2>1. c \in Confs /\ confs'[c] = m(c) /\ trace'[c] = [old EXCEPT !.stale = stale]
    BY <1>5, <1>10
  <2>2. old = [day |-> day, lags |-> lags, stale |-> FALSE]
    BY DEF Seen
  <2> HIDE DEF lags, old
  <2>3. trace'[c] = [day |-> day, lags |-> lags, stale |-> stale]
    BY <2>1, <2>2
  <2>4. QED
    BY <2>1, <2>3 DEF lags
<1>14. ASSUME NEW c \in Confs \ good
       PROVE  confs'[c] = confs[c] /\ trace'[c] = trace[c]
  BY <1>5
<1>15. RowsInv'
  <2>1. ASSUME NEW c \in Confs PROVE Synced(confs'[c]) /\ Typed(confs'[c])
    <3>1. CASE c \in good
      BY <1>11, <1>12, <1>13, <3>1, SameFactsSynced
    <3>2. CASE c \notin good
      BY <1>11, <1>14, <3>2
    <3>3. QED
      BY <3>1, <3>2
  <2>2. confs' = [c \in Confs |-> confs'[c]] /\ trace' = [c \in Confs |-> trace'[c]]
    BY <1>5
  <2>3. QED
    BY <1>4, <1>5, <2>1, <2>2 DEF IInv, RowsInv, Rows
<1>16. GensInv'
  BY <1>4, <1>5 DEF IInv, GensInv
<1>17. ASSUME NEW c \in Confs PROVE FactsKept(confs'[c], vocab')
  <2>1. CASE c \in good
    BY <1>5, <1>11, <1>12, <1>13, <2>1, SameFactsKept
  <2>2. CASE c \notin good
    BY <1>5, <1>11, <1>14, <2>2
  <2>3. QED
    BY <2>1, <2>2
<1>18. ASSUME NEW c \in Confs
       PROVE  confs'[c].phase \in Vocabulary[vocab'].phases \/ trace'[c].stale
  <2>1. CASE c \in good /\ stale
    BY <1>13, <2>1
  <2>2. CASE c \in good /\ ~stale
    <3>1. seen.vocab = vocab
      BY <1>9, <2>2 DEF Snapshot
    <3>2. "Unknown" \in Vocabulary[vocab].phases
      BY PortfolioAssumption DEF IInv, RowsInv
    <3>3. QED
      BY <1>5, <1>10, <1>12, <1>13, <2>2, <3>1, <3>2
  <2>3. CASE c \notin good
    BY <1>5, <1>11, <1>14, <2>3
  <2>4. QED
    BY <2>1, <2>2, <2>3
<1>19. ASSUME NEW c \in Confs PROVE Current(c)'
  <2>1. CASE c \in good /\ stale
    BY <1>13, <2>1 DEF Current
  <2>2. CASE c \in good /\ ~stale
    <3>1. seen.vocab = vocab /\ seen.scoring = scoring /\ all = made
      BY <1>9, <2>2 DEF Snapshot
    <3>2. confs'[c] = r(c) /\ issues' = made /\ trace'[c].day = day
      BY <1>5, <1>12, <1>13, <2>2
    <3>3. Fresh(c)' = Recalculate(r(c), IssuesOf(c, all), Scoring[seen.scoring],
                                  Vocabulary[seen.vocab].phases, r(c).contact, day)
      BY <1>5, <3>1, <3>2 DEF Fresh
    <3>4. QED
      BY <1>10, <1>13, <2>2, <3>2, <3>3 DEF Current
  <2>3. CASE c \notin good
    <3>1. Fresh(c)' = Fresh(c)
      BY <1>5, <1>8, <1>14, <2>3 DEF Fresh
    <3>2. QED
      BY <1>11, <1>14, <2>3, <3>1 DEF Current
  <2>4. QED
    BY <2>1, <2>2, <2>3
<1>20. ASSUME NEW c \in Confs PROVE Computed(c)'
  <2>1. CASE c \in good /\ stale
    BY <1>13, <2>1 DEF Computed
  <2>2. CASE c \in good /\ ~stale
    <3>1. seen.scoring = scoring
      BY <1>9, <2>2 DEF Snapshot
    <3>2. confs'[c] = r(c) /\ trace'[c].day = day /\ Computable(r(c), day, Scoring[scoring])
      BY <1>10, <1>12, <1>13, <2>2, <3>1
    <3>3. QED
      BY <1>5, <3>2 DEF Computed
  <2>3. CASE c \notin good
    BY <1>5, <1>11, <1>14, <2>3 DEF Computed
  <2>4. QED
    BY <2>1, <2>2, <2>3
<1>21. IssuesOK(issues', vocab') /\ Twinless(issues')
  BY <1>5, <1>8
<1>22. QED
  BY <1>15, <1>16, <1>17, <1>18, <1>19, <1>20, <1>21 DEF IInv

-----------------------------------------------------------------------------
(* The invariant                                                           *)

\* create_conference leaves a row that a recalculation keeps in shape.
LEMMA NewConferenceIs ==
  ASSUME NEW tcs, NEW calendar \in Calendars, NEW v \in Vocabularies, offsets \in OffsetTables
  PROVE  LET x == NewConference(tcs, calendar) IN Shaped(x) /\ Dated(x) /\ WillKeep(x, v)
<1> DEFINE Due(k) == IF calendar.start = NoDate THEN NoDate ELSE DueDate(k, calendar, offsets)
           start == calendar.start
           end == calendar.end
           ms == [k \in Codes |-> [status |-> "Unknown", due |-> Due(k)]]
           x == NewConference(tcs, calendar)
<1>1. x = [tcs |-> tcs, start |-> start, end |-> end, contact |-> FALSE, ms |-> ms,
           application |-> "Unknown", mou |-> "Unknown", finance |-> "Unknown",
           publication |-> "Unknown", base |-> 0, penalty |-> 0, score |-> 0,
           completeness |-> 0, phase |-> "Unknown", status |-> "Unknown",
           band |-> "Provisional"]
  BY DEF NewConference
<1>2. ms = [k \in Codes |-> ms[k]]
  OBVIOUS
<1>3. ASSUME NEW k \in Codes
      PROVE  /\ ms[k].status = "Unknown" /\ ms[k].due \in Date
             /\ ms[k] = [status |-> ms[k].status, due |-> ms[k].due]
  <2> DEFINE due == Due(k)
  <2>1. ms[k] = [status |-> "Unknown", due |-> due]
    OBVIOUS
  <2>2. due \in Date
    <3>1. calendar.start \in Date /\ calendar.end \in Date
      BY PortfolioAssumption DEF Date
    <3>2. DueDate(k, calendar, offsets) \in Date
      BY <3>1, DueDateIs
    <3>3. QED
      BY <3>1, <3>2
  <2> HIDE DEF due, ms
  <2>3. QED
    BY <2>1, <2>2
<1> HIDE DEF ms, start, end, x
<1>4. /\ Conference(x) /\ x.ms = ms /\ x.application = "Unknown" /\ x.mou = "Unknown"
      /\ x.finance = "Unknown" /\ x.publication = "Unknown" /\ x.start = start /\ x.end = end
  BY <1>1 DEF Conference
<1>5. Milestones(ms)
  BY <1>2, <1>3 DEF Milestones
<1>6. "Unknown" \in Vocabulary[v].statuses
  BY PortfolioAssumption DEF Required
<1>7. Shaped(x)
  BY <1>4, <1>5 DEF Shaped
<1>8. WillKeep(x, v)
  BY <1>3, <1>4, <1>6 DEF WillKeep, MsKept, FinanceKept, Keeps
<1>9. Dated(x)
  <2>1. start \in Date /\ end \in Date
    BY PortfolioAssumption DEF Date, start, end
  <2>2. QED
    BY <1>3, <1>4, <2>1 DEF Dated
<1>10. QED
  BY <1>7, <1>8, <1>9 DEF x

\* The first day on which something happens.
LEMMA FirstDay ==
  ASSUME NEW S \in SUBSET Nat, S # {}
  PROVE  (CHOOSE d \in S : \A e \in S : d <= e) \in S
<1>1. PICK d \in S : \A e \in S : d <= e
  BY MinOfNaturals
<1>2. QED
  BY <1>1

\* The invariant holds of the first state.
LEMMA InitStep == Init => IInv
<1>1. SUFFICES ASSUME Init PROVE IInv
  OBVIOUS
<1> DEFINE phases == Vocabulary[vocab].phases
           r(x, c) == Recalculate(x, IssuesOf(c, issues), Scoring[scoring], phases, FALSE, day)
<1>2. PICK new \in [Confs -> {NewConference(x.tcs, x.calendar) : x \in Created}] :
        /\ \A c \in Confs : Computable(Prepared(new[c]), day, Scoring[scoring])
        /\ confs = [c \in Confs |-> r(new[c], c)]
        /\ trace = [c \in Confs |-> Seen(new[c], confs[c], FALSE)]
  BY <1>1 DEF Init, Recalculated
<1>3. /\ vocab \in Vocabularies /\ scoring \in Scorings /\ day \in Days
      /\ issues = [i \in Issues |-> NoIssue] /\ gens = [t \in Slots |-> Idle]
  BY <1>1, PortfolioAssumption, FirstDay DEF Init
<1>4. "Unknown" \in phases
  BY <1>3, PortfolioAssumption
<1> HIDE DEF phases
<1>5. ASSUME NEW c \in Confs
      PROVE  Shaped(new[c]) /\ Dated(new[c]) /\ WillKeep(new[c], vocab)
  <2>1. PICK x \in Created : new[c] = NewConference(x.tcs, x.calendar)
    BY <1>2
  <2>2. x.calendar \in Calendars /\ offsets \in OffsetTables
    BY <1>1, PortfolioAssumption DEF Init
  <2>3. QED
    BY <1>3, <2>1, <2>2, NewConferenceIs
<1>6. ASSUME NEW c \in Confs
      PROVE  /\ confs[c] = r(new[c], c) /\ trace[c] = Seen(new[c], confs[c], FALSE)
             /\ Synced(confs[c]) /\ FactsKept(confs[c], vocab) /\ confs[c].phase \in phases
             /\ Typed(confs[c]) /\ Computable(confs[c], day, Scoring[scoring])
  <2>1. confs[c] = r(new[c], c) /\ trace[c] = Seen(new[c], confs[c], FALSE)
    BY <1>2
  <2>2. /\ Synced(r(new[c], c)) /\ r(new[c], c).phase \in phases \cup {"Unknown"}
        /\ FactsKept(r(new[c], c), vocab)
    BY <1>3, <1>5, RecalculateSynced, RecalculateKeeps
  <2>3. Typed(r(new[c], c)) /\ Computable(r(new[c], c), day, Scoring[scoring])
    <3>1. ScoreSettings(Scoring[scoring]) /\ day \in Int
      BY <1>3, PortfolioAssumption
    <3>2. QED
      BY <1>2, <1>5, <3>1, IssuesFinite, RecalculateTyped
  <2> HIDE DEF r
  <2>4. QED
    BY <1>4, <2>1, <2>2, <2>3
<1>7. ASSUME NEW c \in Confs
      PROVE  Current(c) /\ Computed(c)
  <2> DEFINE again == Recalculate(confs[c], IssuesOf(c, issues), Scoring[scoring], phases,
                                  confs[c].contact, day)
             lags == Lags(new[c], confs[c], FALSE)
  <2>1. Agrees(confs[c], again, lags)
    <3>1. Agrees(r(new[c], c),
                 Recalculate(r(new[c], c), IssuesOf(c, issues), Scoring[scoring], phases,
                             r(new[c], c).contact, day),
                 Lags(new[c], r(new[c], c), FALSE))
      BY <1>5, RecalculateAgain
    <3> HIDE DEF r
    <3>2. QED
      BY <1>6, <3>1
  <2>2. trace[c].day = day /\ trace[c].lags = lags
    <3>1. trace[c] = [day |-> day, lags |-> lags, stale |-> FALSE]
      BY <1>6 DEF Seen
    <3> HIDE DEF lags
    <3>2. QED
      BY <3>1
  <2>3. Fresh(c) = again
    BY <2>2 DEF Fresh, phases
  <2>4. Computed(c)
    BY <1>6, <2>2 DEF Computed
  <2> HIDE DEF again, lags
  <2>5. QED
    BY <2>1, <2>2, <2>3, <2>4 DEF Current
<1>8. RowsInv
  <2>1. confs = [c \in Confs |-> confs[c]] /\ trace = [c \in Confs |-> trace[c]]
    BY <1>2
  <2>2. QED
    BY <1>3, <1>6, <2>1 DEF RowsInv, Rows
<1>9. GensInv
  BY <1>3 DEF GensInv
<1>10. IssuesOK(issues, vocab) /\ Twinless(issues)
  BY <1>3 DEF IssuesOK, Twinless, Twins
<1>11. QED
  BY <1>6, <1>7, <1>8, <1>9, <1>10 DEF IInv, phases

\* Every step keeps it.
LEMMA NextStep == IInv /\ [Next]_vars => IInv'
<1>1. SUFFICES ASSUME IInv, [Next]_vars PROVE IInv'
  OBVIOUS
<1>2. ASSUME NEW c \in Confs, ChangeConference(c) PROVE IInv'
  BY <1>1, <1>2, ChangeConferenceStep
<1>3. ASSUME NEW i \in Issues, ChangeIssue(i) PROVE IInv'
  BY <1>1, <1>3, ChangeIssueStep
<1>4. ASSUME ChangeSettings PROVE IInv'
  BY <1>1, <1>4, ChangeSettingsStep
<1>5. ASSUME NEW t \in Slots, BeginGenerate(t) PROVE IInv'
  BY <1>1, <1>5, BeginGenerateStep
<1>6. ASSUME NEW t \in Slots, FinishGenerate(t) PROVE IInv'
  BY <1>1, <1>6, FinishGenerateStep
<1>7. ASSUME vocab' = vocab, scoring' = scoring, confs' = confs, trace' = trace,
             issues' = issues, day' \in Days, GensInv'
      PROVE  IInv'
  BY <1>1, <1>7 DEF IInv, RowsInv, Current, Fresh, Computed
<1>8. ASSUME NEW t \in Slots, AbortGenerate(t) PROVE IInv'
  <2>1. gens' = [gens EXCEPT ![t] = Idle]
    BY <1>8 DEF AbortGenerate
  <2>2. GensInv'
    BY <1>1, <2>1 DEF IInv, GensInv
  <2>3. day' \in Days
    BY <1>1, <1>8 DEF AbortGenerate, IInv, RowsInv
  <2>4. QED
    BY <1>7, <1>8, <2>2, <2>3 DEF AbortGenerate, settings
<1>9. ASSUME NextDay \/ UNCHANGED vars PROVE IInv'
  <2>1. /\ vocab' = vocab /\ scoring' = scoring /\ confs' = confs /\ trace' = trace
        /\ issues' = issues /\ gens' = gens
    BY <1>9 DEF NextDay, vars, settings
  <2>2. GensInv'
    BY <1>1, <2>1 DEF IInv, GensInv
  <2>3. day' \in Days
    <3>1. CASE NextDay
      <4> DEFINE later == {d \in Days : d > day}
      <4>1. later \in SUBSET Nat /\ later # {} /\ later \subseteq Days
        BY <3>1, PortfolioAssumption DEF NextDay
      <4>2. PICK d \in later : \A e \in later : d <= e
        BY <4>1, MinOfNaturals
      <4>3. d \in Days /\ d > day /\ \A e \in Days : e > day => d <= e
        BY <4>2
      <4>4. QED
        BY <3>1, <4>3 DEF NextDay
    <3>2. CASE UNCHANGED vars
      BY <1>1, <3>2 DEF vars, IInv, RowsInv
    <3>3. QED
      BY <1>9, <3>1, <3>2
  <2>4. QED
    BY <1>7, <2>1, <2>2, <2>3
<1>10. QED
  BY <1>1, <1>2, <1>3, <1>4, <1>5, <1>6, <1>8, <1>9 DEF Next

\* The invariant of the specification.
LEMMA Inductive == Spec => []IInv
BY InitStep, NextStep, PTL DEF Spec

\* After any request the stored statuses, phases and severities are configured
\* ones, or what recalculate itself puts there: the clean-up of
\* enforce_reference_config leaves no removed value behind, for any vocabularies
\* and however a generation of issues overlaps it.
THEOREM VocabularyCorrect == Spec => []VocabularyKept
<1>1. ASSUME IInv PROVE VocabularyKept
  BY <1>1 DEF IInv, FactsKept, MsKept, FinanceKept, Keeps, IssuesOK, IssueKept, VocabularyKept
<1>2. QED
  BY <1>1, Inductive, PTL

\* What is stored as derived is what today's data give: every request, change
\* of the settings and generation ends with a row that recalculate would leave
\* as it is, but for the completeness and band that may lag once.
THEOREM ScoreCorrect == Spec => []ScoreCurrent
<1>1. ASSUME IInv PROVE ScoreCurrent
  BY <1>1 DEF IInv, Current, Agrees, Fresh, ScoreCurrent
<1>2. QED
  BY <1>1, Inductive, PTL

\* A generation that nothing overlapped adds no issue that its conference
\* already has open, whatever was resolved, opened again or deleted before.
THEOREM TwinsCorrect == Spec => []NoTwins
<1>1. ASSUME IInv PROVE NoTwins
  BY <1>1 DEF IInv, Twinless, Twins, NoTwins
<1>2. QED
  BY <1>1, Inductive, PTL

-----------------------------------------------------------------------------
(* What every step leaves alone                                            *)

\* A request at most is used up, and what is recalculated is of today.
Advances ==
  /\ left' = left \/ (left > 0 /\ left' = left - 1)
  /\ \A c \in Confs : trace'[c] = trace[c] \/ trace'[c].day = day

\* A request that stores rows uses up one, and traces what it recalculates today.
LEMMA StoreAdvances ==
  ASSUME NEW C, NEW d, NEW all, NEW v, NEW s, NEW contact, Store(C, d, all, v, s, contact)
  PROVE  Advances
<1>1. left > 0 /\ left' = left - 1
  BY DEF Store
<1>2. ASSUME NEW c \in Confs
      PROVE  trace'[c] = trace[c] \/ trace'[c].day = day
  <2> DEFINE seen == Seen(d[c], confs'[c], contact[c])
  <2>1. trace'[c] = seen \/ trace'[c] = trace[c]
    BY DEF Store
  <2>2. seen.day = day
    BY DEF Seen
  <2> HIDE DEF seen
  <2>3. QED
    BY <2>1, <2>2
<1>3. QED
  BY <1>1, <1>2 DEF Advances

\* So does the end of a generation.
LEMMA FinishAdvances ==
  ASSUME NEW t, FinishGenerate(t)
  PROVE  Advances
<1> DEFINE seen == gens[t].seen
           Good(answers) == {c \in gens[t].targets : answers[c] # Failed}
<1>1. PICK answers, new, id : CommitGenerated(Good(answers), new, id, seen, seen # Snapshot)
  BY DEF FinishGenerate
<1> DEFINE good == Good(answers)
           all == Made(seen.issues, new, id, seen.vocab, seen # Snapshot)
           r(c) == Recalculated(c, seen.confs, all, seen.scoring, seen.vocab,
                                seen.confs[c].contact)
           stale == seen # Snapshot
           old(c) == Seen(seen.confs[c], r(c), seen.confs[c].contact)
<1>2. trace' = [c \in Confs |-> IF c \notin good THEN trace[c]
                                ELSE [old(c) EXCEPT !.stale = stale]]
  BY <1>1 DEF CommitGenerated
<1>3. left' = left
  BY DEF FinishGenerate
<1>4. ASSUME NEW c \in Confs
      PROVE  trace'[c] = trace[c] \/ trace'[c].day = day
  <2> DEFINE lags == Lags(seen.confs[c], r(c), seen.confs[c].contact)
             x == old(c)
  <2>1. trace'[c] = trace[c] \/ trace'[c] = [x EXCEPT !.stale = stale]
    BY <1>2
  <2>2. x = [day |-> day, lags |-> lags, stale |-> FALSE]
    BY DEF Seen
  <2> HIDE DEF lags, x, stale
  <2>3. [x EXCEPT !.stale = stale].day = day
    BY <2>2
  <2>4. QED
    BY <2>1, <2>3
<1>5. QED
  BY <1>3, <1>4 DEF Advances

\* So does every step.
LEMMA StepAdvances == [Next]_vars => Advances
<1>1. SUFFICES ASSUME [Next]_vars PROVE Advances
  OBVIOUS
<1>2. ASSUME NEW c \in Confs, ChangeConference(c) PROVE Advances
  <2>1. ASSUME NEW e, NEW d, StoreConference(e, d) PROVE Advances
    BY <2>1, StoreAdvances DEF StoreConference
  <2>2. ASSUME NEW k \in Codes, NEW status \in ManualStatuses, UpdateMilestone(c, k, status)
        PROVE  Advances
    BY <2>1, <2>2 DEF UpdateMilestone
  <2>3. ASSUME CreatePrimaryContact(c) PROVE Advances
    BY <2>3, StoreAdvances DEF CreatePrimaryContact
  <2>4. ASSUME NEW calendar \in Calendars, UpdateConference(c, calendar) PROVE Advances
    BY <2>1, <2>4 DEF UpdateConference
  <2>5. ASSUME NEW status, ImportStatus(c, status) PROVE Advances
    BY <2>1, <2>5 DEF ImportStatus
  <2>6. ASSUME RefreshConference(c) PROVE Advances
    BY <2>1, <2>6 DEF RefreshConference
  <2>7. ASSUME NEW has, UpdateContact(c, has) PROVE Advances
    BY <2>1, <2>7 DEF UpdateContact
  <2>8. QED
    BY <1>2, <2>2, <2>3, <2>4, <2>5, <2>6, <2>7 DEF ChangeConference
<1>3. ASSUME NEW i \in Issues, ChangeIssue(i) PROVE Advances
  <2>1. ASSUME NEW c, NEW all, StoreIssues(c, all) PROVE Advances
    BY <2>1, StoreAdvances DEF StoreIssues
  <2>2. ASSUME NEW c \in Confs, NEW severity, CreateIssue(c, i, severity) PROVE Advances
    BY <2>1, <2>2 DEF CreateIssue
  <2>3. ASSUME UpdateIssue(i) PROVE Advances
    BY <2>1, <2>3 DEF UpdateIssue
  <2>4. ASSUME ResolveIssue(i) PROVE Advances
    BY <2>1, <2>4 DEF ResolveIssue
  <2>5. ASSUME DeleteIssue(i) PROVE Advances
    BY <2>1, <2>5 DEF DeleteIssue
  <2>6. QED
    BY <1>3, <2>2, <2>3, <2>4, <2>5 DEF ChangeIssue
<1>4. ASSUME ChangeSettings PROVE Advances
  <2>1. ASSUME NEW table, RecalculateDates(table) PROVE Advances
    BY <2>1, StoreAdvances DEF RecalculateDates
  <2>2. ASSUME NEW v, UpdateReferenceConfig(v) PROVE Advances
    BY <2>2, StoreAdvances DEF UpdateReferenceConfig
  <2>3. ASSUME NEW s, UpdateScoring(s) PROVE Advances
    BY <2>3, StoreAdvances DEF UpdateScoring
  <2>4. ASSUME RecalculateAll PROVE Advances
    BY <2>4, StoreAdvances DEF RecalculateAll
  <2>5. QED
    BY <1>4, <2>1, <2>2, <2>3, <2>4 DEF ChangeSettings
<1>5. ASSUME NEW t \in Slots, BeginGenerate(t) PROVE Advances
  BY <1>5 DEF BeginGenerate, Advances
<1>6. ASSUME NEW t \in Slots, FinishGenerate(t) PROVE Advances
  BY <1>6, FinishAdvances
<1>7. ASSUME NEW t \in Slots, AbortGenerate(t) PROVE Advances
  BY <1>7 DEF AbortGenerate, Advances
<1>8. ASSUME NextDay \/ UNCHANGED vars PROVE Advances
  BY <1>8 DEF NextDay, vars, Advances
<1>9. QED
  BY <1>1, <1>2, <1>3, <1>4, <1>5, <1>6, <1>7, <1>8 DEF Next

-----------------------------------------------------------------------------
(* The range of what is stored                                             *)

\* The score of a row is what today's data give on the day of its recalculation.
Derived(c) ==
  LET x == confs[c]
      stats == Stats(x.ms, trace[c].day)
      s == Scoring[scoring]
  IN /\ x.base = BaseScore(x.ms, x.tcs, trace[c].day, s)
     /\ x.penalty = IssuePenalty(IssuesOf(c, issues), s)
     /\ x.score = Clamped(FormulaScore(s.formula, x.base, x.penalty, stats))

DerivedInv == \A c \in Confs : ~trace[c].stale => Derived(c)

\* A current row has the columns of its own facts.
LEMMA CurrentScore ==
  ASSUME IInv, NEW c \in Confs, ~trace[c].stale
  PROVE  Derived(c)
<1> DEFINE x == confs[c]
           fresh == Fresh(c)
           s == Scoring[scoring]
<1>1. Shaped(x) /\ Prepared(x) = x
  BY Conferences, SyncedPrepared
<1>2. Agrees(x, fresh, trace[c].lags)
  BY DEF IInv, Current
<1>3. /\ Conference(fresh)
      /\ fresh.base = BaseScore(x.ms, x.tcs, trace[c].day, s)
      /\ fresh.penalty = IssuePenalty(IssuesOf(c, issues), s)
      /\ fresh.score = Clamped(FormulaScore(s.formula, fresh.base, fresh.penalty,
                                            Stats(x.ms, trace[c].day)))
  <2> DEFINE phases == Vocabulary[vocab].phases
             contact == x.contact
             all == IssuesOf(c, issues)
             today == trace[c].day
             r == Recalculate(x, all, s, phases, contact, today)
  <2>1. fresh = r
    BY DEF Fresh
  <2> HIDE DEF phases, contact, all, s, today, x, fresh
  <2>2. /\ Conference(r)
        /\ r.base = BaseScore(x.ms, x.tcs, today, s) /\ r.penalty = IssuePenalty(all, s)
        /\ r.score = Clamped(FormulaScore(s.formula, r.base, r.penalty, Stats(x.ms, today)))
    BY <1>1, RecalculateColumns
  <2> HIDE DEF r
  <2>3. QED
    BY <2>1, <2>2 DEF all, today
<1> HIDE DEF x, fresh, s
<1>4. x.base = fresh.base /\ x.penalty = fresh.penalty /\ x.score = fresh.score
  <2> DEFINE complete == x.completeness
             band == x.band
  <2>1. x = fresh \/ x = [fresh EXCEPT !.completeness = complete, !.band = band]
    BY <1>2 DEF Agrees
  <2> HIDE DEF complete, band
  <2>2. CASE x = fresh
    BY <2>2
  <2>3. CASE x = [fresh EXCEPT !.completeness = complete, !.band = band]
    BY <1>3, <2>3 DEF Conference
  <2>4. QED
    BY <2>1, <2>2, <2>3
<1>5. QED
  BY <1>3, <1>4 DEF Derived, x, s

\* So have all the current rows of a state with the invariant.
LEMMA ScoresDerived == IInv => DerivedInv
BY CurrentScore DEF DerivedInv

\* Scores and completeness are percentages in tenths and the penalty is within
\* its cap, whatever the settings view lets a user enter: no order of requests,
\* changes of the settings and overlapping generations stores a number out of
\* range, and no recalculation is committed that divides by zero.
THEOREM TypeCorrect == Spec => []TypeOK
<1> DEFINE Left == left \in 0 .. MaxRequests
<1>1. MaxRequests \in Nat
  BY PortfolioAssumption
<1>2. Spec => []Left
  <2>1. Init => Left
    BY <1>1 DEF Init
  <2>2. Left /\ [Next]_vars => Left'
    BY <1>1, StepAdvances DEF Advances
  <2> HIDE DEF Left
  <2>3. QED
    BY <2>1, <2>2, PTL DEF Spec
<1>3. ASSUME IInv, Left
      PROVE  TypeOK
  <2>1. ASSUME NEW c \in Confs
        PROVE  /\ confs[c].base \in 0 .. 1000 /\ confs[c].score \in 0 .. 1000
               /\ confs[c].completeness \in 0 .. 1000
               /\ confs[c].penalty \in 0 .. 100 * Scoring[scoring].penalty_cap \/ trace[c].stale
               /\ \A k \in Codes : confs[c].ms[k].due = NoDate \/ confs[c].ms[k].due \in Int
    <3> DEFINE x == confs[c]
               s == Scoring[scoring]
    <3>1. Typed(x)
      BY <1>3, Conferences
    <3>2. ASSUME ~trace[c].stale
          PROVE  x.penalty \in 0 .. 100 * s.penalty_cap
      <4>1. x.penalty = IssuePenalty(IssuesOf(c, issues), s)
        BY <1>3, <3>2, CurrentScore DEF Derived
      <4>2. ScoreSettings(s)
        BY <1>3, PortfolioAssumption DEF IInv, RowsInv
      <4>3. IssuePenalty(IssuesOf(c, issues), s) \in 0 .. 100 * s.penalty_cap
        BY <4>2, IssuesFinite, IssuePenaltyRange
      <4>4. QED
        BY <4>1, <4>3
    <3> HIDE DEF x, s
    <3>3. x.base \in 0 .. 1000 /\ x.score \in 0 .. 1000 /\ x.completeness \in 0 .. 1000
      BY <3>1 DEF Typed
    <3>4. \A k \in Codes : x.ms[k].due = NoDate \/ x.ms[k].due \in Int
      BY <3>1 DEF Typed, Dated, Date
    <3>5. QED
      BY <3>2, <3>3, <3>4 DEF x, s
  <2>2. \A i \in Issues : issues[i] = NoIssue \/ issues[i].conf \in Confs
    BY <1>3 DEF IInv, IssuesOK, Issue
  <2>3. day \in Days /\ vocab \in Vocabularies /\ scoring \in Scorings
    BY <1>3 DEF IInv, RowsInv
  <2>4. left \in 0 .. MaxRequests
    BY <1>3
  <2>5. QED
    BY <2>1, <2>2, <2>3, <2>4, Zenon DEF TypeOK
<1> HIDE DEF Left
<1>4. QED
  BY <1>2, <1>3, Inductive, PTL

-----------------------------------------------------------------------------
(* Finishing milestones                                                    *)

\* The milestones new are ms, but for some that are settled in their place.
Settles(ms, new) ==
  \A k \in Codes :
    new[k] = ms[k] \/ (new[k].due = ms[k].due /\ Normal(new[k].status) \in Settled)

\* A settled milestone counts, with the points of a completed one.
LEMMA SettledStatus ==
  ASSUME NEW m, Normal(m.status) \in Settled, NEW today, NEW points
  PROVE  /\ Scored(m) /\ Normal(m.status) \notin Ignored
         /\ MilestoneScore(m, today, points) = points.completed
<1> DEFINE status == Normal(m.status)
<1>1. status \in Settled
  OBVIOUS
<1>2. status # "Unknown" /\ status \notin Ignored /\ Scored(m)
  BY <1>1 DEF Settled, Ignored, Scored
<1>3. MilestoneScore(m, today, points) = points.completed
  <2> HIDE DEF status
  <2>1. QED
    BY <1>1, <1>2 DEF MilestoneScore, Settled, Awaiting, Blocking, status
<1>4. QED
  BY <1>2, <1>3

\* An effective weight is read from the due date alone.
LEMMA WeightOfDue ==
  ASSUME NEW m, NEW n, m.due = n.due, NEW k, NEW today, NEW s
  PROVE  EffectiveWeight(m, k, today, s) = EffectiveWeight(n, k, today, s)
BY DEF EffectiveWeight, Overdue

\* The finance milestones of a technically co-sponsored conference do not count
\* whether they are left out or not.
LEMMA SyncedCounted ==
  ASSUME NEW x, Synced(x)
  PROVE  Counted(x.ms, x.tcs) = Counted(x.ms, FALSE)
<1>1. \A m : m.status = "Not Applicable" => ~Scored(m)
  <2>1. 13 \in DOMAIN Priority /\ Priority[13] = "Not Applicable"
    BY DEF Priority
  <2>2. "Not Applicable" \in Statuses
    BY <2>1 DEF Statuses
  <2>3. Normal("Not Applicable") = "Not Applicable"
    BY <2>2 DEF Normal
  <2>4. QED
    BY <2>3 DEF Scored, Settled, Awaiting, Blocking
<1>2. ASSUME NEW k \in Codes, Scored(x.ms[k])
      PROVE  ~(x.tcs /\ k \in FinanceCodes)
  BY <1>1, <1>2 DEF Synced
<1>3. QED
  BY <1>2 DEF Counted

\* A settled milestone counts with its whole weight, so it draws the average
\* towards the points of a finished one, which are the most there are.
LEMMA SettlingBase ==
  ASSUME NEW ms, \A k \in Codes : ms[k].due \in Date,
         NEW new, \A k \in Codes : new[k].due \in Date, Settles(ms, new),
         NEW today \in Int, NEW s, ScoreSettings(s),
         PointsWithin(s.points, s.points.completed)
  PROVE  BaseScore(ms, FALSE, today, s) <= BaseScore(new, FALSE, today, s)
<1> DEFINE best == s.points.completed
           counted == Counted(ms, FALSE)
           after == Counted(new, FALSE)
           W(m, k) == EffectiveWeight(m[k], k, today, s)
           S(m, k) == MilestoneScore(m[k], today, s.points)
           w == Weights(ms, FALSE, today, s)
           p == Points(ms, FALSE, today, s)
           v == Weights(new, FALSE, today, s)
           q == Points(new, FALSE, today, s)
<1>1. best \in Nat
  BY DEF ScoreSettings, PointsWithin
<1>2. /\ w \in [Codes -> Nat] /\ p \in [Codes -> Nat] /\ \A k \in Codes : p[k] <= best * w[k]
      /\ BaseScore(ms, FALSE, today, s) = Tenths(Total(p), Total(w))
  BY <1>1, WeightsAndPoints
<1>3. /\ v \in [Codes -> Nat] /\ q \in [Codes -> Nat] /\ \A k \in Codes : q[k] <= best * v[k]
      /\ BaseScore(new, FALSE, today, s) = Tenths(Total(q), Total(v))
  BY <1>1, WeightsAndPoints
<1>4. ASSUME NEW k \in Codes
      PROVE  /\ w[k] = IF k \in counted THEN W(ms, k) ELSE 0
             /\ p[k] = IF k \in counted THEN W(ms, k) * S(ms, k) ELSE 0
             /\ v[k] = IF k \in after THEN W(new, k) ELSE 0
             /\ q[k] = IF k \in after THEN W(new, k) * S(new, k) ELSE 0
  BY DEF Weights, Points
<1>5. ASSUME NEW k \in Codes, new[k] = ms[k]
      PROVE  (k \in counted <=> k \in after) /\ W(new, k) = W(ms, k) /\ S(new, k) = S(ms, k)
  BY <1>5 DEF Counted
<1>6. ASSUME NEW k \in Codes, new[k].due = ms[k].due, Normal(new[k].status) \in Settled
      PROVE  k \in after /\ W(new, k) = W(ms, k) /\ S(new, k) = best
  BY <1>6, SettledStatus, WeightOfDue DEF Counted
<1> HIDE DEF counted, after, W, S, w, p, v, q, best
<1>7. ASSUME NEW k \in Codes
      PROVE  w[k] <= v[k] /\ p[k] + best * v[k] <= q[k] + best * w[k]
  <2>1. /\ w[k] \in Nat /\ v[k] \in Nat /\ p[k] \in Nat /\ q[k] \in Nat /\ p[k] <= best * w[k]
        /\ best * w[k] \in Nat /\ best * v[k] \in Nat
    BY <1>1, <1>2, <1>3
  <2>2. CASE new[k] = ms[k]
    <3>1. w[k] = v[k] /\ p[k] = q[k]
      BY <1>4, <1>5, <2>2
    <3>2. QED
      BY <2>1, <3>1
  <2>3. CASE new[k].due = ms[k].due /\ Normal(new[k].status) \in Settled
    <3>1. k \in after /\ W(new, k) = W(ms, k) /\ S(new, k) = best
      BY <1>6, <2>3
    <3>2. v[k] = W(ms, k) /\ q[k] = W(ms, k) * best
      BY <1>4, <3>1
    <3>3. q[k] = best * v[k]
      BY <1>1, <2>1, <3>2
    <3>4. w[k] = v[k] \/ (w[k] = 0 /\ p[k] = 0)
      BY <1>4, <3>2
    <3>5. CASE w[k] = v[k]
      BY <2>1, <3>3, <3>5
    <3>6. CASE w[k] = 0 /\ p[k] = 0
      <4>1. best * w[k] = 0
        BY <1>1, <3>6
      <4>2. QED
        BY <2>1, <3>3, <3>6, <4>1
    <3>7. QED
      BY <3>4, <3>5, <3>6
  <2>4. QED
    BY <2>2, <2>3 DEF Settles
<1>8. /\ w \in [Codes -> Int] /\ p \in [Codes -> Int]
      /\ v \in [Codes -> Int] /\ q \in [Codes -> Int]
  BY <1>2, <1>3
<1>9. Total(w) \in Nat /\ Total(p) \in Nat /\ Total(p) <= best * Total(w)
  BY <1>1, <1>2, TotalRange
<1>10. Total(v) \in Nat /\ Total(q) \in Nat
  BY <1>1, <1>3, TotalRange
<1>11. Total(p) + best * Total(v) <= Total(q) + best * Total(w)
  <2>1. \A k \in Codes : p[k] + best * v[k] <= q[k] + best * w[k]
    BY <1>7
  <2>2. best \in Int
    BY <1>1
  <2>3. QED
    BY <1>8, <2>1, <2>2, TotalLinear
<1>12. Total(w) <= Total(v)
  BY <1>7, <1>8, TotalGrows
<1>13. Tenths(Total(p), Total(w)) <= Tenths(Total(q), Total(v))
  BY <1>1, <1>9, <1>10, <1>11, <1>12, TenthsGrow
<1>14. QED
  BY <1>2, <1>3, <1>13

\* Settling counts a milestone among the finished ones, and among all when it
\* was left out, so the share of the finished ones grows.
LEMMA SettlingShare ==
  ASSUME NEW ms, NEW new, Settles(ms, new), NEW today, Stats(ms, today).total # {}
  PROVE  LET old == Stats(ms, today)
             stats == Stats(new, today)
         IN (10000 * Cardinality(old.completed)) \div Cardinality(old.total)
            <= (10000 * Cardinality(stats.completed)) \div Cardinality(stats.total)
<1> DEFINE A == Stats(ms, today).completed
           B == Stats(ms, today).total
           C == Stats(new, today).completed
           D == Stats(new, today).total
           a == Cardinality(A)
           b == Cardinality(B)
           c == Cardinality(C)
           d == Cardinality(D)
<1>1. /\ B = {k \in Codes : Normal(ms[k].status) \notin Ignored}
      /\ A = {k \in B : Normal(ms[k].status) \in Settled}
      /\ D = {k \in Codes : Normal(new[k].status) \notin Ignored}
      /\ C = {k \in D : Normal(new[k].status) \in Settled}
  BY DEF Stats
<1>2. B # {}
  OBVIOUS
<1> HIDE DEF A, B, C, D
<1>3. Settled \cap Ignored = {}
  BY DEF Settled, Ignored
<1>4. A \subseteq B /\ A \subseteq C /\ B \subseteq D /\ C \subseteq D /\ D \ B \subseteq C \ A
  BY <1>1, <1>3 DEF Settles
<1>5. IsFiniteSet(D) /\ IsFiniteSet(C) /\ IsFiniteSet(B) /\ IsFiniteSet(A)
  <2>1. D \subseteq Codes
    BY <1>1
  <2>2. IsFiniteSet(D)
    BY <2>1, CodesFinite, FS_Subset
  <2>3. QED
    BY <1>4, <2>2, FS_Subset
<1>6. a \in Nat /\ b \in Nat /\ c \in Nat /\ d \in Nat /\ b # 0 /\ a <= b /\ b <= d
  BY <1>2, <1>4, <1>5, FS_CardinalityType, FS_Subset, FS_EmptySet
<1>7. Cardinality(D \ B) = d - b /\ Cardinality(C \ A) = c - a
  <2>1. D \cap B = B /\ C \cap A = A
    BY <1>4
  <2>2. Cardinality(D \ B) = Cardinality(D) - Cardinality(D \cap B)
    BY <1>5, FS_Difference
  <2>3. Cardinality(C \ A) = Cardinality(C) - Cardinality(C \cap A)
    BY <1>5, FS_Difference
  <2>4. QED
    BY <2>1, <2>2, <2>3
<1>8. Cardinality(D \ B) <= Cardinality(C \ A)
  <2>1. IsFiniteSet(C \ A)
    BY <1>5, FS_Difference
  <2>2. QED
    BY <1>4, <2>1, FS_Subset
<1> HIDE DEF a, b, c, d
<1>9. (10000 * a) * d <= (10000 * c) * b
  <2> DEFINE x == d - b
  <2>1. x \in Nat /\ d = b + x /\ a + x <= c
    BY <1>6, <1>7, <1>8
  <2> HIDE DEF x
  <2>2. a * x <= b * x
    BY <1>6, <2>1
  <2>3. (a + x) * b <= c * b
    BY <1>6, <2>1
  <2>4. a * d = a * b + a * x /\ (a + x) * b = a * b + b * x
    BY <1>6, <2>1
  <2>5. /\ a * d \in Int /\ a * b \in Int /\ a * x \in Int /\ b * x \in Int /\ c * b \in Int
        /\ (a + x) * b \in Int
    BY <1>6, <2>1
  <2>6. a * d <= c * b
    BY <2>2, <2>3, <2>4, <2>5
  <2>7. (10000 * a) * d = 10000 * (a * d) /\ (10000 * c) * b = 10000 * (c * b)
    BY <1>6
  <2>8. QED
    BY <2>5, <2>6, <2>7
<1> DEFINE n == 10000 * a
           m == 10000 * c
<1>10. n \in Int /\ m \in Int /\ b \in Nat \ {0} /\ d \in Nat \ {0} /\ n * d <= m * b
  BY <1>6, <1>9
<1> HIDE DEF n, m
<1>11. n \div b <= m \div d
  BY <1>10, DivisionGrows
<1>12. QED
  BY <1>11 DEF a, b, c, d, n, m, A, B, C, D

\* Finishing milestones costs no conference anything, for any milestones,
\* weights, lateness and formula, as long as no milestone scores more than a
\* finished one; a late one that is finished keeps the weight it gained.
THEOREM SettlingCorrect == Spec => SettlingHelps
<1> DEFINE s == Scoring[scoring]
           Best == PointsWithin(s.points, s.points.completed)
           Helps(c) == confs'[c].base >= confs[c].base /\ confs'[c].score >= confs[c].score
<1>1. ASSUME IInv, IInv', DerivedInv, DerivedInv', [Next]_vars,
             NEW c \in Confs, OnlySettles(c), Best
      PROVE  Helps(c)
  <2> DEFINE x == confs[c]
             y == confs'[c]
             penalty == IssuePenalty(IssuesOf(c, issues), s)
             before == FormulaScore(s.formula, x.base, penalty, Stats(x.ms, day))
             after == FormulaScore(s.formula, y.base, penalty, Stats(y.ms, day))
  <2>1. /\ day = trace[c].day /\ day' = day /\ scoring' = scoring /\ issues' = issues
        /\ ~trace[c].stale /\ ~trace'[c].stale /\ Settles(x.ms, y.ms)
    BY <1>1 DEF OnlySettles, Settles
  <2>2. trace'[c].day = day
    BY <1>1, <2>1, StepAdvances DEF Advances
  <2>3. x.base = BaseScore(x.ms, x.tcs, day, s) /\ x.penalty = penalty /\ x.score = Clamped(before)
    BY <1>1, <2>1 DEF DerivedInv, Derived
  <2>4. y.base = BaseScore(y.ms, y.tcs, day, s) /\ y.penalty = penalty /\ y.score = Clamped(after)
    BY <1>1, <2>1, <2>2 DEF DerivedInv, Derived
  <2>5. Synced(x) /\ Typed(x) /\ Synced(y) /\ Typed(y)
    BY <1>1 DEF IInv, RowsInv, Rows
  <2>6. Computable(x, day, s)
    BY <1>1, <2>1 DEF IInv, Computed
  <2>7. ScoreSettings(s) /\ day \in Int
    BY <1>1, PortfolioAssumption DEF IInv, RowsInv
  <2>8. penalty \in Int
    <3>1. penalty \in 0 .. 100 * s.penalty_cap
      BY <2>7, IssuesFinite, IssuePenaltyRange
    <3>2. QED
      BY <2>7, <3>1 DEF ScoreSettings
  <2>9. Best
    BY <1>1
  <2> HIDE DEF x, y, s, penalty
  <2>10. x.base <= y.base
    <3>1. Counted(x.ms, x.tcs) = Counted(x.ms, FALSE) /\ Counted(y.ms, y.tcs) = Counted(y.ms, FALSE)
      BY <2>5, SyncedCounted
    <3>2. x.base = BaseScore(x.ms, FALSE, day, s) /\ y.base = BaseScore(y.ms, FALSE, day, s)
      BY <2>3, <2>4, <3>1 DEF BaseScore
    <3>3. \A k \in Codes : x.ms[k].due \in Date
      BY <2>5 DEF Typed, Dated
    <3>4. \A k \in Codes : y.ms[k].due \in Date
      BY <2>5 DEF Typed, Dated
    <3>5. BaseScore(x.ms, FALSE, day, s) <= BaseScore(y.ms, FALSE, day, s)
      BY <2>1, <2>7, <2>9, <3>3, <3>4, SettlingBase
    <3>6. QED
      BY <3>2, <3>5
  <2>11. x.base \in Int /\ y.base \in Int /\ x.score \in Int /\ y.score \in Int
    <3>1. x.base \in 0 .. 1000 /\ x.score \in 0 .. 1000
      BY <2>5 DEF Typed
    <3>2. y.base \in 0 .. 1000 /\ y.score \in 0 .. 1000
      BY <2>5 DEF Typed
    <3> DEFINE range == 0 .. 1000
    <3>3. \A n \in range : n \in Int
      OBVIOUS
    <3>4. x.base \in range /\ y.base \in range /\ x.score \in range /\ y.score \in range
      BY <3>1, <3>2
    <3> HIDE DEF range
    <3>5. QED
      BY <3>3, <3>4
  <2>12. before \in Int /\ after \in Int /\ before <= after
    <3>1. CASE s.formula = "weighted"
      BY <2>8, <2>10, <2>11, <3>1 DEF FormulaScore
    <3>2. CASE s.formula = "completed"
      <4> DEFINE old == Stats(x.ms, day)
                 stats == Stats(y.ms, day)
                 a == (10000 * Cardinality(old.completed)) \div Cardinality(old.total)
                 b == (10000 * Cardinality(stats.completed)) \div Cardinality(stats.total)
      <4>1. old.total # {}
        BY <2>6, <3>2 DEF Computable
      <4>2. a <= b
        BY <2>1, <4>1, SettlingShare
      <4>3. stats.total # {}
        BY <2>1, <4>1 DEF Settles, Stats, Settled, Ignored
      <4>4. before = a - penalty /\ after = b - penalty
        BY <3>2 DEF FormulaScore
      <4>5. Cardinality(old.completed) \in Nat /\ Cardinality(old.total) \in Nat \ {0}
        BY <4>1, TotalOf
      <4>6. Cardinality(stats.completed) \in Nat /\ Cardinality(stats.total) \in Nat \ {0}
        BY <4>3, TotalOf
      <4>7. a \in Int /\ b \in Int
        <5> HIDE DEF old, stats
        <5>1. QED
          BY <4>5, <4>6
      <4> HIDE DEF a, b
      <4>8. QED
        BY <2>8, <4>2, <4>4, <4>7
    <3>3. QED
      BY <2>7, <3>1, <3>2 DEF ScoreSettings
  <2> HIDE DEF before, after
  <2>13. x.score <= y.score
    BY <2>3, <2>4, <2>12, ClampedGrows
  <2>14. QED
    BY <2>10, <2>11, <2>13 DEF x, y
<1>2. ASSUME IInv, IInv', DerivedInv, DerivedInv', [Next]_vars
      PROVE  [\A c \in Confs : OnlySettles(c) /\ Best => Helps(c)]_vars
  BY <1>1, <1>2
<1>3. QED
  BY <1>2, Inductive, ScoresDerived, PTL DEF Spec, SettlingHelps
=============================================================================
