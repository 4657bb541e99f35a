------------------------------ MODULE Portfolio ------------------------------
(***************************************************************************)
(* Scores, issues, the configured vocabulary and the score settings of     *)
(* app/dashboard.py.  Whatever a request changes, it ends by recalculating *)
(* the conferences it concerns, and commits; most requests are short and   *)
(* modelled as one step (how they overlap is ConferenceRecords' subject).  *)
(* The generation of issues waits for a language model, a minute at times: *)
(* it computes from the snapshot of its first SELECT and writes what then  *)
(* differs from it (MariaDB, REPEATABLE READ), while others commit.        *)
(***************************************************************************)
EXTENDS ScoreRules

CONSTANTS
  Confs, Issues,      \* ids
  NoIssue, Idle,      \* an id without a row, a slot without a request
  Slots,              \* generations that may run at the same time
  Answers,            \* what the model may answer: sets of
                      \* [title, severity, assessment]
  Failed,             \* it fails, or answers what cannot be read
  ManualStatuses,     \* milestone statuses a user chooses
  ManualSeverities,   \* issue severities a user chooses
  Vocabulary,         \* named configurations: [phases, statuses, severities]
  Scoring,            \* named score settings
  OffsetTables,       \* due dates: [anchor, days] of each code
  Calendars,          \* dates of a conference: [start, end]
  Created,            \* the conferences created before: [tcs, calendar]
  Days,               \* bound: the days on which something happens
  MaxRequests         \* bound: requests

\* seed_configuration stores the ones named default.
Vocabularies == DOMAIN Vocabulary
Scorings == DOMAIN Scoring

Required == {"Unknown", "Open", "Resolved", "Closed", "Complete", "Approved"}

\* sanitize_reference_config: what every configuration contains; the columns
\* and forms that dates and offsets come from.
ASSUME PortfolioAssumption ==
  /\ \A v \in Vocabularies :
       /\ Required \subseteq Vocabulary[v].statuses
       /\ "Unknown" \in Vocabulary[v].phases \cap Vocabulary[v].severities
  /\ "default" \in Vocabularies \cap Scorings
  /\ \A s \in Scorings : ScoreSettings(Scoring[s])
  /\ \A calendar \in Calendars : {calendar.start, calendar.end} \subseteq Int \cup {NoDate}
  /\ \A table \in OffsetTables, k \in Codes : table[k].days \in Int
  /\ \A new \in Created : new.calendar \in Calendars
  /\ \A answer \in Answers : \A x, y \in answer : x.title = y.title => x = y
  /\ IsFiniteSet(Issues) /\ Days \subseteq Nat /\ Days # {} /\ MaxRequests \in Nat

VARIABLES
  day,                      \* today
  vocab, scoring, offsets,  \* dashboard_settings
  confs,                    \* the conferences with their milestones
  issues,                   \* the issues
  gens,                     \* the generations in progress
  trace,                    \* of each conference: the day of its last
                            \* recalculation and what that one could not see
  left                      \* requests left

settings == <<vocab, scoring, offsets>>
vars == <<day, settings, confs, issues, gens, trace, left>>

IssuesOf(c, all) ==
  [i \in {j \in Issues : all[j] # NoIssue /\ all[j].conf = c} |-> all[i]]

\* milestone_due_date.
DueDate(k, calendar, table) ==
  LET anchor == IF calendar.start = NoDate \/ (table[k].anchor = "end" /\ calendar.end # NoDate)
                THEN calendar.end ELSE calendar.start
  IN IF anchor = NoDate THEN NoDate ELSE anchor + table[k].days

\* A conference as create_conference leaves it to recalculate; ensure_milestones
\* gives it milestones, with due dates when it has a start.
NewConference(tcs, calendar) ==
  [tcs |-> tcs, start |-> calendar.start, end |-> calendar.end, contact |-> FALSE,
   ms |-> [k \in Codes |->
            [status |-> "Unknown",
             due |-> IF calendar.start = NoDate THEN NoDate ELSE DueDate(k, calendar, offsets)]],
   application |-> "Unknown", mou |-> "Unknown", finance |-> "Unknown",
   publication |-> "Unknown", base |-> 0, penalty |-> 0, score |-> 0,
   completeness |-> 0, phase |-> "Unknown", status |-> "Unknown", band |-> "Provisional"]

Recalculated(c, d, all, s, v, contact) ==
  Recalculate(d[c], IssuesOf(c, all), Scoring[s], Vocabulary[v].phases, contact, day)

\* The completeness misses a phase that was derived, or lost, after it.
Lags(before, after, contact) ==
  (before.phase = "Unknown") # (after.phase = "Unknown") \/ contact # after.contact

Seen(before, after, contact) ==
  [day |-> day, lags |-> Lags(before, after, contact), stale |-> FALSE]

Init ==
  /\ day = CHOOSE d \in Days : \A e \in Days : d <= e
  /\ vocab = "default" /\ scoring = "default" /\ offsets \in OffsetTables
  /\ issues = [i \in Issues |-> NoIssue]
  /\ gens = [t \in Slots |-> Idle]
  /\ left = MaxRequests
  /\ \E new \in [Confs -> {NewConference(x.tcs, x.calendar) : x \in Created}] :
       /\ \A c \in Confs : Computable(Prepared(new[c]), day, Scoring[scoring])
       /\ confs = [c \in Confs |-> Recalculated(c, new, issues, scoring, vocab, FALSE)]
       /\ trace = [c \in Confs |-> Seen(new[c], confs[c], FALSE)]

-----------------------------------------------------------------------------
(* Requests                                                                *)

Configured(value, values) == IF value \in values THEN value ELSE "Unknown"

\* What every request ends with: the conferences of C are recalculated from
\* the rows d and all, and everything is committed.  A division by zero in one
\* of them is answered by 500 and nothing is kept.
Store(C, d, all, v, s, contact) ==
  /\ left > 0 /\ left' = left - 1
  /\ \A c \in C : Computable(Prepared(d[c]), day, Scoring[s])
  /\ confs' = [c \in Confs |->
       IF c \in C THEN Recalculated(c, d, all, s, v, contact[c]) ELSE d[c]]
  /\ trace' = [c \in Confs |->
       IF c \in C THEN Seen(d[c], confs'[c], contact[c]) ELSE trace[c]]
  /\ issues' = all /\ vocab' = v /\ scoring' = s
  /\ UNCHANGED <<day, gens>>

Contacts(d) == [c \in Confs |-> d[c].contact]
StoreConference(c, d) ==
  Store({c}, d, issues, vocab, scoring, Contacts(d)) /\ UNCHANGED offsets
StoreIssues(c, all) ==
  Store({c}, confs, all, vocab, scoring, Contacts(confs)) /\ UNCHANGED offsets

\* update_conference_milestone: a status from the vocabulary, and the due date
\* kept or cleared.
UpdateMilestone(c, k, status) ==
  \E due \in {confs[c].ms[k].due, NoDate} :
    StoreConference(c, [confs EXCEPT ![c].ms[k] =
      [status |-> Configured(status, Vocabulary[vocab].statuses), due |-> due]])

\* update_conference: other dates, which leave the due dates as they are.  (The
\* change of the sponsorship is in ConferenceRecords.)
UpdateConference(c, calendar) ==
  StoreConference(c, [confs EXCEPT ![c].start = calendar.start, ![c].end = calendar.end])

\* apply_import of a conference status; it is derived anew at once, but for
\* Cancelled, which stays until another import.
ImportStatus(c, status) ==
  StoreConference(c, [confs EXCEPT ![c].status = Configured(status, Vocabulary[vocab].statuses)])

\* refresh_conference.
RefreshConference(c) == StoreConference(c, confs)

\* create_contact, update_contact, delete_contact: whether one has an address.
UpdateContact(c, has) ==
  StoreConference(c, [confs EXCEPT ![c].contact = has])

\* create_contact of a primary contact goes through the contacts first, and
\* the completeness is taken from the list it loaded then.
CreatePrimaryContact(c) ==
  LET d == [confs EXCEPT ![c].contact = TRUE] IN
  /\ Store({c}, d, issues, vocab, scoring, Contacts(confs))
  /\ UNCHANGED offsets

Free == {i \in Issues : issues[i] = NoIssue}

NewIssue(c, title, severity, assessment, stray) ==
  [conf |-> c, title |-> title, severity |-> severity, status |-> "Open",
   assessment |-> assessment, active |-> TRUE, stray |-> stray]

CreateIssue(c, i, severity) ==
  /\ i \in Free
  /\ StoreIssues(c, [issues EXCEPT ![i] =
       NewIssue(c, "manual", Configured(severity, Vocabulary[vocab].severities),
                "Unreviewed", "no")])

Settling(issue) == issue.status = "Resolved" \/ issue.assessment = "Not an Issue"

Changes(issue) ==
  {[issue EXCEPT !.status = x] : x \in {"Open", "Resolved"}}
  \cup {[issue EXCEPT !.assessment = x] : x \in {"On Track", "Not an Issue"}}

\* NoTwins: an issue that is opened again is active again.
UpdateIssueReactivates(i) ==
  /\ issues[i] # NoIssue
  /\ \E new \in Changes(issues[i]) :
       StoreIssues(issues[i].conf, [issues EXCEPT ![i] = [new EXCEPT !.active = ~Settling(new)]])

\* update_issue closes what is settled; what is opened again stays inactive.
UpdateIssue(i) ==
  /\ issues[i] # NoIssue
  /\ \E new \in Changes(issues[i]) :
       StoreIssues(issues[i].conf,
         [issues EXCEPT ![i] = [new EXCEPT !.active = @ /\ ~Settling(new)]])

ResolveIssue(i) ==
  /\ issues[i] # NoIssue
  /\ StoreIssues(issues[i].conf,
       [issues EXCEPT ![i].status = "Resolved", ![i].assessment = "Not an Issue",
                      ![i].active = FALSE])

\* ScoreCurrent: the penalty of a deleted issue is still counted.
DeleteIssueUnseen(i) ==
  /\ issues[i] # NoIssue /\ left > 0 /\ left' = left - 1
  /\ issues' = [issues EXCEPT ![i] = NoIssue]
  /\ UNCHANGED <<day, settings, confs, gens, trace>>

DeleteIssue(i) ==
  issues[i] # NoIssue /\ StoreIssues(issues[i].conf, [issues EXCEPT ![i] = NoIssue])

-----------------------------------------------------------------------------
(* Settings                                                                *)

\* update_settings: the score settings, and every score with them.
UpdateScoring(s) ==
  Store(Confs, confs, issues, vocab, s, Contacts(confs)) /\ UNCHANGED offsets

\* recalculate_all_scores and refresh_all_conference_facts.
RecalculateAll ==
  Store(Confs, confs, issues, vocab, scoring, Contacts(confs)) /\ UNCHANGED offsets

\* recalculate_all_milestone_dates: a date that cannot be derived is kept.
RecalculateDates(table) ==
  LET Due(c, k) == DueDate(k, [start |-> confs[c].start, end |-> confs[c].end], table)
      d == [c \in Confs |->
             [confs[c] EXCEPT !.ms =
               [k \in Codes |-> IF Due(c, k) = NoDate THEN @[k]
                                ELSE [@[k] EXCEPT !.due = Due(c, k)]]]]
  IN Store(Confs, d, issues, vocab, scoring, Contacts(d)) /\ offsets' = table

CleanConference(conf, v) ==
  LET Kept(value) == Configured(value, Vocabulary[v].statuses)
  IN [conf EXCEPT !.phase = Configured(@, Vocabulary[v].phases),
        !.application = Kept(@), !.mou = Kept(@), !.finance = Kept(@), !.publication = Kept(@)]

CleanMilestones(conf, v) ==
  LET Clean(m) == [m EXCEPT !.status = Configured(@, Vocabulary[v].statuses)]
  IN [conf EXCEPT !.ms = [k \in Codes |-> Clean(conf.ms[k])]]

CleanIssues(v) ==
  [i \in Issues |->
    IF issues[i] = NoIssue THEN NoIssue
    ELSE [issues[i] EXCEPT !.severity = Configured(@, Vocabulary[v].severities),
                           !.status = Configured(@, Vocabulary[v].statuses),
                           !.stray = IF @ = "no" THEN @ ELSE "cleaned"]]

\* VocabularyKept: the milestones are cleaned after the last recalculation of
\* the conferences that had something to clean themselves.
CleanInOnePass(v) ==
  LET touched == {c \in Confs : CleanConference(confs[c], v) # confs[c]}
      d == [c \in Confs |-> CleanConference(confs[c], v)]
  IN /\ Store(touched, d, CleanIssues(v), v, scoring, Contacts(d))
     /\ UNCHANGED offsets

\* update_reference_config, enforce_reference_config: a conference with a fact
\* outside of the new vocabulary is cleaned and recalculated from its old
\* milestones, then the milestones and issues are cleaned, then every
\* conference is recalculated.
UpdateReferenceConfig(v) ==
  LET clean   == [c \in Confs |-> CleanConference(confs[c], v)]
      touched == {c \in Confs : clean[c] # confs[c]}
      first   == [c \in Confs |->
                   IF c \in touched
                     THEN Recalculated(c, clean, issues, scoring, v, clean[c].contact)
                     ELSE confs[c]]
      second  == [c \in Confs |-> CleanMilestones(first[c], v)]
  IN /\ \A c \in touched : Computable(Prepared(clean[c]), day, Scoring[scoring])
     /\ Store(Confs, second, CleanIssues(v), v, scoring, Contacts(second))
     /\ UNCHANGED offsets

-----------------------------------------------------------------------------
(* Generated issues                                                        *)

Snapshot == [confs |-> confs, issues |-> issues, vocab |-> vocab, scoring |-> scoring]

WatchList == {c \in Confs : confs[c].status \in {"Attention Needed", "At Risk"}}

\* generate_conference_issues of one conference, generate_watchlist_issues of
\* those that need attention.
BeginGenerate(t) ==
  /\ gens[t] = Idle /\ left > 0 /\ left' = left - 1
  /\ \E targets \in {{c} : c \in Confs} \cup {WatchList} :
       /\ targets # {}
       /\ gens' = [gens EXCEPT ![t] = [targets |-> targets, seen |-> Snapshot]]
  /\ UNCHANGED <<day, settings, confs, issues, trace>>

\* An attribute that a request left as it had loaded it is not written.
Merged(seen, new, stored) ==
  [f \in DOMAIN stored |->
    IF f = "ms"
      THEN [k \in Codes |-> [g \in {"status", "due"} |->
             IF new.ms[k][g] # seen.ms[k][g] THEN new.ms[k][g] ELSE stored.ms[k][g]]]
      ELSE IF new[f] # seen[f] THEN new[f] ELSE stored[f]]

\* What is new: the titles no active issue of the conference had.
Additions(c, answer, seen) ==
  {<<c, item>> : item \in {x \in answer :
    ~\E i \in Issues : seen.issues[i] # NoIssue /\ seen.issues[i].conf = c
                       /\ seen.issues[i].active /\ seen.issues[i].title = x.title}}

New(good, answers, seen) == UNION {Additions(c, answers[c], seen) : c \in good}

\* parse_generated_issues takes Medium for a severity that is not configured.
AnsweredSeverity(item, v) ==
  LET severities == Vocabulary[v].severities
  IN IF item.severity \in severities THEN item.severity ELSE Configured("Medium", severities)

\* The issues, with the new ones under their ids.
Made(all, new, id, v, stale) ==
  [i \in Issues |->
    IF \E x \in new : id[x] = i
      THEN LET x == CHOOSE y \in new : id[y] = i
           IN NewIssue(x[1], x[2].title, AnsweredSeverity(x[2], v),
                       x[2].assessment, IF stale THEN "yes" ELSE "no")
      ELSE all[i]]

\* The conferences of good get their new issues and are recalculated, both
\* from the snapshot.
CommitGenerated(good, new, id, seen, stale) ==
  LET all == Made(seen.issues, new, id, seen.vocab, stale)
      Result(c) == Recalculated(c, seen.confs, all, seen.scoring, seen.vocab,
                                seen.confs[c].contact)
  IN /\ \A c \in good : Computable(Prepared(seen.confs[c]), day, Scoring[seen.scoring])
     /\ issues' = Made(issues, new, id, seen.vocab, stale)
     /\ confs' = [c \in Confs |->
          IF c \in good THEN Merged(seen.confs[c], Result(c), confs[c]) ELSE confs[c]]
     /\ trace' = [c \in Confs |->
          IF c \notin good THEN trace[c]
          ELSE [Seen(seen.confs[c], Result(c), seen.confs[c].contact) EXCEPT !.stale = stale]]

\* The answers for the targets arrive; those that failed are passed over, the
\* others are committed together.
FinishGenerate(t) ==
  /\ gens[t] # Idle
  /\ \E answers \in [gens[t].targets -> Answers \cup {Failed}] :
     LET seen == gens[t].seen
         good == {c \in gens[t].targets : answers[c] # Failed}
         new  == New(good, answers, seen)
     IN \E id \in {f \in [new -> Free] : \A x, y \in new : f[x] = f[y] => x = y} :
          CommitGenerated(good, new, id, seen, seen # Snapshot)
  /\ gens' = [gens EXCEPT ![t] = Idle]
  /\ UNCHANGED <<day, settings, left>>

\* A recalculation divides by zero: nothing of the whole list is kept.
AbortGenerate(t) ==
  /\ gens[t] # Idle
  /\ LET seen == gens[t].seen IN
     \E c \in gens[t].targets : ~Computable(Prepared(seen.confs[c]), day, Scoring[seen.scoring])
  /\ gens' = [gens EXCEPT ![t] = Idle]
  /\ UNCHANGED <<day, settings, confs, issues, trace, left>>

NextDay ==
  /\ \E d \in Days : d > day
  /\ day' = CHOOSE d \in Days : d > day /\ \A e \in Days : e > day => d <= e
  /\ UNCHANGED <<settings, confs, issues, gens, trace, left>>

-----------------------------------------------------------------------------

ChangeConference(c) ==
  \/ \E k \in Codes, status \in ManualStatuses : UpdateMilestone(c, k, status)
  \/ \E calendar \in Calendars : UpdateConference(c, calendar)
  \/ \E status \in {"Cancelled", "In Progress"} : ImportStatus(c, status)
  \/ RefreshConference(c)
  \/ \E has \in BOOLEAN : UpdateContact(c, has)
  \/ CreatePrimaryContact(c)

ChangeIssue(i) ==
  \/ \E c \in Confs, severity \in ManualSeverities : CreateIssue(c, i, severity)
  \/ UpdateIssue(i) \/ ResolveIssue(i) \/ DeleteIssue(i)

ChangeSettings ==
  \/ \E s \in Scorings : UpdateScoring(s)
  \/ RecalculateAll
  \/ \E table \in OffsetTables : RecalculateDates(table)
  \/ \E v \in Vocabularies : UpdateReferenceConfig(v)

Next ==
  \/ \E c \in Confs : ChangeConference(c)
  \/ \E i \in Issues : ChangeIssue(i)
  \/ ChangeSettings
  \/ \E t \in Slots : BeginGenerate(t) \/ FinishGenerate(t) \/ AbortGenerate(t)
  \/ NextDay

Spec == Init /\ [][Next]_vars

-----------------------------------------------------------------------------
(* Properties                                                              *)

\* Scores and completeness stay within 0 and 100, whatever the settings view
\* lets a user enter.
TypeOK ==
  /\ day \in Days /\ vocab \in Vocabularies /\ scoring \in Scorings
  /\ \A c \in Confs :
       /\ confs[c].base \in 0 .. 1000 /\ confs[c].score \in 0 .. 1000
       /\ confs[c].completeness \in 0 .. 1000
       /\ confs[c].penalty \in 0 .. 100 * Scoring[scoring].penalty_cap \/ trace[c].stale
       /\ \A k \in Codes : confs[c].ms[k].due = NoDate \/ confs[c].ms[k].due \in Int
  /\ \A i \in Issues : issues[i] = NoIssue \/ issues[i].conf \in Confs
  /\ left \in 0 .. MaxRequests

\* After any request, no milestone, fact or issue has a value outside of the
\* vocabulary ("Removing a configured value moves existing records using it to
\* Unknown", Settings.tsx), whatever was derived from the old value on the
\* way.  Recalculation itself puts two values back: Not Applicable for the
\* finance of a technically co-sponsored conference and In Progress for
\* approved budgets.  A generation that overlapped the change may bring
\* others, until the next one.
VocabularyKept ==
  LET Kept(c, codes, value) ==
        value \in Vocabulary[vocab].statuses
        \/ (confs[c].tcs /\ codes \subseteq FinanceCodes /\ value = "Not Applicable")
  IN
  /\ \A c \in Confs :
       /\ \A k \in Codes : Kept(c, {k}, confs[c].ms[k].status)
       /\ \/ Kept(c, FinanceCodes, confs[c].finance)
          \/ /\ confs[c].finance = "In Progress"
             /\ \A k \in {"BUDGET", "BANKING"} \cap Codes :
                  confs[c].ms[k].status \in {"Approved", "Complete"}
       /\ {confs[c].application, confs[c].mou, confs[c].publication}
            \subseteq Vocabulary[vocab].statuses
       /\ confs[c].phase \in Vocabulary[vocab].phases \/ trace[c].stale
  /\ \A i \in Issues :
       issues[i] # NoIssue /\ issues[i].stray # "yes" =>
         /\ issues[i].severity \in Vocabulary[vocab].severities
         /\ issues[i].status \in Vocabulary[vocab].statuses

\* What is stored as derived is what today's data give on the day of the last
\* recalculation: no request, bulk change of the settings or clean-up of the
\* vocabulary leaves a score, phase or status behind.  The completeness and
\* the band may lag once behind a phase or a primary contact; a generation
\* that overlapped a change leaves a score of its snapshot.
ScoreCurrent ==
  \A c \in Confs : ~trace[c].stale =>
    LET fresh == Recalculate(confs[c], IssuesOf(c, issues), Scoring[scoring],
                             Vocabulary[vocab].phases, confs[c].contact, trace[c].day)
    IN confs[c] = IF trace[c].lags
                    THEN [fresh EXCEPT !.completeness = confs[c].completeness, !.band = confs[c].band]
                    ELSE fresh

\* A step of the day of the last recalculation that only settles milestones of
\* c, and leaves the settings and the issues as they are.
OnlySettles(c) ==
  /\ day = trace[c].day /\ day' = day /\ scoring' = scoring /\ issues' = issues
  /\ ~trace[c].stale /\ ~trace'[c].stale
  /\ \A k \in Codes :
       confs'[c].ms[k] = confs[c].ms[k]
       \/ (confs'[c].ms[k].due = confs[c].ms[k].due /\ Normal(confs'[c].ms[k].status) \in Settled)

\* Finishing milestones never costs anything, where no milestone scores more
\* than a finished one: with the dates, settings and issues as they are, a step
\* of the same day that only settles milestones lowers neither the base score
\* nor the score, late milestones included.
SettlingHelps ==
  [][\A c \in Confs :
       OnlySettles(c) /\ PointsWithin(Scoring[scoring].points, Scoring[scoring].points.completed)
       => confs'[c].base >= confs[c].base /\ confs'[c].score >= confs[c].score]_vars

\* A generation never adds an issue a conference already has open, also when
\* issues were resolved and opened again in between; two that overlap may.
NoTwins ==
  \A i, j \in Issues :
    (/\ i # j /\ issues[i] # NoIssue /\ issues[j] # NoIssue
     /\ issues[i].active /\ issues[j].active /\ issues[i].conf = issues[j].conf
     /\ issues[i].title = issues[j].title /\ issues[i].title # "manual")
    => issues[i].stray # "no" \/ issues[j].stray # "no"
=============================================================================
