----------------------------- MODULE ScoreRules -----------------------------
(***************************************************************************)
(* The readiness score of a conference: recalculate of app/dashboard.py    *)
(* and what it computes with.  A conference is a record of its dates, its  *)
(* milestones ms, from codes to [status, due], and what is derived from    *)
(* them.  Days are integers, percentages and scores are in tenths, issue   *)
(* penalties in hundredths, assessment factors in percent.  A tie is       *)
(* rounded up, where a binary float of the code may also round down.       *)
(***************************************************************************)
EXTENDS Integers, FiniteSets, Functions, MilestoneRules

CONSTANTS
  Codes,         \* the codes of the milestone definitions
  CustomStatus,  \* status values of one's own, and what normalize_status
                 \* makes of those it finds a word in
  NoDate,        \* a date that is not set
  Filled         \* text fields of a conference that are filled in

Dimension ==
  [APPLICATION |-> "Governance", MOU |-> "Governance",
   BUDGET |-> "Finance", BANKING |-> "Finance",
   CFP |-> "Program", REVIEWS |-> "Program", VENUE |-> "Operations",
   REGISTRATION |-> "Registration", PROCEEDINGS |-> "Closure", FIN_CLOSE |-> "Closure"]

\* due_days_from_start, by which derive_lifecycle_phase orders equal dates.
DueDays ==
  [APPLICATION |-> -540, MOU |-> -450, BUDGET |-> -365, BANKING |-> -240, CFP |-> -300,
   REVIEWS |-> -90, VENUE |-> -270, REGISTRATION |-> -180, PROCEEDINGS |-> 30,
   FIN_CLOSE |-> 180]

ASSUME ScoreAssumption ==
  /\ Codes \subseteq DOMAIN Dimension /\ IsFiniteSet(Codes)
  /\ Filled \in 3 .. 9
  /\ \A s \in DOMAIN CustomStatus : CustomStatus[s] \in Statuses

Tenths(n, d) == IF d = 0 THEN 0 ELSE (20 * n + d) \div (2 * d)
AtMost(bound, n) == IF n < bound THEN n ELSE bound

\* No milestone scores less than nothing or more than bound.
PointsWithin(points, bound) ==
  /\ {points.completed, points.unknown, points.no_due_date, points.blocked} \subseteq 0 .. bound
  /\ \A t \in {"far", "upcoming", "due_soon", "overdue"} : points.not_started[t] \in 0 .. bound
  /\ \A t \in {"on_time", "recent", "overdue"} :
       points.in_progress[t] \in 0 .. bound /\ points.awaiting[t] \in 0 .. bound

\* What the settings view takes for score settings (Settings.tsx): nothing
\* negative, and points up to 100.  merged_score_settings fills in the rest.
ScoreSettings(s) ==
  /\ PointsWithin(s.points, 100) /\ \A k \in Codes : s.weights[Dimension[k]] \in Nat
  /\ \A x \in DOMAIN s.severity : s.severity[x] \in Nat
  /\ \A x \in DOMAIN s.assessment : s.assessment[x] \in Nat
  /\ {s.step, s.cap_factor, s.penalty_cap} \subseteq Nat
  /\ s.formula \in {"weighted", "completed"}

-----------------------------------------------------------------------------
(* Milestones                                                              *)

\* normalize_status without a session: a known status is left as it is.
Normal(status) ==
  IF status \in Statuses \cup {"Open"} THEN status
  ELSE IF status \in DOMAIN CustomStatus THEN CustomStatus[status] ELSE "Unknown"

Settled  == {"Approved", "Complete", "Published", "Closed"}
Ignored  == {"Cancelled", "Not Applicable"}
Awaiting == {"Submitted", "Awaiting IEEE", "Awaiting Conference", "Awaiting External Party"}
Active   == Awaiting \cup {"In Progress"}
Blocking == {"Blocked", "Rejected"}

\* milestone_score answers None for the others.
Scored(m) ==
  \/ Normal(m.status) \in Settled \cup Awaiting \cup Blocking
                           \cup {"Unknown", "Not Started", "In Progress"}
  \/ Normal(m.status) = "Open" /\ m.due = NoDate

\* milestone_score with the configured points of each case.
MilestoneScore(m, today, points) ==
  LET status == Normal(m.status)
      left   == m.due - today
      late   == IF left >= 0 THEN "on_time" ELSE IF left >= -30 THEN "recent" ELSE "overdue"
  IN CASE status \in Settled -> points.completed
       [] status = "Unknown" -> points.unknown
       [] status \notin Settled \cup {"Unknown"} /\ m.due = NoDate -> points.no_due_date
       [] status = "Not Started" /\ m.due # NoDate ->
            points.not_started[IF left > 90 THEN "far" ELSE IF left > 30 THEN "upcoming"
                               ELSE IF left > 0 THEN "due_soon" ELSE "overdue"]
       [] status = "In Progress" /\ m.due # NoDate -> points.in_progress[late]
       [] status \in Awaiting /\ m.due # NoDate -> points.awaiting[late]
       [] status \in Blocking /\ m.due # NoDate -> points.blocked

Overdue(m, today) == m.due # NoDate /\ m.due < today

\* SettlingHelps: only what is unfinished gains weight by being late.
LateUnfinishedWeight(m, k, today, s) ==
  s.weights[Dimension[k]] *
    (IF s.step = 0 THEN 1
     ELSE s.step + IF Overdue(m, today) /\ Normal(m.status) \notin Settled
                     THEN AtMost(s.cap_factor * s.step, today - m.due) ELSE 0)

\* The weight of a milestone grows by lateness_factor, whatever its status.
\* (In units of 1/step.)
EffectiveWeight(m, k, today, s) ==
  s.weights[Dimension[k]] *
    (IF s.step = 0 THEN 1
     ELSE s.step + IF Overdue(m, today) THEN AtMost(s.cap_factor * s.step, today - m.due) ELSE 0)

Counted(ms, tcs) ==
  {k \in Codes : Scored(ms[k]) /\ ~(tcs /\ k \in FinanceCodes)}

BaseScore(ms, tcs, today, s) ==
  LET weights == [k \in Counted(ms, tcs) |-> EffectiveWeight(ms[k], k, today, s)]
      points  == [k \in Counted(ms, tcs) |->
                   weights[k] * MilestoneScore(ms[k], today, s.points)]
  IN Tenths(SumFunction(points), SumFunction(weights))

\* milestone_stats: the codes of each kind.
Stats(ms, today) ==
  LET all  == {k \in Codes : Normal(ms[k].status) \notin Ignored}
      Is(S) == {k \in all : Normal(ms[k].status) \in S}
      open == all \ Is(Settled)
  IN [total |-> all, completed |-> Is(Settled), active |-> Is(Active),
      blocked |-> Is(Blocking), unfinished |-> open,
      overdue |-> {k \in open : Overdue(ms[k], today)},
      due_soon |-> {k \in open : ms[k].due # NoDate /\ ms[k].due \in today .. today + 30}]

AllDone(stats) == stats.total # {} /\ stats.unfinished = {}

-----------------------------------------------------------------------------
(* Penalty, score and status                                               *)

\* issue_penalty over the issues of a conference; a severity or assessment
\* without a configured value counts 2.0 points and 100 percent.
IssuePenalty(issues, s) ==
  LET Open == {i \in DOMAIN issues : issues[i].active /\ issues[i].status # "Resolved"}
      Severity(x) == IF x \in DOMAIN s.severity THEN s.severity[x] ELSE 2
      Factor(x) == IF x \in DOMAIN s.assessment THEN s.assessment[x] ELSE 100
      points == [i \in Open |-> Severity(issues[i].severity) * Factor(issues[i].assessment)]
  IN AtMost(100 * s.penalty_cap, SumFunction(points))

\* The configured formulas the model knows, in hundredths: the default, and
\* one that counts milestones instead of weighing them.
FormulaScore(formula, base, penalty, stats) ==
  CASE formula = "weighted"  -> 10 * base - penalty
    [] formula = "completed" ->
         (10000 * Cardinality(stats.completed)) \div Cardinality(stats.total) - penalty

\* A recalculation divides by zero, which nothing catches, when the formula
\* counts milestones and all are excluded, or the lateness step is 0 and a
\* milestone that counts is overdue.
Computable(c, today, s) ==
  /\ s.formula = "completed" => Stats(c.ms, today).total # {}
  /\ s.step = 0 => \A k \in Counted(c.ms, c.tcs) : ~Overdue(c.ms[k], today)

\* TypeOK: what the formula gives is taken as it is.
Unclamped(hundredths) == hundredths \div 10

Clamped(hundredths) ==
  IF hundredths < 0 THEN 0 ELSE AtMost(1000, (hundredths + 5) \div 10)

DataCompleteness(c, contact) ==
  LET dates  == Cardinality({f \in {"start", "end"} : c[f] # NoDate})
      facts  == Cardinality({f \in {"application", "mou", "finance", "publication", "phase"} :
                               c[f] # "Unknown"})
      known  == Cardinality({k \in Codes : c.ms[k].status # "Unknown"})
  IN Tenths(100 * (Filled + dates + facts + known + IF contact THEN 1 ELSE 0),
            17 + (IF Codes = {} THEN 1 ELSE Cardinality(Codes)))

PhaseOfCode(k) ==
  CASE k \in {"APPLICATION", "MOU"} -> "IEEE Application and MOU"
    [] k \in {"BUDGET", "BANKING", "CFP", "VENUE"} -> "Detailed Planning"
    [] k = "REVIEWS" -> "Submission and Review"
    [] k = "REGISTRATION" -> "Registration and Final Preparation"
    [] k = "PROCEEDINGS" -> "Proceedings Processing"
    [] k = "FIN_CLOSE" -> "Financial and Administrative Closure"

Done(ms, k) ==
  k \in Codes /\ Normal(ms[k].status) \in Settled \cup {"Not Applicable"}
Started(ms, k) ==
  Done(ms, k) \/ (k \in Codes /\ Normal(ms[k].status) \in Active \cup Blocking)

\* The unfinished milestone that is due first.
FirstDue(ms, open) ==
  CHOOSE k \in open : \A j \in open \ {k} :
    \/ ms[k].due # NoDate /\ (ms[j].due = NoDate \/ ms[k].due < ms[j].due)
    \/ ms[k].due = ms[j].due /\ DueDays[k] < DueDays[j]

LifecyclePhase(c, stats, today) ==
  LET over  == c.end # NoDate /\ c.end < today
      held  == c.start # NoDate /\ c.end # NoDate /\ c.start <= today /\ today <= c.end
      near  == c.start # NoDate /\ c.start - today \in 0 .. 30
  IN IF over THEN IF ~Done(c.ms, "PROCEEDINGS") THEN "Proceedings Processing"
                  ELSE IF Done(c.ms, "FIN_CLOSE") THEN "Closed"
                  ELSE "Financial and Administrative Closure"
     ELSE IF held THEN "Conference Delivery"
     ELSE IF near THEN "Registration and Final Preparation"
     ELSE IF stats.unfinished # {} THEN PhaseOfCode(FirstDue(c.ms, stats.unfinished))
     ELSE IF AllDone(stats) THEN "Conference Delivery"
     ELSE IF Started(c.ms, "APPLICATION") \/ Started(c.ms, "MOU") THEN "IEEE Application and MOU"
     ELSE "Expression of Interest"

ScoreStatus(score) ==
  IF score < 500 THEN "Critical" ELSE IF score < 700 THEN "At Risk"
  ELSE IF score < 850 THEN "Attention Needed" ELSE "On Track"

\* derive_conference_status: nothing but an import ends Cancelled.
ConferenceStatus(c, score, phase, stats) ==
  IF c.status = "Cancelled" THEN "Cancelled"
  ELSE IF phase = "Closed" THEN "Closed"
  ELSE IF AllDone(stats) THEN "Complete"
  ELSE ScoreStatus(score)

StatusBand(score, completeness, status) ==
  IF status \in {"Cancelled", "Closed", "Critical", "At Risk", "Attention Needed", "On Track"}
    THEN status
  ELSE IF completeness < 350 THEN "Provisional" ELSE ScoreStatus(score)

-----------------------------------------------------------------------------
(* Recalculation                                                           *)

StatusOf(c) == [k \in Codes |-> c.ms[k].status]

\* sync_conference_facts_from_milestones.
SyncFacts(c) ==
  [c EXCEPT
    !.application = IF "APPLICATION" \in Codes THEN c.ms["APPLICATION"].status ELSE @,
    !.mou = IF "MOU" \in Codes THEN c.ms["MOU"].status ELSE @,
    !.finance = FinanceStatus(StatusOf(c), @),
    !.publication = PublicationStatus(StatusOf(c), @)]

\* The first part of recalculate: the policy, then the facts.
Prepared(c) ==
  LET status == FinanceExcluded(c.tcs, StatusOf(c))
  IN SyncFacts([c EXCEPT !.ms = [k \in Codes |-> [@[k] EXCEPT !.status = status[k]]]])

\* recalculate: policy, facts, score, phase and status of a conference, given
\* its issues, the score settings, the phases of the vocabulary and whether a
\* contact was seen.  The completeness is taken before the phase is derived.
Recalculate(c, issues, s, phases, contact, today) ==
  LET d        == Prepared(c)
      stats    == Stats(d.ms, today)
      base     == BaseScore(d.ms, d.tcs, today, s)
      penalty  == IssuePenalty(issues, s)
      score    == Clamped(FormulaScore(s.formula, base, penalty, stats))
      complete == DataCompleteness(d, contact)
      derived  == LifecyclePhase(d, stats, today)
      phase    == IF derived \in phases THEN derived ELSE "Unknown"
      status   == ConferenceStatus(d, score, phase, stats)
  IN [d EXCEPT !.base = base, !.penalty = penalty, !.score = score,
               !.completeness = complete, !.phase = phase, !.status = status,
               !.band = StatusBand(score, complete, status)]
=============================================================================
