----------------------------- MODULE MCPortfolio -----------------------------
(* A small portfolio for checking Portfolio with TLC. *)
EXTENDS Portfolio, TLC

\* A status of one's own that normalize_status reads as Submitted.
MCCustomStatus == "To be submitted" :> "Submitted"

Phases == {"Unknown", "Detailed Planning", "Registration and Final Preparation",
           "Conference Delivery", "Proceedings Processing", "Closed",
           "Financial and Administrative Closure"}

\* Everything in use, and a configuration without most of it.
Wide ==
  [phases |-> Phases, severities |-> {"Unknown", "High", "Medium"},
   statuses |-> Required \cup {"In Progress", "Not Applicable",
                               "Cancelled", "To be submitted"}]
Narrow ==
  [phases |-> {"Unknown", "Proceedings Processing"}, severities |-> {"Unknown", "Medium"},
   statuses |-> Required]
MCVocabulary == [default |-> Wide, narrow |-> Narrow]

Points ==
  [completed |-> 100, unknown |-> 0, no_due_date |-> 65, blocked |-> 0,
   not_started |-> [far |-> 80, upcoming |-> 60, due_soon |-> 30, overdue |-> 0],
   in_progress |-> [on_time |-> 70, recent |-> 45, overdue |-> 20],
   awaiting |-> [on_time |-> 80, recent |-> 60, overdue |-> 35]]

DefaultScoring ==
  [weights |-> [d \in {Dimension[k] : k \in Codes} |-> IF d = "Closure" THEN 100 ELSE 20],
   points |-> Points, severity |-> [High |-> 6, Medium |-> 3], penalty_cap |-> 40,
   assessment |-> ("Unreviewed" :> 100 @@ "Needs Follow-up" :> 100
                   @@ "On Track" :> 25 @@ "Not an Issue" :> 0),
   step |-> 30, cap_factor |-> 3, formula |-> "weighted"]

\* The default, and one that counts milestones and divides by zero when a
\* milestone is late.
MCScoring ==
  [default |-> DefaultScoring,
   counting |-> [DefaultScoring EXCEPT !.step = 0, !.formula = "completed"]]

\* A budget that is late on the first day, a bank account that gets late on the
\* second, proceedings that are in time.
MCOffsetTables ==
  {[k \in Codes |->
     CASE k = "PROCEEDINGS" -> [anchor |-> "end", days |-> 60]
       [] k = "BANKING"     -> [anchor |-> "start", days |-> -20]
       [] k = "BUDGET"      -> [anchor |-> "start", days |-> -60]]}

\* A conference on days 60 to 62, or not yet dated.
MCCalendars ==
  {[start |-> 60, end |-> 62], [start |-> NoDate, end |-> NoDate]}

\* A conference of our own with dates, a technically co-sponsored one without.
MCCreated ==
  {[tcs |-> FALSE, calendar |-> [start |-> 60, end |-> 62]],
   [tcs |-> TRUE, calendar |-> [start |-> NoDate, end |-> NoDate]]}

MCAnswers ==
  {{[title |-> "late budget", severity |-> "High", assessment |-> "Needs Follow-up"]}}

MCSymmetry == Permutations(Issues)
=============================================================================
