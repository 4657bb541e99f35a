--------------------------- MODULE MilestoneRules ---------------------------
(***************************************************************************)
(* The milestone statuses of app/dashboard.py and the facts of a           *)
(* conference that are derived from them.                                  *)
(***************************************************************************)
LOCAL INSTANCE Naturals
LOCAL INSTANCE Sequences
LOCAL INSTANCE FiniteSetsExt

\* The order in which aggregate_status looks for a status.
Priority ==
  <<"Blocked", "Rejected", "Not Started", "In Progress", "Awaiting IEEE",
    "Awaiting Conference", "Awaiting External Party", "Submitted", "Approved",
    "Complete", "Published", "Closed", "Not Applicable", "Cancelled">>

Statuses == {"Unknown"} \cup {Priority[i] : i \in DOMAIN Priority}

FinanceCodes     == {"BUDGET", "BANKING", "FIN_CLOSE"}
PublicationCodes == {"CFP", "REVIEWS", "PROCEEDINGS"}

\* aggregate_status of a list: the known status that comes first in the
\* priority list, or the first known one when none is in that list.
AggregateStatus(list) ==
  LET known == {i \in DOMAIN list : list[i] # "Unknown"}
      ranks == {n \in DOMAIN Priority : \E i \in known : list[i] = Priority[n]}
  IN CASE known = {}                   -> "Unknown"
       [] known # {} /\ ranks # {}     -> Priority[Min(ranks)]
       [] known # {} /\ ranks = {}     -> list[Min(known)]

AggregateFinance(budget, banking, close) ==
  LET all == <<budget, banking, close>>
      blocked == {budget, banking, close} \cap {"Blocked", "Rejected"} # {}
      closed  == close \in {"Closed", "Complete"}
  IN CASE blocked -> AggregateStatus(all)
       [] ~blocked /\ closed -> close
       [] ~blocked /\ ~closed /\ {budget, banking} \subseteq {"Approved", "Complete"}
            -> "In Progress"
       [] OTHER -> AggregateStatus(all)

\* The finance and publication status that the milestones, a function from
\* codes to statuses, give; old is kept when there are none of the kind.
FinanceStatus(status, old) ==
  LET Of(k) == IF k \in DOMAIN status THEN status[k] ELSE "Unknown"
  IN IF DOMAIN status \cap FinanceCodes = {} THEN old
     ELSE AggregateFinance(Of("BUDGET"), Of("BANKING"), Of("FIN_CLOSE"))

PublicationStatus(status, old) ==
  LET Of(k) == IF k \in DOMAIN status THEN status[k] ELSE "Unknown"
  IN IF DOMAIN status \cap PublicationCodes = {} THEN old
     ELSE AggregateStatus(<<Of("CFP"), Of("REVIEWS"), Of("PROCEEDINGS")>>)

\* apply_tcs_conference_policy: its finance milestones do not apply.
FinanceExcluded(tcs, status) ==
  [k \in DOMAIN status |-> IF tcs /\ k \in FinanceCodes THEN "Not Applicable" ELSE status[k]]
=============================================================================
