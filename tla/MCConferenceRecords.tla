------------------------- MODULE MCConferenceRecords -------------------------
(* A small portfolio for checking ConferenceRecords with TLC. *)
EXTENDS ConferenceRecords, TLC

MCKey == [c \in Confs |-> "itsc 2027"]

\* Two spreadsheets about the one conference: a Conferences row that settles
\* the application and makes it technically co-sponsored, and a row that
\* claims a publication status together with a sheet of milestones.
MCFiles ==
  {[key |-> "itsc 2027",
    cells |-> [official_title |-> "Imported", application_status |-> "Approved",
               sponsorship_type |-> "TCS", conference_series |-> "Own"],
    sheet |-> [k \in {"BUDGET"} |-> "Complete"]],
   [key |-> "itsc 2027",
    cells |-> [publication_status |-> "Published"],
    sheet |-> [k \in {"BUDGET", "PROCEEDINGS"} |-> "Approved"]]}

\* One short spreadsheet, for requests that overlap.
MCShortFile ==
  {[key |-> "itsc 2027",
    cells |-> [official_title |-> "Imported", sponsorship_type |-> "Flagship",
               conference_series |-> "Own"],
    sheet |-> [k \in {"APPLICATION"} |-> "Approved"]]}

\* Nothing, every column, or the columns of one half of the row.
MCSelections ==
  {{}, Fields, FactFields, Required}

MCAllOrNothing == {{}, Fields}

\* Conference ids and request slots are interchangeable.
MCSymmetry == Permutations(Confs) \cup Permutations(Slots)
=============================================================================
