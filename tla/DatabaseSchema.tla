--------------------------- MODULE DatabaseSchema ---------------------------
(***************************************************************************)
(* The tables of the dashboard and their foreign keys, once as the         *)
(* baseline migration creates them and once as the ORM classes declare     *)
(* them, and the orders in which the code creates, drops, copies and       *)
(* empties them.  Columns, types, indexes and unique constraints are left  *)
(* out: what the other modules depend on is who refers to whom.            *)
(***************************************************************************)
EXTENDS Naturals, Sequences, FiniteSets, SequencesExt

LOCAL Table(name, parents) == [name |-> name, parents |-> parents]

\* The baseline migration, in the order of its create_table calls.
RootTables ==
  <<Table("conferences", {"conferences"}), Table("dashboard_settings", {}),
    Table("import_batches", {}), Table("milestone_definitions", {}),
    Table("status_mappings", {}), Table("template_files", {})>>

ConferenceTables ==
  <<Table("conference_aliases", {"conferences"}),
    Table("conference_comments", {"conferences"}),
    Table("conference_milestones", {"conferences", "milestone_definitions"}),
    Table("contacts", {"conferences"}), Table("dashboard_pins", {"conferences"}),
    Table("documents", {"conferences"})>>

RecordTables ==
  <<Table("email_drafts", {"conferences"}),
    Table("field_change_history", {"conferences", "import_batches"}),
    Table("issues", {"conferences"}), Table("monthly_snapshots", {"conferences"}),
    Table("score_history", {"conferences"}), Table("issue_comments", {"issues"})>>

CreateOrder == RootTables \o ConferenceTables \o RecordTables

\* The downgrade, in the order of its drop_table calls.
DropOrder ==
  <<"issue_comments", "score_history", "monthly_snapshots", "issues",
    "field_change_history", "email_drafts", "documents", "dashboard_pins",
    "contacts", "conference_milestones", "conference_comments",
    "conference_aliases", "template_files", "status_mappings",
    "milestone_definitions", "import_batches", "dashboard_settings",
    "conferences">>

-----------------------------------------------------------------------------
(* The ORM: <<table, parent>> for every ForeignKey, and the other tables   *)

ConferenceKeys ==
  {<<"conferences", "conferences">>, <<"contacts", "conferences">>,
   <<"conference_aliases", "conferences">>,
   <<"conference_milestones", "conferences">>,
   <<"conference_milestones", "milestone_definitions">>}

HistoryKeys ==
  {<<"issues", "conferences">>, <<"issue_comments", "issues">>,
   <<"conference_comments", "conferences">>,
   <<"field_change_history", "conferences">>,
   <<"field_change_history", "import_batches">>,
   <<"monthly_snapshots", "conferences">>, <<"score_history", "conferences">>}

KnowledgeKeys ==
  {<<"documents", "conferences">>, <<"email_drafts", "conferences">>,
   <<"dashboard_pins", "conferences">>}

ForeignKeys == ConferenceKeys \cup HistoryKeys \cup KnowledgeKeys

Tables ==
  {k[1] : k \in ForeignKeys} \cup {k[2] : k \in ForeignKeys}
    \cup {"status_mappings", "dashboard_settings", "template_files"}

Parents(t) == {k[2] : k \in {key \in ForeignKeys : key[1] = t}}

\* Base.metadata.sorted_tables: a parents-first order; with SQLAlchemy's
\* tie-break it is the order of the generated baseline.
SortedTables == [i \in DOMAIN CreateOrder |-> CreateOrder[i].name]

\* delete_conference_record: the tables it empties of a conference's rows, in
\* order; contacts and the conference itself are deleted by the final flush.
DeletionOrder ==
  <<"issue_comments", "conference_aliases", "conference_milestones", "issues",
    "conference_comments", "field_change_history", "monthly_snapshots",
    "score_history", "email_drafts", "dashboard_pins", "documents",
    "contacts", "conferences">>

\* The migration creates exactly what the classes declare, parents first, and
\* drops children first.
ASSUME BaselineMatchesModel ==
  /\ ToSet(SortedTables) = Tables /\ Cardinality(Tables) = Len(CreateOrder)
  /\ \A i \in DOMAIN CreateOrder :
       /\ CreateOrder[i].parents = Parents(CreateOrder[i].name)
       /\ Parents(SortedTables[i]) \subseteq {SortedTables[j] : j \in 1..i}
  /\ DropOrder = Reverse(SortedTables)

\* Deleting a conference meets every table that refers to it, and no
\* statement deletes a row that another row still refers to.
ASSUME DeletionCoversReferences ==
  \A i \in DOMAIN DeletionOrder : \A t \in Tables \ {DeletionOrder[i]} :
    DeletionOrder[i] \in Parents(t) =>
      \E j \in 1..(i - 1) : DeletionOrder[j] = t
=============================================================================
