------------------------------ MODULE Documents ------------------------------
(***************************************************************************)
(* The knowledge base and the e-mail drafts of app/dashboard.py.  A        *)
(* document is a stored file, a vector file and a row, written one after   *)
(* the other by the requests that upload, reindex and delete it, and read  *)
(* by the assistant.  Nothing but the row is under a transaction.          *)
(*                                                                         *)
(* upload_document is a coroutine that never awaits once it has its data:  *)
(* while it runs no other request starts.  Every other route runs in a     *)
(* thread, and several of them interleave.  Templates keep their data in   *)
(* their row and are left out.                                             *)
(***************************************************************************)
EXTENDS Naturals

CONSTANTS
  Docs,          \* document ids; each is given out once (uuid4)
  WithText,      \* those with text, the others are stored as "No Text"
  Conferences,   \* conference ids
  NoConference,  \* the conference_id of a document that has none
  Slots,         \* requests that may be at work at the same time
  MaxDrafts,     \* bound: drafts kept per conference
  MaxFaults      \* bound: crashes of the process and failing writes

ASSUME DocumentsAssumption ==
  /\ WithText \subseteq Docs /\ NoConference \notin Conferences
  /\ MaxDrafts \in Nat /\ MaxFaults \in Nat

VARIABLES
  rows,      \* [state, conference] of each document; state "none" without a row
  file,      \* the stored file of each document
  vectors,   \* its vector file
  confs,     \* the conferences that exist
  drafts,    \* number of e-mail drafts of each conference
  reqs,      \* what each slot is doing
  faults,    \* faults left
  ledger     \* documents: given out, being or done deleted, torn, left behind

vars == <<rows, file, vectors, confs, drafts, reqs, faults, ledger>>

NoRow == [state |-> "none", conference |-> NoConference]
Idle == [op |-> "none", pc |-> "idle", doc |-> {}, conference |-> NoConference,
         loaded |-> "none", clean |-> TRUE]
States == {"none", "No Text", "Embedded", "Embedding Failed"}
FileStates == {"absent", "torn", "whole"}
Positions == {"idle", "store", "embed", "open", "write", "commit", "unlink",
              "unlink vectors", "delete row", "retrieve", "compose"}
Requests ==
  [op : {"none", "upload", "reindex", "delete", "chat", "draft"},
   pc : Positions, doc : SUBSET Docs,
   conference : Conferences \cup {NoConference}, loaded : States, clean : BOOLEAN]

Exists(d) == rows[d].state # "none"
Busy(s) == reqs[s].op # "none"
At(s, op, pc) == reqs[s].op = op /\ reqs[s].pc = pc
Working(d) == \E s \in Slots : d \in reqs[s].doc
Writing(d) == {s \in Slots : d \in reqs[s].doc /\ reqs[s].pc = "write"}
LoopFree == \A s \in Slots : reqs[s].op # "upload"

Begin(s, request) ==
  /\ LoopFree /\ ~Busy(s)
  /\ reqs' = [reqs EXCEPT ![s] = request]
Goto(s, pc) == reqs' = [reqs EXCEPT ![s].pc = pc]
Answer(s) == reqs' = [reqs EXCEPT ![s] = Idle]
Fault == faults > 0 /\ faults' = faults - 1
Record(what, ds) == ledger' = [ledger EXCEPT ![what] = @ \cup ds]

Init ==
  /\ rows = [d \in Docs |-> NoRow]
  /\ file = [d \in Docs |-> "absent"] /\ vectors = [d \in Docs |-> "absent"]
  /\ confs = Conferences
  /\ drafts = [c \in Conferences |-> 0]
  /\ reqs = [s \in Slots |-> Idle]
  /\ faults = MaxFaults
  /\ ledger = [given |-> {}, doomed |-> {}, gone |-> {}, torn |-> {}, left |-> {}]

-----------------------------------------------------------------------------
(* Upload                                                                  *)

IndexState(d) == IF d \in WithText THEN "Embedded" ELSE "No Text"

\* RowHasFile: the row is committed before the file is written.
BeginUploadWithRow(s, d, c) ==
  /\ d \notin ledger.given
  /\ Begin(s, [Idle EXCEPT !.op = "upload", !.pc = "store", !.doc = {d}, !.conference = c])
  /\ rows' = [rows EXCEPT ![d] = [state |-> IndexState(d), conference |-> NoConference]]
  /\ file' = [file EXCEPT ![d] = "torn"]
  /\ Record("given", {d})
  /\ UNCHANGED <<vectors, confs, drafts, faults>>

\* upload_document opens the stored file under a fresh name.
BeginUpload(s, d, c) ==
  /\ d \notin ledger.given
  /\ Begin(s, [Idle EXCEPT !.op = "upload", !.pc = "store", !.doc = {d}, !.conference = c])
  /\ file' = [file EXCEPT ![d] = "torn"]
  /\ Record("given", {d})
  /\ UNCHANGED <<rows, vectors, confs, drafts, faults>>

\* The data is written, or the disk is full: an OSError that nobody catches.
StoreFile(s, d) ==
  /\ At(s, "upload", "store") /\ reqs[s].doc = {d}
  /\ \/ file' = [file EXCEPT ![d] = "whole"] /\ Goto(s, "embed") /\ UNCHANGED <<faults, ledger>>
     \/ Fault /\ Answer(s) /\ Record("left", {d}) /\ UNCHANGED file
  /\ UNCHANGED <<rows, vectors, confs, drafts>>

\* EmbeddedHasVectors: the row is written before the vectors are.
EmbedOnly(s) ==
  /\ reqs[s].pc = "embed" /\ Goto(s, "commit")
  /\ UNCHANGED <<rows, file, vectors, confs, drafts, faults, ledger>>

\* embed_texts answers with a vector for every chunk.  There is nothing to
\* embed in a document without text.
Embed(s) ==
  /\ reqs[s].pc = "embed" /\ Goto(s, "open")
  /\ UNCHANGED <<rows, file, vectors, confs, drafts, faults, ledger>>

\* OrphansExplained: the stored file of a refused upload is kept.
RefuseKeepingFile(s, d) ==
  /\ At(s, "upload", "embed") /\ reqs[s].doc = {d} /\ d \in WithText
  /\ Answer(s)
  /\ UNCHANGED <<rows, file, vectors, confs, drafts, faults, ledger>>

\* The service fails or answers incompletely: 502, the file is removed.
RefuseUpload(s, d) ==
  /\ At(s, "upload", "embed") /\ reqs[s].doc = {d} /\ d \in WithText
  /\ file' = [file EXCEPT ![d] = "absent"]
  /\ Answer(s)
  /\ UNCHANGED <<rows, vectors, confs, drafts, faults, ledger>>

\* The service answers something embed_texts cannot read as numbers, which
\* raises no RuntimeError: the request fails with nothing cleaned up.
BreakEmbedding(s, d) ==
  /\ reqs[s].pc = "embed" /\ reqs[s].doc = {d} /\ d \in WithText
  /\ Fault /\ Answer(s)
  /\ IF reqs[s].op = "upload" THEN Record("left", {d}) ELSE UNCHANGED ledger
  /\ UNCHANGED <<rows, file, vectors, confs, drafts>>

\* write_vector_chunks: write_text truncates the file or creates it.  Two
\* requests that have it open write over each other, and one that comes after
\* a deletion leaves a file no row will ever lead to.
OpenVectors(s, d) ==
  /\ reqs[s].pc = "open" /\ reqs[s].doc = {d}
  /\ vectors' = [vectors EXCEPT ![d] = "torn"]
  /\ reqs' = [t \in Slots |->
       IF t = s THEN [reqs[s] EXCEPT !.pc = "write", !.clean = Writing(d) = {}]
       ELSE IF t \in Writing(d) THEN [reqs[t] EXCEPT !.clean = FALSE] ELSE reqs[t]]
  /\ ledger' = [ledger EXCEPT
       !.torn = IF Writing(d) # {} THEN @ \cup {d} ELSE @,
       !.left = IF reqs[s].op = "reindex" /\ (d \in ledger.doomed \/ ~Exists(d))
                THEN @ \cup {d} ELSE @]
  /\ UNCHANGED <<rows, file, confs, drafts, faults>>

\* The end of the write: whole, unless another request wrote meanwhile; the
\* file is gone when a deletion unlinked it.  Or the disk is full.
WriteVectors(s, d) ==
  /\ reqs[s].pc = "write" /\ reqs[s].doc = {d}
  /\ \/ /\ vectors' \in {[vectors EXCEPT ![d] = v] :
              v \in IF vectors[d] = "absent" THEN {"absent"}
                    ELSE IF reqs[s].clean THEN {"whole"} ELSE {"whole", "torn"}}
        /\ Goto(s, "commit") /\ UNCHANGED faults
        /\ ledger' = [ledger EXCEPT !.torn = IF reqs[s].clean THEN @ \ {d} ELSE @]
     \/ /\ Fault /\ Answer(s) /\ UNCHANGED vectors
        /\ ledger' = [ledger EXCEPT !.torn = @ \cup {d}, !.left = @ \cup {d}]
  /\ UNCHANGED <<rows, file, confs, drafts>>

\* The row is inserted; it is refused when its conference is unknown or was
\* deleted meanwhile, and both files stay.
InsertRow(s, d) ==
  LET c == reqs[s].conference IN
  /\ At(s, "upload", "commit") /\ reqs[s].doc = {d}
  /\ \/ /\ c \in confs \cup {NoConference}
        /\ rows' = [rows EXCEPT ![d] = [state |-> IndexState(d), conference |-> c]]
        /\ UNCHANGED ledger
     \/ c \notin confs \cup {NoConference} /\ Record("left", {d}) /\ UNCHANGED rows
  /\ Answer(s)
  /\ UNCHANGED <<file, vectors, confs, drafts, faults>>

-----------------------------------------------------------------------------
(* Reindexing and deletion                                                 *)

BeginReindex(s, d) ==
  /\ Exists(d)
  /\ Begin(s, [Idle EXCEPT !.op = "reindex", !.pc = "embed", !.doc = {d},
                           !.loaded = rows[d].state])
  /\ UNCHANGED <<rows, file, vectors, confs, drafts, faults, ledger>>

\* DeletedForGood: the row is written as a whole, existing or not.
MergeState(s, d, state) ==
  /\ rows' = [rows EXCEPT ![d].state = state]
  /\ Answer(s)
  /\ UNCHANGED <<file, vectors, confs, drafts, faults, ledger>>

\* The row as it was loaded gets a new state.  The UPDATE names it only when it
\* differs from the one loaded, so a state another request has set since may
\* stay; without a row the UPDATE meets nothing and the request fails.
SetState(s, d, state) ==
  /\ rows' = IF Exists(d) /\ state # reqs[s].loaded
             THEN [rows EXCEPT ![d].state = state] ELSE rows
  /\ Answer(s)
  /\ UNCHANGED <<file, vectors, confs, drafts, faults, ledger>>

\* The embedding failed: the old vectors are kept.
FailReindex(s, d) ==
  /\ At(s, "reindex", "embed") /\ reqs[s].doc = {d} /\ d \in WithText
  /\ SetState(s, d, "Embedding Failed")

CommitIndex(s, d) ==
  /\ At(s, "reindex", "commit") /\ reqs[s].doc = {d}
  /\ SetState(s, d, IndexState(d))

BeginDelete(s, d) ==
  /\ Exists(d)
  /\ Begin(s, [Idle EXCEPT !.op = "delete", !.pc = "unlink", !.doc = {d}])
  /\ UNCHANGED <<rows, file, vectors, confs, drafts, faults, ledger>>

UnlinkFile(s, d) ==
  /\ At(s, "delete", "unlink") /\ reqs[s].doc = {d}
  /\ file' = [file EXCEPT ![d] = "absent"]
  /\ Record("doomed", {d}) /\ Goto(s, "unlink vectors")
  /\ UNCHANGED <<rows, vectors, confs, drafts, faults>>

UnlinkVectors(s, d) ==
  /\ At(s, "delete", "unlink vectors") /\ reqs[s].doc = {d}
  /\ vectors' = [vectors EXCEPT ![d] = "absent"]
  /\ Goto(s, "delete row")
  /\ UNCHANGED <<rows, file, confs, drafts, faults, ledger>>

DeleteRow(s, d) ==
  /\ At(s, "delete", "delete row") /\ reqs[s].doc = {d}
  /\ rows' = [rows EXCEPT ![d] = NoRow]
  /\ Record("gone", {d}) /\ Answer(s)
  /\ UNCHANGED <<file, vectors, confs, drafts, faults>>

\* delete_conference_record: the rows of its documents and its drafts, in one
\* transaction; the files of the documents stay.
DeleteConference(c) ==
  LET own == {d \in Docs : Exists(d) /\ rows[d].conference = c} IN
  /\ LoopFree /\ c \in confs
  /\ rows' = [d \in Docs |-> IF d \in own THEN NoRow ELSE rows[d]]
  /\ drafts' = [drafts EXCEPT ![c] = 0]
  /\ confs' = confs \ {c}
  /\ Record("left", own)
  /\ UNCHANGED <<file, vectors, reqs, faults>>

-----------------------------------------------------------------------------
(* The assistant                                                           *)

\* retrieve_sources lists the active documents and asks for the embedding of
\* the question.  A document then counts with its vectors when they can be
\* read, and otherwise with the words of the text in its row; call_azure_chat
\* answers, fails or times out.  Nothing is written.
BeginChat(s) ==
  /\ Begin(s, [Idle EXCEPT !.op = "chat", !.pc = "retrieve"])
  /\ UNCHANGED <<rows, file, vectors, confs, drafts, faults, ledger>>

Reply(s) ==
  /\ At(s, "chat", "retrieve") /\ Answer(s)
  /\ UNCHANGED <<rows, file, vectors, confs, drafts, faults, ledger>>

\* generate_email_draft reads the conference, has the text generated, which
\* takes its time, and inserts the draft.
BeginDraft(s, c) ==
  /\ c \in confs /\ drafts[c] < MaxDrafts
  /\ Begin(s, [Idle EXCEPT !.op = "draft", !.pc = "compose", !.conference = c])
  /\ UNCHANGED <<rows, file, vectors, confs, drafts, faults, ledger>>

\* The foreign key refuses the draft of a conference that is gone.
SaveDraft(s) ==
  LET c == reqs[s].conference IN
  /\ At(s, "draft", "compose")
  /\ drafts' = IF c \in confs THEN [drafts EXCEPT ![c] = @ + 1] ELSE drafts
  /\ Answer(s)
  /\ UNCHANGED <<rows, file, vectors, confs, faults, ledger>>

\* TypeOK: a draft that is gone is deleted once more.
DeleteDraftTwice(c) ==
  /\ LoopFree
  /\ drafts' = [drafts EXCEPT ![c] = @ - 1]
  /\ UNCHANGED <<rows, file, vectors, confs, reqs, faults, ledger>>

DeleteDraft(c) ==
  /\ LoopFree /\ drafts[c] > 0
  /\ drafts' = [drafts EXCEPT ![c] = @ - 1]
  /\ UNCHANGED <<rows, file, vectors, confs, reqs, faults, ledger>>

-----------------------------------------------------------------------------
\* The process dies: no request is answered, everything stored stays.
Crash ==
  /\ Fault /\ \E s \in Slots : Busy(s)
  /\ reqs' = [s \in Slots |-> Idle]
  /\ ledger' = [ledger EXCEPT
       !.torn = @ \cup {d \in Docs : Writing(d) # {}},
       !.left = @ \cup {d \in Docs : \E s \in Slots :
                          d \in reqs[s].doc /\ reqs[s].op \in {"upload", "reindex"}}]
  /\ UNCHANGED <<rows, file, vectors, confs, drafts>>

Serve(s, d) ==
  \/ StoreFile(s, d) \/ RefuseUpload(s, d) \/ BreakEmbedding(s, d) \/ OpenVectors(s, d)
  \/ WriteVectors(s, d) \/ InsertRow(s, d)
  \/ BeginReindex(s, d) \/ FailReindex(s, d) \/ CommitIndex(s, d)
  \/ BeginDelete(s, d) \/ UnlinkFile(s, d) \/ UnlinkVectors(s, d) \/ DeleteRow(s, d)
  \/ \E c \in Conferences \cup {NoConference} : BeginUpload(s, d, c)

Next ==
  \/ \E s \in Slots :
       \/ \E d \in Docs : Serve(s, d)
       \/ Embed(s) \/ BeginChat(s) \/ Reply(s)
       \/ \E c \in Conferences : BeginDraft(s, c)
       \/ SaveDraft(s)
  \/ \E c \in Conferences : DeleteConference(c) \/ DeleteDraft(c)
  \/ Crash

Spec == Init /\ [][Next]_vars

-----------------------------------------------------------------------------
(* Properties                                                              *)

TypeOK ==
  /\ rows \in [Docs -> [state : States,
                        conference : Conferences \cup {NoConference}]]
  /\ file \in [Docs -> FileStates] /\ vectors \in [Docs -> FileStates]
  /\ confs \subseteq Conferences
  /\ drafts \in [Conferences -> Nat]
  /\ reqs \in [Slots -> Requests]
  /\ ledger \in [given : SUBSET Docs, doomed : SUBSET Docs, gone : SUBSET Docs,
                 torn : SUBSET Docs, left : SUBSET Docs]

\* A document that can be listed can be downloaded: its stored file is whole
\* from the moment its row appears until its deletion has begun, through
\* failing writes and crashes (upload_document, download_document).
RowHasFile ==
  \A d \in Docs : Exists(d) /\ d \notin ledger.doomed => file[d] = "whole"

\* A document in state Embedded has all its vectors, whatever reindexing
\* failed or is racing; the exceptions are a write in progress, one that was
\* cut short and two that overlapped, and a later reindex mends these.
EmbeddedHasVectors ==
  \A d \in Docs \ (ledger.torn \cup ledger.doomed) :
    rows[d].state = "Embedded" /\ Writing(d) = {} => vectors[d] = "whole"

\* Without a failing write, a crash, a conference deleted under a document or
\* a reindex that outlives a deletion, no file is left that belongs to no row
\* and no request: a refused upload and a deletion clean up after themselves.
OrphansExplained ==
  \A d \in Docs \ ledger.left :
    ~Exists(d) /\ ~Working(d) => file[d] = "absent" /\ vectors[d] = "absent"

\* A document whose deletion was answered never comes back, and neither does
\* its stored file, even when a reindex had loaded its row before.
DeletedForGood ==
  \A d \in ledger.gone : ~Exists(d) /\ file[d] = "absent"
=============================================================================
