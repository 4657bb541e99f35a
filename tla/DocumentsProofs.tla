---------------------------- MODULE DocumentsProofs ----------------------------
(***************************************************************************)
(* Proofs about Documents for any sets of documents, conferences and       *)
(* requests at work, and any number of crashes and failing writes.         *)
(*                                                                         *)
(* The properties speak of stored things only and are not inductive: that  *)
(* a file, its vectors and its row agree depends on how far each request   *)
(* that has to do with them has come.  IInv adds what a request knows, one *)
(* document at a time: a step concerns one document, and leaves the others *)
(* as they were (Frame).                                                   *)
(***************************************************************************)
EXTENDS Documents, TLAPS

Has(s, d) == d \in reqs[s].doc
Uploading(d) == \E s \in Slots : Has(s, d) /\ reqs[s].op = "upload"

\* Once the vectors of a document were written, they are whole unless they
\* are being written, were left torn or are being deleted.
Indexed(d) ==
  \/ vectors[d] = "whole" \/ Writing(d) # {}
  \/ d \in ledger.torn \/ d \in ledger.doomed

Shape ==
  /\ rows \in [Docs -> [state : States,
                        conference : Conferences \cup {NoConference}]]
  /\ file \in [Docs -> FileStates] /\ vectors \in [Docs -> FileStates]
  /\ confs \subseteq Conferences
  /\ reqs \in [Slots -> Requests]
  /\ ledger \in [given : SUBSET Docs, doomed : SUBSET Docs, gone : SUBSET Docs,
                 torn : SUBSET Docs, left : SUBSET Docs]

\* A request concerns at most one document, and these three kinds do.
OneDoc ==
  \A s \in Slots : \A d \in reqs[s].doc :
    reqs[s].doc = {d} /\ reqs[s].op \in {"upload", "reindex", "delete"}

\* An id that was not given out has left no trace.
FreshInv(d) ==
  d \notin ledger.given =>
    /\ ~Exists(d) /\ file[d] = "absent" /\ vectors[d] = "absent" /\ ~Working(d)
    /\ d \notin ledger.doomed

\* Nobody else has to do with a document that is being uploaded.
UploadInv(d) ==
  \A s \in Slots : Has(s, d) /\ reqs[s].op = "upload" =>
    /\ ~Exists(d) /\ d \notin ledger.doomed
    /\ \A t \in Slots \ {s} : ~Has(t, d)
    /\ reqs[s].pc \in {"store", "embed", "open", "write", "commit"}
    /\ reqs[s].pc # "store" => file[d] = "whole"
    /\ reqs[s].pc \in {"store", "embed", "open"} => vectors[d] = "absent"
    /\ reqs[s].pc = "commit" => Indexed(d)

ReindexInv(d) ==
  \A s \in Slots : Has(s, d) /\ reqs[s].op = "reindex" =>
    /\ reqs[s].pc \in {"embed", "open", "write", "commit"}
    /\ reqs[s].pc = "commit" => Indexed(d)

DeleteInv(d) ==
  \A s \in Slots : Has(s, d) /\ reqs[s].op = "delete" =>
    /\ reqs[s].pc \in {"unlink", "unlink vectors", "delete row"}
    /\ reqs[s].pc # "unlink" => d \in ledger.doomed
    /\ reqs[s].pc = "delete row" => vectors[d] = "absent" \/ d \in ledger.left

\* A clean write has the vector file to itself.
WriteInv(d) ==
  \A s \in Slots : Has(s, d) /\ reqs[s].pc = "write" =>
    /\ vectors[d] # "absent" \/ d \in ledger.doomed
    /\ IF reqs[s].clean THEN \A t \in Slots \ {s} : ~(Has(t, d) /\ reqs[t].pc = "write")
       ELSE d \in ledger.torn

DoomedInv(d) ==
  /\ d \in ledger.doomed => file[d] = "absent"
  /\ d \in ledger.gone => d \in ledger.doomed /\ ~Exists(d)

RowInv(d) ==
  Exists(d) =>
    /\ d \notin ledger.doomed => file[d] = "whole"
    /\ rows[d].state = "Embedded" => Indexed(d)

\* Without a row and an upload, a file is among those left behind.
LostInv(d) ==
  ~Exists(d) /\ ~Uploading(d) =>
    d \in ledger.left \/ (file[d] = "absent" /\ vectors[d] = "absent")

DocInv(d) ==
  /\ FreshInv(d) /\ UploadInv(d) /\ ReindexInv(d) /\ DeleteInv(d)
  /\ WriteInv(d) /\ DoomedInv(d) /\ RowInv(d) /\ LostInv(d)

IInv == Shape /\ OneDoc /\ \A d \in Docs : DocInv(d)

-----------------------------------------------------------------------------
LEMMA InitIInv == Init => IInv
<1> SUFFICES ASSUME Init PROVE IInv
  OBVIOUS
<1>1. Shape
  BY DocumentsAssumption DEF Init, Shape, Requests, NoRow, Idle, FileStates, Positions,
     States
<1>2. \A s \in Slots : reqs[s].doc = {} /\ reqs[s].pc = "idle"
  BY DEF Init, Idle
<1>3. ASSUME NEW d \in Docs PROVE DocInv(d)
  <2>1. ~Exists(d) /\ file[d] = "absent" /\ vectors[d] = "absent"
        /\ d \notin ledger.doomed /\ d \notin ledger.gone
    BY DEF Init, Exists, NoRow
  <2> QED
    BY <1>2, <2>1 DEF DocInv, FreshInv, UploadInv, ReindexInv, DeleteInv, WriteInv,
        DoomedInv, RowInv, LostInv, Uploading, Has, Working
<1> QED
  BY <1>1, <1>2, <1>3 DEF IInv, OneDoc

\* Nothing about d has changed.
Untouched(d) ==
  /\ rows'[d] = rows[d] /\ file'[d] = file[d] /\ vectors'[d] = vectors[d]
  /\ d \in ledger'.given <=> d \in ledger.given
  /\ d \in ledger'.doomed <=> d \in ledger.doomed
  /\ d \in ledger'.gone <=> d \in ledger.gone
  /\ d \in ledger'.torn <=> d \in ledger.torn
  /\ d \in ledger'.left <=> d \in ledger.left
  /\ \A s \in Slots : reqs'[s] = reqs[s] \/ (~Has(s, d) /\ ~Has(s, d)')

\* A step that does not touch a document keeps its invariant.
LEMMA Frame ==
  ASSUME NEW d \in Docs, DocInv(d), Untouched(d) PROVE DocInv(d)'
<1>1. /\ Exists(d)' <=> Exists(d)
      /\ \A s \in Slots : Has(s, d)' <=> Has(s, d)
      /\ \A s \in Slots : Has(s, d) => reqs'[s] = reqs[s]
  BY DEF Untouched, Exists, Has
<1>2. Writing(d)' = Writing(d)
  BY <1>1 DEF Writing, Has
<1>3. /\ Working(d)' <=> Working(d)
      /\ Uploading(d)' <=> Uploading(d)
  BY <1>1 DEF Working, Uploading, Has
<1>4. Indexed(d)' <=> Indexed(d)
  BY <1>2 DEF Untouched, Indexed
<1>5. FreshInv(d)' /\ DoomedInv(d)' /\ RowInv(d)' /\ LostInv(d)'
  BY <1>1, <1>3, <1>4 DEF Untouched, DocInv, FreshInv, DoomedInv, RowInv, LostInv
<1>6. UploadInv(d)'
  BY <1>1, <1>4 DEF Untouched, DocInv, UploadInv
<1>7. ReindexInv(d)'
  BY <1>1, <1>4 DEF Untouched, DocInv, ReindexInv
<1>8. DeleteInv(d)'
  BY <1>1 DEF Untouched, DocInv, DeleteInv
<1>9. WriteInv(d)'
  BY <1>1 DEF Untouched, DocInv, WriteInv
<1> QED
  BY <1>5, <1>6, <1>7, <1>8, <1>9 DEF DocInv

-----------------------------------------------------------------------------
(* What the request s becomes                                              *)

\* Request s gets this position, kind and document, the others stay.
Becomes(s, op, pc, doc) ==
  /\ reqs' \in [Slots -> Requests]
  /\ reqs'[s].op = op /\ reqs'[s].pc = pc /\ reqs'[s].doc = doc
  /\ \A t \in Slots \ {s} : reqs'[t] = reqs[t]

LEMMA BeginBecomes ==
  ASSUME Shape, NEW s \in Slots, NEW new \in Requests, Begin(s, new)
  PROVE  Becomes(s, new.op, new.pc, new.doc) /\ reqs[s].op = "none"
BY DEF Shape, Begin, Busy, Becomes

LEMMA GotoBecomes ==
  ASSUME Shape, NEW s \in Slots, NEW pc \in Positions, Goto(s, pc)
  PROVE  Becomes(s, reqs[s].op, pc, reqs[s].doc) /\ reqs'[s].clean = reqs[s].clean
BY DEF Shape, Goto, Requests, Becomes

LEMMA AnswerBecomes ==
  ASSUME Shape, NEW s \in Slots, Answer(s)
  PROVE  Becomes(s, "none", "idle", {})
BY DEF Shape, Answer, Requests, Idle, Positions, States, Becomes

\* A step of one request on one document.
StepOn(d) ==
  Shape' /\ OneDoc' /\ DocInv(d)' /\ \A e \in Docs \ {d} : Untouched(e)

LEMMA OneStep ==
  ASSUME IInv, NEW d \in Docs, StepOn(d) PROVE IInv'
BY Frame DEF IInv, StepOn

-----------------------------------------------------------------------------
(* The steps of the requests on a document                                 *)

LEMMA IndexStates == \A d \in Docs : IndexState(d) \in {"No Text", "Embedded"}
BY DEF IndexState

LEMMA BeginUploadStep ==
  ASSUME IInv, NEW s \in Slots, NEW d \in Docs,
         NEW c \in Conferences \cup {NoConference}, BeginUpload(s, d, c)
  PROVE  StepOn(d)
<1>1. DocInv(d)
  BY DEF IInv
<1>2. /\ d \notin ledger.given /\ d \notin ledger.doomed /\ d \notin ledger.gone /\ ~Exists(d)
      /\ vectors[d] = "absent" /\ file[d] = "absent"
      /\ \A t \in Slots : ~Has(t, d)
  BY <1>1 DEF BeginUpload, At, IInv, DocInv, FreshInv, UploadInv, ReindexInv, DeleteInv,
     WriteInv, DoomedInv, RowInv, Has, Exists, Working
<1>3. [Idle EXCEPT !.op = "upload", !.pc = "store", !.doc = {d}, !.conference = c] \in Requests
  BY DEF Idle, Requests, Positions, States
<1>4. Becomes(s, "upload", "store", {d}) /\ reqs[s].doc = {}
  BY <1>1, <1>2, <1>3, BeginBecomes DEF BeginUpload, IInv, Idle, OneDoc
<1>5. /\ rows' = rows
      /\ vectors' = vectors
      /\ file'[d] = "torn"
      /\ ledger'.doomed = ledger.doomed /\ ledger'.gone = ledger.gone
      /\ ledger'.torn = ledger.torn /\ ledger'.left = ledger.left
      /\ d \in ledger'.given
  BY <1>1, <1>2 DEF BeginUpload, IInv, Shape, Record, SetState, Exists, NoRow
<1>6. Shape'
  BY <1>1, <1>2, <1>5, <1>4 DEF BeginUpload, IInv, Shape, Becomes, Record, SetState,
     FileStates, NoRow, States
<1>7. OneDoc'
  BY <1>4 DEF IInv, OneDoc, Becomes
<1>8. ASSUME NEW e \in Docs \ {d} PROVE Untouched(e)
  BY <1>1, <1>2, <1>5, <1>4 DEF BeginUpload, IInv, Shape, Untouched, Has, Becomes, Record,
     SetState
<1>9. FreshInv(d)' /\ DoomedInv(d)'
  BY <1>1, <1>2, <1>5, <1>4 DEF DocInv, FreshInv, DoomedInv, Has, Exists, Working, Becomes
<1>10. UploadInv(d)'
  BY <1>1, <1>2, <1>5, <1>4 DEF DocInv, UploadInv, Has, Exists, Indexed, Writing, Becomes
<1>11. ReindexInv(d)'
  BY <1>1, <1>2, <1>5, <1>4 DEF DocInv, ReindexInv, Has, Indexed, Writing, Becomes
<1>12. DeleteInv(d)'
  BY <1>1, <1>2, <1>5, <1>4 DEF DocInv, DeleteInv, Has, Becomes
<1>13. WriteInv(d)'
  BY <1>1, <1>2, <1>5, <1>4 DEF DocInv, WriteInv, Has, Becomes
<1>14. RowInv(d)'
  BY <1>1, <1>2, <1>5, <1>4 DEF DocInv, RowInv, Exists, Indexed, Has, Writing, Becomes
<1>15. LostInv(d)'
  BY <1>1, <1>2, <1>5, <1>4 DEF DocInv, LostInv, Exists, Uploading, Has, Becomes
<1> QED
  BY <1>6, <1>7, <1>8, <1>9, <1>10, <1>11, <1>12, <1>13, <1>14, <1>15 DEF StepOn, DocInv

LEMMA StoreFileStep ==
  ASSUME IInv, NEW s \in Slots, NEW d \in Docs, StoreFile(s, d)
  PROVE  StepOn(d)
<1>1. DocInv(d)
  BY DEF IInv
<1>2. CASE file' = [file EXCEPT ![d] = "whole"] /\ Goto(s, "embed") /\ UNCHANGED <<faults, ledger>>
  <2>1. /\ reqs[s].op = "upload" /\ reqs[s].pc = "store" /\ reqs[s].doc = {d}
        /\ d \in ledger.given /\ d \notin ledger.doomed /\ ~Exists(d) /\ vectors[d] = "absent"
        /\ \A t \in Slots \ {s} : ~Has(t, d)
    BY <1>1, <1>2 DEF StoreFile, At, IInv, DocInv, FreshInv, UploadInv, ReindexInv,
       DeleteInv, WriteInv, DoomedInv, RowInv, Has, Exists, Working
  <2>2. Becomes(s, "upload", "embed", {d})
    BY <1>1, <1>2, <2>1, GotoBecomes DEF StoreFile, IInv, Positions, SetState
  <2>3. /\ rows' = rows
        /\ vectors' = vectors
        /\ ledger' = ledger
        /\ file'[d] = "whole"
    BY <1>1, <1>2, <2>1 DEF StoreFile, IInv, Shape, Record, SetState, Exists, NoRow
  <2>4. Shape'
    BY <1>1, <1>2, <2>1, <2>3, <2>2 DEF StoreFile, IInv, Shape, Becomes, Record, SetState,
       FileStates, NoRow, States
  <2>5. OneDoc'
    BY <2>2 DEF IInv, OneDoc, Becomes
  <2>6. ASSUME NEW e \in Docs \ {d} PROVE Untouched(e)
    BY <1>1, <1>2, <2>1, <2>3, <2>2 DEF StoreFile, IInv, Shape, Untouched, Has, Becomes,
       Record, SetState
  <2>7. FreshInv(d)' /\ DoomedInv(d)'
    BY <1>1, <1>2, <2>1, <2>3, <2>2 DEF DocInv, FreshInv, DoomedInv, Has, Exists, Working,
       Becomes
  <2>8. UploadInv(d)'
    BY <1>1, <1>2, <2>1, <2>3, <2>2 DEF DocInv, UploadInv, Has, Exists, Indexed, Writing,
       Becomes
  <2>9. ReindexInv(d)'
    BY <1>1, <1>2, <2>1, <2>3, <2>2 DEF DocInv, ReindexInv, Has, Indexed, Writing, Becomes
  <2>10. DeleteInv(d)'
    BY <1>1, <1>2, <2>1, <2>3, <2>2 DEF DocInv, DeleteInv, Has, Becomes
  <2>11. WriteInv(d)'
    BY <1>1, <1>2, <2>1, <2>3, <2>2 DEF DocInv, WriteInv, Has, Becomes
  <2>12. RowInv(d)'
    BY <1>1, <1>2, <2>1, <2>3, <2>2 DEF DocInv, RowInv, Exists, Indexed, Has, Writing,
       Becomes
  <2>13. LostInv(d)'
    BY <1>1, <1>2, <2>1, <2>3, <2>2 DEF DocInv, LostInv, Exists, Uploading, Has, Becomes
  <2> QED
    BY <2>4, <2>5, <2>6, <2>7, <2>8, <2>9, <2>10, <2>11, <2>12, <2>13 DEF StepOn, DocInv
<1>3. CASE Fault /\ Answer(s) /\ Record("left", {d}) /\ UNCHANGED file
  <2>1. /\ reqs[s].op = "upload" /\ reqs[s].pc = "store" /\ reqs[s].doc = {d}
        /\ d \in ledger.given /\ d \notin ledger.doomed /\ ~Exists(d) /\ vectors[d] = "absent"
        /\ \A t \in Slots \ {s} : ~Has(t, d)
    BY <1>1, <1>3 DEF StoreFile, At, IInv, DocInv, FreshInv, UploadInv, ReindexInv,
       DeleteInv, WriteInv, DoomedInv, RowInv, Has, Exists, Working
  <2>2. Becomes(s, "none", "idle", {})
    BY <1>1, <1>3, <2>1, AnswerBecomes DEF StoreFile, IInv, Positions, SetState
  <2>3. /\ rows' = rows
        /\ file' = file
        /\ vectors' = vectors
        /\ ledger'.given = ledger.given /\ ledger'.doomed = ledger.doomed
        /\ ledger'.gone = ledger.gone /\ ledger'.torn = ledger.torn
        /\ d \in ledger'.left
    BY <1>1, <1>3, <2>1 DEF StoreFile, IInv, Shape, Record, SetState, Exists, NoRow
  <2>4. Shape'
    BY <1>1, <1>3, <2>1, <2>3, <2>2 DEF StoreFile, IInv, Shape, Becomes, Record, SetState,
       FileStates, NoRow, States
  <2>5. OneDoc'
    BY <2>2 DEF IInv, OneDoc, Becomes
  <2>6. ASSUME NEW e \in Docs \ {d} PROVE Untouched(e)
    BY <1>1, <1>3, <2>1, <2>3, <2>2 DEF StoreFile, IInv, Shape, Untouched, Has, Becomes,
       Record, SetState
  <2>7. FreshInv(d)' /\ DoomedInv(d)'
    BY <1>1, <1>3, <2>1, <2>3, <2>2 DEF DocInv, FreshInv, DoomedInv, Has, Exists, Working,
       Becomes
  <2>8. UploadInv(d)'
    BY <1>1, <1>3, <2>1, <2>3, <2>2 DEF DocInv, UploadInv, Has, Exists, Indexed, Writing,
       Becomes
  <2>9. ReindexInv(d)'
    BY <1>1, <1>3, <2>1, <2>3, <2>2 DEF DocInv, ReindexInv, Has, Indexed, Writing, Becomes
  <2>10. DeleteInv(d)'
    BY <1>1, <1>3, <2>1, <2>3, <2>2 DEF DocInv, DeleteInv, Has, Becomes
  <2>11. WriteInv(d)'
    BY <1>1, <1>3, <2>1, <2>3, <2>2 DEF DocInv, WriteInv, Has, Becomes
  <2>12. RowInv(d)'
    BY <1>1, <1>3, <2>1, <2>3, <2>2 DEF DocInv, RowInv, Exists, Indexed, Has, Writing,
       Becomes
  <2>13. LostInv(d)'
    BY <1>1, <1>3, <2>1, <2>3, <2>2 DEF DocInv, LostInv, Exists, Uploading, Has, Becomes
  <2> QED
    BY <2>4, <2>5, <2>6, <2>7, <2>8, <2>9, <2>10, <2>11, <2>12, <2>13 DEF StepOn, DocInv
<1> QED
  BY <1>2, <1>3 DEF StoreFile

LEMMA RefuseUploadStep ==
  ASSUME IInv, NEW s \in Slots, NEW d \in Docs, RefuseUpload(s, d)
  PROVE  StepOn(d)
<1>1. DocInv(d)
  BY DEF IInv
<1>2. /\ reqs[s].op = "upload" /\ reqs[s].pc = "embed" /\ reqs[s].doc = {d}
      /\ d \in ledger.given /\ d \notin ledger.doomed /\ ~Exists(d) /\ vectors[d] = "absent"
      /\ \A t \in Slots \ {s} : ~Has(t, d)
  BY <1>1 DEF RefuseUpload, At, IInv, DocInv, FreshInv, UploadInv, ReindexInv, DeleteInv,
     WriteInv, DoomedInv, RowInv, Has, Exists, Working
<1>3. Becomes(s, "none", "idle", {})
  BY <1>1, <1>2, AnswerBecomes DEF RefuseUpload, IInv, Positions, SetState
<1>4. /\ rows' = rows
      /\ vectors' = vectors
      /\ ledger' = ledger
      /\ file'[d] = "absent"
  BY <1>1, <1>2 DEF RefuseUpload, IInv, Shape, Record, SetState, Exists, NoRow
<1>5. Shape'
  BY <1>1, <1>2, <1>4, <1>3 DEF RefuseUpload, IInv, Shape, Becomes, Record, SetState,
     FileStates, NoRow, States
<1>6. OneDoc'
  BY <1>3 DEF IInv, OneDoc, Becomes
<1>7. ASSUME NEW e \in Docs \ {d} PROVE Untouched(e)
  BY <1>1, <1>2, <1>4, <1>3 DEF RefuseUpload, IInv, Shape, Untouched, Has, Becomes, Record,
     SetState
<1>8. FreshInv(d)' /\ DoomedInv(d)'
  BY <1>1, <1>2, <1>4, <1>3 DEF DocInv, FreshInv, DoomedInv, Has, Exists, Working, Becomes
<1>9. UploadInv(d)'
  BY <1>1, <1>2, <1>4, <1>3 DEF DocInv, UploadInv, Has, Exists, Indexed, Writing, Becomes
<1>10. ReindexInv(d)'
  BY <1>1, <1>2, <1>4, <1>3 DEF DocInv, ReindexInv, Has, Indexed, Writing, Becomes
<1>11. DeleteInv(d)'
  BY <1>1, <1>2, <1>4, <1>3 DEF DocInv, DeleteInv, Has, Becomes
<1>12. WriteInv(d)'
  BY <1>1, <1>2, <1>4, <1>3 DEF DocInv, WriteInv, Has, Becomes
<1>13. RowInv(d)'
  BY <1>1, <1>2, <1>4, <1>3 DEF DocInv, RowInv, Exists, Indexed, Has, Writing, Becomes
<1>14. LostInv(d)'
  BY <1>1, <1>2, <1>4, <1>3 DEF DocInv, LostInv, Exists, Uploading, Has, Becomes
<1> QED
  BY <1>5, <1>6, <1>7, <1>8, <1>9, <1>10, <1>11, <1>12, <1>13, <1>14 DEF StepOn, DocInv

LEMMA BreakEmbeddingStep ==
  ASSUME IInv, NEW s \in Slots, NEW d \in Docs, BreakEmbedding(s, d)
  PROVE  StepOn(d)
<1>1. DocInv(d)
  BY DEF IInv
<1>2. CASE reqs[s].op = "upload" /\ Record("left", {d})
  <2>1. /\ reqs[s].op = "upload" /\ reqs[s].pc = "embed" /\ reqs[s].doc = {d}
        /\ d \in ledger.given /\ d \notin ledger.doomed /\ ~Exists(d) /\ vectors[d] = "absent"
        /\ \A t \in Slots \ {s} : ~Has(t, d)
    BY <1>1, <1>2 DEF BreakEmbedding, At, IInv, DocInv, FreshInv, UploadInv, ReindexInv,
       DeleteInv, WriteInv, DoomedInv, RowInv, Has, Exists, Working
  <2>2. Becomes(s, "none", "idle", {})
    BY <1>1, <1>2, <2>1, AnswerBecomes DEF BreakEmbedding, IInv, Positions, SetState
  <2>3. /\ rows' = rows
        /\ file' = file
        /\ vectors' = vectors
        /\ ledger'.given = ledger.given /\ ledger'.doomed = ledger.doomed
        /\ ledger'.gone = ledger.gone /\ ledger'.torn = ledger.torn
        /\ d \in ledger'.left
    BY <1>1, <1>2, <2>1 DEF BreakEmbedding, IInv, Shape, Record, SetState, Exists, NoRow
  <2>4. Shape'
    BY <1>1, <1>2, <2>1, <2>3, <2>2 DEF BreakEmbedding, IInv, Shape, Becomes, Record,
       SetState, FileStates, NoRow, States
  <2>5. OneDoc'
    BY <2>2 DEF IInv, OneDoc, Becomes
  <2>6. ASSUME NEW e \in Docs \ {d} PROVE Untouched(e)
    BY <1>1, <1>2, <2>1, <2>3, <2>2 DEF BreakEmbedding, IInv, Shape, Untouched, Has,
       Becomes, Record, SetState
  <2>7. FreshInv(d)' /\ DoomedInv(d)'
    BY <1>1, <1>2, <2>1, <2>3, <2>2 DEF DocInv, FreshInv, DoomedInv, Has, Exists, Working,
       Becomes
  <2>8. UploadInv(d)'
    BY <1>1, <1>2, <2>1, <2>3, <2>2 DEF DocInv, UploadInv, Has, Exists, Indexed, Writing,
       Becomes
  <2>9. ReindexInv(d)'
    BY <1>1, <1>2, <2>1, <2>3, <2>2 DEF DocInv, ReindexInv, Has, Indexed, Writing, Becomes
  <2>10. DeleteInv(d)'
    BY <1>1, <1>2, <2>1, <2>3, <2>2 DEF DocInv, DeleteInv, Has, Becomes
  <2>11. WriteInv(d)'
    BY <1>1, <1>2, <2>1, <2>3, <2>2 DEF DocInv, WriteInv, Has, Becomes
  <2>12. RowInv(d)'
    BY <1>1, <1>2, <2>1, <2>3, <2>2 DEF DocInv, RowInv, Exists, Indexed, Has, Writing,
       Becomes
  <2>13. LostInv(d)'
    BY <1>1, <1>2, <2>1, <2>3, <2>2 DEF DocInv, LostInv, Exists, Uploading, Has, Becomes
  <2> QED
    BY <2>4, <2>5, <2>6, <2>7, <2>8, <2>9, <2>10, <2>11, <2>12, <2>13 DEF StepOn, DocInv
<1>3. CASE reqs[s].op # "upload" /\ UNCHANGED ledger
  <2>1. /\ reqs[s].doc = {d} /\ reqs[s].pc = "embed"
        /\ \A t \in Slots : Has(t, d) => reqs[t].op # "upload"
    BY <1>1, <1>3 DEF BreakEmbedding, At, IInv, DocInv, FreshInv, UploadInv, ReindexInv,
       DeleteInv, WriteInv, DoomedInv, RowInv, Has, Exists, Working, OneDoc
  <2>2. Becomes(s, "none", "idle", {})
    BY <1>1, <1>3, <2>1, AnswerBecomes DEF BreakEmbedding, IInv, Positions, SetState
  <2>3. /\ rows' = rows
        /\ file' = file
        /\ vectors' = vectors
        /\ ledger' = ledger
    BY <1>1, <1>3, <2>1 DEF BreakEmbedding, IInv, Shape, Record, SetState, Exists, NoRow
  <2>4. Shape'
    BY <1>1, <1>3, <2>1, <2>3, <2>2 DEF BreakEmbedding, IInv, Shape, Becomes, Record,
       SetState, FileStates, NoRow, States
  <2>5. OneDoc'
    BY <2>2 DEF IInv, OneDoc, Becomes
  <2>6. ASSUME NEW e \in Docs \ {d} PROVE Untouched(e)
    BY <1>1, <1>3, <2>1, <2>3, <2>2 DEF BreakEmbedding, IInv, Shape, Untouched, Has,
       Becomes, Record, SetState
  <2>7. FreshInv(d)' /\ DoomedInv(d)'
    BY <1>1, <1>3, <2>1, <2>3, <2>2 DEF DocInv, FreshInv, DoomedInv, Has, Exists, Working,
       Becomes
  <2>8. UploadInv(d)'
    BY <1>1, <1>3, <2>1, <2>3, <2>2 DEF DocInv, UploadInv, Has, Exists, Indexed, Writing,
       Becomes
  <2>9. ReindexInv(d)'
    BY <1>1, <1>3, <2>1, <2>3, <2>2 DEF DocInv, ReindexInv, Has, Indexed, Writing, Becomes
  <2>10. DeleteInv(d)'
    BY <1>1, <1>3, <2>1, <2>3, <2>2 DEF DocInv, DeleteInv, Has, Becomes
  <2>11. WriteInv(d)'
    BY <1>1, <1>3, <2>1, <2>3, <2>2 DEF DocInv, WriteInv, Has, Becomes
  <2>12. RowInv(d)'
    BY <1>1, <1>3, <2>1, <2>3, <2>2 DEF DocInv, RowInv, Exists, Indexed, Has, Writing,
       Becomes
  <2>13. LostInv(d)'
    BY <1>1, <1>3, <2>1, <2>3, <2>2 DEF DocInv, LostInv, Exists, Uploading, Has, Becomes
  <2> QED
    BY <2>4, <2>5, <2>6, <2>7, <2>8, <2>9, <2>10, <2>11, <2>12, <2>13 DEF StepOn, DocInv
<1> QED
  BY <1>2, <1>3 DEF BreakEmbedding, IInv, DocInv, FreshInv, UploadInv, ReindexInv,
     DeleteInv, WriteInv, DoomedInv, RowInv, Has, Exists, Working, OneDoc

LEMMA InsertRowStep ==
  ASSUME IInv, NEW s \in Slots, NEW d \in Docs, InsertRow(s, d)
  PROVE  StepOn(d)
<1>1. DocInv(d)
  BY DEF IInv
<1>2. CASE /\ reqs[s].conference \in confs \cup {NoConference} /\ UNCHANGED ledger
          /\ rows' = [rows EXCEPT ![d] = [state |-> IndexState(d), conference |-> reqs[s].conference]]
  <2>1. /\ reqs[s].op = "upload" /\ reqs[s].pc = "commit" /\ reqs[s].doc = {d}
        /\ d \in ledger.given /\ d \notin ledger.doomed /\ ~Exists(d) /\ d \notin ledger.gone /\ Indexed(d)
        /\ \A t \in Slots \ {s} : ~Has(t, d)
        /\ file[d] = "whole"
    BY <1>1, <1>2 DEF InsertRow, At, IInv, DocInv, FreshInv, UploadInv, ReindexInv,
       DeleteInv, WriteInv, DoomedInv, RowInv, Has, Exists, Working
  <2>2. Becomes(s, "none", "idle", {})
    BY <1>1, <1>2, <2>1, AnswerBecomes DEF InsertRow, IInv, Positions, SetState
  <2>3. /\ file' = file
        /\ vectors' = vectors
        /\ ledger' = ledger
        /\ Exists(d)'
    BY <1>1, <1>2, <2>1, IndexStates DEF InsertRow, IInv, Shape, Record, SetState, Exists,
       NoRow
  <2>4. Shape'
    BY <1>1, <1>2, <2>1, <2>3, <2>2, IndexStates DEF InsertRow, IInv, Shape, Becomes,
       Record, SetState, FileStates, NoRow, States
  <2>5. OneDoc'
    BY <2>2 DEF IInv, OneDoc, Becomes
  <2>6. ASSUME NEW e \in Docs \ {d} PROVE Untouched(e)
    BY <1>1, <1>2, <2>1, <2>3, <2>2 DEF InsertRow, IInv, Shape, Untouched, Has, Becomes,
       Record, SetState
  <2>7. FreshInv(d)' /\ DoomedInv(d)'
    BY <1>1, <1>2, <2>1, <2>3, <2>2 DEF DocInv, FreshInv, DoomedInv, Has, Exists, Working,
       Becomes
  <2>8. UploadInv(d)'
    BY <1>1, <1>2, <2>1, <2>3, <2>2 DEF DocInv, UploadInv, Has, Exists, Indexed, Writing,
       Becomes
  <2>9. ReindexInv(d)'
    BY <1>1, <1>2, <2>1, <2>3, <2>2 DEF DocInv, ReindexInv, Has, Indexed, Writing, Becomes
  <2>10. DeleteInv(d)'
    BY <1>1, <1>2, <2>1, <2>3, <2>2 DEF DocInv, DeleteInv, Has, Becomes
  <2>11. WriteInv(d)'
    BY <1>1, <1>2, <2>1, <2>3, <2>2 DEF DocInv, WriteInv, Has, Becomes
  <2>12. RowInv(d)'
    BY <1>1, <1>2, <2>1, <2>3, <2>2 DEF DocInv, RowInv, Exists, Indexed, Has, Writing,
       Becomes
  <2>13. LostInv(d)'
    BY <1>1, <1>2, <2>1, <2>3, <2>2 DEF DocInv, LostInv, Exists, Uploading, Has, Becomes
  <2> QED
    BY <2>4, <2>5, <2>6, <2>7, <2>8, <2>9, <2>10, <2>11, <2>12, <2>13 DEF StepOn, DocInv
<1>3. CASE Record("left", {d}) /\ UNCHANGED rows
  <2>1. /\ reqs[s].op = "upload" /\ reqs[s].pc = "commit" /\ reqs[s].doc = {d}
        /\ d \in ledger.given /\ d \notin ledger.doomed /\ ~Exists(d)
        /\ \A t \in Slots \ {s} : ~Has(t, d)
    BY <1>1, <1>3 DEF InsertRow, At, IInv, DocInv, FreshInv, UploadInv, ReindexInv,
       DeleteInv, WriteInv, DoomedInv, RowInv, Has, Exists, Working
  <2>2. Becomes(s, "none", "idle", {})
    BY <1>1, <1>3, <2>1, AnswerBecomes DEF InsertRow, IInv, Positions, SetState
  <2>3. /\ rows' = rows
        /\ file' = file
        /\ vectors' = vectors
        /\ ledger'.given = ledger.given /\ ledger'.doomed = ledger.doomed
        /\ ledger'.gone = ledger.gone /\ ledger'.torn = ledger.torn
        /\ d \in ledger'.left
    BY <1>1, <1>3, <2>1, IndexStates DEF InsertRow, IInv, Shape, Record, SetState, Exists,
       NoRow
  <2>4. Shape'
    BY <1>1, <1>3, <2>1, <2>3, <2>2, IndexStates DEF InsertRow, IInv, Shape, Becomes,
       Record, SetState, FileStates, NoRow, States
  <2>5. OneDoc'
    BY <2>2 DEF IInv, OneDoc, Becomes
  <2>6. ASSUME NEW e \in Docs \ {d} PROVE Untouched(e)
    BY <1>1, <1>3, <2>1, <2>3, <2>2 DEF InsertRow, IInv, Shape, Untouched, Has, Becomes,
       Record, SetState
  <2>7. FreshInv(d)' /\ DoomedInv(d)'
    BY <1>1, <1>3, <2>1, <2>3, <2>2 DEF DocInv, FreshInv, DoomedInv, Has, Exists, Working,
       Becomes
  <2>8. UploadInv(d)'
    BY <1>1, <1>3, <2>1, <2>3, <2>2 DEF DocInv, UploadInv, Has, Exists, Indexed, Writing,
       Becomes
  <2>9. ReindexInv(d)'
    BY <1>1, <1>3, <2>1, <2>3, <2>2 DEF DocInv, ReindexInv, Has, Indexed, Writing, Becomes
  <2>10. DeleteInv(d)'
    BY <1>1, <1>3, <2>1, <2>3, <2>2 DEF DocInv, DeleteInv, Has, Becomes
  <2>11. WriteInv(d)'
    BY <1>1, <1>3, <2>1, <2>3, <2>2 DEF DocInv, WriteInv, Has, Becomes
  <2>12. RowInv(d)'
    BY <1>1, <1>3, <2>1, <2>3, <2>2 DEF DocInv, RowInv, Exists, Indexed, Has, Writing,
       Becomes
  <2>13. LostInv(d)'
    BY <1>1, <1>3, <2>1, <2>3, <2>2 DEF DocInv, LostInv, Exists, Uploading, Has, Becomes
  <2> QED
    BY <2>4, <2>5, <2>6, <2>7, <2>8, <2>9, <2>10, <2>11, <2>12, <2>13 DEF StepOn, DocInv
<1> QED
  BY <1>2, <1>3 DEF InsertRow

LEMMA BeginReindexStep ==
  ASSUME IInv, NEW s \in Slots, NEW d \in Docs, BeginReindex(s, d)
  PROVE  StepOn(d)
<1>1. DocInv(d)
  BY DEF IInv
<1>2. /\ Exists(d) /\ d \in ledger.given
      /\ \A t \in Slots : Has(t, d) => reqs[t].op # "upload"
  BY <1>1 DEF BeginReindex, At, IInv, DocInv, FreshInv, UploadInv, ReindexInv, DeleteInv,
     WriteInv, DoomedInv, RowInv, Has, Exists, Working
<1>3. [Idle EXCEPT !.op = "reindex", !.pc = "embed", !.doc = {d}, !.loaded = rows[d].state]
        \in Requests
  <2>1. rows[d].state \in States
    BY DEF IInv, Shape
  <2> QED
    BY <2>1 DEF Idle, Requests, Positions, States
<1>4. Becomes(s, "reindex", "embed", {d}) /\ reqs[s].doc = {}
  BY <1>1, <1>2, <1>3, BeginBecomes DEF BeginReindex, IInv, Idle, OneDoc
<1>5. /\ rows' = rows
      /\ file' = file
      /\ vectors' = vectors
      /\ ledger' = ledger
  BY <1>1, <1>2 DEF BeginReindex, IInv, Shape, Record, SetState, Exists, NoRow
<1>6. Shape'
  BY <1>1, <1>2, <1>5, <1>4 DEF BeginReindex, IInv, Shape, Becomes, Record, SetState,
     FileStates, NoRow, States
<1>7. OneDoc'
  BY <1>4 DEF IInv, OneDoc, Becomes
<1>8. ASSUME NEW e \in Docs \ {d} PROVE Untouched(e)
  BY <1>1, <1>2, <1>5, <1>4 DEF BeginReindex, IInv, Shape, Untouched, Has, Becomes, Record,
     SetState
<1>9. FreshInv(d)' /\ DoomedInv(d)'
  BY <1>1, <1>2, <1>5, <1>4 DEF DocInv, FreshInv, DoomedInv, Has, Exists, Working, Becomes
<1>10. UploadInv(d)'
  BY <1>1, <1>2, <1>5, <1>4 DEF DocInv, UploadInv, Has, Exists, Indexed, Writing, Becomes
<1>11. ReindexInv(d)'
  BY <1>1, <1>2, <1>5, <1>4 DEF DocInv, ReindexInv, Has, Indexed, Writing, Becomes
<1>12. DeleteInv(d)'
  BY <1>1, <1>2, <1>5, <1>4 DEF DocInv, DeleteInv, Has, Becomes
<1>13. WriteInv(d)'
  BY <1>1, <1>2, <1>5, <1>4 DEF DocInv, WriteInv, Has, Becomes
<1>14. RowInv(d)'
  BY <1>1, <1>2, <1>5, <1>4 DEF DocInv, RowInv, Exists, Indexed, Has, Writing, Becomes
<1>15. LostInv(d)'
  BY <1>1, <1>2, <1>5, <1>4 DEF DocInv, LostInv, Exists, Uploading, Has, Becomes
<1> QED
  BY <1>6, <1>7, <1>8, <1>9, <1>10, <1>11, <1>12, <1>13, <1>14, <1>15 DEF StepOn, DocInv

LEMMA BeginDeleteStep ==
  ASSUME IInv, NEW s \in Slots, NEW d \in Docs, BeginDelete(s, d)
  PROVE  StepOn(d)
<1>1. DocInv(d)
  BY DEF IInv
<1>2. /\ Exists(d) /\ d \in ledger.given
      /\ \A t \in Slots : Has(t, d) => reqs[t].op # "upload"
  BY <1>1 DEF BeginDelete, At, IInv, DocInv, FreshInv, UploadInv, ReindexInv, DeleteInv,
     WriteInv, DoomedInv, RowInv, Has, Exists, Working
<1>3. [Idle EXCEPT !.op = "delete", !.pc = "unlink", !.doc = {d}] \in Requests
  BY DEF Idle, Requests, Positions, States
<1>4. Becomes(s, "delete", "unlink", {d}) /\ reqs[s].doc = {}
  BY <1>1, <1>2, <1>3, BeginBecomes DEF BeginDelete, IInv, Idle, OneDoc
<1>5. /\ rows' = rows
      /\ file' = file
      /\ vectors' = vectors
      /\ ledger' = ledger
  BY <1>1, <1>2 DEF BeginDelete, IInv, Shape, Record, SetState, Exists, NoRow
<1>6. Shape'
  BY <1>1, <1>2, <1>5, <1>4 DEF BeginDelete, IInv, Shape, Becomes, Record, SetState,
     FileStates, NoRow, States
<1>7. OneDoc'
  BY <1>4 DEF IInv, OneDoc, Becomes
<1>8. ASSUME NEW e \in Docs \ {d} PROVE Untouched(e)
  BY <1>1, <1>2, <1>5, <1>4 DEF BeginDelete, IInv, Shape, Untouched, Has, Becomes, Record,
     SetState
<1>9. FreshInv(d)' /\ DoomedInv(d)'
  BY <1>1, <1>2, <1>5, <1>4 DEF DocInv, FreshInv, DoomedInv, Has, Exists, Working, Becomes
<1>10. UploadInv(d)'
  BY <1>1, <1>2, <1>5, <1>4 DEF DocInv, UploadInv, Has, Exists, Indexed, Writing, Becomes
<1>11. ReindexInv(d)'
  BY <1>1, <1>2, <1>5, <1>4 DEF DocInv, ReindexInv, Has, Indexed, Writing, Becomes
<1>12. DeleteInv(d)'
  BY <1>1, <1>2, <1>5, <1>4 DEF DocInv, DeleteInv, Has, Becomes
<1>13. WriteInv(d)'
  BY <1>1, <1>2, <1>5, <1>4 DEF DocInv, WriteInv, Has, Becomes
<1>14. RowInv(d)'
  BY <1>1, <1>2, <1>5, <1>4 DEF DocInv, RowInv, Exists, Indexed, Has, Writing, Becomes
<1>15. LostInv(d)'
  BY <1>1, <1>2, <1>5, <1>4 DEF DocInv, LostInv, Exists, Uploading, Has, Becomes
<1> QED
  BY <1>6, <1>7, <1>8, <1>9, <1>10, <1>11, <1>12, <1>13, <1>14, <1>15 DEF StepOn, DocInv

LEMMA FailReindexStep ==
  ASSUME IInv, NEW s \in Slots, NEW d \in Docs, FailReindex(s, d)
  PROVE  StepOn(d)
<1>1. DocInv(d)
  BY DEF IInv
<1>2. /\ reqs[s].op = "reindex" /\ reqs[s].pc = "embed" /\ reqs[s].doc = {d}
      /\ \A t \in Slots : Has(t, d) => reqs[t].op # "upload"
  BY <1>1 DEF FailReindex, At, IInv, DocInv, FreshInv, UploadInv, ReindexInv, DeleteInv,
     WriteInv, DoomedInv, RowInv, Has, Exists, Working
<1>3. Becomes(s, "none", "idle", {})
  BY <1>1, <1>2, AnswerBecomes DEF FailReindex, IInv, Positions, SetState
<1>4. /\ file' = file
      /\ vectors' = vectors
      /\ ledger' = ledger
      /\ Exists(d)' <=> Exists(d)
      /\ Exists(d) => rows'[d].state \in {rows[d].state, "Embedding Failed"}
  BY <1>1, <1>2 DEF FailReindex, IInv, Shape, Record, SetState, Exists, NoRow
<1>5. Shape'
  BY <1>1, <1>2, <1>4, <1>3 DEF FailReindex, IInv, Shape, Becomes, Record, SetState,
     FileStates, NoRow, States
<1>6. OneDoc'
  BY <1>3 DEF IInv, OneDoc, Becomes
<1>7. ASSUME NEW e \in Docs \ {d} PROVE Untouched(e)
  BY <1>1, <1>2, <1>4, <1>3 DEF FailReindex, IInv, Shape, Untouched, Has, Becomes, Record,
     SetState
<1>8. FreshInv(d)' /\ DoomedInv(d)'
  BY <1>1, <1>2, <1>4, <1>3 DEF DocInv, FreshInv, DoomedInv, Has, Exists, Working, Becomes
<1>9. UploadInv(d)'
  BY <1>1, <1>2, <1>4, <1>3 DEF DocInv, UploadInv, Has, Exists, Indexed, Writing, Becomes
<1>10. ReindexInv(d)'
  <2>1. Writing(d)' = Writing(d)
    BY <1>2, <1>3 DEF Writing, Becomes
  <2>2. Indexed(d)' <=> Indexed(d)
    BY <1>4, <2>1 DEF Indexed
  <2> QED
    BY <1>1, <1>3, <2>2 DEF DocInv, ReindexInv, Has, Becomes
<1>11. DeleteInv(d)'
  BY <1>1, <1>2, <1>4, <1>3 DEF DocInv, DeleteInv, Has, Becomes
<1>12. WriteInv(d)'
  BY <1>1, <1>2, <1>4, <1>3 DEF DocInv, WriteInv, Has, Becomes
<1>13. RowInv(d)'
  <2>1. Writing(d)' = Writing(d)
    BY <1>2, <1>3 DEF Writing, Becomes
  <2>2. Indexed(d) => Indexed(d)'
    BY <1>4, <2>1 DEF Indexed
  <2>3. Exists(d) /\ rows'[d].state = "Embedded" => rows[d].state = "Embedded"
    BY <1>4
  <2> QED
    BY <1>1, <1>4, <2>2, <2>3 DEF DocInv, RowInv
<1>14. LostInv(d)'
  BY <1>1, <1>2, <1>4, <1>3 DEF DocInv, LostInv, Exists, Uploading, Has, Becomes
<1> QED
  BY <1>5, <1>6, <1>7, <1>8, <1>9, <1>10, <1>11, <1>12, <1>13, <1>14 DEF StepOn, DocInv

LEMMA CommitIndexStep ==
  ASSUME IInv, NEW s \in Slots, NEW d \in Docs, CommitIndex(s, d)
  PROVE  StepOn(d)
<1>1. DocInv(d)
  BY DEF IInv
<1>2. /\ reqs[s].op = "reindex" /\ reqs[s].pc = "commit" /\ reqs[s].doc = {d}
      /\ \A t \in Slots : Has(t, d) => reqs[t].op # "upload"
      /\ Indexed(d)
  BY <1>1 DEF CommitIndex, At, IInv, DocInv, FreshInv, UploadInv, ReindexInv, DeleteInv,
     WriteInv, DoomedInv, RowInv, Has, Exists, Working
<1>3. Becomes(s, "none", "idle", {})
  BY <1>1, <1>2, AnswerBecomes DEF CommitIndex, IInv, Positions, SetState
<1>4. /\ file' = file
      /\ vectors' = vectors
      /\ ledger' = ledger
      /\ Exists(d)' <=> Exists(d)
  BY <1>1, <1>2, IndexStates DEF CommitIndex, IInv, Shape, Record, SetState, Exists, NoRow
<1>5. Shape'
  BY <1>1, <1>2, <1>4, <1>3, IndexStates DEF CommitIndex, IInv, Shape, Becomes, Record,
     SetState, FileStates, NoRow, States
<1>6. OneDoc'
  BY <1>3 DEF IInv, OneDoc, Becomes
<1>7. ASSUME NEW e \in Docs \ {d} PROVE Untouched(e)
  BY <1>1, <1>2, <1>4, <1>3 DEF CommitIndex, IInv, Shape, Untouched, Has, Becomes, Record,
     SetState
<1>8. FreshInv(d)' /\ DoomedInv(d)'
  BY <1>1, <1>2, <1>4, <1>3 DEF DocInv, FreshInv, DoomedInv, Has, Exists, Working, Becomes
<1>9. UploadInv(d)'
  BY <1>1, <1>2, <1>4, <1>3 DEF DocInv, UploadInv, Has, Exists, Indexed, Writing, Becomes
<1>10. ReindexInv(d)'
  BY <1>1, <1>2, <1>4, <1>3 DEF DocInv, ReindexInv, Has, Indexed, Writing, Becomes
<1>11. DeleteInv(d)'
  BY <1>1, <1>2, <1>4, <1>3 DEF DocInv, DeleteInv, Has, Becomes
<1>12. WriteInv(d)'
  BY <1>1, <1>2, <1>4, <1>3 DEF DocInv, WriteInv, Has, Becomes
<1>13. RowInv(d)'
  BY <1>1, <1>2, <1>4, <1>3 DEF DocInv, RowInv, Exists, Indexed, Has, Writing, Becomes
<1>14. LostInv(d)'
  BY <1>1, <1>2, <1>4, <1>3 DEF DocInv, LostInv, Exists, Uploading, Has, Becomes
<1> QED
  BY <1>5, <1>6, <1>7, <1>8, <1>9, <1>10, <1>11, <1>12, <1>13, <1>14 DEF StepOn, DocInv

LEMMA UnlinkFileStep ==
  ASSUME IInv, NEW s \in Slots, NEW d \in Docs, UnlinkFile(s, d)
  PROVE  StepOn(d)
<1>1. DocInv(d)
  BY DEF IInv
<1>2. /\ reqs[s].op = "delete" /\ reqs[s].pc = "unlink" /\ reqs[s].doc = {d}
      /\ \A t \in Slots : Has(t, d) => reqs[t].op # "upload"
      /\ d \in ledger.given
  BY <1>1 DEF UnlinkFile, At, IInv, DocInv, FreshInv, UploadInv, ReindexInv, DeleteInv,
     WriteInv, DoomedInv, RowInv, Has, Exists, Working
<1>3. Becomes(s, "delete", "unlink vectors", {d})
  BY <1>1, <1>2, GotoBecomes DEF UnlinkFile, IInv, Positions, SetState
<1>4. /\ rows' = rows
      /\ vectors' = vectors
      /\ file'[d] = "absent"
      /\ ledger'.given = ledger.given /\ ledger'.gone = ledger.gone
      /\ ledger'.torn = ledger.torn /\ ledger'.left = ledger.left
      /\ d \in ledger'.doomed
  BY <1>1, <1>2 DEF UnlinkFile, IInv, Shape, Record, SetState, Exists, NoRow
<1>5. Shape'
  BY <1>1, <1>2, <1>4, <1>3 DEF UnlinkFile, IInv, Shape, Becomes, Record, SetState,
     FileStates, NoRow, States
<1>6. OneDoc'
  BY <1>3 DEF IInv, OneDoc, Becomes
<1>7. ASSUME NEW e \in Docs \ {d} PROVE Untouched(e)
  BY <1>1, <1>2, <1>4, <1>3 DEF UnlinkFile, IInv, Shape, Untouched, Has, Becomes, Record,
     SetState
<1>8. FreshInv(d)' /\ DoomedInv(d)'
  BY <1>1, <1>2, <1>4, <1>3 DEF DocInv, FreshInv, DoomedInv, Has, Exists, Working, Becomes
<1>9. UploadInv(d)'
  BY <1>1, <1>2, <1>4, <1>3 DEF DocInv, UploadInv, Has, Exists, Indexed, Writing, Becomes
<1>10. ReindexInv(d)'
  BY <1>1, <1>2, <1>4, <1>3 DEF DocInv, ReindexInv, Has, Indexed, Writing, Becomes
<1>11. DeleteInv(d)'
  BY <1>1, <1>2, <1>4, <1>3 DEF DocInv, DeleteInv, Has, Becomes
<1>12. WriteInv(d)'
  BY <1>1, <1>2, <1>4, <1>3 DEF DocInv, WriteInv, Has, Becomes
<1>13. RowInv(d)'
  BY <1>1, <1>2, <1>4, <1>3 DEF DocInv, RowInv, Exists, Indexed, Has, Writing, Becomes
<1>14. LostInv(d)'
  BY <1>1, <1>2, <1>4, <1>3 DEF DocInv, LostInv, Exists, Uploading, Has, Becomes
<1> QED
  BY <1>5, <1>6, <1>7, <1>8, <1>9, <1>10, <1>11, <1>12, <1>13, <1>14 DEF StepOn, DocInv

LEMMA UnlinkVectorsStep ==
  ASSUME IInv, NEW s \in Slots, NEW d \in Docs, UnlinkVectors(s, d)
  PROVE  StepOn(d)
<1>1. DocInv(d)
  BY DEF IInv
<1>2. /\ reqs[s].op = "delete" /\ reqs[s].pc = "unlink vectors" /\ reqs[s].doc = {d}
      /\ \A t \in Slots : Has(t, d) => reqs[t].op # "upload"
      /\ d \in ledger.given /\ d \in ledger.doomed
  BY <1>1 DEF UnlinkVectors, At, IInv, DocInv, FreshInv, UploadInv, ReindexInv, DeleteInv,
     WriteInv, DoomedInv, RowInv, Has, Exists, Working
<1>3. Becomes(s, "delete", "delete row", {d})
  BY <1>1, <1>2, GotoBecomes DEF UnlinkVectors, IInv, Positions, SetState
<1>4. /\ rows' = rows
      /\ file' = file
      /\ ledger' = ledger
      /\ vectors'[d] = "absent"
  BY <1>1, <1>2 DEF UnlinkVectors, IInv, Shape, Record, SetState, Exists, NoRow
<1>5. Shape'
  BY <1>1, <1>2, <1>4, <1>3 DEF UnlinkVectors, IInv, Shape, Becomes, Record, SetState,
     FileStates, NoRow, States
<1>6. OneDoc'
  BY <1>3 DEF IInv, OneDoc, Becomes
<1>7. ASSUME NEW e \in Docs \ {d} PROVE Untouched(e)
  BY <1>1, <1>2, <1>4, <1>3 DEF UnlinkVectors, IInv, Shape, Untouched, Has, Becomes,
     Record, SetState
<1>8. FreshInv(d)' /\ DoomedInv(d)'
  BY <1>1, <1>2, <1>4, <1>3 DEF DocInv, FreshInv, DoomedInv, Has, Exists, Working, Becomes
<1>9. UploadInv(d)'
  BY <1>1, <1>2, <1>4, <1>3 DEF DocInv, UploadInv, Has, Exists, Indexed, Writing, Becomes
<1>10. ReindexInv(d)'
  BY <1>1, <1>2, <1>4, <1>3 DEF DocInv, ReindexInv, Has, Indexed, Writing, Becomes
<1>11. DeleteInv(d)'
  BY <1>1, <1>2, <1>4, <1>3 DEF DocInv, DeleteInv, Has, Becomes
<1>12. WriteInv(d)'
  BY <1>1, <1>2, <1>4, <1>3 DEF DocInv, WriteInv, Has, Becomes
<1>13. RowInv(d)'
  BY <1>1, <1>2, <1>4, <1>3 DEF DocInv, RowInv, Exists, Indexed, Has, Writing, Becomes
<1>14. LostInv(d)'
  BY <1>1, <1>2, <1>4, <1>3 DEF DocInv, LostInv, Exists, Uploading, Has, Becomes
<1> QED
  BY <1>5, <1>6, <1>7, <1>8, <1>9, <1>10, <1>11, <1>12, <1>13, <1>14 DEF StepOn, DocInv

LEMMA DeleteRowStep ==
  ASSUME IInv, NEW s \in Slots, NEW d \in Docs, DeleteRow(s, d)
  PROVE  StepOn(d)
<1>1. DocInv(d)
  BY DEF IInv
<1>2. /\ reqs[s].op = "delete" /\ reqs[s].pc = "delete row" /\ reqs[s].doc = {d}
      /\ \A t \in Slots : Has(t, d) => reqs[t].op # "upload"
      /\ d \in ledger.given /\ d \in ledger.doomed /\ file[d] = "absent"
      /\ vectors[d] = "absent" \/ d \in ledger.left
  BY <1>1 DEF DeleteRow, At, IInv, DocInv, FreshInv, UploadInv, ReindexInv, DeleteInv,
     WriteInv, DoomedInv, RowInv, Has, Exists, Working
<1>3. Becomes(s, "none", "idle", {})
  BY <1>1, <1>2, AnswerBecomes DEF DeleteRow, IInv, Positions, SetState
<1>4. /\ file' = file
      /\ vectors' = vectors
      /\ ~Exists(d)'
      /\ ledger'.given = ledger.given /\ ledger'.doomed = ledger.doomed
      /\ ledger'.torn = ledger.torn /\ ledger'.left = ledger.left
      /\ d \in ledger'.gone
  BY <1>1, <1>2 DEF DeleteRow, IInv, Shape, Record, SetState, Exists, NoRow
<1>5. Shape'
  BY <1>1, <1>2, <1>4, <1>3 DEF DeleteRow, IInv, Shape, Becomes, Record, SetState,
     FileStates, NoRow, States
<1>6. OneDoc'
  BY <1>3 DEF IInv, OneDoc, Becomes
<1>7. ASSUME NEW e \in Docs \ {d} PROVE Untouched(e)
  BY <1>1, <1>2, <1>4, <1>3 DEF DeleteRow, IInv, Shape, Untouched, Has, Becomes, Record,
     SetState
<1>8. FreshInv(d)' /\ DoomedInv(d)'
  BY <1>1, <1>2, <1>4, <1>3 DEF DocInv, FreshInv, DoomedInv, Has, Exists, Working, Becomes
<1>9. UploadInv(d)'
  BY <1>1, <1>2, <1>4, <1>3 DEF DocInv, UploadInv, Has, Exists, Indexed, Writing, Becomes
<1>10. ReindexInv(d)'
  BY <1>1, <1>2, <1>4, <1>3 DEF DocInv, ReindexInv, Has, Indexed, Writing, Becomes
<1>11. DeleteInv(d)'
  BY <1>1, <1>2, <1>4, <1>3 DEF DocInv, DeleteInv, Has, Becomes
<1>12. WriteInv(d)'
  BY <1>1, <1>2, <1>4, <1>3 DEF DocInv, WriteInv, Has, Becomes
<1>13. RowInv(d)'
  BY <1>1, <1>2, <1>4, <1>3 DEF DocInv, RowInv, Exists, Indexed, Has, Writing, Becomes
<1>14. LostInv(d)'
  BY <1>1, <1>2, <1>4, <1>3 DEF DocInv, LostInv, Exists, Uploading, Has, Becomes
<1> QED
  BY <1>5, <1>6, <1>7, <1>8, <1>9, <1>10, <1>11, <1>12, <1>13, <1>14 DEF StepOn, DocInv

\* Two that write the vectors of one document know that they are torn.
LEMMA OpenVectorsStep ==
  ASSUME IInv, NEW s \in Slots, NEW d \in Docs, OpenVectors(s, d)
  PROVE  StepOn(d)
<1>1. DocInv(d)
  BY DEF IInv
<1>2. /\ reqs[s].doc = {d} /\ reqs[s].pc = "open" /\ Has(s, d)
      /\ reqs[s].op \in {"upload", "reindex"}
  BY <1>1 DEF OpenVectors, IInv, OneDoc, DocInv, DeleteInv, Has
<1>3. /\ d \in ledger.given
      /\ reqs[s].op = "reindex" => \A t \in Slots : Has(t, d) => reqs[t].op # "upload"
      /\ reqs[s].op = "upload" =>
           /\ d \notin ledger.doomed /\ ~Exists(d) /\ file[d] = "whole"
           /\ \A t \in Slots \ {s} : ~Has(t, d)
  BY <1>1, <1>2 DEF DocInv, FreshInv, UploadInv, Has, Working
<1>4. /\ rows' = rows /\ file' = file /\ vectors' = [vectors EXCEPT ![d] = "torn"]
      /\ confs' = confs
      /\ ledger'.given = ledger.given /\ ledger'.doomed = ledger.doomed
      /\ ledger'.gone = ledger.gone
      /\ ledger.torn \subseteq ledger'.torn /\ ledger'.torn \subseteq ledger.torn \cup {d}
      /\ ledger.left \subseteq ledger'.left /\ ledger'.left \subseteq ledger.left \cup {d}
  BY DEF OpenVectors, IInv, Shape
<1>5. /\ Writing(d) # {} => d \in ledger'.torn
      /\ reqs[s].op = "reindex" /\ ~Exists(d) => d \in ledger'.left
      /\ reqs[s].op = "reindex" /\ d \in ledger.doomed => d \in ledger'.left
  BY DEF OpenVectors, IInv, Shape
<1>6. /\ reqs'[s] = [reqs[s] EXCEPT !.pc = "write", !.clean = Writing(d) = {}]
      /\ \A t \in Slots \ {s} :
           reqs'[t] = IF t \in Writing(d) THEN [reqs[t] EXCEPT !.clean = FALSE] ELSE reqs[t]
  BY DEF OpenVectors
<1>7. /\ reqs'[s].op = reqs[s].op /\ reqs'[s].doc = {d} /\ reqs'[s].pc = "write"
      /\ reqs'[s].clean <=> Writing(d) = {}
      /\ \A t \in Slots \ {s} : reqs'[t].op = reqs[t].op /\ reqs'[t].doc = reqs[t].doc
                                /\ reqs'[t].pc = reqs[t].pc
      /\ \A t \in Slots \ {s} : t \in Writing(d) => ~reqs'[t].clean
      /\ \A t \in Slots \ {s} : t \notin Writing(d) => reqs'[t] = reqs[t]
  <2>1. \A t \in Slots : reqs[t] \in Requests
    BY DEF IInv, Shape
  <2>2. /\ reqs'[s].op = reqs[s].op /\ reqs'[s].doc = {d} /\ reqs'[s].pc = "write"
        /\ reqs'[s].clean <=> Writing(d) = {}
    BY <1>2, <1>6, <2>1 DEF Requests
  <2>3. ASSUME NEW t \in Slots \ {s}, t \in Writing(d)
        PROVE  /\ reqs'[t].op = reqs[t].op /\ reqs'[t].doc = reqs[t].doc
               /\ reqs'[t].pc = reqs[t].pc /\ ~reqs'[t].clean
    <3>1. reqs'[t] = [reqs[t] EXCEPT !.clean = FALSE] /\ reqs[t] \in Requests
      BY <1>6, <2>1, <2>3
    <3> QED
      BY <3>1 DEF Requests
  <2>4. ASSUME NEW t \in Slots \ {s}, t \notin Writing(d) PROVE reqs'[t] = reqs[t]
    BY <1>6, <2>4
  <2> QED
    BY <2>2, <2>3, <2>4
<1>8. s \in Writing(d)' /\ Indexed(d)'
  BY <1>7 DEF Writing, Indexed
<1>9. reqs' \in [Slots -> Requests]
  <2>1. reqs'[s] \in Requests
    <3>1. CASE Writing(d) = {}
      BY <1>6, <3>1 DEF IInv, Shape, Requests, Positions
    <3>2. CASE Writing(d) # {}
      BY <1>6, <3>2 DEF IInv, Shape, Requests, Positions
    <3> QED
      BY <3>1, <3>2
  <2>2. ASSUME NEW t \in Slots \ {s} PROVE reqs'[t] \in Requests
    <3>1. reqs[t] \in Requests
      BY DEF IInv, Shape
    <3>2. [reqs[t] EXCEPT !.clean = FALSE] \in Requests
      BY <3>1 DEF Requests
    <3> QED
      BY <1>6, <3>1, <3>2
  <2>3. reqs' = [t \in Slots |-> reqs'[t]]
    BY DEF OpenVectors
  <2> QED
    BY <2>1, <2>2, <2>3
<1>10. Shape'
  <2>1. ledger' \in [given : SUBSET Docs, doomed : SUBSET Docs, gone : SUBSET Docs,
                     torn : SUBSET Docs, left : SUBSET Docs]
    BY DEF OpenVectors, IInv, Shape
  <2> QED
    BY <1>4, <1>9, <2>1 DEF IInv, Shape, FileStates
<1>11. OneDoc'
  BY <1>2, <1>7 DEF IInv, OneDoc
<1>12. ASSUME NEW e \in Docs \ {d} PROVE Untouched(e)
  <2>1. \A t \in Slots : Has(t, e) \/ Has(t, e)' => reqs'[t] = reqs[t]
    BY <1>2, <1>7 DEF IInv, OneDoc, Writing, Has
  <2> QED
    BY <1>4, <2>1 DEF IInv, Shape, Untouched
<1>13. FreshInv(d)' /\ DoomedInv(d)'
  BY <1>1, <1>3, <1>4 DEF DocInv, FreshInv, DoomedInv, Exists
<1>14. UploadInv(d)' /\ ReindexInv(d)'
  BY <1>1, <1>2, <1>3, <1>4, <1>7, <1>8 DEF DocInv, UploadInv, ReindexInv, Has, Exists
<1>15. DeleteInv(d)'
  <2> SUFFICES ASSUME NEW t \in Slots, Has(t, d)', reqs'[t].op = "delete"
               PROVE  /\ reqs'[t].pc \in {"unlink", "unlink vectors", "delete row"}
                      /\ reqs'[t].pc # "unlink" => d \in ledger'.doomed
                      /\ reqs'[t].pc = "delete row" => d \in ledger'.left
    BY DEF DeleteInv
  <2>1. t # s /\ Has(t, d) /\ reqs[t].op = "delete" /\ reqs'[t].pc = reqs[t].pc
    BY <1>2, <1>7 DEF Has
  <2> QED
    BY <1>1, <1>2, <1>3, <1>4, <1>5, <2>1 DEF DocInv, DeleteInv
<1>16. WriteInv(d)'
  <2> SUFFICES ASSUME NEW t \in Slots, Has(t, d)', reqs'[t].pc = "write"
               PROVE  IF reqs'[t].clean
                        THEN \A u \in Slots \ {t} : ~(Has(u, d)' /\ reqs'[u].pc = "write")
                        ELSE d \in ledger'.torn
    <3>1. vectors'[d] = "torn"
      BY <1>4 DEF IInv, Shape
    <3> QED
      BY <3>1 DEF WriteInv
  <2>1. CASE Writing(d) = {}
    BY <1>7, <2>1 DEF Writing, Has
  <2>2. CASE Writing(d) # {}
    BY <1>5, <1>7, <2>2 DEF Writing, Has
  <2> QED
    BY <2>1, <2>2
<1>17. RowInv(d)'
  BY <1>1, <1>4, <1>8 DEF DocInv, RowInv, Exists
<1>18. LostInv(d)'
  BY <1>2, <1>4, <1>5, <1>7 DEF LostInv, Uploading, Has, Exists
<1> QED
  BY <1>10, <1>11, <1>12, <1>13, <1>14, <1>15, <1>16, <1>17, <1>18 DEF StepOn, DocInv

\* The vectors are whole after a clean write, or torn and known to be.
LEMMA WriteVectorsStep ==
  ASSUME IInv, NEW s \in Slots, NEW d \in Docs, WriteVectors(s, d)
  PROVE  StepOn(d)
<1>1. DocInv(d)
  BY DEF IInv
<1>2. /\ reqs[s].doc = {d} /\ reqs[s].pc = "write" /\ Has(s, d)
      /\ reqs[s].op \in {"upload", "reindex"}
      /\ rows' = rows /\ file' = file
  BY <1>1 DEF WriteVectors, IInv, OneDoc, DocInv, DeleteInv, Has
<1>3. /\ d \in ledger.given
      /\ reqs[s].op = "reindex" => \A t \in Slots : Has(t, d) => reqs[t].op # "upload"
      /\ reqs[s].op = "upload" =>
           /\ d \notin ledger.doomed /\ ~Exists(d) /\ file[d] = "whole"
           /\ \A t \in Slots \ {s} : ~Has(t, d)
  BY <1>1, <1>2 DEF DocInv, FreshInv, UploadInv, Has, Working
<1>4. /\ vectors[d] # "absent" \/ d \in ledger.doomed
      /\ ~reqs[s].clean => d \in ledger.torn
      /\ reqs[s].clean => \A t \in Slots \ {s} : ~(Has(t, d) /\ reqs[t].pc = "write")
  BY <1>1, <1>2 DEF DocInv, WriteInv
<1>5. CASE /\ vectors' \in {[vectors EXCEPT ![d] = v] :
                 v \in IF vectors[d] = "absent" THEN {"absent"}
                       ELSE IF reqs[s].clean THEN {"whole"} ELSE {"whole", "torn"}}
           /\ Goto(s, "commit") /\ UNCHANGED faults
           /\ ledger' = [ledger EXCEPT !.torn = IF reqs[s].clean THEN @ \ {d} ELSE @]
  <2>1. Becomes(s, reqs[s].op, "commit", {d})
    BY <1>2, <1>5, GotoBecomes DEF IInv, Positions
  <2>2. PICK v \in FileStates :
          /\ vectors' = [vectors EXCEPT ![d] = v]
          /\ v = "absent" <=> vectors[d] = "absent"
          /\ reqs[s].clean /\ v # "absent" => v = "whole"
    BY <1>5 DEF FileStates
  <2>3. vectors'[d] = v /\ \A e \in Docs \ {d} : vectors'[e] = vectors[e]
    BY <2>2 DEF IInv, Shape
  <2>4. /\ ledger'.given = ledger.given /\ ledger'.doomed = ledger.doomed
        /\ ledger'.gone = ledger.gone /\ ledger'.left = ledger.left
        /\ ledger'.torn \in SUBSET Docs
        /\ \A e \in Docs \ {d} : e \in ledger'.torn <=> e \in ledger.torn
        /\ ~reqs[s].clean => d \in ledger'.torn
        /\ ledger'.torn \subseteq ledger.torn
    BY <1>4, <1>5 DEF IInv, Shape
  <2>5. Indexed(d)'
    BY <1>4, <2>2, <2>3, <2>4 DEF Indexed
  <2>6. Shape'
    <3>1. ledger' \in [given : SUBSET Docs, doomed : SUBSET Docs, gone : SUBSET Docs,
                       torn : SUBSET Docs, left : SUBSET Docs]
      BY <1>5 DEF IInv, Shape
    <3> QED
      BY <1>2, <2>1, <2>2, <3>1 DEF WriteVectors, IInv, Shape, Becomes
  <2>7. OneDoc'
    BY <1>2, <2>1 DEF IInv, OneDoc, Becomes
  <2>8. ASSUME NEW e \in Docs \ {d} PROVE Untouched(e)
    BY <1>2, <2>1, <2>3, <2>4 DEF Untouched, Has, Becomes
  <2>9. FreshInv(d)' /\ DoomedInv(d)'
    BY <1>1, <1>2, <1>3, <2>4 DEF DocInv, FreshInv, DoomedInv, Exists
  <2>10. UploadInv(d)' /\ ReindexInv(d)'
    BY <1>1, <1>2, <1>3, <2>1, <2>4, <2>5 DEF DocInv, UploadInv, ReindexInv, Has, Exists,
       Becomes
  <2>11. DeleteInv(d)'
    BY <1>1, <1>2, <2>1, <2>2, <2>3, <2>4 DEF DocInv, DeleteInv, Has, Becomes
  <2>12. WriteInv(d)'
    BY <1>1, <1>4, <2>1, <2>2, <2>3, <2>4 DEF DocInv, WriteInv, Has, Becomes
  <2>13. RowInv(d)'
    BY <1>1, <1>2, <2>4, <2>5 DEF DocInv, RowInv, Exists
  <2>14. LostInv(d)'
    BY <1>1, <1>2, <1>3, <2>1, <2>2, <2>3, <2>4 DEF DocInv, LostInv, Uploading, Has,
       Exists, Becomes
  <2> QED
    BY <2>6, <2>7, <2>8, <2>9, <2>10, <2>11, <2>12, <2>13, <2>14 DEF StepOn, DocInv
<1>6. CASE /\ Fault /\ Answer(s) /\ UNCHANGED vectors
           /\ ledger' = [ledger EXCEPT !.torn = @ \cup {d}, !.left = @ \cup {d}]
  <2>1. Becomes(s, "none", "idle", {})
    BY <1>6, AnswerBecomes DEF IInv
  <2>2. /\ ledger'.given = ledger.given /\ ledger'.doomed = ledger.doomed
        /\ ledger'.gone = ledger.gone
        /\ ledger'.torn = ledger.torn \cup {d} /\ ledger'.left = ledger.left \cup {d}
    BY <1>6 DEF IInv, Shape
  <2>3. Indexed(d)'
    BY <2>2 DEF Indexed
  <2>4. Shape'
    BY <1>2, <1>6, <2>1, <2>2 DEF WriteVectors, IInv, Shape, Becomes
  <2>5. OneDoc'
    BY <2>1 DEF IInv, OneDoc, Becomes
  <2>6. ASSUME NEW e \in Docs \ {d} PROVE Untouched(e)
    BY <1>2, <1>6, <2>1, <2>2 DEF Untouched, Has, Becomes
  <2>7. FreshInv(d)' /\ DoomedInv(d)'
    BY <1>1, <1>2, <1>3, <2>2 DEF DocInv, FreshInv, DoomedInv, Exists
  <2>8. UploadInv(d)' /\ ReindexInv(d)'
    BY <1>1, <1>2, <1>3, <1>6, <2>1, <2>2, <2>3 DEF DocInv, UploadInv, ReindexInv, Has,
       Exists, Becomes
  <2>9. DeleteInv(d)'
    BY <1>1, <1>2, <2>1, <2>2 DEF DocInv, DeleteInv, Has, Becomes
  <2>10. WriteInv(d)'
    BY <1>1, <1>6, <2>1, <2>2 DEF DocInv, WriteInv, Has, Becomes
  <2>11. RowInv(d)'
    BY <1>1, <1>2, <2>2, <2>3 DEF DocInv, RowInv, Exists
  <2>12. LostInv(d)'
    BY <2>2 DEF LostInv
  <2> QED
    BY <2>4, <2>5, <2>6, <2>7, <2>8, <2>9, <2>10, <2>11, <2>12 DEF StepOn, DocInv
<1> QED
  BY <1>5, <1>6 DEF WriteVectors

-----------------------------------------------------------------------------
(* The other steps                                                         *)

\* A request that concerns no document, and a wait that ends.
LEMMA EmbedStep ==
  ASSUME IInv, NEW s \in Slots, Embed(s) PROVE IInv'
<1>1. "open" \in Positions /\ reqs[s].pc = "embed"
  BY DEF Embed, Positions
<1>2. Becomes(s, reqs[s].op, "open", reqs[s].doc)
  BY <1>1, GotoBecomes DEF Embed, IInv
<1>3. rows' = rows /\ file' = file /\ vectors' = vectors /\ confs' = confs
                   /\ ledger' = ledger
  BY DEF Embed
<1>4. Shape' /\ OneDoc'
  BY <1>2, <1>3 DEF IInv, Shape, OneDoc, Becomes
<1>5. ASSUME NEW d \in Docs PROVE DocInv(d)'
  <2>0. DocInv(d)
    BY DEF IInv
  <2>1. /\ Exists(d)' <=> Exists(d)
        /\ \A t \in Slots : Has(t, d)' <=> Has(t, d)
        /\ \A t \in Slots : reqs'[t].op = reqs[t].op
        /\ reqs'[s].pc = "open"
        /\ \A t \in Slots \ {s} : reqs'[t] = reqs[t]
    BY <1>2, <1>3 DEF Exists, Has, Becomes
  <2>2. Writing(d)' = Writing(d)
    BY <1>1, <1>2 DEF Writing, Becomes
  <2>3. /\ Working(d)' <=> Working(d)
        /\ Uploading(d)' <=> Uploading(d)
        /\ Indexed(d)' <=> Indexed(d)
    BY <1>3, <2>1, <2>2 DEF Working, Uploading, Has, Indexed
  <2>4. FreshInv(d)' /\ DoomedInv(d)' /\ RowInv(d)' /\ LostInv(d)'
    BY <1>3, <2>0, <2>1, <2>3 DEF DocInv, FreshInv, DoomedInv, RowInv, LostInv
  <2>5. UploadInv(d)'
    BY <1>1, <1>3, <2>0, <2>1, <2>3 DEF DocInv, UploadInv
  <2>6. ReindexInv(d)'
    BY <1>3, <2>0, <2>1, <2>3 DEF DocInv, ReindexInv
  <2>7. DeleteInv(d)'
    BY <1>1, <1>3, <2>0, <2>1 DEF DocInv, DeleteInv
  <2>8. WriteInv(d)'
    BY <1>3, <2>0, <2>1 DEF DocInv, WriteInv
  <2> QED
    BY <2>4, <2>5, <2>6, <2>7, <2>8 DEF DocInv
<1> QED
  BY <1>4, <1>5 DEF IInv

\* The requests of the assistant and the drafts hold no document.
LEMMA AssistantStep ==
  ASSUME IInv, NEW s \in Slots,
         \/ BeginChat(s) \/ Reply(s) \/ SaveDraft(s)
         \/ \E c \in Conferences : BeginDraft(s, c)
  PROVE  IInv'
<1>1. rows' = rows /\ file' = file /\ vectors' = vectors /\ confs' = confs
                   /\ ledger' = ledger
  BY DEF BeginChat, Reply, SaveDraft, BeginDraft
<1>2. reqs[s].op \in {"none", "chat", "draft"}
  BY DEF BeginChat, Reply, SaveDraft, BeginDraft, Begin, Busy, At
<1>3. PICK op \in {"none", "chat", "draft"}, pc \in Positions : Becomes(s, op, pc, {})
  <2>1. CASE BeginChat(s)
    <3>1. [Idle EXCEPT !.op = "chat", !.pc = "retrieve"] \in Requests
      BY DEF Idle, Requests, Positions, States
    <3> QED
      BY <2>1, <3>1, BeginBecomes DEF BeginChat, IInv, Idle, Positions
  <2>2. CASE Reply(s) \/ SaveDraft(s)
    BY <2>2, AnswerBecomes DEF Reply, SaveDraft, IInv, Positions
  <2>3. ASSUME NEW c \in Conferences, BeginDraft(s, c)
        PROVE  \E op \in {"none", "chat", "draft"}, pc \in Positions : Becomes(s, op, pc, {})
    <3>1. [Idle EXCEPT !.op = "draft", !.pc = "compose", !.conference = c] \in Requests
      BY DEF Idle, Requests, Positions, States
    <3> QED
      BY <2>3, <3>1, BeginBecomes DEF BeginDraft, IInv, Idle, Positions
  <2> QED
    BY <2>1, <2>2, <2>3
<1>4. Shape' /\ OneDoc'
  BY <1>1, <1>3 DEF IInv, Shape, OneDoc, Becomes
<1>5. ASSUME NEW d \in Docs PROVE Untouched(d)
  BY <1>1, <1>2, <1>3 DEF IInv, OneDoc, Untouched, Has, Becomes
<1> QED
  BY <1>4, <1>5, Frame DEF IInv

\* Deleting a conference leaves the files of its documents behind.
LEMMA DeleteConferenceStep ==
  ASSUME IInv, NEW c \in Conferences, DeleteConference(c) PROVE IInv'
<1>1. /\ file' = file /\ vectors' = vectors /\ reqs' = reqs
      /\ confs' \subseteq Conferences
      /\ ledger'.given = ledger.given /\ ledger'.doomed = ledger.doomed
      /\ ledger'.gone = ledger.gone /\ ledger'.torn = ledger.torn
      /\ ledger'.left = ledger.left \cup {d \in Docs : Exists(d) /\ rows[d].conference = c}
  BY DEF DeleteConference, Record, IInv, Shape
<1>2. \A d \in Docs : rows'[d] = IF Exists(d) /\ rows[d].conference = c THEN NoRow ELSE rows[d]
  BY DEF DeleteConference
<1>3. Shape' /\ OneDoc'
  <2>1. rows' \in [Docs -> [state : States,
                            conference : Conferences \cup {NoConference}]]
    BY DEF DeleteConference, IInv, Shape, NoRow, States
  <2>2. ledger' \in [given : SUBSET Docs, doomed : SUBSET Docs, gone : SUBSET Docs,
                     torn : SUBSET Docs, left : SUBSET Docs]
    BY DEF DeleteConference, Record, IInv, Shape
  <2> QED
    BY <1>1, <2>1, <2>2 DEF IInv, Shape, OneDoc
<1>4. ASSUME NEW d \in Docs, Exists(d), rows[d].conference = c PROVE DocInv(d)'
  <2>1. ~Exists(d)' /\ Exists(d) /\ d \in ledger'.left
    BY <1>1, <1>2, <1>4 DEF Exists, NoRow
  <2>2. /\ Working(d)' <=> Working(d)
        /\ Indexed(d)' <=> Indexed(d)
        /\ \A s \in Slots : Has(s, d)' <=> Has(s, d)
    BY <1>1 DEF Working, Indexed, Writing, Has
  <2>3. DocInv(d)
    BY DEF IInv
  <2>4. FreshInv(d)' /\ DoomedInv(d)' /\ RowInv(d)' /\ LostInv(d)'
    BY <1>1, <2>1, <2>3 DEF DocInv, FreshInv, DoomedInv, RowInv, LostInv
  <2>5. UploadInv(d)' /\ ReindexInv(d)'
    BY <1>1, <2>1, <2>2, <2>3 DEF DocInv, UploadInv, ReindexInv
  <2>6. DeleteInv(d)' /\ WriteInv(d)'
    BY <1>1, <2>1, <2>2, <2>3 DEF DocInv, DeleteInv, WriteInv
  <2> QED
    BY <2>4, <2>5, <2>6 DEF DocInv
<1>5. ASSUME NEW d \in Docs, ~(Exists(d) /\ rows[d].conference = c) PROVE DocInv(d)'
  <2>1. Untouched(d)
    BY <1>1, <1>2, <1>5 DEF Untouched
  <2> QED
    BY <2>1, Frame DEF IInv
<1> QED
  BY <1>3, <1>4, <1>5 DEF IInv

\* A crash ends every request: what they worked on is torn or left behind.
LEMMA CrashStep ==
  ASSUME IInv, Crash PROVE IInv'
<1>1. /\ rows' = rows /\ file' = file /\ vectors' = vectors /\ confs' = confs
      /\ reqs' = [s \in Slots |-> Idle]
      /\ ledger' = [ledger EXCEPT
           !.torn = @ \cup {d \in Docs : Writing(d) # {}},
           !.left = @ \cup {d \in Docs : \E s \in Slots :
                              d \in reqs[s].doc /\ reqs[s].op \in {"upload", "reindex"}}]
  BY DEF Crash
<1>2. /\ ledger'.given = ledger.given /\ ledger'.doomed = ledger.doomed
      /\ ledger'.gone = ledger.gone
      /\ ledger'.torn = ledger.torn \cup {d \in Docs : Writing(d) # {}}
      /\ ledger.left \subseteq ledger'.left
      /\ \A d \in Docs : Uploading(d) => d \in ledger'.left
  BY <1>1 DEF IInv, Shape, Uploading, Has
<1>3. \A s \in Slots : reqs'[s].doc = {} /\ reqs'[s].pc = "idle"
  BY <1>1 DEF Idle
<1>4. Shape' /\ OneDoc'
  <2>1. ledger' \in [given : SUBSET Docs, doomed : SUBSET Docs, gone : SUBSET Docs,
                     torn : SUBSET Docs, left : SUBSET Docs]
    BY <1>1 DEF IInv, Shape
  <2>2. Idle \in Requests
    BY DEF Idle, Requests, Positions, States
  <2> QED
    BY <1>1, <1>3, <2>1, <2>2 DEF IInv, Shape, OneDoc
<1>5. ASSUME NEW d \in Docs PROVE DocInv(d)'
  <2>1. DocInv(d) /\ (Exists(d)' <=> Exists(d)) /\ \A s \in Slots : ~Has(s, d)'
    BY <1>1, <1>3 DEF IInv, Exists, Has
  <2>2. ~Uploading(d)' /\ ~Working(d)'
    BY <1>3 DEF Uploading, Has, Working
  <2>3. Indexed(d) => Indexed(d)'
    BY <1>1, <1>2 DEF Indexed
  <2>4. FreshInv(d)' /\ DoomedInv(d)'
    BY <1>1, <1>2, <2>1, <2>2 DEF DocInv, FreshInv, DoomedInv
  <2>5. RowInv(d)' /\ LostInv(d)'
    BY <1>1, <1>2, <2>1, <2>3 DEF DocInv, RowInv, LostInv
  <2>6. UploadInv(d)' /\ ReindexInv(d)' /\ DeleteInv(d)' /\ WriteInv(d)'
    BY <2>1 DEF UploadInv, ReindexInv, DeleteInv, WriteInv
  <2> QED
    BY <2>4, <2>5, <2>6 DEF DocInv
<1> QED
  BY <1>4, <1>5 DEF IInv

LEMMA StepIInv == IInv /\ [Next]_vars => IInv'
<1> SUFFICES ASSUME IInv, [Next]_vars PROVE IInv'
  OBVIOUS
<1>1. ASSUME NEW s \in Slots, NEW d \in Docs, Serve(s, d) PROVE IInv'
  <2>1. StepOn(d)
    BY <1>1, BeginUploadStep, StoreFileStep, RefuseUploadStep, BreakEmbeddingStep,
       OpenVectorsStep, WriteVectorsStep, InsertRowStep, BeginReindexStep,
       FailReindexStep, CommitIndexStep, BeginDeleteStep, UnlinkFileStep,
       UnlinkVectorsStep, DeleteRowStep DEF Serve
  <2> QED
    BY <2>1, OneStep
<1>2. ASSUME NEW c \in Conferences, DeleteDraft(c) PROVE IInv'
  <2>1. rows' = rows /\ file' = file /\ vectors' = vectors /\ confs' = confs
        /\ reqs' = reqs /\ ledger' = ledger
    BY <1>2 DEF DeleteDraft
  <2>2. Shape' /\ OneDoc' /\ \A d \in Docs : Untouched(d)
    BY <2>1 DEF IInv, Shape, OneDoc, Untouched
  <2> QED
    BY <2>2, Frame DEF IInv
<1>3. CASE UNCHANGED vars
  <2>1. Shape' /\ OneDoc' /\ \A d \in Docs : Untouched(d)
    BY <1>3 DEF vars, IInv, Shape, OneDoc, Untouched
  <2> QED
    BY <2>1, Frame DEF IInv
<1> QED
  BY <1>1, <1>2, <1>3, EmbedStep, AssistantStep, DeleteConferenceStep, CrashStep DEF Next

LEMMA Invariance == Spec => []IInv
BY InitIInv, StepIInv, PTL DEF Spec

\* Drafts are counted up and down one at a time.
DraftsInv == drafts \in [Conferences -> Nat]

LEMMA StepDraftsInv == DraftsInv /\ [Next]_vars => DraftsInv'
<1> SUFFICES ASSUME DraftsInv, [Next]_vars PROVE DraftsInv'
  OBVIOUS
<1>1. ASSUME NEW s \in Slots, NEW d \in Docs, Serve(s, d) PROVE drafts' = drafts
  BY <1>1 DEF Serve, StoreFile, RefuseUpload, BreakEmbedding, OpenVectors, WriteVectors,
     InsertRow, BeginReindex, FailReindex, CommitIndex, BeginDelete, UnlinkFile,
     UnlinkVectors, DeleteRow, BeginUpload, SetState
<1>2. ASSUME NEW s \in Slots, SaveDraft(s) PROVE DraftsInv'
  <2> DEFINE c == reqs[s].conference
  <2>1. drafts' = IF c \in confs THEN [drafts EXCEPT ![c] = drafts[c] + 1] ELSE drafts
    BY <1>2 DEF SaveDraft
  <2> HIDE DEF c
  <2>2. CASE c \in Conferences
    <3>1. drafts[c] + 1 \in Nat
      BY <2>2 DEF DraftsInv
    <3> QED
      BY <2>1, <3>1 DEF DraftsInv
  <2>3. CASE c \notin Conferences
    <3>1. \A e \in Conferences : drafts'[e] = drafts[e]
      BY <2>1, <2>3 DEF DraftsInv
    <3>2. drafts' = [e \in Conferences |-> drafts'[e]]
      BY <2>1 DEF DraftsInv
    <3> QED
      BY <3>1, <3>2 DEF DraftsInv
  <2> QED
    BY <2>2, <2>3
<1>3. ASSUME NEW c \in Conferences, DeleteConference(c) \/ DeleteDraft(c)
      PROVE  DraftsInv'
  BY <1>3 DEF DeleteConference, DeleteDraft, DraftsInv
<1> QED
  BY <1>1, <1>2, <1>3
     DEF Next, Embed, BeginChat, Reply, BeginDraft, Crash, vars, DraftsInv

LEMMA DraftsCounted == Spec => []DraftsInv
<1>1. Init => DraftsInv
  BY DEF Init, DraftsInv
<1> QED
  BY <1>1, StepDraftsInv, PTL DEF Spec

-----------------------------------------------------------------------------
(* What follows                                                            *)

\* Types, for any number of documents and requests.
THEOREM TypeCorrect == Spec => []TypeOK
<1>1. IInv /\ DraftsInv => TypeOK
  BY DEF IInv, Shape, DraftsInv, TypeOK
<1> QED
  BY <1>1, Invariance, DraftsCounted, PTL

\* A document that can be listed can be downloaded, for any number of
\* requests, crashes and failing writes.
THEOREM RowHasFileCorrect == Spec => []RowHasFile
<1>1. IInv => RowHasFile
  BY DEF IInv, DocInv, RowInv, RowHasFile
<1> QED
  BY <1>1, Invariance, PTL

\* A document in state Embedded has all its vectors, however many requests
\* reindex it at the same time.
THEOREM EmbeddedCorrect == Spec => []EmbeddedHasVectors
<1>1. IInv => EmbeddedHasVectors
  BY DEF IInv, DocInv, RowInv, EmbeddedHasVectors, Indexed, Exists
<1> QED
  BY <1>1, Invariance, PTL

\* Nothing is left of a document but what a failure, a deleted conference or a
\* late reindex has left.
THEOREM OrphansCorrect == Spec => []OrphansExplained
<1>1. IInv => OrphansExplained
  BY DEF IInv, DocInv, LostInv, OrphansExplained, Uploading, Working, Has
<1> QED
  BY <1>1, Invariance, PTL

\* A deleted document never comes back, whatever reindexed it meanwhile.
THEOREM DeletionCorrect == Spec => []DeletedForGood
<1>1. IInv => DeletedForGood
  BY DEF IInv, Shape, DocInv, DoomedInv, DeletedForGood
<1> QED
  BY <1>1, Invariance, PTL
=============================================================================
