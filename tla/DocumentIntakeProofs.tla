----------------------- MODULE DocumentIntakeProofs -----------------------
(***************************************************************************)
(* That DocumentIntake is well typed, that no document loses its bytes,    *)
(* that revisions form chains and parts are filed once, and that clients   *)
(* are told the truth, for every number of users, files, requests, rows    *)
(* and restarts.  The last part is about the watched folder, FolderWatch.  *)
(***************************************************************************)
EXTENDS DocumentIntake, FolderWatch, FiniteSetTheorems, WellFoundedInduction, TLAPS

-----------------------------------------------------------------------------
(* The parts of TypeOK.                                                    *)
RowsTyped ==
  /\ docs \in [Ids -> Rows \cup {NoRow}] /\ lastId \in MaybeId
  /\ \A d \in Ids : Exists(d) => d <= lastId

ReceiptsTyped ==
  /\ receipts \in [Users \X Keys -> Receipts \cup {NoReceipt}]
  /\ \A p \in Users \X Keys : receipts[p] # NoReceipt => Exists(receipts[p].doc)

QueueTyped == queue \subseteq {d \in Ids : Exists(d)}
ReqTyped == req \in [Slots -> Requests]

WorkTyped ==
  work \in [at: {"idle", "split", "derive"}, doc: MaybeId,
            made: SUBSET Indexes, archive: Blobs \cup {NoBlob}]

FilesTyped == blobs \subseteq Blobs /\ folder \subseteq Blobs
TimeTyped == up \in BOOLEAN /\ now \in 1..MaxNow
SpentTyped == left \in [Kinds -> Nat]

LEMMA TypeParts ==
  TypeOK <=> /\ RowsTyped /\ ReceiptsTyped /\ QueueTyped /\ ReqTyped
             /\ WorkTyped /\ FilesTyped /\ TimeTyped /\ SpentTyped
  BY DEF TypeOK, RowsTyped, ReceiptsTyped, QueueTyped, ReqTyped, WorkTyped,
         FilesTyped, TimeTyped, SpentTyped

(* What a request or a job has put into the content store is there until   *)
(* its transaction; none is open while the server is down.                 *)
StoredBytes ==
  \A r \in Slots : req[r].at = "stored" =>
    req[r].blob \in blobs /\ req[r].user \in Users

WorkBytes ==
  /\ work.doc <= lastId
  /\ work.at = "split" /\ Exists(work.doc) =>
       \A i \in work.made \cap Parts(work.doc) : Segments[docs[work.doc].blob][i] \in blobs
  /\ work.at = "derive" => work.archive \in blobs \cup {NoBlob}

DownIsQuiet == ~up => work = NoWork /\ \A r \in Slots : req[r].at # "stored"

IndInv ==
  TypeOK /\ NoDocumentWithoutBytes /\ StoredBytes /\ WorkBytes /\ DownIsQuiet

-----------------------------------------------------------------------------
(* Rows.                                                                   *)
LEMMA RowUpdates ==
  ASSUME NEW r \in Rows, NEW t \in 0..MaxNow, NEW p \in MaybeId,
         NEW a \in Blobs \cup {NoBlob}
  PROVE  /\ [r EXCEPT !.trashed = t] \in Rows
         /\ [r EXCEPT !.trashed = t].blob = r.blob
         /\ [r EXCEPT !.trashed = t].archive = r.archive
         /\ [r EXCEPT !.prev = p] \in Rows
         /\ [r EXCEPT !.prev = p].blob = r.blob
         /\ [r EXCEPT !.prev = p].archive = r.archive
         /\ [r EXCEPT !.family = p] \in Rows
         /\ [r EXCEPT !.family = p].blob = r.blob
         /\ [r EXCEPT !.family = p].archive = r.archive
         /\ [r EXCEPT !.archive = a] \in Rows
         /\ [r EXCEPT !.archive = a].blob = r.blob
         /\ [r EXCEPT !.archive = a].archive = a
  BY DEF Rows

LEMMA NewRows ==
  ASSUME NEW o \in Users, NEW b \in Blobs
  PROVE  /\ NewRow(o, b) \in Rows
         /\ NewRow(o, b).blob = b
         /\ NewRow(o, b).archive = NoBlob
  <1>1. MaxNow \in Nat
    BY ConstantsAssumption DEF ConstantsAssumption
  <1>2. QED
    BY <1>1 DEF Rows, NewRow, MaybeId

LEMMA NewVersions ==
  ASSUME NEW o \in Users, NEW b \in Blobs, NEW p \in MaybeId, NEW k \in MaybeId
  PROVE  /\ [NewRow(o, b) EXCEPT !.prev = p, !.family = k] \in Rows
         /\ [NewRow(o, b) EXCEPT !.prev = p, !.family = k].blob = b
         /\ [NewRow(o, b) EXCEPT !.prev = p, !.family = k].archive = NoBlob
  <1>1. NewRow(o, b) \in Rows
    BY NewRows
  <1>2. QED
    BY <1>1, NewRows DEF Rows, NewRow

LEMMA NewParts ==
  ASSUME NEW o \in Users, NEW b \in Blobs, NEW p \in MaybeId, NEW i \in Indexes
  PROVE  /\ [NewRow(o, b) EXCEPT !.origin = p, !.index = i] \in Rows
         /\ [NewRow(o, b) EXCEPT !.origin = p, !.index = i].blob = b
         /\ [NewRow(o, b) EXCEPT !.origin = p, !.index = i].archive = NoBlob
  <1>1. NewRow(o, b) \in Rows
    BY NewRows
  <1>2. QED
    BY <1>1, NewRows DEF Rows, NewRow

(* A step keeps a row with its bytes, makes one with a new id whose bytes  *)
(* are stored, or removes one.                                             *)
RowKept(d) ==
  /\ docs[d] # NoRow /\ docs'[d] \in Rows /\ docs'[d].blob = docs[d].blob
  /\ docs'[d].archive \in blobs \cup {docs[d].archive, NoBlob}

RowBorn(d) ==
  /\ lastId < d /\ d <= lastId'
  /\ docs'[d] \in Rows /\ docs'[d].blob \in blobs' /\ docs'[d].archive = NoBlob

RowStep ==
  /\ docs' \in [Ids -> Rows \cup {NoRow}]
  /\ lastId' \in MaybeId /\ lastId <= lastId'
  /\ \A d \in Ids : RowKept(d) \/ RowBorn(d) \/ docs'[d] = NoRow

RowsSurvive == \A d \in Ids : docs[d] # NoRow => docs'[d] # NoRow

LEMMA RowsStay ==
  ASSUME RowsTyped, docs' = docs, lastId' = lastId
  PROVE  RowStep /\ RowsSurvive
  BY DEF RowsTyped, RowStep, RowsSurvive, RowKept, MaybeId, Ids

LEMMA StepKeepsBytes ==
  ASSUME IndInv, RowStep, blobs \subseteq blobs', work' \in {work, NoWork}
  PROVE  RowsTyped' /\ NoDocumentWithoutBytes' /\ WorkBytes'
  <1>1. RowsTyped /\ WorkTyped
    BY TypeParts DEF IndInv
  <1>2. RowsTyped'
    BY <1>1 DEF RowStep, RowKept, RowBorn, RowsTyped, Exists, Ids, MaybeId
  <1>3. NoDocumentWithoutBytes'
    BY DEF IndInv, RowStep, RowKept, RowBorn, NoDocumentWithoutBytes, Exists
  <1>4. CASE work' = NoWork
    <2>1. 0 <= lastId'
      BY <1>2 DEF RowsTyped, MaybeId, Ids
    <2>2. QED
      BY <1>2, <1>3, <1>4, <2>1 DEF WorkBytes, NoWork
  <1>5. CASE work' = work
    <2>1. work.doc <= lastId'
      BY <1>1, ConstantsAssumption DEF ConstantsAssumption, IndInv, WorkBytes, RowStep, RowsTyped, WorkTyped, MaybeId, Ids
    <2>2. work.at = "derive" => work.archive \in blobs' \cup {NoBlob}
      BY DEF IndInv, WorkBytes
    <2>3. ASSUME work.at = "split", Exists(work.doc)'
          PROVE  Exists(work.doc) /\ docs'[work.doc].blob = docs[work.doc].blob
      <3>1. ~RowBorn(work.doc)
        BY <1>1, <2>1, ConstantsAssumption
           DEF ConstantsAssumption, IndInv, WorkBytes, RowBorn, RowsTyped, WorkTyped, MaybeId, Ids
      <3>2. QED
        BY <1>5, <2>3, <3>1 DEF RowStep, RowKept, Exists
    <2>4. ASSUME work.at = "split", Exists(work.doc)'
          PROVE  \A i \in work.made \cap Parts(work.doc)' :
                   Segments[docs'[work.doc].blob][i] \in blobs'
      BY <1>5, <2>3, <2>4 DEF IndInv, WorkBytes, Parts
    <2>5. QED
      BY <1>2, <1>3, <1>5, <2>1, <2>2, <2>4 DEF WorkBytes, Exists, Parts
  <1>6. QED
    BY <1>2, <1>3, <1>4, <1>5

-----------------------------------------------------------------------------
(* Receipts, jobs and requests.                                            *)
LEMMA QueueKept ==
  ASSUME QueueTyped, RowsSurvive,
         queue' \subseteq queue \cup {d \in Ids : docs'[d] # NoRow}
  PROVE  QueueTyped'
  BY DEF QueueTyped, RowsSurvive, Exists

LEMMA KeptReceiptsTyped ==
  ASSUME ReceiptsTyped
  PROVE  /\ KeptReceipts \in [Users \X Keys -> Receipts \cup {NoReceipt}]
         /\ \A p \in Users \X Keys : KeptReceipts[p] \in {receipts[p], NoReceipt}
  BY DEF ReceiptsTyped, KeptReceipts

LEMMA ReceiptsKept ==
  ASSUME ReceiptsTyped, RowsSurvive, receipts' \in {receipts, KeptReceipts}
  PROVE  ReceiptsTyped'
  BY KeptReceiptsTyped DEF ReceiptsTyped, RowsSurvive, Exists, Receipts

(* A request that has stored its bytes.                                    *)
LEMMA StoredRequest ==
  ASSUME IndInv, NEW r \in Slots, req[r].at = "stored"
  PROVE  /\ req[r] \in Requests /\ req[r].user \in Users
         /\ req[r].blob \in blobs /\ req[r].blob \in Blobs
  BY TypeParts DEF IndInv, StoredBytes, ReqTyped, FilesTyped

LEMMA ReceiptStored ==
  ASSUME ReceiptsTyped, RowsSurvive, now \in 1..MaxNow,
         NEW q \in Requests, q.user \in Users, q.blob \in Blobs,
         NEW d \in Ids, docs'[d] # NoRow, StoreReceipt(q, d)
  PROVE  ReceiptsTyped'
  <1>1. CASE q.key = NoKey
    BY <1>1, ReceiptsKept DEF StoreReceipt
  <1>2. CASE q.key # NoKey
    <2> DEFINE new == [op |-> q.op, prev |-> q.prev, blob |-> q.blob,
                       doc |-> d, at |-> now]
    <2>1. <<q.user, q.key>> \in Users \X Keys
      BY <1>2 DEF Requests
    <2>2. new \in Receipts /\ new.doc = d
      BY DEF Receipts, Requests
    <2>3. receipts' = [KeptReceipts EXCEPT ![<<q.user, q.key>>] = new]
      BY <1>2 DEF StoreReceipt
    <2> HIDE DEF new
    <2>4. receipts' \in [Users \X Keys -> Receipts \cup {NoReceipt}]
      BY <2>1, <2>2, <2>3, KeptReceiptsTyped
    <2>5. ASSUME NEW p \in Users \X Keys, receipts'[p] # NoReceipt
          PROVE  receipts'[p].doc \in Ids /\ docs'[receipts'[p].doc] # NoRow
      <3>1. CASE p = <<q.user, q.key>>
        BY <2>1, <2>2, <2>3, <3>1, KeptReceiptsTyped
      <3>2. CASE p # <<q.user, q.key>>
        <4>1. receipts'[p] = receipts[p]
          BY <2>3, <2>5, <3>2, KeptReceiptsTyped
        <4>2. QED
          BY <2>5, <4>1 DEF ReceiptsTyped, Exists, RowsSurvive
      <3>3. QED
        BY <3>1, <3>2
    <2>6. QED
      BY <2>4, <2>5 DEF ReceiptsTyped, Exists
  <1>3. QED
    BY <1>1, <1>2

LEMMA AnsweredRequest ==
  ASSUME NEW q \in Requests, NEW c \in Codes, NEW d \in MaybeId, NEW t \in 0..MaxNow
  PROVE  /\ [q EXCEPT !.at = "answered", !.code = c, !.doc = d, !.when = t] \in Requests
         /\ [q EXCEPT !.at = "answered", !.code = c, !.doc = d, !.when = t].at = "answered"
  BY DEF Requests

LEMMA AnswerTyped ==
  ASSUME IndInv, NEW r \in Slots, NEW c \in Codes, NEW d \in MaybeId, Answer(r, c, d),
         blobs' = blobs
  PROVE  ReqTyped' /\ StoredBytes'
  <1> DEFINE new == [req[r] EXCEPT !.at = "answered", !.code = c, !.doc = d, !.when = now]
  <1>1. ReqTyped /\ now \in 0..MaxNow
    BY TypeParts DEF IndInv, TimeTyped
  <1>2. new \in Requests /\ new.at = "answered"
    <2>1. req[r] \in Requests
      BY <1>1 DEF ReqTyped
    <2>2. QED
      BY <1>1, <2>1, AnsweredRequest, Zenon
  <1>3. req' = [req EXCEPT ![r] = new]
    BY DEF Answer
  <1> HIDE DEF new
  <1>4. ReqTyped'
    BY <1>1, <1>2, <1>3 DEF ReqTyped
  <1>5. StoredBytes'
    BY <1>1, <1>2, <1>3 DEF IndInv, StoredBytes, ReqTyped
  <1>6. QED
    BY <1>4, <1>5

LEMMA SpendTyped ==
  ASSUME SpentTyped, NEW what \in Kinds, Spend(what)
  PROVE  SpentTyped'
  <1>1. left' = [left EXCEPT ![what] = left[what] - 1] /\ left[what] > 0
    BY DEF Spend
  <1>2. left[what] - 1 \in Nat
    BY <1>1 DEF SpentTyped
  <1>3. QED
    BY <1>1, <1>2 DEF SpentTyped

(* A step of the running server that keeps every part keeps the whole.     *)
LEMMA Combine ==
  ASSUME IndInv, RowStep, ReceiptsTyped', QueueTyped', ReqTyped', StoredBytes',
         blobs \subseteq blobs', FilesTyped', SpentTyped',
         work' \in {work, NoWork}, up, up' = up, now' = now
  PROVE  IndInv'
  <1>1. RowsTyped' /\ NoDocumentWithoutBytes' /\ WorkBytes'
    BY StepKeepsBytes
  <1>2. WorkTyped'
    BY TypeParts DEF IndInv, WorkTyped, NoWork, MaybeId
  <1>3. TimeTyped'
    BY TypeParts, Zenon DEF IndInv, TimeTyped
  <1>4. DownIsQuiet'
    BY DEF DownIsQuiet
  <1>5. TypeOK'
    BY <1>1, <1>2, <1>3, TypeParts, PTL
  <1>6. QED
    BY <1>1, <1>4, <1>5 DEF IndInv

-----------------------------------------------------------------------------
(* The ways rows change.                                                   *)
LEMMA OneRow ==
  ASSUME RowsTyped, NEW d \in Ids, NEW row \in Rows, docs' = [docs EXCEPT ![d] = row],
         lastId' \in MaybeId, lastId <= lastId', RowKept(d) \/ RowBorn(d)
  PROVE  RowStep /\ RowsSurvive
  <1>1. docs' \in [Ids -> Rows \cup {NoRow}] /\ docs'[d] = row
    BY DEF RowsTyped
  <1>2. ASSUME NEW e \in Ids, e # d
        PROVE  docs'[e] = docs[e] /\ (RowKept(e) \/ docs'[e] = NoRow)
    BY <1>2 DEF RowsTyped, RowKept
  <1>3. docs'[d] # NoRow
    BY <1>1, RowAssumption DEF RowAssumption
  <1>4. RowStep
    BY <1>1, <1>2 DEF RowStep
  <1>5. RowsSurvive
    BY <1>2, <1>3 DEF RowsSurvive
  <1>6. QED
    BY <1>4, <1>5

LEMMA TrashRow ==
  ASSUME RowsTyped, NEW d, Exists(d), NEW t \in 0..MaxNow,
         docs' = [docs EXCEPT ![d].trashed = t], lastId' = lastId
  PROVE  RowStep /\ RowsSurvive /\ docs'[d] # NoRow
  <1> DEFINE row == [docs[d] EXCEPT !.trashed = t]
  <1>1. d \in Ids /\ docs[d] \in Rows /\ docs[d] # NoRow
    BY DEF RowsTyped, Exists
  <1>2. row \in Rows /\ row.blob = docs[d].blob /\ row.archive = docs[d].archive
    BY <1>1, RowUpdates, Zenon DEF MaybeId
  <1>3. docs' = [docs EXCEPT ![d] = row]
    OBVIOUS
  <1> HIDE DEF row
  <1>4. docs'[d] = row
    BY <1>1, <1>3 DEF RowsTyped
  <1>5. RowKept(d)
    BY <1>1, <1>2, <1>4 DEF RowKept
  <1>6. lastId' \in MaybeId /\ lastId <= lastId'
    BY DEF RowsTyped, MaybeId, Ids
  <1>7. RowStep /\ RowsSurvive
    BY <1>1, <1>2, <1>3, <1>5, <1>6, OneRow
  <1>8. QED
    BY <1>1, <1>7 DEF RowsSurvive

LEMMA ApplyOutcomeRows ==
  ASSUME RowsTyped, NEW o \in Users, NEW b \in Blobs, b \in blobs', NEW R,
         \A d \in R : Exists(d), NEW out \in Outcomes(o, b, R),
         ApplyOutcome(o, b, out)
  PROVE  /\ RowStep /\ RowsSurvive
         /\ out.doc \in Ids /\ docs'[out.doc] # NoRow
         /\ queue' \subseteq queue \cup {d \in Ids : docs'[d] # NoRow}
  <1>1. \/ out.kind = "created" /\ out.doc = lastId + 1
        \/ out.kind \in {"split", "live", "restored"} /\ Exists(out.doc)
    BY DEF Outcomes, LastTrashed, SplitOrigins, LiveCopies, OwnedCopies, Exists
  <1>2. CASE out.kind = "created"
    <2> DEFINE n == out.doc
    <2>1. /\ lastId < MaxDocs
          /\ docs' = [docs EXCEPT ![n] = NewRow(o, b)]
          /\ lastId' = n /\ queue' = queue \cup {n}
      BY <1>2 DEF ApplyOutcome
    <2>2. n = lastId + 1 /\ n \in Ids /\ lastId' \in MaybeId /\ lastId < lastId'
          /\ lastId <= lastId' /\ n <= lastId'
      BY <1>1, <1>2, <2>1, ConstantsAssumption
         DEF ConstantsAssumption, RowsTyped, MaybeId, Ids
    <2>3. /\ NewRow(o, b) \in Rows /\ NewRow(o, b).blob = b
          /\ NewRow(o, b).archive = NoBlob
      BY NewRows
    <2> HIDE DEF n
    <2>4. docs'[n] = NewRow(o, b)
      BY <2>1, <2>2 DEF RowsTyped
    <2>5. RowBorn(n)
      BY <2>1, <2>2, <2>3, <2>4 DEF RowBorn
    <2>6. RowStep /\ RowsSurvive
      BY <2>1, <2>2, <2>3, <2>5, OneRow
    <2>7. docs'[n] # NoRow
      BY <2>3, <2>4, RowAssumption DEF RowAssumption
    <2>8. QED
      BY <2>1, <2>2, <2>6, <2>7 DEF n
  <1>3. CASE out.kind = "restored"
    <2>1. docs' = [docs EXCEPT ![out.doc].trashed = 0] /\ lastId' = lastId /\ queue' = queue
      BY <1>3 DEF ApplyOutcome
    <2>2. 0 \in 0..MaxNow /\ Exists(out.doc)
      BY <1>1, <1>3, ConstantsAssumption DEF ConstantsAssumption
    <2>3. RowStep /\ RowsSurvive /\ docs'[out.doc] # NoRow
      BY <2>1, <2>2, TrashRow
    <2>4. QED
      BY <2>1, <2>2, <2>3 DEF Exists
  <1>4. CASE out.kind \in {"split", "live"}
    <2>1. docs' = docs /\ lastId' = lastId /\ queue' = queue
      BY <1>4 DEF ApplyOutcome
    <2>2. Exists(out.doc)
      BY <1>1, <1>4
    <2>3. QED
      BY <2>1, <2>2, RowsStay DEF Exists
  <1>5. QED
    BY <1>1, <1>2, <1>3, <1>4

LEMMA InsertVersionRows ==
  ASSUME RowsTyped, NEW q, Exists(q.prev), q.blob \in Blobs, q.blob \in blobs',
         InsertVersion(q)
  PROVE  /\ RowStep /\ RowsSurvive
         /\ lastId + 1 \in Ids /\ docs'[lastId + 1] # NoRow
         /\ queue' \subseteq queue \cup {d \in Ids : docs'[d] # NoRow}
  <1> DEFINE p == q.prev
             o == docs[p].owner
             k == IF docs[p].family = 0 THEN p ELSE docs[p].family
             n == lastId + 1
             old == [docs[p] EXCEPT !.family = k]
             new == [NewRow(o, q.blob) EXCEPT !.prev = p, !.family = k]
  <1>1. /\ n \in Ids /\ lastId' = n /\ queue' = queue \cup {n}
        /\ docs' = [docs EXCEPT ![p].family = k, ![n] = new]
    BY DEF InsertVersion
  <1>2. p \in Ids /\ docs[p] \in Rows /\ docs[p] # NoRow /\ p <= lastId
    BY DEF RowsTyped, Exists
  <1>3. o \in Users /\ k \in MaybeId /\ p \in MaybeId
    BY <1>2 DEF Rows, MaybeId
  <1>4. old \in Rows /\ old.blob = docs[p].blob /\ old.archive = docs[p].archive
    BY <1>2, <1>3 DEF Rows
  <1>5. new \in Rows /\ new.blob = q.blob /\ new.archive = NoBlob
    <2> HIDE DEF p, o, k
    <2>1. new \in Rows
      BY <1>3, NewVersions, Zenon
    <2>2. new.blob = q.blob
      BY DEF NewRow
    <2>3. new.archive = NoBlob
      BY DEF NewRow
    <2>4. QED
      BY <2>1, <2>2, <2>3, Zenon
  <1>6. n # p /\ lastId < n /\ n <= lastId' /\ lastId <= lastId' /\ lastId' \in MaybeId
    BY <1>1, <1>2, ConstantsAssumption DEF ConstantsAssumption, RowsTyped, MaybeId, Ids
  <1>7. docs' = [[docs EXCEPT ![p] = old] EXCEPT ![n] = new]
    BY <1>1
  <1> HIDE DEF p, o, k, old, new
  <1>8. /\ docs' \in [Ids -> Rows \cup {NoRow}]
        /\ docs'[p] = old /\ docs'[n] = new
        /\ \A e \in Ids \ {p, n} : docs'[e] = docs[e]
    BY <1>1, <1>2, <1>4, <1>5, <1>6, <1>7 DEF RowsTyped
  <1>9. RowKept(p) /\ RowBorn(n)
    BY <1>2, <1>4, <1>5, <1>6, <1>8 DEF RowKept, RowBorn
  <1>10. \A e \in Ids \ {p, n} : RowKept(e) \/ docs'[e] = NoRow
    BY <1>8 DEF RowsTyped, RowKept
  <1>11. RowStep
    BY <1>6, <1>8, <1>9, <1>10 DEF RowStep
  <1>12. docs'[p] # NoRow /\ docs'[n] # NoRow
    BY <1>4, <1>5, <1>8, RowAssumption DEF RowAssumption
  <1>13. RowsSurvive
    BY <1>8, <1>12 DEF RowsSurvive
  <1>14. QED
    BY <1>1, <1>11, <1>12, <1>13

LEMMA ArchiveRow ==
  ASSUME RowsTyped, NEW d, Exists(d), NEW a \in Blobs \cup {NoBlob},
         a \in blobs \cup {NoBlob},
         docs' = [docs EXCEPT ![d].archive = a], lastId' = lastId
  PROVE  RowStep /\ RowsSurvive
  <1> DEFINE row == [docs[d] EXCEPT !.archive = a]
  <1>1. d \in Ids /\ docs[d] \in Rows /\ docs[d] # NoRow
    BY DEF RowsTyped, Exists
  <1>2. 0 \in 0..MaxNow /\ 0 \in MaybeId
    BY ConstantsAssumption DEF ConstantsAssumption, MaybeId
  <1>3. row \in Rows /\ row.blob = docs[d].blob /\ row.archive = a
    BY <1>1, <1>2, RowUpdates, Zenon
  <1>4. docs' = [docs EXCEPT ![d] = row]
    OBVIOUS
  <1> HIDE DEF row
  <1>5. docs'[d] = row
    BY <1>1, <1>4 DEF RowsTyped
  <1>6. RowKept(d)
    BY <1>1, <1>3, <1>5 DEF RowKept
  <1>7. lastId' \in MaybeId /\ lastId <= lastId'
    BY DEF RowsTyped, MaybeId, Ids
  <1>8. QED
    BY <1>1, <1>3, <1>4, <1>6, <1>7, OneRow

(* Rows are removed; receipts and jobs go with them.                       *)
LEMMA PurgeRowsKeeps ==
  ASSUME IndInv, up, NEW S, PurgeRows(S)
  PROVE  IndInv'
  <1>1. RowsTyped /\ ReceiptsTyped /\ QueueTyped /\ ReqTyped /\ FilesTyped /\ SpentTyped
    BY TypeParts DEF IndInv
  <1>2. 0 \in 0..MaxNow /\ 0 \in MaybeId /\ lastId \in MaybeId /\ lastId <= lastId
    BY <1>1, ConstantsAssumption DEF ConstantsAssumption, MaybeId, RowsTyped, Ids
  <1>3. ASSUME NEW d \in Ids, docs[d] # NoRow, d \notin S
        PROVE  RowKept(d) /\ docs'[d] # NoRow
    <2> DEFINE row == [docs[d] EXCEPT !.prev = 0]
    <2>1. docs[d] \in Rows
      BY <1>1, <1>3 DEF RowsTyped
    <2>2. row \in Rows /\ row.blob = docs[d].blob /\ row.archive = docs[d].archive
      BY <1>2, <2>1, RowUpdates, Zenon
    <2>3. docs'[d] = row \/ docs'[d] = docs[d]
      BY <1>3 DEF PurgeRows
    <2> HIDE DEF row
    <2>4. docs'[d] \in Rows /\ docs'[d].blob = docs[d].blob
          /\ docs'[d].archive = docs[d].archive
      BY <2>1, <2>2, <2>3
    <2>5. QED
      BY <1>3, <2>4, RowAssumption DEF RowKept, RowAssumption
  <1>4. \A d \in Ids : (docs[d] = NoRow \/ d \in S) => docs'[d] = NoRow
    BY DEF PurgeRows
  <1>5. docs' = [d \in Ids |-> docs'[d]]
    BY DEF PurgeRows
  <1>6. \A d \in Ids : docs'[d] \in Rows \cup {NoRow}
    BY <1>3, <1>4 DEF RowKept
  <1>7. RowStep
    BY <1>2, <1>3, <1>4, <1>5, <1>6 DEF RowStep, PurgeRows
  <1>8. ReceiptsTyped'
    <2>1. receipts' \in [Users \X Keys -> Receipts \cup {NoReceipt}]
      BY <1>1 DEF PurgeRows, ReceiptsTyped
    <2>2. ASSUME NEW p \in Users \X Keys, receipts'[p] # NoReceipt
          PROVE  receipts'[p].doc \in Ids /\ docs'[receipts'[p].doc] # NoRow
      <3>1. receipts'[p] = receipts[p] /\ receipts[p].doc \notin S
        BY <2>2 DEF PurgeRows
      <3>2. Exists(receipts[p].doc)
        BY <1>1, <2>2, <3>1 DEF ReceiptsTyped
      <3>3. QED
        BY <1>3, <3>1, <3>2 DEF Exists
    <2>3. QED
      BY <2>1, <2>2 DEF ReceiptsTyped, Exists
  <1>9. QueueTyped'
    BY <1>1, <1>3 DEF PurgeRows, QueueTyped, Exists
  <1>10. /\ ReqTyped' /\ StoredBytes' /\ FilesTyped' /\ SpentTyped'
         /\ blobs \subseteq blobs' /\ work' \in {work, NoWork} /\ up' = up /\ now' = now
    BY <1>1 DEF PurgeRows, ReqTyped, StoredBytes, IndInv, FilesTyped, SpentTyped
  <1>11. QED
    BY <1>7, <1>8, <1>9, <1>10, Combine

-----------------------------------------------------------------------------
(* The split of a batch.                                                   *)

(* The ids given to the missing parts follow the counter without passing   *)
(* the new one.                                                            *)
LEMMA PartNumbers ==
  ASSUME NEW L \in Nat, NEW M \in SUBSET (1..L), NEW i \in M
  PROVE  /\ Cardinality(M) \in Nat
         /\ Cardinality({j \in M : j <= i}) \in 1..Cardinality(M)
  <1> DEFINE T == {j \in M : j <= i}
  <1>1. IsFiniteSet(1..L)
    BY FS_Interval
  <1>2. IsFiniteSet(M) /\ Cardinality(M) \in Nat
    BY <1>1, FS_Subset, FS_CardinalityType
  <1>3. IsFiniteSet(T) /\ Cardinality(T) <= Cardinality(M) /\ Cardinality(T) \in Nat
    BY <1>2, FS_Subset, FS_CardinalityType
  <1>4. i \in T
    OBVIOUS
  <1>5. Cardinality(T) # 0
    BY <1>3, <1>4, FS_EmptySet
  <1>6. QED
    BY <1>2, <1>3, <1>5

LEMMA SegmentsTyped ==
  ASSUME NEW b \in Blobs
  PROVE  /\ Segments[b] \in Seq(Blobs)
         /\ \E L \in Nat : DOMAIN Segments[b] = 1..L
         /\ \A i \in DOMAIN Segments[b] : i \in Indexes /\ Segments[b][i] \in Blobs
  <1>1. Segments[b] \in Seq(Blobs)
    BY ConstantsAssumption DEF ConstantsAssumption
  <1>2. Len(Segments[b]) \in Nat /\ DOMAIN Segments[b] = 1..Len(Segments[b])
    BY <1>1
  <1>3. \A i \in DOMAIN Segments[b] : Segments[b][i] \in Blobs
    BY <1>1
  <1>4. QED
    BY <1>1, <1>2, <1>3 DEF Indexes

LEMMA JobCommitSplitKeeps ==
  ASSUME IndInv, JobCommitSplit
  PROVE  IndInv'
  <1> DEFINE d == work.doc
             o == docs[d].owner
             part == Segments[docs[d].blob]
             missing == MissingParts(d)
             id == [i \in missing |-> lastId + Cardinality({j \in missing : j <= i})]
             child(c) == CHOOSE i \in missing : id[i] = c
             made == {id[i] : i \in missing}
             new(c) == [NewRow(o, part[child(c)]) EXCEPT !.origin = d, !.index = child(c)]
             old == [docs[d] EXCEPT !.trashed = now]
  <1>1. /\ up /\ work.at = "split" /\ Live(d) /\ missing \subseteq work.made
        /\ lastId + Cardinality(missing) <= MaxDocs
        /\ docs' = [c \in Ids |-> IF c \in made THEN new(c)
                                  ELSE IF c = d THEN old ELSE docs[c]]
        /\ lastId' = lastId + Cardinality(missing)
        /\ queue' = (queue \ {d}) \cup made
        /\ work' = NoWork
        /\ UNCHANGED <<receipts, blobs, req, folder, up, now, left>>
    BY DEF JobCommitSplit
  <1>2. RowsTyped /\ ReceiptsTyped /\ QueueTyped /\ ReqTyped /\ FilesTyped /\ SpentTyped
        /\ now \in 0..MaxNow
    BY TypeParts DEF IndInv, TimeTyped
  <1>3. d \in Ids /\ docs[d] \in Rows /\ docs[d] # NoRow /\ d <= lastId /\ d \in MaybeId
    BY <1>1, <1>2 DEF RowsTyped, Live, Exists, MaybeId
  <1>4. o \in Users /\ docs[d].blob \in Blobs
    BY <1>3 DEF Rows
  <1>5. PICK L \in Nat : DOMAIN part = 1..L
    BY <1>4, SegmentsTyped
  <1>6. missing \subseteq DOMAIN part
    BY DEF MissingParts, Parts
  <1>7. \A i \in missing : i \in Indexes /\ part[i] \in Blobs
    BY <1>4, <1>6, SegmentsTyped
  <1>8. \A i \in missing : part[i] \in blobs
    BY <1>1, <1>3, <1>6 DEF IndInv, WorkBytes, Parts, Exists
  <1>9. Cardinality(missing) \in Nat
    <2>1. CASE missing = {}
      BY <2>1, FS_EmptySet
    <2>2. CASE missing # {}
      BY <1>5, <1>6, <2>2, PartNumbers
    <2>3. QED
      BY <2>1, <2>2
  <1>10. \A i \in missing : Cardinality({j \in missing : j <= i}) \in 1..Cardinality(missing)
    BY <1>5, <1>6, PartNumbers
  <1>11. \A i \in missing : id[i] = lastId + Cardinality({j \in missing : j <= i})
    OBVIOUS
  <1> HIDE DEF id
  <1>12. lastId \in Nat /\ MaxDocs \in Nat /\ lastId' \in MaybeId /\ lastId <= lastId'
    <2> HIDE DEF missing
    <2>1. MaxDocs \in Nat
      BY ConstantsAssumption DEF ConstantsAssumption
    <2>2. lastId \in Nat
      BY <1>2, <2>1 DEF RowsTyped, MaybeId, Ids
    <2>3. lastId + Cardinality(missing) <= MaxDocs /\ lastId' = lastId + Cardinality(missing)
      BY <1>1
    <2>4. QED
      BY <1>9, <2>1, <2>2, <2>3 DEF MaybeId, Ids
  <1>13. ASSUME NEW c \in made
         PROVE  /\ child(c) \in missing /\ c \in Ids
                /\ lastId < c /\ c <= lastId'
    <2>1. \E i \in missing : id[i] = c
      OBVIOUS
    <2>2. child(c) \in missing /\ id[child(c)] = c
      BY <2>1
    <2> HIDE DEF child
    <2> DEFINE rank == Cardinality({j \in missing : j <= child(c)})
    <2>3. rank \in 1..Cardinality(missing)
      BY <1>10, <2>2
    <2>4. c = lastId + rank
      BY <1>11, <2>2
    <2>5. lastId + Cardinality(missing) <= MaxDocs /\ lastId' = lastId + Cardinality(missing)
      BY <1>1
    <2> HIDE DEF missing, rank
    <2>6. QED
      BY <1>9, <1>12, <2>2, <2>3, <2>4, <2>5 DEF Ids
  <1>14. d \notin made
    <2>1. d \in made => lastId < d
      BY <1>13
    <2>2. QED
      BY <1>3, <1>12, <2>1 DEF Ids
  <1>15. ASSUME NEW c \in made
         PROVE  /\ new(c) \in Rows /\ new(c).blob \in blobs
                /\ new(c).archive = NoBlob
    <2> DEFINE i == child(c)
               b == part[child(c)]
    <2>1. i \in Indexes /\ b \in Blobs /\ b \in blobs
      BY <1>7, <1>8, <1>13
    <2> HIDE DEF i, b, o, d, child, part
    <2>2. new(c) = [NewRow(o, b) EXCEPT !.origin = d, !.index = i]
      BY DEF i, b
    <2>3. [NewRow(o, b) EXCEPT !.origin = d, !.index = i] \in Rows
      BY <1>3, <1>4, <2>1, NewParts, Zenon
    <2>4. [NewRow(o, b) EXCEPT !.origin = d, !.index = i].blob = b
      BY DEF NewRow
    <2>5. [NewRow(o, b) EXCEPT !.origin = d, !.index = i].archive = NoBlob
      BY DEF NewRow
    <2>6. QED
      BY <2>1, <2>2, <2>3, <2>4, <2>5, Zenon
  <1>16. old \in Rows /\ old.blob = docs[d].blob /\ old.archive = docs[d].archive
    <2> HIDE DEF d
    <2>1. QED
      BY <1>2, <1>3, RowUpdates, Zenon DEF MaybeId
  <1> HIDE DEF d, o, part, missing, child, made, new, old
  <1>17. /\ \A c \in made : docs'[c] = new(c)
         /\ docs'[d] = old
         /\ \A c \in Ids \ made : c # d => docs'[c] = docs[c]
    BY <1>1, <1>3, <1>13, <1>14
  <1>18. \A c \in made : RowBorn(c) /\ docs'[c] # NoRow
    BY <1>1, <1>13, <1>15, <1>17, RowAssumption DEF RowBorn, RowAssumption
  <1>19. RowKept(d) /\ docs'[d] # NoRow
    BY <1>3, <1>16, <1>17, RowAssumption DEF RowKept, RowAssumption
  <1>20. \A c \in Ids \ made : c # d => RowKept(c) \/ docs'[c] = NoRow
    BY <1>2, <1>17 DEF RowsTyped, RowKept
  <1>21. \A c \in Ids : RowKept(c) \/ RowBorn(c) \/ docs'[c] = NoRow
    BY <1>18, <1>19, <1>20
  <1>22. docs' = [c \in Ids |-> docs'[c]]
    BY <1>1
  <1>23. RowStep
    BY <1>12, <1>21, <1>22 DEF RowStep, RowKept, RowBorn
  <1>24. RowsSurvive
    BY <1>17, <1>18, <1>19 DEF RowsSurvive
  <1>25. QueueTyped'
    <2>1. queue' \subseteq queue \cup {c \in Ids : docs'[c] # NoRow}
      BY <1>1, <1>13, <1>18
    <2>2. QED
      BY <1>2, <1>24, <2>1, QueueKept
  <1>26. ReceiptsTyped'
    BY <1>1, <1>2, <1>24, ReceiptsKept
  <1>27. /\ ReqTyped' /\ StoredBytes' /\ FilesTyped' /\ SpentTyped'
         /\ blobs \subseteq blobs' /\ work' \in {work, NoWork} /\ up' = up /\ now' = now
    BY <1>1, <1>2 DEF ReqTyped, StoredBytes, IndInv, FilesTyped, SpentTyped
  <1>28. QED
    BY <1>1, <1>23, <1>25, <1>26, <1>27, Combine

-----------------------------------------------------------------------------
(* The steps.                                                              *)

(* A request is answered and no row, job or file changes.                  *)
LEMMA AnswerOnly ==
  ASSUME IndInv, up, NEW r \in Slots, NEW c \in Codes, NEW d \in MaybeId,
         Answer(r, c, d), ReceiptsTyped',
         UNCHANGED <<docs, lastId, blobs, folder, queue, work, up, now, left>>
  PROVE  IndInv'
  <1>1. RowsTyped /\ QueueTyped /\ FilesTyped /\ SpentTyped
    BY TypeParts DEF IndInv
  <1>2. RowStep /\ RowsSurvive
    BY <1>1, RowsStay
  <1>3. QueueTyped'
    BY <1>1, <1>2, QueueKept
  <1>4. ReqTyped' /\ StoredBytes'
    BY AnswerTyped
  <1>5. FilesTyped' /\ SpentTyped'
    BY <1>1 DEF FilesTyped, SpentTyped
  <1>6. QED
    BY <1>2, <1>3, <1>4, <1>5, Combine

LEMMA RefuseKeeps ==
  ASSUME IndInv, up, NEW r \in Slots, NEW c \in Codes, Refuse(r, c)
  PROVE  IndInv'
  <1>1. RowsTyped /\ ReceiptsTyped
    BY TypeParts DEF IndInv
  <1>2. /\ Answer(r, c, 0) /\ receipts' = receipts /\ docs' = docs /\ lastId' = lastId
        /\ UNCHANGED <<docs, lastId, blobs, folder, queue, work, up, now, left>>
    BY DEF Refuse
  <1>3. ReceiptsTyped'
    BY <1>1, <1>2, RowsStay, ReceiptsKept
  <1>4. QED
    BY <1>2, <1>3, AnswerOnly DEF MaybeId

LEMMA LoadedReceipt ==
  ASSUME ReceiptsTyped, NEW q \in Requests, q.user \in Users, LoadReceipt(q) # NoReceipt
  PROVE  Exists(LoadReceipt(q).doc)
  <1>1. q.key # NoKey /\ LoadReceipt(q) = KeptReceipts[<<q.user, q.key>>]
    BY DEF LoadReceipt
  <1>2. <<q.user, q.key>> \in Users \X Keys
    BY <1>1 DEF Requests
  <1>3. LoadReceipt(q) = receipts[<<q.user, q.key>>]
    BY <1>1, <1>2, KeptReceiptsTyped
  <1>4. QED
    BY <1>2, <1>3 DEF ReceiptsTyped

LEMMA ReplayKeeps ==
  ASSUME IndInv, up, NEW r \in Slots, req[r].at = "stored",
         LoadReceipt(req[r]) # NoReceipt, Replay(r)
  PROVE  IndInv'
  <1>1. RowsTyped /\ ReceiptsTyped
    BY TypeParts DEF IndInv
  <1>2. LoadReceipt(req[r]).doc \in MaybeId
    BY <1>1, StoredRequest, LoadedReceipt DEF Exists, MaybeId
  <1>3. /\ Answer(r, "replayed", LoadReceipt(req[r]).doc)
        /\ receipts' = KeptReceipts /\ docs' = docs /\ lastId' = lastId
        /\ UNCHANGED <<docs, lastId, blobs, folder, queue, work, up, now, left>>
    BY DEF Replay
  <1>4. ReceiptsTyped'
    BY <1>1, <1>3, RowsStay, ReceiptsKept
  <1>5. QED
    BY <1>2, <1>3, <1>4, AnswerOnly DEF Codes

(* A request is answered with document d and its receipt is kept.          *)
LEMMA AcceptKeeps ==
  ASSUME IndInv, up, NEW r \in Slots, req[r].at = "stored",
         NEW d \in Ids, NEW c \in {"ok", "replayed"}, RowStep, RowsSurvive, docs'[d] # NoRow,
         queue' \subseteq queue \cup {e \in Ids : docs'[e] # NoRow},
         StoreReceipt(req[r], d), Answer(r, c, d),
         UNCHANGED <<blobs, folder, work, up, now, left>>
  PROVE  IndInv'
  <1>1. ReceiptsTyped /\ QueueTyped /\ FilesTyped /\ SpentTyped /\ now \in 1..MaxNow
    BY TypeParts DEF IndInv, TimeTyped
  <1>2. ReceiptsTyped'
    BY <1>1, StoredRequest, ReceiptStored
  <1>3. QueueTyped'
    BY <1>1, QueueKept
  <1>4. ReqTyped' /\ StoredBytes'
    BY AnswerTyped DEF Codes, MaybeId
  <1>5. FilesTyped' /\ SpentTyped'
    BY <1>1 DEF FilesTyped, SpentTyped
  <1>6. QED
    BY <1>2, <1>3, <1>4, <1>5, Combine

LEMMA UploadDocumentKeeps ==
  ASSUME IndInv, NEW r \in Slots, UploadDocument(r)
  PROVE  IndInv'
  <1> DEFINE q == req[r]
             s == LoadReceipt(q)
             R == {d \in OwnedCopies(q.user, q.blob) : Recoverable(d)}
  <1>1. up /\ req[r].at = "stored"
    BY DEF UploadDocument, Ready
  <1>2. RowsTyped /\ q.user \in Users /\ q.blob \in blobs /\ q.blob \in Blobs
    BY <1>1, TypeParts, StoredRequest DEF IndInv
  <1>3. \A d \in R : Exists(d)
    BY DEF OwnedCopies
  <1>4. CASE Refuse(r, "idempotency_conflict") \/ Refuse(r, "split_origin_children_trashed")
    BY <1>1, <1>4, RefuseKeeps DEF Codes
  <1>5. CASE s # NoReceipt /\ Replay(r)
    BY <1>1, <1>5, ReplayKeeps
  <1>6. ASSUME NEW out \in Outcomes(q.user, q.blob, R),
               ApplyOutcome(q.user, q.blob, out), StoreReceipt(q, out.doc),
               Answer(r, "ok", out.doc), UNCHANGED <<blobs, folder, work, up, now, left>>
        PROVE  IndInv'
    <2>1. q.blob \in blobs'
      BY <1>2, <1>6
    <2> HIDE DEF R
    <2>2. /\ RowStep /\ RowsSurvive /\ out.doc \in Ids /\ docs'[out.doc] # NoRow
          /\ queue' \subseteq queue \cup {d \in Ids : docs'[d] # NoRow}
      BY <1>2, <1>3, <1>6, <2>1, ApplyOutcomeRows
    <2>3. QED
      BY <1>1, <1>6, <2>2, AcceptKeeps
  <1>7. QED
    BY <1>4, <1>5, <1>6 DEF UploadDocument

LEMMA UploadNewVersionKeeps ==
  ASSUME IndInv, NEW r \in Slots, UploadNewVersion(r)
  PROVE  IndInv'
  <1> DEFINE q == req[r]
             s == LoadReceipt(q)
             d == IF s # NoReceipt THEN s.doc ELSE FirstResult(EarlierResults(q))
  <1>1. up /\ req[r].at = "stored"
    BY DEF UploadNewVersion, Ready
  <1>2. RowsTyped /\ q.user \in Users /\ q.blob \in blobs /\ q.blob \in Blobs
    BY <1>1, TypeParts, StoredRequest DEF IndInv
  <1>3. CASE \/ Refuse(r, "version_predecessor_changed")
             \/ Refuse(r, "idempotency_conflict")
             \/ Refuse(r, "version_target_unavailable")
             \/ Refuse(r, "version_head_changed")
             \/ Refuse(r, "duplicate_version_blob")
    BY <1>1, <1>3, RefuseKeeps DEF Codes
  <1>4. CASE s # NoReceipt /\ Replay(r)
    BY <1>1, <1>4, ReplayKeeps
  <1>5. CASE /\ Live(d) /\ StoreReceipt(q, d) /\ Answer(r, "replayed", d)
             /\ UNCHANGED <<docs, lastId, blobs, folder, queue, work, up, now, left>>
    <2> HIDE DEF d
    <2>1. d \in Ids /\ docs'[d] # NoRow
      BY <1>5 DEF Live, Exists
    <2>2. RowStep /\ RowsSurvive
      BY <1>2, <1>5, RowsStay
    <2>3. QED
      BY <1>1, <1>5, <2>1, <2>2, AcceptKeeps
  <1>6. CASE /\ Live(q.prev) /\ InsertVersion(q) /\ StoreReceipt(q, lastId + 1)
             /\ Answer(r, "ok", lastId + 1)
             /\ UNCHANGED <<blobs, folder, work, up, now, left>>
    <2>1. Exists(q.prev) /\ q.blob \in blobs'
      BY <1>2, <1>6 DEF Live
    <2>2. /\ RowStep /\ RowsSurvive /\ lastId + 1 \in Ids /\ docs'[lastId + 1] # NoRow
          /\ queue' \subseteq queue \cup {e \in Ids : docs'[e] # NoRow}
      BY <1>2, <1>6, <2>1, InsertVersionRows
    <2>3. QED
      BY <1>1, <1>6, <2>2, AcceptKeeps
  <1>7. QED
    BY <1>3, <1>4, <1>5, <1>6 DEF UploadNewVersion

LEMMA NewRequests ==
  ASSUME NEW u \in Users, NEW b \in Blobs, NEW k \in Keys \cup {NoKey}, NEW p \in MaybeId
  PROVE  /\ Upload(u, b, k, p) \in Requests
         /\ Upload(u, b, k, p).blob = b /\ Upload(u, b, k, p).user = u
  <1>1. 0 \in 0..MaxNow
    BY ConstantsAssumption DEF ConstantsAssumption
  <1>2. QED
    BY <1>1 DEF Upload, Requests, Codes, MaybeId

LEMMA ReceiveKeeps ==
  ASSUME IndInv, NEW r \in Slots, Receive(r)
  PROVE  IndInv'
  <1>1. RowsTyped /\ ReceiptsTyped /\ QueueTyped /\ ReqTyped /\ FilesTyped /\ SpentTyped
    BY TypeParts DEF IndInv
  <1>2. PICK u \in Users, b \in Uploaded, k \in Keys \cup {NoKey}, p \in MaybeId :
          /\ req' = [req EXCEPT ![r] = Upload(u, b, k, p)] /\ blobs' = blobs \cup {b}
          /\ Spend(UploadKind(b, k))
    BY DEF Receive
  <1>3. b \in Blobs
    BY ConstantsAssumption DEF ConstantsAssumption
  <1>4. /\ Upload(u, b, k, p) \in Requests
        /\ Upload(u, b, k, p).blob = b /\ Upload(u, b, k, p).user = u
    BY <1>3, NewRequests
  <1>5. ReqTyped' /\ FilesTyped' /\ blobs \subseteq blobs'
    BY <1>1, <1>2, <1>3, <1>4 DEF ReqTyped, FilesTyped, Receive
  <1>6. StoredBytes'
    BY <1>1, <1>2, <1>4 DEF StoredBytes, ReqTyped, IndInv
  <1>7. /\ UNCHANGED <<docs, lastId, receipts, folder, queue, work, up, now>>
        /\ up
    BY DEF Receive
  <1>8. RowStep /\ RowsSurvive
    BY <1>1, <1>7, RowsStay
  <1>9. ReceiptsTyped' /\ QueueTyped'
    BY <1>1, <1>7, <1>8, ReceiptsKept, QueueKept
  <1>10. SpentTyped'
    <2>1. UploadKind(b, k) \in Kinds
      BY DEF UploadKind, Kinds
    <2>2. QED
      BY <1>1, <1>2, <2>1, SpendTyped
  <1>11. QED
    BY <1>5, <1>6, <1>7, <1>8, <1>9, <1>10, Combine

LEMMA WatchIngestKeeps ==
  ASSUME IndInv, NEW u \in Users, NEW b \in Dropped, WatchIngest(u, b)
  PROVE  IndInv'
  <1> DEFINE R == {d \in OwnedCopies(u, b) : Trashed(d)}
  <1>1. RowsTyped /\ ReceiptsTyped /\ QueueTyped /\ ReqTyped /\ FilesTyped /\ SpentTyped
    BY TypeParts DEF IndInv
  <1>2. b \in Blobs /\ \A d \in R : Exists(d)
    BY ConstantsAssumption DEF ConstantsAssumption, OwnedCopies
  <1>3. /\ up /\ folder' = folder \ {b} /\ blobs' = blobs \cup {b}
        /\ UNCHANGED <<receipts, req, work, up, now, left>>
    BY DEF WatchIngest
  <1>4. PICK out \in Outcomes(u, b, R) : ApplyOutcome(u, b, out)
    BY DEF WatchIngest
  <1> HIDE DEF R
  <1>5. /\ RowStep /\ RowsSurvive
        /\ queue' \subseteq queue \cup {d \in Ids : docs'[d] # NoRow}
    BY <1>1, <1>2, <1>3, <1>4, ApplyOutcomeRows
  <1>6. ReceiptsTyped' /\ QueueTyped'
    BY <1>1, <1>3, <1>5, ReceiptsKept, QueueKept
  <1>7. /\ ReqTyped' /\ StoredBytes' /\ FilesTyped' /\ SpentTyped'
        /\ blobs \subseteq blobs'
    BY <1>1, <1>2, <1>3 DEF ReqTyped, StoredBytes, IndInv, FilesTyped, SpentTyped
  <1>8. QED
    BY <1>3, <1>5, <1>6, <1>7, Combine

(* Trashing, restoring and rescanning.                                     *)
LEMMA EditKeeps ==
  ASSUME IndInv, NEW d \in Ids, SoftDelete(d) \/ RestoreDocument(d) \/ Rescan(d)
  PROVE  IndInv'
  <1>1. /\ RowsTyped /\ ReceiptsTyped /\ QueueTyped /\ ReqTyped /\ FilesTyped /\ SpentTyped
        /\ now \in 0..MaxNow
    BY TypeParts DEF IndInv, TimeTyped
  <1>2. /\ UNCHANGED <<lastId, receipts, blobs, req, folder, work, up, now>>
        /\ up /\ Spend("edits") /\ Exists(d)
    BY DEF SoftDelete, RestoreDocument, Rescan, Recoverable, Trashed, Live
  <1>3. /\ RowStep /\ RowsSurvive
        /\ queue' \subseteq queue \cup {e \in Ids : docs'[e] # NoRow}
    <2>1. CASE SoftDelete(d) \/ RestoreDocument(d)
      <3>1. PICK t \in {now, 0} : docs' = [docs EXCEPT ![d].trashed = t] /\ queue' = queue
        BY <2>1 DEF SoftDelete, RestoreDocument
      <3>2. t \in 0..MaxNow
        BY <1>1, ConstantsAssumption DEF ConstantsAssumption
      <3>3. QED
        BY <1>1, <1>2, <3>1, <3>2, TrashRow
    <2>2. CASE Rescan(d)
      <3>1. docs' = docs /\ queue' = queue \cup {d}
        BY <2>2 DEF Rescan
      <3>2. QED
        BY <1>1, <1>2, <3>1, RowsStay DEF Exists
    <2>3. QED
      BY <2>1, <2>2
  <1>4. ReceiptsTyped' /\ QueueTyped'
    BY <1>1, <1>2, <1>3, ReceiptsKept, QueueKept
  <1>5. ReqTyped' /\ StoredBytes' /\ FilesTyped' /\ blobs \subseteq blobs'
    BY <1>1, <1>2 DEF ReqTyped, StoredBytes, IndInv, FilesTyped
  <1>6. SpentTyped'
    BY <1>1, <1>2, SpendTyped DEF Kinds
  <1>7. QED
    BY <1>2, <1>3, <1>4, <1>5, <1>6, Combine

(* The ways a post-ingest job ends without a split.                        *)
LEMMA JobEndKeeps ==
  ASSUME IndInv, (\E d \in Ids : JobWithoutWork(d)) \/ JobUpdateDoc \/ JobFail
  PROVE  IndInv'
  <1>1. /\ RowsTyped /\ ReceiptsTyped /\ QueueTyped /\ ReqTyped /\ FilesTyped /\ SpentTyped
        /\ WorkTyped
    BY TypeParts DEF IndInv
  <1>2. /\ UNCHANGED <<lastId, receipts, blobs, req, folder, up, now, left>>
        /\ up /\ work' \in {work, NoWork} /\ queue' \subseteq queue
    BY DEF JobWithoutWork, JobUpdateDoc, JobFail
  <1>3. RowStep /\ RowsSurvive
    <2>1. CASE docs' = docs
      BY <1>1, <1>2, <2>1, RowsStay
    <2>2. CASE docs' # docs
      <3> DEFINE a == work.archive
      <3>1. /\ work.at = "derive" /\ Exists(work.doc)
            /\ docs' = [docs EXCEPT ![work.doc].archive = a]
        BY <2>2 DEF JobWithoutWork, JobUpdateDoc, JobFail
      <3>2. a \in blobs \cup {NoBlob} /\ a \in Blobs \cup {NoBlob}
        BY <1>1, <3>1 DEF IndInv, WorkBytes, WorkTyped
      <3> HIDE DEF a
      <3>3. QED
        BY <1>1, <1>2, <3>1, <3>2, ArchiveRow
    <2>3. QED
      BY <2>1, <2>2
  <1>4. ReceiptsTyped' /\ QueueTyped'
    BY <1>1, <1>2, <1>3, ReceiptsKept, QueueKept
  <1>5. /\ ReqTyped' /\ StoredBytes' /\ FilesTyped' /\ SpentTyped'
        /\ blobs \subseteq blobs'
    BY <1>1, <1>2 DEF ReqTyped, StoredBytes, IndInv, FilesTyped, SpentTyped
  <1>6. QED
    BY <1>2, <1>3, <1>4, <1>5, Combine

(* A job stores its files before its transaction.                          *)
LEMMA JobBeginKeeps ==
  ASSUME IndInv, NEW d \in Ids, JobPrepareSplit(d) \/ JobDerive(d)
  PROVE  IndInv'
  <1>1. /\ RowsTyped /\ ReceiptsTyped /\ QueueTyped /\ ReqTyped /\ FilesTyped /\ SpentTyped
        /\ WorkTyped /\ TimeTyped
    BY TypeParts DEF IndInv
  <1>2. /\ UNCHANGED <<docs, lastId, receipts, req, folder, queue, up, now>>
        /\ up /\ Spend("jobs") /\ Exists(d)
    BY DEF JobPrepareSplit, JobDerive, Live
  <1>3. docs[d].blob \in Blobs /\ d <= lastId /\ d \in MaybeId
    BY <1>1, <1>2 DEF RowsTyped, Exists, Rows, MaybeId
  <1>4. blobs' \subseteq Blobs /\ blobs \subseteq blobs' /\ WorkTyped' /\ WorkBytes'
    <2>1. CASE JobPrepareSplit(d)
      <3> DEFINE missing == MissingParts(d)
                 part == Segments[docs[d].blob]
      <3>1. /\ blobs' = blobs \cup {part[i] : i \in missing}
            /\ work' = [NoWork EXCEPT !.at = "split", !.doc = d, !.made = missing]
        BY <2>1 DEF JobPrepareSplit
      <3>2. \A i \in missing : i \in Indexes /\ part[i] \in Blobs
        BY <1>3, SegmentsTyped DEF MissingParts, Parts
      <3> HIDE DEF missing
      <3>3. /\ work'.at = "split" /\ work'.doc = d /\ work'.made = missing
            /\ work'.archive = NoBlob /\ WorkTyped'
        BY <1>3, <3>1, <3>2 DEF NoWork, WorkTyped
      <3>4. WorkBytes'
        BY <1>2, <1>3, <3>1, <3>3 DEF WorkBytes, Parts
      <3>5. QED
        BY <1>1, <3>1, <3>2, <3>3, <3>4 DEF FilesTyped
    <2>2. CASE JobDerive(d)
      <3>1. PICK a \in Archives[docs[d].blob] \cup {NoBlob} :
              /\ blobs' = blobs \cup ({a} \ {NoBlob})
              /\ work' = [NoWork EXCEPT !.at = "derive", !.doc = d, !.archive = a]
        BY <2>2 DEF JobDerive
      <3>2. a \in Blobs \cup {NoBlob}
        BY <1>3, ConstantsAssumption DEF ConstantsAssumption
      <3>3. /\ work'.at = "derive" /\ work'.doc = d /\ work'.archive = a /\ WorkTyped'
        BY <1>3, <3>1, <3>2 DEF NoWork, WorkTyped
      <3>4. WorkBytes'
        BY <1>2, <1>3, <3>1, <3>3 DEF WorkBytes
      <3>5. QED
        BY <1>1, <3>1, <3>2, <3>3, <3>4 DEF FilesTyped
    <2>3. QED
      BY <2>1, <2>2
  <1>5. SpentTyped'
    BY <1>1, <1>2, SpendTyped DEF Kinds
  <1>6. RowsTyped' /\ ReceiptsTyped' /\ QueueTyped' /\ ReqTyped' /\ FilesTyped'
    BY <1>1, <1>2, <1>4
       DEF RowsTyped, ReceiptsTyped, QueueTyped, ReqTyped, FilesTyped, Exists
  <1>7. TimeTyped'
    BY <1>1, <1>2, Zenon DEF TimeTyped
  <1>8. NoDocumentWithoutBytes' /\ StoredBytes'
    BY <1>2, <1>4 DEF IndInv, NoDocumentWithoutBytes, StoredBytes, Exists
  <1>9. DownIsQuiet'
    BY <1>2 DEF DownIsQuiet
  <1>10. TypeOK'
    BY <1>4, <1>5, <1>6, <1>7, TypeParts, PTL
  <1>11. QED
    BY <1>4, <1>8, <1>9, <1>10 DEF IndInv

(* A file dropped, and the steps with the server down or between its runs. *)
LEMMA OutsideKeeps ==
  ASSUME IndInv,
         (\E b \in Dropped : DropFile(b)) \/ Stop \/ Start \/ CollectGarbage \/ Tick
  PROVE  IndInv'
  <1>1. /\ RowsTyped /\ ReceiptsTyped /\ QueueTyped /\ ReqTyped /\ FilesTyped /\ SpentTyped
        /\ WorkTyped /\ TimeTyped
    BY TypeParts DEF IndInv
  <1>2. docs' = docs /\ lastId' = lastId /\ receipts' = receipts /\ queue' = queue
    BY DEF DropFile, Stop, Start, CollectGarbage, Tick
  <1>3. RowsTyped' /\ ReceiptsTyped' /\ QueueTyped'
    BY <1>1, <1>2 DEF RowsTyped, ReceiptsTyped, QueueTyped, Exists
  <1>4. req' \in [Slots -> Requests] /\ \A r \in Slots : req'[r] = req[r] \/ req'[r] = Quiet
    <2>1. Quiet \in Requests
      BY ConstantsAssumption DEF ConstantsAssumption, Quiet, Requests, Codes, MaybeId
    <2>2. QED
      BY <1>1, <2>1 DEF ReqTyped, DropFile, Stop, Start, CollectGarbage, Tick
  <1>5. work' = work \/ work' = NoWork
    BY DEF DropFile, Stop, Start, CollectGarbage, Tick
  <1>6. WorkTyped'
    BY <1>1, <1>5 DEF WorkTyped, NoWork, MaybeId
  <1>7. FilesTyped'
    BY <1>1, ConstantsAssumption
       DEF ConstantsAssumption, FilesTyped, DropFile, Stop, Start, CollectGarbage, Tick
  <1>8. SpentTyped'
    <2>1. CASE left' = left
      BY <1>1, <2>1 DEF SpentTyped
    <2>2. CASE Spend("drops") \/ Spend("stops")
      BY <1>1, <2>2, SpendTyped DEF Kinds
    <2>3. QED
      BY <2>1, <2>2 DEF DropFile, Stop, Start, CollectGarbage, Tick
  <1>9. TimeTyped'
    <2>1. up' \in BOOLEAN
      BY <1>1, Zenon DEF TimeTyped, DropFile, Stop, Start, CollectGarbage, Tick
    <2>2. now' \in 1..MaxNow
      BY <1>1, ConstantsAssumption
         DEF ConstantsAssumption, TimeTyped, DropFile, Stop, Start, CollectGarbage, Tick
    <2>3. QED
      BY <2>1, <2>2 DEF TimeTyped
  <1>10. TypeOK'
    <2>1. ReqTyped'
      BY <1>4 DEF ReqTyped
    <2>2. QED
      BY <1>3, <1>6, <1>7, <1>8, <1>9, <2>1, TypeParts, PTL
  <1>11. CASE CollectGarbage
    <2>1. ~up /\ up' = up /\ work' = work /\ req' = req
      BY <1>11 DEF CollectGarbage
    <2>2. work = NoWork /\ \A r \in Slots : req[r].at # "stored"
      BY <2>1 DEF IndInv, DownIsQuiet
    <2>3. DownIsQuiet' /\ StoredBytes'
      BY <2>1, <2>2 DEF DownIsQuiet, StoredBytes
    <2>4. WorkBytes'
      BY <1>1, <1>2, <2>1, <2>2 DEF WorkBytes, NoWork, RowsTyped, MaybeId, Ids
    <2>5. PICK S \in SUBSET (blobs \ References) : blobs' = blobs \ S
      BY <1>11 DEF CollectGarbage
    <2>6. ASSUME NEW d \in Ids, docs[d] # NoRow
          PROVE  docs[d].blob \in blobs' /\ docs[d].archive \in blobs' \cup {NoBlob}
      <3>1. docs[d].blob \in References /\ docs[d].archive \in References
        BY <2>6 DEF References, Exists
      <3>2. QED
        BY <2>5, <2>6, <3>1 DEF IndInv, NoDocumentWithoutBytes, Exists
    <2>7. NoDocumentWithoutBytes'
      BY <1>2, <2>6 DEF NoDocumentWithoutBytes, Exists
    <2>8. QED
      BY <1>10, <2>3, <2>4, <2>7 DEF IndInv
  <1>12. CASE ~CollectGarbage
    <2>1. blobs' = blobs
      BY <1>12 DEF DropFile, Stop, Start, Tick
    <2>2. NoDocumentWithoutBytes'
      BY <1>2, <2>1 DEF IndInv, NoDocumentWithoutBytes, Exists
    <2>3. StoredBytes'
      BY <1>4, <2>1 DEF IndInv, StoredBytes, Quiet
    <2>4. WorkBytes'
      <3>1. CASE work' = work
        BY <1>2, <2>1, <3>1 DEF IndInv, WorkBytes, Exists, Parts
      <3>2. CASE work' = NoWork
        BY <1>1, <1>2, <3>2 DEF WorkBytes, NoWork, RowsTyped, MaybeId, Ids
      <3>3. QED
        BY <1>5, <3>1, <3>2
    <2>5. DownIsQuiet'
      <3>1. CASE Stop
        BY <1>1, <3>1 DEF Stop, DownIsQuiet, ReqTyped, Quiet
      <3>2. CASE Start
        BY <3>2 DEF Start, DownIsQuiet
      <3>3. CASE up' = up /\ req' = req /\ work' = work
        BY <3>3 DEF IndInv, DownIsQuiet
      <3>4. QED
        BY <1>12, <3>1, <3>2, <3>3 DEF DropFile, Tick
    <2>6. QED
      BY <1>10, <2>2, <2>3, <2>4, <2>5 DEF IndInv
  <1>13. QED
    BY <1>11, <1>12

-----------------------------------------------------------------------------
(* The invariant is inductive.                                             *)
LEMMA InitSound == Init => IndInv
  <1> SUFFICES ASSUME Init PROVE IndInv
    OBVIOUS
  <1>1. RowsTyped /\ \A d \in Ids : ~Exists(d)
    BY ConstantsAssumption DEF ConstantsAssumption, Init, RowsTyped, Exists, MaybeId, Ids
  <1>2. ReceiptsTyped /\ QueueTyped /\ FilesTyped
    BY DEF Init, ReceiptsTyped, QueueTyped, FilesTyped
  <1>3. Quiet \in Requests
    BY ConstantsAssumption DEF ConstantsAssumption, Quiet, Requests, Codes, MaybeId
  <1>4. ReqTyped /\ \A r \in Slots : req[r].at # "stored"
    BY <1>3 DEF Init, ReqTyped, Quiet
  <1>5. WorkTyped /\ SpentTyped
    BY ConstantsAssumption DEF ConstantsAssumption, Init, WorkTyped, NoWork, MaybeId, SpentTyped
  <1>6. TimeTyped
    BY ConstantsAssumption DEF ConstantsAssumption, Init, TimeTyped
  <1>7. TypeOK
    BY <1>1, <1>2, <1>4, <1>5, <1>6, TypeParts
  <1>8. NoDocumentWithoutBytes /\ StoredBytes /\ WorkBytes /\ DownIsQuiet
    BY <1>1, <1>4 DEF Init, NoDocumentWithoutBytes, StoredBytes, WorkBytes, NoWork, DownIsQuiet
  <1>9. QED
    BY <1>7, <1>8 DEF IndInv

LEMMA StepSound == IndInv /\ [Next]_vars => IndInv'
  <1> SUFFICES ASSUME IndInv, [Next]_vars PROVE IndInv'
    OBVIOUS
  <1>1. CASE \E r \in Slots : Receive(r) \/ UploadDocument(r) \/ UploadNewVersion(r)
    BY <1>1, ReceiveKeeps, UploadDocumentKeeps, UploadNewVersionKeeps
  <1>2. CASE \E b \in Dropped : \E u \in Users : WatchIngest(u, b)
    BY <1>2, WatchIngestKeeps
  <1>3. CASE \E d \in Ids : SoftDelete(d) \/ RestoreDocument(d) \/ Rescan(d)
    BY <1>3, EditKeeps
  <1>4. CASE (\E d \in Ids : PurgeOne(d)) \/ PurgeExpired
    BY <1>4, PurgeRowsKeeps DEF PurgeOne, PurgeExpired
  <1>5. CASE \E d \in Ids : JobWithoutWork(d)
    BY <1>5, JobEndKeeps
  <1>6. CASE JobUpdateDoc \/ JobFail
    BY <1>6, JobEndKeeps
  <1>7. CASE JobCommitSplit
    BY <1>7, JobCommitSplitKeeps
  <1>8. CASE \E d \in Ids : JobPrepareSplit(d) \/ JobDerive(d)
    BY <1>8, JobBeginKeeps
  <1>9. CASE (\E b \in Dropped : DropFile(b)) \/ Stop \/ Start \/ CollectGarbage \/ Tick
    BY <1>9, OutsideKeeps
  <1>10. CASE UNCHANGED vars
    BY <1>10 DEF vars, IndInv, TypeOK, NoDocumentWithoutBytes, StoredBytes, WorkBytes,
                 DownIsQuiet, Exists, Parts
  <1>11. QED
    BY <1>1, <1>2, <1>3, <1>4, <1>5, <1>6, <1>7, <1>8, <1>9, <1>10 DEF Next

(* Rows, receipts, requests and jobs keep their types; receipts and jobs   *)
(* name rows that exist, whatever is purged (the cascades of documents).   *)
THEOREM IntakeTyped == Spec => []TypeOK
  <1>1. IndInv => TypeOK
    BY DEF IndInv
  <1>2. QED
    BY <1>1, InitSound, StepSound, PTL DEF Spec

(* No document is ever without its original or archive file: a transaction *)
(* only names files that are stored, and gc runs when no request and no    *)
(* job holds a file that no row names yet (core/gc/gc.go, core/api).       *)
THEOREM BytesAreKept == Spec => []NoDocumentWithoutBytes
  <1>1. IndInv => NoDocumentWithoutBytes
    BY DEF IndInv
  <1>2. QED
    BY <1>1, InitSound, StepSound, PTL DEF Spec

-----------------------------------------------------------------------------
(* Lineage: what rows and receipts say of one another.                     *)

(* Revisions point back, and a family's key is the id of its first member: *)
(* whoever has it is not older, and while that row exists it has it too.   *)
Families ==
  /\ \A d \in Ids : Exists(d) => docs[d].prev < d /\ docs[d].family <= d
  /\ \A d, k \in Ids : Exists(d) /\ Exists(k) /\ docs[d].family = k => docs[k].family = k

(* Document d is what user u, asking for operation op after prev with      *)
(* bytes b, may be told.  A purge of the predecessor unlinks d from it.    *)
Serves(table, last, d, u, op, prev, b) ==
  /\ table[d].blob = b
  /\ op = "document" => table[d].owner = u
  /\ op = "version" =>
       prev <= last /\ (table[d].prev = prev \/ prev \notin Ids \/ table[prev] = NoRow)

ReceiptsHold ==
  \A u \in Users, k \in Keys :
    LET s == receipts[<<u, k>>] IN
      s # NoReceipt => Serves(docs, lastId, s.doc, u, s.op, s.prev, s.blob)

Lineage == Families /\ FamilyIsAChain /\ PartsFiledOnce /\ ReceiptsHold

(* A row survives a step as the document it is: the predecessor it names   *)
(* is only ever forgotten when that is purged.                             *)
Carried(d) ==
  /\ docs[d] # NoRow /\ docs'[d] # NoRow
  /\ docs'[d].owner = docs[d].owner /\ docs'[d].blob = docs[d].blob
  /\ docs'[d].origin = docs[d].origin /\ docs'[d].index = docs[d].index
  /\ \/ docs'[d].prev = docs[d].prev
     \/ docs'[d].prev = 0 /\ docs'[docs[d].prev] = NoRow

(* What rows are after a step: gone, what they were, or new.               *)
RowFates == \A d \in Ids : docs'[d] = NoRow \/ Carried(d) \/ lastId < d

NewAreAlone ==
  \A d \in Ids : docs'[d] # NoRow /\ ~Carried(d) =>
    docs'[d].prev = 0 /\ docs'[d].family = 0

NewAreNoParts == \A d \in Ids : docs'[d] # NoRow /\ ~Carried(d) => docs'[d].origin = 0

LEMMA RowNumbers ==
  ASSUME RowsTyped
  PROVE  /\ MaxDocs \in Nat /\ lastId \in Nat
         /\ \A d \in Ids : d \in Nat /\ d # 0
         /\ \A d \in Ids : docs[d] # NoRow =>
              /\ d <= lastId /\ docs[d] \in Rows
              /\ docs[d].prev \in Nat /\ docs[d].family \in Nat
              /\ docs[d].prev \in MaybeId /\ docs[d].family \in MaybeId
              /\ docs[d].origin \in MaybeId
  <1>1. MaxDocs \in Nat
    BY ConstantsAssumption DEF ConstantsAssumption
  <1>2. \A x \in MaybeId : x \in Nat
    BY <1>1 DEF MaybeId, Ids
  <1>3. \A d \in Ids : d \in Nat /\ d # 0
    BY <1>1 DEF Ids
  <1>4. ASSUME NEW d \in Ids, docs[d] # NoRow
        PROVE  /\ d <= lastId /\ docs[d] \in Rows
               /\ docs[d].prev \in MaybeId /\ docs[d].family \in MaybeId
               /\ docs[d].origin \in MaybeId
    BY <1>4 DEF RowsTyped, Exists, Rows
  <1>5. QED
    BY <1>1, <1>2, <1>3, <1>4 DEF RowsTyped

(* Families survive a step that begins no revision.                        *)
LEMMA FamiliesKept ==
  ASSUME RowsTyped, RowsTyped', Families, FamilyIsAChain, RowFates, NewAreAlone,
         \A d \in Ids : Carried(d) => docs'[d].family = docs[d].family
  PROVE  Families' /\ FamilyIsAChain'
  <1>1. \A d \in Ids : d \in Nat /\ d # 0
    BY RowNumbers
  <1>2. lastId \in Nat
    BY RowNumbers
  <1>3. ASSUME NEW d \in Ids, docs'[d] # NoRow, docs'[d].family # 0
        PROVE  Carried(d) /\ docs[d] # NoRow /\ docs'[d].family = docs[d].family
    BY <1>3 DEF NewAreAlone, Carried
  <1>4. ASSUME NEW d \in Ids, docs'[d] # NoRow
        PROVE  docs'[d].prev < d /\ docs'[d].family <= d
    <2>1. CASE Carried(d)
      BY <1>1, <1>4, <2>1 DEF Carried, Families, Exists
    <2>2. CASE ~Carried(d)
      BY <1>1, <1>4, <2>2 DEF NewAreAlone
    <2>3. QED
      BY <2>1, <2>2
  <1>5. ASSUME NEW d \in Ids, NEW k \in Ids, docs'[d] # NoRow, docs'[k] # NoRow,
               docs'[d].family = k
        PROVE  docs'[k].family = k
    <2>1. docs[d] # NoRow /\ docs[d].family = k
      BY <1>1, <1>3, <1>5
    <2>2. k <= d /\ d <= lastId
      BY <2>1, RowNumbers DEF Families, Exists
    <2>3. ~(lastId < k)
      BY <1>1, <1>2, <2>2
    <2>4. Carried(k)
      BY <1>5, <2>3 DEF RowFates
    <2>5. docs[k] # NoRow
      BY <2>4 DEF Carried
    <2>6. docs[k].family = k
      BY <2>1, <2>5 DEF Families, Exists
    <2>7. QED
      BY <2>4, <2>6
  <1>6. ASSUME NEW d \in Ids, NEW e \in Ids, docs'[d] # NoRow, docs'[e] # NoRow,
               d < e, docs'[d].family # 0, docs'[d].family = docs'[e].family
        PROVE  docs'[e].prev = 0 \/ docs'[e].prev >= d
    <2>1. /\ docs[d] # NoRow /\ docs[e] # NoRow /\ Carried(e)
          /\ docs[d].family # 0 /\ docs[d].family = docs[e].family
      BY <1>3, <1>6
    <2>2. docs[e].prev = 0 \/ docs[e].prev >= d
      BY <1>6, <2>1 DEF FamilyIsAChain, Exists
    <2>3. QED
      BY <2>1, <2>2 DEF Carried
  <1>7. QED
    BY <1>4, <1>5, <1>6 DEF Families, FamilyIsAChain, Exists

(* A revision is put at the end of its family.                             *)
LEMMA VersionJoins ==
  ASSUME RowsTyped, RowsTyped', Families, FamilyIsAChain,
         NEW p \in Ids, docs[p] # NoRow, IsHead(p), NEW n \in Ids, n = lastId + 1,
         NEW k, k = IF docs[p].family = 0 THEN p ELSE docs[p].family,
         docs'[n].prev = p, docs'[n].family = k,
         docs'[p].family = k, docs'[p].prev = docs[p].prev,
         \A d \in Ids \ {p, n} : docs'[d] = docs[d]
  PROVE  Families' /\ FamilyIsAChain'
  <1>1. \A d \in Ids : d \in Nat /\ d # 0
    BY RowNumbers
  <1>2. lastId \in Nat /\ p <= lastId /\ docs[p].family \in Nat /\ docs[p].family <= p
    BY RowNumbers DEF Families, Exists
  <1>3. k \in Nat /\ k # 0 /\ k <= p /\ p < n
    <2>1. p \in Nat /\ p # 0
      BY <1>1
    <2>2. k \in Nat /\ k # 0 /\ k <= p
      BY <1>2, <2>1
    <2>3. p < n
      BY <1>2, <2>1
    <2>4. QED
      BY <2>2, <2>3
  <1>4. ASSUME NEW d \in Ids, docs[d] # NoRow
        PROVE  d < n /\ d # n /\ docs[d].family <= d /\ docs[d].prev < d
               /\ docs[d].family \in Nat
    <2>1. d <= lastId /\ docs[d].family \in Nat
      BY <1>4, RowNumbers
    <2>2. QED
      BY <1>1, <1>2, <1>4, <2>1 DEF Families, Exists
  <1>5. ASSUME NEW d \in Ids, docs'[d] # NoRow, d # n
        PROVE  docs[d] # NoRow /\ docs'[d].prev = docs[d].prev
    BY <1>5
  <1>6. ASSUME NEW d \in Ids, docs'[d] # NoRow, d # n, d # p
        PROVE  docs[d] # NoRow /\ docs'[d].family = docs[d].family
    BY <1>6
  \* the only members of the family are those that were
  <1>7. ASSUME NEW d \in Ids, docs'[d] # NoRow, d # n, docs'[d].family = k
        PROVE  d <= p
    <2>1. CASE d = p
      BY <1>1, <2>1
    <2>2. CASE d # p
      <3>1. docs[d] # NoRow /\ docs[d].family = k
        BY <1>6, <1>7, <2>2
      <3>2. docs[p].family # 0
        BY <1>1, <3>1 DEF Families, Exists
      <3>3. QED
        BY <3>1, <3>2 DEF IsHead, Family, Exists
    <2>3. QED
      BY <2>1, <2>2
  <1>8. ASSUME NEW d \in Ids, docs'[d] # NoRow
        PROVE  docs'[d].prev < d /\ docs'[d].family <= d
    <2>1. CASE d = n
      BY <1>1, <1>3, <2>1
    <2>2. CASE d = p
      BY <1>1, <1>3, <1>4, <2>2
    <2>3. CASE d # n /\ d # p
      BY <1>4, <1>5, <1>6, <1>8, <2>3
    <2>4. QED
      BY <2>1, <2>2, <2>3
  <1>9. ASSUME NEW d \in Ids, NEW f \in Ids, docs'[d] # NoRow, docs'[f] # NoRow,
               docs'[d].family = f
        PROVE  docs'[f].family = f
    <2>1. CASE d = n \/ d = p
      <3>1. f = k /\ f <= p /\ f # n
        BY <1>1, <1>3, <1>9, <2>1
      <3>2. CASE f = p
        BY <3>1, <3>2
      <3>3. CASE f # p
        <4>1. docs[f] # NoRow /\ docs'[f] = docs[f] /\ docs[p].family = f
          BY <1>5, <1>9, <3>1, <3>3
        <4>2. QED
          BY <4>1 DEF Families, Exists
      <3>4. QED
        BY <3>2, <3>3
    <2>2. CASE d # n /\ d # p
      <3>1. docs[d] # NoRow /\ docs[d].family = f
        BY <1>6, <1>9, <2>2
      <3>2. f # n
        BY <1>1, <1>4, <3>1
      <3>3. docs[f] # NoRow
        BY <1>5, <1>9, <3>2
      <3>4. docs[f].family = f
        BY <3>1, <3>3 DEF Families, Exists
      <3>5. QED
        BY <1>1, <3>2, <3>4
    <2>3. QED
      BY <2>1, <2>2
  <1>10. ASSUME NEW d \in Ids, NEW e \in Ids, docs'[d] # NoRow, docs'[e] # NoRow,
               d < e, docs'[d].family # 0, docs'[d].family = docs'[e].family
        PROVE  docs'[e].prev = 0 \/ docs'[e].prev >= d
    <2>1. CASE e = n
      <3>1. d # n
        BY <1>1, <1>10, <2>1
      <3>2. d <= p
        BY <1>7, <1>10, <2>1, <3>1
      <3>3. QED
        BY <1>1, <2>1, <3>2
    <2>2. CASE e # n
      <3>1. docs[e] # NoRow /\ docs'[e].prev = docs[e].prev
        BY <1>5, <1>10, <2>2
      <3>2. e < n /\ d # n
        BY <1>1, <1>3, <1>4, <1>10, <3>1
      <3>3. docs[d] # NoRow
        BY <1>5, <1>10, <3>2
      <3>4. docs[d].family # 0 /\ docs[d].family = docs[e].family
        <4>1. CASE docs[p].family # 0
          <5>1. docs'[p].family = docs[p].family
            BY <4>1
          <5>2. QED
            BY <1>6, <1>10, <2>2, <3>2, <5>1
        <4>2. CASE docs[p].family = 0
          <5>1. k = p
            BY <4>2
          <5>2. \A x \in Ids : docs[x] # NoRow => docs[x].family # p
            BY <1>1, <4>2 DEF Families, Exists
          <5>3. d # p /\ e # p
            BY <1>6, <1>10, <2>2, <3>2, <5>1, <5>2
          <5>4. QED
            BY <1>6, <1>10, <2>2, <3>2, <5>3
        <4>3. QED
          BY <4>1, <4>2
      <3>5. QED
        BY <1>10, <3>1, <3>3, <3>4 DEF FamilyIsAChain, Exists
    <2>3. QED
      BY <2>1, <2>2
  <1>11. QED
    BY <1>8, <1>9, <1>10 DEF Families, FamilyIsAChain, Exists

LEMMA PartsKept ==
  ASSUME PartsFiledOnce, NewAreNoParts
  PROVE  PartsFiledOnce'
  <1>1. ASSUME NEW c \in Ids, docs'[c] # NoRow, docs'[c].origin # 0
        PROVE  docs[c] # NoRow /\ docs'[c].origin = docs[c].origin
               /\ docs'[c].index = docs[c].index
    BY <1>1 DEF NewAreNoParts, Carried
  <1>2. QED
    BY <1>1 DEF PartsFiledOnce, Exists

(* What a document serves it goes on serving.                              *)
LEMMA ServesOn ==
  ASSUME RowsTyped, RowsTyped', RowFates, lastId <= lastId',
         NEW d \in Ids, docs[d] # NoRow, docs'[d] # NoRow,
         NEW u, NEW op, NEW p \in MaybeId, NEW b, Serves(docs, lastId, d, u, op, p, b)
  PROVE  Serves(docs', lastId', d, u, op, p, b)
  <1>1. lastId \in Nat /\ lastId' \in Nat /\ \A e \in Ids : e \in Nat
    <2>1. lastId' \in Nat
      <3>1. MaxDocs \in Nat
        BY RowNumbers
      <3>2. QED
        BY <3>1 DEF RowsTyped, MaybeId, Ids
    <2>2. QED
      BY <2>1, RowNumbers
  <1>2. Carried(d)
    <2>1. ~(lastId < d)
      BY <1>1, RowNumbers
    <2>2. QED
      BY <2>1 DEF RowFates
  <1>3. docs'[d].blob = b /\ (op = "document" => docs'[d].owner = u)
    BY <1>2 DEF Carried, Serves
  <1>4. ASSUME op = "version"
        PROVE  p <= lastId' /\ (docs'[d].prev = p \/ p \notin Ids \/ docs'[p] = NoRow)
    <2>1. p <= lastId /\ (docs[d].prev = p \/ ~Exists(p)) /\ p \in Nat
      BY <1>1, <1>4 DEF Serves, MaybeId, Exists
    <2>2. p <= lastId'
      BY <1>1, <2>1
    <2>3. CASE docs[d].prev = p
      BY <1>2, <2>2, <2>3 DEF Carried, Exists
    <2>4. CASE ~Exists(p)
      <3>1. ASSUME p \in Ids PROVE docs'[p] = NoRow
        <4>1. ~(lastId < p) /\ docs[p] = NoRow
          BY <1>1, <2>1, <2>4, <3>1 DEF Exists
        <4>2. QED
          BY <3>1, <4>1 DEF RowFates, Carried
      <3>2. QED
        BY <2>2, <3>1 DEF Exists
    <2>5. QED
      BY <2>1, <2>3, <2>4
  <1>5. QED
    BY <1>3, <1>4 DEF Serves, Exists

(* The receipts after a step are ones that were, or tell the truth.        *)
ReceiptStep ==
  \A u \in Users, k \in Keys :
    LET s == receipts'[<<u, k>>] IN
      s # NoReceipt =>
        \/ s = receipts[<<u, k>>]
        \/ Serves(docs', lastId', s.doc, u, s.op, s.prev, s.blob)

LEMMA ReceiptsHoldOn ==
  ASSUME RowsTyped, RowsTyped', ReceiptsTyped, ReceiptsTyped', RowFates,
         lastId <= lastId', ReceiptsHold, ReceiptStep
  PROVE  ReceiptsHold'
  <1>1. ASSUME NEW u \in Users, NEW k \in Keys, receipts'[<<u, k>>] # NoReceipt
        PROVE  LET s == receipts'[<<u, k>>]
               IN  Serves(docs', lastId', s.doc, u, s.op, s.prev, s.blob)
    <2> DEFINE s == receipts'[<<u, k>>]
    <2>1. CASE s = receipts[<<u, k>>]
      <3>1. <<u, k>> \in Users \X Keys
        OBVIOUS
      <3>2. /\ s.doc \in Ids /\ docs[s.doc] # NoRow /\ docs'[s.doc] # NoRow
            /\ s \in Receipts
        BY <1>1, <2>1, <3>1 DEF ReceiptsTyped, Exists
      <3>3. Serves(docs, lastId, s.doc, u, s.op, s.prev, s.blob)
        BY <1>1, <2>1 DEF ReceiptsHold
      <3>4. s.doc \in Ids /\ docs[s.doc] # NoRow /\ docs'[s.doc] # NoRow /\ s.prev \in MaybeId
        BY <3>2 DEF Receipts
      <3> DEFINE d == s.doc
                 op == s.op
                 p == s.prev
                 b == s.blob
      <3>5. d \in Ids /\ docs[d] # NoRow /\ docs'[d] # NoRow /\ p \in MaybeId
            /\ Serves(docs, lastId, d, u, op, p, b)
        BY <3>3, <3>4
      <3> HIDE DEF d, op, p, b
      <3>6. Serves(docs', lastId', d, u, op, p, b)
        BY <3>5, ServesOn
      <3>7. QED
        BY <3>6 DEF d, op, p, b
    <2>2. CASE s # receipts[<<u, k>>]
      BY <1>1, <2>2 DEF ReceiptStep
    <2>3. QED
      BY <2>1, <2>2
  <1>2. QED
    BY <1>1 DEF ReceiptsHold

LEMMA ReceiptsOnly ==
  ASSUME ReceiptsTyped, receipts' \in {receipts, KeptReceipts}
  PROVE  ReceiptStep
  BY KeptReceiptsTyped DEF ReceiptStep

LEMMA ReceiptTells ==
  ASSUME ReceiptsTyped, NEW q \in Requests, q.user \in Users, NEW d,
         StoreReceipt(q, d), Serves(docs', lastId', d, q.user, q.op, q.prev, q.blob)
  PROVE  ReceiptStep
  <1>1. CASE q.key = NoKey
    BY <1>1, ReceiptsOnly DEF StoreReceipt
  <1>2. CASE q.key # NoKey
    <2> DEFINE new == [op |-> q.op, prev |-> q.prev, blob |-> q.blob, doc |-> d, at |-> now]
    <2>1. receipts' = [KeptReceipts EXCEPT ![<<q.user, q.key>>] = new]
      BY <1>2 DEF StoreReceipt
    <2>2. new.op = q.op /\ new.prev = q.prev /\ new.blob = q.blob /\ new.doc = d
      OBVIOUS
    <2>3. <<q.user, q.key>> \in Users \X Keys
      BY <1>2 DEF Requests
    <2> HIDE DEF new
    <2>4. ASSUME NEW u \in Users, NEW k \in Keys, receipts'[<<u, k>>] # NoReceipt,
                 receipts'[<<u, k>>] # receipts[<<u, k>>]
          PROVE  u = q.user /\ receipts'[<<u, k>>] = new
      <3>1. <<u, k>> \in Users \X Keys
        OBVIOUS
      <3>2. CASE <<u, k>> = <<q.user, q.key>>
        BY <2>1, <2>3, <3>2, KeptReceiptsTyped
      <3>3. CASE <<u, k>> # <<q.user, q.key>>
        <4>1. receipts'[<<u, k>>] = KeptReceipts[<<u, k>>]
          BY <2>1, <3>1, <3>3, KeptReceiptsTyped
        <4>2. QED
          BY <2>4, <3>1, <4>1, KeptReceiptsTyped
      <3>4. QED
        BY <3>2, <3>3
    <2>5. QED
      BY <2>2, <2>4 DEF ReceiptStep
  <1>3. QED
    BY <1>1, <1>2

-----------------------------------------------------------------------------
(* What the client is told.                                                *)
AnswersHold ==
  \A r \in Slots : Answered(r) /\ req'[r].code \in {"ok", "replayed"} =>
    LET d == req'[r].doc IN
      /\ docs'[d] # NoRow /\ docs'[d].blob = req[r].blob
      /\ req[r].op = "document" => docs'[d].owner = req[r].user
      /\ req[r].op = "version" =>
           docs'[d].prev = req[r].prev /\ docs'[d].trashed = 0

LEMMA NobodyAnswered ==
  ASSUME \A r \in Slots : req'[r] = req[r] \/ req'[r].at # "answered"
  PROVE  AnswersHold
  BY DEF AnswersHold, Answered

LEMMA OneAnswered ==
  ASSUME ReqTyped, NEW r \in Slots, NEW c, NEW d, Answer(r, c, d),
         c \in {"ok", "replayed"} =>
           /\ docs'[d] # NoRow
           /\ Serves(docs', lastId', d, req[r].user, req[r].op, req[r].prev, req[r].blob)
           /\ req[r].op = "version" => docs'[d].prev = req[r].prev /\ docs'[d].trashed = 0
  PROVE  AnswersHold
  <1> DEFINE new == [req[r] EXCEPT !.at = "answered", !.code = c, !.doc = d, !.when = now]
  <1>1. req' = [req EXCEPT ![r] = new]
    BY DEF Answer
  <1>2. req[r] \in Requests
    BY DEF ReqTyped
  <1>3. new.code = c /\ new.doc = d
    BY <1>2 DEF Requests
  <1> HIDE DEF new
  <1>4. req'[r] = new /\ \A x \in Slots : x # r => req'[x] = req[x]
    BY <1>1 DEF ReqTyped
  <1>5. ASSUME NEW x \in Slots, Answered(x), req'[x].code \in {"ok", "replayed"}
        PROVE  x = r /\ c \in {"ok", "replayed"} /\ req'[x].doc = d
    BY <1>3, <1>4, <1>5 DEF Answered
  <1>6. QED
    BY <1>5 DEF AnswersHold, Serves

-----------------------------------------------------------------------------
(* The ways rows change, again.                                            *)

(* No revision and no part begins: rows go, go on, or are new and alone.   *)
Plain ==
  \A d \in Ids :
    \/ docs'[d] = NoRow
    \/ Carried(d) /\ docs'[d].family = docs[d].family
    \/ /\ lastId < d
       /\ docs'[d].prev = 0 /\ docs'[d].family = 0 /\ docs'[d].origin = 0

LEMMA PlainStep ==
  ASSUME RowsTyped, RowsTyped', Plain, lastId <= lastId', ReceiptsTyped, ReceiptsTyped',
         ReceiptStep, Lineage
  PROVE  Lineage'
  <1>1. \A d \in Ids : lastId < d => ~Carried(d)
    <2>1. \A d \in Ids : docs[d] # NoRow => ~(lastId < d)
      BY RowNumbers
    <2>2. QED
      BY <2>1 DEF Carried
  <1>2. RowFates /\ NewAreAlone /\ NewAreNoParts
    BY DEF Plain, RowFates, NewAreAlone, NewAreNoParts
  <1>3. \A d \in Ids : Carried(d) => docs'[d].family = docs[d].family
    BY <1>1 DEF Plain, Carried
  <1>4. Families' /\ FamilyIsAChain'
    BY <1>2, <1>3, FamiliesKept DEF Lineage
  <1>5. PartsFiledOnce' /\ ReceiptsHold'
    BY <1>2, PartsKept, ReceiptsHoldOn DEF Lineage
  <1>6. QED
    BY <1>4, <1>5 DEF Lineage

LEMMA SameRows ==
  ASSUME RowsTyped, docs' = docs, lastId' = lastId
  PROVE  Plain /\ RowFates
  BY DEF Plain, Carried, RowFates

LEMMA OneRowPlain ==
  ASSUME RowsTyped, NEW d \in Ids, docs[d] # NoRow, NEW row, row # NoRow,
         row.owner = docs[d].owner, row.blob = docs[d].blob, row.prev = docs[d].prev,
         row.family = docs[d].family, row.origin = docs[d].origin, row.index = docs[d].index,
         docs' = [docs EXCEPT ![d] = row]
  PROVE  Plain
  <1>1. docs'[d] = row /\ \A e \in Ids : e # d => docs'[e] = docs[e]
    BY DEF RowsTyped
  <1>2. QED
    BY <1>1 DEF Plain, Carried

LEMMA TrashPlain ==
  ASSUME RowsTyped, NEW d, Exists(d), NEW t \in 0..MaxNow,
         docs' = [docs EXCEPT ![d].trashed = t]
  PROVE  Plain /\ docs'[d].trashed = t /\ docs'[d].owner = docs[d].owner
         /\ docs'[d].blob = docs[d].blob
  <1> DEFINE row == [docs[d] EXCEPT !.trashed = t]
  <1>1. d \in Ids /\ docs[d] \in Rows /\ docs[d] # NoRow
    BY DEF RowsTyped, Exists
  <1>2. /\ row.owner = docs[d].owner /\ row.blob = docs[d].blob /\ row.prev = docs[d].prev
        /\ row.family = docs[d].family /\ row.origin = docs[d].origin
        /\ row.index = docs[d].index /\ row.trashed = t /\ row \in Rows
    BY <1>1 DEF Rows
  <1>3. docs' = [docs EXCEPT ![d] = row] /\ row # NoRow
    BY <1>2, RowAssumption DEF RowAssumption
  <1> HIDE DEF row
  <1>4. docs'[d] = row
    BY <1>1, <1>3 DEF RowsTyped
  <1>5. QED
    BY <1>1, <1>2, <1>3, <1>4, OneRowPlain

LEMMA ArchivePlain ==
  ASSUME RowsTyped, NEW d, Exists(d), NEW a \in Blobs \cup {NoBlob},
         docs' = [docs EXCEPT ![d].archive = a]
  PROVE  Plain
  <1> DEFINE row == [docs[d] EXCEPT !.archive = a]
  <1>1. d \in Ids /\ docs[d] \in Rows /\ docs[d] # NoRow
    BY DEF RowsTyped, Exists
  <1>2. /\ row.owner = docs[d].owner /\ row.blob = docs[d].blob /\ row.prev = docs[d].prev
        /\ row.family = docs[d].family /\ row.origin = docs[d].origin
        /\ row.index = docs[d].index /\ row \in Rows
    BY <1>1 DEF Rows
  <1>3. docs' = [docs EXCEPT ![d] = row] /\ row # NoRow
    BY <1>2, RowAssumption DEF RowAssumption
  <1> HIDE DEF row
  <1>4. QED
    BY <1>1, <1>2, <1>3, OneRowPlain

LEMMA PurgePlain ==
  ASSUME RowsTyped, ReceiptsTyped, NEW S, PurgeRows(S)
  PROVE  Plain /\ ReceiptStep
  <1>1. ASSUME NEW d \in Ids, docs[d] # NoRow, d \notin S
        PROVE  Carried(d) /\ docs'[d].family = docs[d].family
    <2> DEFINE row == [docs[d] EXCEPT !.prev = 0]
    <2>1. docs[d] \in Rows
      BY <1>1 DEF RowsTyped
    <2>2. /\ row.owner = docs[d].owner /\ row.blob = docs[d].blob /\ row.prev = 0
          /\ row.family = docs[d].family /\ row.origin = docs[d].origin
          /\ row.index = docs[d].index /\ row # NoRow
      <3>1. row \in Rows
        BY <2>1 DEF Rows, MaybeId
      <3>2. QED
        BY <2>1, <3>1, RowAssumption DEF Rows, RowAssumption
    <2>3. docs'[d] = docs[d] \/ (docs'[d] = row /\ docs[d].prev \in S)
      BY <1>1 DEF PurgeRows
    <2> HIDE DEF row
    <2>4. CASE docs'[d] = docs[d]
      BY <1>1, <2>4 DEF Carried
    <2>5. CASE docs'[d] = row /\ docs[d].prev \in S
      <3>1. CASE docs[d].prev \in Ids
        <4>1. docs'[docs[d].prev] = NoRow
          BY <2>5, <3>1 DEF PurgeRows
        <4>2. QED
          BY <1>1, <2>2, <2>5, <4>1 DEF Carried
      <3>2. CASE docs[d].prev \notin Ids
        <4>1. docs[d].prev = 0
          BY <2>1, <3>2 DEF Rows, MaybeId
        <4>2. QED
          BY <1>1, <2>2, <2>5, <4>1 DEF Carried
      <3>3. QED
        BY <3>1, <3>2
    <2>6. QED
      BY <2>3, <2>4, <2>5
  <1>2. \A d \in Ids : (docs[d] = NoRow \/ d \in S) => docs'[d] = NoRow
    BY DEF PurgeRows
  <1>3. Plain
    BY <1>1, <1>2 DEF Plain
  <1>4. ReceiptStep
    BY DEF PurgeRows, ReceiptStep, ReceiptsTyped
  <1>5. QED
    BY <1>3, <1>4

LEMMA OutcomePlain ==
  ASSUME RowsTyped, NEW o \in Users, NEW b \in Blobs,
         NEW R \in SUBSET OwnedCopies(o, b), NEW out \in Outcomes(o, b, R),
         ApplyOutcome(o, b, out)
  PROVE  Plain /\ docs'[out.doc].owner = o /\ docs'[out.doc].blob = b
  <1>1. \/ out.kind = "created" /\ out.doc = lastId + 1
        \/ out.kind \in {"split", "live", "restored"} /\ out.doc \in OwnedCopies(o, b)
    BY DEF Outcomes, LastTrashed, SplitOrigins, LiveCopies
  <1>2. CASE out.kind = "created"
    <2> DEFINE n == out.doc
               row == NewRow(o, b)
    <2>1. lastId < MaxDocs /\ docs' = [docs EXCEPT ![n] = row]
      BY <1>2 DEF ApplyOutcome
    <2>2. n \in Ids /\ lastId < n
      BY <1>1, <1>2, <2>1, RowNumbers DEF Ids
    <2>3. row.owner = o /\ row.blob = b /\ row.prev = 0 /\ row.family = 0 /\ row.origin = 0
      BY DEF NewRow
    <2> HIDE DEF n, row
    <2>4. docs'[n] = row /\ \A e \in Ids : e # n => docs'[e] = docs[e]
      BY <2>1, <2>2 DEF RowsTyped
    <2>5. Plain
      BY <2>2, <2>3, <2>4 DEF Plain, Carried
    <2>6. QED
      BY <2>3, <2>4, <2>5 DEF n
  <1>3. CASE out.kind = "restored"
    <2>1. docs' = [docs EXCEPT ![out.doc].trashed = 0]
      BY <1>3 DEF ApplyOutcome
    <2>2. 0 \in 0..MaxNow /\ Exists(out.doc)
      BY <1>1, <1>3, ConstantsAssumption DEF ConstantsAssumption, OwnedCopies
    <2>3. docs[out.doc].owner = o /\ docs[out.doc].blob = b
      BY <1>1, <1>3 DEF OwnedCopies
    <2>4. QED
      BY <2>1, <2>2, <2>3, TrashPlain
  <1>4. CASE out.kind \in {"split", "live"}
    <2>1. docs' = docs /\ lastId' = lastId
      BY <1>4 DEF ApplyOutcome
    <2>2. docs[out.doc].owner = o /\ docs[out.doc].blob = b
      BY <1>1, <1>4 DEF OwnedCopies
    <2>3. QED
      BY <2>1, <2>2, SameRows
  <1>5. QED
    BY <1>1, <1>2, <1>3, <1>4

(* InsertVersion puts a revision behind the newest member of its family.   *)
LEMMA VersionInserted ==
  ASSUME IndInv, IndInv', Lineage, NEW q, Exists(q.prev), IsHead(q.prev), q.blob \in Blobs,
         InsertVersion(q)
  PROVE  /\ Families' /\ FamilyIsAChain' /\ PartsFiledOnce' /\ RowFates /\ lastId <= lastId'
         /\ docs'[lastId + 1] # NoRow /\ docs'[lastId + 1].blob = q.blob
         /\ docs'[lastId + 1].prev = q.prev /\ docs'[lastId + 1].trashed = 0
         /\ q.prev <= lastId'
  <1> DEFINE p == q.prev
             o == docs[p].owner
             k == IF docs[p].family = 0 THEN p ELSE docs[p].family
             n == lastId + 1
             old == [docs[p] EXCEPT !.family = k]
             new == [NewRow(o, q.blob) EXCEPT !.prev = p, !.family = k]
  <1>1. /\ n \in Ids /\ lastId' = n
        /\ docs' = [docs EXCEPT ![p].family = k, ![n] = new]
    BY DEF InsertVersion
  <1>2. RowsTyped /\ RowsTyped' /\ Families /\ FamilyIsAChain
    BY TypeParts, PTL DEF IndInv, Lineage
  <1>3. p \in Ids /\ docs[p] \in Rows /\ docs[p] # NoRow /\ p <= lastId /\ lastId \in Nat
        /\ p \in Nat /\ p \in MaybeId
    BY <1>2, RowNumbers DEF Exists, MaybeId
  <1>4. o \in Users /\ k \in MaybeId
    BY <1>3 DEF Rows
  <1>5. /\ old.owner = docs[p].owner /\ old.blob = docs[p].blob /\ old.prev = docs[p].prev
        /\ old.family = k /\ old.origin = docs[p].origin /\ old.index = docs[p].index
        /\ old # NoRow
    <2> HIDE DEF k, p
    <2>1. old \in Rows
      BY <1>3, <1>4 DEF Rows
    <2>2. QED
      BY <1>3, <2>1, RowAssumption DEF RowAssumption, Rows
  <1>6. /\ new.blob = q.blob /\ new.prev = p /\ new.family = k /\ new.origin = 0
        /\ new.trashed = 0 /\ new # NoRow
    <2> HIDE DEF p, o, k
    <2>1. new \in Rows
      BY <1>3, <1>4, NewVersions, Zenon
    <2>2. new # NoRow
      BY <2>1, RowAssumption DEF RowAssumption
    <2>3. QED
      BY <2>2 DEF NewRow
  <1>7. p < n /\ n # p /\ lastId < n /\ lastId <= lastId' /\ p <= lastId'
    BY <1>1, <1>3
  <1>8. docs' = [[docs EXCEPT ![p] = old] EXCEPT ![n] = new]
    BY <1>1
  <1>9. k = IF docs[p].family = 0 THEN p ELSE docs[p].family
    OBVIOUS
  <1> HIDE DEF p, o, k, old, new
  <1>10. /\ docs'[p] = old /\ docs'[n] = new
         /\ \A e \in Ids \ {p, n} : docs'[e] = docs[e]
    BY <1>1, <1>2, <1>3, <1>7, <1>8 DEF RowsTyped
  <1>11. Carried(p) /\ \A e \in Ids \ {p, n} : docs'[e] = NoRow \/ Carried(e)
    BY <1>3, <1>5, <1>10 DEF Carried
  <1>12. RowFates
    BY <1>7, <1>11 DEF RowFates
  <1>13. NewAreNoParts
    BY <1>6, <1>10, <1>11 DEF NewAreNoParts
  <1>14. PartsFiledOnce'
    BY <1>13, PartsKept DEF Lineage
  <1>15. IsHead(p)
    BY DEF p
  <1>16. Families' /\ FamilyIsAChain'
    <2> DEFINE m == n
    <2>1. /\ m \in Ids /\ m = lastId + 1 /\ docs'[m].prev = p /\ docs'[m].family = k
          /\ docs'[p].family = k /\ docs'[p].prev = docs[p].prev
          /\ \A d \in Ids \ {p, m} : docs'[d] = docs[d]
      BY <1>1, <1>5, <1>6, <1>10
    <2> HIDE DEF m
    <2>2. QED
      BY <1>2, <1>3, <1>9, <1>15, <2>1, VersionJoins
  <1>17. QED
    BY <1>6, <1>7, <1>10, <1>12, <1>14, <1>16 DEF p

(* The parts filed by a split are the ones that had no document.           *)
LEMMA SplitFiled ==
  ASSUME IndInv, IndInv', Lineage, JobCommitSplit
  PROVE  Lineage'
  <1> DEFINE d == work.doc
             o == docs[d].owner
             part == Segments[docs[d].blob]
             missing == MissingParts(d)
             id == [i \in missing |-> lastId + Cardinality({j \in missing : j <= i})]
             child(c) == CHOOSE i \in missing : id[i] = c
             made == {id[i] : i \in missing}
             new(c) == [NewRow(o, part[child(c)]) EXCEPT !.origin = d, !.index = child(c)]
             old == [docs[d] EXCEPT !.trashed = now]
  <1>1. /\ Live(d)
        /\ docs' = [c \in Ids |-> IF c \in made THEN new(c)
                                  ELSE IF c = d THEN old ELSE docs[c]]
        /\ lastId' = lastId + Cardinality(missing)
        /\ receipts' = receipts
    BY DEF JobCommitSplit
  <1>2. RowsTyped /\ RowsTyped' /\ ReceiptsTyped /\ ReceiptsTyped' /\ now \in 0..MaxNow
    <2>1. now \in 0..MaxNow
      BY DEF IndInv, TypeOK
    <2>2. QED
      BY <2>1, TypeParts, PTL DEF IndInv
  <1>3. d \in Ids /\ docs[d] \in Rows /\ docs[d] # NoRow /\ d <= lastId /\ lastId \in Nat
    BY <1>1, <1>2, RowNumbers DEF Live, Exists
  <1>4. docs[d].blob \in Blobs
    BY <1>3 DEF Rows
  <1>5. PICK L \in Nat : DOMAIN part = 1..L
    BY <1>4, SegmentsTyped
  <1>6. missing \subseteq 1..L
    BY <1>5 DEF MissingParts, Parts
  <1>7. Cardinality(missing) \in Nat
    <2>1. CASE missing = {}
      BY <2>1, FS_EmptySet
    <2>2. CASE missing # {}
      BY <1>6, <2>2, PartNumbers
    <2>3. QED
      BY <2>1, <2>2
  <1>8. \A i \in missing : Cardinality({j \in missing : j <= i}) \in 1..Cardinality(missing)
    BY <1>6, PartNumbers
  <1>9. \A i \in missing : id[i] = lastId + Cardinality({j \in missing : j <= i})
    OBVIOUS
  <1> HIDE DEF id
  <1>10. ASSUME NEW c \in made
         PROVE  child(c) \in missing /\ id[child(c)] = c /\ lastId < c
    <2>1. child(c) \in missing /\ id[child(c)] = c
      OBVIOUS
    <2> HIDE DEF child
    <2> DEFINE rank == Cardinality({j \in missing : j <= child(c)})
    <2>2. rank \in 1..Cardinality(missing) /\ c = lastId + rank
      BY <1>8, <1>9, <2>1
    <2> HIDE DEF missing, rank
    <2>3. QED
      BY <1>3, <1>7, <2>1, <2>2
  <1>11. d \notin made /\ \A c \in made \cap Ids : docs[c] = NoRow
    <2>1. \A c \in Ids : docs[c] # NoRow => ~(lastId < c)
      BY <1>2, RowNumbers
    <2>2. QED
      BY <1>3, <1>10, <2>1
  <1>12. \A i \in missing : i \notin SplitIndexes(d)
    BY DEF MissingParts
  <1>13. \A c : new(c).origin = d /\ new(c).index = child(c) /\ new(c).prev = 0
                /\ new(c).family = 0
    <2> HIDE DEF d, o, child, part
    <2>1. QED
      BY DEF NewRow
  <1>14. /\ old.owner = docs[d].owner /\ old.blob = docs[d].blob /\ old.prev = docs[d].prev
         /\ old.family = docs[d].family /\ old.origin = docs[d].origin
         /\ old.index = docs[d].index /\ old # NoRow
    <2> HIDE DEF d
    <2>1. old \in Rows
      BY <1>2, <1>3, RowUpdates, Zenon DEF MaybeId
    <2>2. QED
      BY <1>3, <2>1, RowAssumption DEF RowAssumption, Rows
  <1> HIDE DEF d, o, part, missing, child, made, new, old
  <1>15. /\ \A c \in made \cap Ids : docs'[c] = new(c)
         /\ docs'[d] = old
         /\ \A c \in Ids \ made : c # d => docs'[c] = docs[c]
    BY <1>1, <1>3, <1>11
  <1>16. ASSUME NEW c \in Ids, c \notin made
         PROVE  \/ docs'[c] = NoRow /\ docs[c] = NoRow
                \/ Carried(c) /\ docs'[c].family = docs[c].family
    <2>1. CASE c = d
      BY <1>3, <1>14, <1>15, <2>1 DEF Carried
    <2>2. CASE c # d
      BY <1>15, <1>16, <2>2 DEF Carried
    <2>3. QED
      BY <2>1, <2>2
  <1>17. RowFates
    BY <1>10, <1>16 DEF RowFates
  <1>18. NewAreAlone
    BY <1>13, <1>15, <1>16 DEF NewAreAlone
  <1>19. \A c \in Ids : Carried(c) => docs'[c].family = docs[c].family
    BY <1>11, <1>16 DEF Carried
  <1>20. Families' /\ FamilyIsAChain'
    BY <1>2, <1>17, <1>18, <1>19, FamiliesKept DEF Lineage
  <1>21. lastId <= lastId'
    <2>1. QED
      BY <1>1, <1>3, <1>7
  <1>22. ReceiptStep
    BY <1>1, <1>2, ReceiptsOnly
  <1>23. ReceiptsHold'
    BY <1>2, <1>17, <1>21, <1>22, ReceiptsHoldOn DEF Lineage
  <1>24. ASSUME NEW c \in Ids, docs'[c] # NoRow, c \notin made
         PROVE  docs[c] # NoRow /\ docs'[c].origin = docs[c].origin
                /\ docs'[c].index = docs[c].index
    BY <1>16, <1>24 DEF Carried
  <1>25. ASSUME NEW c \in Ids, c \in made
         PROVE  docs'[c].origin = d /\ docs'[c].index = child(c) /\ child(c) \in missing
                /\ id[child(c)] = c
    BY <1>10, <1>13, <1>15, <1>25
  <1>26. ASSUME NEW c \in Ids, docs'[c] # NoRow, c \notin made, docs'[c].origin = d
         PROVE  docs'[c].index \in SplitIndexes(d)
    BY <1>24, <1>26 DEF SplitIndexes, Children, Exists
  <1>27. ASSUME NEW c \in Ids, NEW e \in Ids, docs'[c] # NoRow, docs'[e] # NoRow,
                docs'[c].origin # 0, docs'[c].origin = docs'[e].origin,
                docs'[c].index = docs'[e].index
         PROVE  c = e
    <2>1. CASE c \in made /\ e \in made
      BY <1>25, <1>27, <2>1
    <2>2. CASE c \in made /\ e \notin made
      BY <1>12, <1>25, <1>26, <1>27, <2>2
    <2>3. CASE c \notin made /\ e \in made
      BY <1>12, <1>25, <1>26, <1>27, <2>3
    <2>4. CASE c \notin made /\ e \notin made
      BY <1>24, <1>27, <2>4 DEF Lineage, PartsFiledOnce, Exists
    <2>5. QED
      BY <2>1, <2>2, <2>3, <2>4
  <1>28. PartsFiledOnce'
    BY <1>27 DEF PartsFiledOnce, Exists
  <1>29. QED
    BY <1>20, <1>23, <1>28 DEF Lineage

LEMMA LeastOf ==
  ASSUME NEW T \in SUBSET Nat, T # {}
  PROVE  \E x \in T : \A y \in T : x <= y
  <1>1. IsWellFoundedOn(OpToRel(<, Nat), Nat)
    BY NatLessThanWellFounded
  <1>2. PICK x \in T : \A y \in T : ~(<<y, x>> \in OpToRel(<, Nat))
    BY <1>1, WFMin
  <1>3. \A y \in T : ~(y < x)
    BY <1>2 DEF OpToRel
  <1>4. QED
    BY <1>3

LEMMA FirstOfResults ==
  ASSUME RowsTyped, NEW q, EarlierResults(q) # {}
  PROVE  FirstResult(EarlierResults(q)) \in EarlierResults(q)
  <1> DEFINE S == EarlierResults(q)
             best == IF \E d \in S : Live(d) THEN {d \in S : Live(d)} ELSE S
  <1>1. S \subseteq Nat
    BY RowNumbers DEF EarlierResults, OwnedCopies
  <1>2. best \in SUBSET Nat /\ best # {} /\ best \subseteq S
    BY <1>1
  <1> HIDE DEF S
  <1>3. \E x \in best : \A y \in best : x <= y
    <2> HIDE DEF best
    <2>1. QED
      BY <1>2, LeastOf
  <1>4. FirstResult(S) \in best
    BY <1>3 DEF FirstResult
  <1>5. QED
    BY <1>2, <1>4 DEF S

-----------------------------------------------------------------------------
(* Lineage is inductive, and the answers given are what it promises.       *)
LEMMA Typed ==
  ASSUME IndInv, IndInv'
  PROVE  /\ RowsTyped /\ RowsTyped' /\ ReceiptsTyped /\ ReceiptsTyped' /\ ReqTyped
         /\ MaxDocs \in Nat /\ lastId \in Nat /\ lastId' \in Nat
  <1>1. RowsTyped /\ RowsTyped' /\ ReceiptsTyped /\ ReceiptsTyped' /\ ReqTyped
    BY TypeParts, PTL DEF IndInv
  <1>2. MaxDocs \in Nat
    BY ConstantsAssumption DEF ConstantsAssumption
  <1>3. QED
    BY <1>1, <1>2 DEF RowsTyped, MaybeId, Ids

LEMMA RefuseTells ==
  ASSUME IndInv, IndInv', Lineage, NEW r \in Slots, NEW c, c \notin {"ok", "replayed"},
         Refuse(r, c)
  PROVE  Lineage' /\ AnswersHold
  <1>1. /\ RowsTyped /\ RowsTyped' /\ ReceiptsTyped /\ ReceiptsTyped' /\ ReqTyped
        /\ lastId \in Nat
    BY Typed
  <1>2. Answer(r, c, 0) /\ docs' = docs /\ lastId' = lastId /\ receipts' = receipts
    BY DEF Refuse
  <1>3. Plain /\ ReceiptStep /\ lastId <= lastId'
    BY <1>1, <1>2, SameRows, ReceiptsOnly
  <1>4. Lineage'
    BY <1>1, <1>3, PlainStep
  <1>5. AnswersHold
    BY <1>1, <1>2, OneAnswered
  <1>6. QED
    BY <1>4, <1>5

LEMMA ReceiptServes ==
  ASSUME IndInv, Lineage, NEW q \in Requests, q.user \in Users, LoadReceipt(q) # NoReceipt,
         SameFingerprint(q, LoadReceipt(q))
  PROVE  LET d == LoadReceipt(q).doc IN
           Exists(d) /\ Serves(docs, lastId, d, q.user, q.op, q.prev, q.blob)
  <1>1. q.key # NoKey /\ LoadReceipt(q) = KeptReceipts[<<q.user, q.key>>]
    BY DEF LoadReceipt
  <1>2. <<q.user, q.key>> \in Users \X Keys /\ q.key \in Keys
    BY <1>1 DEF Requests
  <1>3. ReceiptsTyped
    BY TypeParts DEF IndInv
  <1>4. LoadReceipt(q) = receipts[<<q.user, q.key>>]
    BY <1>1, <1>2, <1>3, KeptReceiptsTyped
  <1>5. Exists(LoadReceipt(q).doc)
    BY <1>3, LoadedReceipt
  <1>6. QED
    BY <1>2, <1>4, <1>5 DEF Lineage, ReceiptsHold, SameFingerprint

LEMMA ReplayTells ==
  ASSUME IndInv, IndInv', Lineage, NEW r \in Slots, req[r].at = "stored",
         LoadReceipt(req[r]) # NoReceipt, SameFingerprint(req[r], LoadReceipt(req[r])),
         req[r].op = "version" => Live(req[r].prev) /\ Live(LoadReceipt(req[r]).doc),
         Replay(r)
  PROVE  Lineage' /\ AnswersHold
  <1> DEFINE q == req[r]
             d == LoadReceipt(q).doc
  <1>1. /\ RowsTyped /\ RowsTyped' /\ ReceiptsTyped /\ ReceiptsTyped' /\ ReqTyped
        /\ lastId \in Nat
    BY Typed
  <1>2. /\ Answer(r, "replayed", d) /\ docs' = docs /\ lastId' = lastId
        /\ receipts' = KeptReceipts
    BY DEF Replay
  <1>3. Plain /\ ReceiptStep /\ lastId <= lastId'
    BY <1>1, <1>2, SameRows, ReceiptsOnly
  <1>4. Lineage'
    BY <1>1, <1>3, PlainStep
  <1>5. Exists(d) /\ Serves(docs, lastId, d, q.user, q.op, q.prev, q.blob)
    BY StoredRequest, ReceiptServes
  <1>6. docs'[d] # NoRow /\ Serves(docs', lastId', d, q.user, q.op, q.prev, q.blob)
    BY <1>2, <1>5 DEF Exists
  <1>7. q.op = "version" => docs'[d].prev = q.prev /\ docs'[d].trashed = 0
    BY <1>2, <1>5 DEF Serves, Live, Exists
  <1> HIDE DEF d
  <1>8. AnswersHold
    BY <1>1, <1>2, <1>6, <1>7, OneAnswered
  <1>9. QED
    BY <1>4, <1>8

LEMMA UploadDocumentTells ==
  ASSUME IndInv, IndInv', Lineage, NEW r \in Slots, UploadDocument(r)
  PROVE  Lineage' /\ AnswersHold
  <1> DEFINE q == req[r]
             s == LoadReceipt(q)
             R == {d \in OwnedCopies(q.user, q.blob) : Recoverable(d)}
  <1>1. up /\ req[r].at = "stored" /\ q.op = "document"
    BY DEF UploadDocument, Ready
  <1>2. /\ RowsTyped /\ RowsTyped' /\ ReceiptsTyped /\ ReceiptsTyped' /\ ReqTyped
        /\ q \in Requests /\ q.user \in Users /\ q.blob \in Blobs /\ q.blob \in blobs
    BY <1>1, Typed, StoredRequest
  <1>3. CASE Refuse(r, "idempotency_conflict") \/ Refuse(r, "split_origin_children_trashed")
    BY <1>3, RefuseTells
  <1>4. CASE s # NoReceipt /\ SameFingerprint(q, s) /\ Replay(r)
    BY <1>1, <1>4, ReplayTells
  <1>5. ASSUME NEW out \in Outcomes(q.user, q.blob, R),
               ApplyOutcome(q.user, q.blob, out), StoreReceipt(q, out.doc),
               Answer(r, "ok", out.doc), UNCHANGED <<blobs, folder, work, up, now, left>>
        PROVE  Lineage' /\ AnswersHold
    <2>1. R \in SUBSET OwnedCopies(q.user, q.blob) /\ \A d \in R : Exists(d)
      BY DEF OwnedCopies
    <2>2. q.blob \in blobs'
      BY <1>2, <1>5
    <2> HIDE DEF R
    <2>3. /\ RowStep /\ docs'[out.doc] # NoRow
          /\ Plain /\ docs'[out.doc].owner = q.user /\ docs'[out.doc].blob = q.blob
      BY <1>2, <1>5, <2>1, <2>2, ApplyOutcomeRows, OutcomePlain
    <2>4. Serves(docs', lastId', out.doc, q.user, q.op, q.prev, q.blob)
      BY <1>1, <2>3 DEF Serves
    <2>5. ReceiptStep
      <3> DEFINE d == out.doc
      <3>1. StoreReceipt(q, d) /\ Serves(docs', lastId', d, q.user, q.op, q.prev, q.blob)
        BY <1>5, <2>4
      <3> HIDE DEF d, q
      <3>2. QED
        BY <1>2, <3>1, ReceiptTells
    <2>6. Lineage'
      BY <1>2, <2>3, <2>5, PlainStep DEF RowStep
    <2>7. AnswersHold
      BY <1>1, <1>2, <1>5, <2>3, <2>4, OneAnswered
    <2>8. QED
      BY <2>6, <2>7
  <1>6. QED
    BY <1>3, <1>4, <1>5 DEF UploadDocument

LEMMA UploadNewVersionTells ==
  ASSUME IndInv, IndInv', Lineage, NEW r \in Slots, UploadNewVersion(r)
  PROVE  Lineage' /\ AnswersHold
  <1> DEFINE q == req[r]
             s == LoadReceipt(q)
             d == IF s # NoReceipt THEN s.doc ELSE FirstResult(EarlierResults(q))
  <1>1. up /\ req[r].at = "stored" /\ q.op = "version"
    BY DEF UploadNewVersion, Ready
  <1>2. /\ RowsTyped /\ RowsTyped' /\ ReceiptsTyped /\ ReceiptsTyped' /\ ReqTyped
        /\ q \in Requests /\ q.user \in Users /\ q.blob \in Blobs
        /\ lastId \in Nat
    BY <1>1, Typed, StoredRequest
  <1>3. CASE \/ Refuse(r, "version_predecessor_changed")
             \/ Refuse(r, "idempotency_conflict")
             \/ Refuse(r, "version_target_unavailable")
             \/ Refuse(r, "version_head_changed")
             \/ Refuse(r, "duplicate_version_blob")
    BY <1>3, RefuseTells
  <1>4. CASE s # NoReceipt /\ SameFingerprint(q, s) /\ Live(q.prev) /\ Live(d) /\ Replay(r)
    <2>1. Live(s.doc)
      BY <1>4
    <2> HIDE DEF d
    <2>2. QED
      BY <1>1, <1>4, <2>1, ReplayTells
  <1>5. CASE /\ s = NoReceipt /\ EarlierResults(q) # {} /\ Live(q.prev) /\ Live(d)
             /\ StoreReceipt(q, d) /\ Answer(r, "replayed", d)
             /\ UNCHANGED <<docs, lastId, blobs, folder, queue, work, up, now, left>>
    <2>1. d \in EarlierResults(q)
      BY <1>2, <1>5, FirstOfResults
    <2> HIDE DEF d, s
    <2>2. /\ docs' = docs /\ lastId' = lastId /\ docs'[d] # NoRow /\ docs'[d].blob = q.blob
          /\ docs'[d].prev = q.prev /\ docs'[d].trashed = 0 /\ q.prev \in Ids
          /\ docs[q.prev] # NoRow
      BY <1>5, <2>1 DEF EarlierResults, OwnedCopies, Exists, Live
    <2>3. Plain /\ lastId <= lastId' /\ q.prev <= lastId'
      BY <1>2, <2>2, SameRows, RowNumbers
    <2>4. Serves(docs', lastId', d, q.user, q.op, q.prev, q.blob)
      BY <1>1, <2>2, <2>3 DEF Serves
    <2>5. ReceiptStep
      <3>1. StoreReceipt(q, d)
        BY <1>5
      <3> HIDE DEF q
      <3>2. QED
        BY <1>2, <2>4, <3>1, ReceiptTells
    <2>6. Lineage'
      BY <1>2, <2>3, <2>5, PlainStep
    <2>7. AnswersHold
      BY <1>1, <1>2, <1>5, <2>2, <2>4, OneAnswered
    <2>8. QED
      BY <2>6, <2>7
  <1>6. CASE /\ Live(q.prev) /\ IsHead(q.prev) /\ InsertVersion(q)
             /\ StoreReceipt(q, lastId + 1) /\ Answer(r, "ok", lastId + 1)
    <2> HIDE DEF d, s
    <2> DEFINE n == lastId + 1
    <2>1. Exists(q.prev)
      BY <1>6 DEF Live
    <2>2. /\ Families' /\ FamilyIsAChain' /\ PartsFiledOnce' /\ RowFates /\ lastId <= lastId'
          /\ docs'[n] # NoRow /\ docs'[n].blob = q.blob
          /\ docs'[n].prev = q.prev /\ docs'[n].trashed = 0 /\ q.prev <= lastId'
      <3>1. IsHead(q.prev) /\ InsertVersion(q)
        BY <1>6
      <3> HIDE DEF q
      <3>2. QED
        BY <1>2, <2>1, <3>1, VersionInserted
    <2>3. Serves(docs', lastId', n, q.user, q.op, q.prev, q.blob)
      BY <1>1, <2>2 DEF Serves
    <2>4. StoreReceipt(q, n) /\ Answer(r, "ok", n)
      BY <1>6
    <2> HIDE DEF n
    <2>5. ReceiptStep
      <3> HIDE DEF q
      <3>1. QED
        BY <1>2, <2>3, <2>4, ReceiptTells
    <2>6. ReceiptsHold'
      BY <1>2, <2>2, <2>5, ReceiptsHoldOn DEF Lineage
    <2>7. AnswersHold
      BY <1>2, <2>2, <2>3, <2>4, OneAnswered
    <2>8. QED
      BY <2>2, <2>6, <2>7 DEF Lineage
  <1>7. QED
    BY <1>3, <1>4, <1>5, <1>6 DEF UploadNewVersion

(* A step in which rows change plainly and nobody is answered.             *)
LEMMA PlainSilent ==
  ASSUME IndInv, IndInv', Lineage, Plain, lastId <= lastId', ReceiptStep,
         \A r \in Slots : req'[r] = req[r] \/ req'[r].at # "answered"
  PROVE  Lineage' /\ AnswersHold
  BY Typed, PlainStep, NobodyAnswered

LEMMA WatchIngestTells ==
  ASSUME IndInv, IndInv', Lineage, NEW u \in Users, NEW b \in Dropped, WatchIngest(u, b)
  PROVE  Lineage' /\ AnswersHold
  <1> DEFINE R == {d \in OwnedCopies(u, b) : Trashed(d)}
  <1>1. RowsTyped /\ ReceiptsTyped
    BY Typed
  <1>2. /\ b \in Blobs /\ R \in SUBSET OwnedCopies(u, b) /\ \A d \in R : Exists(d)
    BY ConstantsAssumption DEF ConstantsAssumption, OwnedCopies
  <1>3. b \in blobs' /\ receipts' = receipts /\ req' = req
    BY DEF WatchIngest
  <1>4. PICK out \in Outcomes(u, b, R) : ApplyOutcome(u, b, out)
    BY DEF WatchIngest
  <1> HIDE DEF R
  <1>5. RowStep /\ Plain
    BY <1>1, <1>2, <1>3, <1>4, ApplyOutcomeRows, OutcomePlain
  <1>6. ReceiptStep /\ lastId <= lastId'
    BY <1>1, <1>3, <1>5, ReceiptsOnly DEF RowStep
  <1>7. QED
    BY <1>3, <1>5, <1>6, PlainSilent

LEMMA EditTells ==
  ASSUME IndInv, IndInv', Lineage, NEW d \in Ids, SoftDelete(d) \/ RestoreDocument(d)
  PROVE  Lineage' /\ AnswersHold
  <1>1. RowsTyped /\ ReceiptsTyped /\ lastId \in Nat
    BY Typed
  <1>2. PICK t \in {now, 0} : docs' = [docs EXCEPT ![d].trashed = t]
    BY DEF SoftDelete, RestoreDocument
  <1>3. t \in 0..MaxNow
    BY ConstantsAssumption DEF ConstantsAssumption, IndInv, TypeOK
  <1>4. Exists(d) /\ receipts' = receipts /\ req' = req /\ lastId' = lastId
    BY DEF SoftDelete, RestoreDocument, Recoverable, Trashed, Live
  <1>5. Plain
    BY <1>1, <1>2, <1>3, <1>4, TrashPlain
  <1>6. ReceiptStep /\ lastId <= lastId'
    BY <1>1, <1>4, ReceiptsOnly
  <1>7. QED
    BY <1>4, <1>5, <1>6, PlainSilent

LEMMA PurgeTells ==
  ASSUME IndInv, IndInv', Lineage, NEW S, PurgeRows(S)
  PROVE  Lineage' /\ AnswersHold
  <1>1. RowsTyped /\ ReceiptsTyped /\ lastId \in Nat
    BY Typed
  <1>2. Plain /\ ReceiptStep
    BY <1>1, PurgePlain
  <1>3. lastId <= lastId' /\ req' = req
    BY <1>1 DEF PurgeRows
  <1>4. QED
    BY <1>2, <1>3, PlainSilent

LEMMA UpdateTells ==
  ASSUME IndInv, IndInv', Lineage, JobUpdateDoc
  PROVE  Lineage' /\ AnswersHold
  <1>1. RowsTyped /\ ReceiptsTyped /\ lastId \in Nat
    BY Typed
  <1>2. work.archive \in Blobs \cup {NoBlob}
    BY TypeParts DEF IndInv, WorkTyped
  <1>3. receipts' = receipts /\ req' = req /\ lastId' = lastId
    BY DEF JobUpdateDoc
  <1>4. Plain
    <2> DEFINE d == work.doc
               a == work.archive
    <2>1. CASE Exists(d)
      <3>1. docs' = [docs EXCEPT ![d].archive = a]
        BY <2>1 DEF JobUpdateDoc
      <3> HIDE DEF d, a
      <3>2. QED
        BY <1>1, <1>2, <2>1, <3>1, ArchivePlain DEF a
    <2>2. CASE ~Exists(d)
      BY <1>1, <1>3, <2>2, SameRows DEF JobUpdateDoc
    <2>3. QED
      BY <2>1, <2>2
  <1>5. ReceiptStep /\ lastId <= lastId'
    BY <1>1, <1>3, ReceiptsOnly
  <1>6. QED
    BY <1>3, <1>4, <1>5, PlainSilent

(* The steps that change neither rows nor receipts and answer nobody.      *)
LEMMA OtherTells ==
  ASSUME IndInv, IndInv', Lineage, docs' = docs, lastId' = lastId, receipts' = receipts,
         \A r \in Slots : req'[r] = req[r] \/ req'[r].at # "answered"
  PROVE  Lineage' /\ AnswersHold
  <1>1. RowsTyped /\ ReceiptsTyped /\ lastId \in Nat
    BY Typed
  <1>2. Plain /\ ReceiptStep /\ lastId <= lastId'
    BY <1>1, SameRows, ReceiptsOnly
  <1>3. QED
    BY <1>2, PlainSilent

LEMMA ReceiveTells ==
  ASSUME IndInv, IndInv', Lineage, NEW r \in Slots, Receive(r)
  PROVE  Lineage' /\ AnswersHold
  <1>1. PICK u \in Users, b \in Uploaded, k \in Keys \cup {NoKey}, p \in MaybeId :
          req' = [req EXCEPT ![r] = Upload(u, b, k, p)]
    BY DEF Receive
  <1>2. ReqTyped
    BY Typed
  <1>3. Upload(u, b, k, p).at = "stored"
    BY DEF Upload
  <1>4. \A x \in Slots : req'[x] = req[x] \/ req'[x].at # "answered"
    BY <1>1, <1>2, <1>3 DEF ReqTyped
  <1>5. docs' = docs /\ lastId' = lastId /\ receipts' = receipts
    BY DEF Receive
  <1>6. QED
    BY <1>4, <1>5, OtherTells

LEMMA StopTells ==
  ASSUME IndInv, IndInv', Lineage, Stop
  PROVE  Lineage' /\ AnswersHold
  <1>1. \A x \in Slots : req'[x] = req[x] \/ req'[x].at # "answered"
    BY DEF Stop, Quiet
  <1>2. docs' = docs /\ lastId' = lastId /\ receipts' = receipts
    BY DEF Stop
  <1>3. QED
    BY <1>1, <1>2, OtherTells

LEMMA InitLineage == Init => Lineage
  <1> SUFFICES ASSUME Init PROVE Lineage
    OBVIOUS
  <1>1. \A d \in Ids : docs[d] = NoRow
    BY DEF Init
  <1>2. \A u \in Users, k \in Keys : receipts[<<u, k>>] = NoReceipt
    BY DEF Init
  <1>3. QED
    BY <1>1, <1>2 DEF Lineage, Families, FamilyIsAChain, PartsFiledOnce, ReceiptsHold, Exists

LEMMA StepLineage ==
  IndInv /\ IndInv' /\ Lineage /\ [Next]_vars => Lineage' /\ AnswersHold
  <1> SUFFICES ASSUME IndInv, IndInv', Lineage, [Next]_vars PROVE Lineage' /\ AnswersHold
    OBVIOUS
  <1>1. CASE \E r \in Slots : Receive(r) \/ UploadDocument(r) \/ UploadNewVersion(r)
    BY <1>1, ReceiveTells, UploadDocumentTells, UploadNewVersionTells
  <1>2. CASE \E b \in Dropped : \E u \in Users : WatchIngest(u, b)
    BY <1>2, WatchIngestTells
  <1>3. CASE \E d \in Ids : SoftDelete(d) \/ RestoreDocument(d)
    BY <1>3, EditTells
  <1>4. CASE (\E d \in Ids : PurgeOne(d)) \/ PurgeExpired
    BY <1>4, PurgeTells DEF PurgeOne, PurgeExpired
  <1>5. CASE JobCommitSplit
    <2>1. Lineage'
      BY <1>5, SplitFiled
    <2>2. req' = req
      BY <1>5 DEF JobCommitSplit
    <2>3. QED
      BY <2>1, <2>2, NobodyAnswered
  <1>6. CASE JobUpdateDoc
    BY <1>6, UpdateTells
  <1>7. CASE Stop
    BY <1>7, StopTells
  <1>8. CASE \/ \E b \in Dropped : DropFile(b)
             \/ \E d \in Ids : Rescan(d) \/ JobWithoutWork(d)
             \/ \E d \in Ids : JobPrepareSplit(d) \/ JobDerive(d)
             \/ JobFail \/ Start \/ CollectGarbage \/ Tick \/ UNCHANGED vars
    <2>1. docs' = docs /\ lastId' = lastId /\ receipts' = receipts /\ req' = req
      BY <1>8 DEF DropFile, Rescan, JobWithoutWork, JobPrepareSplit, JobDerive, JobFail,
                  Start, CollectGarbage, Tick, vars
    <2>2. QED
      BY <2>1, OtherTells
  <1>9. QED
    BY <1>1, <1>2, <1>3, <1>4, <1>5, <1>6, <1>7, <1>8 DEF Next

LEMMA LineageHolds == Spec => [](IndInv /\ Lineage)
  BY InitSound, StepSound, InitLineage, StepLineage, PTL DEF Spec

(* The revisions of a document are one chain whoever uploads, trashes,     *)
(* restores and purges in whatever order: a version is only inserted after *)
(* the newest member, trashed or not, and ids are never used again         *)
(* (core/api/upload.go, the head check of UploadNewVersion).               *)
THEOREM RevisionsFormAChain == Spec => []FamilyIsAChain
  <1>1. Lineage => FamilyIsAChain
    BY DEF Lineage
  <1>2. QED
    BY <1>1, LineageHolds, PTL

(* No part of a scanned batch is filed twice, however often the job is     *)
(* retried, the batch restored or rescanned: the transaction looks again   *)
(* for the parts that have no row (core/pipeline/postingest, fanOutPlan).  *)
THEOREM PartsAreFiledOnce == Spec => []PartsFiledOnce
  <1>1. Lineage => PartsFiledOnce
    BY DEF Lineage
  <1>2. QED
    BY <1>1, LineageHolds, PTL

(* Whoever is told that an upload succeeded is told of a document with the *)
(* bytes sent, of theirs or behind the predecessor they named: a receipt   *)
(* says of its row what stays true of it, or goes with it (core/api).      *)
THEOREM AnswersHoldBytes == Spec => AnswerHoldsBytes
  <1>1. AnswersHold => (\A r \in Slots : Answered(r) /\ req'[r].code \in {"ok", "replayed"} =>
       LET d == req'[r].doc IN
         /\ docs'[d] # NoRow /\ docs'[d].blob = req[r].blob
         /\ req[r].op = "document" => docs'[d].owner = req[r].user
         /\ req[r].op = "version" =>
              docs'[d].prev = req[r].prev /\ docs'[d].trashed = 0)
    BY DEF AnswersHold
  <1>2. QED
    BY <1>1, LineageHolds, StepSound, StepLineage, PTL DEF Spec, AnswerHoldsBytes

-----------------------------------------------------------------------------
(***************************************************************************)
(* FolderWatch: the folder whose files are filed through the intake above, *)
(* and the settings requests that start and stop its watcher.              *)
(***************************************************************************)

(* The parts of the folder's type.                                          *)
Phases == {"next", "ignore", "sidecar", "open", "read", "file", "fail"}

Watchers ==
  [live: BOOLEAN, cancelled: BOOLEAN, cfg: Configs \cup {Off}, todo: SUBSET Files,
   pc: Phases, file: Files \cup {NoFile}, ino: Nat, fp: Nat \X Nat,
   side: Sidecars \cup {NoSide}, opened: Nat, rewritten: BOOLEAN,
   first: Bytes \cup {NoBytes}, second: Bytes \cup {NoBytes},
   outcome: {"none", "failed", "blocked"}]

Stored == [cfg: Configs \cup {Off}, by: Savers \cup {NoRequest}]

Saves ==
  [pc: {"idle", "written", "resolved", "stopping", "failed"}, previous: Stored,
   cfg: Configs \cup {Off}, over: BOOLEAN]

Supervisors ==
  [configured: BOOLEAN, current: Configs \cup {Off}, mutex: Savers \cup {NoRequest}]

DocFields == {"owner", "system", "bytes", "side", "state", "file", "whole", "rewritten"}

FolderTyped == disk \in [Files -> Entries] /\ Seen(disk) \subseteq beside
WatcherTyped == watcher \in Watchers
DocsShaped == \A d \in filings : d = [x \in DocFields |-> d[x]]
ReloadTyped == settings \in Stored /\ saving \in [Savers -> Saves] /\ sup \in Supervisors

(* What the scanner has seen of the file it works at.                       *)
Listed ==
  watcher.pc \in {"sidecar", "open"} =>
    /\ watcher.file \in Files
    /\ watcher.fp[1] <= disk[watcher.file].stamp
    /\ Present(watcher.file) /\ disk[watcher.file].stamp = watcher.fp[1] =>
         <<watcher.file, disk[watcher.file].bytes, watcher.side>> \in beside

Opened ==
  watcher.pc \in {"read", "file"} =>
    /\ watcher.file \in Files
    /\ watcher.opened <= disk[watcher.file].stamp
    /\ Present(watcher.file) /\ disk[watcher.file].stamp = watcher.opened =>
         disk[watcher.file].bytes = watcher.first
    /\ watcher.rewritten \/ <<watcher.file, watcher.first, watcher.side>> \in beside
    /\ watcher.pc = "file" => watcher.first = watcher.second

LayInv ==
  /\ FolderTyped /\ WatcherTyped /\ DocsShaped
  /\ Listed /\ Opened /\ FiledAsTheyLay

(* The settings the supervisor believes to run do run, unless a reload is   *)
(* stopping the old watcher; whoever stored the settings last is still      *)
(* going to apply them, or has.                                             *)
Applied(c) ==
  IF c = Off THEN ~watcher.live
  ELSE watcher.live /\ ~watcher.cancelled /\ watcher.cfg = c

MutexHeld == \A r \in Savers : saving[r].pc = "stopping" => sup.mutex = r

DownIsIdle == ~serving => saving = [r \in Savers |-> NoReq]

CurrentRuns ==
  serving /\ excuses = {} =>
    \/ \E r \in Savers : saving[r].pc = "stopping"
    \/ Applied(sup.current)

LastSaverAnswers ==
  serving /\ excuses = {} => settings.by \in Busy \/ settings.cfg = sup.current

(* A reload under way carries the stored settings, or someone has stored    *)
(* newer ones and will reload.                                              *)
ReloadsCurrent ==
  serving /\ excuses = {} =>
    \A r \in Reloading :
      \/ saving[r].cfg = settings.cfg
      \/ settings.by \in Savers /\ saving[settings.by].pc = "written"

(* A request that may have to go back finds what it replaced.               *)
SoleSaver ==
  serving /\ excuses = {} =>
    \A r \in Busy : settings.by = r /\ ~saving[r].over =>
      Busy = {r} /\ saving[r].previous.cfg = sup.current

RunInv ==
  /\ ReloadTyped /\ MutexHeld /\ DownIsIdle
  /\ CurrentRuns /\ LastSaverAnswers /\ ReloadsCurrent /\ SoleSaver
-----------------------------------------------------------------------------
(* The folder.                                                              *)
(* A file keeps its bytes as long as it keeps its time of change.           *)
Follows(old, new) ==
  /\ old.stamp <= new.stamp
  /\ new.stamp = old.stamp /\ new.bytes # NoBytes => new.bytes = old.bytes

FolderGrows ==
  /\ FolderTyped' /\ beside \subseteq beside'
  /\ \A f \in Files : Follows(disk[f], disk'[f])

LEMMA TouchGrows ==
  ASSUME FolderTyped, NEW f \in Files, NEW new \in Entries, Follows(disk[f], new),
         disk' = [disk EXCEPT ![f] = new], beside' = beside \cup Seen(disk')
  PROVE  FolderGrows
<1>1. disk' \in [Files -> Entries]
  BY DEF FolderTyped
<1>2. ASSUME NEW g \in Files PROVE Follows(disk[g], disk'[g])
  <2>1. disk[g].stamp \in Nat
    BY DEF FolderTyped, Entries
  <2>2. CASE g = f
    BY <2>2 DEF FolderTyped
  <2>3. CASE g # f
    BY <2>1, <2>3 DEF Follows, FolderTyped
  <2> QED BY <2>2, <2>3
<1>3. FolderTyped'
  BY <1>1 DEF FolderTyped, Seen
<1> QED BY <1>2, <1>3 DEF FolderGrows

LEMMA FolderStepGrows ==
  ASSUME FolderTyped, FolderStep
  PROVE  FolderGrows /\ UNCHANGED <<watcher, filings>>
<1>1. ASSUME NEW f \in Files, NEW b \in Bytes, NEW inPlace \in BOOLEAN, WriteFile(f, b, inPlace)
      PROVE  FolderGrows
  <2> DEFINE e == disk[f]
             t == e.stamp + 1
             i == IF inPlace THEN e.ino ELSE e.ino + 1
             new == [e EXCEPT !.bytes = b, !.stamp = t, !.young = TRUE, !.ino = i]
  <2>1. e \in Entries /\ e.stamp \in Nat /\ t \in Nat /\ i \in Nat
    BY DEF FolderTyped, Entries
  <2>2. new \in Entries /\ new.stamp = t
    <3> HIDE DEF e, t, i
    <3> QED BY <2>1 DEF Entries
  <2>3. Follows(disk[f], new)
    BY <2>1, <2>2 DEF Follows
  <2>4. disk' = [disk EXCEPT ![f] = new] /\ beside' = beside \cup Seen(disk')
    BY <1>1 DEF WriteFile, Touch
  <2> HIDE DEF new
  <2> QED BY <2>2, <2>3, <2>4, TouchGrows
<1>2. ASSUME NEW f \in Files, NEW s \in Sidecars \cup {NoSide}, WriteSidecar(f, s)
      PROVE  FolderGrows
  <2> DEFINE e == disk[f]
             t == e.sidestamp + 1
             new == [e EXCEPT !.side = s, !.sidestamp = t]
  <2>1. e \in Entries /\ e.stamp \in Nat /\ t \in Nat
    BY DEF FolderTyped, Entries
  <2>2. new \in Entries /\ new.stamp = e.stamp /\ new.bytes = e.bytes
    <3> HIDE DEF e, t
    <3> QED BY <2>1 DEF Entries
  <2>3. Follows(disk[f], new)
    BY <2>1, <2>2 DEF Follows
  <2>4. disk' = [disk EXCEPT ![f] = new] /\ beside' = beside \cup Seen(disk')
    BY <1>2 DEF WriteSidecar, Touch
  <2> HIDE DEF new
  <2> QED BY <2>2, <2>3, <2>4, TouchGrows
<1>3. ASSUME NEW f \in Files, RemoveFile(f)
      PROVE  FolderGrows
  <2> DEFINE new == [disk[f] EXCEPT !.bytes = NoBytes]
  <2>1. disk[f] \in Entries /\ disk[f].stamp \in Nat
    BY DEF FolderTyped, Entries
  <2>2. new \in Entries /\ new.stamp = disk[f].stamp /\ new.bytes = NoBytes
    BY <2>1 DEF Entries
  <2>3. Follows(disk[f], new)
    BY <2>1, <2>2 DEF Follows
  <2>4. disk' = [disk EXCEPT ![f] = new] /\ beside' = beside \cup Seen(disk')
    BY <1>3 DEF RemoveFile, Touch
  <2> HIDE DEF new
  <2> QED BY <2>2, <2>3, <2>4, TouchGrows
<1>4. ASSUME NEW f \in Files, Settle(f)
      PROVE  FolderGrows
  <2> DEFINE new == [disk[f] EXCEPT !.young = FALSE]
  <2>1. disk[f] \in Entries /\ disk[f].stamp \in Nat
    BY DEF FolderTyped, Entries
  <2>2. new \in Entries /\ new.stamp = disk[f].stamp /\ new.bytes = disk[f].bytes
        /\ new.side = disk[f].side
    BY <2>1 DEF Entries
  <2>3. disk' = [disk EXCEPT ![f] = new] /\ beside' = beside
    BY <1>4 DEF Settle, FolderTyped
  <2> HIDE DEF new
  <2>4. disk' \in [Files -> Entries]
    BY <2>2, <2>3 DEF FolderTyped
  <2>5. ASSUME NEW g \in Files
        PROVE  /\ disk'[g].bytes = disk[g].bytes /\ disk'[g].side = disk[g].side
               /\ disk'[g].stamp = disk[g].stamp
    BY <2>2, <2>3 DEF FolderTyped
  <2>6. Seen(disk') = Seen(disk)
    BY <2>5 DEF Seen
  <2>7. \A g \in Files : disk[g].stamp \in Nat
    BY DEF FolderTyped, Entries
  <2> QED BY <2>3, <2>4, <2>5, <2>6, <2>7 DEF FolderGrows, FolderTyped, Follows
<1>5. UNCHANGED <<watcher, filings>>
  BY DEF FolderStep, WriteFile, WriteSidecar, RemoveFile, Settle, Touch, archive
<1> QED BY <1>1, <1>2, <1>3, <1>4, <1>5 DEF FolderStep

LEMMA GrowingKeepsLay ==
  ASSUME LayInv, FolderGrows, UNCHANGED <<watcher, filings>>
  PROVE  LayInv'
<1>1. WatcherTyped' /\ DocsShaped' /\ FiledAsTheyLay'
  BY DEF LayInv, WatcherTyped, DocsShaped, FiledAsTheyLay, FolderGrows
<1>2. \A f \in Files : disk[f].stamp \in Nat /\ disk'[f].stamp \in Nat
  BY DEF LayInv, FolderGrows, FolderTyped, Entries
<1>3. watcher.opened \in Nat /\ watcher.fp[1] \in Nat
  BY DEF LayInv, WatcherTyped, Watchers
<1>4. Listed'
  <2> SUFFICES ASSUME watcher.pc \in {"sidecar", "open"}
               PROVE  /\ watcher.file \in Files
                      /\ watcher.fp[1] <= disk'[watcher.file].stamp
                      /\ Present(watcher.file)' /\ disk'[watcher.file].stamp = watcher.fp[1] =>
                           <<watcher.file, disk'[watcher.file].bytes, watcher.side>> \in beside'
    BY DEF Listed
  <2>1. watcher.file \in Files
    BY DEF LayInv, Listed
  <2>2. Follows(disk[watcher.file], disk'[watcher.file])
    BY <2>1 DEF FolderGrows
  <2> QED BY <1>2, <1>3, <2>1, <2>2 DEF LayInv, Listed, Follows, Present, FolderGrows
<1>5. Opened'
  <2> SUFFICES ASSUME watcher.pc \in {"read", "file"}
               PROVE  /\ watcher.file \in Files
                      /\ watcher.opened <= disk'[watcher.file].stamp
                      /\ Present(watcher.file)' /\ disk'[watcher.file].stamp = watcher.opened =>
                           disk'[watcher.file].bytes = watcher.first
                      /\ watcher.rewritten \/ <<watcher.file, watcher.first, watcher.side>> \in beside'
                      /\ watcher.pc = "file" => watcher.first = watcher.second
    BY DEF Opened
  <2>1. watcher.file \in Files
    BY DEF LayInv, Opened
  <2>2. Follows(disk[watcher.file], disk'[watcher.file])
    BY <2>1 DEF FolderGrows
  <2> QED BY <1>2, <1>3, <2>1, <2>2 DEF LayInv, Opened, Follows, Present, FolderGrows
<1> QED BY <1>1, <1>4, <1>5 DEF LayInv, FolderGrows

-----------------------------------------------------------------------------
(* The scanner.                                                             *)
SameRun(v, w) == v.live = w.live /\ v.cancelled = w.cancelled /\ v.cfg = w.cfg

LEMMA DoneTyped ==
  ASSUME NEW w \in Watchers
  PROVE  /\ Done(w) \in Watchers /\ Done(w).pc = "next" /\ SameRun(Done(w), w)
  BY DEF Done, Watchers, Phases, SameRun, NoFp, NoBytes, NoSide

LEMMA FailingTyped ==
  ASSUME NEW w \in Watchers, NEW o \in {"failed", "blocked"}
  PROVE  LET v == [w EXCEPT !.pc = "fail", !.outcome = o]
         IN  v \in Watchers /\ v.pc = "fail" /\ SameRun(v, w)
  BY DEF Watchers, Phases, SameRun

LEMMA IdleTyped ==
  ASSUME NEW c \in Configs
  PROVE  /\ Idle \in Watchers /\ Idle.pc = "next" /\ Idle.live = FALSE
         /\ [Idle EXCEPT !.cancelled = TRUE] \in Watchers
         /\ [Idle EXCEPT !.cancelled = TRUE].pc = "next"
         /\ [Idle EXCEPT !.cancelled = TRUE].live = FALSE
         /\ [Idle EXCEPT !.live = TRUE, !.cfg = c] \in Watchers
         /\ [Idle EXCEPT !.live = TRUE, !.cfg = c].pc = "next"
         /\ [Idle EXCEPT !.live = TRUE, !.cfg = c].live = TRUE
         /\ [Idle EXCEPT !.live = TRUE, !.cfg = c].cancelled = FALSE
         /\ [Idle EXCEPT !.live = TRUE, !.cfg = c].cfg = c
  BY DEF Idle, Watchers, Phases, NoFp, NoBytes, NoSide

LEMMA FingerprintTyped ==
  ASSUME FolderTyped, NEW f \in Files
  PROVE  /\ Fingerprint(f) \in Nat \X Nat /\ Fingerprint(f)[1] = disk[f].stamp
         /\ disk[f].ino \in Nat /\ disk[f].stamp \in Nat
         /\ disk[f].side \in Sidecars \cup {NoSide} /\ disk[f].bytes \in Bytes \cup {NoBytes}
<1>1. disk[f] \in Entries
  BY DEF FolderTyped
<1> QED BY <1>1 DEF Fingerprint, Entries

(* A step of the scanner, of whatever kind, moves on or gives the file up.  *)
Resting == watcher'.pc \in {"next", "ignore", "fail"}

LEMMA RestingKeepsLay ==
  ASSUME LayInv, UNCHANGED <<onDisk, filings>>, WatcherTyped', Resting
  PROVE  LayInv'
<1>1. FolderTyped' /\ DocsShaped' /\ FiledAsTheyLay'
  BY DEF LayInv, onDisk, FolderTyped, DocsShaped, FiledAsTheyLay, Seen
<1>2. Listed' /\ Opened'
  BY DEF Resting, Listed, Opened
<1> QED BY <1>1, <1>2 DEF LayInv

LEMMA ScanOnceLay ==
  ASSUME LayInv, ScanOnce
  PROVE  LayInv' /\ SameRun(watcher', watcher)
<1> DEFINE w == watcher
           S == {f \in Files : Present(f)}
<1>1. w \in Watchers /\ S \subseteq Files /\ w.pc = "next"
  BY DEF LayInv, WatcherTyped, ScanOnce, Working
<1>2. watcher' = [w EXCEPT !.todo = S]
  BY DEF ScanOnce
<1>3. watcher' \in Watchers /\ watcher'.pc = "next" /\ SameRun(watcher', watcher)
  <2> HIDE DEF S
  <2> QED BY <1>1, <1>2 DEF Watchers, SameRun
<1> QED BY <1>3, RestingKeepsLay DEF WatcherTyped, Resting, ScanOnce, archive

LEMMA SkipLay ==
  ASSUME LayInv, NEW f \in Files, Skip(f)
  PROVE  LayInv' /\ SameRun(watcher', watcher)
<1>1. watcher \in Watchers /\ watcher.pc = "next"
  BY DEF LayInv, WatcherTyped, Skip, Working
<1>2. watcher' = [watcher EXCEPT !.todo = @ \ {f}]
  BY DEF Skip
<1>3. watcher' \in Watchers /\ watcher'.pc = "next" /\ SameRun(watcher', watcher)
  BY <1>1, <1>2 DEF Watchers, SameRun
<1> QED BY <1>3, RestingKeepsLay DEF WatcherTyped, Resting, Skip, archive

LEMMA ExamineLay ==
  ASSUME LayInv, NEW f \in Files, Examine(f)
  PROVE  LayInv' /\ SameRun(watcher', watcher)
<1> DEFINE w == watcher
           i == disk[f].ino
           p == Fingerprint(f)
           s == disk[f].side
           c == IF TooBig(disk[f].bytes) THEN "ignore" ELSE "sidecar"
<1>1. w \in Watchers /\ i \in Nat /\ p \in Nat \X Nat /\ s \in Sidecars \cup {NoSide}
      /\ c \in {"ignore", "sidecar"}
  BY FingerprintTyped DEF LayInv, WatcherTyped
<1>2. watcher' = [w EXCEPT !.file = f, !.ino = i, !.fp = p, !.side = s, !.pc = c]
  BY DEF Examine
<1>3. /\ watcher' \in Watchers /\ SameRun(watcher', w)
      /\ watcher'.file = f /\ watcher'.fp = p /\ watcher'.side = s /\ watcher'.pc = c
  <2> HIDE DEF w, i, p, s, c
  <2> QED BY <1>1, <1>2 DEF Watchers, SameRun, Phases
<1>4. UNCHANGED <<disk, beside, filings>>
  BY DEF Examine, onDisk, archive
<1>5. FolderTyped' /\ DocsShaped' /\ FiledAsTheyLay'
  BY <1>4 DEF LayInv, FolderTyped, DocsShaped, FiledAsTheyLay, Seen
<1>6. Opened'
  BY <1>1, <1>3 DEF Opened
<1>7. Listed'
  <2>1. p[1] = disk[f].stamp /\ disk[f].stamp \in Nat
    BY FingerprintTyped DEF LayInv
  <2>2. <<f, disk[f].bytes, disk[f].side>> \in beside
    BY DEF LayInv, FolderTyped, Seen, Examine, Present
  <2> HIDE DEF p, c, i
  <2> QED BY <1>3, <1>4, <2>1, <2>2 DEF Listed
<1> QED BY <1>3, <1>5, <1>6, <1>7 DEF LayInv, WatcherTyped

LEMMA GivenUpLay ==
  ASSUME LayInv, UNCHANGED <<onDisk, filings>>, watcher' = Done(watcher)
  PROVE  LayInv' /\ SameRun(watcher', watcher)
  BY DoneTyped, RestingKeepsLay DEF LayInv, WatcherTyped, Resting

LEMMA FailingLay ==
  ASSUME LayInv, UNCHANGED <<onDisk, filings>>, NEW o \in {"failed", "blocked"},
         watcher' = [watcher EXCEPT !.pc = "fail", !.outcome = o]
  PROVE  LayInv' /\ SameRun(watcher', watcher)
  BY FailingTyped, RestingKeepsLay DEF LayInv, WatcherTyped, Resting

LEMMA ReadSidecarLay ==
  ASSUME LayInv, ReadSidecar
  PROVE  LayInv' /\ SameRun(watcher', watcher)
<1>1. UNCHANGED <<onDisk, filings>> /\ watcher.pc = "sidecar" /\ watcher \in Watchers
  BY DEF ReadSidecar, archive, Working, LayInv, WatcherTyped
<1>2. CASE watcher' = Done(watcher)
  BY <1>1, <1>2, GivenUpLay
<1>3. CASE watcher' = [watcher EXCEPT !.pc = "fail", !.outcome = "blocked"]
  BY <1>1, <1>3, FailingLay
<1>4. CASE watcher' = [watcher EXCEPT !.pc = "open"]
  <2>1. /\ watcher' \in Watchers /\ SameRun(watcher', watcher)
        /\ watcher'.file = watcher.file /\ watcher'.fp = watcher.fp
        /\ watcher'.side = watcher.side /\ watcher'.pc = "open"
    BY <1>1, <1>4 DEF Watchers, SameRun, Phases
  <2>2. FolderTyped' /\ DocsShaped' /\ FiledAsTheyLay'
    BY <1>1 DEF LayInv, FolderTyped, DocsShaped, FiledAsTheyLay, Seen, onDisk
  <2>3. Listed' /\ Opened'
    BY <1>1, <2>1 DEF LayInv, Listed, Opened, Present, onDisk
  <2> QED BY <2>1, <2>2, <2>3 DEF LayInv, WatcherTyped
<1> QED BY <1>2, <1>3, <1>4 DEF ReadSidecar

LEMMA OpenFileLay ==
  ASSUME LayInv, OpenFile
  PROVE  LayInv' /\ SameRun(watcher', watcher)
<1> DEFINE f == watcher.file
           w == watcher
           i == disk[f].ino
           t == disk[f].stamp
           b == disk[f].bytes
           r == SameInode(f) /\ disk[f].stamp # watcher.fp[1]
           v == [w EXCEPT !.pc = "read", !.opened = t, !.ino = i, !.rewritten = r, !.first = b]
<1>1. UNCHANGED <<onDisk, filings>> /\ watcher.pc = "open" /\ watcher \in Watchers
  BY DEF OpenFile, archive, Working, LayInv, WatcherTyped
<1>2. CASE watcher' = Done(watcher)
  BY <1>1, <1>2, GivenUpLay
<1>3. CASE watcher' = [watcher EXCEPT !.pc = "fail", !.outcome = "failed"]
  BY <1>1, <1>3, FailingLay
<1>4. CASE watcher' = v /\ Present(f) /\ SameFile(f)
  <2>1. /\ f \in Files /\ i \in Nat /\ t \in Nat /\ b \in Bytes \cup {NoBytes} /\ r \in BOOLEAN
    BY <1>1, FingerprintTyped DEF LayInv, Listed
  <2>2. /\ watcher' \in Watchers /\ SameRun(watcher', watcher)
        /\ watcher'.file = watcher.file /\ watcher'.opened = t /\ watcher'.rewritten = r
        /\ watcher'.first = b /\ watcher'.side = watcher.side /\ watcher'.pc = "read"
    <3> HIDE DEF f, i, t, b, r
    <3> QED BY <1>1, <1>4, <2>1 DEF Watchers, SameRun, Phases
  <2>3. FolderTyped' /\ DocsShaped' /\ FiledAsTheyLay'
    BY <1>1 DEF LayInv, FolderTyped, DocsShaped, FiledAsTheyLay, Seen, onDisk
  <2>4. r \/ <<watcher.file, b, watcher.side>> \in beside
    BY <1>1, <1>4 DEF LayInv, Listed, SameFile
  <2>5. Opened'
    <3> HIDE DEF r
    <3> QED BY <1>1, <2>1, <2>2, <2>4 DEF Opened, onDisk
  <2>6. Listed'
    BY <2>2 DEF Listed
  <2> QED BY <2>2, <2>3, <2>5, <2>6 DEF LayInv, WatcherTyped
<1> QED BY <1>2, <1>3, <1>4 DEF OpenFile

LEMMA ReadFileLay ==
  ASSUME LayInv, ReadFile
  PROVE  LayInv' /\ SameRun(watcher', watcher)
<1> DEFINE f == watcher.file
           b == IF SameInode(f) THEN disk[f].bytes ELSE watcher.first
<1>1. UNCHANGED <<onDisk, filings>> /\ watcher.pc = "read" /\ watcher \in Watchers
  BY DEF ReadFile, archive, Working, LayInv, WatcherTyped
<1>2. CASE watcher' = Done(watcher)
  BY <1>1, <1>2, GivenUpLay
<1>3. CASE Unchanged(f) /\ watcher' = [watcher EXCEPT !.pc = "file", !.second = b]
  <2>1. f \in Files /\ b = watcher.first
    BY <1>1, <1>3 DEF LayInv, Opened, Unchanged
  <2>2. /\ watcher' \in Watchers /\ SameRun(watcher', watcher)
        /\ watcher'.file = watcher.file /\ watcher'.opened = watcher.opened
        /\ watcher'.rewritten = watcher.rewritten /\ watcher'.second = b
        /\ watcher'.first = watcher.first /\ watcher'.side = watcher.side /\ watcher'.pc = "file"
    <3> HIDE DEF f, b
    <3> QED BY <1>1, <1>3, <2>1 DEF Watchers, SameRun, Phases
  <2>3. FolderTyped' /\ DocsShaped' /\ FiledAsTheyLay'
    BY <1>1 DEF LayInv, FolderTyped, DocsShaped, FiledAsTheyLay, Seen, onDisk
  <2>4. Opened' /\ Listed'
    <3> HIDE DEF b
    <3> QED BY <1>1, <2>1, <2>2 DEF LayInv, Opened, Listed, Present, onDisk
  <2> QED BY <2>2, <2>3, <2>4 DEF LayInv, WatcherTyped
<1> QED BY <1>2, <1>3 DEF ReadFile

LEMMA HiccupLay ==
  ASSUME LayInv, Hiccup
  PROVE  LayInv' /\ SameRun(watcher', watcher)
  BY FailingLay DEF Hiccup, archive

LEMMA WatcherEndsLay ==
  ASSUME LayInv, WatcherEnds
  PROVE  LayInv' /\ watcher'.live = FALSE
<1>1. watcher' = [Idle EXCEPT !.cancelled = TRUE] /\ UNCHANGED <<onDisk, filings>>
  BY DEF WatcherEnds, archive
<1>2. watcher' \in Watchers /\ watcher'.pc = "next" /\ watcher'.live = FALSE
  BY <1>1 DEF Idle, Watchers, Phases, NoFp, NoBytes, NoSide
<1> QED BY <1>1, <1>2, RestingKeepsLay DEF WatcherTyped, Resting

-----------------------------------------------------------------------------
(* The documents.                                                           *)
Sound(d, seen) == d.whole /\ (d.rewritten \/ <<d.file, d.bytes, d.side>> \in seen)
Shaped(d) == d = [x \in DocFields |-> d[x]]

LEMMA StateChanged ==
  ASSUME NEW d, Shaped(d), NEW seen, Sound(d, seen), NEW state
  PROVE  Shaped([d EXCEPT !.state = state]) /\ Sound([d EXCEPT !.state = state], seen)
<1> DEFINE e == [d EXCEPT !.state = state]
<1>1. /\ e = [x \in DocFields |-> e[x]] /\ e.whole = d.whole /\ e.rewritten = d.rewritten
      /\ e.file = d.file /\ e.bytes = d.bytes /\ e.side = d.side
  BY DEF Shaped, DocFields
<1> HIDE DEF e
<1>2. Shaped(e) /\ Sound(e, seen)
  BY <1>1 DEF Shaped, Sound
<1> QED BY <1>2 DEF e

LEMMA DocsLay ==
  ASSUME LayInv, NEW ds, \A d \in ds : Shaped(d) /\ Sound(d, beside),
         UNCHANGED onDisk, filings' = ds,
         watcher' = watcher \/ watcher' = Done(watcher)
  PROVE  LayInv'
<1>1. FolderTyped' /\ DocsShaped' /\ FiledAsTheyLay'
  BY DEF LayInv, onDisk, FolderTyped, Seen, DocsShaped, FiledAsTheyLay, Shaped, Sound
<1>2. CASE watcher' = watcher
  <2>1. WatcherTyped' /\ Listed' /\ Opened'
    BY <1>2 DEF LayInv, WatcherTyped, Listed, Opened, Present, onDisk
  <2> QED BY <1>1, <2>1 DEF LayInv
<1>3. CASE watcher' = Done(watcher)
  <2>1. WatcherTyped' /\ Listed' /\ Opened'
    BY <1>3, DoneTyped DEF LayInv, WatcherTyped, Listed, Opened
  <2> QED BY <1>1, <2>1 DEF LayInv
<1> QED BY <1>2, <1>3

LEMMA DocsSound ==
  ASSUME LayInv
  PROVE  \A d \in filings : Shaped(d) /\ Sound(d, beside)
  BY DEF LayInv, DocsShaped, FiledAsTheyLay, Shaped, Sound

LEMMA FileLay ==
  ASSUME LayInv, File
  PROVE  LayInv' /\ SameRun(watcher', watcher)
<1>0. UNCHANGED onDisk /\ watcher.pc = "file" /\ watcher \in Watchers
  BY DEF File, Working, LayInv, WatcherTyped
<1>1. ASSUME NEW o \in {"failed", "blocked"}, FileRefused(o)
      PROVE  LayInv' /\ SameRun(watcher', watcher)
  BY <1>0, <1>1, FailingLay DEF FileRefused
<1>2. ASSUME NEW ds, \A d \in ds : Shaped(d) /\ Sound(d, beside), Filed(ds)
      PROVE  LayInv' /\ SameRun(watcher', watcher)
  BY <1>0, <1>2, DocsLay, DoneTyped DEF Filed
<1>3. CASE watcher.cfg.owner \notin may
  BY <1>1, <1>3 DEF File
<1>4. CASE watcher.cfg.owner \in may /\ Known("split") \cup Known("live") # {}
  <2>1. Filed(filings)
    BY <1>4 DEF File
  <2> QED BY <1>2, <2>1, DocsSound
<1>5. CASE watcher.cfg.owner \in may /\ Known("split") \cup Known("live") = {}
           /\ Known("trash") # {}
  <2> DEFINE d == CHOOSE x \in Known("trash") : TRUE
             ds == (filings \ {d}) \cup {[d EXCEPT !.state = "live"]}
  <2>1. Filed(ds)
    BY <1>5 DEF File
  <2>2. d \in filings
    BY <1>5 DEF Known
  <2> HIDE DEF d
  <2>3. Shaped([d EXCEPT !.state = "live"]) /\ Sound([d EXCEPT !.state = "live"], beside)
    BY <2>2, DocsSound, StateChanged
  <2>4. \A x \in ds : Shaped(x) /\ Sound(x, beside)
    BY <2>3, DocsSound
  <2> HIDE DEF ds
  <2> QED BY <1>2, <2>1, <2>4
<1>6. CASE watcher.cfg.owner \in may
           /\ Known("split") \cup Known("live") \cup Known("trash") = {}
  <2> DEFINE d == [owner |-> watcher.cfg.owner, system |-> watcher.cfg.system,
                   bytes |-> watcher.first, side |-> watcher.side, state |-> "live",
                   file |-> watcher.file, whole |-> watcher.first = watcher.second,
                   rewritten |-> watcher.rewritten]
  <2>1. IF SidecarRefused # "none" THEN FileRefused(SidecarRefused) ELSE Filed(filings \cup {d})
    BY <1>6 DEF File
  <2>2. SidecarRefused \in {"none", "failed", "blocked"}
    BY DEF SidecarRefused
  <2>3. CASE SidecarRefused # "none"
    BY <1>1, <2>1, <2>2, <2>3
  <2>4. CASE SidecarRefused = "none"
    <3>1. /\ d.whole = (watcher.first = watcher.second) /\ d.rewritten = watcher.rewritten
          /\ d.file = watcher.file /\ d.bytes = watcher.first /\ d.side = watcher.side
          /\ d = [x \in DocFields |-> d[x]]
      BY DEF DocFields
    <3> HIDE DEF d
    <3>2. Shaped(d) /\ Sound(d, beside)
      BY <1>0, <3>1 DEF LayInv, Opened, Shaped, Sound
    <3> QED BY <1>2, <2>1, <2>4, <3>2, DocsSound
  <2> QED BY <2>3, <2>4
<1> QED BY <1>3, <1>4, <1>5, <1>6

LEMMA ChangeDocLay ==
  ASSUME LayInv, NEW d \in filings, NEW state, ChangeDoc(d, state)
  PROVE  LayInv' /\ watcher' = watcher
<1> DEFINE ds == (filings \ {d}) \cup (IF state = "purged" THEN {} ELSE {[d EXCEPT !.state = state]})
<1>1. filings' = ds /\ UNCHANGED <<onDisk, watcher>>
  BY DEF ChangeDoc
<1>2. Shaped([d EXCEPT !.state = state]) /\ Sound([d EXCEPT !.state = state], beside)
  BY DocsSound, StateChanged
<1>3. \A x \in ds : Shaped(x) /\ Sound(x, beside)
  BY <1>2, DocsSound
<1> HIDE DEF ds
<1> QED BY <1>1, <1>3, DocsLay

(* The steps that leave the folder and the documents alone.                 *)
LEMMA StillLay ==
  ASSUME LayInv, UNCHANGED <<onDisk, filings, watcher>>
  PROVE  LayInv'
  BY DEF LayInv, onDisk, FolderTyped, Seen, DocsShaped, FiledAsTheyLay, WatcherTyped, Listed,
         Opened, Present

LEMMA CancelledLay ==
  ASSUME LayInv, UNCHANGED <<onDisk, filings>>, watcher' = [watcher EXCEPT !.cancelled = TRUE]
  PROVE  LayInv'
<1>1. /\ watcher' \in Watchers /\ watcher'.pc = watcher.pc /\ watcher'.file = watcher.file
      /\ watcher'.fp = watcher.fp /\ watcher'.side = watcher.side
      /\ watcher'.opened = watcher.opened /\ watcher'.rewritten = watcher.rewritten
      /\ watcher'.first = watcher.first /\ watcher'.second = watcher.second
  BY DEF LayInv, WatcherTyped, Watchers
<1>2. FolderTyped' /\ DocsShaped' /\ FiledAsTheyLay'
  BY DEF LayInv, FolderTyped, DocsShaped, FiledAsTheyLay, Seen, onDisk
<1>3. Listed' /\ Opened'
  BY <1>1 DEF LayInv, Listed, Opened, Present, onDisk
<1> QED BY <1>1, <1>2, <1>3 DEF LayInv, WatcherTyped

LEMMA StartedTyped ==
  ASSUME NEW c \in Configs \cup {Off}
  PROVE  /\ Started(c) \in Watchers /\ Started(c).pc = "next"
         /\ c = Off => Started(c).live = FALSE
         /\ c # Off => Started(c).live = TRUE /\ Started(c).cancelled = FALSE /\ Started(c).cfg = c
<1>1. CASE c = Off
  BY <1>1 DEF Started, Idle, Watchers, Phases, NoFp, NoBytes, NoSide
<1>2. CASE c # Off
  BY <1>2, IdleTyped DEF Started
<1> QED BY <1>1, <1>2

LEMMA LayInitial ==
  ASSUME FolderAssumption, FolderInit
  PROVE  LayInv
<1>1. PICK s \in Starts : disk = s.disk /\ filings = {} /\ beside = Seen(s.disk) /\ watcher = Idle
  BY DEF FolderInit
<1>2. FolderTyped /\ DocsShaped /\ FiledAsTheyLay
  BY <1>1 DEF FolderAssumption, FolderTyped, DocsShaped, FiledAsTheyLay
<1>3. watcher \in Watchers /\ watcher.pc = "next"
  BY <1>1 DEF Idle, Watchers, Phases, NoFp, NoBytes, NoSide
<1> QED BY <1>2, <1>3 DEF LayInv, WatcherTyped, Listed, Opened

LEMMA LayStep ==
  ASSUME LayInv, ReloadTyped, [FolderNext]_folderVars
  PROVE  LayInv'
<1>1. CASE FolderStep
  BY <1>1, FolderStepGrows, GrowingKeepsLay DEF LayInv
<1>2. CASE ScanStep
  <2>1. CASE Ignore \/ Fail
    BY <2>1, GivenUpLay DEF Ignore, Fail, archive
  <2> QED BY <1>2, <2>1, ScanOnceLay, SkipLay, ExamineLay, ReadSidecarLay, OpenFileLay,
             ReadFileLay, FileLay, WatcherEndsLay DEF ScanStep
<1>3. ASSUME NEW c \in Configs, NEW f \in Files, RetryDue(c, f)
      PROVE  LayInv'
  BY <1>3, StillLay DEF RetryDue, archive
<1>4. ASSUME NEW r \in Savers, ReloadStep(r)
      PROVE  LayInv'
  <2>1. CASE Resolve(r) \/ RestoreSettings(r)
    BY <2>1, StillLay DEF Resolve, RestoreSettings, archive
  <2>2. CASE BeginReload(r)
    BY <2>2, StillLay, CancelledLay DEF BeginReload, archive
  <2>3. CASE FinishReload(r)
    <3>1. saving[r].cfg \in Configs \cup {Off}
      BY DEF ReloadTyped, Saves
    <3> QED BY <2>3, <3>1, StartedTyped, RestingKeepsLay
            DEF FinishReload, archive, WatcherTyped, Resting
  <2> QED BY <1>4, <2>1, <2>2, <2>3 DEF ReloadStep
<1>5. ASSUME NEW l, StartServer(l)
      PROVE  LayInv'
  <2>1. settings.cfg \in Configs \cup {Off}
    BY DEF ReloadTyped, Stored
  <2>2. UNCHANGED <<onDisk, filings>> /\ (watcher' = watcher \/ watcher' = Started(settings.cfg))
    BY <1>5 DEF StartServer, archive
  <2> QED BY <2>1, <2>2, StillLay, StartedTyped, RestingKeepsLay DEF WatcherTyped, Resting
<1>6. CASE Others
  <2>1. CASE ChangeField \/ (\E o \in Owners : ChangeOwner(o))
    BY <2>1, StillLay DEF ChangeField, ChangeOwner
  <2>2. ASSUME NEW d \in filings, NEW state, ChangeDoc(d, state)
        PROVE  LayInv'
    BY <2>2, ChangeDocLay
  <2>3. CASE \E r \in Savers : ReloadInterrupted(r) \/ (\E c \in Configs \cup {Off} : SaveSettings(r, c))
    BY <2>3, StillLay DEF ReloadInterrupted, SaveSettings, archive
  <2>4. CASE Crash
    <3>1. watcher' \in Watchers /\ watcher'.pc = "next"
      BY <2>4 DEF Crash, Idle, Watchers, Phases, NoFp, NoBytes, NoSide
    <3> QED BY <2>4, <3>1, RestingKeepsLay DEF Crash, WatcherTyped, Resting, archive
  <2> QED BY <1>6, <2>1, <2>2, <2>3, <2>4, HiccupLay DEF Others
<1>7. CASE UNCHANGED folderVars
  BY <1>7, StillLay DEF folderVars, archive
<1> QED BY <1>1, <1>2, <1>3, <1>4, <1>5, <1>6, <1>7 DEF FolderNext

-----------------------------------------------------------------------------
(* The supervisor.                                                          *)
LEMMA StillRun ==
  ASSUME RunInv, UNCHANGED <<settings, serving, sup, saving, excuses>>, SameRun(watcher', watcher)
  PROVE  RunInv'
<1>1. ReloadTyped' /\ MutexHeld' /\ DownIsIdle'
  BY DEF RunInv, ReloadTyped, MutexHeld, DownIsIdle
<1>2. LastSaverAnswers' /\ ReloadsCurrent' /\ SoleSaver'
  BY DEF RunInv, LastSaverAnswers, ReloadsCurrent, SoleSaver, Busy, Reloading
<1>3. CurrentRuns'
  BY DEF RunInv, CurrentRuns, Applied, SameRun
<1> QED BY <1>1, <1>2, <1>3 DEF RunInv

LEMMA WatcherEndsRun ==
  ASSUME RunInv, LayInv, WatcherEnds
  PROVE  RunInv'
<1>0. UNCHANGED <<settings, serving, sup, saving, excuses>>
  BY DEF WatcherEnds
<1>1. ReloadTyped' /\ MutexHeld' /\ DownIsIdle'
  BY <1>0 DEF RunInv, ReloadTyped, MutexHeld, DownIsIdle
<1>2. LastSaverAnswers' /\ ReloadsCurrent' /\ SoleSaver'
  BY <1>0 DEF RunInv, LastSaverAnswers, ReloadsCurrent, SoleSaver, Busy, Reloading
<1>3. CurrentRuns'
  BY <1>0 DEF RunInv, CurrentRuns, Applied, WatcherEnds
<1> QED BY <1>1, <1>2, <1>3 DEF RunInv

LEMMA SaveSettingsRun ==
  ASSUME FolderAssumption, RunInv, NEW r \in Savers, NEW c \in Configs \cup {Off}, SaveSettings(r, c)
  PROVE  RunInv'
<1> DEFINE o == Busy # {}
           q == [pc |-> "written", previous |-> settings, cfg |-> Off, over |-> o]
           n == [cfg |-> c, by |-> r]
<1>1. /\ serving /\ saving[r].pc = "idle" /\ settings' = n /\ saving' = [saving EXCEPT ![r] = q]
      /\ UNCHANGED <<serving, sup, watcher, excuses>>
  BY DEF SaveSettings
<1>2. q \in Saves /\ q.pc = "written" /\ q.previous = settings /\ q.over = o
      /\ n \in Stored /\ n.cfg = c /\ n.by = r
  BY DEF RunInv, ReloadTyped, Saves, Stored
<1>3. saving' \in [Savers -> Saves] /\ saving'[r] = q /\ \A x \in Savers : x # r => saving'[x] = saving[x]
  BY <1>1, <1>2 DEF RunInv, ReloadTyped
<1> HIDE DEF q, n, o
<1>4. Busy' = Busy \cup {r} /\ r \notin Busy /\ Reloading' = Reloading /\ r \notin Reloading
  BY <1>1, <1>2, <1>3 DEF Busy, Reloading
<1>5. ReloadTyped' /\ MutexHeld' /\ DownIsIdle'
  BY <1>1, <1>2, <1>3 DEF RunInv, ReloadTyped, MutexHeld, DownIsIdle
<1>6. CurrentRuns'
  BY <1>1, <1>2, <1>3 DEF RunInv, CurrentRuns, Applied
<1>7. LastSaverAnswers' /\ ReloadsCurrent'
  BY <1>1, <1>2, <1>3, <1>4 DEF LastSaverAnswers, ReloadsCurrent
<1>8. SoleSaver'
  <2> SUFFICES ASSUME serving, excuses = {}, ~o
               PROVE  Busy' = {r} /\ settings.cfg = sup.current
    BY <1>1, <1>2, <1>3, <1>4 DEF SoleSaver
  <2>1. Busy = {}
    BY DEF o
  <2> QED BY <1>4, <2>1 DEF RunInv, LastSaverAnswers
<1> QED BY <1>5, <1>6, <1>7, <1>8 DEF RunInv

LEMMA ResolveRun ==
  ASSUME FolderAssumption, RunInv, NEW r \in Savers, Resolve(r)
  PROVE  RunInv'
<1> DEFINE p == IF ResolvePossible(settings.cfg) THEN "resolved" ELSE "failed"
           e == saving[r]
           k == settings.cfg
           q == [e EXCEPT !.cfg = k, !.pc = p]
<1>1. /\ serving /\ e.pc = "written" /\ saving' = [saving EXCEPT ![r] = q]
      /\ UNCHANGED <<settings, serving, sup, watcher>>
      /\ excuses' = excuses \cup (IF Reloading # {} THEN {"overlap"} ELSE {})
  BY DEF Resolve, RunInv, ReloadTyped, Saves
<1>2. e \in Saves /\ k \in Configs \cup {Off} /\ p \in {"resolved", "failed"}
  BY DEF RunInv, ReloadTyped, Stored
<1>3. q \in Saves /\ q.pc = p /\ q.cfg = k /\ q.previous = e.previous /\ q.over = e.over
  <2> HIDE DEF e, k, p
  <2> QED BY <1>2 DEF Saves
<1>4. saving' \in [Savers -> Saves] /\ saving'[r] = q /\ \A x \in Savers : x # r => saving'[x] = saving[x]
  <2> HIDE DEF q
  <2> QED BY <1>1, <1>3 DEF RunInv, ReloadTyped
<1> HIDE DEF q, p
<1>5. Busy' = Busy /\ r \in Busy /\ Reloading' \subseteq Reloading \cup {r}
  BY <1>1, <1>2, <1>3, <1>4 DEF Busy, Reloading
<1>6. excuses' = {} => excuses = {} /\ Reloading = {}
  BY <1>1
<1>7. ReloadTyped' /\ MutexHeld' /\ DownIsIdle'
  BY <1>1, <1>2, <1>3, <1>4 DEF RunInv, ReloadTyped, MutexHeld, DownIsIdle
<1>8. CurrentRuns'
  BY <1>1, <1>2, <1>3, <1>4, <1>6 DEF RunInv, CurrentRuns, Applied
<1>9. LastSaverAnswers' /\ ReloadsCurrent'
  BY <1>1, <1>2, <1>3, <1>4, <1>5, <1>6 DEF RunInv, LastSaverAnswers, ReloadsCurrent
<1>10. SoleSaver'
  BY <1>1, <1>2, <1>3, <1>4, <1>5, <1>6 DEF RunInv, SoleSaver, Busy
<1> QED BY <1>7, <1>8, <1>9, <1>10 DEF RunInv

(* A request that ends without changing what is stored: its reload found    *)
(* its settings running, or started them.                                   *)
LEMMA DoneReq ==
  ASSUME RunInv, NEW r \in Savers, saving' = [saving EXCEPT ![r] = NoReq]
  PROVE  /\ saving' \in [Savers -> Saves] /\ saving'[r].pc = "idle"
         /\ \A x \in Savers : x # r => saving'[x] = saving[x]
         /\ Busy' = Busy \ {r} /\ Reloading' = Reloading \ {r}
<1>1. NoReq \in Saves /\ NoReq.pc = "idle"
  BY DEF NoReq, Saves, Stored
<1> QED BY <1>1 DEF RunInv, ReloadTyped, Busy, Reloading

LEMMA ReloadDone ==
  ASSUME FolderAssumption, RunInv, NEW r \in Reloading, NEW c, c = saving[r].cfg,
         saving' = [saving EXCEPT ![r] = NoReq], UNCHANGED <<settings, serving, excuses>>,
         sup' \in Supervisors, sup'.current = c, serving /\ excuses = {} => Applied(c)',
         \A x \in Savers \ {r} : saving[x].pc # "stopping"
  PROVE  RunInv'
<1>0. r \in Savers /\ saving[r].pc # "written"
  BY DEF Reloading
<1>1. /\ saving' \in [Savers -> Saves] /\ saving'[r].pc = "idle"
      /\ \A x \in Savers : x # r => saving'[x] = saving[x]
      /\ Busy' = Busy \ {r} /\ Reloading' = Reloading \ {r}
  BY <1>0, DoneReq
<1>2. ReloadTyped' /\ MutexHeld' /\ DownIsIdle'
  <2>1. serving
    <3>1. NoReq.pc = "idle"
      BY DEF NoReq
    <3> QED BY <3>1 DEF RunInv, DownIsIdle, Reloading
  <2> QED BY <1>0, <1>1, <2>1 DEF RunInv, ReloadTyped, MutexHeld, DownIsIdle
<1>3. CurrentRuns'
  BY DEF CurrentRuns, Applied
<1>4. serving /\ excuses = {} =>
        \/ c = settings.cfg
        \/ settings.by \in Savers /\ saving[settings.by].pc = "written"
  BY DEF RunInv, ReloadsCurrent
<1>5. LastSaverAnswers'
  BY <1>0, <1>1, <1>4 DEF LastSaverAnswers, Busy
<1>6. ReloadsCurrent'
  <2> SUFFICES ASSUME serving, excuses = {}, NEW x \in Reloading \ {r}
               PROVE  \/ saving'[x].cfg = settings.cfg
                      \/ settings.by \in Savers /\ saving'[settings.by].pc = "written"
    BY <1>1 DEF ReloadsCurrent
  <2>1. \/ saving[x].cfg = settings.cfg
        \/ settings.by \in Savers /\ saving[settings.by].pc = "written"
    BY DEF RunInv, ReloadsCurrent
  <2>2. x \in Savers
    BY DEF Reloading
  <2> QED BY <1>0, <1>1, <2>1, <2>2
<1>7. SoleSaver'
  BY <1>0, <1>1 DEF RunInv, SoleSaver, Busy, Reloading
<1> QED BY <1>2, <1>3, <1>5, <1>6, <1>7 DEF RunInv

LEMMA BeginReloadRun ==
  ASSUME FolderAssumption, RunInv, NEW r \in Savers, BeginReload(r)
  PROVE  RunInv'
<1>1. /\ serving /\ saving[r].pc = "resolved" /\ sup.mutex = NoRequest
      /\ UNCHANGED <<settings, serving, excuses>>
  BY DEF BeginReload
<1>2. \A x \in Savers : saving[x].pc # "stopping"
  BY <1>1 DEF RunInv, MutexHeld, FolderAssumption
<1>3. CASE AlreadyRunning(saving[r].cfg) /\ saving' = [saving EXCEPT ![r] = NoReq] /\ UNCHANGED <<sup, watcher>>
  <2>1. sup' \in Supervisors /\ sup'.current = saving[r].cfg
    BY <1>3 DEF RunInv, ReloadTyped, AlreadyRunning
  <2>2. serving /\ excuses = {} => Applied(sup.current)'
    BY <1>2, <1>3 DEF RunInv, CurrentRuns, Applied
  <2>3. r \in Reloading
    BY <1>1 DEF Reloading
  <2>4. PICK c : c = saving[r].cfg
    OBVIOUS
  <2>5. serving /\ excuses = {} => Applied(c)'
    BY <1>3, <2>1, <2>2, <2>4 DEF Applied
  <2> QED BY <1>1, <1>2, <1>3, <2>1, <2>3, <2>4, <2>5, ReloadDone
<1>4. CASE saving' = [saving EXCEPT ![r].pc = "failed"] /\ UNCHANGED <<sup, watcher>>
  <2>1. /\ saving' \in [Savers -> Saves] /\ saving'[r].pc = "failed"
        /\ saving'[r].over = saving[r].over /\ saving'[r].previous = saving[r].previous
        /\ \A x \in Savers : x # r => saving'[x] = saving[x]
    BY <1>4 DEF RunInv, ReloadTyped, Saves
  <2>2. Busy' = Busy /\ Reloading' = Reloading \ {r}
    BY <1>1, <2>1 DEF Busy, Reloading
  <2>3. ReloadTyped' /\ MutexHeld' /\ DownIsIdle'
    BY <1>1, <1>4, <2>1 DEF RunInv, ReloadTyped, MutexHeld, DownIsIdle
  <2>4. CurrentRuns'
    BY <1>1, <1>2, <1>4, <2>1 DEF RunInv, CurrentRuns, Applied
  <2>5. LastSaverAnswers'
    BY <1>1, <1>4, <2>1, <2>2 DEF RunInv, LastSaverAnswers
  <2>7. ReloadsCurrent'
    <3> SUFFICES ASSUME serving, excuses = {}, NEW x \in Reloading \ {r}
                 PROVE  \/ saving'[x].cfg = settings.cfg
                        \/ settings.by \in Savers /\ saving'[settings.by].pc = "written"
      BY <1>1, <2>2 DEF ReloadsCurrent
    <3>1. \/ saving[x].cfg = settings.cfg
          \/ settings.by \in Savers /\ saving[settings.by].pc = "written"
      BY DEF RunInv, ReloadsCurrent
    <3>2. x \in Savers
      BY DEF Reloading
    <3> QED BY <1>1, <2>1, <3>1, <3>2
  <2>6. SoleSaver'
    BY <1>1, <1>4, <2>1, <2>2 DEF RunInv, SoleSaver, Busy
  <2> QED BY <2>3, <2>4, <2>5, <2>6, <2>7 DEF RunInv
<1>5. CASE /\ saving' = [saving EXCEPT ![r].pc = "stopping"]
           /\ sup' = [sup EXCEPT !.mutex = r]
           /\ watcher' = [watcher EXCEPT !.cancelled = TRUE]
  <2>1. /\ saving' \in [Savers -> Saves] /\ saving'[r].pc = "stopping"
        /\ saving'[r].over = saving[r].over /\ saving'[r].previous = saving[r].previous
        /\ saving'[r].cfg = saving[r].cfg
        /\ \A x \in Savers : x # r => saving'[x] = saving[x]
    BY <1>5 DEF RunInv, ReloadTyped, Saves
  <2>2. Busy' = Busy /\ Reloading' = Reloading
    BY <1>1, <2>1 DEF Busy, Reloading
  <2>3. sup' \in Supervisors /\ sup'.mutex = r /\ sup'.current = sup.current
    BY <1>5 DEF RunInv, ReloadTyped, Supervisors
  <2>4. ReloadTyped' /\ MutexHeld' /\ DownIsIdle'
    BY <1>1, <1>2, <2>1, <2>3 DEF RunInv, ReloadTyped, MutexHeld, DownIsIdle
  <2>5. CurrentRuns'
    BY <2>1 DEF CurrentRuns
  <2>6. LastSaverAnswers'
    BY <1>1, <2>2, <2>3 DEF RunInv, LastSaverAnswers
  <2>8. ReloadsCurrent'
    <3> SUFFICES ASSUME serving, excuses = {}, NEW x \in Reloading
                 PROVE  \/ saving'[x].cfg = settings.cfg
                        \/ settings.by \in Savers /\ saving'[settings.by].pc = "written"
      BY <1>1, <2>2 DEF ReloadsCurrent
    <3>1. \/ saving[x].cfg = settings.cfg
          \/ settings.by \in Savers /\ saving[settings.by].pc = "written"
      BY DEF RunInv, ReloadsCurrent
    <3>2. x \in Savers
      BY DEF Reloading
    <3> QED BY <1>1, <2>1, <3>1, <3>2
  <2>7. SoleSaver'
    BY <1>1, <2>1, <2>2, <2>3 DEF RunInv, SoleSaver, Busy
  <2> QED BY <2>4, <2>5, <2>6, <2>7, <2>8 DEF RunInv
<1> QED BY <1>3, <1>4, <1>5 DEF BeginReload

LEMMA FinishReloadRun ==
  ASSUME FolderAssumption, RunInv, NEW r \in Savers, FinishReload(r)
  PROVE  RunInv'
<1>1. PICK c \in Configs \cup {Off} : c = saving[r].cfg
  BY DEF RunInv, ReloadTyped, Saves
<1>2. /\ r \in Reloading /\ UNCHANGED <<settings, serving, excuses>>
      /\ saving' = [saving EXCEPT ![r] = NoReq]
      /\ saving[r].pc = "stopping"
      /\ sup' = [configured |-> TRUE, current |-> c, mutex |-> NoRequest] /\ watcher' = Started(c)
  BY <1>1 DEF FinishReload, Reloading
<1>3. sup' \in Supervisors /\ sup'.current = c
  BY <1>2 DEF Supervisors
<1>4. Applied(c)'
  BY <1>2, StartedTyped DEF Applied
<1>5. \A x \in Savers \ {r} : saving[x].pc # "stopping"
  BY <1>2 DEF RunInv, MutexHeld
<1> QED BY <1>1, <1>2, <1>3, <1>4, <1>5, ReloadDone

LEMMA ReloadInterruptedRun ==
  ASSUME RunInv, NEW r \in Savers, ReloadInterrupted(r)
  PROVE  RunInv'
<1>1. /\ serving /\ saving[r].pc = "stopping" /\ saving' = [saving EXCEPT ![r] = NoReq]
      /\ sup' = [sup EXCEPT !.mutex = NoRequest] /\ excuses' # {} /\ UNCHANGED <<settings, serving>>
  BY DEF ReloadInterrupted
<1>2. saving' \in [Savers -> Saves] /\ saving'[r].pc = "idle" /\ \A x \in Savers : x # r => saving'[x] = saving[x]
  BY <1>1, DoneReq
<1>3. ReloadTyped' /\ DownIsIdle'
  BY <1>1, <1>2 DEF RunInv, ReloadTyped, DownIsIdle, Supervisors
<1>4. MutexHeld'
  BY <1>1, <1>2 DEF RunInv, MutexHeld
<1> QED BY <1>1, <1>3, <1>4 DEF RunInv, CurrentRuns, LastSaverAnswers, ReloadsCurrent, SoleSaver

LEMMA RestoreSettingsRun ==
  ASSUME FolderAssumption, RunInv, NEW r \in Savers, RestoreSettings(r)
  PROVE  RunInv'
<1>1. /\ serving /\ saving[r].pc = "failed" /\ saving' = [saving EXCEPT ![r] = NoReq]
      /\ settings' = Restored(r) /\ UNCHANGED <<serving, sup, watcher>>
      /\ excuses' = excuses \cup (IF saving[r].over /\ settings.by = r THEN {"undone"} ELSE {})
  BY DEF RestoreSettings
<1>2. /\ saving' \in [Savers -> Saves] /\ saving'[r].pc = "idle"
      /\ \A x \in Savers : x # r => saving'[x] = saving[x]
      /\ Busy' = Busy \ {r} /\ Reloading' = Reloading \ {r}
  BY <1>1, DoneReq
<1>3. ReloadTyped' /\ DownIsIdle' /\ MutexHeld'
  BY <1>1, <1>2 DEF RunInv, ReloadTyped, DownIsIdle, MutexHeld, Restored, Saves
<1>4. CurrentRuns'
  BY <1>1, <1>2 DEF RunInv, CurrentRuns, Applied
<1>5. r \in Busy /\ r \notin Reloading
  BY <1>1 DEF Busy, Reloading
<1>6. CASE excuses' # {}
  BY <1>3, <1>4, <1>6 DEF RunInv, LastSaverAnswers, ReloadsCurrent, SoleSaver
<1>7. CASE excuses' = {} /\ settings.by = r
  <2>1. excuses = {} /\ ~saving[r].over /\ settings' = saving[r].previous
    BY <1>1, <1>7 DEF Restored
  <2>2. Busy = {r} /\ saving[r].previous.cfg = sup.current
    BY <1>1, <1>5, <1>7, <2>1 DEF RunInv, SoleSaver
  <2>3. Busy' = {} /\ Reloading' = {}
    BY <1>2, <1>5, <2>2 DEF Busy, Reloading
  <2> QED BY <1>1, <1>3, <1>4, <2>1, <2>2, <2>3 DEF RunInv, LastSaverAnswers, ReloadsCurrent, SoleSaver
<1>8. CASE excuses' = {} /\ settings.by # r
  <2>1. excuses = {} /\ settings' = settings
    BY <1>1, <1>8 DEF Restored
  <2>2. LastSaverAnswers'
    BY <1>1, <1>2, <1>8, <2>1 DEF RunInv, LastSaverAnswers
  <2>3. ReloadsCurrent'
    <3> SUFFICES ASSUME NEW x \in Reloading \ {r}
                 PROVE  \/ saving'[x].cfg = settings.cfg
                        \/ settings.by \in Savers /\ saving'[settings.by].pc = "written"
      BY <1>2, <2>1 DEF ReloadsCurrent
    <3>1. \/ saving[x].cfg = settings.cfg
          \/ settings.by \in Savers /\ saving[settings.by].pc = "written"
      BY <1>1, <2>1 DEF RunInv, ReloadsCurrent
    <3>2. x \in Savers
      BY DEF Reloading
    <3> QED BY <1>2, <1>8, <3>1, <3>2
  <2>4. SoleSaver'
    BY <1>1, <1>2, <1>5, <1>8, <2>1 DEF RunInv, SoleSaver, Busy
  <2> QED BY <1>3, <1>4, <2>2, <2>3, <2>4 DEF RunInv
<1> QED BY <1>6, <1>7, <1>8

LEMMA CrashRun ==
  ASSUME RunInv, Crash
  PROVE  RunInv'
<1>1. /\ serving' = FALSE /\ saving' = [r \in Savers |-> NoReq] /\ settings' = settings
      /\ sup' = [configured |-> FALSE, current |-> Off, mutex |-> NoRequest]
  BY DEF Crash
<1>2. NoReq \in Saves /\ NoReq.pc = "idle"
  BY DEF NoReq, Saves, Stored
<1>3. ReloadTyped' /\ MutexHeld' /\ DownIsIdle'
  BY <1>1, <1>2 DEF RunInv, ReloadTyped, MutexHeld, DownIsIdle, Supervisors
<1> QED BY <1>1, <1>3 DEF RunInv, CurrentRuns, LastSaverAnswers, ReloadsCurrent, SoleSaver

LEMMA StartRun ==
  ASSUME RunInv, NEW l, StartServer(l)
  PROVE  RunInv'
<1>1. ~serving /\ UNCHANGED <<settings, saving>> /\ saving = [r \in Savers |-> NoReq]
  BY DEF StartServer, RunInv, DownIsIdle
<1>2. NoReq.pc = "idle"
  BY DEF NoReq
<1>3. Busy' = {} /\ Reloading' = {} /\ \A r \in Savers : saving'[r].pc = "idle"
  BY <1>1, <1>2 DEF Busy, Reloading
<1>4. PICK c \in Configs \cup {Off} : c = settings.cfg
  BY DEF RunInv, ReloadTyped, Stored
<1>5. CASE /\ sup' = [configured |-> TRUE, current |-> c, mutex |-> NoRequest]
           /\ watcher' = Started(c) /\ serving' = TRUE
  <2>1. sup' \in Supervisors /\ sup'.current = c
    BY <1>5 DEF Supervisors
  <2>2. Applied(c)'
    BY <1>5, StartedTyped DEF Applied
  <2>3. ReloadTyped' /\ MutexHeld' /\ DownIsIdle'
    BY <1>1, <1>3, <1>5, <2>1 DEF RunInv, ReloadTyped, MutexHeld, DownIsIdle
  <2>4. CurrentRuns'
    BY <2>1, <2>2 DEF CurrentRuns, Applied
  <2> QED BY <1>1, <1>3, <1>4, <2>1, <2>3, <2>4 DEF RunInv, LastSaverAnswers, ReloadsCurrent, SoleSaver
<1>6. CASE excuses' # {} /\ UNCHANGED <<sup, watcher>> /\ serving' = TRUE
  <2>1. ReloadTyped' /\ MutexHeld' /\ DownIsIdle'
    BY <1>1, <1>3, <1>6 DEF RunInv, ReloadTyped, MutexHeld, DownIsIdle
  <2> QED BY <1>6, <2>1 DEF RunInv, CurrentRuns, LastSaverAnswers, ReloadsCurrent, SoleSaver
<1> QED BY <1>4, <1>5, <1>6 DEF StartServer

LEMMA RunInitial ==
  ASSUME FolderAssumption, FolderInit
  PROVE  RunInv
<1>1. PICK s \in Starts : settings = [cfg |-> s.settings, by |-> NoRequest]
  BY DEF FolderInit
<1>2. /\ saving = [r \in Savers |-> NoReq] /\ serving = FALSE
      /\ sup = [configured |-> FALSE, current |-> Off, mutex |-> NoRequest]
  BY DEF FolderInit
<1>3. NoReq \in Saves /\ NoReq.pc = "idle"
  BY DEF NoReq, Saves, Stored
<1>4. s.settings \in Configs \cup {Off}
  BY <1>1 DEF FolderAssumption
<1>5. ReloadTyped /\ MutexHeld /\ DownIsIdle
  BY <1>1, <1>2, <1>3, <1>4 DEF ReloadTyped, MutexHeld, DownIsIdle, Supervisors, Stored
<1> QED BY <1>2, <1>5 DEF RunInv, CurrentRuns, LastSaverAnswers, ReloadsCurrent, SoleSaver

LEMMA RunStep ==
  ASSUME FolderAssumption, LayInv, RunInv, [FolderNext]_folderVars
  PROVE  RunInv'
<1>0. SameRun(watcher, watcher)
  BY DEF SameRun
<1>1. CASE FolderStep
  BY <1>0, <1>1, FolderStepGrows, StillRun
     DEF FolderStep, WriteFile, WriteSidecar, RemoveFile, Settle, Touch
<1>2. CASE ScanStep
  <2>1. CASE WatcherEnds
    BY <2>1, WatcherEndsRun
  <2>2. CASE ScanStep /\ ~WatcherEnds
    <3>1. UNCHANGED <<settings, serving, sup, saving, excuses>>
      BY <2>2 DEF ScanStep, ScanOnce, Skip, Examine, Ignore, ReadSidecar, OpenFile, ReadFile, File, Fail
    <3>2. Ignore \/ Fail => SameRun(watcher', watcher)
      BY GivenUpLay DEF Ignore, Fail, archive
    <3>3. SameRun(watcher', watcher)
      BY <2>2, <3>2, ScanOnceLay, SkipLay, ExamineLay, ReadSidecarLay, OpenFileLay,
         ReadFileLay, FileLay DEF ScanStep
    <3> QED BY <3>1, <3>3, StillRun
  <2> QED BY <1>2, <2>1, <2>2
<1>3. ASSUME NEW c \in Configs, NEW f \in Files, RetryDue(c, f)
      PROVE  RunInv'
  BY <1>0, <1>3, StillRun DEF RetryDue
<1>4. ASSUME NEW r \in Savers, ReloadStep(r)
      PROVE  RunInv'
  BY <1>4, ResolveRun, BeginReloadRun, FinishReloadRun, RestoreSettingsRun DEF ReloadStep
<1>5. ASSUME NEW l, StartServer(l)
      PROVE  RunInv'
  BY <1>5, StartRun
<1>6. CASE Others
  <2>1. CASE ChangeField \/ (\E o \in Owners : ChangeOwner(o))
    BY <1>0, <2>1, StillRun DEF ChangeField, ChangeOwner
  <2>2. ASSUME NEW d \in filings, NEW state, ChangeDoc(d, state)
        PROVE  RunInv'
    BY <1>0, <2>2, StillRun DEF ChangeDoc
  <2>3. CASE Hiccup
    BY <2>3, HiccupLay, StillRun DEF Hiccup
  <2> QED BY <1>6, <2>1, <2>2, <2>3, SaveSettingsRun, ReloadInterruptedRun, CrashRun DEF Others
<1>7. CASE UNCHANGED folderVars
  BY <1>0, <1>7, StillRun DEF folderVars
<1> QED BY <1>1, <1>2, <1>3, <1>4, <1>5, <1>6, <1>7 DEF FolderNext

-----------------------------------------------------------------------------
LEMMA RunInvImplies ==
  RunInv => RunsAsSet
<1> SUFFICES ASSUME RunInv, serving, Busy = {}, excuses = {}
             PROVE  Applied(settings.cfg)
  BY DEF RunsAsSet, NoneSaving, Applied
<1>1. settings.cfg = sup.current
  BY DEF RunInv, LastSaverAnswers
<1>2. \A r \in Savers : saving[r].pc # "stopping"
  BY DEF Busy
<1> QED BY <1>1, <1>2 DEF RunInv, CurrentRuns, Applied

\* A filed document holds what its file held at one moment and the sidecar
\* beside it, whatever people do to the folder while the scanner stands
\* between listing, opening, reading and filing (processEntry, ingestOpen).
THEOREM FolderFiledAsTheyLay == FolderSpec => []FiledAsTheyLay
<1>1. FolderInit => LayInv /\ RunInv
  BY LayInitial, RunInitial, FolderAssumption
<1>2. LayInv /\ RunInv /\ [FolderNext]_folderVars => (LayInv /\ RunInv)'
  BY LayStep, RunStep, FolderAssumption DEF RunInv
<1>3. LayInv => FiledAsTheyLay
  BY DEF LayInv
<1> QED BY <1>1, <1>2, <1>3, PTL DEF FolderSpec

\* With no request under way the watcher that runs is the one the stored
\* settings ask for, after any changes, failed ones included (Supervisor.Reload),
\* unless one of the recorded excuses applies.
THEOREM FolderRunsAsSet == FolderSpec => []RunsAsSet
<1>1. FolderInit => LayInv /\ RunInv
  BY LayInitial, RunInitial, FolderAssumption
<1>2. LayInv /\ RunInv /\ [FolderNext]_folderVars => (LayInv /\ RunInv)'
  BY LayStep, RunStep, FolderAssumption DEF RunInv
<1> QED BY <1>1, <1>2, RunInvImplies, PTL DEF FolderSpec

=============================================================================
