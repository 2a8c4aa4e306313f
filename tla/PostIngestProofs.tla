-------------------------- MODULE PostIngestProofs --------------------------
(***************************************************************************)
(* Proofs about PostIngest, for any documents, files, passwords, releases  *)
(* and number of jobs.                                                     *)
(*                                                                         *)
(* The job the worker runs stays in the outbox until the run has settled   *)
(* the document, so that whatever becomes stale while a tool runs, the row *)
(* it writes to has been read, waits for a password, or still has a job.   *)
(***************************************************************************)
EXTENDS PostIngest, FiniteSetTheorems, TLAPS

(* The inductive invariant.                                                *)

DocOk(r) ==
  /\ r = [x \in DOMAIN Blank |-> r[x]] /\ r.ver \in [Kinds -> Nat]
  /\ r.st \in {"none", "live", "trashed", "gone"}
  /\ r.st # "none" => r.bytes \in DOMAIN File
  /\ r.st = "gone" => r.parent = None
JobOk(j) == DOMAIN j = DOMAIN NoJob /\ j.doc \in Ids /\ docs[j.doc].st # "none"
ProposalsOk(ps) ==
  /\ ps \in Seq(Range(ps))
  /\ \A i \in DOMAIN ps : DOMAIN ps[i] = {"kind", "ver", "choice", "run"}

Typed ==
  /\ docs = [d \in Ids |-> docs[d]] /\ \A d \in Ids : DocOk(docs[d])
  /\ \A j \in jobs : JobOk(j)
  /\ DOMAIN work = DOMAIN Idle /\ work.part \in Nat
  /\ DOMAIN rel = {"now", "rec", "may"} /\ rel.now \in Nat \ {0}
  /\ \A next \in rel.may : next.now \in Nat
  /\ ProposalsOk(proposals)

(* No document falls out of the pipeline, in the trash or out of it.       *)
ReadOnce(d) == docs[d].ver["content"] > 0
HasJob(d) == \E j \in jobs : j.doc = d
KeptInSight == \A d \in Ids : Row(d) => ReadOnce(d) \/ docs[d].enc = "encrypted" \/ HasJob(d)

(* What the run under way can rely on.                                     *)
Found(b) == b \in lost \/ \E e \in Ids : Row(e) /\ docs[e].bytes = b
FiledUpTo(n) == \A i \in DOMAIN Parts : i < n => Found(Parts[i])

Holding == JobOk(work.job) /\ work.job.doc = work.doc /\ (Row(work.doc) => work.job \in jobs)
Progress ==
  /\ Row(work.doc) /\ work.at \in {"invoice", "after", "fan"} => ReadOnce(work.doc)
  /\ work.at \notin {"duplicate", "drop"} => work.other = None
  /\ work.at = "duplicate" => work.other \in Ids \ {work.doc}
  /\ work.at = "fan" => work.part # 0 /\ (Row(work.doc) => FiledUpTo(work.part))
  /\ work.at = "drop" =>
       IF work.other # None
       THEN /\ work.other \in Ids \ {work.doc} /\ docs[work.other].st # "none"
            /\ Row(work.other) \/ docs[work.other].bytes \in lost
       ELSE Row(work.doc) => \A i \in DOMAIN Parts : Found(Parts[i])
WorkSound == Running => Holding /\ Progress

(* One question of each kind at a time.                                    *)
OneOpen ==
  \A i, j \in DOMAIN proposals :
    Open(proposals[i]) /\ Open(proposals[j]) /\ proposals[i].kind = proposals[j].kind => i = j

IInv == Typed /\ KeptInSight /\ WorkSound /\ OneOpen

(* Unlock requests, which the rest does not disturb.                       *)
CallsOk ==
  \A c \in calls :
    DOMAIN c = {"todo", "pw", "who", "batch", "remember", "opened"} /\ c.todo \in Seq(Ids)

-----------------------------------------------------------------------------
(* Rows.                                                                   *)

LEMMA RecordsAre ==
  /\ DOMAIN NoJob = {"n", "doc", "files", "tries", "st"}
  /\ DOMAIN Idle = {"at", "job", "doc", "seen", "tried", "pre", "part", "made", "other"}
  /\ DOMAIN Blank = {"st", "bytes", "owner", "enc", "plain", "text", "asn", "newer", "parent", "mid",
                     "hooked", "invoice", "ver"}
  /\ Idle.at = "idle" /\ Idle.other = None /\ Idle.part = 0
  BY DEF NoJob, Idle, Blank

(* Rows keep their bytes, what was read stays read, and what is gone stays *)
(* as it was.                                                              *)
Later ==
  /\ docs' = [d \in Ids |-> docs'[d]]
  /\ \A d \in Ids :
       /\ DocOk(docs'[d])
       /\ docs[d].st # "none" =>
            /\ docs'[d].st # "none" /\ docs'[d].bytes = docs[d].bytes
            /\ docs[d].ver["content"] > 0 => docs'[d].ver["content"] > 0
       /\ docs[d].st = "gone" => docs'[d] = docs[d]
Alike(d) == docs'[d].st = docs[d].st /\ docs'[d].enc = docs[d].enc /\ docs'[d].ver = docs[d].ver

LEMMA SameDocs ==
  ASSUME Typed, docs' = docs
  PROVE  Later /\ \A d \in Ids : Alike(d)
  BY DEF Typed, Later, Alike

LEMMA RowChanged ==
  ASSUME Typed, NEW d \in Ids, Row(d), NEW r, docs' = [docs EXCEPT ![d] = r],
         DocOk(r), r.st # "none", r.bytes = docs[d].bytes,
         docs[d].ver["content"] > 0 => r.ver["content"] > 0
  PROVE  Later /\ docs'[d] = r /\ \A e \in Ids : e # d => docs'[e] = docs[e] /\ Alike(e)
  <1>1. docs'[d] = r /\ (\A e \in Ids : e # d => docs'[e] = docs[e])
        /\ docs' = [e \in Ids |-> docs'[e]]
    BY DEF Typed
  <1>2. docs[d].st # "gone"
    BY DEF Row
  <1>3. QED
    BY <1>1, <1>2 DEF Later, Alike, Typed

(* A row added under a number that was free.                               *)
LEMMA FreeIdIs ==
  ASSUME HasRoom(1)
  PROVE  FreeId \in Ids /\ docs[FreeId].st = "none"
  <1>1. {d \in Ids : docs[d].st = "none"} # {}
    BY FS_EmptySet DEF HasRoom
  <1>2. QED
    BY <1>1 DEF FreeId

LEMMA RowAdded ==
  ASSUME Typed, HasRoom(1), NEW r, docs' = [docs EXCEPT ![FreeId] = r], DocOk(r), r.st = "live"
  PROVE  /\ Later /\ FreeId \in Ids /\ docs[FreeId].st = "none" /\ docs'[FreeId] = r
         /\ \A e \in Ids : e # FreeId => docs'[e] = docs[e] /\ Alike(e)
  <1>1. PICK d \in Ids : d = FreeId /\ docs[d].st = "none"
    BY FreeIdIs
  <1>2. /\ docs'[d] = r /\ (\A e \in Ids : e # d => docs'[e] = docs[e])
        /\ docs' = [e \in Ids |-> docs'[e]]
    BY <1>1 DEF Typed
  <1>3. QED
    BY <1>1, <1>2 DEF Later, Alike, Typed

LEMMA RowDeleted ==
  ASSUME Typed, NEW d \in Ids, docs[d].st # "none", docs' = Deleted(docs, d)
  PROVE  Later /\ docs'[d].st = "gone" /\ \A e \in Ids : e # d => Alike(e)
  <1> DEFINE gone == [docs[d] EXCEPT !.st = "gone", !.parent = None]
             Orphan(e) == [docs[e] EXCEPT !.parent = None]
  <1>1. /\ docs'[d] = gone /\ docs' = [e \in Ids |-> docs'[e]]
        /\ \A e \in Ids : e # d => docs'[e] = IF docs[e].parent = d THEN Orphan(e) ELSE docs[e]
    BY DEF Deleted
  <1>2. \A e \in Ids : DocOk(docs[e])
    BY DEF Typed
  <1>3. DocOk(gone) /\ gone.st = "gone" /\ gone.bytes = docs[d].bytes /\ gone.ver = docs[d].ver
    <2>1. docs[d] = [x \in DOMAIN Blank |-> docs[d][x]]
      BY <1>2 DEF DocOk
    <2>2. /\ gone.st = "gone" /\ gone.bytes = docs[d].bytes /\ gone.ver = docs[d].ver
          /\ gone.parent = None /\ gone = [x \in DOMAIN Blank |-> gone[x]]
      BY <2>1, RecordsAre
    <2> HIDE DEF gone
    <2>3. QED
      BY <1>2, <2>2 DEF DocOk
  <1>4. ASSUME NEW e \in Ids
        PROVE  /\ DocOk(Orphan(e)) /\ Orphan(e).st = docs[e].st /\ Orphan(e).bytes = docs[e].bytes
               /\ Orphan(e).enc = docs[e].enc /\ Orphan(e).ver = docs[e].ver
    BY <1>2, RecordsAre DEF DocOk
  <1>5. docs[d].st = "gone" => gone = docs[d]
    <2>1. ASSUME docs[d].st = "gone" PROVE gone = docs[d]
      <3>1. docs[d].parent = None /\ docs[d] = [x \in DOMAIN Blank |-> docs[d][x]]
        BY <1>2, <2>1 DEF DocOk
      <3>2. QED
        BY <2>1, <3>1, RecordsAre
    <2>2. QED
      BY <2>1
  <1> HIDE DEF gone, Orphan
  <1>6. \A e \in Ids : docs[e].st = "gone" /\ docs[e].parent = d => FALSE
    BY <1>2, PostIngestAssumption DEF DocOk
  <1>7. ASSUME NEW e \in Ids, e # d
        PROVE  /\ DocOk(docs'[e]) /\ docs'[e].bytes = docs[e].bytes /\ Alike(e)
               /\ docs[e].st = "gone" => docs'[e] = docs[e]
    BY <1>1, <1>2, <1>4, <1>6, <1>7 DEF Alike
  <1>8. QED
    BY <1>1, <1>3, <1>5, <1>7 DEF Later, Alike

-----------------------------------------------------------------------------
(* Jobs.                                                                   *)

LEMMA LiveOn ==
  ASSUME Typed, Later, NEW d \in Ids, docs[d].st # "none"
  PROVE  /\ Row(d)' => Row(d)
         /\ ReadOnce(d) => ReadOnce(d)'
         /\ docs'[d].st # "none"
  BY DEF Later, Row, ReadOnce, Typed, DocOk

LEMMA JobsStayOk ==
  ASSUME Typed, Later, NEW j, JobOk(j)
  PROVE  JobOk(j)'
  BY DEF Later, JobOk

(* Documents stay found.                                                   *)
Stays == lost \subseteq lost' /\ \A e \in Ids : Row(e) => Row(e)' \/ docs[e].bytes \in lost'

LEMMA FoundOn ==
  ASSUME Later, Stays, NEW b, Found(b)
  PROVE  Found(b)'
  <1>1. CASE b \in lost
    BY <1>1 DEF Stays, Found
  <1>2. CASE \E e \in Ids : Row(e) /\ docs[e].bytes = b
    <2>1. PICK e \in Ids : Row(e) /\ docs[e].bytes = b
      BY <1>2
    <2>2. docs'[e].bytes = b
      BY <2>1 DEF Later, Row
    <2>3. QED
      BY <2>1, <2>2 DEF Stays, Found
  <1>3. QED
    BY <1>1, <1>2 DEF Found

LEMMA SightStays ==
  ASSUME IInv, Later,
         \A d \in Ids : Row(d)' =>
           \/ docs'[d].enc = "encrypted" \/ HasJob(d)'
           \/ Row(d) /\ docs'[d].enc = docs[d].enc /\ (HasJob(d) => HasJob(d)')
  PROVE  KeptInSight'
  <1> SUFFICES ASSUME NEW d \in Ids, Row(d)'
               PROVE  ReadOnce(d)' \/ docs'[d].enc = "encrypted" \/ HasJob(d)'
    BY DEF KeptInSight
  <1>1. CASE Row(d) /\ docs'[d].enc = docs[d].enc /\ (HasJob(d) => HasJob(d)')
    <2>1. ReadOnce(d) \/ docs[d].enc = "encrypted" \/ HasJob(d)
      BY <1>1 DEF IInv, KeptInSight
    <2>2. ReadOnce(d) => ReadOnce(d)'
      BY <1>1, LiveOn DEF IInv, Row
    <2>3. QED
      BY <1>1, <2>1, <2>2
  <1>2. QED
    BY <1>1

LEMMA TypedOn ==
  ASSUME IInv, Later, \A j \in jobs' : j \in jobs \/ JobOk(j)', UNCHANGED <<rel, proposals>>,
         DOMAIN work' = DOMAIN Idle, work'.part \in Nat
  PROVE  Typed' /\ OneOpen'
  <1>1. \A j \in jobs' : JobOk(j)'
    BY JobsStayOk DEF IInv, Typed
  <1>2. OneOpen'
    BY DEF IInv, OneOpen
  <1>3. QED
    BY <1>1, <1>2 DEF IInv, Typed, Later

-----------------------------------------------------------------------------
(* The worker goes on to its next step, writing at most to its own row.    *)

OnRow ==
  /\ Later /\ UNCHANGED <<jobs, rel, proposals>> /\ lost \subseteq lost'
  /\ \A d \in Ids : d # work.doc => Alike(d)
  /\ Row(work.doc) => Row(work.doc)'
  /\ DOMAIN work' = DOMAIN Idle /\ work'.part \in Nat
  /\ work'.doc = work.doc /\ work'.job = work.job

LEMMA RunsOn ==
  ASSUME IInv, Running
  PROVE  /\ work.doc \in Ids /\ docs[work.doc].st # "none" /\ Holding /\ Progress
         /\ Typed /\ DOMAIN work = DOMAIN Idle /\ DocOk(docs[work.doc])
         /\ Row(work.doc) => HasJob(work.doc)
  <1>1. Holding /\ Progress /\ Typed
    BY DEF IInv, WorkSound
  <1>2. work.doc \in Ids /\ docs[work.doc].st # "none"
    BY <1>1 DEF Holding, JobOk
  <1>3. QED
    BY <1>1, <1>2 DEF Holding, HasJob, Typed

LEMMA GoesOn ==
  ASSUME IInv, Running, OnRow, Progress'
  PROVE  IInv'
  <1>1. work.doc \in Ids /\ docs[work.doc].st # "none" /\ Holding /\ Typed
    BY RunsOn
  <1>2. Typed' /\ OneOpen'
    BY TypedOn DEF OnRow
  <1>3. Row(work.doc)' => HasJob(work.doc)'
    <2>1. Row(work.doc)' => Row(work.doc)
      BY <1>1, LiveOn DEF OnRow, Row
    <2>2. QED
      BY <2>1, RunsOn DEF OnRow, HasJob, Row
  <1>4. KeptInSight'
    <2>1. ASSUME NEW d \in Ids, d # work.doc, Row(d)'
          PROVE  Row(d) /\ docs'[d].enc = docs[d].enc /\ (HasJob(d) => HasJob(d)')
      BY <2>1 DEF OnRow, Alike, Row, HasJob
    <2>2. Row(work.doc)' => \E j \in jobs' : j.doc = work.doc
      BY <1>3 DEF OnRow, HasJob
    <2>3. QED
      BY <2>1, <2>2, SightStays DEF OnRow, HasJob
  <1>5. Holding'
    <2>1. JobOk(work.job)'
      BY <1>1 DEF Holding, OnRow, JobOk, Later
    <2>2. Row(work.doc)' => Row(work.doc)
      BY <1>1, LiveOn DEF OnRow, Row
    <2>3. QED
      BY <1>1, <2>1, <2>2 DEF Holding, OnRow, Row
  <1>6. QED
    BY <1>2, <1>4, <1>5 DEF IInv, WorkSound

LEMMA GoesElsewhere ==
  ASSUME IInv, Running, OnRow, work'.other = None,
         work'.at \notin {"invoice", "after", "fan", "duplicate", "drop"}
  PROVE  IInv'
  BY GoesOn DEF Progress

(* The run ends.                                                           *)
LEMMA Settles ==
  ASSUME IInv, Running, Later, UNCHANGED <<rel, proposals>>, NEW st, Settle(st),
         \A d \in Ids : d # work.doc => Alike(d),
         st = "done" => docs'[work.doc].st = "gone" \/ docs'[work.doc].ver["content"] > 0
                          \/ docs'[work.doc].enc = "encrypted"
  PROVE  IInv'
  <1> DEFINE back == [work.job EXCEPT !.tries = @ - 1, !.st = st]
  <1>1. work.doc \in Ids /\ docs[work.doc].st # "none" /\ Holding /\ Typed
    BY RunsOn
  <1>2. /\ jobs' = (jobs \ {work.job}) \cup (IF work.job \in jobs /\ st # "done" THEN {back} ELSE {})
        /\ work' = Idle
    BY DEF Settle
  <1>3. back.doc = work.doc /\ JobOk(back)
    BY <1>1, RecordsAre DEF Holding, JobOk
  <1> HIDE DEF back
  <1>4. Typed' /\ OneOpen'
    <2>1. \A j \in jobs' : j \in jobs \/ JobOk(j)'
      BY <1>1, <1>2, <1>3, JobsStayOk
    <2>2. QED
      BY <1>2, <2>1, TypedOn, RecordsAre
  <1>5. KeptInSight'
    <2>1. ASSUME NEW d \in Ids, d # work.doc, Row(d)'
          PROVE  Row(d) /\ docs'[d].enc = docs[d].enc /\ (HasJob(d) => HasJob(d)')
      <3>1. Row(d) /\ docs'[d].enc = docs[d].enc
        BY <2>1 DEF Alike, Row
      <3>2. ASSUME NEW j \in jobs, j.doc = d PROVE j \in jobs'
        BY <1>1, <1>2, <2>1, <3>2 DEF Holding
      <3>3. QED
        BY <3>1, <3>2 DEF HasJob
    <2>2. ASSUME NEW d \in Ids, d = work.doc, Row(d)', st # "done" PROVE HasJob(d)'
      <3>1. Row(d)
        BY <1>1, <2>2, LiveOn
      <3>2. back \in jobs'
        BY <1>1, <1>2, <2>2, <3>1 DEF Holding
      <3>3. QED
        BY <1>3, <2>2, <3>2 DEF HasJob
    <2>3. CASE st # "done"
      BY <2>1, <2>2, <2>3, SightStays
    <2>4. CASE st = "done"
      <3> SUFFICES ASSUME NEW d \in Ids, Row(d)'
                   PROVE  ReadOnce(d)' \/ docs'[d].enc = "encrypted" \/ HasJob(d)'
        BY DEF KeptInSight
      <3>1. CASE d = work.doc
        BY <2>4, <3>1 DEF ReadOnce, Row
      <3>2. CASE d # work.doc
        <4>1. Row(d) /\ docs'[d].enc = docs[d].enc /\ (HasJob(d) => HasJob(d)') /\ docs'[d].ver = docs[d].ver
          BY <2>1, <3>2 DEF Alike
        <4>2. QED
          BY <4>1 DEF IInv, KeptInSight, ReadOnce
      <3>3. QED
        BY <3>1, <3>2
    <2>5. QED
      BY <2>3, <2>4
  <1>6. WorkSound'
    BY <1>2, RecordsAre DEF WorkSound, Running
  <1>7. QED
    BY <1>4, <1>5, <1>6 DEF IInv

LEMMA Retries ==
  ASSUME IInv, Running, Retry \/ GiveUp, UNCHANGED <<docs, rel, proposals>>
  PROVE  IInv'
  <1>1. PICK st \in {"dead", "pending"} : Settle(st)
    BY DEF Retry, GiveUp
  <1>2. QED
    BY <1>1, SameDocs, Settles DEF IInv

(* Steps that write no row.                                                *)
LEMMA Unwritten ==
  ASSUME IInv, Running, UNCHANGED <<docs, jobs, rel, proposals>>, lost \subseteq lost',
         DOMAIN work' = DOMAIN Idle, work'.part \in Nat, work'.doc = work.doc, work'.job = work.job
  PROVE  OnRow
  BY SameDocs DEF OnRow, IInv, Row

-----------------------------------------------------------------------------
(* The steps of Handle.                                                    *)

LEMMA BeginKeeps ==
  ASSUME IInv, NEW j \in jobs, Begin(j)
  PROVE  IInv'
  <1> DEFINE mine == [j EXCEPT !.st = "running"]
  <1>1. /\ UNCHANGED <<docs, rel, proposals>> /\ jobs' = (jobs \ {j}) \cup {mine}
        /\ \E at \in {"preflight", "load"} :
             work' = [Idle EXCEPT !.at = at, !.job = mine, !.doc = j.doc]
    BY DEF Begin, rescans
  <1>2. JobOk(j) /\ Typed
    BY DEF IInv, Typed
  <1>3. mine.doc = j.doc /\ JobOk(mine)
    BY <1>2, RecordsAre DEF JobOk
  <1> HIDE DEF mine
  <1>4. /\ work'.at \in {"preflight", "load"} /\ work'.job = mine /\ work'.doc = j.doc
        /\ work'.other = None /\ work'.part = 0 /\ DOMAIN work' = DOMAIN Idle
    BY <1>1, RecordsAre
  <1>5. Later
    BY <1>1, <1>2, SameDocs
  <1>6. Typed' /\ OneOpen'
    <2>1. \A k \in jobs' : k \in jobs \/ JobOk(k)'
      BY <1>1, <1>2, <1>3, <1>5, JobsStayOk
    <2>2. QED
      BY <1>1, <1>4, <1>5, <2>1, TypedOn
  <1>7. KeptInSight'
    <2>1. ASSUME NEW d \in Ids, HasJob(d) PROVE HasJob(d)'
      <3>1. PICK k \in jobs : k.doc = d
        BY <2>1 DEF HasJob
      <3>2. CASE k = j
        BY <1>1, <1>3, <3>1, <3>2 DEF HasJob
      <3>3. CASE k # j
        BY <1>1, <3>1, <3>3 DEF HasJob
      <3>4. QED
        BY <3>2, <3>3
    <2>2. QED
      BY <1>1, <2>1 DEF IInv, KeptInSight, Row, ReadOnce
  <1>8. WorkSound'
    <2>1. Holding'
      BY <1>1, <1>3, <1>4 DEF Holding, JobOk
    <2>2. Progress'
      BY <1>4 DEF Progress
    <2>3. QED
      BY <2>1, <2>2 DEF WorkSound
  <1>9. QED
    BY <1>6, <1>7, <1>8 DEF IInv

(* From a step before the text is stored to another.                       *)
LEMMA Onward ==
  ASSUME IInv, UNCHANGED <<docs, jobs, rel, proposals, lost>>,
         work.at \notin {"idle", "duplicate", "drop"}, DOMAIN work' = DOMAIN Idle,
         work'.doc = work.doc, work'.job = work.job, work'.part = work.part, work'.other = work.other,
         work'.at \notin {"invoice", "after", "fan", "duplicate", "drop"}
  PROVE  IInv'
  <1>1. Running
    BY DEF Running
  <1>2. work.other = None /\ work.part \in Nat
    BY <1>1, RunsOn DEF Progress, Typed
  <1>3. OnRow
    BY <1>1, <1>2, Unwritten
  <1>4. QED
    BY <1>1, <1>2, <1>3, GoesElsewhere

LEMMA PreflightKeeps ==
  ASSUME IInv, Preflight
  PROVE  IInv'
  <1>1. work.at = "preflight" /\ Running /\ UNCHANGED <<docs, rel, proposals, lost>>
    BY DEF Preflight, At, Running, rescans
  <1>2. CASE Retry
    BY <1>1, <1>2, Retries
  <1>3. CASE ~Retry
    <2>1. /\ UNCHANGED jobs
          /\ \E at \in {"scan", "load"} : \E c : work' = [work EXCEPT !.tried = c, !.at = at]
      BY <1>3 DEF Preflight
    <2>2. DOMAIN work = DOMAIN Idle
      BY DEF IInv, Typed
    <2>3. /\ DOMAIN work' = DOMAIN Idle /\ work'.at \in {"scan", "load"} /\ work'.doc = work.doc
          /\ work'.job = work.job /\ work'.part = work.part /\ work'.other = work.other
      BY <2>1, <2>2, RecordsAre
    <2>4. QED
      BY <1>1, <2>1, <2>3, Onward
  <1>4. QED
    BY <1>2, <1>3

LEMMA LoadKeeps ==
  ASSUME IInv, LoadDoc
  PROVE  IInv'
  <1>1. work.at = "load" /\ Running /\ UNCHANGED <<docs, rel, proposals, lost>>
    BY DEF LoadDoc, At, Running, rescans
  <1>2. CASE Retry
    BY <1>1, <1>2, Retries
  <1>3. CASE ~Retry
    <2>1. /\ UNCHANGED jobs
          /\ \E at \in {"hook", "route"} : \E c : work' = [work EXCEPT !.seen = c, !.at = at]
      BY <1>3 DEF LoadDoc
    <2>2. DOMAIN work = DOMAIN Idle
      BY DEF IInv, Typed
    <2>3. /\ DOMAIN work' = DOMAIN Idle /\ work'.at \in {"hook", "route"} /\ work'.doc = work.doc
          /\ work'.job = work.job /\ work'.part = work.part /\ work'.other = work.other
      BY <2>1, <2>2, RecordsAre
    <2>4. QED
      BY <1>1, <2>1, <2>3, Onward
  <1>4. QED
    BY <1>2, <1>3

LEMMA RouteKeeps ==
  ASSUME IInv, Route \/ GatherCandidates
  PROVE  IInv'
  <1>1. /\ work.at \in {"route", "gather"} /\ UNCHANGED <<docs, jobs, rel, proposals, lost>>
        /\ \E at \in {"mail", "text", "gather", "open"} : \E c :
             work' = [work EXCEPT !.at = at] \/ work' = [work EXCEPT !.at = at, !.tried = c]
    BY DEF Route, GatherCandidates, At, Goto, convertMSG, rescans
  <1>2. DOMAIN work = DOMAIN Idle
    BY DEF IInv, Typed
  <1>3. /\ DOMAIN work' = DOMAIN Idle /\ work'.at \in {"mail", "text", "gather", "open"}
        /\ work'.doc = work.doc /\ work'.job = work.job
        /\ work'.part = work.part /\ work'.other = work.other
    BY <1>1, <1>2, RecordsAre
  <1>4. QED
    BY <1>1, <1>3, Onward

(* The worker writes to its row.                                           *)
Rewrites(q, r) ==
  /\ DocOk(q) /\ q.st = r.st /\ q.bytes = r.bytes
  /\ r.ver["content"] > 0 => q.ver["content"] > 0

LEMMA RowWritten ==
  ASSUME IInv, Running, NEW r, Rewrites(r, docs[work.doc]),
         IF Row(work.doc) THEN docs' = [docs EXCEPT ![work.doc] = r] ELSE docs' = docs
  PROVE  /\ Later /\ (\A d \in Ids : d # work.doc => Alike(d)) /\ docs'[work.doc].st = docs[work.doc].st
         /\ IF Row(work.doc) THEN docs'[work.doc] = r ELSE docs[work.doc].st = "gone" /\ docs' = docs
  <1>1. work.doc \in Ids /\ docs[work.doc].st # "none" /\ Typed /\ DocOk(docs[work.doc])
    BY RunsOn
  <1>2. CASE Row(work.doc)
    BY <1>1, <1>2, RowChanged DEF Rewrites
  <1>3. CASE ~Row(work.doc)
    BY <1>1, <1>3, SameDocs DEF Row, DocOk
  <1>4. QED
    BY <1>2, <1>3

LEMMA WritesOn ==
  ASSUME IInv, Running, NEW r, Rewrites(r, docs[work.doc]),
         IF Row(work.doc) THEN docs' = [docs EXCEPT ![work.doc] = r] ELSE docs' = docs,
         UNCHANGED <<jobs, rel, proposals, lost>>, DOMAIN work' = DOMAIN Idle,
         work'.doc = work.doc, work'.job = work.job, work'.part \in Nat
  PROVE  OnRow
  <1>1. /\ Later /\ (\A d \in Ids : d # work.doc => Alike(d))
        /\ docs'[work.doc].st = docs[work.doc].st
    BY RowWritten
  <1>2. QED
    BY <1>1 DEF OnRow, Row

LEMMA MarkedKeeps ==
  ASSUME IInv, Running, markEncrypted(work.doc), Finish, UNCHANGED <<rel, proposals>>
  PROVE  IInv'
  <1> DEFINE r == [docs[work.doc] EXCEPT !.enc = "encrypted"]
  <1>1. DocOk(docs[work.doc]) /\ work.doc \in Ids /\ Typed
    BY RunsOn
  <1>2. Rewrites(r, docs[work.doc]) /\ r.enc = "encrypted"
    BY <1>1, RecordsAre DEF Rewrites, DocOk
  <1>3. IF Row(work.doc) THEN docs' = [docs EXCEPT ![work.doc] = r] ELSE docs' = docs
    BY <1>1 DEF markEncrypted, Typed
  <1> HIDE DEF r
  <1>4. /\ Later /\ (\A d \in Ids : d # work.doc => Alike(d))
        /\ docs'[work.doc].st = "gone" \/ docs'[work.doc].enc = "encrypted"
    BY <1>2, <1>3, RowWritten
  <1>5. QED
    BY <1>4, Settles DEF Finish

LEMMA CommitPreflightKeeps ==
  ASSUME IInv, CommitPreflight
  PROVE  IInv'
  <1> DEFINE d == work.doc
             open == [docs[d] EXCEPT !.enc = IF Kind(d).pw # None THEN "decrypted" ELSE @,
                                     !.plain = @ \/ Kind(d).pw # None]
             numbered == [open EXCEPT !.asn = Kind(d).scan]
  <1>1. work.at = "scan" /\ Running /\ UNCHANGED <<rel, proposals, lost>>
    BY DEF CommitPreflight, At, Running, rescans
  <1>2. \/ markEncrypted(d) /\ Finish
        \/ UNCHANGED docs /\ (Retry \/ GiveUp)
        \/ /\ Live(d) /\ UNCHANGED jobs /\ work' = [work EXCEPT !.at = "load", !.pre = TRUE]
           /\ \E r \in {open, numbered} : docs' = [docs EXCEPT ![d] = r]
    BY DEF CommitPreflight
  <1>3. d \in Ids /\ DocOk(docs[d]) /\ DOMAIN work = DOMAIN Idle /\ Typed /\ Progress
    BY <1>1, RunsOn
  <1>4. Rewrites(open, docs[d])
    <2>1. docs[d] = [x \in DOMAIN Blank |-> docs[d][x]]
      BY <1>3 DEF DocOk
    <2>2. /\ open.st = docs[d].st /\ open.bytes = docs[d].bytes /\ open.ver = docs[d].ver
          /\ open.parent = docs[d].parent /\ open = [x \in DOMAIN Blank |-> open[x]]
      BY <2>1, RecordsAre
    <2> HIDE DEF open, d
    <2>3. QED
      BY <1>3, <2>2 DEF DocOk, Rewrites
  <1> HIDE DEF open
  <1>5. Rewrites(numbered, docs[d])
    BY <1>4, RecordsAre DEF DocOk, Rewrites
  <1> HIDE DEF numbered, d
  <1>6. CASE markEncrypted(d) /\ Finish
    BY <1>1, <1>6, MarkedKeeps DEF d
  <1>7. CASE UNCHANGED docs /\ (Retry \/ GiveUp)
    BY <1>1, <1>7, Retries
  <1>8. CASE /\ Live(d) /\ UNCHANGED jobs /\ work' = [work EXCEPT !.at = "load", !.pre = TRUE]
             /\ \E r \in {open, numbered} : docs' = [docs EXCEPT ![d] = r]
    <2>1. PICK r \in {open, numbered} : docs' = [docs EXCEPT ![d] = r]
      BY <1>8
    <2>2. /\ DOMAIN work' = DOMAIN Idle /\ work'.at = "load" /\ work'.doc = work.doc
          /\ work'.job = work.job /\ work'.part = work.part /\ work'.other = work.other
      BY <1>3, <1>8, RecordsAre
    <2>3. Row(work.doc) /\ Rewrites(r, docs[work.doc])
      BY <1>4, <1>5, <1>8 DEF Live, Row, d
    <2>4. work.part \in Nat /\ work.other = None
      BY <1>1, <1>3 DEF Typed, Progress
    <2>5. OnRow
      BY <1>1, <1>8, <2>1, <2>2, <2>3, <2>4, WritesOn DEF d
    <2>6. QED
      BY <1>1, <2>2, <2>4, <2>5, GoesElsewhere
  <1>9. QED
    BY <1>2, <1>6, <1>7, <1>8

(* Fields of the row the pipeline does not ask about again.                *)
LEMMA FieldWritten ==
  ASSUME IInv, Running, NEW f \in {"hooked", "invoice"},
         docs' = docs \/ (Row(work.doc) /\ docs' = [docs EXCEPT ![work.doc][f] = TRUE]),
         UNCHANGED <<jobs, rel, proposals, lost>>, DOMAIN work' = DOMAIN Idle,
         work'.doc = work.doc, work'.job = work.job, work'.part \in Nat
  PROVE  OnRow
  <1> DEFINE r == [docs[work.doc] EXCEPT ![f] = TRUE]
  <1>1. DocOk(docs[work.doc]) /\ work.doc \in Ids /\ Typed
    BY RunsOn
  <1>2. Rewrites(r, docs[work.doc])
    BY <1>1, RecordsAre DEF Rewrites, DocOk
  <1>3. CASE docs' = docs
    BY <1>3, Unwritten
  <1>4. CASE Row(work.doc) /\ docs' = [docs EXCEPT ![work.doc][f] = TRUE]
    <2>1. docs' = [docs EXCEPT ![work.doc] = r]
      BY <1>1, <1>4 DEF Typed
    <2> HIDE DEF r
    <2>2. QED
      BY <1>2, <1>4, <2>1, WritesOn
  <1>5. QED
    BY <1>3, <1>4

LEMMA PreConsumeKeeps ==
  ASSUME IInv, NEW rewritten \in BOOLEAN, NEW kept \in BOOLEAN, PreConsume(rewritten, kept)
  PROVE  IInv'
  <1>1. /\ work.at = "hook" /\ Running /\ UNCHANGED <<jobs, rel, proposals, lost>>
        /\ docs' = docs \/ (Row(work.doc) /\ docs' = [docs EXCEPT ![work.doc]["hooked"] = TRUE])
        /\ work' = [work EXCEPT !.at = "route", !.pre = @ /\ ~rewritten]
    BY DEF PreConsume, At, Running, rescans
  <1>2. DOMAIN work = DOMAIN Idle /\ work.part \in Nat /\ work.other = None
    BY <1>1, RunsOn DEF Typed, Progress
  <1>3. /\ DOMAIN work' = DOMAIN Idle /\ work'.at = "route" /\ work'.doc = work.doc
        /\ work'.job = work.job /\ work'.part = work.part /\ work'.other = work.other
    BY <1>1, <1>2, RecordsAre
  <1>4. QED
    BY <1>1, <1>2, <1>3, FieldWritten, GoesElsewhere

LEMMA OpenKeeps ==
  ASSUME IInv, NEW recorded \in BOOLEAN, OpenPDF(recorded)
  PROVE  IInv'
  <1> DEFINE r == [docs[work.doc] EXCEPT !.enc = "decrypted", !.plain = TRUE]
  <1>1. work.at = "open" /\ Running /\ UNCHANGED <<rel, proposals, lost>>
    BY DEF OpenPDF, At, Running, rescans
  <1>2. DocOk(docs[work.doc]) /\ work.doc \in Ids /\ Typed /\ DOMAIN work = DOMAIN Idle /\ Progress
    BY <1>1, RunsOn
  <1>3. \/ markEncrypted(work.doc) /\ Finish
        \/ /\ work' = [work EXCEPT !.at = "text"] /\ UNCHANGED jobs
           /\ docs' = docs \/ (Row(work.doc) /\ docs' = [docs EXCEPT ![work.doc] = r])
    BY <1>2 DEF OpenPDF, Goto, Typed
  <1>4. Rewrites(r, docs[work.doc])
    <2>1. docs[work.doc] = [x \in DOMAIN Blank |-> docs[work.doc][x]]
      BY <1>2 DEF DocOk
    <2>2. /\ r.st = docs[work.doc].st /\ r.bytes = docs[work.doc].bytes /\ r.ver = docs[work.doc].ver
          /\ r.parent = docs[work.doc].parent /\ r = [x \in DOMAIN Blank |-> r[x]]
      BY <2>1, RecordsAre
    <2> HIDE DEF r
    <2>3. QED
      BY <1>2, <2>2 DEF DocOk, Rewrites
  <1> HIDE DEF r
  <1>5. CASE markEncrypted(work.doc) /\ Finish
    BY <1>1, <1>5, MarkedKeeps
  <1>6. CASE /\ work' = [work EXCEPT !.at = "text"] /\ UNCHANGED jobs
             /\ docs' = docs \/ (Row(work.doc) /\ docs' = [docs EXCEPT ![work.doc] = r])
    <2>1. /\ DOMAIN work' = DOMAIN Idle /\ work'.at = "text" /\ work'.doc = work.doc
          /\ work'.job = work.job /\ work'.part = work.part /\ work'.other = work.other
      BY <1>2, <1>6, RecordsAre
    <2>2. work.part \in Nat /\ work.other = None
      BY <1>1, <1>2 DEF Typed, Progress
    <2>3. CASE docs' = docs
      BY <1>1, <1>6, <2>1, <2>2, <2>3, Unwritten, GoesElsewhere
    <2>4. CASE Row(work.doc) /\ docs' = [docs EXCEPT ![work.doc] = r]
      BY <1>1, <1>4, <1>6, <2>1, <2>2, <2>4, WritesOn, GoesElsewhere
    <2>5. QED
      BY <1>6, <2>3, <2>4
  <1>7. QED
    BY <1>3, <1>5, <1>6

(* updateDocWithSource: the row has been read.                             *)
LEMMA TextWritten ==
  ASSUME IInv, Running, NEW r, r = [x \in DOMAIN Blank |-> r[x]], r.st = docs[work.doc].st,
         r.bytes = docs[work.doc].bytes, r.parent = docs[work.doc].parent,
         r.ver = [docs[work.doc].ver EXCEPT !["content"] = rel.now],
         IF Row(work.doc) THEN docs' = [docs EXCEPT ![work.doc] = r] ELSE docs' = docs,
         UNCHANGED <<jobs, rel, proposals, lost>>, DOMAIN work' = DOMAIN Idle,
         work'.doc = work.doc, work'.job = work.job, work'.part \in Nat
  PROVE  OnRow /\ (Row(work.doc)' => ReadOnce(work.doc)')
  <1>1. work.doc \in Ids /\ DocOk(docs[work.doc]) /\ Typed /\ docs[work.doc].st # "none"
    BY RunsOn
  <1>2. rel.now \in Nat /\ rel.now > 0
    BY <1>1 DEF Typed
  <1>3. docs[work.doc].ver \in [Kinds -> Nat]
    BY <1>1 DEF DocOk
  <1>4. r.ver \in [Kinds -> Nat] /\ r.ver["content"] = rel.now
    BY <1>2, <1>3, PostIngestAssumption
  <1>5. Rewrites(r, docs[work.doc])
    BY <1>1, <1>2, <1>4 DEF DocOk, Rewrites
  <1>6. OnRow
    BY <1>5, WritesOn
  <1>7. Row(work.doc)' => Row(work.doc)
    BY <1>1, <1>6, LiveOn DEF OnRow, Row
  <1>8. Row(work.doc) => docs'[work.doc] = r
    BY <1>5, RowWritten
  <1>9. QED
    BY <1>2, <1>4, <1>6, <1>7, <1>8 DEF ReadOnce, OnRow

LEMMA TextStored ==
  ASSUME IInv, Running, NEW t, updateDoc(work.doc, t), work.other = None,
         UNCHANGED <<jobs, rel, proposals, lost>>,
         NEW at \in {"invoice", "after"}, work' = [work EXCEPT !.at = at]
  PROVE  IInv'
  <1>1. /\ DOMAIN work = DOMAIN Idle /\ work.part \in Nat /\ Typed /\ work.doc \in Ids
        /\ DocOk(docs[work.doc])
    BY RunsOn DEF Typed
  <1>2. /\ DOMAIN work' = DOMAIN Idle /\ work'.at = at /\ work'.doc = work.doc
        /\ work'.job = work.job /\ work'.part = work.part /\ work'.other = work.other
    BY <1>1, RecordsAre
  <1> DEFINE x == IF t = "" /\ docs[work.doc].text = "device" THEN docs[work.doc].text ELSE t
             v == [docs[work.doc].ver EXCEPT !["content"] = rel.now]
             r == [[docs[work.doc] EXCEPT !.text = x] EXCEPT !.ver = v]
  <1>3. docs[work.doc] = [y \in DOMAIN Blank |-> docs[work.doc][y]]
    BY <1>1 DEF DocOk
  <1>4. Row(work.doc) => docs' = [docs EXCEPT ![work.doc] = r]
    BY <1>1, <1>3, RecordsAre DEF updateDoc, Typed
  <1>5. /\ r = [y \in DOMAIN Blank |-> r[y]] /\ r.st = docs[work.doc].st /\ r.ver = v
        /\ r.bytes = docs[work.doc].bytes /\ r.parent = docs[work.doc].parent
    <2> HIDE DEF x, v
    <2>1. QED
      BY <1>3, RecordsAre
  <1> HIDE DEF r
  <1>6. OnRow /\ (Row(work.doc)' => ReadOnce(work.doc)')
    BY <1>1, <1>2, <1>4, <1>5, TextWritten DEF updateDoc
  <1>7. Progress'
    BY <1>2, <1>6 DEF Progress
  <1>8. QED
    BY <1>6, <1>7, GoesOn

LEMMA StoreTextKeeps ==
  ASSUME IInv, StoreText
  PROVE  IInv'
  <1>1. /\ work.at = "text" /\ Running /\ UNCHANGED <<jobs, rel, proposals, lost>>
        /\ \E t : updateDoc(work.doc, t)
        /\ \E at \in {"invoice", "after"} : work' = [work EXCEPT !.at = at]
    BY DEF StoreText, At, Running, Goto, rescans
  <1>2. work.other = None
    BY <1>1, RunsOn DEF Progress
  <1>3. QED
    BY <1>1, <1>2, TextStored

LEMMA StoreInvoiceKeeps ==
  ASSUME IInv, NEW kept \in BOOLEAN, StoreInvoice(kept)
  PROVE  IInv'
  <1>1. /\ work.at = "invoice" /\ Running /\ UNCHANGED <<jobs, rel, proposals, lost>>
        /\ docs' = docs \/ (Row(work.doc) /\ docs' = [docs EXCEPT ![work.doc]["invoice"] = TRUE])
        /\ work' = [work EXCEPT !.at = "after"]
    BY DEF StoreInvoice, At, Running, Goto, rescans
  <1>2. /\ DOMAIN work = DOMAIN Idle /\ work.part \in Nat /\ Progress /\ Typed
        /\ work.doc \in Ids /\ docs[work.doc].st # "none"
    BY <1>1, RunsOn DEF Typed
  <1>3. /\ DOMAIN work' = DOMAIN Idle /\ work'.at = "after" /\ work'.doc = work.doc
        /\ work'.job = work.job /\ work'.part = work.part /\ work'.other = work.other
    BY <1>1, <1>2, RecordsAre
  <1>4. OnRow
    BY <1>1, <1>2, <1>3, FieldWritten
  <1>5. Row(work.doc)' => ReadOnce(work.doc)'
    <2>1. PICK d \in Ids : d = work.doc
      BY <1>2
    <2>2. Row(d)' => Row(d) /\ ReadOnce(d)'
      BY <1>1, <1>2, <1>4, <2>1, LiveOn DEF OnRow, Progress
    <2>3. QED
      BY <1>3, <2>1, <2>2 DEF Row, ReadOnce
  <1>6. Progress'
    BY <1>1, <1>2, <1>3, <1>5 DEF Progress
  <1>7. QED
    BY <1>1, <1>4, <1>6, GoesOn

LEMMA AfterKeeps ==
  ASSUME IInv, After
  PROVE  IInv'
  <1>1. work.at = "after" /\ Running /\ UNCHANGED <<docs, rel, proposals>> /\ Settle("done")
    BY DEF After, At, Running, Finish, rescans
  <1>2. Progress /\ DocOk(docs[work.doc]) /\ docs[work.doc].st # "none" /\ Typed
    BY <1>1, RunsOn
  <1>3. docs[work.doc].st = "gone" \/ docs[work.doc].ver["content"] > 0
    BY <1>1, <1>2 DEF Progress, Row, ReadOnce, DocOk
  <1>4. Later /\ \A d \in Ids : Alike(d)
    BY <1>1, <1>2, SameDocs
  <1>5. QED
    BY <1>1, <1>3, <1>4, Settles

LEMMA ToolFailsKeeps ==
  ASSUME IInv, ToolFails
  PROVE  IInv'
  BY Retries DEF ToolFails, rescans

-----------------------------------------------------------------------------
(* The steps of handleEmail.                                               *)

LEMMA ParseMailKeeps ==
  ASSUME IInv, NEW readable \in BOOLEAN, ParseMail(readable)
  PROVE  IInv'
  <1>1. /\ work.at = "mail" /\ Running /\ UNCHANGED <<jobs, rel, proposals, lost>>
        /\ \/ updateDoc(work.doc, "") /\ work' = [work EXCEPT !.at = "after"]
           \/ /\ UNCHANGED docs
              /\ \/ work' = [work EXCEPT !.at = "parent"]
                 \/ \E e \in SameMessage(work.doc) :
                      work' = [work EXCEPT !.at = "duplicate", !.other = e]
    BY DEF ParseMail, At, Running, Goto, rescans
  <1>2. /\ work.other = None /\ work.part \in Nat /\ DOMAIN work = DOMAIN Idle /\ Typed
        /\ work.doc \in Ids
    BY <1>1, RunsOn DEF Progress, Typed
  <1>3. CASE updateDoc(work.doc, "") /\ work' = [work EXCEPT !.at = "after"]
    BY <1>1, <1>2, <1>3, TextStored
  <1>4. CASE UNCHANGED docs /\ work' = [work EXCEPT !.at = "parent"]
    <2>1. /\ DOMAIN work' = DOMAIN Idle /\ work'.at = "parent" /\ work'.doc = work.doc
          /\ work'.job = work.job /\ work'.part = work.part /\ work'.other = work.other
      BY <1>2, <1>4, RecordsAre
    <2>2. QED
      BY <1>1, <1>4, <2>1, Onward
  <1>5. ASSUME NEW e \in SameMessage(work.doc), UNCHANGED docs,
               work' = [work EXCEPT !.at = "duplicate", !.other = e]
        PROVE  IInv'
    <2>1. /\ DOMAIN work' = DOMAIN Idle /\ work'.at = "duplicate" /\ work'.doc = work.doc
          /\ work'.job = work.job /\ work'.part = work.part /\ work'.other = e
      BY <1>2, <1>5, RecordsAre
    <2>2. OnRow
      BY <1>1, <1>2, <1>5, <2>1, Unwritten
    <2>3. Progress'
      BY <2>1 DEF Progress, SameMessage
    <2>4. QED
      BY <1>1, <2>2, <2>3, GoesOn
  <1>6. QED
    BY <1>1, <1>3, <1>4, <1>5

LEMMA CopySourcesKeeps ==
  ASSUME IInv, CopySources
  PROVE  IInv'
  <1>1. work.at = "duplicate" /\ Running /\ UNCHANGED <<docs, rel, proposals, lost>>
    BY DEF CopySources, At, Running, rescans
  <1>2. CASE ~Row(work.other)
    BY <1>1, <1>2, Retries DEF CopySources
  <1>3. CASE Row(work.other)
    <2>1. UNCHANGED jobs /\ work' = [work EXCEPT !.at = "drop"]
      BY <1>3 DEF CopySources, Goto
    <2>2. /\ work.other \in Ids \ {work.doc} /\ work.part \in Nat /\ DOMAIN work = DOMAIN Idle
      BY <1>1, RunsOn DEF Progress, Typed
    <2>3. /\ DOMAIN work' = DOMAIN Idle /\ work'.at = "drop" /\ work'.doc = work.doc
          /\ work'.job = work.job /\ work'.part = work.part /\ work'.other = work.other
      BY <2>1, <2>2, RecordsAre
    <2>4. OnRow
      BY <1>1, <2>1, <2>2, <2>3, Unwritten
    <2>5. work.other # None
      BY <2>2, PostIngestAssumption
    <2>6. Progress'
      BY <1>1, <1>3, <2>2, <2>3, <2>5 DEF Progress, Row
    <2>7. QED
      BY <1>1, <2>4, <2>6, GoesOn
  <1>4. QED
    BY <1>2, <1>3

LEMMA DropKeeps ==
  ASSUME IInv, deleteEmailStagingParent
  PROVE  IInv'
  <1>1. /\ work.at = "drop" /\ Running /\ UNCHANGED <<rel, proposals, lost>>
        /\ docs' = Deleted(docs, work.doc) /\ Settle("done")
    BY DEF deleteEmailStagingParent, At, Running, Finish, rescans
  <1>2. work.doc \in Ids /\ docs[work.doc].st # "none" /\ Typed
    BY <1>1, RunsOn
  <1>3. Later /\ docs'[work.doc].st = "gone" /\ \A e \in Ids : e # work.doc => Alike(e)
    BY <1>1, <1>2, RowDeleted
  <1>4. QED
    BY <1>1, <1>3, Settles

LEMMA PartsAre ==
  ASSUME Typed, work.doc \in Ids, docs[work.doc].st # "none"
  PROVE  /\ Parts \in Seq(DOMAIN File) /\ DOMAIN Parts = 1..Len(Parts) /\ Len(Parts) \in Nat
         /\ \A i \in DOMAIN Parts : Parts[i] \in DOMAIN File
  <1>1. docs[work.doc].bytes \in DOMAIN File
    BY DEF Typed, DocOk
  <1>2. Parts \in Seq(DOMAIN File)
    BY <1>1, AttachmentsAssumption DEF Parts
  <1>3. QED
    BY <1>2

LEMMA UpdateParentKeeps ==
  ASSUME IInv, UpdateEmailParent
  PROVE  IInv'
  <1>1. work.at = "parent" /\ Running /\ UNCHANGED <<rel, proposals, lost>>
    BY DEF UpdateEmailParent, At, Running, rescans
  <1>2. CASE ~Row(work.doc)
    BY <1>1, <1>2, Retries DEF UpdateEmailParent
  <1>3. CASE Row(work.doc)
    <2> DEFINE d == work.doc
               m == Kind(d).mid
               v == [docs[d].ver EXCEPT !["content"] = rel.now]
               r == [[[docs[d] EXCEPT !.text = "server"] EXCEPT !.mid = m] EXCEPT !.ver = v]
    <2>1. /\ docs' = [docs EXCEPT ![d].text = "server", ![d].mid = m, ![d].ver["content"] = rel.now]
          /\ work' = [work EXCEPT !.at = "fan", !.part = 1, !.made = 0] /\ UNCHANGED jobs
      BY <1>3 DEF UpdateEmailParent
    <2>2. /\ DOMAIN work = DOMAIN Idle /\ Typed /\ d \in Ids /\ DocOk(docs[d]) /\ work.other = None
          /\ docs[d].st # "none"
      BY <1>1, RunsOn DEF Progress
    <2>3. docs[d] = [y \in DOMAIN Blank |-> docs[d][y]]
      BY <2>2 DEF DocOk
    <2>4. docs' = [docs EXCEPT ![d] = r]
      <3> HIDE DEF m
      <3>1. QED
        BY <2>1, <2>2, <2>3, RecordsAre DEF Typed
    <2>5. /\ r = [y \in DOMAIN Blank |-> r[y]] /\ r.st = docs[d].st /\ r.ver = v
          /\ r.bytes = docs[d].bytes /\ r.parent = docs[d].parent
      <3> HIDE DEF m, v
      <3>1. QED
        BY <2>3, RecordsAre
    <2>6. /\ DOMAIN work' = DOMAIN Idle /\ work'.at = "fan" /\ work'.doc = work.doc
          /\ work'.job = work.job /\ work'.part = 1 /\ work'.other = work.other
      BY <2>1, <2>2, RecordsAre
    <2> HIDE DEF r, m
    <2>7. OnRow /\ (Row(work.doc)' => ReadOnce(work.doc)')
      <3>1. UNCHANGED <<jobs, rel, proposals, lost>> /\ work'.part \in Nat
        BY <1>1, <2>1, <2>6
      <3>2. QED
        BY <1>1, <1>3, <2>4, <2>5, <2>6, <3>1, TextWritten
    <2>8. Parts' = Parts /\ DOMAIN Parts = 1..Len(Parts) /\ Len(Parts) \in Nat
      BY <2>2, <2>6, <2>7, PartsAre DEF Parts, OnRow, Later
    <2>9. FiledUpTo(work.part)' /\ work'.part # 0
      BY <2>6, <2>8 DEF FiledUpTo
    <2>10. Progress'
      BY <2>2, <2>6, <2>7, <2>9 DEF Progress
    <2>11. QED
      BY <1>1, <2>7, <2>10, GoesOn
  <1>4. QED
    BY <1>2, <1>3

LEMMA JobAdded ==
  ASSUME NEW d, NEW files, jobs' = Enqueue(jobs, d, files)
  PROVE  \E new : jobs' = jobs \cup {new} /\ new.doc = d /\ DOMAIN new = DOMAIN NoJob
  <1> DEFINE new == NewJob(FreeJob(jobs), d, files)
  <1>1. jobs' = jobs \cup {new} /\ new.doc = d /\ DOMAIN new = DOMAIN NoJob
    BY RecordsAre DEF Enqueue, NewJob
  <1> HIDE DEF new
  <1>2. QED
    BY <1>1

(* A row comes with its job.                                               *)
LEMMA RowAndJob ==
  ASSUME IInv, HasRoom(1), NEW r, DocOk(r), r.st = "live", docs' = [docs EXCEPT ![FreeId] = r],
         NEW files, jobs' = Enqueue(jobs, FreeId, files), UNCHANGED <<rel, proposals, lost>>,
         DOMAIN work' = DOMAIN Idle, work'.part \in Nat
  PROVE  /\ Later /\ Stays /\ Typed' /\ OneOpen' /\ KeptInSight' /\ jobs \subseteq jobs'
         /\ FreeId \in Ids /\ docs[FreeId].st = "none" /\ docs'[FreeId] = r
         /\ \A e \in Ids : e # FreeId => docs'[e] = docs[e]
  <1>1. PICK new : jobs' = jobs \cup {new} /\ new.doc = FreeId /\ DOMAIN new = DOMAIN NoJob
    BY JobAdded
  <1>2. /\ Later /\ FreeId \in Ids /\ docs[FreeId].st = "none" /\ docs'[FreeId] = r
        /\ \A e \in Ids : e # FreeId => docs'[e] = docs[e] /\ Alike(e)
    BY RowAdded DEF IInv
  <1>3. Stays
    BY <1>2 DEF Stays, Row
  <1>4. JobOk(new)'
    BY <1>1, <1>2 DEF JobOk
  <1>5. Typed' /\ OneOpen'
    BY <1>1, <1>2, <1>4, TypedOn
  <1>6. KeptInSight'
    <2>1. \A d \in Ids : HasJob(d) => HasJob(d)'
      BY <1>1 DEF HasJob
    <2>2. \E j \in jobs' : j.doc = FreeId
      BY <1>1
    <2>3. ASSUME NEW d \in Ids, Row(d)'
          PROVE  HasJob(d)' \/ (Row(d) /\ docs'[d].enc = docs[d].enc)
      BY <1>2, <2>2, <2>3 DEF HasJob, Row
    <2>4. QED
      BY <1>2, <2>1, <2>3, SightStays
  <1>7. QED
    BY <1>1, <1>2, <1>3, <1>5, <1>6

LEMMA ChildIs ==
  ASSUME IInv, Running, NEW b \in DOMAIN File
  PROVE  DocOk(Child(b)) /\ Child(b).st = "live" /\ Child(b).bytes = b
  <1> DEFINE c == Child(b)
  <1>1. docs[work.doc] = [y \in DOMAIN Blank |-> docs[work.doc][y]]
    BY RunsOn DEF DocOk
  <1>2. /\ c = [y \in DOMAIN Blank |-> c[y]] /\ c.st = "live" /\ c.bytes = b
        /\ c.ver = [k \in Kinds |-> 0]
    BY <1>1, RecordsAre DEF Child
  <1> HIDE DEF c
  <1>3. QED
    BY <1>2 DEF DocOk, c

LEMMA AttachmentKeeps ==
  ASSUME IInv, CreateAttachment
  PROVE  IInv'
  <1> DEFINE b == Parts[work.part]
  <1>1. /\ work.at = "fan" /\ Running /\ UNCHANGED <<rel, proposals, lost>>
        /\ work.part <= Len(Parts)
    BY DEF CreateAttachment, At, Running, rescans
  <1>2. /\ DOMAIN work = DOMAIN Idle /\ work.part \in Nat /\ Typed /\ Holding /\ Progress
        /\ work.doc \in Ids /\ docs[work.doc].st # "none" /\ work.other = None
    BY <1>1, RunsOn DEF Typed, Progress
  <1>3. DOMAIN Parts = 1..Len(Parts) /\ Len(Parts) \in Nat /\ \A i \in DOMAIN Parts : Parts[i] \in DOMAIN File
    BY <1>2, PartsAre
  <1>4. CASE UNCHANGED <<docs, jobs>> /\ work' = [work EXCEPT !.part = @ + 1]
             /\ (~Row(work.doc) \/ Copies(b, docs[work.doc].owner) # {})
    <2>1. /\ DOMAIN work' = DOMAIN Idle /\ work'.at = work.at /\ work'.doc = work.doc
          /\ work'.job = work.job /\ work'.part = work.part + 1 /\ work'.other = work.other
      BY <1>2, <1>4, RecordsAre
    <2>2. OnRow
      <3>1. work'.part \in Nat
        BY <1>2, <2>1
      <3>2. QED
        BY <1>1, <1>4, <2>1, <3>1, Unwritten
    <2>3. Row(work.doc) => Found(b)
      BY <1>4 DEF Found, Copies, Row, Live
    <2>4. Row(work.doc) => \A i \in DOMAIN Parts : i < work.part + 1 => Found(Parts[i])
      <3>1. SUFFICES ASSUME Row(work.doc), NEW i \in DOMAIN Parts, i < work.part + 1
                     PROVE  Found(Parts[i])
        OBVIOUS
      <3>2. CASE i = work.part
        BY <2>3, <3>1, <3>2
      <3>3. CASE i < work.part
        BY <1>1, <1>2, <3>1, <3>3 DEF Progress, FiledUpTo
      <3>4. QED
        BY <1>2, <1>3, <3>1, <3>2, <3>3
    <2>5. Parts' = Parts /\ (\A x : Found(x) => Found(x)') /\ Row(work.doc)' = Row(work.doc)
          /\ ReadOnce(work.doc)' = ReadOnce(work.doc)
      BY <1>1, <1>4, <2>1 DEF Parts, Found, Row, ReadOnce
    <2>6. work'.part # 0 /\ (Row(work.doc)' => FiledUpTo(work.part)')
      BY <1>2, <2>1, <2>4, <2>5 DEF FiledUpTo
    <2>7. Progress'
      BY <1>1, <1>2, <2>1, <2>5, <2>6 DEF Progress
    <2>8. QED
      BY <1>1, <2>2, <2>7, GoesOn
  <1>5. CASE /\ Row(work.doc) /\ HasRoom(1) /\ docs' = [docs EXCEPT ![FreeId] = Child(b)]
             /\ jobs' = Enqueue(jobs, FreeId, FALSE)
             /\ work' = [work EXCEPT !.part = @ + 1, !.made = @ + 1]
    <2>1. /\ DOMAIN work' = DOMAIN Idle /\ work'.at = work.at /\ work'.doc = work.doc
          /\ work'.job = work.job /\ work'.part = work.part + 1 /\ work'.other = work.other
      BY <1>2, <1>5, RecordsAre
    <2>2. FiledUpTo(work.part)
      BY <1>1, <1>2, <1>5 DEF Progress
    <2>3. b \in DOMAIN File /\ work'.part \in Nat
      BY <1>1, <1>2, <1>3, <2>1 DEF Progress
    <2>4. DocOk(Child(b)) /\ Child(b).st = "live" /\ Child(b).bytes = b
      BY <1>1, <2>3, ChildIs
    <2>5. /\ Later /\ Stays /\ Typed' /\ OneOpen' /\ KeptInSight' /\ jobs \subseteq jobs'
          /\ FreeId \in Ids /\ docs[FreeId].st = "none" /\ docs'[FreeId] = Child(b)
          /\ \A e \in Ids : e # FreeId => docs'[e] = docs[e]
      BY <1>1, <1>5, <2>1, <2>3, <2>4, RowAndJob
    <2>6. PICK new \in Ids : docs'[new].st = "live" /\ docs'[new].bytes = b
      BY <2>4, <2>5
    <2>7. docs'[work.doc] = docs[work.doc]
      BY <1>2, <2>5
    <2>8. Parts' = Parts /\ Row(work.doc)' /\ (ReadOnce(work.doc) => ReadOnce(work.doc)')
      BY <1>5, <2>1, <2>7 DEF Parts, Row, ReadOnce
    <2>9. \A i \in DOMAIN Parts : i < work.part + 1 => Found(Parts[i])'
      <3>1. SUFFICES ASSUME NEW i \in DOMAIN Parts, i < work.part + 1
                     PROVE  Found(Parts[i])'
        OBVIOUS
      <3>2. CASE i = work.part
        BY <2>6, <2>8, <3>2 DEF Found, Row
      <3>3. CASE i < work.part
        <4>1. PICK x : x = Parts[i]
          OBVIOUS
        <4>2. Found(x)'
          BY <2>2, <2>5, <3>3, <4>1, FoundOn DEF FiledUpTo
        <4>3. QED
          BY <2>8, <4>1, <4>2 DEF Found
      <3>4. QED
        BY <1>2, <1>3, <3>1, <3>2, <3>3
    <2>10. Holding'
      <3>1. JobOk(work.job)'
        BY <1>2, <2>1, <2>5 DEF Holding, JobOk, Later
      <3>2. QED
        BY <1>2, <1>5, <2>1, <2>5, <3>1 DEF Holding
    <2>11. FiledUpTo(work.part)' /\ work'.part # 0
      BY <1>2, <2>1, <2>8, <2>9 DEF FiledUpTo
    <2>12. Progress'
      BY <1>1, <1>2, <1>5, <2>1, <2>8, <2>11 DEF Progress
    <2>13. QED
      BY <2>5, <2>10, <2>12 DEF IInv, WorkSound
  <1>6. QED
    BY <1>4, <1>5 DEF CreateAttachment

LEMMA AttachmentFailsKeeps ==
  ASSUME IInv, AttachmentFails
  PROVE  IInv'
  <1>1. /\ work.at = "fan" /\ Running /\ UNCHANGED <<docs, jobs, rel, proposals>>
        /\ lost' = lost \cup {Parts[work.part]} /\ work' = [work EXCEPT !.part = @ + 1]
    BY DEF AttachmentFails, At, Running, rescans
  <1>2. /\ DOMAIN work = DOMAIN Idle /\ work.part \in Nat /\ Typed /\ Progress
        /\ work.doc \in Ids /\ docs[work.doc].st # "none" /\ work.other = None
    BY <1>1, RunsOn DEF Typed, Progress
  <1>3. /\ DOMAIN work' = DOMAIN Idle /\ work'.at = work.at /\ work'.doc = work.doc
        /\ work'.job = work.job /\ work'.part = work.part + 1 /\ work'.other = work.other
    BY <1>1, <1>2, RecordsAre
  <1>4. work'.part \in Nat /\ work'.part # 0
    BY <1>2, <1>3
  <1>5. OnRow
    BY <1>1, <1>3, <1>4, Unwritten
  <1>6. /\ Parts' = Parts /\ (\A x : Found(x) => Found(x)') /\ Row(work.doc)' = Row(work.doc)
        /\ ReadOnce(work.doc)' = ReadOnce(work.doc) /\ Parts[work.part] \in lost'
    BY <1>1, <1>3 DEF Parts, Found, Row, ReadOnce
  <1>7. Row(work.doc)' => FiledUpTo(work.part)'
    <2> SUFFICES ASSUME Row(work.doc), NEW i \in DOMAIN Parts, i < work.part + 1
                 PROVE  Found(Parts[i])'
      BY <1>3, <1>6 DEF FiledUpTo
    <2>1. CASE i = work.part
      BY <1>6, <2>1 DEF Found
    <2>2. CASE i < work.part
      BY <1>1, <1>2, <1>6, <2>2 DEF Progress, FiledUpTo, Found
    <2>3. QED
      BY <1>2, <2>1, <2>2, PartsAre
  <1>8. Progress'
    BY <1>1, <1>2, <1>3, <1>4, <1>6, <1>7 DEF Progress
  <1>9. QED
    BY <1>1, <1>5, <1>8, GoesOn

LEMMA FanDoneKeeps ==
  ASSUME IInv, FanDone
  PROVE  IInv'
  <1>1. /\ work.at = "fan" /\ Running /\ UNCHANGED <<docs, jobs, rel, proposals, lost>>
        /\ work.part > Len(Parts)
        /\ \E at \in {"drop", "after"} : work' = [work EXCEPT !.at = at]
    BY DEF FanDone, At, Running, Goto, rescans
  <1>2. /\ DOMAIN work = DOMAIN Idle /\ work.part \in Nat /\ Typed /\ Progress
        /\ work.doc \in Ids /\ docs[work.doc].st # "none" /\ work.other = None
    BY <1>1, RunsOn DEF Typed, Progress
  <1>3. /\ DOMAIN work' = DOMAIN Idle /\ work'.at \in {"drop", "after"} /\ work'.doc = work.doc
        /\ work'.job = work.job /\ work'.part = work.part /\ work'.other = work.other
    BY <1>1, <1>2, RecordsAre
  <1>4. OnRow
    BY <1>1, <1>2, <1>3, Unwritten
  <1>5. /\ Parts' = Parts /\ (\A x : Found(x) => Found(x)') /\ Row(work.doc)' = Row(work.doc)
        /\ ReadOnce(work.doc)' = ReadOnce(work.doc)
    BY <1>1, <1>3 DEF Parts, Found, Row, ReadOnce
  <1>6. Row(work.doc) => \A i \in DOMAIN Parts : Found(Parts[i])
    <2> SUFFICES ASSUME Row(work.doc), NEW i \in DOMAIN Parts PROVE Found(Parts[i])
      OBVIOUS
    <2>1. i < work.part
      BY <1>1, <1>2, PartsAre
    <2>2. QED
      BY <1>1, <1>2, <2>1 DEF Progress, FiledUpTo
  <1>7. Progress'
    BY <1>1, <1>2, <1>3, <1>5, <1>6 DEF Progress
  <1>8. QED
    BY <1>1, <1>4, <1>7, GoesOn

-----------------------------------------------------------------------------
(* People.                                                                 *)

(* What happens beside the worker.                                         *)
Aside ==
  /\ Later /\ Stays /\ UNCHANGED <<work, rel>>
  /\ \A j \in jobs' : j \in jobs \/ JobOk(j)'
  /\ \A j \in jobs : j \in jobs' \/ docs'[j.doc].st = "gone"

LEMMA WorkGoesOn ==
  ASSUME IInv, Aside
  PROVE  WorkSound'
  <1> SUFFICES ASSUME Running PROVE Holding' /\ Progress'
    BY DEF WorkSound, Aside, Running
  <1>1. PICK d \in Ids : d = work.doc /\ docs[d].st # "none"
    BY RunsOn
  <1>2. Holding /\ Progress /\ Typed /\ work' = work /\ Later /\ Stays
    BY RunsOn DEF Aside
  <1>3. /\ (Row(d)' => Row(d)) /\ (ReadOnce(d) => ReadOnce(d)')
        /\ docs'[d].bytes = docs[d].bytes
    BY <1>1, <1>2, LiveOn DEF Later
  <1>4. Holding'
    <2>1. PICK j : j = work.job /\ JobOk(j) /\ j.doc = d
      BY <1>1, <1>2 DEF Holding
    <2>2. JobOk(j)'
      BY <1>2, <2>1, JobsStayOk
    <2>3. Row(d)' => j \in jobs'
      BY <1>1, <1>2, <1>3, <2>1 DEF Holding, Aside, Row
    <2>4. QED
      BY <1>1, <1>2, <2>1, <2>2, <2>3 DEF Holding, JobOk, Row
  <1>5. Parts' = Parts
    BY <1>1, <1>2, <1>3 DEF Parts
  <1>6. \A i \in DOMAIN Parts : Found(Parts[i]) => Found(Parts[i])'
    <2> SUFFICES ASSUME NEW i \in DOMAIN Parts, Found(Parts[i]) PROVE Found(Parts[i])'
      OBVIOUS
    <2>1. PICK x : x = Parts[i]
      OBVIOUS
    <2>2. Found(x)'
      BY <1>2, <2>1, FoundOn
    <2>3. QED
      BY <1>5, <2>1, <2>2 DEF Found
  <1>7. work.at = "fan" /\ Row(d)' => FiledUpTo(work.part)'
    BY <1>1, <1>2, <1>3, <1>5, <1>6 DEF Progress, FiledUpTo
  <1>8. ASSUME work.at = "drop", work.other # None
        PROVE  /\ work.other \in Ids \ {d} /\ docs'[work.other].st # "none"
               /\ Row(work.other)' \/ docs'[work.other].bytes \in lost'
    <2>1. PICK e \in Ids \ {d} : /\ e = work.other /\ docs[e].st # "none"
                                 /\ Row(e) \/ docs[e].bytes \in lost
      BY <1>1, <1>2, <1>8 DEF Progress
    <2>2. docs'[e].bytes = docs[e].bytes /\ docs'[e].st # "none"
      BY <1>2, <2>1 DEF Later
    <2>3. Row(e)' \/ docs'[e].bytes \in lost'
      BY <1>2, <2>1, <2>2 DEF Stays
    <2>4. QED
      BY <1>2, <2>1, <2>2, <2>3 DEF Row
  <1>9. Progress'
    BY <1>1, <1>2, <1>3, <1>5, <1>6, <1>7, <1>8 DEF Progress, Row, ReadOnce
  <1>10. QED
    BY <1>4, <1>9

LEMMA AsideKeeps ==
  ASSUME IInv, Aside, UNCHANGED proposals,
         \A d \in Ids : Row(d)' => HasJob(d)' \/ (Row(d) /\ docs'[d].enc = docs[d].enc)
  PROVE  IInv'
  <1>1. Typed' /\ OneOpen'
    BY TypedOn DEF Aside, IInv, Typed
  <1>2. ASSUME NEW d \in Ids, Row(d)', HasJob(d) PROVE HasJob(d)'
    BY <1>2 DEF HasJob, Aside, Row
  <1>3. KeptInSight'
    BY <1>2, SightStays DEF Aside
  <1>4. QED
    BY <1>1, <1>3, WorkGoesOn DEF IInv

(* People write to a row, and may ask for it to be read again.             *)
LEMMA RowPatched ==
  ASSUME IInv, NEW d \in Ids, Row(d), NEW r, docs' = [docs EXCEPT ![d] = r],
         DocOk(r), r.st \in {"live", "trashed"}, r.bytes = docs[d].bytes,
         docs[d].ver["content"] > 0 => r.ver["content"] > 0,
         UNCHANGED <<work, rel, proposals, lost>>,
         \/ jobs' = jobs /\ r.enc = docs[d].enc
         \/ jobs' = Enqueue(jobs, d, FALSE)
  PROVE  IInv' /\ Later
  <1>1. Later /\ docs'[d] = r /\ \A e \in Ids : e # d => docs'[e] = docs[e] /\ Alike(e)
    BY RowChanged DEF IInv
  <1>2. Stays
    BY <1>1 DEF Stays, Row
  <1>3. CASE jobs' = jobs /\ r.enc = docs[d].enc
    <2>1. Aside
      BY <1>1, <1>2, <1>3 DEF Aside
    <2>2. \A e \in Ids : Row(e)' => Row(e) /\ docs'[e].enc = docs[e].enc
      BY <1>1, <1>3 DEF Row, Alike
    <2>3. QED
      BY <1>1, <2>1, <2>2, AsideKeeps
  <1>4. CASE jobs' = Enqueue(jobs, d, FALSE)
    <2>1. PICK new : jobs' = jobs \cup {new} /\ new.doc = d /\ DOMAIN new = DOMAIN NoJob
      BY <1>4, JobAdded
    <2>2. JobOk(new)'
      BY <1>1, <2>1 DEF JobOk
    <2>3. Aside
      BY <1>1, <1>2, <2>1, <2>2 DEF Aside
    <2>4. \A e \in Ids : Row(e)' => HasJob(e)' \/ (Row(e) /\ docs'[e].enc = docs[e].enc)
      BY <1>1, <2>1 DEF Row, Alike, HasJob
    <2>5. QED
      BY <1>1, <2>3, <2>4, AsideKeeps
  <1>5. QED
    BY <1>3, <1>4

LEMMA TrashKeeps ==
  ASSUME IInv, NEW d \in Ids, Trash(d) \/ Restore(d)
  PROVE  IInv' /\ Later
  <1>1. PICK st \in {"live", "trashed"} : docs' = [docs EXCEPT ![d].st = st]
    BY DEF Trash, Restore
  <1> DEFINE r == [docs[d] EXCEPT !.st = st]
  <1>2. UNCHANGED <<work, rel, proposals, lost, jobs>> /\ Row(d)
    BY DEF Trash, Restore, rescans, Live, Row
  <1>3. DocOk(docs[d]) /\ docs' = [docs EXCEPT ![d] = r]
    BY <1>1 DEF IInv, Typed
  <1>4. DocOk(r) /\ r.st = st /\ r.bytes = docs[d].bytes /\ r.ver = docs[d].ver /\ r.enc = docs[d].enc
    BY <1>2, <1>3, RecordsAre DEF DocOk, Row
  <1> HIDE DEF r
  <1>5. QED
    BY <1>2, <1>3, <1>4, RowPatched

LEMMA PatchASNKeeps ==
  ASSUME IInv, NEW d \in Ids, NEW n, PatchASN(d, n)
  PROVE  IInv' /\ Later
  <1> DEFINE r == [docs[d] EXCEPT !.asn = n]
  <1>1. UNCHANGED <<work, rel, proposals, lost, jobs>> /\ Row(d)
    BY DEF PatchASN, rescans
  <1>2. DocOk(docs[d]) /\ docs' = [docs EXCEPT ![d] = r]
    BY DEF IInv, Typed, PatchASN
  <1>3. /\ DocOk(r) /\ r.st = docs[d].st /\ r.bytes = docs[d].bytes /\ r.ver = docs[d].ver
        /\ r.enc = docs[d].enc
    BY <1>1, <1>2, RecordsAre DEF DocOk, Row
  <1> HIDE DEF r
  <1>4. QED
    BY <1>1, <1>2, <1>3, RowPatched DEF Row

LEMMA ClassifiedKeeps ==
  ASSUME IInv, NEW d \in Ids, Classified(d)
  PROVE  IInv' /\ Later
  <1> DEFINE v == [docs[d].ver EXCEPT !["llm"] = rel.now]
             r == [docs[d] EXCEPT !.ver = v]
  <1>1. UNCHANGED <<work, rel, proposals, lost, jobs>> /\ Row(d) /\ rel.now \in Nat
    BY DEF Classified, rescans, Live, Row, IInv, Typed
  <1>2. DocOk(docs[d]) /\ docs' = [docs EXCEPT ![d] = r]
    BY DEF IInv, Typed, Classified
  <1>3. v \in [Kinds -> Nat] /\ v["content"] = docs[d].ver["content"]
    BY <1>1, <1>2, PostIngestAssumption DEF DocOk
  <1> HIDE DEF v
  <1>4. /\ DocOk(r) /\ r.st = docs[d].st /\ r.bytes = docs[d].bytes /\ r.ver = v
        /\ r.enc = docs[d].enc
    BY <1>1, <1>2, <1>3, RecordsAre DEF DocOk, Row
  <1> HIDE DEF r
  <1>5. QED
    BY <1>1, <1>2, <1>3, <1>4, RowPatched DEF Row

LEMMA ArriveKeeps ==
  ASSUME IInv, NEW b \in DOMAIN File, NEW owner, NEW files, Arrive(b, owner, files)
  PROVE  IInv' /\ Later
  <1> DEFINE r == [docs[FreeId] EXCEPT !.st = "live", !.bytes = b, !.owner = owner]
  <1>1. /\ UNCHANGED <<work, rel, proposals, lost>> /\ HasRoom(1)
        /\ jobs' = Enqueue(jobs, FreeId, files)
    BY DEF Arrive, rescans
  <1>2. FreeId \in Ids /\ DocOk(docs[FreeId]) /\ docs' = [docs EXCEPT ![FreeId] = r]
    BY <1>1, FreeIdIs DEF IInv, Typed, Arrive
  <1>3. /\ r = [x \in DOMAIN Blank |-> r[x]] /\ r.st = "live" /\ r.bytes = b
        /\ r.ver = docs[FreeId].ver
    <2>1. docs[FreeId] = [x \in DOMAIN Blank |-> docs[FreeId][x]]
      BY <1>2 DEF DocOk
    <2>2. QED
      BY <2>1, RecordsAre
  <1> HIDE DEF r
  <1>4. DocOk(r)
    BY <1>2, <1>3 DEF DocOk
  <1>5. DOMAIN work' = DOMAIN Idle /\ work'.part \in Nat
    BY <1>1 DEF IInv, Typed
  <1>6. /\ Later /\ Stays /\ Typed' /\ OneOpen' /\ KeptInSight' /\ jobs \subseteq jobs'
    BY <1>1, <1>2, <1>3, <1>4, <1>5, RowAndJob
  <1>7. Aside
    BY <1>1, <1>6 DEF Aside, Typed
  <1>8. QED
    BY <1>6, <1>7, WorkGoesOn DEF IInv

LEMMA PurgeKeeps ==
  ASSUME IInv, NEW d \in Ids, Purge(d)
  PROVE  IInv' /\ Later
  <1>1. /\ UNCHANGED <<work, rel, proposals>> /\ docs[d].st = "trashed" /\ docs' = Deleted(docs, d)
        /\ jobs' = {j \in jobs : j.doc # d} /\ lost' = lost \cup {docs[d].bytes}
    BY DEF Purge, rescans
  <1>2. Later /\ docs'[d].st = "gone" /\ \A e \in Ids : e # d => Alike(e)
    BY <1>1, RowDeleted DEF IInv
  <1>3. Stays
    BY <1>1, <1>2 DEF Stays, Alike, Row
  <1>4. Aside
    BY <1>1, <1>2, <1>3 DEF Aside
  <1>5. ASSUME NEW e \in Ids, Row(e)' PROVE Row(e) /\ docs'[e].enc = docs[e].enc
    BY <1>2, <1>5 DEF Row, Alike
  <1>6. QED
    BY <1>1, <1>2, <1>4, <1>5, AsideKeeps

LEMMA RescanKeeps ==
  ASSUME IInv, NEW d \in Ids, Rescan(d)
  PROVE  IInv' /\ Later
  <1>1. /\ UNCHANGED <<docs, work, rel, proposals, lost>> /\ Live(d)
        /\ jobs' = Enqueue(jobs, d, FALSE)
    BY DEF Rescan, rescans
  <1>2. DocOk(docs[d]) /\ docs' = [docs EXCEPT ![d] = docs[d]]
    BY <1>1 DEF IInv, Typed
  <1>3. QED
    BY <1>1, <1>2, RowPatched DEF Live, Row

(* Passwords and unlock requests are not what the invariant is about.      *)
LEMMA QuietKeeps ==
  ASSUME IInv, UNCHANGED <<docs, jobs, work, rel, proposals, lost>>
  PROVE  IInv' /\ Later
  <1>1. Later /\ \A d \in Ids : Alike(d)
    BY SameDocs DEF IInv
  <1>2. Aside
    BY <1>1 DEF Aside, Stays, Row
  <1>3. QED
    BY <1>1, <1>2, AsideKeeps DEF Row

LEMMA AttemptDecryptKeeps ==
  ASSUME IInv, CallsOk, NEW c \in calls, AttemptDecrypt(c)
  PROVE  IInv' /\ Later
  <1> DEFINE d == Head(c.todo)
             r == [docs[d] EXCEPT !.enc = "decrypted", !.plain = TRUE]
  <1>1. UNCHANGED <<work, rel, proposals, lost>> /\ d \in Ids
    BY DEF AttemptDecrypt, rescans, CallsOk
  <1>2. \/ UNCHANGED <<docs, jobs>>
        \/ /\ Live(d) /\ docs' = [docs EXCEPT ![d].enc = "decrypted", ![d].plain = TRUE]
           /\ jobs' = Enqueue(jobs, d, FALSE)
    BY DEF AttemptDecrypt
  <1> HIDE DEF d
  <1>3. CASE UNCHANGED <<docs, jobs>>
    BY <1>1, <1>3, QuietKeeps
  <1>4. CASE /\ Live(d) /\ docs' = [docs EXCEPT ![d].enc = "decrypted", ![d].plain = TRUE]
             /\ jobs' = Enqueue(jobs, d, FALSE)
    <2>1. /\ DocOk(docs[d]) /\ docs[d] = [x \in DOMAIN Blank |-> docs[d][x]]
          /\ docs' = [docs EXCEPT ![d] = r]
      BY <1>1, <1>4 DEF IInv, Typed, DocOk
    <2>2. /\ r = [x \in DOMAIN Blank |-> r[x]] /\ r.st = docs[d].st /\ r.bytes = docs[d].bytes
          /\ r.ver = docs[d].ver /\ r.parent = docs[d].parent
      BY <2>1, RecordsAre
    <2> HIDE DEF r
    <2>3. DocOk(r)
      BY <2>1, <2>2 DEF DocOk
    <2>4. QED
      BY <1>1, <1>4, <2>1, <2>2, <2>3, RowPatched DEF Live, Row
  <1>5. QED
    BY <1>2, <1>3, <1>4

LEMMA CallsStayOk ==
  ASSUME CallsOk, [Next]_vars
  PROVE  CallsOk'
  <1>1. CASE UNCHANGED calls
    BY <1>1 DEF CallsOk
  <1>2. ASSUME NEW ds \in Seq(Ids), NEW pw, NEW u, NEW batch, NEW r, StartDecrypt(ds, pw, u, batch, r)
        PROVE  CallsOk'
    <2> DEFINE new == [todo |-> ds, pw |-> pw, who |-> u, batch |-> batch, remember |-> r,
                       opened |-> FALSE]
    <2>1. calls' = calls \cup {new}
      BY <1>2 DEF StartDecrypt
    <2>2. DOMAIN new = {"todo", "pw", "who", "batch", "remember", "opened"} /\ new.todo = ds
      OBVIOUS
    <2> HIDE DEF new
    <2>3. QED
      BY <2>1, <2>2 DEF CallsOk
  <1>3. ASSUME NEW c \in calls, AttemptDecrypt(c)
        PROVE  CallsOk'
    <2> DEFINE d == Head(c.todo)
               ok == Live(d) /\ docs[d].enc = "encrypted" /\ Kind(d).pw = c.pw
               next == [c EXCEPT !.todo = Tail(@), !.opened = @ \/ ok,
                                 !.who = IF c.batch THEN @ ELSE docs[d].owner]
    <2>1. calls' \subseteq calls \cup {next} /\ c.todo # <<>>
      BY <1>3 DEF AttemptDecrypt
    <2>2. DOMAIN next = DOMAIN c /\ next.todo = Tail(c.todo)
      <3> HIDE DEF ok, d
      <3>1. QED
        BY DEF CallsOk
    <2> HIDE DEF next
    <2>3. DOMAIN next = {"todo", "pw", "who", "batch", "remember", "opened"} /\ next.todo \in Seq(Ids)
      BY <2>1, <2>2 DEF CallsOk
    <2>4. QED
      BY <2>1, <2>3 DEF CallsOk
  <1>4. ASSUME NEW c \in calls, RememberPassword(c)
        PROVE  CallsOk'
    BY <1>4 DEF RememberPassword, CallsOk
  <1>5. ASSUME NEW next, Boot(next)
        PROVE  CallsOk'
    BY <1>5 DEF Boot, CallsOk
  <1>6. CASE Worker
    BY <1>1, <1>6 DEF Worker, Begin, Preflight, CommitPreflight, LoadDoc, Route, PreConsume,
      GatherCandidates, OpenPDF, StoreText, StoreInvoice, After, ToolFails, ParseMail, CopySources,
      deleteEmailStagingParent, UpdateEmailParent, CreateAttachment, AttachmentFails, FanDone, people
  <1>7. CASE People
    <2>1. CASE \E d \in Ids, pw \in Passwords, u \in Users, r \in BOOLEAN : DecryptDocument(d, pw, u, r)
      <3>1. PICK d \in Ids, pw \in Passwords, u \in Users, r \in BOOLEAN :
              StartDecrypt(<<d>>, pw, u, FALSE, r)
        BY <2>1 DEF DecryptDocument
      <3>2. <<d>> \in Seq(Ids)
        OBVIOUS
      <3>3. QED
        BY <1>2, <3>1, <3>2
    <2>2. CASE \E d, e \in Ids, pw \in Passwords, u \in Users, r \in BOOLEAN :
                 d # e /\ StartDecrypt(<<d, e>>, pw, u, TRUE, r)
      <3>1. PICK d \in Ids, e \in Ids, pw \in Passwords, u \in Users, r \in BOOLEAN :
              StartDecrypt(<<d, e>>, pw, u, TRUE, r)
        BY <2>2
      <3>2. <<d, e>> \in Seq(Ids)
        OBVIOUS
      <3>3. QED
        BY <1>2, <3>1, <3>2
    <2>3. CASE \E c \in calls : AttemptDecrypt(c) \/ RememberPassword(c)
      BY <1>3, <1>4, <2>3
    <2>4. CASE UNCHANGED calls
      BY <1>1, <2>4
    <2>5. QED
      BY <1>7, <2>1, <2>2, <2>3, <2>4 DEF People, Arrive, Trash, Restore, Purge, Rescan, Classified,
        PatchASN, DeleteDecryptionPassword, EditPasswordsFile, people
  <1>8. CASE Upgrades
    BY <1>1, <1>5, <1>8 DEF Upgrades, EnsureProposals, Advance, Resolve, people
  <1>9. CASE UNCHANGED vars
    BY <1>1, <1>9 DEF vars, people
  <1>10. QED
    BY <1>6, <1>7, <1>8, <1>9 DEF Next

-----------------------------------------------------------------------------
(* Proposals.                                                              *)

LEMMA RowsAreASeq ==
  ASSUME NEW n \in Nat, NEW qs, DOMAIN qs = 1..n, qs = [j \in 1..n |-> qs[j]]
  PROVE  qs \in Seq(Range(qs))
  <1> DEFINE S == Range(qs)
  <1>1. \A j \in 1..n : qs[j] \in S
    BY DEF Range
  <1> HIDE DEF S
  <1>2. qs \in [1..n -> S]
    BY <1>1
  <1>3. qs \in Seq(S)
    BY <1>2
  <1>4. QED
    BY <1>3 DEF S

(* One field of one proposal set; none is opened by it.                    *)
ProposalIs(qs, ps, i, f, v) ==
  qs = [ps EXCEPT ![i][f] = v] /\ f \in {"choice", "run"} /\ (f = "run" => v # "running")

LEMMA ProposalSet ==
  ASSUME NEW ps, ProposalsOk(ps), NEW i \in DOMAIN ps, NEW f, NEW v, NEW qs, ProposalIs(qs, ps, i, f, v)
  PROVE  /\ ProposalsOk(qs) /\ DOMAIN qs = DOMAIN ps /\ (f = "run" => ~Open(qs[i]))
         /\ \A j \in DOMAIN ps : qs[j].kind = ps[j].kind /\ (Open(qs[j]) => Open(ps[j]))
  <1> DEFINE r == [ps[i] EXCEPT ![f] = v]
  <1>1. qs = [ps EXCEPT ![i] = r] /\ DOMAIN ps = 1..Len(ps) /\ Len(ps) \in Nat
    BY DEF ProposalsOk, ProposalIs
  <1>2. /\ DOMAIN r = DOMAIN ps[i] /\ r.kind = ps[i].kind /\ r[f] = v
        /\ (f = "choice" /\ r.run = ps[i].run) \/ (f = "run" /\ v # "running")
    BY DEF ProposalsOk, ProposalIs
  <1> HIDE DEF r
  <1>3. ps = [j \in 1..Len(ps) |-> ps[j]]
    BY DEF ProposalsOk
  <1>4. /\ DOMAIN qs = 1..Len(ps) /\ qs[i] = r /\ \A j \in DOMAIN ps : j # i => qs[j] = ps[j]
        /\ qs = [j \in 1..Len(ps) |-> qs[j]]
    BY <1>1, <1>3
  <1>5. qs \in Seq(Range(qs))
    BY <1>1, <1>4, RowsAreASeq
  <1>6. QED
    BY <1>1, <1>2, <1>4, <1>5 DEF ProposalsOk, Open

LEMMA ProposalAdded ==
  ASSUME NEW ps, ProposalsOk(ps), NEW p, DOMAIN p = {"kind", "ver", "choice", "run"}
  PROVE  /\ ProposalsOk(Append(ps, p)) /\ Append(ps, p)[Len(ps) + 1] = p
         /\ DOMAIN Append(ps, p) = DOMAIN ps \cup {Len(ps) + 1}
         /\ Len(ps) + 1 \notin DOMAIN ps /\ \A j \in DOMAIN ps : Append(ps, p)[j] = ps[j]
  <1> DEFINE S == Range(ps) \cup {p}
             qs == Append(ps, p)
             n == Len(ps) + 1
  <1>1. DOMAIN ps = 1..Len(ps) /\ Len(ps) \in Nat /\ ps \in Seq(Range(ps))
    BY DEF ProposalsOk
  <1>2. ps \in Seq(S) /\ p \in S
    BY <1>1
  <1> HIDE DEF S
  <1>3. qs \in Seq(S) /\ Len(qs) = n /\ qs[n] = p /\ \A j \in 1..Len(ps) : qs[j] = ps[j]
    BY <1>1, <1>2
  <1> HIDE DEF qs
  <1>4. DOMAIN qs = 1..n /\ qs = [j \in 1..n |-> qs[j]]
    BY <1>3
  <1>5. n \in Nat /\ n \notin DOMAIN ps /\ 1..n = DOMAIN ps \cup {n}
    BY <1>1
  <1> HIDE DEF n
  <1>6. qs \in Seq(Range(qs))
    BY <1>4, <1>5, RowsAreASeq
  <1>7. \A j \in DOMAIN qs : DOMAIN qs[j] = {"kind", "ver", "choice", "run"}
    BY <1>1, <1>3, <1>4, <1>5 DEF ProposalsOk
  <1>8. QED
    BY <1>1, <1>3, <1>4, <1>5, <1>6, <1>7 DEF ProposalsOk, qs, n

LEMMA PendingIs ==
  ASSUME ProposalsOk(proposals), OneOpen, NEW k
  PROVE  \/ Pending(k) = None /\ \A j \in DOMAIN proposals : proposals[j].kind = k => ~Open(proposals[j])
         \/ /\ Pending(k) \in DOMAIN proposals /\ Pending(k) # None
            /\ \A j \in DOMAIN proposals :
                 proposals[j].kind = k /\ j # Pending(k) => ~Open(proposals[j])
  <1> DEFINE at == {i \in DOMAIN proposals : Open(proposals[i]) /\ proposals[i].kind = k}
  <1>1. CASE at = {}
    BY <1>1 DEF Pending
  <1>2. CASE at # {}
    <2>1. PICK i \in DOMAIN proposals : Open(proposals[i]) /\ proposals[i].kind = k
      BY <1>2
    <2>2. at = {i}
      BY <2>1 DEF OneOpen
    <2>3. DOMAIN proposals = 1..Len(proposals) /\ Len(proposals) \in Nat
      BY DEF ProposalsOk
    <2>4. Pending(k) = i
      BY <2>1, <2>2, <2>3 DEF Pending
    <2>5. QED
      BY <2>1, <2>2, <2>3, <2>4 DEF None
  <1>3. QED
    BY <1>1, <1>2

(* What reconcile does: it may close the open proposal, and may then ask,  *)
(* when none of the kind is open and the revision was not dismissed.       *)
Closed(base) == base = proposals \/ \E i \in DOMAIN proposals : base = Cancelled(proposals, i)
Asks(base, k, v) ==
  /\ \A j \in DOMAIN base : base[j].kind = k => ~Open(base[j])
  /\ \A j \in DOMAIN proposals : proposals[j].kind = k /\ proposals[j].ver = v =>
       proposals[j].choice # "dismiss"

LEMMA ClosedIs ==
  ASSUME ProposalsOk(proposals), NEW base, Closed(base)
  PROVE  /\ ProposalsOk(base) /\ DOMAIN base = DOMAIN proposals
         /\ \A j \in DOMAIN proposals :
              base[j].kind = proposals[j].kind /\ (Open(base[j]) => Open(proposals[j]))
  <1>1. CASE base = proposals
    BY <1>1
  <1>2. CASE base # proposals
    <2>1. PICK i \in DOMAIN proposals : ProposalIs(base, proposals, i, "run", "cancelled")
      BY <1>2 DEF Closed, Cancelled, ProposalIs
    <2>2. QED
      BY <2>1, ProposalSet
  <1>3. QED
    BY <1>1, <1>2

LEMMA Reconciled ==
  ASSUME ProposalsOk(proposals), OneOpen, NEW k, NEW v
  PROVE  \E base : /\ Closed(base)
                   /\ \/ reconcile(k, v) = base
                      \/ reconcile(k, v) = Proposed(base, k, v) /\ Asks(base, k, v)
  <1> DEFINE i == Pending(k)
             older == i # None /\ proposals[i].ver < v
             kept == IF older THEN None ELSE i
             base == IF older THEN Cancelled(proposals, i) ELSE proposals
  <1>1. \/ i = None /\ \A j \in DOMAIN proposals : proposals[j].kind = k => ~Open(proposals[j])
        \/ /\ i \in DOMAIN proposals /\ i # None
           /\ \A j \in DOMAIN proposals : proposals[j].kind = k /\ j # i => ~Open(proposals[j])
    BY PendingIs
  <1>2. \/ reconcile(k, v) = proposals
        \/ i # None /\ reconcile(k, v) = Cancelled(proposals, i)
        \/ kept = None /\ ~Dismissed(k, v, None) /\ reconcile(k, v) = Proposed(base, k, v)
    BY DEF reconcile
  <1> HIDE DEF i
  <1>3. CASE reconcile(k, v) = proposals
    BY <1>3 DEF Closed
  <1>4. CASE i # None /\ reconcile(k, v) = Cancelled(proposals, i)
    BY <1>1, <1>4 DEF Closed
  <1>5. CASE kept = None /\ ~Dismissed(k, v, None) /\ reconcile(k, v) = Proposed(base, k, v)
    <2>1. \A j \in DOMAIN proposals : proposals[j].kind = k /\ proposals[j].ver = v =>
            proposals[j].choice # "dismiss"
      BY <1>5 DEF Dismissed
    <2>2. CASE ~older
      BY <1>1, <1>5, <2>1, <2>2 DEF Closed, Asks
    <2>3. CASE older
      <3>1. i \in DOMAIN proposals /\ base = Cancelled(proposals, i)
            /\ ProposalIs(base, proposals, i, "run", "cancelled")
        BY <1>1, <2>3 DEF Cancelled, ProposalIs
      <3>2. /\ DOMAIN base = DOMAIN proposals /\ ~Open(base[i])
            /\ \A j \in DOMAIN proposals :
                 base[j].kind = proposals[j].kind /\ (Open(base[j]) => Open(proposals[j]))
        BY <3>1, ProposalSet
      <3>3. Closed(base)
        BY <3>1 DEF Closed
      <3> HIDE DEF base, older, kept
      <3>4. Asks(base, k, v)
        BY <1>1, <2>1, <3>1, <3>2 DEF Asks
      <3>5. QED
        BY <1>5, <3>3, <3>4
    <2>4. QED
      BY <2>2, <2>3
  <1>6. QED
    BY <1>2, <1>3, <1>4, <1>5

(* The proposals change, and jobs may be added for documents that are      *)
(* there.                                                                  *)
LEMMA ProposalsKeep ==
  ASSUME IInv, UNCHANGED <<docs, work, rel, lost>>, jobs \subseteq jobs', \A j \in jobs' \ jobs : JobOk(j),
         ProposalsOk(proposals'), OneOpen'
  PROVE  IInv' /\ Later
  <1>1. Later /\ \A d \in Ids : Alike(d)
    BY SameDocs DEF IInv
  <1>2. \A j \in jobs' : JobOk(j)'
    BY <1>1, JobsStayOk DEF IInv, Typed
  <1>3. Aside
    BY <1>1, <1>2 DEF Aside, Stays, Row
  <1>4. Typed'
    BY <1>1, <1>2 DEF IInv, Typed, Later
  <1>5. \A d \in Ids : HasJob(d) => HasJob(d)'
    BY DEF HasJob
  <1>6. KeptInSight'
    BY <1>5 DEF IInv, KeptInSight, Row, ReadOnce
  <1>7. QED
    BY <1>1, <1>3, <1>4, <1>6, WorkGoesOn DEF IInv

LEMMA OneOpenStays ==
  ASSUME OneOpen, DOMAIN proposals' = DOMAIN proposals,
         \A j \in DOMAIN proposals :
           proposals'[j].kind = proposals[j].kind /\ (Open(proposals'[j]) => Open(proposals[j]))
  PROVE  OneOpen'
  BY DEF OneOpen, Open

(* What EnsureProposals makes of the runs.                                 *)
Ensured ==
  \/ Closed(proposals')
  \/ \E base, k, v : Closed(base) /\ proposals' = Proposed(base, k, v) /\ Asks(base, k, v)

LEMMA EnsureIs ==
  ASSUME IInv, EnsureProposals
  PROVE  Ensured
  <1>1. ProposalsOk(proposals) /\ OneOpen
    BY DEF IInv, Typed
  <1>2. CASE proposals' = proposals
    BY <1>2 DEF Ensured, Closed
  <1>3. CASE proposals' # proposals
    <2>1. PICK k, v : proposals' = reconcile(k, v)
      BY <1>3 DEF EnsureProposals
    <2>2. QED
      BY <1>1, <2>1, Reconciled DEF Ensured
  <1>4. QED
    BY <1>2, <1>3

LEMMA EnsureKeeps ==
  ASSUME IInv, EnsureProposals
  PROVE  IInv' /\ Later
  <1>1. ProposalsOk(proposals) /\ OneOpen /\ UNCHANGED <<docs, jobs, work, rel, lost>>
    BY DEF IInv, Typed, EnsureProposals
  <1>2. CASE Closed(proposals')
    BY <1>1, <1>2, ClosedIs, OneOpenStays, ProposalsKeep
  <1>3. ASSUME NEW base, NEW k, NEW v, Closed(base), proposals' = Proposed(base, k, v), Asks(base, k, v)
        PROVE  IInv' /\ Later
    <2> DEFINE p == [kind |-> k, ver |-> v, choice |-> "none", run |-> "running"]
               n == Len(base) + 1
    <2>1. /\ ProposalsOk(base) /\ DOMAIN base = DOMAIN proposals
          /\ \A j \in DOMAIN proposals :
               base[j].kind = proposals[j].kind /\ (Open(base[j]) => Open(proposals[j]))
      BY <1>1, <1>3, ClosedIs
    <2>2. DOMAIN p = {"kind", "ver", "choice", "run"} /\ p.kind = k /\ proposals' = Append(base, p)
      BY <1>3 DEF Proposed
    <2> HIDE DEF p
    <2>3. /\ ProposalsOk(proposals') /\ proposals'[n] = p /\ DOMAIN proposals' = DOMAIN base \cup {n}
          /\ n \notin DOMAIN base /\ \A j \in DOMAIN base : proposals'[j] = base[j]
      BY <2>1, <2>2, ProposalAdded
    <2> HIDE DEF n
    <2>4. OneOpen'
      BY <1>1, <1>3, <2>1, <2>2, <2>3 DEF OneOpen, Asks, Open
    <2>5. QED
      BY <1>1, <2>3, <2>4, ProposalsKeep
  <1>4. QED
    BY <1>2, <1>3, EnsureIs DEF Ensured

LEMMA ResolveKeeps ==
  ASSUME IInv, NEW i \in DOMAIN proposals, NEW choice, Resolve(i, choice)
  PROVE  IInv' /\ Later
  <1>1. /\ ProposalsOk(proposals) /\ OneOpen /\ UNCHANGED <<docs, jobs, work, rel, lost>>
        /\ ProposalIs(proposals', proposals, i, "choice", choice)
    BY DEF IInv, Typed, Resolve, ProposalIs
  <1>2. QED
    BY <1>1, ProposalSet, OneOpenStays, ProposalsKeep

LEMMA AdvanceKeeps ==
  ASSUME IInv, NEW i \in DOMAIN proposals, Advance(i)
  PROVE  IInv' /\ Later
  <1>1. /\ ProposalsOk(proposals) /\ OneOpen /\ UNCHANGED <<docs, work, rel, lost>>
        /\ ProposalIs(proposals', proposals, i, "run", "done")
    BY DEF IInv, Typed, Advance, ProposalIs
  <1>2. PICK picked \in SUBSET Ids : /\ \A d \in picked : Live(d)
                                     /\ jobs' = EnqueueAll(jobs, picked)
    BY DEF Advance, Selected
  <1>3. PICK n : jobs' = jobs \cup {NewJob(n[d], d, FALSE) : d \in picked}
    BY <1>2 DEF EnqueueAll
  <1>4. ASSUME NEW j \in jobs' \ jobs PROVE JobOk(j)
    <2>1. PICK d \in picked : j = NewJob(n[d], d, FALSE)
      BY <1>3, <1>4
    <2>2. j.doc = d /\ DOMAIN j = DOMAIN NoJob
      BY <2>1, RecordsAre DEF NewJob
    <2>3. QED
      BY <1>2, <2>2 DEF JobOk, Live
  <1>5. jobs \subseteq jobs'
    BY <1>3
  <1>6. QED
    BY <1>1, <1>4, <1>5, ProposalSet, OneOpenStays, ProposalsKeep

LEMMA BootKeeps ==
  ASSUME IInv, NEW next \in rel.may, Boot(next)
  PROVE  IInv' /\ Later
  <1> DEFINE Back(j) == [j EXCEPT !.st = IF @ = "running" THEN "pending" ELSE @]
  <1>1. /\ UNCHANGED <<docs, proposals, lost>> /\ next.now >= rel.now /\ work' = Idle
        /\ rel' = [rel EXCEPT !.now = next.now, !.rec = next.rec] /\ jobs' = {Back(j) : j \in jobs}
    BY DEF Boot
  <1>2. Typed /\ Later /\ \A d \in Ids : Alike(d)
    BY <1>1, SameDocs DEF IInv
  <1>3. ASSUME NEW j \in jobs PROVE Back(j).doc = j.doc /\ JobOk(Back(j))'
    <2>1. JobOk(j)'
      BY <1>2, JobsStayOk DEF Typed
    <2>2. Back(j).doc = j.doc /\ DOMAIN Back(j) = DOMAIN j
      BY <2>1, RecordsAre DEF JobOk
    <2>3. QED
      BY <2>1, <2>2 DEF JobOk
  <1> HIDE DEF Back
  <1>4. /\ DOMAIN rel' = {"now", "rec", "may"} /\ rel'.now = next.now /\ rel'.may = rel.may
    BY <1>1, <1>2 DEF Typed
  <1>5. rel'.now \in Nat \ {0}
    BY <1>1, <1>2, <1>4 DEF Typed
  <1>6. Typed' /\ OneOpen'
    <2>1. \A j \in jobs' : JobOk(j)'
      BY <1>1, <1>3
    <2>2. DOMAIN work' = DOMAIN Idle /\ work'.part \in Nat
      BY <1>1, RecordsAre
    <2>3. QED
      BY <1>1, <1>2, <1>4, <1>5, <2>1, <2>2 DEF Typed, Later, IInv, OneOpen
  <1>7. KeptInSight'
    <2>1. \A d \in Ids : HasJob(d) => HasJob(d)'
      BY <1>1, <1>3 DEF HasJob
    <2>2. QED
      BY <1>1, <2>1 DEF IInv, KeptInSight, Row, ReadOnce
  <1>8. WorkSound'
    BY <1>1, RecordsAre DEF WorkSound, Running
  <1>9. QED
    BY <1>2, <1>6, <1>7, <1>8 DEF IInv

-----------------------------------------------------------------------------
(* All steps.                                                              *)

LEMMA WorkerKeeps ==
  ASSUME IInv, Worker
  PROVE  IInv'
  BY BeginKeeps, PreflightKeeps, CommitPreflightKeeps, LoadKeeps, RouteKeeps, PreConsumeKeeps, OpenKeeps,
    StoreTextKeeps, StoreInvoiceKeeps, AfterKeeps, ToolFailsKeeps, ParseMailKeeps, CopySourcesKeeps,
    DropKeeps, UpdateParentKeeps, AttachmentKeeps, AttachmentFailsKeeps, FanDoneKeeps DEF Worker

LEMMA PeopleKeep ==
  ASSUME IInv, CallsOk, People
  PROVE  IInv' /\ Later
  <1>1. CASE UNCHANGED <<docs, jobs, work, rel, proposals, lost>>
    BY <1>1, QuietKeeps
  <1>2. QED
    BY <1>1, ArriveKeeps, TrashKeeps, PurgeKeeps, RescanKeeps, ClassifiedKeeps, PatchASNKeeps,
      AttemptDecryptKeeps
    DEF People, DecryptDocument, StartDecrypt, RememberPassword, DeleteDecryptionPassword,
      EditPasswordsFile, rescans

LEMMA UpgradesKeep ==
  ASSUME IInv, Upgrades
  PROVE  IInv' /\ Later
  BY BootKeeps, EnsureKeeps, AdvanceKeeps, ResolveKeeps DEF Upgrades

LEMMA StepSound ==
  ASSUME IInv, CallsOk, [Next]_vars
  PROVE  IInv' /\ CallsOk'
  <1>1. CallsOk'
    BY CallsStayOk
  <1>2. CASE UNCHANGED vars
    BY <1>1, <1>2, QuietKeeps DEF vars, rescans
  <1>3. CASE Next
    BY <1>1, <1>3, WorkerKeeps, PeopleKeep, UpgradesKeep DEF Next
  <1>4. QED
    BY <1>2, <1>3

LEMMA InitSound ==
  ASSUME Init
  PROVE  IInv /\ CallsOk
  <1>1. PICK s \in Starts : /\ docs = s.docs /\ jobs = s.jobs /\ rel = s.rel
                            /\ calls = {} /\ work = Idle /\ proposals = <<>>
    BY DEF Init
  <1>2. /\ docs = [d \in Ids |-> docs[d]]
        /\ \A d \in Ids : DocOk(docs[d])
        /\ \A j \in jobs : JobOk(j)
    BY <1>1, StartsAssumption DEF DocOk, JobOk
  <1>3. DOMAIN rel = {"now", "rec", "may"} /\ rel.now \in Nat \ {0} /\ \A next \in rel.may : next.now \in Nat
    BY <1>1, StartsAssumption
  <1>4. KeptInSight
    BY <1>1, StartsAssumption DEF KeptInSight, Row, ReadOnce, HasJob
  <1>5. ProposalsOk(proposals) /\ OneOpen
    BY <1>1 DEF ProposalsOk, OneOpen
  <1>6. WorkSound /\ DOMAIN work = DOMAIN Idle /\ work.part \in Nat
    BY <1>1, RecordsAre DEF WorkSound, Running
  <1>7. QED
    BY <1>1, <1>2, <1>3, <1>4, <1>5, <1>6 DEF IInv, Typed, CallsOk

LEMMA AlwaysSound == Spec => [](IInv /\ CallsOk)
  BY InitSound, StepSound, PTL DEF Spec

(* No document falls out of the pipeline: whatever people, crashes and     *)
(* late results do while the tools run, a live document has been read,     *)
(* waits for a password in the list of such documents, or has a job that   *)
(* is pending, running or given up in the outbox.                          *)
THEOREM NoneIsForgotten == Spec => []NoneForgotten
  <1>1. IInv => NoneForgotten
    BY DEF IInv, KeptInSight, NoneForgotten, Live, Row, ReadOnce, HasJob
  <1>2. QED
    BY <1>1, AlwaysSound, PTL

(* handleEmail: from the moment a mail is about to be retired until it is, *)
(* each of its attachments, or the message it repeats, is a document, was  *)
(* purged by people, or failed with a line in the log.                     *)
THEOREM RetiredWhenFiled == Spec => RetiredOnlyWhenFiled
  <1> DEFINE Filed == IF work.other # None
                      THEN Row(work.other) \/ docs[work.other].bytes \in lost
                      ELSE \A i \in DOMAIN Parts :
                             Parts[i] \in lost \/ \E e \in Ids : Row(e) /\ docs[e].bytes = Parts[i]
             A == work.at = "drop" /\ docs'[work.doc] # docs[work.doc] => Filed
  <1>1. IInv /\ CallsOk /\ [Next]_vars => [A]_vars
    <2> SUFFICES ASSUME IInv, CallsOk, Next, work.at = "drop", docs'[work.doc] # docs[work.doc]
                 PROVE  Filed
      OBVIOUS
    <2>1. Running /\ Progress /\ work.doc \in Ids /\ docs[work.doc].st # "none" /\ DocOk(docs[work.doc])
      BY RunsOn DEF Running
    <2>2. CASE Row(work.doc)
      BY <2>1, <2>2 DEF Progress, Found
    <2>3. CASE ~Row(work.doc)
      <3>1. docs[work.doc].st = "gone"
        BY <2>1, <2>3 DEF Row, DocOk
      <3>2. CASE Later
        BY <2>1, <3>1, <3>2 DEF Later
      <3>3. CASE deleteEmailStagingParent
        BY <2>1, <3>2, <3>3, RowDeleted DEF deleteEmailStagingParent, IInv
      <3>4. CASE Worker
        BY <3>3, <3>4 DEF Worker, At, Begin, Preflight, CommitPreflight, LoadDoc, Route, PreConsume,
          GatherCandidates, OpenPDF, StoreText, StoreInvoice, After, ToolFails, ParseMail, CopySources,
          UpdateEmailParent, CreateAttachment, AttachmentFails, FanDone, Running
      <3>5. QED
        BY <3>2, <3>4, PeopleKeep, UpgradesKeep DEF Next
    <2>4. QED
      BY <2>2, <2>3
  <1>2. Spec => [][A]_vars
    BY <1>1, AlwaysSound, PTL DEF Spec
  <1>3. QED
    BY <1>2 DEF RetiredOnlyWhenFiled

(* reconcile: a revision that was dismissed is not proposed again, and     *)
(* nothing is proposed while a proposal of its kind is open.               *)
THEOREM RevisionsAskedOnce == Spec => AskedOnce
  <1> DEFINE A == proposals' # proposals =>
                    \A i \in DOMAIN proposals' \ DOMAIN proposals :
                      \A j \in DOMAIN proposals :
                        proposals[j].kind = proposals'[i].kind =>
                          /\ ~Open(proposals'[j])
                          /\ ~(proposals[j].ver = proposals'[i].ver /\ proposals[j].choice = "dismiss")
  <1>1. IInv /\ CallsOk /\ [Next]_vars => [A]_vars
    <2> SUFFICES ASSUME IInv, Next, NEW i \in DOMAIN proposals' \ DOMAIN proposals,
                        NEW j \in DOMAIN proposals, proposals[j].kind = proposals'[i].kind
                 PROVE  /\ ~Open(proposals'[j])
                        /\ ~(proposals[j].ver = proposals'[i].ver /\ proposals[j].choice = "dismiss")
      OBVIOUS
    <2>1. CASE UNCHANGED proposals
      BY <2>1
    <2>2. CASE EnsureProposals
      <3>1. ProposalsOk(proposals)
        BY DEF IInv, Typed
      <3>2. ~Closed(proposals')
        BY <3>1, ClosedIs
      <3>3. PICK base, k, v : Closed(base) /\ proposals' = Proposed(base, k, v) /\ Asks(base, k, v)
        BY <2>2, <3>2, EnsureIs DEF Ensured
      <3> DEFINE p == [kind |-> k, ver |-> v, choice |-> "none", run |-> "running"]
      <3>4. DOMAIN p = {"kind", "ver", "choice", "run"} /\ p.kind = k /\ p.ver = v
        OBVIOUS
      <3>5. proposals' = Append(base, p)
        BY <3>3 DEF Proposed
      <3> HIDE DEF p
      <3>6. ProposalsOk(base) /\ DOMAIN base = DOMAIN proposals /\ base[j].kind = proposals[j].kind
        BY <3>1, <3>3, ClosedIs
      <3>7. proposals'[i] = p /\ proposals'[j] = base[j]
        BY <3>4, <3>5, <3>6, ProposalAdded
      <3>8. QED
        BY <3>3, <3>4, <3>6, <3>7 DEF Asks
    <2>3. CASE \E m \in DOMAIN proposals : Advance(m) \/ \E c : Resolve(m, c)
      BY <2>3 DEF Advance, Resolve
    <2>4. CASE Worker
      BY <2>1, <2>4 DEF Worker, Begin, Preflight, CommitPreflight, LoadDoc, Route, PreConsume,
        GatherCandidates, OpenPDF, StoreText, StoreInvoice, After, ToolFails, ParseMail, CopySources,
        deleteEmailStagingParent, UpdateEmailParent, CreateAttachment, AttachmentFails, FanDone, rescans
    <2>5. CASE People
      BY <2>1, <2>5 DEF People, Arrive, Trash, Restore, Purge, Rescan, Classified, PatchASN,
        DecryptDocument, StartDecrypt, AttemptDecrypt, RememberPassword, DeleteDecryptionPassword,
        EditPasswordsFile, rescans
    <2>6. CASE \E next \in rel.may : Boot(next)
      BY <2>1, <2>6 DEF Boot
    <2>7. QED
      BY <2>2, <2>3, <2>4, <2>5, <2>6 DEF Next, Upgrades
  <1>2. Spec => [][A]_vars
    BY <1>1, AlwaysSound, PTL DEF Spec
  <1>3. QED
    BY <1>2 DEF AskedOnce
=============================================================================
