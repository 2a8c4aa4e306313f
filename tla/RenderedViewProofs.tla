---------------------- MODULE RenderedViewProofs ----------------------
(***************************************************************************)
(* Proofs about RenderedView, for any documents, paths, blobs and          *)
(* templates, and about Taxonomy, for any archive of up to 128 tags.       *)
(*                                                                         *)
(* The files in the tree are recognised by blob hash, and documents share  *)
(* blobs, so hashes alone protect no link.  The argument goes through the  *)
(* journal: every link of a document that exists lies at a path which that *)
(* document claims, and no two documents claim one key.  Publishing and    *)
(* removing look for foreign claims in the same transaction, so they never *)
(* meet a link of another document.                                        *)
(*                                                                         *)
(* The second half is about the requests that say what the paths are.      *)
(***************************************************************************)
EXTENDS RenderedView, Taxonomy, SequenceTheorems, WellFoundedInduction, TLAPS

(* What a journal j says, as functions of the journal alone.               *)
PendingIn(j) == {n \in DOMAIN j : j[n].state = "pending"}
AppliedIn(j) == {n \in DOMAIN j : j[n].state = "applied"}
LatestIn(j, n) == n \in AppliedIn(j) /\ \A m \in AppliedIn(j) : m <= n
LastIn(j) ==
  IF AppliedIn(j) = {} THEN Nothing
  ELSE j[CHOOSE n \in AppliedIn(j) : LatestIn(j, n)].next
ClaimedIn(j) ==
  ({j[n].next.path : n \in PendingIn(j)}
    \cup {j[n].prev.path : n \in PendingIn(j)}
    \cup {LastIn(j).path}) \ {NoPath}
HashesIn(j, p) ==
  {j[n].next.blob : n \in {m \in DOMAIN j : j[m].next.path = p}}
  \cup {j[n].prev.blob : n \in {m \in DOMAIN j : j[m].prev.path = p}}

(* The applied moves come first.                                           *)
Split(j, k) ==
  /\ k \in 0..Len(j)
  /\ \A n \in 1..Len(j) : j[n].state = "applied" <=> n <= k
Shaped(j) == j \in Seq(Moves) /\ \E k \in 0..Len(j) : Split(j, k)

(* Pending moves start where the document was last seen.                   *)
Anchored(j) ==
  PendingIn(j) # {} => LastIn(j).path \in {j[n].prev.path : n \in PendingIn(j)} \cup {NoPath}

(* All paths of j are in T.                                                *)
Within(j, T) ==
  \A n \in DOMAIN j : j[n].next.path \in T /\ j[n].prev.path \in T \cup {NoPath}

-----------------------------------------------------------------------------
(* The inductive invariant.                                                *)

Links == [doc: Docs, blob: Blobs]
Stages == {"idle", "save", "project", "record", "supersede", "finish", "publish", "refresh",
           "remove"}
Runs == [at: Stages, doc: Docs \cup {NoDoc}, job: {"none", "render", "ingest", "boot"},
         phase: {"none", "recover", "project"}, moves: SUBSET Nat,
         cur: Projections, prev: Projections, todo: SUBSET Paths]

Typed ==
  /\ setting \in Settings
  /\ status \in [Docs -> {"live", "trashed", "purged"}]
  /\ place \in [Docs -> Paths] /\ \A d \in Docs : place[d] \in Targets(d)
  /\ file \in [Docs -> [original: Blobs, archive: Blobs \cup {NoBlob}]]
  /\ tree \in [Entries -> Links \cup {NoLink}]
  /\ losses \in Nat /\ \A c \in cleaning : c.path \in Paths

Gone(d) == status[d] = "purged"

(* A purged document has no journal.                                       *)
JournalsSound ==
  /\ journal = [d \in Docs |-> journal[d]]
  /\ \A d \in Docs : /\ Shaped(journal[d]) /\ Anchored(journal[d])
                     /\ Within(journal[d], Targets(d))
                     /\ Gone(d) => journal[d] = <<>>

(* No two documents claim one key.                                         *)
ClaimsApart ==
  \A d, e \in Docs : d # e =>
    \A p \in ClaimedIn(journal[d]), q \in ClaimedIn(journal[e]) : Key(p) # Key(q)

(* Every link of a document that exists is claimed and proved.             *)
LinkClaimed(e) ==
  \E q \in ClaimedIn(journal[tree[e].doc]) :
    Entry(q) = e /\ tree[e].blob \in HashesIn(journal[tree[e].doc], q)
LinksClaimed == \A e \in Entries : tree[e] # NoLink /\ ~Gone(tree[e].doc) => LinkClaimed(e)

(* Every link of a purged document is on the list of a removal.            *)
TargetsApart ==
  \A d, e \in Docs : d # e => \A p \in Targets(d), q \in Targets(e) : Key(p) # Key(q)
LinkListed(e) ==
  \E c \in cleaning : /\ c.path \in Targets(tree[e].doc) /\ Entry(c.path) = e
                      /\ tree[e].blob \in c.hashes
LinksListed ==
  losses = 0 /\ TargetsApart =>
    \A e \in Entries : tree[e] # NoLink /\ Gone(tree[e].doc) => LinkListed(e)

(* The projection in progress.                                             *)
Ahead == {"finish", "supersede", "publish", "remove"}
Resolved == {"record", "supersede", "publish", "refresh", "remove"}
RunTyped ==
  /\ rd \in Runs
  /\ rd.at = "idle" => rd.doc = NoDoc
  /\ rd.at # "idle" => rd.doc \in Docs /\ rd.job # "none"
  /\ rd.at \notin Ahead => rd.moves = {}
  /\ rd.at \in Resolved => rd.cur.path \in Targets(rd.doc) /\ rd.cur.blob \in Blobs

(* What it has in hand is what the journal says.                           *)
InHand(r, j) ==
  /\ r.at \in Ahead => r.moves = PendingIn(j) /\ r.moves # {}
  /\ r.at \in {"project", "record", "refresh"} => PendingIn(j) = {}
  /\ r.at = "record" => r.prev = LastIn(j)
  /\ r.at = "refresh" => r.cur = LastIn(j)
  /\ r.at = "supersede" => \E n \in r.moves : r.prev = j[n].next
  /\ r.at \in {"publish", "remove"} => \E n \in r.moves : j[n].next = r.cur
RunInHand == rd.at # "idle" /\ ~Gone(rd.doc) => InHand(rd, journal[rd.doc])

(* While old links are removed, the new one is there and every other one   *)
(* of the document has its turn still to come.                             *)
RunRemoves ==
  rd.at = "remove" /\ ~Gone(rd.doc) =>
    /\ LinkAt(rd.cur.path) = [doc |-> rd.doc, blob |-> rd.cur.blob]
    /\ rd.todo \subseteq ClaimedIn(journal[rd.doc])
    /\ \A e \in Entries : tree[e] # NoLink /\ tree[e].doc = rd.doc =>
         e = Entry(rd.cur.path) \/ \E q \in rd.todo : Entry(q) = e

(* It works on the current target unless a job will come for the new one.  *)
RunCurrent ==
  rd.at \in Resolved /\ Live(rd.doc) /\ rd.doc \notin queued => rd.cur = Target(rd.doc)

(* Whoever has pending moves also has a job, or a job that failed.         *)
Waits(d) == d \in queued \cup ingest \cup failed
Backed ==
  /\ \A d \in Docs :
       ~Gone(d) /\ PendingIn(journal[d]) # {} /\ (rd.doc = d => rd.job = "boot") => Waits(d)
  /\ rd.at # "idle" /\ rd.job = "boot" /\ ~Gone(rd.doc) => Waits(rd.doc)

IInv ==
  /\ Typed /\ JournalsSound /\ ClaimsApart /\ LinksClaimed /\ LinksListed
  /\ RunTyped /\ RunInHand /\ RunRemoves /\ RunCurrent /\ Backed /\ RenderedWhenQuiet

-----------------------------------------------------------------------------
(* Journals.                                                               *)

LEMMA MoveFields ==
  ASSUME NEW j \in Seq(Moves), NEW n \in 1..Len(j)
  PROVE  /\ j[n] \in Moves /\ j[n].state \in {"pending", "applied"}
         /\ j[n].next \in Projections /\ j[n].prev \in Projections
  <1>1. j[n] \in Moves
    OBVIOUS
  <1>2. QED
    BY <1>1 DEF Moves

LEMMA SplitIs ==
  ASSUME NEW j \in Seq(Moves), NEW k, Split(j, k)
  PROVE  /\ PendingIn(j) = (k + 1)..Len(j)
         /\ AppliedIn(j) = 1..k
         /\ LastIn(j) = IF k = 0 THEN Nothing ELSE j[k].next
  <1>1. k \in Nat /\ k <= Len(j) /\ Len(j) \in Nat /\ DOMAIN j = 1..Len(j)
    BY DEF Split
  <1>2. AppliedIn(j) = 1..k
    BY <1>1 DEF Split, AppliedIn
  <1>3. PendingIn(j) = (k + 1)..Len(j)
    <2>1. \A n \in 1..Len(j) : j[n].state = "pending" <=> ~(j[n].state = "applied")
      BY MoveFields
    <2>2. QED
      BY <1>1, <2>1 DEF Split, PendingIn
  <1>4. CASE k = 0
    <2>1. AppliedIn(j) = {}
      BY <1>2, <1>4
    <2>2. QED
      BY <1>2, <1>3, <1>4, <2>1 DEF LastIn
  <1>5. CASE k # 0
    <2>0. k \in AppliedIn(j) /\ \A m \in AppliedIn(j) : m <= k
      BY <1>1, <1>2, <1>5
    <2>1. k \in AppliedIn(j) /\ AppliedIn(j) # {} /\ LatestIn(j, k)
      BY <2>0 DEF LatestIn
    <2>2. \A n \in AppliedIn(j) : LatestIn(j, n) => n = k
      BY <1>1, <1>2, <2>1 DEF LatestIn
    <2>3. (CHOOSE n \in AppliedIn(j) : LatestIn(j, n)) = k
      BY <2>1, <2>2
    <2>4. QED
      BY <1>2, <1>3, <1>5, <2>1, <2>3 DEF LastIn
  <1>6. QED
    BY <1>2, <1>3, <1>4, <1>5

LEMMA LastTyped ==
  ASSUME NEW j, Shaped(j), NEW T, Within(j, T)
  PROVE  /\ LastIn(j) \in Projections /\ LastIn(j).path \in T \cup {NoPath}
         /\ ClaimedIn(j) \subseteq T
  <1>1. PICK k \in 0..Len(j) : Split(j, k)
    BY DEF Shaped
  <1>2. j \in Seq(Moves) /\ DOMAIN j = 1..Len(j)
    BY DEF Shaped
  <1>3. LastIn(j) = IF k = 0 THEN Nothing ELSE j[k].next
    BY <1>1, <1>2, SplitIs
  <1>4. LastIn(j) \in Projections /\ LastIn(j).path \in T \cup {NoPath}
    <2>1. CASE k = 0
      BY <1>3, <2>1 DEF Nothing, Projections
    <2>2. CASE k # 0
      <3>1. k \in 1..Len(j)
        BY <1>2, <2>2
      <3>2. QED
        BY <1>2, <1>3, <2>2, <3>1, MoveFields DEF Within
    <2>3. QED
      BY <2>1, <2>2
  <1>5. ClaimedIn(j) \subseteq T
    BY <1>4 DEF ClaimedIn, PendingIn, Within
  <1>6. QED
    BY <1>4, <1>5

LEMMA EmptyJournal ==
  /\ Shaped(<<>>) /\ Anchored(<<>>) /\ PendingIn(<<>>) = {} /\ ClaimedIn(<<>>) = {}
  /\ LastIn(<<>>) = Nothing /\ \A T : Within(<<>>, T)
  <1>1. <<>> \in Seq(Moves) /\ Len(<<>>) = 0 /\ DOMAIN <<>> = {}
    OBVIOUS
  <1>2. Split(<<>>, 0)
    BY <1>1 DEF Split
  <1>3. PendingIn(<<>>) = {} /\ AppliedIn(<<>>) = {}
    BY <1>1 DEF PendingIn, AppliedIn
  <1>4. LastIn(<<>>) = Nothing
    BY <1>3 DEF LastIn
  <1>5. Nothing.path = NoPath
    BY DEF Nothing
  <1>6. ClaimedIn(<<>>) = {}
    BY <1>3, <1>4, <1>5 DEF ClaimedIn
  <1>7. Shaped(<<>>)
    BY <1>1, <1>2 DEF Shaped
  <1>8. QED
    BY <1>1, <1>3, <1>4, <1>6, <1>7 DEF Anchored, Within

(* recordPending                                                           *)
Appendable(j, m) ==
  /\ Shaped(j) /\ Anchored(j) /\ m \in Moves /\ m.state = "pending"
  /\ m.prev.path \in ClaimedIn(j) \cup {NoPath}
  /\ PendingIn(j) = {} => m.prev = LastIn(j)

Appended(j, m, i) ==
  /\ Shaped(i) /\ Anchored(i)
  /\ i[Len(j) + 1] = m /\ PendingIn(i) = PendingIn(j) \cup {Len(j) + 1}
  /\ ClaimedIn(j) \subseteq ClaimedIn(i)
  /\ ClaimedIn(i) \subseteq ClaimedIn(j) \cup {m.next.path}
  /\ \A p : HashesIn(j, p) \subseteq HashesIn(i, p)
  /\ \A T : Within(j, T) /\ m.next.path \in T /\ m.prev.path \in T \cup {NoPath} => Within(i, T)

LEMMA AppendMove ==
  ASSUME NEW j, NEW m, Appendable(j, m)
  PROVE  Appended(j, m, Append(j, m))
  <1> DEFINE i == Append(j, m)
  <1>0. /\ Shaped(j) /\ Anchored(j) /\ m \in Moves /\ m.state = "pending"
        /\ m.prev.path \in ClaimedIn(j) \cup {NoPath}
        /\ PendingIn(j) = {} => m.prev = LastIn(j)
    BY DEF Appendable
  <1>1. j \in Seq(Moves) /\ Len(j) \in Nat /\ DOMAIN j = 1..Len(j)
    BY <1>0 DEF Shaped
  <1>2. PICK k \in 0..Len(j) : Split(j, k)
    BY <1>0 DEF Shaped
  <1>3. /\ i \in Seq(Moves) /\ Len(i) = Len(j) + 1 /\ DOMAIN i = 1..(Len(j) + 1)
        /\ \A n \in 1..Len(j) : i[n] = j[n]
        /\ i[Len(j) + 1] = m
    BY <1>0, <1>1
  <1> HIDE DEF i
  <1>4. Split(i, k)
    <2>1. k \in 0..Len(i)
      BY <1>1, <1>3
    <2>2. ASSUME NEW n \in 1..Len(i) PROVE i[n].state = "applied" <=> n <= k
      <3>1. CASE n \in 1..Len(j)
        BY <1>2, <1>3, <3>1 DEF Split
      <3>2. CASE n = Len(j) + 1
        BY <1>0, <1>1, <1>2, <1>3, <3>2
      <3>3. QED
        BY <1>1, <1>3, <3>1, <3>2
    <2>3. QED
      BY <2>1, <2>2 DEF Split
  <1>5. Shaped(i)
    BY <1>1, <1>3, <1>4 DEF Shaped
  <1>6. /\ PendingIn(j) = (k + 1)..Len(j) /\ PendingIn(i) = (k + 1)..(Len(j) + 1)
        /\ LastIn(j) = (IF k = 0 THEN Nothing ELSE j[k].next)
        /\ LastIn(i) = (IF k = 0 THEN Nothing ELSE i[k].next)
    BY <1>1, <1>2, <1>3, <1>4, SplitIs
  <1>7. PendingIn(i) = PendingIn(j) \cup {Len(j) + 1}
    BY <1>1, <1>6
  <1>8. LastIn(i) = LastIn(j)
    BY <1>1, <1>3, <1>6
  <1>9. \A n \in PendingIn(j) : i[n] = j[n]
    BY <1>1, <1>3 DEF PendingIn
  <1>10. ClaimedIn(j) \subseteq ClaimedIn(i)
    BY <1>7, <1>8, <1>9 DEF ClaimedIn
  <1>11. ClaimedIn(i) \subseteq ClaimedIn(j) \cup {m.next.path}
    <2> SUFFICES ASSUME NEW p \in ClaimedIn(i), p # m.next.path PROVE p \in ClaimedIn(j)
      OBVIOUS
    <2>1. p # NoPath
      BY DEF ClaimedIn
    <2>2. CASE p = LastIn(i).path
      BY <1>8, <2>1, <2>2 DEF ClaimedIn
    <2>3. CASE \E n \in PendingIn(j) : p = i[n].next.path \/ p = i[n].prev.path
      <3>1. PICK n \in PendingIn(j) : p = j[n].next.path \/ p = j[n].prev.path
        BY <1>9, <2>3
      <3>2. QED
        BY <2>1, <3>1 DEF ClaimedIn
    <2>4. CASE p = i[Len(j) + 1].prev.path
      BY <1>0, <1>3, <2>1, <2>4
    <2>5. \/ p = LastIn(i).path
          \/ \E n \in PendingIn(i) : p = i[n].next.path \/ p = i[n].prev.path
      BY DEF ClaimedIn
    <2>6. QED
      BY <1>3, <1>7, <2>2, <2>3, <2>4, <2>5
  <1>12. Anchored(i)
    <2>1. CASE PendingIn(j) = {}
      BY <1>0, <1>3, <1>7, <1>8, <2>1 DEF Anchored
    <2>2. CASE PendingIn(j) # {}
      BY <1>0, <1>7, <1>8, <1>9, <2>2 DEF Anchored
    <2>3. QED
      BY <2>1, <2>2
  <1>13. \A n \in DOMAIN j : n \in DOMAIN i /\ i[n] = j[n]
    BY <1>1, <1>3
  <1>14. \A p : HashesIn(j, p) \subseteq HashesIn(i, p)
    BY <1>13 DEF HashesIn
  <1>15. ASSUME NEW T, Within(j, T), m.next.path \in T, m.prev.path \in T \cup {NoPath}
         PROVE  Within(i, T)
    <2>1. ASSUME NEW n \in DOMAIN i PROVE i[n] = m \/ n \in DOMAIN j
      BY <1>1, <1>3
    <2>2. QED
      BY <1>13, <1>15, <2>1 DEF Within
  <1>16. QED
    <2>1. Appended(j, m, i)
      BY <1>3, <1>5, <1>7, <1>10, <1>11, <1>12, <1>14, <1>15 DEF Appended
    <2>2. QED
      BY <2>1 DEF i

(* The closing transaction of finishPending.                               *)
Closing(j, cur, i) ==
  /\ Shaped(j) /\ PendingIn(j) # {} /\ cur \in Projections
  /\ i \in [1..Len(j) -> Moves]
  /\ \A n \in 1..Len(j) :
       /\ i[n].state = "applied" /\ i[n].prev = j[n].prev
       /\ i[n].next = IF n \in PendingIn(j) THEN cur ELSE j[n].next

Finished(j, cur, i) ==
  /\ Shaped(i) /\ Anchored(i) /\ PendingIn(i) = {}
  /\ ClaimedIn(i) = {cur.path} \ {NoPath}
  /\ cur.blob \in HashesIn(i, cur.path)
  /\ \A T : Within(j, T) /\ cur.path \in T => Within(i, T)

LEMMA ApplyMoves ==
  ASSUME NEW j, NEW cur, NEW i, Closing(j, cur, i)
  PROVE  Finished(j, cur, i)
  <1>0. /\ Shaped(j) /\ PendingIn(j) # {} /\ cur \in Projections
        /\ i \in [1..Len(j) -> Moves]
        /\ \A n \in 1..Len(j) :
             /\ i[n].state = "applied" /\ i[n].prev = j[n].prev
             /\ i[n].next = IF n \in PendingIn(j) THEN cur ELSE j[n].next
    BY DEF Closing
  <1>1. j \in Seq(Moves) /\ Len(j) \in Nat /\ DOMAIN j = 1..Len(j)
    BY <1>0 DEF Shaped
  <1>2. i \in Seq(Moves) /\ Len(i) = Len(j) /\ DOMAIN i = 1..Len(j)
    BY <1>0, <1>1
  <1>3. Split(i, Len(j))
    BY <1>0, <1>1, <1>2 DEF Split
  <1>4. Shaped(i)
    BY <1>0, <1>1, <1>2, <1>3 DEF Shaped
  <1>5. /\ PendingIn(i) = (Len(j) + 1)..Len(j)
        /\ LastIn(i) = IF Len(j) = 0 THEN Nothing ELSE i[Len(j)].next
    BY <1>0, <1>2, <1>3, SplitIs
  <1>6. PendingIn(i) = {}
    BY <1>0, <1>1, <1>5
  <1>7. Len(j) \in PendingIn(j) /\ Len(j) # 0 /\ Len(j) \in 1..Len(j)
    <2>1. PICK k \in 0..Len(j) : Split(j, k)
      BY <1>0 DEF Shaped
    <2>2. PendingIn(j) = (k + 1)..Len(j)
      BY <1>0, <1>1, <2>1, SplitIs
    <2>3. QED
      BY <1>0, <1>1, <2>2
  <1>8. LastIn(i) = cur
    BY <1>0, <1>5, <1>7
  <1>9. ClaimedIn(i) = {cur.path} \ {NoPath}
    BY <1>0, <1>6, <1>8 DEF ClaimedIn
  <1>10. cur.blob \in HashesIn(i, cur.path)
    BY <1>0, <1>2, <1>7 DEF HashesIn
  <1>11. ASSUME NEW T, Within(j, T), cur.path \in T PROVE Within(i, T)
    BY <1>0, <1>1, <1>2, <1>11 DEF Within
  <1>12. QED
    BY <1>4, <1>6, <1>8, <1>9, <1>10, <1>11 DEF Anchored, Finished

(* All of a journal's claims are among the paths of its pending moves.     *)
LEMMA ClaimsOfPending ==
  ASSUME NEW j, Anchored(j), PendingIn(j) # {}
  PROVE  ClaimedIn(j) = ({j[n].prev.path : n \in PendingIn(j)}
                          \cup {j[n].next.path : n \in PendingIn(j)}) \ {NoPath}
  BY DEF ClaimedIn, Anchored

-----------------------------------------------------------------------------
(* Readings: the model's operators are those of the journal.               *)

LEMMA Readings ==
  ASSUME NEW d
  PROVE  /\ Pending(d) = PendingIn(journal[d]) /\ LastApplied(d) = LastIn(journal[d])
         /\ ClaimedPaths(d) = ClaimedIn(journal[d])
         /\ \A p : JournalHashes(d, p) = HashesIn(journal[d], p)
  <1>1. Pending(d) = PendingIn(journal[d]) /\ Applied(d) = AppliedIn(journal[d])
    BY DEF Pending, PendingIn, Applied, AppliedIn
  <1>2. LastApplied(d) = LastIn(journal[d])
    BY DEF LastApplied, LastIn, IsLatest, LatestIn, Applied, AppliedIn
  <1>3. ClaimedPaths(d) = ClaimedIn(journal[d])
    BY <1>1, <1>2 DEF ClaimedPaths, ClaimedIn
  <1>4. \A p : JournalHashes(d, p) = HashesIn(journal[d], p)
    BY DEF JournalHashes, HashesIn
  <1>5. QED
    BY <1>1, <1>2, <1>3, <1>4

LEMMA ClaimedReading ==
  ASSUME NEW d, NEW p
  PROVE  ClaimedByOther(d, p) <=>
           \E e \in Docs \ {d} : \E q \in ClaimedIn(journal[e]) : Key(q) = Key(p)
  BY Readings DEF ClaimedByOther

LEMMA PathsOf ==
  ASSUME Typed, NEW d \in Docs
  PROVE  /\ Targets(d) \subseteq Paths /\ NoPath \notin Targets(d)
         /\ Target(d) \in Projections /\ Target(d).path = place[d]
         /\ Target(d).path \in Targets(d) /\ Target(d).blob \in Blobs
  <1>1. Targets(d) \subseteq Paths /\ NoPath \notin Targets(d)
    BY ConstantsAssumption DEF Typed, Targets
  <1>2. file[d] \in [original: Blobs, archive: Blobs \cup {NoBlob}] /\ place[d] \in Targets(d)
    BY DEF Typed
  <1> DEFINE b == IF file[d].archive = NoBlob THEN file[d].original ELSE file[d].archive
  <1>3. b \in Blobs
    BY <1>2
  <1>4. Target(d) = [path |-> place[d], blob |-> b]
    BY DEF Target
  <1> HIDE DEF b
  <1>5. QED
    BY <1>1, <1>2, <1>3, <1>4 DEF Projections

LEMMA EntryOf ==
  ASSUME Typed, NEW p \in Paths
  PROVE  Entry(p) \in Entries /\ \A q \in Paths : Entry(p) = Entry(q) => Key(p) = Key(q)
  BY FoldingAssumption DEF Typed, Entries, Entry, Key

LEMMA ClaimsTyped ==
  ASSUME Typed, JournalsSound, NEW d \in Docs
  PROVE  /\ ClaimedIn(journal[d]) \subseteq Targets(d)
         /\ LastIn(journal[d]) \in Projections
         /\ LastIn(journal[d]).path \in Targets(d) \cup {NoPath}
  BY LastTyped DEF JournalsSound

(* A link at a path that no other document claims is the document's own.   *)
LEMMA OnlyOwnLink ==
  ASSUME IInv, NEW d, NEW p \in Paths, ~ClaimedByOther(d, p),
         LinkAt(p) # NoLink, ~Gone(LinkAt(p).doc)
  PROVE  LinkAt(p).doc = d
  <1> DEFINE e == Entry(p)
             x == tree[e].doc
  <1>1. e \in Entries /\ tree[e] # NoLink /\ LinkAt(p) = tree[e]
    BY EntryOf DEF IInv, LinkAt
  <1>2. x \in Docs
    BY <1>1 DEF IInv, Typed, Links
  <1>3. LinkClaimed(e)
    BY <1>1 DEF IInv, LinksClaimed
  <1>4. PICK q \in ClaimedIn(journal[x]) : Entry(q) = e
    BY <1>3 DEF LinkClaimed
  <1>5. q \in Paths
    BY <1>2, ClaimsTyped, PathsOf DEF IInv
  <1>6. Key(q) = Key(p)
    BY <1>4, <1>5, EntryOf DEF IInv
  <1>7. QED
    BY <1>1, <1>2, <1>4, <1>6, ClaimedReading

-----------------------------------------------------------------------------
(* Frames.                                                                 *)

LEMMA JournalsFrame ==
  ASSUME JournalsSound, ClaimsApart, UNCHANGED <<setting, journal>>,
         \A d \in Docs : Gone(d)' => Gone(d)
  PROVE  JournalsSound' /\ ClaimsApart'
  BY DEF JournalsSound, ClaimsApart, Targets, Key

(* Documents that survive a step keep their journal.                       *)
Survive == \A d \in Docs : ~Gone(d)' => ~Gone(d) /\ journal'[d] = journal[d]

LEMMA LinksFrame ==
  ASSUME Typed, LinksClaimed, UNCHANGED <<setting, tree>>, Survive
  PROVE  LinksClaimed'
  <1>1. Entries' = Entries
    BY DEF Entries, Entry
  <1> SUFFICES ASSUME NEW e \in Entries, tree[e] # NoLink, ~Gone(tree[e].doc)'
               PROVE  LinkClaimed(e)'
    BY <1>1 DEF LinksClaimed, Gone
  <1> DEFINE d == tree[e].doc
  <1>2. d \in Docs
    BY DEF Typed, Links
  <1>3. ~Gone(d) /\ journal'[d] = journal[d]
    BY <1>2 DEF Survive, Gone
  <1>4. LinkClaimed(e)
    BY <1>3 DEF LinksClaimed
  <1>5. QED
    BY <1>3, <1>4 DEF LinkClaimed, Entry

LEMMA ListedFrame ==
  ASSUME Typed, LinksListed, UNCHANGED <<setting, tree>>,
         \A d \in Docs : Gone(d)' => Gone(d),
         losses' = 0 => losses = 0 /\ cleaning \subseteq cleaning'
  PROVE  LinksListed'
  <1>1. Entries' = Entries /\ TargetsApart' = TargetsApart
    BY DEF Entries, Entry, TargetsApart, Targets, Key
  <1> SUFFICES ASSUME losses' = 0, TargetsApart, NEW e \in Entries, tree[e] # NoLink,
                      Gone(tree[e].doc)'
               PROVE  LinkListed(e)'
    BY <1>1 DEF LinksListed, Gone
  <1>2. tree[e].doc \in Docs
    BY DEF Typed, Links
  <1>3. LinkListed(e)
    BY <1>2 DEF LinksListed, Gone
  <1>4. QED
    BY <1>3 DEF LinkListed, Targets, Entry

LEMMA RunFrame ==
  ASSUME RunTyped, RunInHand, RunRemoves, UNCHANGED <<setting, rd, tree>>, Survive
  PROVE  RunTyped' /\ RunInHand' /\ RunRemoves'
  <1>1. RunTyped'
    BY DEF RunTyped, Targets
  <1>2. rd.at # "idle" /\ ~Gone(rd.doc)' => ~Gone(rd.doc) /\ journal'[rd.doc] = journal[rd.doc]
    BY DEF RunTyped, Survive, Gone
  <1>3. RunInHand'
    BY <1>2 DEF RunInHand, Gone
  <1>4. Entries' = Entries
    BY DEF Entries, Entry
  <1>5. RunRemoves'
    BY <1>2, <1>4 DEF RunRemoves, Gone, LinkAt, Entry
  <1>6. QED
    BY <1>1, <1>3, <1>5

(* A document that is at rest after the step was so before it, with the    *)
(* same target.                                                            *)
Rests(d) == Live(d) /\ ~Waits(d) /\ rd.doc # d
RestedBefore(d) == Rests(d)' => Rests(d) /\ place'[d] = place[d] /\ Target(d)' = Target(d)

LEMMA QuietFrame ==
  ASSUME RenderedWhenQuiet, UNCHANGED <<setting, tree>>, \A d \in Docs : RestedBefore(d)
  PROVE  RenderedWhenQuiet'
  BY DEF RenderedWhenQuiet, RestedBefore, Rests, Waits, LinkAt, Entry

(* Steps beside the projection.                                            *)
LEMMA Aside ==
  ASSUME IInv, Typed', UNCHANGED <<setting, rd, journal, tree>>,
         \A d \in Docs : Gone(d)' = Gone(d),
         losses' = 0 => losses = 0 /\ cleaning \subseteq cleaning',
         \A d \in Docs : Waits(d) => Waits(d)',
         \A d \in Docs : Live(d)' /\ d \notin queued' =>
           Live(d) /\ d \notin queued /\ place'[d] = place[d] /\ Target(d)' = Target(d)
  PROVE  IInv'
  <1>1. Survive
    BY DEF Survive
  <1>2. JournalsSound' /\ ClaimsApart' /\ LinksClaimed' /\ LinksListed'
    BY <1>1, JournalsFrame, LinksFrame, ListedFrame DEF IInv
  <1>3. RunTyped' /\ RunInHand' /\ RunRemoves'
    BY <1>1, RunFrame DEF IInv
  <1>4. RunCurrent'
    BY DEF RunCurrent, IInv, RunTyped, Resolved, Live, Target
  <1>5. Backed'
    BY DEF Backed, IInv, RunTyped, Gone, Waits
  <1>6. RenderedWhenQuiet'
    BY QuietFrame DEF IInv, RestedBefore, Rests, Waits
  <1>7. QED
    BY <1>2, <1>3, <1>4, <1>5, <1>6 DEF IInv

(* Steps of the projection that touch neither the journal nor the tree.    *)
LEMMA RunMoves ==
  ASSUME IInv, Typed', UNCHANGED <<setting, status, journal, tree>>,
         losses' = 0 => losses = 0 /\ cleaning \subseteq cleaning',
         RunTyped', RunInHand', rd'.at # "remove", RunCurrent', Backed',
         \A d \in Docs : RestedBefore(d)
  PROVE  IInv'
  <1>1. Survive /\ \A d \in Docs : Gone(d)' => Gone(d)
    BY DEF Survive, Gone
  <1>2. JournalsSound' /\ ClaimsApart' /\ LinksClaimed' /\ LinksListed'
    BY <1>1, JournalsFrame, LinksFrame, ListedFrame DEF IInv
  <1>3. RunRemoves' /\ RenderedWhenQuiet'
    BY QuietFrame DEF RunRemoves, IInv
  <1>4. QED
    BY <1>2, <1>3 DEF IInv

-----------------------------------------------------------------------------
(* Documents change.                                                       *)

LEMMA IdleRun ==
  /\ Idle \in Runs /\ Idle.at = "idle" /\ Idle.doc = NoDoc /\ Idle.job = "none"
  /\ Idle.moves = {} /\ Idle.todo = {}
  BY DEF Idle, Runs, Stages, Nothing, Projections

LEMMA InitSound == Init => IInv
  <1> SUFFICES ASSUME Init PROVE IInv
    OBVIOUS
  <1>1. Typed
    <2>1. setting \in Settings /\ losses \in Nat /\ cleaning = {}
      BY DEF Init
    <2>2. status \in [Docs -> {"live", "trashed", "purged"}]
      BY DEF Init
    <2>3. place \in [Docs -> Paths] /\ \A d \in Docs : place[d] \in Targets(d)
      BY DEF Init
    <2>4. file \in [Docs -> [original: Blobs, archive: Blobs \cup {NoBlob}]]
      BY DEF Init
    <2>5. tree \in [Entries -> Links \cup {NoLink}]
      BY DEF Init
    <2>6. QED
      BY <2>1, <2>2, <2>3, <2>4, <2>5 DEF Typed
  <1>2. journal = [d \in Docs |-> <<>>] /\ rd = Idle /\ ingest = Docs
        /\ tree = [e \in Entries |-> NoLink]
    BY DEF Init
  <1>3. JournalsSound /\ ClaimsApart
    BY <1>2, EmptyJournal DEF JournalsSound, ClaimsApart
  <1>4. LinksClaimed /\ LinksListed
    BY <1>2 DEF LinksClaimed, LinksListed
  <1>5. RunTyped
    BY <1>2, IdleRun DEF RunTyped, Resolved
  <1>6. RunInHand /\ RunRemoves /\ RunCurrent
    BY <1>2, IdleRun DEF RunInHand, RunRemoves, RunCurrent, Resolved
  <1>7. Backed /\ RenderedWhenQuiet
    BY <1>2, IdleRun DEF Backed, Waits, RenderedWhenQuiet
  <1>8. QED
    BY <1>1, <1>3, <1>4, <1>5, <1>6, <1>7 DEF IInv

LEMMA EditKeeps ==
  ASSUME IInv, setting' = setting, NEW d \in Docs, Edit(d)
  PROVE  IInv'
  <1>1. PICK p \in Targets(d) : place' = [place EXCEPT ![d] = p]
    BY DEF Edit
  <1>2. /\ UNCHANGED <<status, file, rd, journal, tree, losses, cleaning, ingest, failed>>
        /\ queued' = IF status[d] = "live" THEN queued \cup {d} ELSE queued
    BY DEF Edit, EnqueueMove
  <1>3. /\ place' \in [Docs -> Paths] /\ place'[d] = p
        /\ \A e \in Docs : e # d => place'[e] = place[e]
    BY <1>1, PathsOf DEF IInv, Typed
  <1>4. Typed'
    BY <1>2, <1>3 DEF IInv, Typed, Targets, Entries, Entry
  <1>5. \A e \in Docs : Live(e)' /\ e \notin queued' =>
          Live(e) /\ e \notin queued /\ place'[e] = place[e] /\ Target(e)' = Target(e)
    BY <1>2, <1>3 DEF Live, Target
  <1>6. QED
    BY <1>2, <1>4, <1>5, Aside DEF Gone, Waits

LEMMA RescanKeeps ==
  ASSUME IInv, setting' = setting, NEW d \in Docs, Rescan(d)
  PROVE  IInv'
  <1>1. /\ UNCHANGED <<status, place, file, rd, journal, tree, losses, cleaning, queued, failed>>
        /\ ingest' = ingest \cup {d}
    BY DEF Rescan
  <1>2. Typed'
    BY <1>1 DEF IInv, Typed, Targets, Entries, Entry
  <1>3. \A e \in Docs : Live(e)' /\ e \notin queued' =>
          Live(e) /\ e \notin queued /\ place'[e] = place[e] /\ Target(e)' = Target(e)
    BY <1>1 DEF Live, Target
  <1>4. QED
    BY <1>1, <1>2, <1>3, Aside DEF Gone, Waits

LEMMA TrashKeeps ==
  ASSUME IInv, setting' = setting, NEW d \in Docs, Trash(d) \/ Restore(d)
  PROVE  IInv'
  <1>1. PICK new \in {"live", "trashed"} :
          status' = [status EXCEPT ![d] = new] /\ (new = "live" => d \in queued')
    BY DEF Trash, Restore
  <1>2. /\ UNCHANGED <<place, file, rd, journal, tree, losses, cleaning, ingest, failed>>
        /\ queued \subseteq queued' /\ queued' \subseteq queued \cup {d}
        /\ status[d] \in {"live", "trashed"}
    BY DEF Trash, Restore, jobs
  <1>3. /\ status' \in [Docs -> {"live", "trashed", "purged"}] /\ status'[d] = new
        /\ \A e \in Docs : e # d => status'[e] = status[e]
    BY <1>1 DEF IInv, Typed
  <1>4. Typed'
    BY <1>2, <1>3 DEF IInv, Typed, Targets, Entries, Entry
  <1>5. \A e \in Docs : Live(e)' /\ e \notin queued' =>
          Live(e) /\ e \notin queued /\ place'[e] = place[e] /\ Target(e)' = Target(e)
    BY <1>1, <1>2, <1>3 DEF Live, Target
  <1>6. \A e \in Docs : Gone(e)' = Gone(e)
    BY <1>1, <1>2, <1>3 DEF Gone
  <1>7. QED
    BY <1>2, <1>4, <1>5, <1>6, Aside DEF Waits

LEMMA FailsKeeps ==
  ASSUME IInv, setting' = setting, NEW c \in cleaning, RemoveRenderedLinkFails(c)
  PROVE  IInv'
  <1>1. /\ UNCHANGED <<status, place, file, rd, journal, tree, queued, ingest, failed>>
        /\ losses' = losses + 1 /\ cleaning' \subseteq cleaning
    BY DEF RemoveRenderedLinkFails, jobs
  <1>2. losses \in Nat
    BY DEF IInv, Typed
  <1>3. Typed' /\ losses' # 0
    BY <1>1, <1>2 DEF IInv, Typed, Targets, Entries, Entry
  <1>4. \A e \in Docs : Live(e)' /\ e \notin queued' =>
          Live(e) /\ e \notin queued /\ place'[e] = place[e] /\ Target(e)' = Target(e)
    BY <1>1 DEF Live, Target
  <1>5. QED
    BY <1>1, <1>3, <1>4, Aside DEF Gone, Waits

-----------------------------------------------------------------------------
(* A projection begins, resolves and ends.                                 *)

LEMMA BeginRun ==
  ASSUME IInv, NEW d \in Docs, NEW job \in {"render", "ingest", "boot"}, Begin(d, job),
         UNCHANGED <<setting, status, journal>>
  PROVE  /\ RunTyped' /\ RunInHand' /\ RunCurrent' /\ rd'.at \notin {"idle", "remove"}
         /\ rd'.doc = d /\ rd'.job = job
  <1> DEFINE P == PendingIn(journal[d])
             b == [Idle EXCEPT !.doc = d, !.job = job, !.moves = P,
                     !.at = IF P # {} THEN "finish" ELSE "project",
                     !.phase = IF P # {} THEN "recover" ELSE "project"]
  <1>1. rd' = b
    BY Readings DEF Begin
  <1>2. P \in SUBSET Nat
    BY DEF PendingIn, IInv, JournalsSound, Shaped
  <1> HIDE DEF P
  <1>3. /\ b \in Runs /\ b.doc = d /\ b.job = job /\ b.moves = P
        /\ b.at = IF P # {} THEN "finish" ELSE "project"
    BY <1>2, IdleRun DEF Runs, Stages
  <1> HIDE DEF b
  <1>4. RunTyped'
    BY <1>1, <1>3 DEF RunTyped, Ahead, Resolved
  <1>5. RunInHand'
    BY <1>1, <1>3 DEF RunInHand, InHand, Ahead, P
  <1>6. RunCurrent'
    BY <1>1, <1>3 DEF RunCurrent, Resolved
  <1>7. QED
    BY <1>1, <1>3, <1>4, <1>5, <1>6

LEMMA EndRun ==
  ASSUME rd' = Idle
  PROVE  RunTyped' /\ RunInHand' /\ RunCurrent' /\ RunRemoves' /\ rd'.at = "idle" /\ rd'.doc = NoDoc
  <1>1. RunTyped'
    BY IdleRun DEF RunTyped, Resolved
  <1>2. QED
    BY <1>1, IdleRun DEF RunInHand, RunCurrent, RunRemoves, Resolved

LEMMA MoveKeeps ==
  ASSUME IInv, setting' = setting, NEW d \in Docs, Move(d)
  PROVE  IInv'
  <1>1. /\ UNCHANGED <<status, place, file, journal, tree, losses, cleaning, ingest>>
        /\ queued' = queued \ {d} /\ failed' = failed \ {d} /\ Begin(d, "render") /\ rd.at = "idle"
    BY DEF Move, world, CanRunJobs
  <1>2. Typed'
    BY <1>1 DEF IInv, Typed, Targets, Entries, Entry
  <1>3. /\ RunTyped' /\ RunInHand' /\ RunCurrent' /\ rd'.at \notin {"idle", "remove"}
        /\ rd'.doc = d /\ rd'.job = "render"
    BY <1>1, BeginRun
  <1>4. rd.doc = NoDoc /\ NoDoc \notin Docs
    BY <1>1, ConstantsAssumption DEF IInv, RunTyped
  <1>5. Backed'
    BY <1>1, <1>3, <1>4 DEF Backed, Waits, Gone, IInv
  <1>6. \A e \in Docs : RestedBefore(e)
    BY <1>1, <1>3, <1>4 DEF RestedBefore, Rests, Live, Waits, Target
  <1>7. QED
    BY <1>1, <1>2, <1>3, <1>5, <1>6, RunMoves

LEMMA ReconcileKeeps ==
  ASSUME IInv, setting' = setting, NEW d \in Docs, Reconcile(d)
  PROVE  IInv'
  <1>1. /\ UNCHANGED <<status, place, file, journal, tree, losses, cleaning, queued, ingest,
                       failed>>
        /\ rd.at = "idle"
    BY DEF Reconcile, world, jobs
  <1>2. Typed'
    BY <1>1 DEF IInv, Typed, Targets, Entries, Entry
  <1>3. rd.doc = NoDoc /\ NoDoc \notin Docs
    BY <1>1, ConstantsAssumption DEF IInv, RunTyped
  <1>4. CASE PendingIn(journal[d]) # {}
    <2>1. Begin(d, "boot")
      BY <1>4, Readings DEF Reconcile
    <2>2. /\ RunTyped' /\ RunInHand' /\ RunCurrent' /\ rd'.at \notin {"idle", "remove"}
          /\ rd'.doc = d /\ rd'.job = "boot"
      BY <1>1, <2>1, BeginRun
    <2>3. Backed'
      BY <1>1, <1>3, <1>4, <2>2 DEF Backed, Waits, Gone, IInv
    <2>4. \A e \in Docs : RestedBefore(e)
      BY <1>1, <1>3, <2>2 DEF RestedBefore, Rests, Live, Waits, Target
    <2>5. QED
      BY <1>1, <1>2, <2>2, <2>3, <2>4, RunMoves
  <1>5. CASE PendingIn(journal[d]) = {}
    <2>1. rd' = rd
      BY <1>5, Readings DEF Reconcile
    <2>2. \A e \in Docs : Live(e)' /\ e \notin queued' =>
            Live(e) /\ e \notin queued /\ place'[e] = place[e] /\ Target(e)' = Target(e)
      BY <1>1 DEF Live, Target
    <2>3. QED
      BY <1>1, <1>2, <2>1, <2>2, Aside DEF Gone, Waits
  <1>6. QED
    BY <1>4, <1>5

LEMMA LoadDocKeeps ==
  ASSUME IInv, setting' = setting, NEW d \in Docs, LoadDoc(d)
  PROVE  IInv'
  <1>1. /\ UNCHANGED <<status, place, file, journal, tree, losses, cleaning, queued>>
        /\ ingest' = ingest \ {d} /\ rd.at = "idle"
    BY DEF LoadDoc, world, CanRunJobs
  <1>2. Typed'
    BY <1>1 DEF IInv, Typed, Targets, Entries, Entry
  <1>3. rd.doc = NoDoc /\ NoDoc \notin Docs
    BY <1>1, ConstantsAssumption DEF IInv, RunTyped
  <1>4. CASE Live(d)
    <2> DEFINE b == [Idle EXCEPT !.doc = d, !.job = "ingest", !.at = "save"]
    <2>1. rd' = b /\ failed' = failed \ {d}
      BY <1>4 DEF LoadDoc
    <2>2. b \in Runs /\ b.doc = d /\ b.job = "ingest" /\ b.at = "save" /\ b.moves = {}
      BY IdleRun DEF Runs, Stages
    <2> HIDE DEF b
    <2>3. RunTyped' /\ RunCurrent' /\ rd'.at # "remove"
      BY <2>1, <2>2 DEF RunTyped, RunCurrent, Resolved
    <2>4. RunInHand'
      BY <2>1, <2>2 DEF RunInHand, InHand, Ahead
    <2>5. Backed'
      BY <1>1, <1>3, <2>1, <2>2 DEF Backed, Waits, Gone, IInv
    <2>6. \A e \in Docs : RestedBefore(e)
      BY <1>1, <1>3, <2>1, <2>2 DEF RestedBefore, Rests, Live, Waits, Target
    <2>7. QED
      BY <1>1, <1>2, <2>3, <2>4, <2>5, <2>6, RunMoves
  <1>5. CASE ~Live(d)
    <2>1. rd' = rd /\ failed' = failed \cup {d}
      BY <1>5 DEF LoadDoc
    <2>2. \A e \in Docs : Live(e)' /\ e \notin queued' =>
            Live(e) /\ e \notin queued /\ place'[e] = place[e] /\ Target(e)' = Target(e)
      BY <1>1 DEF Live, Target
    <2>3. \A e \in Docs : (Waits(e) => Waits(e)') /\ Gone(e)' = Gone(e)
      BY <1>1, <2>1 DEF Waits, Gone
    <2>4. QED
      BY <1>1, <1>2, <2>1, <2>2, <2>3, Aside
  <1>6. QED
    BY <1>4, <1>5

LEMMA UpdateDocKeeps ==
  ASSUME IInv, setting' = setting, UpdateDoc
  PROVE  IInv'
  <1> DEFINE d == rd.doc
  <1>1. /\ UNCHANGED <<status, journal, tree, losses, cleaning, queued, ingest, failed>>
        /\ rd.at = "save" /\ Begin(d, "ingest")
    BY DEF UpdateDoc, jobs
  <1>2. d \in Docs
    BY <1>1 DEF IInv, RunTyped
  <1> HIDE DEF d
  <1>3. Typed' /\ \A e \in Docs : e # d => place'[e] = place[e] /\ file'[e] = file[e]
    <2>1. CASE \E p \in Targets(d) : place' = [place EXCEPT ![d] = p] /\ file' = file
      <3>1. PICK p \in Targets(d) : place' = [place EXCEPT ![d] = p]
        BY <2>1
      <3>2. /\ place' \in [Docs -> Paths] /\ place'[d] = p
            /\ \A e \in Docs : e # d => place'[e] = place[e]
        BY <1>2, <3>1, PathsOf DEF IInv, Typed
      <3>3. QED
        BY <1>1, <2>1, <3>2 DEF IInv, Typed, Targets, Entries, Entry
    <2>2. CASE /\ \E a \in Blobs \cup {NoBlob} : file' = [file EXCEPT ![d].archive = a]
               /\ place' = place
      <3>1. PICK a \in Blobs \cup {NoBlob} : file' = [file EXCEPT ![d].archive = a]
        BY <2>2
      <3> DEFINE f == [file[d] EXCEPT !.archive = a]
      <3>2. file[d] \in [original: Blobs, archive: Blobs \cup {NoBlob}]
        BY <1>2 DEF IInv, Typed
      <3>3. f \in [original: Blobs, archive: Blobs \cup {NoBlob}]
        BY <3>2
      <3>4. file' = [file EXCEPT ![d] = f]
        BY <3>1
      <3> HIDE DEF f
      <3>5. /\ file' \in [Docs -> [original: Blobs, archive: Blobs \cup {NoBlob}]]
            /\ \A e \in Docs : e # d => file'[e] = file[e]
        BY <1>2, <3>3, <3>4 DEF IInv, Typed
      <3>6. QED
        BY <1>1, <2>2, <3>5 DEF IInv, Typed, Targets, Entries, Entry
    <2>3. QED
      BY <2>1, <2>2 DEF UpdateDoc, d
  <1>4. /\ RunTyped' /\ RunInHand' /\ RunCurrent' /\ rd'.at \notin {"idle", "remove"}
        /\ rd'.doc = d /\ rd'.job = "ingest"
    BY <1>1, <1>2, BeginRun
  <1>5. Backed'
    BY <1>1, <1>4 DEF Backed, Waits, Gone, IInv, d
  <1>6. \A e \in Docs : RestedBefore(e)
    BY <1>1, <1>3, <1>4 DEF RestedBefore, Rests, Live, Waits, Target, d
  <1>7. QED
    BY <1>1, <1>3, <1>4, <1>5, <1>6, RunMoves

LEMMA MarkEncryptedKeeps ==
  ASSUME IInv, setting' = setting, MarkEncrypted
  PROVE  IInv'
  <1>1. /\ UNCHANGED <<status, place, file, journal, tree, losses, cleaning, queued, ingest>>
        /\ rd' = Idle /\ failed' = failed \cup {rd.doc}
    BY DEF MarkEncrypted, world
  <1>2. Typed'
    BY <1>1 DEF IInv, Typed, Targets, Entries, Entry
  <1>3. RunTyped' /\ RunInHand' /\ RunCurrent' /\ rd'.at = "idle" /\ rd'.doc = NoDoc
    BY <1>1, EndRun
  <1>4. Backed'
    BY <1>1, <1>3 DEF Backed, Waits, Gone, IInv
  <1>5. \A e \in Docs : RestedBefore(e)
    BY <1>1, <1>3 DEF RestedBefore, Rests, Live, Waits, Target
  <1>6. QED
    BY <1>1, <1>2, <1>3, <1>4, <1>5, RunMoves

(* Whoever gives up leaves a job behind, or a job that failed.             *)
LEMMA GiveUpKeeps ==
  ASSUME IInv, setting' = setting, GiveUp, rd.at # "idle"
  PROVE  IInv'
  <1>1. /\ UNCHANGED <<status, place, file, journal, tree, losses, cleaning>> /\ rd' = Idle
    BY DEF GiveUp, world
  <1>2. /\ queued \subseteq queued' /\ ingest \subseteq ingest' /\ failed \subseteq failed'
        /\ rd.job = "boot" \/ Gone(rd.doc) \/ rd.doc \in queued' \cup ingest' \cup failed'
    <2>1. CASE rd.job = "boot" \/ status[rd.doc] = "purged"
      BY <2>1 DEF GiveUp, jobs, Gone
    <2>2. CASE ~(rd.job = "boot" \/ status[rd.doc] = "purged")
      BY <2>2 DEF GiveUp
    <2>3. QED
      BY <2>1, <2>2
  <1>3. Typed'
    BY <1>1 DEF IInv, Typed, Targets, Entries, Entry
  <1>4. RunTyped' /\ RunInHand' /\ RunCurrent' /\ rd'.at = "idle" /\ rd'.doc = NoDoc
    BY <1>1, EndRun
  <1>5. Backed'
    BY <1>1, <1>2, <1>4 DEF Backed, Waits, Gone, IInv
  <1>6. \A e \in Docs : RestedBefore(e)
    BY <1>1, <1>2, <1>4 DEF RestedBefore, Rests, Live, Waits, Target, IInv, Backed, Gone
  <1>7. QED
    BY <1>1, <1>3, <1>4, <1>5, <1>6, RunMoves

LEMMA CrashKeeps ==
  ASSUME IInv, setting' = setting, Crash
  PROVE  IInv'
  <1>1. /\ UNCHANGED <<status, place, file, journal, tree, failed>> /\ rd' = Idle
        /\ losses' = losses + 1 /\ cleaning' = {}
        /\ queued' = queued \cup Orphan("render") /\ ingest' = ingest \cup Orphan("ingest")
    BY DEF Crash
  <1>2. losses' \in Nat /\ losses' # 0
    BY <1>1 DEF IInv, Typed
  <1>3. Typed'
    BY <1>1, <1>2 DEF IInv, Typed, Targets, Entries, Entry
  <1>4. RunTyped' /\ RunInHand' /\ RunCurrent' /\ rd'.at = "idle" /\ rd'.doc = NoDoc
    BY <1>1, EndRun
  <1>5. ASSUME NEW d \in Docs, ~Gone(d), rd.doc = d PROVE Waits(d)'
    <2>1. rd.job \in {"render", "ingest", "boot"} /\ rd.at # "idle"
      BY <1>5, ConstantsAssumption DEF IInv, RunTyped, Runs
    <2>2. CASE rd.job = "boot"
      BY <1>1, <1>5, <2>1, <2>2 DEF IInv, Backed, Waits
    <2>3. CASE rd.job = "render"
      BY <1>1, <1>5, <2>3 DEF Orphan, Waits, Gone
    <2>4. CASE rd.job = "ingest"
      BY <1>1, <1>5, <2>4 DEF Orphan, Waits, Gone
    <2>5. QED
      BY <2>1, <2>2, <2>3, <2>4
  <1>6. Backed'
    BY <1>1, <1>4, <1>5 DEF Backed, Waits, Gone, IInv
  <1>7. \A e \in Docs : RestedBefore(e)
    BY <1>1, <1>4, <1>5 DEF RestedBefore, Rests, Live, Waits, Target, Gone
  <1>8. QED
    BY <1>1, <1>2, <1>3, <1>4, <1>6, <1>7, RunMoves

(* The projection in hand takes another step.                              *)
LEMMA SameRun ==
  ASSUME IInv, rd'.doc = rd.doc, rd'.job = rd.job, rd.at # "idle",
         UNCHANGED <<status, place, file, queued, ingest, failed>>,
         \A d \in Docs : ~Gone(d) => d = rd.doc \/ journal'[d] = journal[d]
  PROVE  /\ \A d \in Docs : RestedBefore(d)
         /\ Backed'
  <1>1. \A d \in Docs : RestedBefore(d)
    BY DEF RestedBefore, Rests, Live, Waits, Target
  <1>2. Backed'
    BY DEF Backed, Waits, Gone, IInv
  <1>3. QED
    BY <1>1, <1>2

LEMMA ProjectKeeps ==
  ASSUME IInv, setting' = setting, Project
  PROVE  IInv'
  <1> DEFINE d == rd.doc
             t == Target(d)
             l == LastApplied(d)
             b == [rd EXCEPT !.cur = t, !.prev = l, !.at = IF l = t THEN "refresh" ELSE "record"]
  <1>1. /\ UNCHANGED <<status, place, file, journal, tree, losses, cleaning, queued, ingest,
                       failed>>
        /\ rd' = b /\ rd.at = "project" /\ Live(d)
    BY DEF Project, world, jobs
  <1>2. d \in Docs /\ ~Gone(d) /\ rd \in Runs /\ rd.moves = {} /\ PendingIn(journal[d]) = {}
    BY <1>1 DEF IInv, RunTyped, RunInHand, InHand, Gone, Live, Ahead
  <1>3. /\ t \in Projections /\ t.path \in Targets(d) /\ t.blob \in Blobs
        /\ l \in Projections /\ l = LastIn(journal[d])
    BY <1>2, PathsOf, ClaimsTyped, Readings DEF IInv
  <1>4. t = [path |-> place[d], blob |-> IF file[d].archive = NoBlob THEN file[d].original
                                          ELSE file[d].archive]
    BY DEF Target
  <1> HIDE DEF t, l
  <1>5. /\ b \in Runs /\ b.doc = rd.doc /\ b.job = rd.job /\ b.cur = t /\ b.prev = l
        /\ b.moves = rd.moves /\ b.at = IF l = t THEN "refresh" ELSE "record"
    BY <1>2, <1>3 DEF Runs, Stages
  <1> HIDE DEF b
  <1>6. Typed'
    BY <1>1 DEF IInv, Typed, Targets, Entries, Entry
  <1>7. RunTyped'
    BY <1>1, <1>2, <1>3, <1>5 DEF RunTyped, IInv, Ahead, Targets
  <1>8. RunInHand'
    BY <1>1, <1>2, <1>3, <1>5 DEF RunInHand, InHand, Ahead
  <1>9. RunCurrent'
    BY <1>1, <1>4, <1>5 DEF RunCurrent, Target
  <1>10. Backed' /\ \A e \in Docs : RestedBefore(e)
    BY <1>1, <1>5, SameRun
  <1>11. QED
    BY <1>1, <1>5, <1>6, <1>7, <1>8, <1>9, <1>10, RunMoves

LEMMA FinishKeeps ==
  ASSUME IInv, setting' = setting, Finish
  PROVE  IInv'
  <1> DEFINE d == rd.doc
             t == Target(d)
  <1>1. /\ UNCHANGED <<status, place, file, journal, tree, losses, cleaning, queued, ingest,
                       failed>>
        /\ rd.at = "finish" /\ Live(d) /\ rd.moves \subseteq DOMAIN journal[d]
    BY DEF Finish, world, jobs
  <1>2. PICK n \in rd.moves :
          rd' = [rd EXCEPT !.cur = t, !.prev = journal[d][n].next,
                   !.at = IF journal[d][n].next = t THEN "publish" ELSE "supersede"]
    BY DEF Finish
  <1> DEFINE l == journal[d][n].next
             b == [rd EXCEPT !.cur = t, !.prev = l,
                     !.at = IF l = t THEN "publish" ELSE "supersede"]
  <1>3. rd' = b
    BY <1>2
  <1>4. d \in Docs /\ ~Gone(d) /\ rd \in Runs /\ rd.moves = PendingIn(journal[d])
    BY <1>1 DEF IInv, RunTyped, RunInHand, InHand, Gone, Live, Ahead
  <1>5. t \in Projections /\ t.path \in Targets(d) /\ t.blob \in Blobs
    BY <1>4, PathsOf DEF IInv
  <1>6. l \in Projections
    <2>1. journal[d] \in Seq(Moves)
      BY <1>4 DEF IInv, JournalsSound, Shaped
    <2>2. DOMAIN journal[d] = 1..Len(journal[d]) /\ n \in DOMAIN journal[d]
      BY <1>1, <2>1
    <2>3. QED
      BY <2>1, <2>2, MoveFields
  <1>7. t = [path |-> place[d], blob |-> IF file[d].archive = NoBlob THEN file[d].original
                                          ELSE file[d].archive]
    BY DEF Target
  <1> HIDE DEF t, l
  <1>8. /\ b \in Runs /\ b.doc = rd.doc /\ b.job = rd.job /\ b.cur = t /\ b.prev = l
        /\ b.moves = rd.moves /\ b.at = IF l = t THEN "publish" ELSE "supersede"
    BY <1>4, <1>5, <1>6 DEF Runs, Stages
  <1> HIDE DEF b
  <1>9. Typed'
    BY <1>1 DEF IInv, Typed, Targets, Entries, Entry
  <1>10. RunTyped'
    BY <1>3, <1>4, <1>5, <1>8, <1>1 DEF RunTyped, IInv, Ahead, Targets
  <1>11. RunInHand'
    BY <1>1, <1>3, <1>4, <1>8 DEF RunInHand, InHand, Ahead, l
  <1>12. RunCurrent'
    BY <1>1, <1>3, <1>7, <1>8 DEF RunCurrent, Target
  <1>13. Backed' /\ \A e \in Docs : RestedBefore(e)
    BY <1>1, <1>3, <1>8, SameRun
  <1>14. QED
    BY <1>1, <1>3, <1>8, <1>9, <1>10, <1>11, <1>12, <1>13, RunMoves

-----------------------------------------------------------------------------
(* Steps that write the journal.                                           *)

(* The journal of one document is replaced by one whose claims no other    *)
(* document has.                                                           *)
LEMMA JournalStep ==
  ASSUME JournalsSound, ClaimsApart, setting' = setting, NEW d \in Docs,
         journal' = [e \in Docs |-> journal'[e]],
         \A e \in Docs : e # d => journal'[e] = journal[e],
         Shaped(journal'[d]), Anchored(journal'[d]), Within(journal'[d], Targets(d)),
         Gone(d)' => journal'[d] = <<>>,
         \A e \in Docs : e # d => Gone(e)' = Gone(e),
         \A e \in Docs : e # d =>
           \A p \in ClaimedIn(journal'[d]), q \in ClaimedIn(journal[e]) : Key(p) # Key(q)
  PROVE  JournalsSound' /\ ClaimsApart'
  <1>1. JournalsSound'
    BY DEF JournalsSound, Targets
  <1>2. ClaimsApart'
    <2> SUFFICES ASSUME NEW x \in Docs, NEW y \in Docs, x # y,
                        NEW p \in ClaimedIn(journal'[x]), NEW q \in ClaimedIn(journal'[y])
                 PROVE  Key(p) # Key(q)
      BY DEF ClaimsApart, Key
    <2>1. CASE x # d /\ y # d
      BY <2>1 DEF ClaimsApart
    <2>2. CASE x = d
      BY <2>2
    <2>3. CASE y = d
      BY <2>3
    <2>4. QED
      BY <2>1, <2>2, <2>3
  <1>3. QED
    BY <1>1, <1>2

LEMMA LastHash ==
  ASSUME NEW j, Shaped(j), LastIn(j).path # NoPath
  PROVE  LastIn(j).blob \in HashesIn(j, LastIn(j).path)
  <1>1. PICK k \in 0..Len(j) : Split(j, k)
    BY DEF Shaped
  <1>2. j \in Seq(Moves) /\ DOMAIN j = 1..Len(j) /\ Len(j) \in Nat
    BY DEF Shaped
  <1>3. LastIn(j) = IF k = 0 THEN Nothing ELSE j[k].next
    BY <1>1, <1>2, SplitIs
  <1>4. k # 0
    BY <1>3 DEF Nothing
  <1>5. k \in DOMAIN j /\ LastIn(j) = j[k].next
    BY <1>2, <1>3, <1>4
  <1>6. QED
    BY <1>5 DEF HashesIn

LEMMA RecordKeeps ==
  ASSUME IInv, setting' = setting, RecordPending
  PROVE  IInv'
  <1>0. rd.doc \in Docs
    BY DEF RecordPending, IInv, RunTyped
  <1> PICK d \in Docs : d = rd.doc
    BY <1>0
  <1> PICK j : j = journal[d]
    OBVIOUS
  <1> PICK m : m = [prev |-> rd.prev, next |-> rd.cur, state |-> "pending"]
    OBVIOUS
  <1> PICK i : i = Append(j, m)
    OBVIOUS
  <1> DEFINE b == [rd EXCEPT !.moves = @ \cup {Len(j) + 1},
                             !.at = IF rd.at = "record" THEN "finish" ELSE "publish"]
  <1>1. /\ UNCHANGED <<status, place, file, tree, losses, cleaning, queued, ingest, failed>>
        /\ rd.at \in {"record", "supersede"} /\ MayClaim(d, rd.cur.path)
        /\ journal' = [journal EXCEPT ![d] = i] /\ rd' = b
    BY DEF RecordPending, world, jobs
  <1>2. /\ ~Gone(d) /\ rd \in Runs /\ InHand(rd, j)
        /\ rd.cur.path \in Targets(d) /\ rd.cur.blob \in Blobs
    BY <1>1 DEF IInv, RunTyped, RunInHand, Resolved, MayClaim, Gone
  <1>3. Shaped(j) /\ Anchored(j) /\ Within(j, Targets(d)) /\ j \in Seq(Moves)
    BY <1>2 DEF IInv, JournalsSound, Shaped
  <1>4. /\ PendingIn(j) = {} => rd.prev = LastIn(j)
        /\ rd.prev.path \in ClaimedIn(j) \cup {NoPath}
        /\ rd.moves = PendingIn(j)
    <2>1. CASE rd.at = "record"
      <3>1. rd.prev = LastIn(j) /\ PendingIn(j) = {} /\ rd.moves = {}
        BY <1>2, <2>1 DEF InHand, IInv, RunTyped, Ahead
      <3>2. QED
        BY <3>1 DEF ClaimedIn
    <2>2. CASE rd.at = "supersede"
      <3>1. rd.moves = PendingIn(j) /\ rd.moves # {} /\ \E n \in rd.moves : rd.prev = j[n].next
        BY <1>2, <2>2 DEF InHand, Ahead
      <3>2. QED
        BY <3>1 DEF ClaimedIn
    <2>3. QED
      BY <1>1, <2>1, <2>2
  <1>5. /\ m \in Moves /\ m.state = "pending" /\ m.prev = rd.prev /\ m.next = rd.cur
    BY <1>2 DEF Moves, Runs
  <1>6. /\ Shaped(i) /\ Anchored(i)
        /\ i[Len(j) + 1] = m /\ PendingIn(i) = PendingIn(j) \cup {Len(j) + 1}
        /\ ClaimedIn(j) \subseteq ClaimedIn(i)
        /\ ClaimedIn(i) \subseteq ClaimedIn(j) \cup {m.next.path}
        /\ \A p : HashesIn(j, p) \subseteq HashesIn(i, p)
        /\ \A T : /\ Within(j, T) /\ m.next.path \in T /\ m.prev.path \in T \cup {NoPath}
                 => Within(i, T)
    <2>1. Appendable(j, m)
      BY <1>3, <1>4, <1>5 DEF Appendable
    <2>2. Appended(j, m, i)
      BY <2>1, AppendMove
    <2>3. QED
      BY <2>2 DEF Appended
  <1>7. Len(j) + 1 \in Nat
    BY <1>3
  <1>8. /\ b \in Runs /\ b.doc = rd.doc /\ b.job = rd.job /\ b.cur = rd.cur
        /\ b.moves = rd.moves \cup {Len(j) + 1}
        /\ b.at = IF rd.at = "record" THEN "finish" ELSE "publish"
    BY <1>2, <1>7 DEF Runs, Stages
  <1> HIDE DEF b
  <1>9. Within(i, Targets(d))
    BY <1>2, <1>3, <1>4, <1>5, <1>6, ClaimsTyped DEF IInv
  <1>10. ASSUME NEW e \in Docs, e # d, NEW p \in ClaimedIn(i), NEW q \in ClaimedIn(journal[e])
         PROVE  Key(p) # Key(q)
    <2>1. CASE p \in ClaimedIn(j)
      BY <1>2, <1>10, <2>1 DEF IInv, ClaimsApart
    <2>2. CASE p = rd.cur.path
      BY <1>1, <1>10, <2>2, ClaimedReading DEF MayClaim
    <2>3. QED
      BY <1>5, <1>6, <2>1, <2>2
  <1>11. \A e \in Docs : Gone(e)' = Gone(e)
    BY <1>1 DEF Gone
  <1>12. /\ journal'[d] = i /\ journal' = [e \in Docs |-> journal'[e]]
         /\ \A e \in Docs : e # d => journal'[e] = journal[e]
    BY <1>1 DEF IInv, JournalsSound
  <1>13. JournalsSound' /\ ClaimsApart'
    <2>1. ~Gone(d)'
      BY <1>2, <1>11
    <2>2. \A e \in Docs : e # d =>
            \A p \in ClaimedIn(journal'[d]), q \in ClaimedIn(journal[e]) : Key(p) # Key(q)
      BY <1>10, <1>12
    <2>3. Shaped(journal'[d]) /\ Anchored(journal'[d]) /\ Within(journal'[d], Targets(d))
      BY <1>6, <1>9, <1>12
    <2>4. QED
      BY <1>11, <1>12, <2>1, <2>2, <2>3, JournalStep DEF IInv
  <1>14. Entries' = Entries /\ Typed'
    BY <1>1 DEF IInv, Typed, Targets, Entries, Entry
  <1>15. LinksClaimed'
    <2> SUFFICES ASSUME NEW e \in Entries, tree[e] # NoLink, ~Gone(tree[e].doc)'
                 PROVE  LinkClaimed(e)'
      BY <1>1, <1>14 DEF LinksClaimed, Gone
    <2>1. tree[e].doc \in Docs /\ LinkClaimed(e)
      BY <1>1 DEF IInv, Typed, Links, LinksClaimed, Gone
    <2>2. PICK q \in ClaimedIn(journal[tree[e].doc]) :
            Entry(q) = e /\ tree[e].blob \in HashesIn(journal[tree[e].doc], q)
      BY <2>1 DEF LinkClaimed
    <2>3. /\ q \in ClaimedIn(journal'[tree[e].doc])
          /\ tree[e].blob \in HashesIn(journal'[tree[e].doc], q)
      BY <1>6, <1>12, <2>1, <2>2
    <2>4. QED
      BY <1>1, <2>2, <2>3 DEF LinkClaimed, Entry
  <1>16. LinksListed'
    BY <1>1, <1>11, ListedFrame DEF IInv
  <1>17. RunTyped'
    BY <1>1, <1>2, <1>8 DEF RunTyped, IInv, Ahead, Targets
  <1>18. RunInHand' /\ RunRemoves'
    <2>1. Len(j) + 1 \in b.moves /\ i[Len(j) + 1].next = rd.cur /\ b.moves = PendingIn(i)
      BY <1>4, <1>5, <1>6, <1>8
    <2>2. journal'[rd'.doc] = i
      BY <1>1, <1>8, <1>12
    <2>3. InHand(b, i)
      BY <1>1, <1>8, <2>1 DEF InHand
    <2>4. QED
      BY <1>1, <1>8, <2>2, <2>3 DEF RunInHand, RunRemoves
  <1>19. RunCurrent'
    BY <1>1, <1>8 DEF RunCurrent, IInv, Resolved, Live, Target
  <1>20. (\A e \in Docs : RestedBefore(e)) /\ Backed'
    BY <1>1, <1>8, <1>12, SameRun
  <1>21. RenderedWhenQuiet'
    BY <1>1, <1>20, QuietFrame DEF IInv
  <1>22. QED
    BY <1>13, <1>14, <1>15, <1>16, <1>17, <1>18, <1>19, <1>20, <1>21 DEF IInv

(* The run that Apply leaves behind.                                       *)
LEMMA ApplyRun ==
  ASSUME IInv, Apply, UNCHANGED <<setting, status>>
  PROVE  /\ rd'.at \in {"idle", "project"} /\ rd'.moves = {}
         /\ rd'.at = "idle" => rd'.doc = NoDoc
         /\ rd'.at = "project" => rd'.doc = rd.doc /\ rd'.job = rd.job /\ rd'.job # "boot"
         /\ RunTyped' /\ RunCurrent' /\ RunRemoves'
  <1> DEFINE b == [Idle EXCEPT !.doc = rd.doc, !.job = rd.job,
                               !.phase = "project", !.at = "project"]
  <1>1. rd \in Runs /\ rd.doc \in Docs /\ rd.job # "none"
    BY DEF Apply, IInv, RunTyped
  <1>2. rd' = (IF rd.phase = "recover" /\ rd.job # "boot" THEN b ELSE Idle)
    BY DEF Apply
  <1>3. /\ b \in Runs /\ b.at = "project" /\ b.doc = rd.doc /\ b.job = rd.job /\ b.moves = {}
    BY <1>1, IdleRun DEF Runs, Stages
  <1> HIDE DEF b
  <1>4. CASE rd' = Idle
    BY <1>4, EndRun, IdleRun
  <1>5. CASE rd' = b /\ rd.job # "boot"
    BY <1>1, <1>3, <1>5 DEF RunTyped, RunCurrent, RunRemoves, Resolved
  <1>6. QED
    BY <1>2, <1>4, <1>5

LEMMA ApplyKeeps ==
  ASSUME IInv, setting' = setting, Apply
  PROVE  IInv'
  <1>0. rd.doc \in Docs
    BY DEF Apply, IInv, RunTyped
  <1> PICK d \in Docs : d = rd.doc
    BY <1>0
  <1> PICK j : j = journal[d]
    OBVIOUS
  <1> PICK cur : cur = rd.cur
    OBVIOUS
  <1>i. PICK i : i = [n \in DOMAIN j |-> IF n \in rd.moves
                      THEN [j[n] EXCEPT !.next = cur, !.state = "applied"] ELSE j[n]]
    OBVIOUS
  <1>1. /\ UNCHANGED <<status, place, file, tree, losses, cleaning, queued, ingest, failed>>
        /\ rd.at = "remove" /\ rd.todo = {} /\ journal' = [journal EXCEPT ![d] = i]
    BY <1>i DEF Apply, world, jobs
  <1>2. /\ rd'.at \in {"idle", "project"} /\ rd'.moves = {}
        /\ rd'.at = "idle" => rd'.doc = NoDoc
        /\ rd'.at = "project" => rd'.doc = d /\ rd'.job # "boot"
        /\ RunTyped' /\ RunCurrent' /\ RunRemoves'
    BY <1>1, ApplyRun
  <1>3. /\ journal'[d] = i /\ journal' = [e \in Docs |-> journal'[e]]
        /\ \A e \in Docs : e # d => journal'[e] = journal[e]
    BY <1>1 DEF IInv, JournalsSound
  <1>4. Entries' = Entries /\ Typed' /\ \A e \in Docs : Gone(e)' = Gone(e)
    <2>1. Entries' = Entries /\ Typed'
      BY <1>1 DEF IInv, Typed, Targets, Entries, Entry
    <2>2. QED
      BY <1>1, <2>1 DEF Gone
  <1>5. NoDoc # d /\ rd.job # "none"
    BY <1>1, ConstantsAssumption DEF IInv, RunTyped
  <1>6. CASE Gone(d)
    <2>1. j = <<>>
      BY <1>6 DEF IInv, JournalsSound
    <2>2. i = <<>>
      BY <1>i, <2>1
    <2>3. journal' = journal
      BY <1>1, <2>1, <2>2 DEF IInv, JournalsSound
    <2>4. RunInHand'
      BY <1>2, <1>4, <1>6 DEF RunInHand
    <2>5. Backed'
      BY <1>1, <1>2, <1>4, <1>5, <1>6, <2>3 DEF Backed, IInv, Waits
    <2>6. \A e \in Docs : RestedBefore(e)
      BY <1>1, <1>2, <1>6 DEF RestedBefore, Rests, Live, Waits, Target, Gone
    <2>7. QED
      BY <1>1, <1>2, <1>4, <2>3, <2>4, <2>5, <2>6, RunMoves
  <1>7. CASE ~Gone(d)
    <2>1. /\ rd \in Runs /\ cur \in Projections /\ cur.path \in Targets(d) /\ cur.blob \in Blobs
          /\ rd.moves = PendingIn(j) /\ PendingIn(j) # {} /\ \E n \in PendingIn(j) : j[n].next = cur
      BY <1>1, <1>7 DEF IInv, RunTyped, RunInHand, InHand, Resolved, Ahead, Runs
    <2>2. /\ Shaped(j) /\ j \in Seq(Moves) /\ DOMAIN j = 1..Len(j) /\ Within(j, Targets(d))
      <3>1. Shaped(j) /\ Within(j, Targets(d))
        BY DEF IInv, JournalsSound
      <3>2. QED
        BY <3>1 DEF Shaped
    <2>3. Closing(j, cur, i)
      <3>1. ASSUME NEW n \in 1..Len(j)
            PROVE  /\ i[n] \in Moves /\ i[n].state = "applied" /\ i[n].prev = j[n].prev
                   /\ i[n].next = IF n \in PendingIn(j) THEN cur ELSE j[n].next
        <4>1. j[n] \in Moves /\ j[n].state \in {"pending", "applied"}
          BY <2>2, MoveFields
        <4>2. CASE n \in PendingIn(j)
          <5> DEFINE m == [j[n] EXCEPT !.next = cur, !.state = "applied"]
          <5>1. m \in Moves /\ m.state = "applied" /\ m.prev = j[n].prev /\ m.next = cur
            BY <2>1, <4>1 DEF Moves
          <5>2. i[n] = m
            BY <1>i, <2>1, <2>2, <4>2
          <5>3. QED
            BY <4>2, <5>1, <5>2
        <4>3. CASE n \notin PendingIn(j)
          <5>1. i[n] = j[n]
            BY <1>i, <2>1, <2>2, <4>3
          <5>2. QED
            BY <2>2, <4>1, <4>3, <5>1 DEF PendingIn
        <4>4. QED
          BY <4>2, <4>3
      <3>2. i = [n \in 1..Len(j) |-> i[n]]
        BY <1>i, <2>2
      <3>3. i \in [1..Len(j) -> Moves]
        BY <3>1, <3>2
      <3>4. QED
        BY <2>1, <2>2, <3>1, <3>3 DEF Closing
    <2>4. Finished(j, cur, i)
      BY <2>3, ApplyMoves
    <2>5. /\ Shaped(i) /\ Anchored(i) /\ PendingIn(i) = {}
          /\ ClaimedIn(i) = {cur.path} \ {NoPath}
          /\ cur.blob \in HashesIn(i, cur.path) /\ Within(i, Targets(d))
      BY <2>1, <2>2, <2>4 DEF Finished
    <2>6. cur.path # NoPath /\ cur.path \in ClaimedIn(j) /\ ClaimedIn(i) = {cur.path}
      <3>1. cur.path # NoPath
        BY <2>1, PathsOf DEF IInv
      <3>2. QED
        BY <2>1, <2>5, <3>1 DEF ClaimedIn
    <2>7. JournalsSound' /\ ClaimsApart'
      <3>1. \A e \in Docs : e # d =>
              \A p \in ClaimedIn(journal'[d]), q \in ClaimedIn(journal[e]) : Key(p) # Key(q)
        <4>1. ClaimedIn(journal'[d]) \subseteq ClaimedIn(journal[d])
          BY <1>3, <2>6
        <4>2. QED
          BY <4>1 DEF IInv, ClaimsApart
      <3>2. Shaped(journal'[d]) /\ Anchored(journal'[d]) /\ Within(journal'[d], Targets(d))
        BY <1>3, <2>5
      <3>3. ~Gone(d)' /\ \A e \in Docs : e # d => Gone(e)' = Gone(e)
        BY <1>4, <1>7
      <3>4. QED
        BY <1>3, <3>1, <3>2, <3>3, JournalStep DEF IInv
    <2>8. /\ LinkAt(cur.path) = [doc |-> d, blob |-> cur.blob]
          /\ \A e \in Entries : tree[e] # NoLink /\ tree[e].doc = d => e = Entry(cur.path)
      BY <1>1, <1>7 DEF IInv, RunRemoves
    <2>9. LinksClaimed'
      <3> SUFFICES ASSUME NEW e \in Entries, tree[e] # NoLink, ~Gone(tree[e].doc)'
                   PROVE  LinkClaimed(e)'
        BY <1>1, <1>4 DEF LinksClaimed, Gone
      <3>1. tree[e].doc \in Docs /\ LinkClaimed(e)
        BY <1>1 DEF IInv, Typed, Links, LinksClaimed, Gone
      <3>2. CASE tree[e].doc = d
        <4>1. e = Entry(cur.path) /\ tree[e].blob = cur.blob
          <5>1. e = Entry(cur.path)
            BY <2>8, <3>2
          <5>2. tree[e] = [doc |-> d, blob |-> cur.blob]
            BY <2>8, <5>1 DEF LinkAt
          <5>3. QED
            BY <5>1, <5>2
        <4>2. QED
          BY <1>1, <1>3, <2>5, <2>6, <3>2, <4>1 DEF LinkClaimed, Entry
      <3>3. CASE tree[e].doc # d
        BY <1>1, <1>3, <3>1, <3>3 DEF LinkClaimed, Entry
      <3>4. QED
        BY <3>2, <3>3
    <2>10. LinksListed'
      BY <1>1, <1>4, ListedFrame DEF IInv
    <2>11. RunInHand'
      BY <1>2, <1>3, <2>5 DEF RunInHand, InHand, Ahead
    <2>12. Backed'
      BY <1>1, <1>2, <1>3, <1>4, <1>5, <2>5 DEF Backed, IInv, Waits
    <2>13. RenderedWhenQuiet'
      <3> SUFFICES ASSUME NEW e \in Docs, Rests(e)'
                   PROVE  LinkAt(place[e]) = [doc |-> e, blob |-> Target(e).blob]
        BY <1>1 DEF RenderedWhenQuiet, Rests, Waits, LinkAt, Entry, Target
      <3>1. Live(e) /\ ~Waits(e)
        BY <1>1 DEF Rests, Live, Waits
      <3>2. CASE e = d
        <4>1. cur = Target(d)
          BY <1>1, <3>1, <3>2 DEF IInv, RunCurrent, Resolved, Waits
        <4>2. QED
          BY <2>8, <3>2, <4>1, PathsOf DEF IInv
      <3>3. CASE e # d
        BY <3>1, <3>3 DEF IInv, RenderedWhenQuiet, Waits
      <3>4. QED
        BY <3>2, <3>3
    <2>14. QED
      BY <1>2, <1>4, <2>7, <2>9, <2>10, <2>11, <2>12, <2>13 DEF IInv
  <1>8. QED
    BY <1>6, <1>7

(* The purge: all that the document still has in the tree goes on the list *)
(* of removals.                                                            *)
LEMMA PurgeKeeps ==
  ASSUME IInv, setting' = setting, NEW d \in Docs, Purge(d)
  PROVE  IInv'
  <1>1. /\ UNCHANGED <<place, file, tree, rd, losses>> /\ status[d] = "trashed"
        /\ status' = [status EXCEPT ![d] = "purged"]
        /\ cleaning' = cleaning \cup Cleanup(d) /\ journal' = [journal EXCEPT ![d] = <<>>]
        /\ queued' = queued \ {d} /\ ingest' = ingest \ {d} /\ failed' = failed \ {d}
    BY DEF Purge
  <1>2. /\ journal'[d] = <<>> /\ journal' = [e \in Docs |-> journal'[e]]
        /\ \A e \in Docs : e # d => journal'[e] = journal[e]
    BY <1>1 DEF IInv, JournalsSound
  <1>3. /\ status' \in [Docs -> {"live", "trashed", "purged"}] /\ status'[d] = "purged"
        /\ \A e \in Docs : e # d => status'[e] = status[e]
    BY <1>1 DEF IInv, Typed
  <1>4. ~Gone(d) /\ Gone(d)' /\ \A e \in Docs : e # d => Gone(e)' = Gone(e)
    BY <1>1, <1>3 DEF Gone
  <1>5. Survive
    BY <1>2, <1>4 DEF Survive
  <1>6. \A q \in ClaimedIn(journal[d]) : [path |-> q, hashes |-> OwnHashes(d, q)] \in cleaning'
    BY <1>1, Readings DEF Cleanup
  <1>7. Typed'
    <2>1. \A c \in Cleanup(d) : c.path \in Paths
      BY Readings, ClaimsTyped, PathsOf DEF Cleanup, IInv
    <2>2. \A c \in cleaning' : c.path \in Paths
      BY <1>1, <2>1 DEF IInv, Typed
    <2>3. QED
      BY <1>1, <1>3, <2>2 DEF IInv, Typed, Targets, Entries, Entry
  <1>8. JournalsSound' /\ ClaimsApart'
    <2>1. /\ Shaped(journal'[d]) /\ Anchored(journal'[d]) /\ Within(journal'[d], Targets(d))
          /\ ClaimedIn(journal'[d]) = {}
      BY <1>2, EmptyJournal
    <2>2. \A e \in Docs : e # d =>
            \A p \in ClaimedIn(journal'[d]), q \in ClaimedIn(journal[e]) : Key(p) # Key(q)
      BY <2>1
    <2>3. QED
      BY <1>2, <1>4, <2>1, <2>2, JournalStep DEF IInv
  <1>9. LinksClaimed' /\ RunTyped' /\ RunInHand' /\ RunRemoves'
    BY <1>1, <1>5, LinksFrame, RunFrame DEF IInv
  <1>10. LinksListed'
    <2>1. Entries' = Entries /\ TargetsApart' = TargetsApart
      BY DEF Entries, Entry, TargetsApart, Targets, Key
    <2> SUFFICES ASSUME losses = 0, TargetsApart, NEW e \in Entries, tree[e] # NoLink,
                        Gone(tree[e].doc)'
                 PROVE  LinkListed(e)'
      BY <1>1, <2>1 DEF LinksListed, Gone
    <2>2. tree[e].doc \in Docs /\ tree[e].blob \in Blobs
      BY DEF IInv, Typed, Links
    <2>3. CASE tree[e].doc = d
      <3>1. LinkClaimed(e)
        BY <1>4, <2>3 DEF IInv, LinksClaimed
      <3>2. PICK q \in ClaimedIn(journal[d]) :
              Entry(q) = e /\ tree[e].blob \in HashesIn(journal[d], q)
        BY <2>3, <3>1 DEF LinkClaimed
      <3>3. tree[e].blob \in OwnHashes(d, q)
        BY <1>4, <2>2, <3>2, Readings, ConstantsAssumption DEF OwnHashes, Gone
      <3>4. q \in Targets(d)
        BY ClaimsTyped DEF IInv
      <3>5. PICK c \in cleaning' : c = [path |-> q, hashes |-> OwnHashes(d, q)]
        BY <1>6
      <3>6. QED
        BY <1>1, <2>3, <3>2, <3>3, <3>4, <3>5 DEF LinkListed, Targets, Entry
    <2>4. CASE tree[e].doc # d
      <3>1. LinkListed(e)
        BY <1>1, <1>4, <2>2, <2>4 DEF IInv, LinksListed, Gone
      <3>2. QED
        BY <1>1, <3>1 DEF LinkListed, Targets, Entry
    <2>5. QED
      BY <2>3, <2>4
  <1>11. RunCurrent'
    <2> SUFFICES ASSUME rd.at \in Resolved, Live(rd.doc)', rd.doc \notin queued'
                 PROVE  rd.cur = Target(rd.doc)
      BY <1>1 DEF RunCurrent, Live, Target
    <2>1. rd.doc \in Docs /\ rd.doc # d
      BY <1>1, <1>3 DEF IInv, RunTyped, Resolved, Live
    <2>2. QED
      BY <1>1, <1>3, <2>1 DEF IInv, RunCurrent, Live
  <1>12. Backed'
    <2>1. \A e \in Docs : e # d => Waits(e)' = Waits(e)
      BY <1>1 DEF Waits
    <2>2. \A e \in Docs : ~Gone(e)' => e # d /\ ~Gone(e)
      BY <1>4
    <2>3. ASSUME NEW e \in Docs, ~Gone(e)', PendingIn(journal'[e]) # {},
                 rd.doc = e => rd.job = "boot"
          PROVE  Waits(e)'
      BY <1>2, <2>1, <2>2, <2>3 DEF IInv, Backed
    <2>4. ASSUME rd.at # "idle", rd.job = "boot", ~Gone(rd.doc)'
          PROVE  Waits(rd.doc)'
      <3>1. rd.doc \in Docs
        BY <2>4 DEF IInv, RunTyped
      <3>2. rd.doc # d /\ ~Gone(rd.doc)
        BY <1>1, <2>2, <2>4, <3>1 DEF Gone
      <3>3. Waits(rd.doc)
        BY <2>4, <3>2 DEF IInv, Backed
      <3>4. QED
        BY <1>1, <3>2, <3>3 DEF Waits
    <2>5. QED
      BY <1>1, <2>3, <2>4 DEF Backed, Gone, Waits
  <1>13. \A e \in Docs : RestedBefore(e)
    BY <1>1, <1>3 DEF RestedBefore, Rests, Live, Waits, Target
  <1>14. RenderedWhenQuiet'
    BY <1>1, <1>13, QuietFrame DEF IInv
  <1>15. QED
    BY <1>7, <1>8, <1>9, <1>10, <1>11, <1>12, <1>14 DEF IInv

-----------------------------------------------------------------------------
(* Steps that write the tree.                                              *)

(* A link of a document is removed, or replaced by one of the document     *)
(* that takes its place; what other documents that exist have there stays. *)
LEMMA LinkOfOthers ==
  ASSUME IInv, NEW d, NEW p \in Paths, ~ClaimedByOther(d, p),
         UNCHANGED <<setting, status, place, file>>,
         \A e \in Entries : e # Entry(p) => tree'[e] = tree[e],
         \A x \in Docs : x # d => RestedBefore(x)
  PROVE  \A x \in Docs : x # d /\ Rests(x)' =>
           LinkAt(place[x])' = [doc |-> x, blob |-> Target(x).blob]
  <1> SUFFICES ASSUME NEW x \in Docs, x # d, Rests(x)'
               PROVE  tree'[Entry(place[x])] = [doc |-> x, blob |-> Target(x).blob]
    BY DEF LinkAt, Entry
  <1>1. LinkAt(place[x]) = [doc |-> x, blob |-> Target(x).blob] /\ Live(x)
    BY DEF RestedBefore, IInv, RenderedWhenQuiet, Rests, Waits
  <1>2. place[x] \in Paths /\ x \in Docs /\ Target(x).blob \in Blobs
    BY PathsOf DEF IInv, Typed
  <1>3. LinkAt(place[x]) # NoLink /\ LinkAt(place[x]).doc = x
    BY <1>1, <1>2, ConstantsAssumption
  <1>4. CASE Entry(place[x]) = Entry(p)
    <2>1. LinkAt(p) # NoLink /\ LinkAt(p).doc = x /\ ~Gone(x)
      BY <1>1, <1>3, <1>4 DEF LinkAt, Live, Gone
    <2>2. QED
      BY <2>1, OnlyOwnLink
  <1>5. CASE Entry(place[x]) # Entry(p)
    BY <1>1, <1>2, <1>5, EntryOf DEF LinkAt, IInv
  <1>6. QED
    BY <1>4, <1>5

LEMMA PublishRun ==
  ASSUME IInv, rd.at = "publish", Publish, NEW d \in Docs, d = rd.doc
  PROVE  /\ rd' \in Runs /\ rd'.at = "remove" /\ rd'.doc = d /\ rd'.job = rd.job
         /\ rd'.moves = rd.moves /\ rd'.cur = rd.cur
         /\ rd'.todo = ClaimedIn(journal[d]) \ {rd.cur.path}
  <1> DEFINE T == OldPaths \ {NoPath, rd.cur.path}
             b == [rd EXCEPT !.at = "remove", !.todo = T]
  <1>1. rd' = b /\ rd \in Runs /\ ~Gone(d)
    BY DEF Publish, MayPublish, Live, Gone, IInv, RunTyped
  <1>2. rd.moves = PendingIn(journal[d]) /\ PendingIn(journal[d]) # {} /\ Anchored(journal[d])
    BY <1>1 DEF IInv, RunInHand, InHand, Ahead, JournalsSound
  <1>3. ClaimedIn(journal[d]) = OldPaths \ {NoPath}
    BY <1>2, ClaimsOfPending DEF OldPaths
  <1>4. T = ClaimedIn(journal[d]) \ {rd.cur.path}
    BY <1>3
  <1>5. T \in SUBSET Paths
    BY <1>4, ClaimsTyped, PathsOf DEF IInv
  <1> HIDE DEF T
  <1>6. /\ b \in Runs /\ b.at = "remove" /\ b.doc = rd.doc /\ b.job = rd.job
        /\ b.moves = rd.moves /\ b.cur = rd.cur /\ b.todo = T
    BY <1>1, <1>5 DEF Runs, Stages
  <1>7. QED
    BY <1>1, <1>4, <1>6

LEMMA PublishKeeps ==
  ASSUME IInv, setting' = setting, Publish
  PROVE  IInv'
  <1>0. rd.doc \in Docs
    BY DEF Publish, IInv, RunTyped
  <1> PICK d \in Docs : d = rd.doc
    BY <1>0
  <1> PICK j : j = journal[d]
    OBVIOUS
  <1> PICK cur : cur = rd.cur
    OBVIOUS
  <1> PICK new : new = [doc |-> d, blob |-> cur.blob]
    OBVIOUS
  <1> PICK here : here = Entry(cur.path)
    OBVIOUS
  <1>1. /\ UNCHANGED <<status, place, file, journal, losses, cleaning, queued, ingest, failed>>
        /\ rd.at \in {"publish", "refresh"} /\ Live(d) /\ ~ClaimedByOther(d, cur.path)
        /\ tree' = [tree EXCEPT ![here] = new]
    BY DEF Publish, MayPublish, world, jobs
  <1>2. /\ rd \in Runs /\ cur.path \in Targets(d) /\ cur.blob \in Blobs /\ ~Gone(d)
        /\ cur.path \in Paths /\ cur.path # NoPath /\ here \in Entries
    <2>1. rd \in Runs /\ cur.path \in Targets(d) /\ cur.blob \in Blobs /\ ~Gone(d)
      BY <1>1 DEF IInv, RunTyped, Resolved, Live, Gone
    <2>2. cur.path \in Paths /\ cur.path # NoPath
      BY <2>1, PathsOf DEF IInv
    <2>3. QED
      BY <2>1, <2>2, EntryOf DEF IInv
  <1>3. new \in Links /\ new # NoLink /\ new.doc = d /\ new.blob = cur.blob
    BY <1>2, ConstantsAssumption DEF Links
  <1>4. /\ tree' \in [Entries -> Links \cup {NoLink}] /\ tree'[here] = new
        /\ \A e \in Entries : e # here => tree'[e] = tree[e]
    BY <1>1, <1>2, <1>3 DEF IInv, Typed
  <1>5. Typed' /\ Entries' = Entries /\ Entry(cur.path)' = here
    BY <1>1, <1>4 DEF IInv, Typed, Targets, Entries, Entry
  <1>6. Survive /\ \A e \in Docs : Gone(e)' = Gone(e)
    BY <1>1 DEF Survive, Gone
  <1>7. JournalsSound' /\ ClaimsApart'
    BY <1>1, <1>6, JournalsFrame DEF IInv
  <1>8. InHand(rd, j) /\ Shaped(j)
    BY <1>1, <1>2 DEF IInv, RunInHand, JournalsSound
  <1>9. cur.path \in ClaimedIn(j) /\ cur.blob \in HashesIn(j, cur.path)
    <2>1. CASE rd.at = "publish"
      <3>1. PICK n \in PendingIn(j) : j[n].next = cur
        BY <1>8, <2>1 DEF InHand, Ahead
      <3>2. n \in DOMAIN j
        BY DEF PendingIn
      <3>3. QED
        BY <1>2, <3>1, <3>2 DEF ClaimedIn, HashesIn
    <2>2. CASE rd.at = "refresh"
      <3>1. cur = LastIn(j)
        BY <1>8, <2>2 DEF InHand
      <3>2. QED
        BY <1>2, <1>8, <3>1, LastHash DEF ClaimedIn
    <2>3. QED
      BY <1>1, <2>1, <2>2
  <1>10. LinksClaimed'
    <2> SUFFICES ASSUME NEW e \in Entries, tree'[e] # NoLink, ~Gone(tree[e].doc)'
                 PROVE  LinkClaimed(e)'
      BY <1>5 DEF LinksClaimed
    <2>1. CASE e = here
      BY <1>1, <1>3, <1>4, <1>5, <1>9, <2>1 DEF LinkClaimed
    <2>2. CASE e # here
      <3>1. tree'[e] = tree[e] /\ ~Gone(tree[e].doc)
        BY <1>1, <1>4, <2>2 DEF Gone
      <3>2. LinkClaimed(e)
        BY <3>1 DEF IInv, LinksClaimed
      <3>3. QED
        BY <1>1, <3>1, <3>2 DEF LinkClaimed, Entry
    <2>3. QED
      BY <2>1, <2>2
  <1>11. LinksListed'
    <2>1. TargetsApart' = TargetsApart
      BY DEF TargetsApart, Targets, Key
    <2> SUFFICES ASSUME losses = 0, TargetsApart, NEW e \in Entries, tree'[e] # NoLink,
                        Gone(tree[e].doc)'
                 PROVE  LinkListed(e)'
      BY <1>1, <1>5, <2>1 DEF LinksListed
    <2>2. e # here
      BY <1>1, <1>2, <1>3, <1>4 DEF Gone
    <2>3. tree'[e] = tree[e] /\ Gone(tree[e].doc)
      BY <1>1, <1>4, <2>2 DEF Gone
    <2>4. LinkListed(e)
      BY <2>3 DEF IInv, LinksListed
    <2>5. QED
      BY <1>1, <2>3, <2>4 DEF LinkListed, Targets, Entry
  <1>12. /\ RunTyped' /\ RunInHand' /\ RunRemoves' /\ RunCurrent' /\ Backed'
         /\ rd'.doc \in {d, NoDoc}
    <2>1. CASE rd.at = "publish"
      <3>1. /\ rd' \in Runs /\ rd'.at = "remove" /\ rd'.doc = d /\ rd'.job = rd.job
            /\ rd'.moves = rd.moves /\ rd'.cur = cur /\ rd'.todo = ClaimedIn(j) \ {cur.path}
        BY <2>1, PublishRun
      <3>2. RunTyped' /\ RunCurrent'
        BY <1>1, <1>2, <2>1, <3>1
           DEF IInv, RunTyped, RunCurrent, Ahead, Resolved, Targets, Live, Target
      <3>3. RunInHand'
        BY <1>1, <1>8, <2>1, <3>1 DEF RunInHand, InHand, Ahead
      <3>4. ASSUME NEW e \in Entries, tree'[e] # NoLink, tree'[e].doc = d, e # here
            PROVE  \E q \in rd'.todo : Entry(q) = e
        <4>1. tree[e] # NoLink /\ tree[e].doc = d
          BY <1>4, <3>4
        <4>2. LinkClaimed(e)
          BY <1>2, <4>1 DEF IInv, LinksClaimed
        <4>3. PICK q \in ClaimedIn(j) : Entry(q) = e
          BY <4>1, <4>2 DEF LinkClaimed
        <4>4. QED
          BY <3>1, <3>4, <4>3
      <3>5. LinkAt(rd.cur.path)' = new
        BY <1>4, <1>5, <3>1 DEF LinkAt, Entry
      <3>6. RunRemoves'
        BY <1>1, <1>5, <3>1, <3>4, <3>5 DEF RunRemoves, Entry
      <3>7. Backed'
        BY <1>1, <2>1, <3>1, SameRun
      <3>8. QED
        BY <3>1, <3>2, <3>3, <3>6, <3>7
    <2>2. CASE rd.at = "refresh"
      <3>1. rd' = Idle
        BY <2>2 DEF Publish
      <3>2. /\ RunTyped' /\ RunInHand' /\ RunCurrent' /\ RunRemoves'
            /\ rd'.at = "idle" /\ rd'.doc = NoDoc
        BY <3>1, EndRun
      <3>3. PendingIn(j) = {}
        BY <1>8, <2>2 DEF InHand
      <3>4. Backed'
        BY <1>1, <1>6, <3>2, <3>3 DEF Backed, IInv, Waits
      <3>5. QED
        BY <3>2, <3>4
    <2>3. QED
      BY <1>1, <2>1, <2>2
  <1>13. RenderedWhenQuiet'
    <2> SUFFICES ASSUME NEW x \in Docs, Rests(x)'
                 PROVE  LinkAt(place[x])' = [doc |-> x, blob |-> Target(x).blob]
      BY <1>1 DEF RenderedWhenQuiet, Rests, Waits, Target
    <2>1. CASE x = d
      <3>1. cur = Target(d)
        BY <1>1, <2>1 DEF IInv, RunCurrent, Resolved, Rests, Live, Waits
      <3>2. place[d] = cur.path
        BY <3>1, PathsOf DEF IInv
      <3>3. QED
        BY <1>1, <1>4, <1>5, <2>1, <3>1, <3>2 DEF LinkAt, Entry
    <2>2. CASE x # d
      <3>1. \A y \in Docs : y # d => RestedBefore(y)
        BY <1>1 DEF RestedBefore, Rests, Live, Waits, Target
      <3>2. QED
        BY <1>1, <1>2, <1>4, <2>2, <3>1, LinkOfOthers
    <2>3. QED
      BY <2>1, <2>2
  <1>14. QED
    BY <1>5, <1>7, <1>10, <1>11, <1>12, <1>13 DEF IInv

(* Links are only taken away.                                              *)
LEMMA FewerLinks ==
  ASSUME IInv, UNCHANGED <<setting, status, journal>>,
         \A e \in Entries : tree'[e] = NoLink \/ tree'[e] = tree[e]
  PROVE  JournalsSound' /\ ClaimsApart' /\ LinksClaimed'
  <1>1. JournalsSound' /\ ClaimsApart'
    BY JournalsFrame DEF IInv, Gone
  <1>2. Entries' = Entries
    BY DEF Entries, Entry
  <1>3. ASSUME NEW e \in Entries, tree'[e] # NoLink, ~Gone(tree[e].doc)'
        PROVE  LinkClaimed(e)'
    <2>1. tree'[e] = tree[e] /\ ~Gone(tree[e].doc)
      BY <1>3 DEF Gone
    <2>2. LinkClaimed(e)
      BY <1>3, <2>1 DEF IInv, LinksClaimed
    <2>3. QED
      BY <2>1, <2>2 DEF LinkClaimed, Entry
  <1>4. QED
    BY <1>1, <1>2, <1>3 DEF LinksClaimed

LEMMA RemoveOldKeeps ==
  ASSUME IInv, setting' = setting, NEW p \in rd.todo, RemoveOld(p)
  PROVE  IInv'
  <1>0. rd.doc \in Docs
    BY DEF RemoveOld, IInv, RunTyped
  <1> PICK d \in Docs : d = rd.doc
    BY <1>0
  <1> PICK cur : cur = rd.cur
    OBVIOUS
  <1> DEFINE b == [rd EXCEPT !.todo = @ \ {p}]
  <1>1. /\ UNCHANGED <<status, place, file, journal, losses, cleaning, queued, ingest, failed>>
        /\ rd.at = "remove" /\ rd' = b /\ (Skip(p) \/ ProvedOwn(d, p))
        /\ tree' = IF Skip(p) THEN tree ELSE [tree EXCEPT ![Entry(p)] = NoLink]
    BY DEF RemoveOld, world, jobs
  <1>2. rd \in Runs /\ p \in Paths /\ cur.path \in Paths /\ Entry(p) \in Entries
    <2>1. rd \in Runs /\ cur.path \in Targets(d)
      BY <1>1 DEF IInv, RunTyped, Resolved
    <2>2. p \in Paths /\ cur.path \in Paths
      BY <2>1, PathsOf DEF IInv, Runs
    <2>3. QED
      BY <2>1, <2>2, EntryOf DEF IInv
  <1>3. /\ b \in Runs /\ b.at = rd.at /\ b.doc = rd.doc /\ b.job = rd.job /\ b.moves = rd.moves
        /\ b.cur = rd.cur /\ b.prev = rd.prev /\ b.todo = rd.todo \ {p}
    BY <1>2 DEF Runs
  <1> HIDE DEF b
  <1>4. /\ tree' \in [Entries -> Links \cup {NoLink}]
        /\ \A e \in Entries : tree'[e] = NoLink \/ tree'[e] = tree[e]
        /\ \A e \in Entries : e # Entry(p) => tree'[e] = tree[e]
    BY <1>1, <1>2 DEF IInv, Typed
  <1>5. Typed' /\ Entries' = Entries
    BY <1>1, <1>4 DEF IInv, Typed, Targets, Entries, Entry
  <1>6. JournalsSound' /\ ClaimsApart' /\ LinksClaimed'
    BY <1>1, <1>4, FewerLinks
  <1>7. LinksListed'
    <2>1. TargetsApart' = TargetsApart
      BY DEF TargetsApart, Targets, Key
    <2> SUFFICES ASSUME losses = 0, TargetsApart, NEW e \in Entries, tree'[e] # NoLink,
                        Gone(tree[e].doc)'
                 PROVE  LinkListed(e)'
      BY <1>1, <1>5, <2>1 DEF LinksListed
    <2>2. tree'[e] = tree[e] /\ Gone(tree[e].doc)
      BY <1>1, <1>4 DEF Gone
    <2>3. LinkListed(e)
      BY <2>2 DEF IInv, LinksListed
    <2>4. QED
      BY <1>1, <2>2, <2>3 DEF LinkListed, Targets, Entry
  <1>8. RunTyped' /\ RunInHand' /\ RunCurrent'
    <2>1. RunTyped'
      BY <1>1, <1>3 DEF IInv, RunTyped, Targets
    <2>2. RunInHand'
      BY <1>1, <1>3 DEF IInv, RunInHand, InHand, Gone
    <2>3. RunCurrent'
      BY <1>1, <1>3 DEF IInv, RunCurrent, Live, Target
    <2>4. QED
      BY <2>1, <2>2, <2>3
  <1>9. Backed' /\ \A e \in Docs : RestedBefore(e)
    BY <1>1, <1>3, SameRun
  <1>10. RunRemoves'
    <2> SUFFICES ASSUME ~Gone(d)
                 PROVE  /\ LinkAt(cur.path)' = [doc |-> d, blob |-> cur.blob]
                        /\ rd.todo \ {p} \subseteq ClaimedIn(journal[d])
                        /\ \A e \in Entries : tree'[e] # NoLink /\ tree'[e].doc = d =>
                             e = Entry(cur.path) \/ \E q \in rd.todo \ {p} : Entry(q) = e
      BY <1>1, <1>3, <1>5 DEF RunRemoves, Gone, Entry, LinkAt
    <2>1. /\ LinkAt(cur.path) = [doc |-> d, blob |-> cur.blob]
          /\ rd.todo \subseteq ClaimedIn(journal[d])
          /\ \A e \in Entries : tree[e] # NoLink /\ tree[e].doc = d =>
               e = Entry(cur.path) \/ \E q \in rd.todo : Entry(q) = e
      BY <1>1 DEF IInv, RunRemoves
    <2>2. ~ClaimedByOther(d, p)
      BY <2>1, ClaimedReading DEF IInv, ClaimsApart
    <2>3. CASE Skip(p)
      <3>1. tree' = tree
        BY <1>1, <2>3
      <3>2. Entry(p) = Entry(cur.path) \/ tree[Entry(p)] = NoLink
        BY <2>2, <2>3 DEF Skip, SameEntry, LinkAt
      <3>3. LinkAt(cur.path)' = LinkAt(cur.path)
        BY <3>1 DEF LinkAt, Entry
      <3>4. QED
        BY <2>1, <3>1, <3>2, <3>3
    <2>4. CASE ~Skip(p)
      <3>1. tree' = [tree EXCEPT ![Entry(p)] = NoLink] /\ tree'[Entry(p)] = NoLink
        BY <1>1, <1>2, <2>4 DEF IInv, Typed
      <3>2. LinkAt(p) # NoLink /\ ~SameEntry(p, cur.path)
        BY <2>4 DEF Skip
      <3>3. Entry(p) # Entry(cur.path)
        BY <1>2, <3>2, EntryOf DEF IInv, SameEntry, LinkAt
      <3>4. Entry(cur.path) \in Entries
        BY <1>2, EntryOf DEF IInv
      <3>5. LinkAt(cur.path)' = LinkAt(cur.path)
        BY <1>4, <3>3, <3>4 DEF LinkAt, Entry
      <3>6. QED
        BY <1>4, <2>1, <3>1, <3>5
    <2>5. QED
      BY <2>3, <2>4
  <1>11. RenderedWhenQuiet'
    <2>1. CASE Skip(p)
      BY <1>1, <1>9, <2>1, QuietFrame DEF IInv
    <2>2. CASE ~Skip(p)
      <3>1. ~ClaimedByOther(d, p)
        BY <2>2 DEF Skip
      <3>2. \A x \in Docs : x # d /\ Rests(x)' =>
              LinkAt(place[x])' = [doc |-> x, blob |-> Target(x).blob]
        BY <1>1, <1>2, <1>4, <1>9, <3>1, LinkOfOthers
      <3>3. \A x \in Docs : Rests(x)' => x # d
        BY <1>1, <1>3 DEF Rests
      <3>4. QED
        BY <1>1, <3>2, <3>3 DEF RenderedWhenQuiet, Rests, Waits, Target
    <2>3. QED
      BY <2>1, <2>2
  <1>12. QED
    BY <1>5, <1>6, <1>7, <1>8, <1>9, <1>10, <1>11 DEF IInv

LEMMA RemoveLinkKeeps ==
  ASSUME IInv, setting' = setting, NEW c \in cleaning, RemoveRenderedLink(c)
  PROVE  IInv'
  <1> DEFINE Removes == /\ ~ClaimedByOther(NoDoc, c.path) /\ LinkAt(c.path) # NoLink
                        /\ LinkAt(c.path).blob \in c.hashes
  <1>1. /\ UNCHANGED <<status, place, file, journal, losses, queued, ingest, failed, rd>>
        /\ cleaning' = cleaning \ {c}
        /\ tree' = IF Removes THEN [tree EXCEPT ![Entry(c.path)] = NoLink] ELSE tree
    BY DEF RemoveRenderedLink, CleanupRefused, world, jobs
  <1>2. c.path \in Paths /\ Entry(c.path) \in Entries
    BY EntryOf DEF IInv, Typed
  <1>3. /\ tree' \in [Entries -> Links \cup {NoLink}]
        /\ \A e \in Entries : tree'[e] = NoLink \/ tree'[e] = tree[e]
        /\ \A e \in Entries : e # Entry(c.path) => tree'[e] = tree[e]
        /\ Removes => tree'[Entry(c.path)] = NoLink
    BY <1>1, <1>2 DEF IInv, Typed
  <1>4. Typed' /\ Entries' = Entries
    BY <1>1, <1>3 DEF IInv, Typed, Targets, Entries, Entry
  <1>5. JournalsSound' /\ ClaimsApart' /\ LinksClaimed'
    BY <1>1, <1>3, FewerLinks
  <1>6. LinksListed'
    <2>1. TargetsApart' = TargetsApart
      BY DEF TargetsApart, Targets, Key
    <2> SUFFICES ASSUME losses = 0, TargetsApart, NEW e \in Entries, tree'[e] # NoLink,
                        Gone(tree[e].doc)'
                 PROVE  LinkListed(e)'
      BY <1>1, <1>4, <2>1 DEF LinksListed
    <2>2. tree'[e] = tree[e] /\ Gone(tree[e].doc) /\ tree[e].doc \in Docs
      BY <1>1, <1>3 DEF Gone, IInv, Typed, Links
    <2> PICK x \in Docs : x = tree[e].doc
      BY <2>2
    <2>3. LinkListed(e)
      BY <2>2 DEF IInv, LinksListed
    <2>4. PICK c0 \in cleaning : /\ c0.path \in Targets(x) /\ Entry(c0.path) = e
                                 /\ tree[e].blob \in c0.hashes
      BY <2>3 DEF LinkListed
    <2>5. c0 # c
      <3> SUFFICES ASSUME c0 = c PROVE FALSE
        OBVIOUS
      <3>1. ~Removes /\ LinkAt(c.path) = tree[e]
        BY <1>3, <2>2, <2>4 DEF LinkAt
      <3>2. ClaimedByOther(NoDoc, c.path)
        BY <2>2, <2>4, <3>1
      <3>3. PICK y \in Docs : \E q \in ClaimedIn(journal[y]) : Key(q) = Key(c.path)
        BY <3>2, ClaimedReading
      <3>4. y # x
        BY <2>2, <3>3, EmptyJournal DEF IInv, JournalsSound
      <3>5. ClaimedIn(journal[y]) \subseteq Targets(y)
        BY ClaimsTyped DEF IInv
      <3>6. QED
        BY <2>4, <3>3, <3>4, <3>5 DEF TargetsApart
    <2>6. QED
      BY <1>1, <2>2, <2>4, <2>5 DEF LinkListed, Targets, Entry
  <1>7. RunTyped' /\ RunInHand' /\ RunCurrent' /\ Backed'
    <2>1. RunTyped'
      BY <1>1 DEF IInv, RunTyped, Targets
    <2>2. RunInHand'
      BY <1>1 DEF IInv, RunInHand, Gone
    <2>3. RunCurrent'
      BY <1>1 DEF IInv, RunCurrent, Live, Target
    <2>4. Backed'
      BY <1>1 DEF IInv, Backed, Gone, Waits
    <2>5. QED
      BY <2>1, <2>2, <2>3, <2>4
  <1>8. NoDoc \notin Docs
    BY ConstantsAssumption
  <1>9. RunRemoves'
    <2> SUFFICES ASSUME rd.at = "remove", ~Gone(rd.doc)
                 PROVE  /\ LinkAt(rd.cur.path)' = LinkAt(rd.cur.path)
                        /\ \A e \in Entries : tree'[e] # NoLink => tree'[e] = tree[e]
      BY <1>1, <1>4 DEF IInv, RunRemoves, Gone, Entry
    <2>1. rd.doc \in Docs /\ rd.cur.path \in Targets(rd.doc) /\ rd.cur.blob \in Blobs
      BY DEF IInv, RunTyped, Resolved
    <2>2. rd.cur.path \in Paths /\ Entry(rd.cur.path) \in Entries
      BY <2>1, PathsOf, EntryOf DEF IInv
    <2>3. LinkAt(rd.cur.path) # NoLink /\ LinkAt(rd.cur.path).doc = rd.doc
      BY <2>1, ConstantsAssumption DEF IInv, RunRemoves
    <2>4. LinkAt(rd.cur.path)' = LinkAt(rd.cur.path)
      <3>1. CASE Removes
        <4>1. Entry(rd.cur.path) # Entry(c.path)
          <5> SUFFICES ASSUME Entry(rd.cur.path) = Entry(c.path) PROVE FALSE
            OBVIOUS
          <5>1. LinkAt(c.path) = LinkAt(rd.cur.path)
            BY DEF LinkAt
          <5>2. LinkAt(c.path).doc = NoDoc
            BY <1>2, <2>3, <3>1, <5>1, OnlyOwnLink
          <5>3. QED
            BY <1>8, <2>1, <2>3, <5>1, <5>2
        <4>2. QED
          BY <1>1, <1>3, <2>2, <4>1 DEF LinkAt, Entry
      <3>2. CASE ~Removes
        BY <1>1, <3>2 DEF LinkAt, Entry
      <3>3. QED
        BY <3>1, <3>2
    <2>5. QED
      BY <1>3, <2>4
  <1>10. \A x \in Docs : RestedBefore(x)
    BY <1>1 DEF RestedBefore, Rests, Live, Waits, Target
  <1>11. RenderedWhenQuiet'
    <2>1. CASE ~Removes
      BY <1>1, <1>10, <2>1, QuietFrame DEF IInv
    <2>2. CASE Removes
      <3>1. \A x \in Docs : x # NoDoc /\ Rests(x)' =>
              LinkAt(place[x])' = [doc |-> x, blob |-> Target(x).blob]
        BY <1>1, <1>2, <1>3, <1>10, <2>2, LinkOfOthers
      <3>2. QED
        BY <1>1, <1>8, <3>1 DEF RenderedWhenQuiet, Rests, Waits, Target
    <2>3. QED
      BY <2>1, <2>2
  <1>12. QED
    BY <1>4, <1>5, <1>6, <1>7, <1>9, <1>11 DEF IInv

-----------------------------------------------------------------------------
(* The theorems.                                                           *)

LEMMA RefusedBusy == Refused => rd.at # "idle"
  BY DEF Refused

LEMMA StepSound == IInv /\ [Next]_vars => IInv'
  <1> SUFFICES ASSUME IInv, [Next]_vars PROVE IInv'
    OBVIOUS
  <1>1. CASE UNCHANGED vars
    <2>1. UNCHANGED <<setting, status, place, file, journal, tree, losses, cleaning, queued,
                      ingest, failed, rd>>
      BY <1>1 DEF vars, world, jobs
    <2>2. Typed'
      BY <2>1 DEF IInv, Typed, Targets, Entries, Entry
    <2>3. \A d \in Docs : Live(d)' /\ d \notin queued' =>
            Live(d) /\ d \notin queued /\ place'[d] = place[d] /\ Target(d)' = Target(d)
      BY <2>1 DEF Live, Target
    <2>4. QED
      BY <2>1, <2>2, <2>3, Aside DEF Gone, Waits
  <1>2. CASE Renderer /\ setting' = setting
    <2>1. CASE \E d \in Docs : Move(d) \/ Reconcile(d) \/ LoadDoc(d)
      BY <1>2, <2>1, MoveKeeps, ReconcileKeeps, LoadDocKeeps
    <2>2. CASE UpdateDoc \/ MarkEncrypted
      BY <1>2, <2>2, UpdateDocKeeps, MarkEncryptedKeeps
    <2>3. CASE Project \/ RecordPending \/ Finish
      BY <1>2, <2>3, ProjectKeeps, RecordKeeps, FinishKeeps
    <2>4. CASE Publish \/ Apply
      BY <1>2, <2>4, PublishKeeps, ApplyKeeps
    <2>5. CASE \E p \in rd.todo : RemoveOld(p)
      BY <1>2, <2>5, RemoveOldKeeps
    <2>6. CASE Refuse \/ Fault
      <3>1. GiveUp /\ rd.at # "idle"
        BY <2>6, RefusedBusy DEF Refuse, Fault
      <3>2. QED
        BY <1>2, <3>1, GiveUpKeeps
    <2>7. QED
      BY <1>2, <2>1, <2>2, <2>3, <2>4, <2>5, <2>6 DEF Renderer
  <1>3. CASE Environment /\ setting' = setting
    <2>1. CASE \E d \in Docs : Edit(d) \/ Rescan(d) \/ Trash(d) \/ Restore(d) \/ Purge(d)
      BY <1>3, <2>1, EditKeeps, RescanKeeps, TrashKeeps, PurgeKeeps
    <2>2. CASE \E c \in cleaning : RemoveRenderedLink(c) \/ RemoveRenderedLinkFails(c)
      BY <1>3, <2>2, RemoveLinkKeeps, FailsKeeps
    <2>3. CASE Crash
      BY <1>3, <2>3, CrashKeeps
    <2>4. QED
      BY <1>3, <2>1, <2>2, <2>3 DEF Environment
  <1>4. QED
    BY <1>1, <1>2, <1>3 DEF Next

LEMMA ViewSound == Spec => []IInv
  <1>1. Init => IInv
    BY InitSound
  <1>2. IInv /\ [Next]_vars => IInv'
    BY StepSound
  <1>3. QED
    BY <1>1, <1>2, PTL DEF Spec

(* A live document with no job outstanding is rendered where its metadata  *)
(* say: project and finishPending resolve the target again whenever it has *)
(* moved on, and whoever changes it meanwhile leaves a job.                *)
THEOREM QuietIsRendered == Spec => []RenderedWhenQuiet
  <1>1. IInv => RenderedWhenQuiet
    BY DEF IInv
  <1>2. QED
    BY <1>1, ViewSound, PTL

(* A purge leaves no link of the document behind when no removal fails     *)
(* and no two documents have paths of one key: its snapshot lists every    *)
(* link that the claims account for.                                       *)
THEOREM PurgeLeavesNoLink == Spec => []PurgedLinksGone
  <1>1. IInv => PurgedLinksGone
    BY DEF IInv, LinksListed, LinkListed, TargetsApart, PurgedLinksGone, Gone
  <1>2. QED
    BY <1>1, ViewSound, PTL

(* Which link a step may change.                                           *)
OwnersStep ==
  \A e \in Entries :
    tree[e] # NoLink /\ status[tree[e].doc] # "purged" /\ tree'[e] # tree[e] =>
      rd.doc = tree[e].doc

LEMMA WritesOwnLink ==
  ASSUME IInv, NEW d, NEW p \in Paths, ~ClaimedByOther(d, p),
         \A e \in Entries : e # Entry(p) => tree'[e] = tree[e],
         d = rd.doc \/ d = NoDoc
  PROVE  OwnersStep
  <1> SUFFICES ASSUME NEW e \in Entries, tree[e] # NoLink, ~Gone(tree[e].doc),
                      tree'[e] # tree[e]
               PROVE  rd.doc = tree[e].doc
    BY DEF OwnersStep, Gone
  <1>1. e = Entry(p) /\ LinkAt(p) = tree[e]
    BY DEF LinkAt
  <1>2. tree[e].doc = d
    BY <1>1, OnlyOwnLink
  <1>3. tree[e].doc \in Docs
    BY DEF IInv, Typed, Links
  <1>4. QED
    BY <1>2, <1>3, ConstantsAssumption

LEMMA StepTouchesOwn == IInv /\ [Next]_vars => OwnersStep
  <1> SUFFICES ASSUME IInv, [Next]_vars PROVE OwnersStep
    OBVIOUS
  <1>1. CASE tree' = tree
    BY <1>1 DEF OwnersStep
  <1>2. CASE Publish
    <2>1. ~ClaimedByOther(rd.doc, rd.cur.path) /\ rd.cur.path \in Targets(rd.doc) /\ rd.doc \in Docs
      BY <1>2 DEF Publish, MayPublish, IInv, RunTyped, Resolved
    <2>2. rd.cur.path \in Paths
      BY <2>1, PathsOf DEF IInv
    <2>3. \A e \in Entries : e # Entry(rd.cur.path) => tree'[e] = tree[e]
      BY <1>2 DEF Publish, IInv, Typed
    <2>4. QED
      BY <2>1, <2>2, <2>3, WritesOwnLink
  <1>3. CASE \E p \in rd.todo : RemoveOld(p)
    <2>1. PICK p \in rd.todo : RemoveOld(p)
      BY <1>3
    <2>2. CASE Skip(p)
      BY <1>1, <2>1, <2>2 DEF RemoveOld
    <2>3. CASE ~Skip(p)
      <3>1. ~ClaimedByOther(rd.doc, p) /\ p \in Paths
        BY <2>3 DEF Skip, IInv, RunTyped, Runs
      <3>2. \A e \in Entries : e # Entry(p) => tree'[e] = tree[e]
        BY <2>1 DEF RemoveOld, IInv, Typed
      <3>3. QED
        BY <3>1, <3>2, WritesOwnLink
    <2>4. QED
      BY <2>2, <2>3
  <1>4. CASE \E c \in cleaning : RemoveRenderedLink(c)
    <2>1. PICK c \in cleaning : RemoveRenderedLink(c)
      BY <1>4
    <2>2. CASE ClaimedByOther(NoDoc, c.path)
      BY <1>1, <2>1, <2>2 DEF RemoveRenderedLink, CleanupRefused
    <2>3. CASE ~ClaimedByOther(NoDoc, c.path)
      <3>1. \A e \in Entries : e # Entry(c.path) => tree'[e] = tree[e]
        BY <2>1 DEF RemoveRenderedLink, IInv, Typed
      <3>2. c.path \in Paths
        BY DEF IInv, Typed
      <3>3. QED
        BY <2>3, <3>1, <3>2, WritesOwnLink
    <2>4. QED
      BY <2>2, <2>3
  <1>5. CASE UNCHANGED vars
    BY <1>1, <1>5 DEF vars
  <1>6. CASE Renderer
    BY <1>1, <1>2, <1>3, <1>6 DEF Renderer, Move, Reconcile, LoadDoc, UpdateDoc, MarkEncrypted,
      Project, RecordPending, Finish, Apply, Refuse, Fault, GiveUp
  <1>7. CASE Environment
    BY <1>1, <1>4, <1>7 DEF Environment, Edit, Rescan, Trash, Restore, Purge,
      RemoveRenderedLinkFails, Crash
  <1>8. QED
    BY <1>5, <1>6, <1>7 DEF Next

(* No step touches a link of a document that exists unless it belongs to   *)
(* that document's own projection: publishDocumentLink, removeDocumentLink *)
(* and removeRenderedLink look for foreign claims first, and every such    *)
(* link is covered by a claim of its document.                             *)
THEOREM LinksAreTheOwners == Spec => OnlyOwnerTouchesLink
  <1>1. IInv /\ [Next]_vars => [OwnersStep]_vars
    BY StepTouchesOwn
  <1>2. QED
    BY <1>1, ViewSound, PTL DEF Spec, OnlyOwnerTouchesLink, OwnersStep

-----------------------------------------------------------------------------
(***************************************************************************)
(* Taxonomy: the requests that change what the paths are made from.  They  *)
(* owe the renderer above a job for every live document that reads what    *)
(* they change.                                                            *)
(***************************************************************************)

(* What the rows, documents and requests in flight look like.             *)
RowsTyped == row \in [Kinds -> [Ids -> Names \cup {NoName}]]
LayoutsTyped == uses \in [Ids -> SUBSET Variables]
DocsTyped ==
  doc \in [DocIds -> Documents] /\ \A d \in DocIds : IsInjective(doc[d].senders)
SystemShaped == DOMAIN system = {"code", "name", "mode", "sets"}
ShownTyped == DOMAIN shown = DocIds
RulesTyped ==
  rules \in [Rules -> [Kinds -> Ids \cup {None}]]
  /\ meant \in [Rules -> [Kinds -> Names \cup {NoName}]]
TreeTyped == parent \in [Ids -> Ids \cup {None}]

Merges == [op: {"merge"}, kind: {"corr", "tag"}, from: Ids, into: Ids]
Adoptions == [op: {"parent"}, tag: Ids, to: Ids \cup {None}]

FlightTyped ==
  \A f \in flight :
    /\ f.op = "merge" => f \in Merges /\ f.from # f.into
    /\ f.op = "parent" => f \in Adoptions

(* What documents refer to exists: no document is affected by a new row.  *)
DocsRefer ==
  \A d \in DocIds :
    /\ Range(doc[d].senders) \subseteq Rows("corr")
    /\ doc[d].tags \subseteq Rows("tag")
    /\ doc[d].layout \in Rows("layout") \cup {None}

DocInv == LayoutsTyped /\ DocsTyped /\ SystemShaped /\ ShownTyped /\ DocsRefer /\ PathFollows

(* No tag is its own ancestor, and no request in flight makes it one.      *)
NoCycle == \A t \in Ids : parent[t] # None => t \notin Lineage(parent[t])
AdoptionsSound ==
  \A f \in flight : f.op = "parent" /\ f.to # None => f.tag \notin Lineage(f.to)
Forest == crossed \/ (NoCycle /\ AdoptionsSound)
-----------------------------------------------------------------------------
(* Lists of senders.                                                        *)
LEMMA Shortened ==
  ASSUME NEW S, NEW s \in Seq(S), NEW p \in 1..Len(s)
  PROVE  /\ RemoveAt(s, p) \in Seq(S) /\ Len(RemoveAt(s, p)) = Len(s) - 1
         /\ \A n \in 1..(Len(s) - 1) : RemoveAt(s, p)[n] = s[IF n < p THEN n ELSE n + 1]
<1> DEFINE a == SubSeq(s, 1, p - 1)
           b == SubSeq(s, p + 1, Len(s))
<1>0. Len(s) \in Nat /\ p \in Int /\ p - 1 \in Int /\ p + 1 \in Int /\ Len(s) \in Int
  BY LenProperties
<1>1. \A i \in 1..(p - 1) : s[i] \in S
  BY <1>0, ElementOfSeq
<1>2. \A i \in (p + 1)..Len(s) : s[i] \in S
  BY <1>0, ElementOfSeq
<1>3. a \in Seq(S) /\ Len(a) = p - 1 /\ \A i \in 1..(p - 1) : a[i] = s[i]
  <2>1. /\ a \in Seq(S) /\ Len(a) = IF 1 <= p - 1 THEN p - 1 - 1 + 1 ELSE 0
        /\ \A i \in 1 .. (p - 1) - 1 + 1 : a[i] = s[1 + i - 1]
    BY <1>0, <1>1, SubSeqProperties
  <2> QED BY <1>0, <2>1
<1>4. b \in Seq(S) /\ Len(b) = Len(s) - p /\ \A i \in 1..(Len(s) - p) : b[i] = s[p + i]
  <2>1. /\ b \in Seq(S) /\ Len(b) = IF p + 1 <= Len(s) THEN Len(s) - (p + 1) + 1 ELSE 0
        /\ \A i \in 1 .. Len(s) - (p + 1) + 1 : b[i] = s[(p + 1) + i - 1]
    BY <1>0, <1>2, SubSeqProperties
  <2> QED BY <1>0, <2>1
<1>5. RemoveAt(s, p) = a \o b
  BY DEF RemoveAt
<1> HIDE DEF a, b
<1>6. /\ a \o b \in Seq(S) /\ Len(a \o b) = Len(s) - 1
      /\ \A i \in 1..(Len(s) - 1) : (a \o b)[i] = IF i <= p - 1 THEN a[i] ELSE b[i - (p - 1)]
  <2>1. /\ a \o b \in Seq(S) /\ Len(a \o b) = Len(a) + Len(b)
        /\ \A i \in 1 .. Len(a) + Len(b) : (a \o b)[i] = IF i <= Len(a) THEN a[i] ELSE b[i - Len(a)]
    BY <1>3, <1>4, ConcatProperties
  <2>2. Len(a) + Len(b) = Len(s) - 1 /\ Len(a) = p - 1
    BY <1>0, <1>3, <1>4
  <2> QED BY <2>1, <2>2
<1>7. ASSUME NEW n \in 1..(Len(s) - 1)
      PROVE  (a \o b)[n] = s[IF n < p THEN n ELSE n + 1]
  <2>1. CASE n < p
    <3>1. n \in 1..(p - 1) /\ n <= p - 1
      BY <1>0, <2>1
    <3>2. (a \o b)[n] = a[n] /\ a[n] = s[n]
      BY <1>3, <1>6, <3>1
    <3> QED BY <2>1, <3>2
  <2>2. CASE ~(n < p)
    <3>1. n - (p - 1) \in 1..(Len(s) - p) /\ p + (n - (p - 1)) = n + 1 /\ ~(n <= p - 1)
      BY <1>0, <2>2
    <3>2. (a \o b)[n] = b[n - (p - 1)]
      BY <1>6, <3>1
    <3>3. b[n - (p - 1)] = s[p + (n - (p - 1))]
      BY <1>4, <3>1
    <3> QED BY <2>2, <3>1, <3>2, <3>3
  <2> QED BY <2>1, <2>2
<1> QED BY <1>5, <1>6, <1>7

Listing(s) == s \in Seq(Ids) /\ IsInjective(s)

LEMMA WithoutListing ==
  ASSUME NEW s, Listing(s), NEW x
  PROVE  Listing(Without(s, x)) /\ Range(Without(s, x)) = Range(s) \ {x}
<1>0. s \in Seq(Ids) /\ Len(s) \in Nat /\ DOMAIN s = 1..Len(s)
  BY LenProperties DEF Listing
<1>1. CASE x \notin Range(s)
  BY <1>1 DEF Without
<1>2. CASE x \in Range(s)
  <2> DEFINE p == Position(s, x)
             r == RemoveAt(s, p)
  <2>1. p \in 1..Len(s) /\ s[p] = x
    BY <1>0, <1>2 DEF Position, Range
  <2>2. Without(s, x) = r
    BY <1>2 DEF Without
  <2> HIDE DEF p
  <2>3. /\ r \in Seq(Ids) /\ Len(r) = Len(s) - 1 /\ DOMAIN r = 1..(Len(s) - 1)
        /\ \A n \in 1..(Len(s) - 1) : r[n] = s[IF n < p THEN n ELSE n + 1]
    BY <1>0, <2>1, Shortened, LenProperties
  <2> HIDE DEF r
  <2>4. IsInjective(r)
    <3> SUFFICES ASSUME NEW a \in 1..(Len(s) - 1), NEW b \in 1..(Len(s) - 1), r[a] = r[b]
                 PROVE  a = b
      BY <2>3 DEF IsInjective
    <3> DEFINE u == IF a < p THEN a ELSE a + 1
               v == IF b < p THEN b ELSE b + 1
    <3>1. u \in 1..Len(s) /\ v \in 1..Len(s) /\ s[u] = s[v]
      BY <1>0, <2>1, <2>3
    <3>2. u = v
      BY <1>0, <3>1 DEF Listing, IsInjective
    <3> QED BY <2>1, <3>2, <1>0
  <2>5. ASSUME NEW n \in 1..(Len(s) - 1)
        PROVE  r[n] \in Range(s) \ {x}
    <3> DEFINE u == IF n < p THEN n ELSE n + 1
    <3>1. u \in 1..Len(s) /\ u # p /\ r[n] = s[u]
      BY <1>0, <2>1, <2>3
    <3> HIDE DEF u
    <3>2. s[u] # s[p]
      BY <1>0, <2>1, <3>1 DEF Listing, IsInjective
    <3> QED BY <1>0, <2>1, <3>1, <3>2 DEF Range
  <2>6. ASSUME NEW y \in Range(s), y # x
        PROVE  y \in Range(r)
    <3>1. PICK q \in 1..Len(s) : s[q] = y
      BY <1>0 DEF Range
    <3>2. q # p
      BY <2>1, <2>6, <3>1
    <3> DEFINE n == IF q < p THEN q ELSE q - 1
    <3>3. n \in 1..(Len(s) - 1) /\ (IF n < p THEN n ELSE n + 1) = q
      BY <1>0, <2>1, <3>2
    <3>4. r[n] = y
      BY <2>3, <3>1, <3>3
    <3> QED BY <2>3, <3>3, <3>4 DEF Range
  <2>7. Range(r) = Range(s) \ {x}
    BY <2>3, <2>5, <2>6 DEF Range
  <2> QED BY <2>2, <2>3, <2>4, <2>7 DEF Listing
<1> QED BY <1>1, <1>2

LEMMA RenamedListing ==
  ASSUME NEW s, Listing(s), NEW i \in Ids, NEW j \in Ids, j \notin Range(s)
  PROVE  Listing(Renamed(s, i, j)) /\ Range(Renamed(s, i, j)) \subseteq (Range(s) \ {i}) \cup {j}
<1> DEFINE r == Renamed(s, i, j)
<1>0. s \in Seq(Ids) /\ Len(s) \in Nat /\ DOMAIN s = 1..Len(s) /\ \A n \in 1..Len(s) : s[n] \in Ids
  BY LenProperties, ElementOfSeq DEF Listing
<1>1. r = [n \in 1..Len(s) |-> IF s[n] = i THEN j ELSE s[n]]
  BY <1>0 DEF Renamed
<1>2. r \in [1..Len(s) -> Ids]
  BY <1>0, <1>1
<1>3. r \in Seq(Ids)
  BY <1>0, <1>2
<1>4. \A n \in 1..Len(s) : s[n] # j
  BY <1>0 DEF Range
<1>5. DOMAIN r = 1..Len(s) /\ \A n \in 1..Len(s) : r[n] = IF s[n] = i THEN j ELSE s[n]
  BY <1>1
<1> HIDE DEF r
<1>6. IsInjective(r)
  BY <1>0, <1>4, <1>5 DEF IsInjective, Listing
<1>7. Range(r) \subseteq (Range(s) \ {i}) \cup {j}
  BY <1>0, <1>5 DEF Range
<1> QED BY <1>3, <1>6, <1>7 DEF Listing, r

LEMMA MergedListing ==
  ASSUME NEW s, Listing(s), NEW i \in Ids, NEW j \in Ids, i # j
  PROVE  /\ Listing(Merged(s, i, j))
         /\ Range(Merged(s, i, j)) \subseteq IF i \in Range(s) THEN (Range(s) \ {i}) \cup {j} ELSE Range(s)
         /\ i \notin Range(s) => Merged(s, i, j) = s
<1>1. CASE i \notin Range(s)
  BY <1>1 DEF Merged
<1>2. CASE i \in Range(s)
  <2>1. CASE Merged(s, i, j) = Without(s, i)
    BY <1>2, <2>1, WithoutListing
  <2>2. CASE Merged(s, i, j) = Renamed(Without(s, j), i, j)
    <3>1. Listing(Without(s, j)) /\ Range(Without(s, j)) = Range(s) \ {j}
      BY WithoutListing
    <3>2. /\ Listing(Renamed(Without(s, j), i, j))
          /\ Range(Renamed(Without(s, j), i, j)) \subseteq (Range(Without(s, j)) \ {i}) \cup {j}
      BY <3>1, RenamedListing
    <3> QED BY <1>2, <2>2, <3>1, <3>2
  <2> QED BY <1>2, <2>1, <2>2 DEF Merged
<1> QED BY <1>1, <1>2

LEMMA PrependedListing ==
  ASSUME NEW s, Listing(s), NEW c \in Ids, c \notin Range(s)
  PROVE  /\ Listing(<<c>> \o s) /\ Range(<<c>> \o s) = Range(s) \cup {c}
         /\ <<c>> \o s # <<>> /\ Head(<<c>> \o s) = c
<1> DEFINE r == <<c>> \o s
<1>0. s \in Seq(Ids) /\ Len(s) \in Nat /\ DOMAIN s = 1..Len(s)
  BY LenProperties DEF Listing
<1>1. <<c>> \in Seq(Ids) /\ Len(<<c>>) = 1 /\ <<c>>[1] = c
  OBVIOUS
<1>2. /\ r \in Seq(Ids) /\ Len(r) = 1 + Len(s)
      /\ \A i \in 1..(1 + Len(s)) : r[i] = IF i <= 1 THEN <<c>>[i] ELSE s[i - 1]
  BY <1>0, <1>1, ConcatProperties
<1>3. DOMAIN r = 1..(1 + Len(s))
  BY <1>2, LenProperties
<1>4. r[1] = c /\ \A i \in 1..Len(s) : r[i + 1] = s[i]
  BY <1>0, <1>1, <1>2
<1>5. \A i \in 2..(1 + Len(s)) : i - 1 \in 1..Len(s) /\ r[i] = s[i - 1]
  BY <1>0, <1>2
<1> HIDE DEF r
<1>6. IsInjective(r)
  <2> SUFFICES ASSUME NEW a \in 1..(1 + Len(s)), NEW b \in 1..(1 + Len(s)), r[a] = r[b], a < b
               PROVE  FALSE
    BY <1>0, <1>3 DEF IsInjective
  <2>1. b \in 2..(1 + Len(s))
    BY <1>0
  <2>2. b - 1 \in 1..Len(s) /\ r[b] = s[b - 1] /\ r[b] # c
    BY <1>0, <1>5, <2>1 DEF Range
  <2>3. a \in 2..(1 + Len(s))
    BY <1>0, <1>4, <2>2
  <2>4. a - 1 \in 1..Len(s) /\ r[a] = s[a - 1]
    BY <1>5, <2>3
  <2>5. a - 1 = b - 1
    BY <1>0, <2>2, <2>4 DEF Listing, IsInjective
  <2> QED BY <1>0, <2>5
<1>7. Range(r) = Range(s) \cup {c}
  <2>1. Range(r) \subseteq Range(s) \cup {c}
    BY <1>0, <1>3, <1>4, <1>5 DEF Range
  <2>2. c \in Range(r)
    BY <1>0, <1>3, <1>4 DEF Range
  <2>3. ASSUME NEW y \in Range(s) PROVE y \in Range(r)
    <3>1. PICK q \in 1..Len(s) : s[q] = y
      BY <1>0 DEF Range
    <3>2. q + 1 \in DOMAIN r /\ r[q + 1] = y
      BY <1>0, <1>3, <1>4, <3>1
    <3> QED BY <3>2 DEF Range
  <2> QED BY <2>1, <2>2, <2>3
<1>8. r # <<>> /\ Head(r) = c
  BY <1>0, <1>2, <1>4
<1> QED BY <1>2, <1>6, <1>7, <1>8 DEF Listing, r

LEMMA AppendedListing ==
  ASSUME NEW s, Listing(s), NEW c \in Ids, c \notin Range(s)
  PROVE  Listing(Append(s, c)) /\ Range(Append(s, c)) = Range(s) \cup {c}
<1> DEFINE r == Append(s, c)
<1>0. s \in Seq(Ids) /\ Len(s) \in Nat /\ DOMAIN s = 1..Len(s)
  BY LenProperties DEF Listing
<1>1. /\ r \in Seq(Ids) /\ DOMAIN r = 1..(Len(s) + 1) /\ r[Len(s) + 1] = c
      /\ \A i \in 1..Len(s) : r[i] = s[i]
  BY <1>0
<1> HIDE DEF r
<1>2. IsInjective(r)
  BY <1>0, <1>1 DEF IsInjective, Listing, Range
<1>3. Range(r) = Range(s) \cup {c}
  BY <1>0, <1>1 DEF Range
<1> QED BY <1>1, <1>2, <1>3 DEF Listing, r

-----------------------------------------------------------------------------
(* Tags on the way up, for any assignment of parents.                      *)
Parents == [Ids -> Ids \cup {None}]
ClosedIn(f, ts) == \A x \in ts : f[x] # None => f[x] \in ts
Up(f, t) == {x \in Ids : \A ts \in SUBSET Ids : t \in ts /\ ClosedIn(f, ts) => x \in ts}
Acyclic(f) == \A t \in Ids : f[t] # None => t \notin Up(f, f[t])

LEMMA LineageIsUp == \A t : Lineage(t) = Up(parent, t)
  BY DEF Lineage, Up, Closed, ClosedIn

LEMMA LineageIsUpNext == ASSUME NEW t PROVE Lineage(t)' = Up(parent', t)
  BY DEF Lineage, Up, Closed, ClosedIn

LEMMA UpIsClosed ==
  ASSUME NEW f \in Parents, NEW t \in Ids
  PROVE  t \in Up(f, t) /\ Up(f, t) \in SUBSET Ids /\ ClosedIn(f, Up(f, t))
  BY DEF Up, ClosedIn, Parents

LEMMA UpIsLeast ==
  ASSUME NEW f, NEW t, NEW ts \in SUBSET Ids, t \in ts, ClosedIn(f, ts)
  PROVE  Up(f, t) \subseteq ts
  BY DEF Up

\* Fewer parents, fewer tags on the way up.
LEMMA CutUp ==
  ASSUME NEW f \in Parents, NEW g \in Parents, \A x \in Ids : g[x] = f[x] \/ g[x] = None
  PROVE  /\ \A t \in Ids : Up(g, t) \subseteq Up(f, t)
         /\ Acyclic(f) => Acyclic(g)
<1>1. ASSUME NEW t \in Ids PROVE Up(g, t) \subseteq Up(f, t)
  <2>1. t \in Up(f, t) /\ Up(f, t) \in SUBSET Ids /\ ClosedIn(f, Up(f, t))
    BY UpIsClosed
  <2>2. ClosedIn(g, Up(f, t))
    BY <2>1 DEF ClosedIn
  <2> QED BY <2>1, <2>2, UpIsLeast
<1>2. ASSUME Acyclic(f), NEW t \in Ids, g[t] # None PROVE t \notin Up(g, g[t])
  <2>1. g[t] = f[t] /\ g[t] \in Ids
    BY <1>2 DEF Parents
  <2> QED BY <1>1, <1>2, <2>1 DEF Acyclic
<1> QED BY <1>1, <1>2 DEF Acyclic

\* A tag gets a parent whose way up does not meet it.
LEMMA AdoptedUp ==
  ASSUME None \notin Ids, NEW f \in Parents, Acyclic(f), NEW t \in Ids, NEW p \in Ids, t \notin Up(f, p)
  PROVE  Acyclic([f EXCEPT ![t] = p])
<1> DEFINE g == [f EXCEPT ![t] = p]
           L == Up(f, p)
<1>0. g \in Parents /\ g[t] = p /\ \A x \in Ids \ {t} : g[x] = f[x]
  BY DEF Parents
<1>1. p \in L /\ L \in SUBSET Ids /\ ClosedIn(f, L)
  BY UpIsClosed
<1>2. t \notin L
  OBVIOUS
<1> HIDE DEF g, L
<1>3. ClosedIn(g, L)
  BY <1>0, <1>1, <1>2 DEF ClosedIn
<1>4. Up(g, p) \subseteq L
  BY <1>1, <1>3, UpIsLeast
<1>5. ASSUME NEW x \in Ids, g[x] # None PROVE x \notin Up(g, g[x])
  <2>1. CASE x = t
    BY <1>0, <1>2, <1>4, <2>1
  <2>2. CASE x # t
    <3> DEFINE q == f[x]
               M == Up(f, q)
    <3>1. g[x] = q /\ q \in Ids /\ x \notin M
      BY <1>0, <1>5, <2>2 DEF Acyclic, Parents
    <3>2. q \in M /\ M \in SUBSET Ids /\ ClosedIn(f, M)
      BY <3>1, UpIsClosed
    <3>2a. q = f[x]
      OBVIOUS
    <3>2b. \A ts \in SUBSET Ids : q \in ts /\ ClosedIn(f, ts) => M \subseteq ts
      BY UpIsLeast
    <3> HIDE DEF M, q
    <3>3. CASE x \in L
      <4>1. q \in L
        BY <1>1, <1>5, <3>1, <3>2a, <3>3 DEF ClosedIn
      <4>2. M \subseteq L
        BY <1>1, <3>2b, <4>1
      <4>3. ClosedIn(g, M)
        BY <1>0, <1>2, <3>2, <4>2 DEF ClosedIn
      <4>4. Up(g, q) \subseteq M
        BY <3>2, <4>3, UpIsLeast
      <4> QED BY <3>1, <4>4
    <3>4. CASE x \notin L
      <4>1. ClosedIn(g, M \cup L)
        BY <1>0, <1>1, <3>2 DEF ClosedIn
      <4>2. Up(g, q) \subseteq M \cup L
        BY <1>1, <3>2, <4>1, UpIsLeast
      <4> QED BY <3>1, <3>4, <4>2
    <3> QED BY <3>3, <3>4
  <2> QED BY <2>1, <2>2
<1> QED BY <1>5 DEF Acyclic, g

-----------------------------------------------------------------------------
(* The tags form a forest.                                                 *)
LEMMA IdNumbers == ASSUME TaxonomyAssumption PROVE Ids \subseteq Nat /\ None \notin Ids
  BY DEF TaxonomyAssumption, None, MaxHops

TreeInv == TreeTyped /\ FlightTyped /\ Forest

\* What a request that sets no parent may do to the tree and to the requests in flight.
Kept == UNCHANGED <<parent, crossed>> /\ flight' \subseteq flight
Joined ==
  /\ UNCHANGED <<parent, crossed>>
  /\ \E g : /\ flight' = flight \cup {g}
            /\ g.op = "merge" => g \in Merges /\ g.from # g.into
            /\ g.op = "parent" => g \in Adoptions /\ (g.to # None => g.tag \notin Lineage(g.to))
Cut ==
  /\ parent' \in Parents /\ \A x \in Ids : parent'[x] = parent[x] \/ parent'[x] = None
  /\ flight' \subseteq flight /\ UNCHANGED crossed

LEMMA NamesAndTree ==
  ASSUME TaxonomyAssumption, TreeTyped, NamesStep
  PROVE  Kept \/ Joined \/ Cut
<1> USE DEF Kept
<1>1. ASSUME NEW k \in Kinds, NEW n, Create(k, n) \/ \E i \in Ids : Rename(k, i, n) PROVE Kept
  BY <1>1 DEF Create, Rename
<1>2. ASSUME NEW ts \in SUBSET Ids, DeleteTags(ts) PROVE Cut
  BY <1>2 DEF DeleteTags, Cut, TreeTyped, Parents
<1>3. ASSUME NEW k \in {"corr", "tag"}, NEW i \in Ids, NEW j \in Ids, BeginMerge(k, i, j) PROVE Joined
  <2> DEFINE g == [op |-> "merge", kind |-> k, from |-> i, into |-> j]
  <2>1. g \in Merges /\ g.from # g.into /\ g.op = "merge"
    BY <1>3 DEF Merges, BeginMerge
  <2>2. flight' = flight \cup {g} /\ UNCHANGED <<parent, crossed>>
    BY <1>3 DEF BeginMerge, names
  <2> HIDE DEF g
  <2> QED BY <2>1, <2>2 DEF Joined
<1>4. ASSUME NEW f \in flight, CommitMerge(f) PROVE Kept \/ Cut
  <2>1. flight' \subseteq flight /\ UNCHANGED crossed
    BY <1>4 DEF CommitMerge
  <2>2. CASE f.kind # "tag"
    BY <1>4, <2>1, <2>2 DEF CommitMerge
  <2>3. CASE f.kind = "tag"
    <3>1. parent' = [i \in Ids |-> IF i = f.from \/ parent[i] = f.from THEN None ELSE parent[i]]
      BY <1>4, <2>3 DEF CommitMerge
    <3> QED BY <2>1, <3>1 DEF Cut, TreeTyped, Parents
  <2> QED BY <2>2, <2>3
<1>5. ASSUME NEW f \in flight, RefuseMerge(f) PROVE Kept
  BY <1>5 DEF RefuseMerge, names
<1>6. ASSUME NEW i \in Ids, DeleteCorrespondent(i) \/ DeleteLayout(i) PROVE Kept
  BY <1>6 DEF DeleteCorrespondent, DeleteLayout
<1>7. ASSUME NEW i \in Ids, NEW tpl \in Templates, UpdateLayout(i, tpl) PROVE Kept
  BY <1>7 DEF UpdateLayout
<1>8. ASSUME NEW r \in Rules, NEW k \in Kinds, NEW i \in Ids, SaveRule(r, k, i) PROVE Kept
  BY <1>8 DEF SaveRule
<1>9. "corr" \in Kinds /\ "tag" \in Kinds /\ "layout" \in Kinds
  BY DEF Kinds
<1> HIDE DEF Kept
<1> QED
  BY <1>1, <1>2, <1>3, <1>4, <1>5, <1>6, <1>7, <1>8, <1>9
  DEF NamesStep, CreateCorrespondent, CreateTag, CreateLayout, UpdateCorrespondent, UpdateTag,
      RenameLayout

LEMMA ParentsAndTree ==
  ASSUME TreeTyped, FlightTyped, TreeStep
  PROVE  Kept \/ Joined \/ \E f \in flight : SetTagParent(f)
<1>1. ASSUME NEW t \in Ids, NEW p \in Ids \cup {None}, CheckTagParent(t, p) PROVE Joined
  <2> DEFINE g == [op |-> "parent", tag |-> t, to |-> p]
  <2>1. g \in Adoptions /\ g.op = "parent" /\ g.tag = t /\ g.to = p
    BY DEF Adoptions
  <2>2. p # None => t \notin Lineage(p)
    BY <1>1 DEF CheckTagParent, WouldCycle
  <2>3. flight' = flight \cup {g} /\ UNCHANGED <<parent, crossed>>
    BY <1>1 DEF CheckTagParent, names
  <2> HIDE DEF g
  <2> QED BY <2>1, <2>2, <2>3 DEF Joined
<1>2. ASSUME NEW f \in flight, RefuseTagParent(f) PROVE Kept
  BY <1>2 DEF RefuseTagParent, Kept, names
<1> QED BY <1>1, <1>2 DEF TreeStep

LEMMA DocsAndTree == ASSUME DocStep PROVE Kept
<1>1. ASSUME NEW ds, NEW e, NEW m, EditDocs(ds, e, m) PROVE Kept
  BY <1>1 DEF EditDocs, Kept, names
<1>2. ASSUME NEW d \in DocIds, Render(d) PROVE Kept
  BY <1>2 DEF Render, Kept, names
<1>3. ASSUME NEW d \in DocIds, NEW n, AddDocCorrespondent(d, n) \/ RemoveDocCorrespondent(d, n)
      PROVE  Kept
  BY <1>3 DEF AddDocCorrespondent, RemoveDocCorrespondent, Kept, names
<1>4. ASSUME NEW ds, BulkTrash(ds) \/ BulkRestore(ds) PROVE Kept
  BY <1>4 DEF BulkTrash, BulkRestore, Kept, names
<1>5. ASSUME NEW d \in DocIds, NEW x,
             PatchTitle(d, x) \/ PatchCategory(d, x) \/ PatchLayout(d, x) \/ PatchNumber(d, x)
      PROVE  Kept
  BY <1>1, <1>5 DEF PatchTitle, PatchCategory, PatchLayout, PatchNumber
<1>6. ASSUME NEW ds, NEW x,
             \/ BulkLayout(ds, x) \/ BulkCorrespondent(ds, x) \/ BulkCategory(ds, x)
             \/ BulkAddTag(ds, x) \/ BulkRemoveTag(ds, x)
      PROVE  Kept
  BY <1>1, <1>6 DEF BulkLayout, BulkCorrespondent, BulkCategory, BulkAddTag, BulkRemoveTag
<1> QED BY <1>2, <1>3, <1>4, <1>5, <1>6 DEF DocStep

LEMMA FieldsAndTree == ASSUME FieldStep PROVE Kept \/ Joined
<1>1. ASSUME NEW d \in DocIds, NEW v, CheckValue(d, v) PROVE Joined
  <2> DEFINE g == [op |-> "value", doc |-> d, v |-> v, by |-> field]
  <2>1. g.op = "value"
    OBVIOUS
  <2>2. flight' = flight \cup {g} /\ UNCHANGED <<parent, crossed>>
    BY <1>1 DEF CheckValue, names
  <2> HIDE DEF g
  <2> QED BY <2>1, <2>2 DEF Joined
<1>2. ASSUME NEW x, NEW y, CreateField(x, y) \/ UpdateField(x, y) PROVE Kept
  BY <1>2 DEF CreateField, UpdateField, Kept, names
<1>3. ASSUME DeleteField \/ \E d \in DocIds : DeleteValue(d) PROVE Kept
  BY <1>3 DEF DeleteField, DeleteValue, Kept, names
<1>4. ASSUME NEW f \in flight, SetValue(f) \/ RefuseValue(f) PROVE Kept
  BY <1>4 DEF SetValue, RefuseValue, Kept, names
<1> QED BY <1>1, <1>2, <1>3, <1>4 DEF FieldStep

LEMMA FilingAndTree == ASSUME FilingStep PROVE Kept \/ Joined
<1>1. ASSUME NEW ss, NEW repl, NEW remap, NEW code, NEW mine, Preview(ss, repl, remap, code, mine)
      PROVE  Joined
  <2>1. PICK g : flight' = flight \cup {g} /\ g.op = "preset"
    <3> DEFINE new == Creates(code, mine)
               all == IF code = NoName THEN AutoReplaced(system.sets, ss) \cup repl ELSE repl
               g == [op |-> "preset", sets |-> ss, repl |-> all, mine |-> repl, remap |-> remap,
                     code |-> code, was |-> mine, seen |-> Binding,
                     tree |-> IF new THEN categories ELSE Grown(ss, all, remap)]
    <3>1. flight' = flight \cup {g}
      BY <1>1 DEF Preview
    <3>2. g.op = "preset"
      OBVIOUS
    <3> HIDE DEF g
    <3> QED BY <3>1, <3>2
  <2>2. UNCHANGED <<parent, crossed>>
    BY <1>1 DEF Preview, names
  <2> QED BY <2>1, <2>2 DEF Joined
<1>2. ASSUME NEW f \in flight, ApplyPreset(f) \/ RefuseStale(f) PROVE Kept
  BY <1>2 DEF ApplyPreset, RefuseStale, Kept, names
<1>3. ASSUME NEW n, PatchSystem(n) PROVE Kept
  BY <1>3 DEF PatchSystem, Kept, names
<1> QED BY <1>1, <1>2, <1>3 DEF FilingStep

LEMMA TreeKept ==
  ASSUME TaxonomyAssumption, TreeInv, [TaxNext]_taxVars
  PROVE  TreeInv'
<1>0. None \notin Ids /\ parent \in Parents
  BY IdNumbers DEF TreeInv, TreeTyped, Parents
<1>a. NoCycle <=> Acyclic(parent)
  BY LineageIsUp DEF NoCycle, Acyclic
<1>b. NoCycle' <=> Acyclic(parent')
  BY LineageIsUpNext DEF NoCycle, Acyclic, Lineage, Closed, Up, ClosedIn
<1>1. CASE Kept
  <2>1. UNCHANGED <<parent, crossed>> /\ flight' \subseteq flight
    BY <1>1 DEF Kept
  <2> QED BY <2>1 DEF TreeInv, TreeTyped, FlightTyped, Forest, NoCycle, AdoptionsSound, Lineage, Closed
<1>2. CASE Joined
  <2>1. PICK g : /\ flight' = flight \cup {g}
                 /\ g.op = "merge" => g \in Merges /\ g.from # g.into
                 /\ g.op = "parent" => g \in Adoptions /\ (g.to # None => g.tag \notin Lineage(g.to))
    BY <1>2 DEF Joined
  <2>2. UNCHANGED <<parent, crossed>>
    BY <1>2 DEF Joined
  <2>3. FlightTyped'
    BY <2>1 DEF TreeInv, FlightTyped
  <2>4. \A t : Lineage(t)' = Lineage(t)
    BY <2>2 DEF Lineage, Closed
  <2>5. ASSUME AdoptionsSound, NEW f \in flight', f.op = "parent", f.to # None
        PROVE  f.tag \notin Lineage(f.to)
    BY <2>1, <2>5 DEF AdoptionsSound
  <2>6. AdoptionsSound => AdoptionsSound'
    BY <2>2, <2>5 DEF AdoptionsSound, Lineage, Closed
  <2>7. NoCycle => NoCycle'
    BY <2>2 DEF NoCycle, Lineage, Closed
  <2> QED BY <2>2, <2>3, <2>6, <2>7 DEF TreeInv, Forest, TreeTyped
<1>3. CASE Cut
  <2>1. /\ parent' \in Parents /\ \A x \in Ids : parent'[x] = parent[x] \/ parent'[x] = None
        /\ flight' \subseteq flight /\ UNCHANGED crossed
    BY <1>3 DEF Cut
  <2>2. \A t \in Ids : Up(parent', t) \subseteq Up(parent, t)
    BY <1>0, <2>1, CutUp
  <2>3. NoCycle => NoCycle'
    BY <1>0, <1>a, <1>b, <2>1, CutUp
  <2>4. FlightTyped'
    BY <2>1 DEF TreeInv, FlightTyped
  <2>5. ASSUME AdoptionsSound, NEW f \in flight', f.op = "parent", f.to # None
        PROVE  f.tag \notin Up(parent', f.to)
    <3>1. f \in Adoptions
      BY <2>4, <2>5 DEF FlightTyped
    <3>2. f.to \in Ids
      BY <2>5, <3>1 DEF Adoptions
    <3>3. f.tag \notin Up(parent, f.to)
      BY <2>1, <2>5, LineageIsUp DEF AdoptionsSound
    <3> QED BY <2>2, <3>2, <3>3
  <2>6. AdoptionsSound => AdoptionsSound'
    BY <2>5 DEF AdoptionsSound, Lineage, Closed, Up, ClosedIn
  <2> QED BY <2>1, <2>3, <2>4, <2>6 DEF TreeInv, Forest, TreeTyped, Parents
<1>4. ASSUME NEW f \in flight, SetTagParent(f) PROVE TreeInv'
  <2>1. f.op = "parent" /\ f \in Adoptions
    BY <1>4 DEF SetTagParent, TreeInv, FlightTyped
  <2>2. f.tag \in Ids /\ f.to \in Ids \cup {None}
    BY <2>1 DEF Adoptions
  <2>3. parent' = [parent EXCEPT ![f.tag] = f.to] /\ flight' = flight \ {f}
    BY <1>4 DEF SetTagParent
  <2>4. parent' \in Parents
    BY <1>0, <2>2, <2>3 DEF Parents
  <2>5. CASE crossed'
    BY <2>3, <2>4, <2>5 DEF TreeInv, Forest, TreeTyped, Parents, FlightTyped
  <2>6. CASE ~crossed'
    <3>1. ~crossed /\ \A g \in flight' : g.op # "parent"
      BY <1>4, <2>3, <2>6 DEF SetTagParent
    <3>2. NoCycle /\ AdoptionsSound
      BY <3>1 DEF TreeInv, Forest
    <3>3. CASE f.to = None
      <4>1. \A x \in Ids : parent'[x] = parent[x] \/ parent'[x] = None
        BY <1>0, <2>3, <3>3 DEF Parents
      <4>2. Acyclic(parent')
        BY <1>0, <1>a, <2>4, <3>2, <4>1, CutUp
      <4> QED BY <1>b, <4>2, <3>1, <2>3, <2>4
              DEF TreeInv, Forest, TreeTyped, Parents, FlightTyped, AdoptionsSound
    <3>4. CASE f.to # None
      <4>1. f.to \in Ids /\ f.tag \notin Up(parent, f.to)
        BY <2>1, <2>2, <3>2, <3>4, LineageIsUp DEF AdoptionsSound
      <4>2. Acyclic(parent')
        BY <1>0, <1>a, <2>2, <2>3, <3>2, <4>1, AdoptedUp
      <4> QED BY <1>b, <4>2, <3>1, <2>3, <2>4
              DEF TreeInv, Forest, TreeTyped, Parents, FlightTyped, AdoptionsSound
    <3> QED BY <3>3, <3>4
  <2> QED BY <2>5, <2>6
<1>5. CASE UNCHANGED taxVars
  BY <1>1, <1>5 DEF taxVars, Kept
<1> QED
  BY <1>1, <1>2, <1>3, <1>4, <1>5, NamesAndTree, ParentsAndTree, DocsAndTree, FieldsAndTree,
     FilingAndTree
  DEF TaxNext, TreeInv

LEMMA TreeStarts == ASSUME TaxonomyAssumption, StartsAssumption, TaxInit PROVE TreeInv
<1>1. parent = [i \in Ids |-> None] /\ flight = {} 
  BY DEF TaxInit, StartsAssumption
<1>2. TreeTyped /\ FlightTyped
  BY <1>1 DEF TreeTyped, FlightTyped
<1>3. Forest
  BY <1>1 DEF Forest, NoCycle, AdoptionsSound
<1> QED BY <1>2, <1>3 DEF TreeInv

\* The tags form a forest, as long as two requests that set a parent do not
\* overlap (SetTagParent, with merges and deletions of tags in between).
THEOREM TaxTagsFormAForest == TaxSpec => []TagsFormAForest
<1>1. TaxInit => TreeInv
  BY TreeStarts, TaxonomyAssumption, StartsAssumption
<1>2. TreeInv /\ [TaxNext]_taxVars => TreeInv'
  BY TreeKept, TaxonomyAssumption
<1>3. TreeInv => TagsFormAForest
  BY DEF TreeInv, Forest, NoCycle, TagsFormAForest, Rows
<1> QED BY <1>1, <1>2, <1>3, PTL DEF TaxSpec

-----------------------------------------------------------------------------
(* Automations follow merges.                                              *)
RulesInv == RowsTyped /\ RulesTyped /\ RulesFollowMerges

LEMMA TreeAndFieldsApart ==
  ASSUME TreeStep \/ FieldStep
  PROVE  UNCHANGED <<row, uses, rules, meant, doc, categories, system, moves, shown>>
<1>1. CASE TreeStep
  BY <1>1 DEF TreeStep, CheckTagParent, SetTagParent, RefuseTagParent, names, filing
<1>2. CASE FieldStep
  <2>1. ASSUME NEW d \in DocIds, NEW v, CheckValue(d, v) \/ DeleteValue(d)
        PROVE  UNCHANGED <<row, uses, rules, meant, doc, categories, system, moves, shown>>
    BY <2>1 DEF CheckValue, DeleteValue, names, filing
  <2>2. ASSUME NEW x, NEW y, CreateField(x, y) \/ UpdateField(x, y) \/ DeleteField
        PROVE  UNCHANGED <<row, uses, rules, meant, doc, categories, system, moves, shown>>
    BY <2>2 DEF CreateField, UpdateField, DeleteField, names, filing
  <2>3. ASSUME NEW f \in flight, SetValue(f) \/ RefuseValue(f)
        PROVE  UNCHANGED <<row, uses, rules, meant, doc, categories, system, moves, shown>>
    BY <2>3 DEF SetValue, RefuseValue, names, filing
  <2> QED BY <1>2, <2>1, <2>2, <2>3 DEF FieldStep
<1> QED BY <1>1, <1>2

LEMMA FilingApart == ASSUME FilingStep PROVE UNCHANGED <<row, uses, rules, meant, doc, shown>>
<1>1. ASSUME NEW ss, NEW repl, NEW remap, NEW code, NEW mine, Preview(ss, repl, remap, code, mine)
      PROVE  UNCHANGED <<row, uses, rules, meant, doc, shown>>
  BY <1>1 DEF Preview, names
<1>2. ASSUME NEW f \in flight, ApplyPreset(f) \/ RefuseStale(f)
      PROVE  UNCHANGED <<row, uses, rules, meant, doc, shown>>
  BY <1>2 DEF ApplyPreset, RefuseStale, names
<1>3. ASSUME NEW n, PatchSystem(n) PROVE UNCHANGED <<row, uses, rules, meant, doc, shown>>
  BY <1>3 DEF PatchSystem, names
<1> QED BY <1>1, <1>2, <1>3 DEF FilingStep

LEMMA EditsApart ==
  ASSUME NEW ds, NEW e, NEW m, EditDocs(ds, e, m)
  PROVE  UNCHANGED <<row, uses, rules, meant, categories, system, shown>>
  BY DEF EditDocs, names, filing

LEMMA DocsApart ==
  ASSUME DocStep
  PROVE  /\ UNCHANGED <<uses, rules, meant, categories, system>>
         /\ UNCHANGED row \/ \E d \in DocIds, n \in Names : AddDocCorrespondent(d, n)
<1> DEFINE Same == UNCHANGED <<row, uses, rules, meant, categories, system>>
<1>1. ASSUME NEW d \in DocIds, Render(d) PROVE Same
  BY <1>1 DEF Render, names, filing
<1>2. ASSUME NEW d \in DocIds, NEW n \in Names, AddDocCorrespondent(d, n)
      PROVE  UNCHANGED <<uses, rules, meant, categories, system>>
  BY <1>2 DEF AddDocCorrespondent, filing
<1>3. ASSUME NEW d \in DocIds, NEW c, RemoveDocCorrespondent(d, c) PROVE Same
  BY <1>3 DEF RemoveDocCorrespondent, names, filing
<1>4. ASSUME NEW ds, BulkTrash(ds) \/ BulkRestore(ds) PROVE Same
  BY <1>4 DEF BulkTrash, BulkRestore, names, filing
<1>5. ASSUME NEW d \in DocIds, NEW x,
             PatchTitle(d, x) \/ PatchCategory(d, x) \/ PatchLayout(d, x) \/ PatchNumber(d, x)
      PROVE  Same
  BY <1>5, EditsApart DEF PatchTitle, PatchCategory, PatchLayout, PatchNumber
<1>6. ASSUME NEW ds, NEW x,
             \/ BulkLayout(ds, x) \/ BulkCorrespondent(ds, x) \/ BulkCategory(ds, x)
             \/ BulkAddTag(ds, x) \/ BulkRemoveTag(ds, x)
      PROVE  Same
  BY <1>6, EditsApart DEF BulkLayout, BulkCorrespondent, BulkCategory, BulkAddTag, BulkRemoveTag
<1> QED BY <1>1, <1>2, <1>3, <1>4, <1>5, <1>6 DEF DocStep

\* A row gets a name, new or changed.
LEMMA NamedRules ==
  ASSUME TaxonomyAssumption, RulesInv, NEW k \in Kinds, NEW i \in Ids, NEW n \in Names,
         row' = [row EXCEPT ![k][i] = n], UNCHANGED <<rules, meant>>
  PROVE  RulesInv'
<1>1. RowsTyped' /\ RulesTyped'
  BY DEF RulesInv, RowsTyped, RulesTyped
<1>2. n # NoName
  BY DEF TaxonomyAssumption
<1>3. \A j \in Kinds, x \in Ids : row'[j][x] = row[j][x] \/ row'[j][x] # NoName
  BY <1>2 DEF RulesInv, RowsTyped
<1>4. ASSUME NEW r \in Rules, NEW j \in Kinds PROVE RuleRefers(r, j)'
  <2>1. RuleRefers(r, j) /\ rules[r][j] \in Ids \cup {None}
    BY DEF RulesInv, RulesFollowMerges, RulesTyped
  <2> QED BY <1>3, <2>1 DEF RuleRefers
<1> QED BY <1>1, <1>4 DEF RulesInv, RulesFollowMerges

LEMMA NamesAndRules ==
  ASSUME TaxonomyAssumption, RulesInv, FlightTyped, NamesStep
  PROVE  RulesInv'
<1>0. /\ "corr" \in Kinds /\ "tag" \in Kinds /\ "layout" \in Kinds
      /\ \A k \in Kinds : k = "corr" \/ k = "tag" \/ k = "layout"
  BY DEF Kinds
<1>1. ASSUME NEW k \in Kinds, NEW n \in Names, Create(k, n) PROVE RulesInv'
  <2> DEFINE i == NextId(k)
  <2>1. i \in Ids /\ row' = [row EXCEPT ![k][i] = n] /\ UNCHANGED <<rules, meant>>
    BY <1>1 DEF Create
  <2> HIDE DEF i
  <2> QED BY <2>1, NamedRules
<1>2. ASSUME NEW k \in Kinds, NEW i \in Ids, NEW n \in Names, Rename(k, i, n) PROVE RulesInv'
  BY <1>2, NamedRules DEF Rename
<1>3. ASSUME NEW c \in Ids, DeleteCorrespondent(c) PROVE RulesInv'
  <2>1. /\ row' = [row EXCEPT !["corr"][c] = NoName] /\ UNCHANGED rules
        /\ meant' = [r \in Rules |->
             IF r \in Assigning("corr", c) THEN [meant[r] EXCEPT !.corr = NoName] ELSE meant[r]]
    BY <1>3 DEF DeleteCorrespondent
  <2>2. RowsTyped' /\ RulesTyped'
    BY <1>0, <2>1 DEF RulesInv, RowsTyped, RulesTyped
  <2>3. ASSUME NEW r \in Rules, NEW k \in Kinds PROVE RuleRefers(r, k)'
    <3>0. /\ RuleRefers(r, k) /\ rules[r][k] \in Ids \cup {None}
          /\ meant[r] \in [Kinds -> Names \cup {NoName}] /\ row[k] \in [Ids -> Names \cup {NoName}]
      BY DEF RulesInv, RulesFollowMerges, RulesTyped, RowsTyped
    <3>1. CASE k # "corr"
      <4>1. row'[k] = row[k] /\ meant'[r][k] = meant[r][k]
        BY <1>0, <2>1, <3>0, <3>1 DEF RulesInv, RowsTyped, RulesTyped
      <4> QED BY <2>1, <3>0, <4>1 DEF RuleRefers
    <3>2. CASE k = "corr" /\ rules[r]["corr"] = c
      <4>1. meant'[r]["corr"] = NoName
        BY <1>0, <2>1, <3>0, <3>2 DEF Assigning
      <4> QED BY <3>2, <4>1 DEF RuleRefers
    <3>3. CASE k = "corr" /\ rules[r]["corr"] # c
      <4>1. meant'[r] = meant[r] /\ \A x \in Ids \ {c} : row'["corr"][x] = row["corr"][x]
        BY <1>0, <2>1, <3>0, <3>3 DEF Assigning, RulesInv, RowsTyped
      <4> QED BY <2>1, <3>0, <3>3, <4>1 DEF RuleRefers
    <3> QED BY <3>1, <3>2, <3>3
  <2> QED BY <2>2, <2>3 DEF RulesInv, RulesFollowMerges
<1>4. ASSUME NEW ts \in SUBSET Ids, DeleteTags(ts) PROVE RulesInv'
  <2>1. /\ row' = [row EXCEPT !["tag"] = [i \in Ids |-> IF i \in ts THEN NoName ELSE @[i]]]
        /\ UNCHANGED rules
        /\ meant' = [r \in Rules |->
             IF rules[r].tag \in ts THEN [meant[r] EXCEPT !.tag = NoName] ELSE meant[r]]
    BY <1>4 DEF DeleteTags
  <2>2. /\ row'["tag"] = [i \in Ids |-> IF i \in ts THEN NoName ELSE row["tag"][i]]
        /\ \A k \in Kinds \ {"tag"} : row'[k] = row[k]
    BY <1>0, <2>1 DEF RulesInv, RowsTyped
  <2>3. RowsTyped'
    <3>1. row' \in [Kinds -> [Ids -> Names \cup {NoName}]]
      <4> DEFINE a == [i \in Ids |-> IF i \in ts THEN NoName ELSE row["tag"][i]]
      <4>1. a \in [Ids -> Names \cup {NoName}] /\ row' = [row EXCEPT !["tag"] = a]
        BY <1>0, <2>1 DEF RulesInv, RowsTyped
      <4> HIDE DEF a
      <4> QED BY <4>1 DEF RulesInv, RowsTyped
    <3> QED BY <3>1 DEF RowsTyped
  <2>4. RulesTyped'
    BY <1>0, <2>1 DEF RulesInv, RulesTyped
  <2>5. ASSUME NEW r \in Rules, NEW k \in Kinds PROVE RuleRefers(r, k)'
    <3>0. /\ RuleRefers(r, k) /\ rules[r][k] \in Ids \cup {None}
          /\ meant[r] \in [Kinds -> Names \cup {NoName}]
      BY DEF RulesInv, RulesFollowMerges, RulesTyped
    <3>1. CASE k # "tag"
      <4>1. row'[k] = row[k] /\ meant'[r][k] = meant[r][k]
        BY <1>0, <2>1, <2>2, <3>0, <3>1
      <4> QED BY <2>1, <3>0, <4>1 DEF RuleRefers
    <3>2. CASE k = "tag" /\ rules[r]["tag"] \in ts
      <4>1. meant'[r]["tag"] = NoName
        BY <1>0, <2>1, <3>0, <3>2
      <4> QED BY <3>2, <4>1 DEF RuleRefers
    <3>3. CASE k = "tag" /\ rules[r]["tag"] \notin ts
      <4>1. meant'[r] = meant[r]
        BY <2>1, <3>3
      <4> QED BY <2>1, <2>2, <3>0, <3>3, <4>1 DEF RuleRefers
    <3> QED BY <3>1, <3>2, <3>3
  <2> QED BY <2>3, <2>4, <2>5 DEF RulesInv, RulesFollowMerges
<1>5. ASSUME NEW l \in Ids, DeleteLayout(l) PROVE RulesInv'
  <2>1. /\ row' = [row EXCEPT !["layout"][l] = NoName] /\ UNCHANGED <<rules, meant>>
        /\ \A r \in Rules : rules[r]["layout"] # l
    BY <1>5 DEF DeleteLayout, Assigning
  <2>2. RowsTyped' /\ RulesTyped'
    BY <1>0, <2>1 DEF RulesInv, RowsTyped, RulesTyped
  <2>3. ASSUME NEW r \in Rules, NEW k \in Kinds PROVE RuleRefers(r, k)'
    <3>0. RuleRefers(r, k) /\ rules[r][k] \in Ids \cup {None}
      BY DEF RulesInv, RulesFollowMerges, RulesTyped
    <3>1. \A x \in Ids : k # "layout" \/ x # l => row'[k][x] = row[k][x]
      BY <1>0, <2>1 DEF RulesInv, RowsTyped
    <3> QED BY <2>1, <3>0, <3>1 DEF RuleRefers
  <2> QED BY <2>2, <2>3 DEF RulesInv, RulesFollowMerges
<1>6. ASSUME NEW s \in Rules, NEW j \in Kinds, NEW i \in Ids, SaveRule(s, j, i) PROVE RulesInv'
  <2>1. /\ row[j][i] # NoName /\ UNCHANGED row
        /\ rules' = [rules EXCEPT ![s][j] = i] /\ meant' = [meant EXCEPT ![s][j] = row[j][i]]
    BY <1>6 DEF SaveRule, Rows
  <2>2. RowsTyped' /\ RulesTyped' /\ row[j][i] \in Names \cup {NoName}
    BY <2>1 DEF RulesInv, RowsTyped, RulesTyped
  <2>3. ASSUME NEW r \in Rules, NEW k \in Kinds PROVE RuleRefers(r, k)'
    <3>0. RuleRefers(r, k)
      BY DEF RulesInv, RulesFollowMerges
    <3>1. CASE r = s /\ k = j
      <4>1. rules'[r][k] = i /\ meant'[r][k] = row[j][i]
        BY <2>1, <3>1 DEF RulesInv, RulesTyped
      <4> QED BY <2>1, <3>1, <4>1 DEF RuleRefers
    <3>2. CASE ~(r = s /\ k = j)
      <4>1. rules'[r][k] = rules[r][k] /\ meant'[r][k] = meant[r][k]
        BY <2>1, <3>2 DEF RulesInv, RulesTyped
      <4> QED BY <2>1, <3>0, <4>1 DEF RuleRefers
    <3> QED BY <3>1, <3>2
  <2> QED BY <2>2, <2>3 DEF RulesInv, RulesFollowMerges
<1>7. ASSUME NEW f \in flight, CommitMerge(f) PROVE RulesInv'
  <2>1. f \in Merges /\ f.from # f.into
    BY <1>7 DEF CommitMerge, FlightTyped
  <2>2. PICK k \in {"corr", "tag"}, i \in Ids, j \in Ids :
          f.kind = k /\ f.from = i /\ f.into = j /\ i # j
    BY <2>1 DEF Merges
  <2>3. /\ row[k][j] # NoName /\ row' = [row EXCEPT ![k][i] = NoName]
        /\ rules' = [r \in Rules |-> IF rules[r][k] = i THEN [rules[r] EXCEPT ![k] = j] ELSE rules[r]]
        /\ meant' = [r \in Rules |-> IF rules[r][k] = i /\ meant[r][k] # NoName
                                     THEN [meant[r] EXCEPT ![k] = row[k][j]] ELSE meant[r]]
    BY <1>7, <2>2 DEF CommitMerge, MergePossible, Rows, RewrittenRules
  <2>4. k \in Kinds /\ k # "layout" /\ row[k][j] \in Names \cup {NoName}
    BY <1>0 DEF RulesInv, RowsTyped
  <2>5. RowsTyped' /\ RulesTyped'
    BY <2>3, <2>4 DEF RulesInv, RowsTyped, RulesTyped
  <2>6. ASSUME NEW r \in Rules, NEW h \in Kinds PROVE RuleRefers(r, h)'
    <3>0. /\ RuleRefers(r, h) /\ rules[r] \in [Kinds -> Ids \cup {None}]
          /\ rules[r][h] \in Ids \cup {None}
          /\ meant[r] \in [Kinds -> Names \cup {NoName}]
      BY DEF RulesInv, RulesFollowMerges, RulesTyped
    <3>1. \A x \in Ids : h # k \/ x # i => row'[h][x] = row[h][x]
      BY <2>3, <2>4 DEF RulesInv, RowsTyped
    <3>2. CASE h = k /\ rules[r][k] = i
      <4>1. rules'[r][h] = j
        BY <2>3, <2>4, <3>0, <3>2
      <4> QED BY <2>2, <2>3, <2>4, <3>1, <3>2, <4>1 DEF RuleRefers
    <3>3. CASE h = k /\ rules[r][k] # i
      BY <2>3, <3>0, <3>1, <3>3 DEF RuleRefers
    <3>4. CASE h # k
      <4>1. rules'[r][h] = rules[r][h] /\ meant'[r][h] = meant[r][h]
        BY <2>3, <2>4, <3>0, <3>4
      <4> QED BY <3>0, <3>1, <3>4, <4>1 DEF RuleRefers
    <3> QED BY <3>2, <3>3, <3>4
  <2> QED BY <2>5, <2>6 DEF RulesInv, RulesFollowMerges
<1>8. ASSUME UNCHANGED <<row, rules, meant>> PROVE RulesInv'
  BY <1>8 DEF RulesInv, RowsTyped, RulesTyped, RulesFollowMerges, RuleRefers
<1>9. ASSUME NEW l \in Ids, NEW tpl, UpdateLayout(l, tpl) PROVE RulesInv'
  BY <1>8, <1>9 DEF UpdateLayout
<1>10. ASSUME NEW k, NEW i, NEW j, BeginMerge(k, i, j) PROVE RulesInv'
  BY <1>8, <1>10 DEF BeginMerge, names
<1>11. ASSUME NEW f \in flight, RefuseMerge(f) PROVE RulesInv'
  BY <1>8, <1>11 DEF RefuseMerge, names
<1> QED
  BY <1>0, <1>1, <1>2, <1>3, <1>4, <1>5, <1>6, <1>7, <1>9, <1>10, <1>11
  DEF NamesStep, CreateCorrespondent, CreateTag, CreateLayout, UpdateCorrespondent, UpdateTag,
      RenameLayout

LEMMA RulesKept ==
  ASSUME TaxonomyAssumption, RulesInv, FlightTyped, [TaxNext]_taxVars
  PROVE  RulesInv'
<1>1. ASSUME UNCHANGED <<row, rules, meant>> PROVE RulesInv'
  BY <1>1 DEF RulesInv, RowsTyped, RulesTyped, RulesFollowMerges, RuleRefers
<1>2. ASSUME NEW d \in DocIds, NEW n \in Names, AddDocCorrespondent(d, n) PROVE RulesInv'
  <2> DEFINE i == IdOf(n)
  <2>1. /\ i \in Ids /\ row' = [row EXCEPT !["corr"][i] = n] /\ UNCHANGED <<rules, meant>>
        /\ "corr" \in Kinds
    BY <1>2 DEF AddDocCorrespondent, Kinds
  <2> HIDE DEF i
  <2> QED BY <2>1, NamedRules
<1>3. CASE UNCHANGED taxVars
  BY <1>1, <1>3 DEF taxVars
<1> QED
  BY <1>1, <1>2, <1>3, NamesAndRules, TreeAndFieldsApart, DocsApart, FilingApart DEF TaxNext

LEMMA RulesStart == ASSUME TaxonomyAssumption, StartsAssumption, TaxInit PROVE RulesInv
<1>1. PICK s \in Starts :
        /\ row = s.row /\ rules = s.rules
        /\ meant = [r \in Rules |-> [k \in Kinds |->
                      IF s.rules[r][k] = None THEN NoName ELSE s.row[k][s.rules[r][k]]]]
  BY DEF TaxInit
<1>2. /\ RowsTyped /\ rules \in [Rules -> [Kinds -> Ids \cup {None}]]
      /\ \A r \in Rules, k \in Kinds : rules[r][k] # None => row[k][rules[r][k]] # NoName
  BY <1>1 DEF StartsAssumption, RowsTyped
<1>3. /\ \A r \in Rules, k \in Kinds :
           meant[r][k] = IF rules[r][k] = None THEN NoName ELSE row[k][rules[r][k]]
      /\ meant \in [Rules -> [Kinds -> Names \cup {NoName}]]
  BY <1>1, <1>2 DEF RowsTyped
<1> QED BY <1>2, <1>3 DEF RulesInv, RulesTyped, RulesFollowMerges, RuleRefers

\* Merging two names takes the automations along, deleting one that was
\* chosen by name is the only way to leave an automation without its row, and
\* a layout that an automation assigns is never deleted.
THEOREM TaxRulesFollowMerges == TaxSpec => []RulesFollowMerges
<1>1. TaxInit => TreeInv /\ RulesInv
  BY TreeStarts, RulesStart, TaxonomyAssumption, StartsAssumption
<1>2. TreeInv /\ RulesInv /\ [TaxNext]_taxVars => TreeInv' /\ RulesInv'
  BY TreeKept, RulesKept, TaxonomyAssumption DEF TreeInv
<1>3. RulesInv => RulesFollowMerges
  BY DEF RulesInv
<1> QED BY <1>1, <1>2, <1>3, PTL DEF TaxSpec

-----------------------------------------------------------------------------
(* Paths follow.                                                           *)

\* What a step must leave alone for the path of a document to stay.
Steady(d) ==
  LET T == TemplateOf(d)
      l == doc[d].layout
  IN  /\ doc'[d].title = doc[d].title /\ doc'[d].cat = doc[d].cat /\ doc'[d].layout = l
      /\ "asn" \in T => doc'[d].asn = doc[d].asn
      /\ "correspondent" \in T => Primary(d)' = Primary(d)
      /\ "tag_list" \in T => /\ doc'[d].tags = doc[d].tags
                             /\ \A t \in doc[d].tags : row'["tag"][t] = row["tag"][t]
      /\ l # None => /\ uses'[l] = uses[l]
                     /\ "storage_path" \in T => row'["layout"][l] = row["layout"][l]
      /\ system'.mode = system.mode /\ categories' = categories
      /\ "system" \in T => system'.name = system.name

LEMMA TemplateReads ==
  ASSUME LayoutsTyped, DocsTyped, NEW d \in DocIds
  PROVE  /\ TemplateOf(d) \subseteq Variables
         /\ doc[d].layout = None => TemplateOf(d) \cap {"asn", "storage_path", "system", "tag_list"} = {}
         /\ doc[d].layout # None => TemplateOf(d) = uses[doc[d].layout]
<1>1. doc[d].layout \in Ids \cup {None}
  BY DEF DocsTyped, Documents
<1> QED BY <1>1 DEF TemplateOf, DefaultTemplate, LayoutsTyped, Variables

LEMMA SteadyPath ==
  ASSUME LayoutsTyped, DocsTyped, NEW d \in DocIds, Steady(d)
  PROVE  PathOf(d)' = PathOf(d)
<1> DEFINE T == TemplateOf(d)
<1>1. T \subseteq Variables /\ (doc[d].layout = None => "storage_path" \notin T)
  BY TemplateReads
<1>2. TemplateOf(d)' = T
  BY DEF TemplateOf, DefaultTemplate, Steady
<1>3. ASSUME NEW v \in T PROVE ValueOf(v, d)' = ValueOf(v, d)
  <2>1. v \in Variables
    BY <1>1
  <2>2. CASE v = "title"
    BY <2>2 DEF ValueOf, Steady
  <2>3. CASE v = "correspondent"
    BY <2>3 DEF ValueOf, Steady
  <2>4. CASE v = "tag_list"
    BY <2>4 DEF ValueOf, Steady
  <2>5. CASE v = "storage_path"
    BY <1>1, <2>5 DEF ValueOf, Steady
  <2>6. CASE v = "asn"
    BY <2>6 DEF ValueOf, Steady
  <2>7. CASE v = "category"
    BY <2>7 DEF ValueOf, Steady
  <2>8. CASE v = "system"
    BY <2>8 DEF ValueOf, Steady
  <2> QED BY <2>1, <2>2, <2>3, <2>4, <2>5, <2>6, <2>7, <2>8 DEF Variables
<1> HIDE DEF T
<1>4. PathOf(d) = {<<v, ValueOf(v, d)>> : v \in T}
  BY DEF PathOf, T
<1>5. PathOf(d)' = {<<v, ValueOf(v, d)'>> : v \in T}
  BY <1>2 DEF PathOf
<1> QED BY <1>3, <1>4, <1>5

LEMMA SteadyPaths ==
  ASSUME DocInv, UNCHANGED shown,
         \A d \in DocIds : doc'[d].live /\ d \notin moves' => doc[d].live /\ d \notin moves /\ Steady(d)
  PROVE  ShownTyped' /\ PathFollows'
<1>1. ASSUME NEW d \in DocIds, doc'[d].live, d \notin moves' PROVE shown'[d] = PathOf(d)'
  <2>1. doc[d].live /\ d \notin moves /\ Steady(d)
    BY <1>1
  <2>2. shown[d] = PathOf(d)
    BY <2>1 DEF DocInv, PathFollows
  <2>3. PathOf(d)' = PathOf(d)
    BY <2>1, SteadyPath DEF DocInv
  <2> QED BY <2>2, <2>3
<1> QED BY <1>1 DEF DocInv, PathFollows, ShownTyped

LEMMA SamePrimary ==
  ASSUME NEW d \in DocIds, DocsTyped, doc'[d].senders = doc[d].senders,
         \A c \in Range(doc[d].senders) : row'["corr"][c] = row["corr"][c]
  PROVE  Primary(d)' = Primary(d)
<1>1. CASE doc[d].senders = <<>>
  BY <1>1 DEF Primary
<1>2. CASE doc[d].senders # <<>>
  <2>1. doc[d].senders \in Seq(Ids)
    BY DEF DocsTyped, Documents
  <2>2. Head(doc[d].senders) \in Range(doc[d].senders)
    BY <1>2, <2>1, EmptySeq, LenProperties DEF Range
  <2> QED BY <1>2, <2>2 DEF Primary
<1> QED BY <1>1, <1>2

\* Documents that keep what is filed with them.
LEMMA ReferStays ==
  ASSUME DocsTyped, DocsRefer, \A k \in Kinds : Rows(k) \subseteq Rows(k)',
         \A d \in DocIds : /\ doc'[d].senders = doc[d].senders /\ doc'[d].tags = doc[d].tags
                           /\ doc'[d].layout = doc[d].layout
  PROVE  DocsRefer'
<1>0. "corr" \in Kinds /\ "tag" \in Kinds /\ "layout" \in Kinds
  BY DEF Kinds
<1>1. /\ Rows("corr") \subseteq Rows("corr")' /\ Rows("tag") \subseteq Rows("tag")'
      /\ Rows("layout") \subseteq Rows("layout")'
  BY <1>0
<1>2. ASSUME NEW d \in DocIds
      PROVE  /\ Range(doc'[d].senders) \subseteq Rows("corr")' /\ doc'[d].tags \subseteq Rows("tag")'
             /\ doc'[d].layout \in Rows("layout")' \cup {None}
  BY <1>1 DEF DocsRefer
<1> QED BY <1>2 DEF DocsRefer

\* A record put in the place of a document's, that refers to what exists.
Fits(r) ==
  /\ r \in Documents /\ IsInjective(r.senders)
  /\ Range(r.senders) \subseteq Rows("corr") /\ r.tags \subseteq Rows("tag")
  /\ r.layout \in Rows("layout") \cup {None}

\* The path of the record is that of the document.
Alike(r, d) ==
  LET T == TemplateOf(d)
  IN  /\ r.title = doc[d].title /\ r.cat = doc[d].cat /\ r.layout = doc[d].layout
      /\ "asn" \in T => r.asn = doc[d].asn
      /\ \/ r.senders = doc[d].senders
         \/ r.senders # <<>> /\ doc[d].senders # <<>> /\ Head(r.senders) = Head(doc[d].senders)
      /\ r.tags = doc[d].tags

LEMMA DocFits == ASSUME DocInv, NEW d \in DocIds PROVE Fits(doc[d])
  BY DEF DocInv, DocsTyped, DocsRefer, Fits

LEMMA ReviewedRecord ==
  ASSUME NEW r \in Documents
  PROVE  /\ Reviewed(r) \in Documents
         /\ Reviewed(r).live = r.live /\ Reviewed(r).title = r.title /\ Reviewed(r).cat = r.cat
         /\ Reviewed(r).layout = r.layout /\ Reviewed(r).asn = r.asn /\ Reviewed(r).senders = r.senders
         /\ Reviewed(r).tags \subseteq r.tags
         /\ ReviewTag \notin r.mach => Reviewed(r) = r
  BY DEF Reviewed, Documents

LEMMA AlikeIsSteady ==
  ASSUME DocInv, NEW d \in DocIds, Alike(doc'[d], d), UNCHANGED <<row, uses, categories, system>>
  PROVE  Steady(d)
<1>1. Primary(d)' = Primary(d)
  BY DEF Alike, Primary
<1> QED BY <1>1 DEF Alike, Steady

LEMMA EditFollows ==
  ASSUME DocInv, NEW ds \in SUBSET DocIds, NEW e, NEW m, EditDocs(ds, e, m),
         \A d \in ds : Fits(e[d]) /\ e[d].live = doc[d].live /\ (d \notin m => Alike(e[d], d))
  PROVE  DocInv'
<1>1. /\ doc' = [d \in DocIds |-> IF d \in ds THEN Reviewed(e[d]) ELSE doc[d]]
      /\ moves' = moves \cup LiveIn(m \cup {d \in ds : ReviewTag \in e[d].mach})
      /\ UNCHANGED <<row, uses, categories, system, shown>>
  BY DEF EditDocs, EnqueueMoves, names, filing
<1>2. ASSUME NEW d \in DocIds PROVE Fits(doc'[d])
  <2>1. CASE d \notin ds
    BY <1>1, <2>1, DocFits
  <2>2. CASE d \in ds
    <3>1. Fits(e[d]) /\ doc'[d] = Reviewed(e[d])
      BY <1>1, <2>2
    <3> QED BY <3>1, ReviewedRecord DEF Fits
  <2> QED BY <2>1, <2>2
<1>3. ASSUME NEW d \in DocIds, doc'[d].live, d \notin moves'
      PROVE  doc[d].live /\ d \notin moves /\ Steady(d)
  <2>1. CASE d \notin ds
    <3>1. doc'[d] = doc[d]
      BY <1>1, <2>1
    <3>2. Alike(doc'[d], d)
      BY <3>1 DEF Alike
    <3> QED BY <1>1, <1>3, <3>1, <3>2, AlikeIsSteady
  <2>2. CASE d \in ds
    <3>1. doc'[d] = Reviewed(e[d]) /\ e[d] \in Documents
      BY <1>1, <2>2 DEF Fits
    <3>2. doc[d].live
      BY <1>3, <2>2, <3>1, ReviewedRecord
    <3>3. d \notin m /\ ReviewTag \notin e[d].mach
      BY <1>1, <1>3, <2>2, <3>2 DEF LiveIn
    <3>4. Alike(doc'[d], d)
      BY <2>2, <3>1, <3>3, ReviewedRecord
    <3> QED BY <1>1, <1>3, <3>2, <3>4, AlikeIsSteady
  <2> QED BY <2>1, <2>2
<1>4. ShownTyped' /\ PathFollows'
  BY <1>1, <1>3, SteadyPaths
<1>5. DocsTyped'
  BY <1>1, <1>2 DEF DocsTyped, Fits
<1>6. DocsRefer'
  BY <1>1, <1>2 DEF DocsRefer, Fits, Rows
<1> QED BY <1>1, <1>4, <1>5, <1>6 DEF DocInv, LayoutsTyped, SystemShaped

LEMMA PatchesFollow ==
  ASSUME RowsTyped, DocInv, NEW d \in DocIds,
         \/ \E n \in Names : PatchTitle(d, n)
         \/ \E c \in Codes : PatchCategory(d, c)
         \/ \E l \in Ids \cup {None} : PatchLayout(d, l)
         \/ \E g \in BOOLEAN : PatchNumber(d, g)
  PROVE  DocInv'
<1>0. Fits(doc[d]) /\ {d} \in SUBSET DocIds
  BY DocFits
<1>1. ASSUME NEW n \in Names, PatchTitle(d, n) PROVE DocInv'
  <2> DEFINE e == [x \in {d} |-> [doc[x] EXCEPT !.title = n]]
  <2>1. EditDocs({d}, e, {d})
    BY <1>1 DEF PatchTitle
  <2>2. Fits(e[d]) /\ e[d].live = doc[d].live
    BY <1>0 DEF Fits, Documents
  <2> HIDE DEF e
  <2> QED BY <1>0, <2>1, <2>2, EditFollows
<1>2. ASSUME NEW c \in Codes, PatchCategory(d, c) PROVE DocInv'
  <2> DEFINE e == [x \in {d} |-> [doc[x] EXCEPT !.cat = c]]
  <2>1. EditDocs({d}, e, {d})
    BY <1>2 DEF PatchCategory
  <2>2. Fits(e[d]) /\ e[d].live = doc[d].live
    BY <1>0 DEF Fits, Documents
  <2> HIDE DEF e
  <2> QED BY <1>0, <2>1, <2>2, EditFollows
<1>3. ASSUME NEW l \in Ids \cup {None}, PatchLayout(d, l) PROVE DocInv'
  <2> DEFINE e == [x \in {d} |-> [doc[x] EXCEPT !.layout = l]]
  <2>1. EditDocs({d}, e, {d}) /\ l \in Rows("layout") \cup {None}
    BY <1>3 DEF PatchLayout
  <2>2. Fits(e[d]) /\ e[d].live = doc[d].live
    BY <1>0, <2>1 DEF Fits, Documents
  <2> HIDE DEF e
  <2> QED BY <1>0, <2>1, <2>2, EditFollows
<1>4. ASSUME NEW g \in BOOLEAN, PatchNumber(d, g) PROVE DocInv'
  <2> DEFINE e == [x \in {d} |-> [doc[x] EXCEPT !.asn = g]]
             m == IF NeedsNumber(doc[d].layout) THEN {d} ELSE {}
  <2>1. EditDocs({d}, e, m)
    BY <1>4 DEF PatchNumber
  <2>2. Fits(e[d]) /\ e[d].live = doc[d].live
    BY <1>0 DEF Fits, Documents
  <2>3. /\ e[d].title = doc[d].title /\ e[d].cat = doc[d].cat /\ e[d].layout = doc[d].layout
        /\ e[d].senders = doc[d].senders /\ e[d].tags = doc[d].tags
    BY <1>0 DEF Fits, Documents
  <2>4. d \notin m => "asn" \notin TemplateOf(d)
    BY TemplateReads DEF NeedsNumber, DocInv
  <2> HIDE DEF e, m
  <2>5. d \notin m => Alike(e[d], d)
    BY <2>3, <2>4 DEF Alike
  <2> QED BY <1>0, <2>1, <2>2, <2>5, EditFollows
<1> QED BY <1>1, <1>2, <1>3, <1>4

LEMMA BulkFollows ==
  ASSUME RowsTyped, DocInv, NEW ds \in SUBSET DocIds,
         \/ \E i \in Ids \cup {None} : BulkLayout(ds, i) \/ BulkCorrespondent(ds, i)
         \/ \E c \in Codes : BulkCategory(ds, c)
         \/ \E t \in Ids : BulkAddTag(ds, t) \/ BulkRemoveTag(ds, t)
  PROVE  DocInv'
<1>0. \A d \in ds : Fits(doc[d])
  BY DocFits
<1>1. ASSUME NEW l \in Ids \cup {None}, BulkLayout(ds, l) PROVE DocInv'
  <2> DEFINE e == [x \in ds |-> [doc[x] EXCEPT !.layout = l]]
             m == {d \in ds : doc[d].layout # l}
  <2>1. EditDocs(ds, e, m) /\ l \in Rows("layout") \cup {None}
    BY <1>1 DEF BulkLayout
  <2>2. ASSUME NEW d \in ds
        PROVE  Fits(e[d]) /\ e[d].live = doc[d].live /\ (d \notin m => Alike(e[d], d))
    BY <1>0, <2>1 DEF Fits, Documents, Alike
  <2> HIDE DEF e, m
  <2> QED BY <2>1, <2>2, EditFollows
<1>2. ASSUME NEW c \in Codes, BulkCategory(ds, c) PROVE DocInv'
  <2> DEFINE e == [x \in ds |-> [doc[x] EXCEPT !.cat = c]]
             m == {d \in ds : doc[d].cat # c}
  <2>1. EditDocs(ds, e, m)
    BY <1>2 DEF BulkCategory
  <2>2. ASSUME NEW d \in ds
        PROVE  Fits(e[d]) /\ e[d].live = doc[d].live /\ (d \notin m => Alike(e[d], d))
    BY <1>0 DEF Fits, Documents, Alike
  <2> HIDE DEF e, m
  <2> QED BY <2>1, <2>2, EditFollows
<1>3. ASSUME NEW t \in Ids, BulkAddTag(ds, t) PROVE DocInv'
  <2> DEFINE e == [x \in ds |-> [doc[x] EXCEPT !.tags = @ \cup {t}, !.mach = @ \ {t}]]
             m == {d \in ds : t \notin doc[d].tags}
  <2>1. EditDocs(ds, e, m) /\ t \in Rows("tag")
    BY <1>3 DEF BulkAddTag
  <2>2. ASSUME NEW d \in ds
        PROVE  Fits(e[d]) /\ e[d].live = doc[d].live /\ (d \notin m => Alike(e[d], d))
    <3>1. doc[d] \in Documents
      BY <1>0 DEF Fits
    <3>2. /\ e[d] \in Documents /\ e[d].live = doc[d].live /\ e[d].title = doc[d].title
          /\ e[d].cat = doc[d].cat /\ e[d].layout = doc[d].layout /\ e[d].asn = doc[d].asn
          /\ e[d].senders = doc[d].senders /\ e[d].tags = doc[d].tags \cup {t}
      BY <3>1 DEF Documents
    <3>3. d \notin m => e[d].tags = doc[d].tags
      BY <3>2
    <3> HIDE DEF e, m
    <3> QED BY <1>0, <2>1, <3>2, <3>3 DEF Fits, Alike
  <2> HIDE DEF e, m
  <2> QED BY <2>1, <2>2, EditFollows
<1>4. ASSUME NEW t \in Ids, BulkRemoveTag(ds, t) PROVE DocInv'
  <2> DEFINE e == [x \in ds |-> [doc[x] EXCEPT !.tags = @ \ {t}, !.mach = @ \ {t}]]
             m == {d \in ds : t \in doc[d].tags}
  <2>1. EditDocs(ds, e, m)
    BY <1>4 DEF BulkRemoveTag
  <2>2. ASSUME NEW d \in ds
        PROVE  Fits(e[d]) /\ e[d].live = doc[d].live /\ (d \notin m => Alike(e[d], d))
    <3>1. doc[d] \in Documents
      BY <1>0 DEF Fits
    <3>2. /\ e[d] \in Documents /\ e[d].live = doc[d].live /\ e[d].title = doc[d].title
          /\ e[d].cat = doc[d].cat /\ e[d].layout = doc[d].layout /\ e[d].asn = doc[d].asn
          /\ e[d].senders = doc[d].senders /\ e[d].tags = doc[d].tags \ {t}
      BY <3>1 DEF Documents
    <3>3. d \notin m => e[d].tags = doc[d].tags
      BY <3>2
    <3> HIDE DEF e, m
    <3> QED BY <1>0, <3>2, <3>3 DEF Fits, Alike
  <2> HIDE DEF e, m
  <2> QED BY <2>1, <2>2, EditFollows
<1>5. ASSUME NEW c \in Ids \cup {None}, BulkCorrespondent(ds, c) PROVE DocInv'
  <2> DEFINE s(x) == IF c = None THEN <<>> ELSE <<c>> \o Without(doc[x].senders, c)
             e == [x \in ds |-> [doc[x] EXCEPT !.senders = s(x)]]
             m == {d \in ds : IF c = None THEN doc[d].senders # <<>>
                              ELSE doc[d].senders = <<>> \/ Head(doc[d].senders) # c}
  <2>1. EditDocs(ds, e, m) /\ c \in Rows("corr") \cup {None}
    BY <1>5 DEF BulkCorrespondent
  <2>2. ASSUME NEW d \in ds
        PROVE  Fits(e[d]) /\ e[d].live = doc[d].live /\ (d \notin m => Alike(e[d], d))
    <3>1. doc[d] \in Documents /\ Listing(doc[d].senders) /\ Fits(doc[d])
      BY <1>0 DEF Fits, Listing, Documents
    <3>2. /\ s(d) \in Seq(Ids) /\ IsInjective(s(d)) /\ Range(s(d)) \subseteq Rows("corr")
          /\ c # None => s(d) # <<>> /\ Head(s(d)) = c
          /\ c = None => s(d) = <<>>
      <4>1. CASE c = None
        BY <4>1 DEF IsInjective, Range
      <4>2. CASE c # None
        <5>1. c \in Ids /\ c \in Rows("corr")
          BY <2>1, <4>2
        <5> DEFINE w == Without(doc[d].senders, c)
        <5>2. Listing(w) /\ Range(w) = Range(doc[d].senders) \ {c}
          BY <3>1, WithoutListing
        <5> HIDE DEF w
        <5>3. /\ Listing(<<c>> \o w) /\ Range(<<c>> \o w) = Range(w) \cup {c} /\ <<c>> \o w # <<>>
              /\ Head(<<c>> \o w) = c
          BY <5>1, <5>2, PrependedListing
        <5>4. s(d) = <<c>> \o w
          BY <4>2 DEF w
        <5>5. Range(doc[d].senders) \subseteq Rows("corr")
          BY <3>1 DEF Fits
        <5> HIDE DEF s
        <5> QED BY <4>2, <5>1, <5>2, <5>3, <5>4, <5>5 DEF Listing
      <4> QED BY <4>1, <4>2
    <3> HIDE DEF s
    <3>3. /\ e[d] \in Documents /\ e[d].live = doc[d].live /\ e[d].title = doc[d].title
          /\ e[d].cat = doc[d].cat /\ e[d].layout = doc[d].layout /\ e[d].asn = doc[d].asn
          /\ e[d].senders = s(d) /\ e[d].tags = doc[d].tags
      BY <3>1, <3>2 DEF Documents
    <3>4. d \notin m => \/ e[d].senders = doc[d].senders
                        \/ e[d].senders # <<>> /\ doc[d].senders # <<>> /\ Head(e[d].senders) = Head(doc[d].senders)
      BY <3>2, <3>3
    <3> HIDE DEF e, m
    <3> QED BY <3>1, <3>2, <3>3, <3>4 DEF Fits, Alike
  <2> HIDE DEF e, m
  <2> QED BY <2>1, <2>2, EditFollows
<1> QED BY <1>1, <1>2, <1>3, <1>4, <1>5

LEMMA LeastBound ==
  ASSUME NEW T \in SUBSET Nat, T # {}
  PROVE  \E x \in T : \A y \in T : ~(y < x)
<1>1. IsWellFoundedOn(OpToRel(<, Nat), Nat)
  BY NatLessThanWellFounded
<1>2. PICK x \in T : \A y \in T : ~(<<y, x>> \in OpToRel(<, Nat))
  BY <1>1, WFMin
<1> QED BY <1>2 DEF OpToRel

\* Numbers for new rows: one more than the largest in use.
LEMMA FreshId == ASSUME TaxonomyAssumption, NEW k PROVE NextId(k) \notin Rows(k)
<1> DEFINE R == Rows(k)
           T == {b \in Nat : \A i \in R : i <= b}
<1>0. PICK n \in 0..128 : Ids = 1..n
  BY DEF TaxonomyAssumption, MaxHops
<1>a. R \subseteq Ids
  BY DEF Rows
<1>1. n \in Nat /\ R \subseteq 1..n
  <2> HIDE DEF R
  <2> QED BY <1>0, <1>a
<1>2. CASE R = {}
  BY <1>2
<1>3. CASE R # {}
  <2>0. T \in SUBSET Nat
    OBVIOUS
  <2>a. n \in T
    BY <1>1
  <2>b. \A b \in Nat : b \in T <=> \A i \in R : i <= b
    OBVIOUS
  <2>c. NextId(k) = 1 + (CHOOSE m \in R : \A i \in R : i <= m)
    BY <1>3 DEF NextId
  <2>d. R \subseteq Nat /\ 0 \notin R
    BY <1>1
  <2> HIDE DEF R, T
  <2>2. T # {}
    BY <2>a
  <2>3. PICK b \in T : \A y \in T : ~(y < b)
    BY <2>0, <2>2, LeastBound
  <2>e. b \in Nat /\ \A i \in R : i <= b
    BY <2>0, <2>b, <2>3
  <2>4. b \in R
    <3> SUFFICES ASSUME b \notin R PROVE FALSE
      OBVIOUS
    <3>1. PICK i \in R : i \in Nat /\ i # 0 /\ i <= b /\ i # b
      BY <1>3, <2>d, <2>e
    <3>2. b - 1 \in Nat
      BY <2>e, <3>1
    <3>3. \A j \in R : j <= b - 1
      BY <2>d, <2>e
    <3>4. b - 1 \in T
      BY <2>b, <3>2, <3>3
    <3> QED BY <2>3, <2>e, <3>4
  <2>5. \E m \in R : \A i \in R : i <= m
    BY <2>e, <2>4
  <2> DEFINE m == CHOOSE x \in R : \A i \in R : i <= x
  <2>6. m \in R /\ \A i \in R : i <= m
    BY <2>5
  <2> HIDE DEF m
  <2>7. 1 + m \notin R
    BY <2>d, <2>6
  <2> QED BY <2>c, <2>7 DEF m, R
<1> QED BY <1>2, <1>3

LEMMA RowNamed ==
  ASSUME TaxonomyAssumption, RowsTyped, NEW k \in Kinds, NEW i \in Ids, NEW n \in Names,
         row' = [row EXCEPT ![k][i] = n]
  PROVE  /\ \A h \in Kinds : Rows(h) \subseteq Rows(h)'
         /\ \A h \in Kinds, x \in Ids : h # k \/ x # i => row'[h][x] = row[h][x]
         /\ i \in Rows(k)'
<1>1. n # NoName
  BY DEF TaxonomyAssumption
<1>2. \A h \in Kinds, x \in Ids : IF h = k /\ x = i THEN row'[h][x] = n ELSE row'[h][x] = row[h][x]
  BY DEF RowsTyped
<1> QED BY <1>1, <1>2 DEF Rows

LEMMA DocsStay ==
  ASSUME DocInv, UNCHANGED <<doc, shown>>, LayoutsTyped', SystemShaped',
         \A k \in Kinds : Rows(k) \subseteq Rows(k)', 
         \A d \in DocIds : doc[d].live /\ d \notin moves' => d \notin moves /\ Steady(d)
  PROVE  DocInv'
<1>1. DocsTyped' /\ DocsRefer'
  BY ReferStays DEF DocInv, DocsTyped
<1>2. ShownTyped' /\ PathFollows'
  BY SteadyPaths
<1> QED BY <1>1, <1>2 DEF DocInv

LEMMA CreationFollows ==
  ASSUME TaxonomyAssumption, RowsTyped, DocInv, NEW n \in Names,
         CreateCorrespondent(n) \/ CreateTag(n) \/ \E tpl \in Templates : CreateLayout(n, tpl)
  PROVE  DocInv'
<1>0. "corr" \in Kinds /\ "tag" \in Kinds /\ "layout" \in Kinds
  BY DEF Kinds
<1>1. PICK k \in Kinds : /\ Create(k, n)
                         /\ \/ UNCHANGED uses
                            \/ k = "layout" /\ \E tpl \in Templates : uses' = [uses EXCEPT ![NextId(k)] = tpl]
  BY <1>0 DEF CreateCorrespondent, CreateTag, CreateLayout
<1>2. PICK i \in Ids : i = NextId(k) /\ row' = [row EXCEPT ![k][i] = n]
  BY <1>1 DEF Create
<1>3. i \notin Rows(k) /\ UNCHANGED <<doc, shown, moves, categories, system>>
  BY <1>1, <1>2, FreshId DEF Create, filing
<1>4. /\ \A h \in Kinds : Rows(h) \subseteq Rows(h)'
      /\ \A h \in Kinds, x \in Ids : h # k \/ x # i => row'[h][x] = row[h][x]
  BY <1>2, RowNamed
<1>5. \A h \in Kinds : \A x \in Rows(h) : row'[h][x] = row[h][x]
  BY <1>3, <1>4 DEF Rows
<1>6. LayoutsTyped' /\ \A x \in Rows("layout") : uses'[x] = uses[x]
  <2>1. CASE UNCHANGED uses
    BY <2>1 DEF DocInv, LayoutsTyped
  <2>2. CASE k = "layout" /\ \E tpl \in Templates : uses' = [uses EXCEPT ![NextId(k)] = tpl]
    BY <1>2, <1>3, <2>2 DEF DocInv, LayoutsTyped, TaxonomyAssumption, Rows
  <2> QED BY <1>1, <2>1, <2>2
<1>7. ASSUME NEW d \in DocIds PROVE Steady(d)
  <2>1. /\ Range(doc[d].senders) \subseteq Rows("corr") /\ doc[d].tags \subseteq Rows("tag")
        /\ doc[d].layout \in Rows("layout") \cup {None}
    BY DEF DocInv, DocsRefer
  <2>2. Primary(d)' = Primary(d)
    BY <1>0, <1>3, <1>5, <2>1, SamePrimary DEF DocInv
  <2> QED BY <1>0, <1>3, <1>5, <1>6, <2>1, <2>2 DEF Steady
<1> QED BY <1>3, <1>4, <1>6, <1>7, DocsStay DEF DocInv, SystemShaped

\* EnqueueTemplateMoves: what is left out is trashed or does not read it.
LEMMA TemplateMoved ==
  ASSUME NEW v, NEW ds, moves' = TemplateMoves(v, ds), NEW d \in DocIds, doc[d].live, d \notin moves'
  PROVE  d \notin moves /\ (d \in ds => v \notin TemplateOf(d))
  BY DEF TemplateMoves, LiveIn

LEMMA CorrespondentRenameFollows ==
  ASSUME TaxonomyAssumption, RowsTyped, DocInv, NEW c \in Ids, NEW n \in Names,
         UpdateCorrespondent(c, n)
  PROVE  DocInv'
<1>0. "corr" \in Kinds /\ "tag" \in Kinds /\ "layout" \in Kinds
  BY DEF Kinds
<1>1. /\ row' = [row EXCEPT !["corr"][c] = n] /\ UNCHANGED <<doc, uses, categories, system, shown>>
      /\ moves' = TemplateMoves("correspondent", Senders(c))
  BY DEF UpdateCorrespondent, Rename, EnqueueTemplateMoves, filing
<1>2. /\ \A h \in Kinds : Rows(h) \subseteq Rows(h)'
      /\ \A h \in Kinds, x \in Ids : h # "corr" \/ x # c => row'[h][x] = row[h][x]
  BY <1>0, <1>1, RowNamed
<1>3. ASSUME NEW d \in DocIds, doc[d].live, d \notin moves' PROVE d \notin moves /\ Steady(d)
  <2>1. d \notin moves /\ (d \in Senders(c) => "correspondent" \notin TemplateOf(d))
    BY <1>1, <1>3, TemplateMoved
  <2>2. /\ Range(doc[d].senders) \subseteq Ids /\ doc[d].tags \subseteq Ids
        /\ doc[d].layout \in Ids \cup {None}
    BY DEF DocInv, DocsRefer, Rows
  <2>3. "correspondent" \in TemplateOf(d) => Primary(d)' = Primary(d)
    BY <1>0, <1>1, <1>2, <2>1, <2>2, SamePrimary DEF DocInv, Senders
  <2> QED BY <1>0, <1>1, <1>2, <2>1, <2>2, <2>3 DEF Steady
<1> QED BY <1>1, <1>2, <1>3, DocsStay DEF DocInv, LayoutsTyped, SystemShaped

LEMMA LayoutRenameFollows ==
  ASSUME TaxonomyAssumption, RowsTyped, DocInv, NEW l \in Ids, NEW n \in Names, RenameLayout(l, n)
  PROVE  DocInv'
<1>0. "corr" \in Kinds /\ "tag" \in Kinds /\ "layout" \in Kinds
  BY DEF Kinds
<1>1. /\ row' = [row EXCEPT !["layout"][l] = n] /\ UNCHANGED <<doc, uses, categories, system, shown>>
      /\ moves' = moves \cup (IF "storage_path" \in uses[l] THEN LiveIn(LaidOut(l)) ELSE {})
  BY DEF RenameLayout, Rename, filing
<1>2. /\ \A h \in Kinds : Rows(h) \subseteq Rows(h)'
      /\ \A h \in Kinds, x \in Ids : h # "layout" \/ x # l => row'[h][x] = row[h][x]
  BY <1>0, <1>1, RowNamed
<1>3. ASSUME NEW d \in DocIds, doc[d].live, d \notin moves' PROVE d \notin moves /\ Steady(d)
  <2>1. d \notin moves /\ (doc[d].layout = l => "storage_path" \notin uses[l])
    BY <1>1, <1>3 DEF LiveIn, LaidOut
  <2>2. /\ Range(doc[d].senders) \subseteq Ids /\ doc[d].tags \subseteq Ids
        /\ doc[d].layout \in Ids \cup {None}
    BY DEF DocInv, DocsRefer, Rows
  <2>3. Primary(d)' = Primary(d)
    BY <1>0, <1>1, <1>2, <2>2, SamePrimary DEF DocInv
  <2>4. doc[d].layout # None => TemplateOf(d) = uses[doc[d].layout]
    BY DEF TemplateOf
  <2> QED BY <1>0, <1>1, <1>2, <2>1, <2>2, <2>3, <2>4 DEF Steady
<1> QED BY <1>1, <1>2, <1>3, DocsStay DEF DocInv, LayoutsTyped, SystemShaped

LEMMA LayoutUpdateFollows ==
  ASSUME TaxonomyAssumption, RowsTyped, DocInv, NEW l \in Ids, NEW tpl \in Templates,
         UpdateLayout(l, tpl)
  PROVE  DocInv'
<1>1. /\ uses' = [uses EXCEPT ![l] = tpl] /\ UNCHANGED <<row, doc, categories, system, shown>>
      /\ moves' = moves \cup LiveIn(LaidOut(l))
  BY DEF UpdateLayout, EnqueueMoves, filing
<1>2. LayoutsTyped'
  BY <1>1 DEF DocInv, LayoutsTyped, TaxonomyAssumption
<1>3. ASSUME NEW d \in DocIds, doc[d].live, d \notin moves' PROVE d \notin moves /\ Steady(d)
  <2>1. d \notin moves /\ doc[d].layout # l
    BY <1>1, <1>3 DEF LiveIn, LaidOut
  <2>2. doc[d].layout \in Ids \cup {None}
    BY DEF DocInv, DocsRefer, Rows
  <2>3. Primary(d)' = Primary(d)
    BY <1>1, SamePrimary DEF DocInv
  <2>4. doc[d].layout # None => uses'[doc[d].layout] = uses[doc[d].layout]
    BY <1>1, <2>1, <2>2 DEF DocInv, LayoutsTyped
  <2> QED BY <1>1, <2>1, <2>3, <2>4 DEF Steady
<1>4. \A k \in Kinds : Rows(k) \subseteq Rows(k)'
  BY <1>1 DEF Rows
<1> QED BY <1>1, <1>2, <1>3, <1>4, DocsStay DEF DocInv, SystemShaped

LEMMA DocsChange ==
  ASSUME DocInv, UNCHANGED shown, LayoutsTyped', SystemShaped', doc' \in [DocIds -> Documents],
         \A d \in DocIds : /\ IsInjective(doc'[d].senders)
                           /\ Range(doc'[d].senders) \subseteq Rows("corr")'
                           /\ doc'[d].tags \subseteq Rows("tag")'
                           /\ doc'[d].layout \in Rows("layout")' \cup {None},
         \A d \in DocIds : doc'[d].live /\ d \notin moves' => doc[d].live /\ d \notin moves /\ Steady(d)
  PROVE  DocInv'
<1>1. DocsTyped' /\ DocsRefer'
  BY DEF DocsTyped, DocsRefer
<1>2. ShownTyped' /\ PathFollows'
  BY SteadyPaths
<1> QED BY <1>1, <1>2 DEF DocInv

LEMMA TagRenameFollows ==
  ASSUME TaxonomyAssumption, RowsTyped, DocInv, NEW t \in Ids, NEW n \in Names, UpdateTag(t, n)
  PROVE  DocInv'
<1>0. "corr" \in Kinds /\ "tag" \in Kinds /\ "layout" \in Kinds
  BY DEF Kinds
<1>1. /\ row' = [row EXCEPT !["tag"][t] = n] /\ UNCHANGED <<uses, categories, system, shown>>
      /\ doc' = [d \in DocIds |-> [doc[d] EXCEPT !.mach = @ \ {t}]]
      /\ moves' = TemplateMoves("tag_list", Tagged(t))
  BY DEF UpdateTag, Rename, EnqueueTemplateMoves, filing
<1>2. /\ \A h \in Kinds : Rows(h) \subseteq Rows(h)'
      /\ \A h \in Kinds, x \in Ids : h # "tag" \/ x # t => row'[h][x] = row[h][x]
  BY <1>0, <1>1, RowNamed
<1>3. ASSUME NEW d \in DocIds
      PROVE  /\ doc'[d] \in Documents /\ doc'[d].live = doc[d].live /\ doc'[d].title = doc[d].title
             /\ doc'[d].cat = doc[d].cat /\ doc'[d].layout = doc[d].layout /\ doc'[d].asn = doc[d].asn
             /\ doc'[d].senders = doc[d].senders /\ doc'[d].tags = doc[d].tags
  BY <1>1 DEF DocInv, DocsTyped, Documents
<1>4. doc' \in [DocIds -> Documents]
  BY <1>1, <1>3
<1>5. ASSUME NEW d \in DocIds, doc'[d].live, d \notin moves'
      PROVE  doc[d].live /\ d \notin moves /\ Steady(d)
  <2>0. doc[d].live
    BY <1>3, <1>5
  <2>1. d \notin moves /\ (d \in Tagged(t) => "tag_list" \notin TemplateOf(d))
    BY <1>1, <1>5, <2>0, TemplateMoved
  <2>2. /\ Range(doc[d].senders) \subseteq Ids /\ doc[d].tags \subseteq Ids
        /\ doc[d].layout \in Ids \cup {None}
    BY DEF DocInv, DocsRefer, Rows
  <2>3. Primary(d)' = Primary(d)
    BY <1>0, <1>2, <1>3, <2>2, SamePrimary DEF DocInv
  <2> QED BY <1>0, <1>1, <1>2, <1>3, <2>0, <2>1, <2>2, <2>3 DEF Steady, Tagged
<1>6. ASSUME NEW d \in DocIds
      PROVE  /\ IsInjective(doc'[d].senders) /\ Range(doc'[d].senders) \subseteq Rows("corr")'
             /\ doc'[d].tags \subseteq Rows("tag")' /\ doc'[d].layout \in Rows("layout")' \cup {None}
  <2>1. /\ Rows("corr") \subseteq Rows("corr")' /\ Rows("tag") \subseteq Rows("tag")'
        /\ Rows("layout") \subseteq Rows("layout")'
    BY <1>0, <1>2
  <2> QED BY <1>3, <2>1 DEF DocInv, DocsTyped, DocsRefer
<1> QED BY <1>1, <1>4, <1>5, <1>6, DocsChange DEF DocInv, LayoutsTyped, SystemShaped

\* A row goes, with the rest as it was.
LEMMA RowsGone ==
  ASSUME RowsTyped, NEW k \in Kinds, NEW ts \in SUBSET Ids,
         row' = [row EXCEPT ![k] = [i \in Ids |-> IF i \in ts THEN NoName ELSE row[k][i]]]
  PROVE  /\ \A h \in Kinds, x \in Ids : h # k \/ x \notin ts => row'[h][x] = row[h][x]
         /\ Rows(k)' = Rows(k) \ ts /\ \A h \in Kinds \ {k} : Rows(h)' = Rows(h)
<1>1. \A h \in Kinds, x \in Ids :
        row'[h][x] = IF h = k /\ x \in ts THEN NoName ELSE row[h][x]
  BY DEF RowsTyped
<1> QED BY <1>1 DEF Rows

LEMMA RowGone ==
  ASSUME RowsTyped, NEW k \in Kinds, NEW i \in Ids, row' = [row EXCEPT ![k][i] = NoName]
  PROVE  /\ \A h \in Kinds, x \in Ids : h # k \/ x # i => row'[h][x] = row[h][x]
         /\ Rows(k)' = Rows(k) \ {i} /\ \A h \in Kinds \ {k} : Rows(h)' = Rows(h)
<1>1. \A h \in Kinds, x \in Ids :
        row'[h][x] = IF h = k /\ x = i THEN NoName ELSE row[h][x]
  BY DEF RowsTyped
<1> QED BY <1>1 DEF Rows

LEMMA CorrespondentGoneFollows ==
  ASSUME RowsTyped, DocInv, NEW c \in Ids, DeleteCorrespondent(c)
  PROVE  DocInv'
<1>0. "corr" \in Kinds /\ "tag" \in Kinds /\ "layout" \in Kinds
  BY DEF Kinds
<1>1. /\ row' = [row EXCEPT !["corr"][c] = NoName] /\ UNCHANGED <<uses, categories, system, shown>>
      /\ doc' = [d \in DocIds |-> [doc[d] EXCEPT !.senders = Without(@, c)]]
      /\ moves' = TemplateMoves("correspondent", Senders(c))
  BY DEF DeleteCorrespondent, EnqueueTemplateMoves, filing
<1>2. /\ \A h \in Kinds, x \in Ids : h # "corr" \/ x # c => row'[h][x] = row[h][x]
      /\ Rows("corr")' = Rows("corr") \ {c} /\ Rows("tag")' = Rows("tag")
      /\ Rows("layout")' = Rows("layout")
  BY <1>0, <1>1, RowGone
<1>3. ASSUME NEW d \in DocIds
      PROVE  /\ Listing(Without(doc[d].senders, c))
             /\ Range(Without(doc[d].senders, c)) = Range(doc[d].senders) \ {c}
             /\ c \notin Range(doc[d].senders) => Without(doc[d].senders, c) = doc[d].senders
  <2>1. Listing(doc[d].senders)
    BY DEF DocInv, DocsTyped, Documents, Listing
  <2>2. c \notin Range(doc[d].senders) => Without(doc[d].senders, c) = doc[d].senders
    BY DEF Without
  <2> QED BY <2>1, <2>2, WithoutListing
<1>4. ASSUME NEW d \in DocIds
      PROVE  /\ doc'[d] \in Documents /\ doc'[d].live = doc[d].live /\ doc'[d].title = doc[d].title
             /\ doc'[d].cat = doc[d].cat /\ doc'[d].layout = doc[d].layout /\ doc'[d].asn = doc[d].asn
             /\ doc'[d].senders = Without(doc[d].senders, c) /\ doc'[d].tags = doc[d].tags
  BY <1>1, <1>3 DEF DocInv, DocsTyped, Documents, Listing
<1>5. doc' \in [DocIds -> Documents]
  BY <1>1, <1>4
<1>6. ASSUME NEW d \in DocIds, doc'[d].live, d \notin moves'
      PROVE  doc[d].live /\ d \notin moves /\ Steady(d)
  <2>0. doc[d].live
    BY <1>4, <1>6
  <2>1. d \notin moves /\ (d \in Senders(c) => "correspondent" \notin TemplateOf(d))
    BY <1>1, <1>6, <2>0, TemplateMoved
  <2>2. /\ Range(doc[d].senders) \subseteq Ids /\ doc[d].tags \subseteq Ids
        /\ doc[d].layout \in Ids \cup {None}
    BY DEF DocInv, DocsRefer, Rows
  <2>3. "correspondent" \in TemplateOf(d) => Primary(d)' = Primary(d)
    <3> HAVE "correspondent" \in TemplateOf(d)
    <3>1. c \notin Range(doc[d].senders)
      BY <2>1 DEF Senders
    <3>2. doc'[d].senders = doc[d].senders
      BY <1>3, <1>4, <3>1
    <3>3. \A x \in Range(doc[d].senders) : row'["corr"][x] = row["corr"][x]
      BY <1>0, <1>2, <2>2, <3>1
    <3> QED BY <3>2, <3>3, SamePrimary DEF DocInv
  <2> QED BY <1>0, <1>1, <1>2, <1>4, <2>0, <2>1, <2>2, <2>3 DEF Steady
<1>7. ASSUME NEW d \in DocIds
      PROVE  /\ IsInjective(doc'[d].senders) /\ Range(doc'[d].senders) \subseteq Rows("corr")'
             /\ doc'[d].tags \subseteq Rows("tag")' /\ doc'[d].layout \in Rows("layout")' \cup {None}
  BY <1>2, <1>3, <1>4 DEF DocInv, DocsRefer, Listing
<1> QED BY <1>1, <1>5, <1>6, <1>7, DocsChange DEF DocInv, LayoutsTyped, SystemShaped

LEMMA TagsGoneFollow ==
  ASSUME RowsTyped, DocInv, NEW ts \in SUBSET Ids, DeleteTags(ts)
  PROVE  DocInv'
<1>0. "corr" \in Kinds /\ "tag" \in Kinds /\ "layout" \in Kinds
  BY DEF Kinds
<1>1. /\ row' = [row EXCEPT !["tag"] = [i \in Ids |-> IF i \in ts THEN NoName ELSE @[i]]]
      /\ UNCHANGED <<uses, categories, system, shown>>
      /\ doc' = [d \in DocIds |-> [doc[d] EXCEPT !.tags = @ \ ts, !.mach = @ \ ts]]
      /\ moves' = TemplateMoves("tag_list", UNION {Tagged(t) : t \in ts})
  BY DEF DeleteTags, filing
<1>2. /\ \A h \in Kinds, x \in Ids : h # "tag" \/ x \notin ts => row'[h][x] = row[h][x]
      /\ Rows("tag")' = Rows("tag") \ ts /\ Rows("corr")' = Rows("corr")
      /\ Rows("layout")' = Rows("layout")
  BY <1>0, <1>1, RowsGone
<1>3. ASSUME NEW d \in DocIds
      PROVE  /\ doc'[d] \in Documents /\ doc'[d].live = doc[d].live /\ doc'[d].title = doc[d].title
             /\ doc'[d].cat = doc[d].cat /\ doc'[d].layout = doc[d].layout /\ doc'[d].asn = doc[d].asn
             /\ doc'[d].senders = doc[d].senders /\ doc'[d].tags = doc[d].tags \ ts
  BY <1>1 DEF DocInv, DocsTyped, Documents
<1>4. doc' \in [DocIds -> Documents]
  BY <1>1, <1>3
<1>5. ASSUME NEW d \in DocIds, doc'[d].live, d \notin moves'
      PROVE  doc[d].live /\ d \notin moves /\ Steady(d)
  <2>0. doc[d].live
    BY <1>3, <1>5
  <2>1. d \notin moves /\ (d \in UNION {Tagged(t) : t \in ts} => "tag_list" \notin TemplateOf(d))
    BY <1>1, <1>5, <2>0, TemplateMoved
  <2>2. /\ Range(doc[d].senders) \subseteq Ids /\ doc[d].tags \subseteq Ids
        /\ doc[d].layout \in Ids \cup {None}
    BY DEF DocInv, DocsRefer, Rows
  <2>3. Primary(d)' = Primary(d)
    BY <1>0, <1>2, <1>3, <2>2, SamePrimary DEF DocInv
  <2>4. "tag_list" \in TemplateOf(d) => doc[d].tags \cap ts = {}
    BY <2>1 DEF Tagged
  <2>5. "tag_list" \in TemplateOf(d) => /\ doc'[d].tags = doc[d].tags
                                        /\ \A t \in doc[d].tags : row'["tag"][t] = row["tag"][t]
    BY <1>0, <1>2, <1>3, <2>2, <2>4
  <2> QED BY <1>0, <1>1, <1>2, <1>3, <2>0, <2>1, <2>2, <2>3, <2>5 DEF Steady
<1>6. ASSUME NEW d \in DocIds
      PROVE  /\ IsInjective(doc'[d].senders) /\ Range(doc'[d].senders) \subseteq Rows("corr")'
             /\ doc'[d].tags \subseteq Rows("tag")' /\ doc'[d].layout \in Rows("layout")' \cup {None}
  BY <1>2, <1>3 DEF DocInv, DocsTyped, DocsRefer
<1> QED BY <1>1, <1>4, <1>5, <1>6, DocsChange DEF DocInv, LayoutsTyped, SystemShaped

LEMMA LayoutGoneFollows ==
  ASSUME RowsTyped, DocInv, NEW l \in Ids, DeleteLayout(l)
  PROVE  DocInv'
<1>0. "corr" \in Kinds /\ "tag" \in Kinds /\ "layout" \in Kinds
  BY DEF Kinds
<1>1. /\ row' = [row EXCEPT !["layout"][l] = NoName] /\ UNCHANGED <<categories, system, shown>>
      /\ uses' = [uses EXCEPT ![l] = {}]
      /\ doc' = [d \in DocIds |-> [doc[d] EXCEPT !.layout = IF @ = l THEN None ELSE @]]
      /\ moves' = moves \cup LiveIn(LaidOut(l))
  BY DEF DeleteLayout, EnqueueMoves, filing
<1>2. /\ \A h \in Kinds, x \in Ids : h # "layout" \/ x # l => row'[h][x] = row[h][x]
      /\ Rows("layout")' = Rows("layout") \ {l} /\ Rows("tag")' = Rows("tag")
      /\ Rows("corr")' = Rows("corr")
  BY <1>0, <1>1, RowGone
<1>3. ASSUME NEW d \in DocIds
      PROVE  /\ doc'[d] \in Documents /\ doc'[d].live = doc[d].live /\ doc'[d].title = doc[d].title
             /\ doc'[d].cat = doc[d].cat /\ doc'[d].asn = doc[d].asn
             /\ doc'[d].senders = doc[d].senders /\ doc'[d].tags = doc[d].tags
             /\ doc'[d].layout = IF doc[d].layout = l THEN None ELSE doc[d].layout
  BY <1>1 DEF DocInv, DocsTyped, Documents
<1>4. doc' \in [DocIds -> Documents]
  BY <1>1, <1>3
<1>5. LayoutsTyped' /\ \A x \in Ids \ {l} : uses'[x] = uses[x]
  BY <1>1 DEF DocInv, LayoutsTyped
<1>6. ASSUME NEW d \in DocIds, doc'[d].live, d \notin moves'
      PROVE  doc[d].live /\ d \notin moves /\ Steady(d)
  <2>1. doc[d].live /\ d \notin moves /\ doc[d].layout # l
    BY <1>1, <1>3, <1>6 DEF LiveIn, LaidOut
  <2>2. /\ Range(doc[d].senders) \subseteq Ids /\ doc[d].tags \subseteq Ids
        /\ doc[d].layout \in Ids \cup {None}
    BY DEF DocInv, DocsRefer, Rows
  <2>3. Primary(d)' = Primary(d)
    BY <1>0, <1>2, <1>3, <2>2, SamePrimary DEF DocInv
  <2> QED BY <1>0, <1>1, <1>2, <1>3, <1>5, <2>1, <2>2, <2>3 DEF Steady
<1>7. ASSUME NEW d \in DocIds
      PROVE  /\ IsInjective(doc'[d].senders) /\ Range(doc'[d].senders) \subseteq Rows("corr")'
             /\ doc'[d].tags \subseteq Rows("tag")' /\ doc'[d].layout \in Rows("layout")' \cup {None}
  BY <1>2, <1>3 DEF DocInv, DocsTyped, DocsRefer
<1> QED BY <1>1, <1>4, <1>5, <1>6, <1>7, DocsChange DEF DocInv, SystemShaped

LEMMA MergeFollows ==
  ASSUME RowsTyped, FlightTyped, DocInv, NEW f \in flight, CommitMerge(f)
  PROVE  DocInv'
<1>0. "corr" \in Kinds /\ "tag" \in Kinds /\ "layout" \in Kinds
  BY DEF Kinds
<1>1. f \in Merges /\ f.from # f.into
  BY DEF CommitMerge, FlightTyped
<1>2. PICK k \in {"corr", "tag"}, i \in Ids, j \in Ids :
        f.kind = k /\ f.from = i /\ f.into = j /\ i # j
  BY <1>1 DEF Merges
<1>3. /\ i \in Rows(k) /\ j \in Rows(k) /\ row' = [row EXCEPT ![k][i] = NoName]
      /\ doc' = [d \in DocIds |-> MergedDoc(d, k, i, j)]
      /\ moves' = moves \cup LiveIn(IF k = "corr" THEN Senders(i) ELSE Tagged(i))
      /\ UNCHANGED <<uses, categories, system, shown>>
  BY <1>2 DEF CommitMerge, MergePossible, EnqueueMoves, filing
<1>4. k \in Kinds /\ k # "layout"
  BY <1>0
<1>5. /\ \A h \in Kinds, x \in Ids : h # k \/ x # i => row'[h][x] = row[h][x]
      /\ Rows(k)' = Rows(k) \ {i} /\ \A h \in Kinds \ {k} : Rows(h)' = Rows(h)
  BY <1>3, <1>4, RowGone
<1>6. ASSUME NEW d \in DocIds
      PROVE  /\ Listing(doc[d].senders) /\ Listing(Merged(doc[d].senders, i, j))
             /\ Range(Merged(doc[d].senders, i, j)) \subseteq
                  IF i \in Range(doc[d].senders) THEN (Range(doc[d].senders) \ {i}) \cup {j} ELSE Range(doc[d].senders)
             /\ i \notin Range(doc[d].senders) => Merged(doc[d].senders, i, j) = doc[d].senders
  <2>1. Listing(doc[d].senders)
    BY DEF DocInv, DocsTyped, Documents, Listing
  <2> QED BY <1>2, <2>1, MergedListing
<1>7. ASSUME NEW d \in DocIds
      PROVE  /\ doc'[d] \in Documents /\ doc'[d].live = doc[d].live /\ doc'[d].title = doc[d].title
             /\ doc'[d].cat = doc[d].cat /\ doc'[d].layout = doc[d].layout /\ doc'[d].asn = doc[d].asn
             /\ doc'[d].senders = IF k = "corr" THEN Merged(doc[d].senders, i, j) ELSE doc[d].senders
             /\ doc'[d].tags = IF k = "corr" \/ i \notin doc[d].tags THEN doc[d].tags
                               ELSE (doc[d].tags \ {i}) \cup {j}
  <2>0. doc[d] \in Documents /\ doc'[d] = MergedDoc(d, k, i, j)
    BY <1>3 DEF DocInv, DocsTyped
  <2>1. CASE k = "corr"
    <3> DEFINE s == Merged(doc[d].senders, i, j)
    <3>1. s \in Seq(Ids) /\ doc'[d] = [doc[d] EXCEPT !.senders = s]
      BY <1>6, <2>0, <2>1 DEF MergedDoc, Listing
    <3> HIDE DEF s
    <3>2. /\ doc'[d] \in Documents /\ doc'[d].live = doc[d].live /\ doc'[d].title = doc[d].title
          /\ doc'[d].cat = doc[d].cat /\ doc'[d].layout = doc[d].layout /\ doc'[d].asn = doc[d].asn
          /\ doc'[d].senders = s /\ doc'[d].tags = doc[d].tags
      BY <2>0, <3>1 DEF Documents
    <3> QED BY <2>1, <3>2 DEF s
  <2>2. CASE k # "corr" /\ i \notin doc[d].tags
    BY <2>0, <2>2 DEF MergedDoc
  <2>3. CASE k # "corr" /\ i \in doc[d].tags
    <3>1. doc'[d] = [doc[d] EXCEPT !.tags = (@ \ {i}) \cup {j}, !.mach = @ \ {i, j}]
      BY <2>0, <2>3 DEF MergedDoc
    <3>2. /\ doc'[d] \in Documents /\ doc'[d].live = doc[d].live /\ doc'[d].title = doc[d].title
          /\ doc'[d].cat = doc[d].cat /\ doc'[d].layout = doc[d].layout /\ doc'[d].asn = doc[d].asn
          /\ doc'[d].senders = doc[d].senders /\ doc'[d].tags = (doc[d].tags \ {i}) \cup {j}
      <4> DEFINE t == (doc[d].tags \ {i}) \cup {j}
                 m == doc[d].mach \ {i, j}
      <4>1. t \in SUBSET Ids /\ m \in SUBSET Ids
        BY <2>0 DEF Documents
      <4>2. doc'[d] = [doc[d] EXCEPT !.tags = t, !.mach = m]
        BY <2>0, <3>1 DEF Documents
      <4>3. t = (doc[d].tags \ {i}) \cup {j}
        OBVIOUS
      <4> HIDE DEF t, m
      <4> QED BY <2>0, <4>1, <4>2, <4>3 DEF Documents
    <3> QED BY <2>3, <3>2
  <2> QED BY <2>1, <2>2, <2>3
<1>8. doc' \in [DocIds -> Documents]
  BY <1>3, <1>7
<1>9. ASSUME NEW d \in DocIds, doc'[d].live, d \notin moves'
      PROVE  doc[d].live /\ d \notin moves /\ Steady(d)
  <2>1. doc[d].live /\ d \notin moves
    BY <1>3, <1>7, <1>9
  <2>2. /\ Range(doc[d].senders) \subseteq Ids /\ doc[d].tags \subseteq Ids
        /\ doc[d].layout \in Ids \cup {None}
    BY DEF DocInv, DocsRefer, Rows
  <2>3. CASE k = "corr"
    <3>1. i \notin Range(doc[d].senders)
      BY <1>3, <1>9, <2>1, <2>3 DEF LiveIn, Senders
    <3>2. doc'[d].senders = doc[d].senders
      BY <1>6, <1>7, <2>3, <3>1
    <3>3. Primary(d)' = Primary(d)
      BY <1>0, <1>5, <2>2, <3>1, <3>2, SamePrimary DEF DocInv
    <3>4. /\ doc'[d].title = doc[d].title /\ doc'[d].cat = doc[d].cat /\ doc'[d].layout = doc[d].layout
          /\ doc'[d].asn = doc[d].asn /\ doc'[d].tags = doc[d].tags
      BY <1>7, <2>3
    <3>5. /\ \A t \in doc[d].tags : row'["tag"][t] = row["tag"][t]
          /\ doc[d].layout # None => row'["layout"][doc[d].layout] = row["layout"][doc[d].layout]
      BY <1>0, <1>5, <2>2, <2>3
    <3> QED BY <1>3, <2>1, <3>3, <3>4, <3>5 DEF Steady
  <2>4. CASE k = "tag"
    <3>1. i \notin doc[d].tags
      BY <1>3, <1>9, <2>1, <2>4 DEF LiveIn, Tagged
    <3>2. doc'[d].senders = doc[d].senders
      BY <1>7, <2>4
    <3>3. Primary(d)' = Primary(d)
      BY <1>0, <1>5, <2>2, <2>4, <3>2, SamePrimary DEF DocInv
    <3>4. /\ doc'[d].title = doc[d].title /\ doc'[d].cat = doc[d].cat /\ doc'[d].layout = doc[d].layout
          /\ doc'[d].asn = doc[d].asn /\ doc'[d].tags = doc[d].tags
      BY <1>7, <2>4, <3>1
    <3>5. /\ \A t \in doc[d].tags : row'["tag"][t] = row["tag"][t]
          /\ doc[d].layout # None => row'["layout"][doc[d].layout] = row["layout"][doc[d].layout]
      BY <1>0, <1>5, <2>2, <2>4, <3>1
    <3> QED BY <1>3, <2>1, <3>3, <3>4, <3>5 DEF Steady
  <2> QED BY <2>3, <2>4
<1>10. ASSUME NEW d \in DocIds
       PROVE  /\ IsInjective(doc'[d].senders) /\ Range(doc'[d].senders) \subseteq Rows("corr")'
              /\ doc'[d].tags \subseteq Rows("tag")' /\ doc'[d].layout \in Rows("layout")' \cup {None}
  <2>1. /\ Range(doc[d].senders) \subseteq Rows("corr") /\ doc[d].tags \subseteq Rows("tag")
        /\ doc[d].layout \in Rows("layout") \cup {None} /\ Listing(doc[d].senders)
    BY <1>6 DEF DocInv, DocsRefer
  <2>2. Rows("layout")' = Rows("layout")
    BY <1>0, <1>4, <1>5
  <2>3. CASE k = "corr"
    <3>1. Rows("corr")' = Rows("corr") \ {i} /\ Rows("tag")' = Rows("tag") /\ j \in Rows("corr") \ {i}
      BY <1>0, <1>2, <1>3, <1>5, <2>3
    <3> DEFINE s == Merged(doc[d].senders, i, j)
    <3>2. doc'[d].senders = s /\ doc'[d].tags = doc[d].tags /\ doc'[d].layout = doc[d].layout
      BY <1>7, <2>3
    <3>3. /\ IsInjective(s)
          /\ Range(s) \subseteq IF i \in Range(doc[d].senders) THEN (Range(doc[d].senders) \ {i}) \cup {j}
                                 ELSE Range(doc[d].senders)
      BY <1>6 DEF Listing
    <3> HIDE DEF s
    <3>4. Range(s) \subseteq Rows("corr") \ {i}
      BY <2>1, <3>1, <3>3
    <3> QED BY <2>1, <2>2, <3>1, <3>2, <3>3, <3>4
  <2>4. CASE k = "tag"
    <3>1. Rows("tag")' = Rows("tag") \ {i} /\ Rows("corr")' = Rows("corr") /\ j \in Rows("tag") \ {i}
      BY <1>0, <1>2, <1>3, <1>5, <2>4
    <3> QED BY <1>7, <2>1, <2>2, <2>4, <3>1 DEF Listing
  <2> QED BY <2>3, <2>4
<1> QED BY <1>3, <1>8, <1>9, <1>10, DocsChange DEF DocInv, LayoutsTyped, SystemShaped

LEMMA SenderAddedFollows ==
  ASSUME TaxonomyAssumption, RowsTyped, DocInv, NEW e \in DocIds, NEW n \in Names,
         AddDocCorrespondent(e, n)
  PROVE  DocInv'
<1>0. "corr" \in Kinds /\ "tag" \in Kinds /\ "layout" \in Kinds
  BY DEF Kinds
<1>1. PICK i \in Ids : i = IdOf(n)
  BY DEF AddDocCorrespondent
<1>2. /\ row' = [row EXCEPT !["corr"][i] = n] /\ doc[e].live
      /\ doc' = [doc EXCEPT ![e].senders = IF i \in Range(@) THEN @ ELSE Append(@, i)]
      /\ moves' = moves \cup LiveIn({e}) /\ UNCHANGED <<uses, categories, system, shown>>
  BY <1>1 DEF AddDocCorrespondent, EnqueueMoves, filing
<1>3. /\ \A h \in Kinds : Rows(h) \subseteq Rows(h)' /\ i \in Rows("corr")'
      /\ \A h \in Kinds, x \in Ids : h # "corr" \/ x # i => row'[h][x] = row[h][x]
  BY <1>0, <1>2, RowNamed
\* Found by its name, the row has it already; otherwise it is new.
<1>4. \A c \in Rows("corr") : row'["corr"][c] = row["corr"][c]
  <2>1. CASE FreeName("corr", n)
    <3>1. i \notin Rows("corr")
      BY <1>1, <2>1, FreshId DEF IdOf
    <3> QED BY <1>0, <1>3, <3>1 DEF Rows
  <2>2. CASE ~FreeName("corr", n)
    <3>1. PICK x \in Ids : row["corr"][x] = n
      BY <2>2 DEF FreeName
    <3>2. x \in Rows("corr")
      BY <3>1 DEF Rows, TaxonomyAssumption
    <3>3. row["corr"][i] = n
      BY <1>1, <2>2, <3>1, <3>2 DEF IdOf
    <3>4. row'["corr"][i] = n
      BY <1>0, <1>2 DEF RowsTyped
    <3> QED BY <1>0, <1>3, <3>3, <3>4 DEF Rows
  <2> QED BY <2>1, <2>2
<1> DEFINE s == IF i \in Range(doc[e].senders) THEN doc[e].senders ELSE Append(doc[e].senders, i)
<1>5. Listing(s) /\ Range(s) \subseteq Range(doc[e].senders) \cup {i}
  <2>1. Listing(doc[e].senders)
    BY DEF DocInv, DocsTyped, Documents, Listing
  <2>2. CASE i \in Range(doc[e].senders)
    BY <2>1, <2>2
  <2>3. CASE i \notin Range(doc[e].senders)
    <3>1. s = Append(doc[e].senders, i)
      BY <2>3
    <3> HIDE DEF s
    <3> QED BY <2>1, <2>3, <3>1, AppendedListing
  <2> QED BY <2>2, <2>3
<1>6. doc' = [doc EXCEPT ![e].senders = s]
  BY <1>2 DEF DocInv, DocsTyped
<1> HIDE DEF s
<1>7. /\ doc' \in [DocIds -> Documents] /\ \A d \in DocIds \ {e} : doc'[d] = doc[d]
      /\ doc'[e].senders = s /\ doc'[e].tags = doc[e].tags /\ doc'[e].layout = doc[e].layout
  BY <1>5, <1>6 DEF DocInv, DocsTyped, Documents, Listing
<1>8. ASSUME NEW d \in DocIds, doc'[d].live, d \notin moves'
      PROVE  doc[d].live /\ d \notin moves /\ Steady(d)
  <2>1. d # e /\ d \notin moves
    BY <1>2, <1>8 DEF LiveIn
  <2>2. doc'[d] = doc[d]
    BY <1>7, <2>1
  <2>3. /\ Range(doc[d].senders) \subseteq Rows("corr") /\ doc[d].tags \subseteq Ids
        /\ doc[d].layout \in Ids \cup {None}
    BY DEF DocInv, DocsRefer, Rows
  <2>4. Primary(d)' = Primary(d)
    BY <1>4, <2>2, <2>3, SamePrimary DEF DocInv
  <2> QED BY <1>0, <1>2, <1>3, <1>8, <2>1, <2>2, <2>3, <2>4 DEF Steady
<1>9. ASSUME NEW d \in DocIds
      PROVE  /\ IsInjective(doc'[d].senders) /\ Range(doc'[d].senders) \subseteq Rows("corr")'
             /\ doc'[d].tags \subseteq Rows("tag")' /\ doc'[d].layout \in Rows("layout")' \cup {None}
  <2>1. /\ Rows("corr") \subseteq Rows("corr")' /\ Rows("tag") \subseteq Rows("tag")'
        /\ Rows("layout") \subseteq Rows("layout")'
    BY <1>0, <1>3
  <2>2. /\ Range(doc[d].senders) \subseteq Rows("corr") /\ doc[d].tags \subseteq Rows("tag")
        /\ doc[d].layout \in Rows("layout") \cup {None} /\ IsInjective(doc[d].senders)
    BY DEF DocInv, DocsRefer, DocsTyped
  <2>3. CASE d = e
    <3>1. /\ doc'[d].senders = s /\ doc'[d].tags = doc[d].tags /\ doc'[d].layout = doc[d].layout
          /\ Range(s) \subseteq Range(doc[d].senders) \cup {i} /\ IsInjective(s)
      BY <1>5, <1>7, <2>3 DEF Listing
    <3> QED BY <1>0, <1>3, <2>1, <2>2, <3>1
  <2>4. CASE d # e
    BY <1>7, <2>1, <2>2, <2>4
  <2> QED BY <2>3, <2>4
<1> QED BY <1>2, <1>7, <1>8, <1>9, DocsChange DEF DocInv, LayoutsTyped, SystemShaped

LEMMA SenderRemovedFollows ==
  ASSUME RowsTyped, DocInv, NEW e \in DocIds, NEW c, RemoveDocCorrespondent(e, c)
  PROVE  DocInv'
<1> DEFINE s == Without(doc[e].senders, c)
<1>1. /\ doc' = [doc EXCEPT ![e].senders = s]
      /\ moves' = moves \cup LiveIn({e}) /\ UNCHANGED <<row, uses, categories, system, shown>>
  BY DEF RemoveDocCorrespondent, EnqueueMoves, filing, names, DocInv, DocsTyped
<1>2. Listing(s) /\ Range(s) \subseteq Range(doc[e].senders)
  <2>1. Listing(doc[e].senders)
    BY DEF DocInv, DocsTyped, Documents, Listing
  <2> QED BY <2>1, WithoutListing
<1> HIDE DEF s
<1>3. /\ doc' \in [DocIds -> Documents] /\ \A d \in DocIds \ {e} : doc'[d] = doc[d]
      /\ doc'[e].senders = s /\ doc'[e].tags = doc[e].tags /\ doc'[e].layout = doc[e].layout
      /\ doc'[e].live = doc[e].live
  BY <1>1, <1>2 DEF DocInv, DocsTyped, Documents, Listing
<1>4. ASSUME NEW d \in DocIds, doc'[d].live, d \notin moves'
      PROVE  doc[d].live /\ d \notin moves /\ Steady(d)
  <2>1. d # e /\ d \notin moves
    BY <1>1, <1>3, <1>4 DEF LiveIn
  <2>2. doc'[d] = doc[d]
    BY <1>3, <2>1
  <2>3. Alike(doc'[d], d)
    BY <2>2 DEF Alike
  <2> QED BY <1>1, <1>4, <2>1, <2>2, <2>3, AlikeIsSteady
<1>5. ASSUME NEW d \in DocIds
      PROVE  /\ IsInjective(doc'[d].senders) /\ Range(doc'[d].senders) \subseteq Rows("corr")'
             /\ doc'[d].tags \subseteq Rows("tag")' /\ doc'[d].layout \in Rows("layout")' \cup {None}
  <2>1. Rows("corr") = Rows("corr")' /\ Rows("tag") = Rows("tag")' /\ Rows("layout") = Rows("layout")'
    BY <1>1 DEF Rows
  <2>2. /\ Range(doc[d].senders) \subseteq Rows("corr") /\ doc[d].tags \subseteq Rows("tag")
        /\ doc[d].layout \in Rows("layout") \cup {None} /\ IsInjective(doc[d].senders)
    BY DEF DocInv, DocsRefer, DocsTyped
  <2>3. CASE d = e
    <3>1. /\ doc'[d].senders = s /\ doc'[d].tags = doc[d].tags /\ doc'[d].layout = doc[d].layout
          /\ Range(s) \subseteq Range(doc[d].senders) /\ IsInjective(s)
      BY <1>2, <1>3, <2>3 DEF Listing
    <3> QED BY <2>1, <2>2, <3>1
  <2>4. CASE d # e
    BY <1>3, <2>1, <2>2, <2>4
  <2> QED BY <2>3, <2>4
<1> QED BY <1>1, <1>3, <1>4, <1>5, DocsChange DEF DocInv, LayoutsTyped, SystemShaped

LEMMA TrashFollows ==
  ASSUME DocInv, NEW ds \in SUBSET DocIds, BulkTrash(ds) \/ BulkRestore(ds)
  PROVE  DocInv'
<1>1. PICK b \in BOOLEAN :
        /\ doc' = [d \in DocIds |-> IF d \in ds THEN [doc[d] EXCEPT !.live = b] ELSE doc[d]]
        /\ UNCHANGED <<row, uses, categories, system, shown>>
        /\ moves' = moves \cup (IF b THEN ds ELSE {})
  <2>1. CASE BulkTrash(ds)
    BY <2>1 DEF BulkTrash, filing, names
  <2>2. CASE BulkRestore(ds)
    BY <2>2 DEF BulkRestore, filing, names
  <2> QED BY <2>1, <2>2
<1>2. ASSUME NEW d \in DocIds
      PROVE  /\ doc'[d] \in Documents /\ doc'[d].title = doc[d].title
             /\ doc'[d].cat = doc[d].cat /\ doc'[d].layout = doc[d].layout /\ doc'[d].asn = doc[d].asn
             /\ doc'[d].senders = doc[d].senders /\ doc'[d].tags = doc[d].tags
             /\ doc'[d].live = IF d \in ds THEN b ELSE doc[d].live
  BY <1>1 DEF DocInv, DocsTyped, Documents
<1>3. doc' \in [DocIds -> Documents]
  BY <1>1, <1>2
<1>4. ASSUME NEW d \in DocIds, doc'[d].live, d \notin moves'
      PROVE  doc[d].live /\ d \notin moves /\ Steady(d)
  <2>1. doc[d].live /\ d \notin moves
    BY <1>1, <1>2, <1>4
  <2>2. Alike(doc'[d], d)
    BY <1>2 DEF Alike
  <2> QED BY <1>1, <2>1, <2>2, AlikeIsSteady
<1>5. ASSUME NEW d \in DocIds
      PROVE  /\ IsInjective(doc'[d].senders) /\ Range(doc'[d].senders) \subseteq Rows("corr")'
             /\ doc'[d].tags \subseteq Rows("tag")' /\ doc'[d].layout \in Rows("layout")' \cup {None}
  <2>1. Rows("corr") = Rows("corr")' /\ Rows("tag") = Rows("tag")' /\ Rows("layout") = Rows("layout")'
    BY <1>1 DEF Rows
  <2> QED BY <1>2, <2>1 DEF DocInv, DocsTyped, DocsRefer
<1> QED BY <1>1, <1>3, <1>4, <1>5, DocsChange DEF DocInv, LayoutsTyped, SystemShaped

\* The renderer shows what the archive says when it takes the job.
LEMMA RenderFollows == ASSUME DocInv, NEW e \in DocIds, Render(e) PROVE DocInv'
<1>1. /\ moves' = moves \ {e} /\ shown' = IF doc[e].live THEN [shown EXCEPT ![e] = PathOf(e)] ELSE shown
      /\ UNCHANGED <<row, uses, doc, categories, system>>
  BY DEF Render, names, filing
<1>2. ShownTyped'
  BY <1>1 DEF DocInv, ShownTyped
<1>3. ASSUME NEW d \in DocIds, doc[d].live, d \notin moves' PROVE shown'[d] = PathOf(d)
  <2>1. CASE d = e
    BY <1>1, <1>3, <2>1 DEF DocInv, ShownTyped
  <2>2. CASE d # e
    <3>1. shown[d] = PathOf(d)
      BY <1>1, <1>3, <2>2 DEF DocInv, PathFollows
    <3> QED BY <1>1, <2>2, <3>1 DEF DocInv, ShownTyped
  <2> QED BY <2>1, <2>2
<1>4. ASSUME NEW d \in DocIds PROVE PathOf(d)' = PathOf(d)
  BY <1>1 DEF PathOf, TemplateOf, DefaultTemplate, ValueOf, Primary
<1>5. PathFollows'
  BY <1>1, <1>3, <1>4 DEF PathFollows
<1> QED BY <1>1, <1>2, <1>5 DEF DocInv, LayoutsTyped, DocsTyped, SystemShaped, DocsRefer, Rows

LEMMA FilingFollows == ASSUME DocInv, FilingStep PROVE DocInv'
<1>1. UNCHANGED <<row, uses, doc, shown>>
  BY FilingApart
<1>2. LayoutsTyped' /\ \A k \in Kinds : Rows(k) \subseteq Rows(k)'
  BY <1>1 DEF DocInv, LayoutsTyped, Rows
<1>3. ASSUME NEW d \in DocIds, categories' = categories, system'.mode = system.mode,
             "system" \in TemplateOf(d) => system'.name = system.name
      PROVE  Steady(d)
  <2>1. Primary(d)' = Primary(d)
    BY <1>1 DEF Primary
  <2> QED BY <1>1, <1>3, <2>1 DEF Steady
<1>4. ASSUME UNCHANGED <<categories, system, moves>> PROVE DocInv'
  BY <1>1, <1>2, <1>3, <1>4, DocsStay DEF DocInv, SystemShaped
<1>5. ASSUME NEW ss, NEW repl, NEW remap, NEW code, NEW mine, Preview(ss, repl, remap, code, mine)
      PROVE  DocInv'
  BY <1>4, <1>5 DEF Preview, filing
<1>6. ASSUME NEW f \in flight, RefuseStale(f) PROVE DocInv'
  BY <1>4, <1>6 DEF RefuseStale, filing
<1>7. ASSUME NEW n \in Names, PatchSystem(n) PROVE DocInv'
  <2>1. /\ system' = [system EXCEPT !.name = n] /\ UNCHANGED categories
        /\ moves' = TemplateMoves("system", DocIds)
    BY <1>7 DEF PatchSystem, EnqueueTemplateMoves
  <2>2. SystemShaped' /\ system'.mode = system.mode
    BY <2>1 DEF DocInv, SystemShaped
  <2>3. ASSUME NEW d \in DocIds, doc[d].live, d \notin moves' PROVE d \notin moves /\ Steady(d)
    BY <1>3, <2>1, <2>2, <2>3, TemplateMoved
  <2> QED BY <1>1, <1>2, <2>2, <2>3, DocsStay
<1>8. ASSUME NEW f \in flight, ApplyPreset(f) PROVE DocInv'
  <2>1. DOMAIN Destined(f) = DOMAIN system
    BY DEF Destined
  <2>2. CASE Creates(f.code, f.was)
    <3>1. /\ system' = Destined(f) /\ UNCHANGED categories
          /\ moves' = moves \cup (IF Introduces(f.code) THEN LiveIn(DocIds) ELSE {})
      BY <1>8, <2>2 DEF ApplyPreset
    <3>2. SystemShaped'
      BY <2>1, <3>1 DEF DocInv, SystemShaped
    <3>3. ASSUME NEW d \in DocIds, doc[d].live, d \notin moves' PROVE d \notin moves /\ Steady(d)
      <4>1. d \notin moves /\ ~Introduces(f.code)
        BY <3>1, <3>3 DEF LiveIn
      <4>2. system' = system
        BY <3>1, <4>1 DEF Destined
      <4> QED BY <1>3, <3>1, <4>1, <4>2
    <3> QED BY <1>1, <1>2, <3>2, <3>3, DocsStay
  <2>3. CASE ~Creates(f.code, f.was)
    <3>1. /\ system' = [Destined(f) EXCEPT !.sets = f.sets, !.mode = IF Replacing THEN "jd" ELSE @]
          /\ moves' = moves \cup LiveIn(DocIds)
      BY <1>8, <2>3 DEF ApplyPreset, EnqueueMoves
    <3>2. SystemShaped'
      BY <2>1, <3>1 DEF DocInv, SystemShaped
    <3>3. \A d \in DocIds : doc[d].live => d \in moves'
      BY <3>1 DEF LiveIn
    <3> QED BY <1>1, <1>2, <3>2, <3>3, DocsStay
  <2> QED BY <2>2, <2>3
<1> QED BY <1>5, <1>6, <1>7, <1>8 DEF FilingStep

LEMMA DocsFollow ==
  ASSUME TaxonomyAssumption, RowsTyped, FlightTyped, DocInv, [TaxNext]_taxVars
  PROVE  DocInv'
<1>1. ASSUME UNCHANGED <<row, uses, doc, categories, system, moves, shown>> PROVE DocInv'
  <2>1. ASSUME NEW d \in DocIds PROVE PathOf(d)' = PathOf(d)
    BY <1>1 DEF PathOf, TemplateOf, DefaultTemplate, ValueOf, Primary
  <2>2. PathFollows'
    BY <1>1, <2>1 DEF DocInv, PathFollows
  <2> QED
    BY <1>1, <2>2 DEF DocInv, LayoutsTyped, DocsTyped, SystemShaped, ShownTyped, DocsRefer, Rows
<1>2. CASE NamesStep
  <2>1. ASSUME NEW r \in Rules, NEW k \in Kinds, NEW i \in Ids, SaveRule(r, k, i) PROVE DocInv'
    BY <1>1, <2>1 DEF SaveRule, filing
  <2>2. ASSUME NEW k, NEW i, NEW j, BeginMerge(k, i, j) PROVE DocInv'
    BY <1>1, <2>2 DEF BeginMerge, names, filing
  <2>3. ASSUME NEW f \in flight, RefuseMerge(f) PROVE DocInv'
    BY <1>1, <2>3 DEF RefuseMerge, names, filing
  <2> QED
    BY <1>2, <2>1, <2>2, <2>3, CreationFollows, CorrespondentRenameFollows, TagRenameFollows,
       LayoutRenameFollows, LayoutUpdateFollows, CorrespondentGoneFollows, TagsGoneFollow,
       LayoutGoneFollows, MergeFollows
    DEF NamesStep
<1>3. CASE DocStep
  BY <1>3, RenderFollows, PatchesFollow, BulkFollows, SenderAddedFollows, SenderRemovedFollows,
     TrashFollows
  DEF DocStep
<1>4. CASE TreeStep \/ FieldStep
  BY <1>1, <1>4, TreeAndFieldsApart
<1>5. CASE FilingStep
  BY <1>5, FilingFollows
<1>6. CASE UNCHANGED taxVars
  BY <1>1, <1>6 DEF taxVars
<1> QED BY <1>2, <1>3, <1>4, <1>5, <1>6 DEF TaxNext

LEMMA DocsStart == ASSUME TaxonomyAssumption, StartsAssumption, TaxInit PROVE DocInv
<1>1. PICK s \in Starts : /\ row = s.row /\ uses = s.uses /\ doc = s.doc /\ system = s.system
                          /\ shown = [d \in DocIds |-> PathOf(d)]
  BY DEF TaxInit
<1>2. /\ uses \in [Ids -> SUBSET Variables] /\ system \in Systems /\ doc \in [DocIds -> Documents]
      /\ row \in [Kinds -> [Ids -> Names \cup {NoName}]]
  BY <1>1 DEF StartsAssumption
<1>3. ASSUME NEW d \in DocIds
      PROVE  /\ doc[d] \in Documents /\ IsInjective(doc[d].senders)
             /\ \A c \in Range(doc[d].senders) : row["corr"][c] # NoName
             /\ \A t \in doc[d].tags : row["tag"][t] # NoName
             /\ doc[d].layout # None => row["layout"][doc[d].layout] # NoName
  BY <1>1 DEF StartsAssumption
<1>4. DocsTyped
  BY <1>2, <1>3 DEF DocsTyped
<1>5. DocsRefer
  <2>1. ASSUME NEW d \in DocIds
        PROVE  /\ Range(doc[d].senders) \subseteq Ids /\ doc[d].tags \subseteq Ids
               /\ doc[d].layout \in Ids \cup {None}
    <3>1. doc[d].senders \in Seq(Ids)
      BY <1>3 DEF Documents
    <3>2. Range(doc[d].senders) \subseteq Ids
      BY <3>1, ElementOfSeq, LenProperties DEF Range
    <3> QED BY <1>3, <3>2 DEF Documents
  <2> QED BY <1>3, <2>1 DEF DocsRefer, Rows
<1>6. SystemShaped /\ ShownTyped /\ PathFollows
  BY <1>1, <1>2 DEF SystemShaped, Systems, ShownTyped, PathFollows
<1> QED BY <1>2, <1>4, <1>5, <1>6 DEF DocInv, LayoutsTyped

\* Every request that changes a name, a layout, the filing tree or a document
\* leaves no live document without a render job whose path reads the change.
THEOREM TaxPathFollows == TaxSpec => []PathFollows
<1>1. TaxInit => TreeInv /\ RulesInv /\ DocInv
  BY TreeStarts, RulesStart, DocsStart, TaxonomyAssumption, StartsAssumption
<1>2. TreeInv /\ RulesInv /\ DocInv /\ [TaxNext]_taxVars => TreeInv' /\ RulesInv' /\ DocInv'
  BY TreeKept, RulesKept, DocsFollow, TaxonomyAssumption DEF TreeInv, RulesInv
<1>3. DocInv => PathFollows
  BY DEF DocInv
<1> QED BY <1>1, <1>2, <1>3, PTL DEF TaxSpec

=============================================================================
