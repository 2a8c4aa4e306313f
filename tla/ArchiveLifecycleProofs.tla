----------------------- MODULE ArchiveLifecycleProofs -----------------------
(***************************************************************************)
(* Proofs about ArchiveLifecycle, for any number of processes, builds,     *)
(* snapshots and any retention.                                            *)
(*                                                                         *)
(* The lock makes one process at a time work on the archive, so that what  *)
(* a snapshot read of the manifest is still true when it writes it.  What  *)
(* protects the backups is the order of the steps: at every moment each    *)
(* listed entry is right in the directory as it is and as a power failure  *)
(* may leave it.                                                           *)
(***************************************************************************)
EXTENDS ArchiveLifecycle, FiniteSetTheorems, TLAPS

(* The inductive invariant.                                                *)

IsDb(d) == DOMAIN d = DOMAIN NoDb
IsDir(fs) == fs = [i \in Ids |-> fs[i]] /\ \A i \in Ids : IsDb(fs[i])
IsManifest(m) == \A e \in m : e = <<e[1], e[2]>> /\ e[1] \in Ids

Pcs == {"down", "opened", "linked", "snapped", "extension", "serving"}
JobPcs == {"idle", "linked", "read", "written", "listed", "pruned"}
IsJob(j) ==
  /\ DOMAIN j = DOMAIN NoJob /\ j.pc \in JobPcs /\ j.drop \subseteq Ids
  /\ j.pc # "idle" => j.id \in Ids

Typed ==
  /\ proc \in [Procs -> [pc: Pcs, build: Builds]]
  /\ IsDb(file) /\ IsDb(wal) /\ (wal = NoDb \/ wal.line = "stable")
  /\ \A s \in snaps : DOMAIN s = {"data", "synced"}
  /\ IsDir(files) /\ IsDir(synced.files)
  /\ IsManifest(man) /\ IsManifest(synced.man)
  /\ job = [p \in Procs |-> job[p]] /\ \A p \in Procs : IsJob(job[p])
  /\ DOMAIN restore = {"pc", "db"} /\ IsDb(restore.db)

(* One process at a time, and none during a restore.                       *)
Alone ==
  /\ \A p \in Procs : ~At(p, "down") => holder = p /\ restore.pc = "idle"
  /\ \A p \in Procs : job[p].pc # "idle" => At(p, "serving")

(* What a process has found out stays true while it runs.                  *)
KeptForGood(d) == d # None => \E s \in snaps : s.data = d /\ s.synced
Known(p) ==
  /\ At(p, "linked") => \E s \in snaps : s.data = Content.data
  /\ At(p, "snapped") => KeptForGood(Content.data)
  /\ At(p, "extension") => Stable(Content, Target(p))
  /\ At(p, "serving") => Stable(Content, Target(p)) /\ Content.hist = proc[p].build.set
Knows == \A p \in Procs : Known(p)

(* Every database anywhere has the beta it was adopted from beside it.     *)
AdoptedKept ==
  /\ KeptForGood(file.adopted) /\ KeptForGood(wal.adopted) /\ KeptForGood(restore.db.adopted)
  /\ \A i \in Ids : KeptForGood(files[i].adopted) /\ KeptForGood(synced.files[i].adopted)

(* An entry that no power failure can spoil.                               *)
Good(e) == files[e[1]] = e[2] /\ synced.files[e[1]] = e[2] /\ e[2] # NoDb

EntriesGood == \A e \in man \cup synced.man : e[1] \notin orphans => Good(e)

(* The file of a snapshot that is not yet listed for good.                 *)
InFlight(p) == job[p].pc \in {"linked", "read", "written"}
Lasting(m) == \E e \in m : Good(e) /\ \A p \in Procs : InFlight(p) => e[1] # job[p].id
SomeLasting == listed /\ ~stepped => Lasting(man) /\ Lasting(synced.man)

(* The snapshot under way.                                                 *)
Filed(j) == files[j.id] # NoDb /\ synced.files[j.id] = files[j.id]
JobSound(j) ==
  /\ j.pc \in {"linked", "read"} => \A e \in man \cup synced.man : e[1] = j.id => j.id \in orphans
  /\ j.pc = "linked" => files[j.id] # NoDb
  /\ j.pc \in {"read", "written"} => Filed(j)
  /\ j.pc \in {"read", "listed"} => j.man = man
  /\ j.pc = "written" => <<j.id, files[j.id]>> \in man
  /\ j.pc = "pruned" => \A e \in man \cup synced.man : e[1] \notin j.drop
  /\ ~stepped /\ j.pc \in {"linked", "read", "written"} => \A i \in Existing : i <= j.id
  /\ ~stepped /\ j.pc \in {"listed", "pruned"} =>
       j.id \notin j.drop /\ <<j.id, files[j.id]>> \in man /\ Filed(j)
JobsSound == \A p \in Procs : JobSound(job[p])

IInv ==
  /\ Typed /\ Alone /\ Knows /\ AdoptedKept /\ EntriesGood /\ SomeLasting /\ JobsSound

-----------------------------------------------------------------------------
(* Databases.                                                              *)

LEMMA NoDbIs ==
  /\ DOMAIN NoDb = {"line", "ver", "hist", "data", "adopted", "gen"}
  /\ IsDb(NoDb) /\ NoDb.line = "none" /\ NoDb.adopted = None
  BY DEF NoDb, IsDb

LEMMA ContentIs ==
  ASSUME Typed
  PROVE  IsDb(Content) /\ (AdoptedKept => KeptForGood(Content.adopted))
  BY DEF Typed, Content, AdoptedKept

LEMMA NoJobIs ==
  DOMAIN NoJob = {"pc", "id", "man", "drop"} /\ NoJob.pc = "idle" /\ NoJob.drop = {} /\ IsJob(NoJob)
  BY DEF NoJob, IsJob, JobPcs

-----------------------------------------------------------------------------
(* Frames.                                                                 *)

LEMMA Others ==
  ASSUME IInv, NEW p \in Procs, ~At(p, "down"), NEW q \in Procs, q # p
  PROVE  At(q, "down") /\ job[q].pc = "idle"
  <1>1. At(q, "down")
    BY DEF IInv, Alone
  <1>2. QED
    BY <1>1 DEF IInv, Alone, At

LEMMA BackupsFrame ==
  ASSUME IInv, UNCHANGED <<files, man, synced, orphans, listed, stepped>>,
         \A p \in Procs : job'[p] = job[p] \/ job'[p] = NoJob
  PROVE  EntriesGood' /\ SomeLasting' /\ JobsSound'
  <1>1. EntriesGood'
    BY DEF IInv, EntriesGood, Good
  <1>2. \A p \in Procs : InFlight(p)' => InFlight(p) /\ job'[p] = job[p]
    BY NoJobIs DEF InFlight
  <1>3. SomeLasting'
    <2>1. ASSUME NEW m, Lasting(m) PROVE Lasting(m)'
      BY <1>2, <2>1 DEF Lasting, Good
    <2>2. ASSUME listed, ~stepped PROVE Lasting(man)' /\ Lasting(synced.man)'
      BY <2>1, <2>2 DEF IInv, SomeLasting
    <2>3. QED
      BY <2>2 DEF SomeLasting
  <1>4. JobsSound'
    <2> SUFFICES ASSUME NEW p \in Procs PROVE JobSound(job[p])'
      BY DEF JobsSound
    <2>1. CASE job'[p] = job[p]
      BY <2>1 DEF IInv, JobsSound, JobSound, Filed, Existing
    <2>2. CASE job'[p] = NoJob
      BY <2>2, NoJobIs DEF JobSound
    <2>3. QED
      BY <2>1, <2>2
  <1>5. QED
    BY <1>1, <1>3, <1>4

(* Steps of one process that leave the backups alone.                      *)
ByItself(p) ==
  /\ UNCHANGED <<files, man, synced, orphans, listed, stepped, restore>>
  /\ \A q \in Procs : q # p => proc'[q] = proc[q] /\ At(q, "down")
  /\ job' = job \/ job' = [job EXCEPT ![p] = NoJob]
  /\ proc'[p].pc # "down" => holder' = p /\ restore.pc = "idle"
  /\ job'[p].pc # "idle" => proc'[p].pc = "serving"

StoredWell ==
  /\ IsDb(file') /\ IsDb(wal') /\ (wal' = NoDb \/ wal'.line = "stable")
  /\ \A s \in snaps' : DOMAIN s = {"data", "synced"}
  /\ \A d : KeptForGood(d) => KeptForGood(d)'
  /\ KeptForGood(file.adopted)' /\ KeptForGood(wal.adopted)'

LEMMA ProcessKeeps ==
  ASSUME IInv, NEW p \in Procs, proc' \in [Procs -> [pc: Pcs, build: Builds]],
         ByItself(p), StoredWell, Known(p)'
  PROVE  IInv'
  <1>1. \A q \in Procs : job'[q] = job[q] \/ job'[q] = NoJob
    BY DEF ByItself, IInv, Typed
  <1>2. job' = [q \in Procs |-> job'[q]]
    BY DEF ByItself, IInv, Typed
  <1>3. Typed'
    <2>1. \A q \in Procs : IsJob(job'[q])
      BY <1>1, NoJobIs DEF IInv, Typed
    <2>2. QED
      BY <1>2, <2>1 DEF IInv, Typed, ByItself, StoredWell
  <1>4. Alone'
    <2>1. \A q \in Procs : q # p => At(q, "down")' /\ job'[q].pc = "idle"
      BY <1>1, NoJobIs DEF ByItself, At, IInv, Alone
    <2>2. QED
      BY <2>1 DEF Alone, At, ByItself
  <1>5. Knows'
    BY DEF Knows, Known, At, ByItself
  <1>6. AdoptedKept'
    BY DEF AdoptedKept, IInv, ByItself, StoredWell
  <1>7. QED
    BY <1>1, <1>3, <1>4, <1>5, <1>6, BackupsFrame DEF IInv, ByItself

-----------------------------------------------------------------------------
(* Opening, upgrading and serving.                                         *)

(* A process that runs goes on to the next step.                           *)
LEMMA Onward ==
  ASSUME IInv, NEW p \in Procs, ~At(p, "down"), job[p].pc = "idle" \/ proc' = proc,
         UNCHANGED <<holder, files, man, synced, orphans, listed, stepped, restore, job>>,
         proc' = proc \/ \E pc \in Pcs : proc' = [proc EXCEPT ![p].pc = pc]
  PROVE  ByItself(p) /\ proc' \in [Procs -> [pc: Pcs, build: Builds]]
  <1>1. proc' \in [Procs -> [pc: Pcs, build: Builds]]
    BY DEF IInv, Typed
  <1>2. \A q \in Procs : q # p => proc'[q] = proc[q] /\ At(q, "down")
    BY Others DEF IInv, Typed
  <1>3. holder = p /\ restore.pc = "idle" /\ (job[p].pc # "idle" => proc[p].pc = "serving")
    BY DEF IInv, Alone, At
  <1>4. QED
    BY <1>1, <1>2, <1>3 DEF ByItself

(* Nothing is stored.                                                      *)
LEMMA NothingStored ==
  ASSUME IInv, UNCHANGED <<file, wal, snaps>>
  PROVE  StoredWell /\ Content' = Content
  BY DEF StoredWell, IInv, Typed, AdoptedKept, KeptForGood, Content

(* A transaction.                                                          *)
LEMMA Committed ==
  ASSUME IInv, NEW d, IsDb(d), d.line = "stable", KeptForGood(d.adopted),
         wal' = d, UNCHANGED <<file, snaps>>
  PROVE  StoredWell /\ Content' = d
  <1>1. d # NoDb
    BY NoDbIs
  <1>2. QED
    BY <1>1 DEF StoredWell, IInv, Typed, AdoptedKept, KeptForGood, Content

LEMMA OpenKeeps ==
  ASSUME IInv, NEW p \in Procs, NEW b \in Builds, Open(p, b)
  PROVE  IInv'
  <1>1. /\ UNCHANGED <<file, wal, snaps, files, man, synced, job, restore, listed, stepped,
                       orphans>>
        /\ restore.pc = "idle" /\ holder = NoProc /\ holder' = p /\ At(p, "down")
        /\ proc' = [proc EXCEPT ![p] = [pc |-> "opened", build |-> b]]
    BY DEF Open, Acquire, stored, backups
  <1>2. \A q \in Procs : At(q, "down") /\ job[q].pc = "idle"
    BY <1>1, LifecycleAssumption DEF IInv, Alone, At
  <1>3. /\ proc' \in [Procs -> [pc: Pcs, build: Builds]] /\ proc'[p].pc = "opened"
        /\ \A q \in Procs : q # p => proc'[q] = proc[q]
    BY <1>1 DEF IInv, Typed, Pcs
  <1>4. ByItself(p)
    BY <1>1, <1>2, <1>3 DEF ByItself
  <1>5. Known(p)'
    BY <1>3 DEF Known, At
  <1>6. QED
    BY <1>1, <1>3, <1>4, <1>5, NothingStored, ProcessKeeps

LEMMA AcceptSchemaKeeps ==
  ASSUME IInv, NEW p \in Procs, AcceptSchema(p)
  PROVE  IInv'
  <1>1. /\ UNCHANGED <<holder, file, wal, snaps, files, man, synced, job, restore, listed, stepped,
                       orphans>>
        /\ At(p, "opened") /\ proc' = [proc EXCEPT ![p].pc = "extension"]
        /\ Stable(Content, Target(p))
    BY DEF AcceptSchema, Goto, stored, backups
  <1>2. proc'[p].pc = "extension" /\ proc'[p].build = proc[p].build
    BY <1>1 DEF IInv, Typed
  <1>3. job[p].pc = "idle" /\ ~At(p, "down")
    BY <1>1 DEF IInv, Alone, At
  <1>4. ByItself(p) /\ proc' \in [Procs -> [pc: Pcs, build: Builds]]
    BY <1>1, <1>3, Onward DEF Pcs
  <1>5. StoredWell /\ Content' = Content
    BY <1>1, NothingStored
  <1>6. Known(p)'
    BY <1>1, <1>2, <1>5 DEF Known, At, Stable, Target
  <1>7. QED
    BY <1>4, <1>5, <1>6, ProcessKeeps

LEMMA MigrateOneKeeps ==
  ASSUME IInv, NEW p \in Procs, MigrateOne(p)
  PROVE  IInv'
  <1> DEFINE d == [Content EXCEPT !.line = "stable", !.ver = @ + 1]
  <1>1. /\ UNCHANGED <<holder, proc, file, snaps, files, man, synced, job, restore, listed, stepped,
                       orphans>>
        /\ At(p, "opened") /\ wal' = d
    BY DEF MigrateOne, Commit, backups
  <1>2. IsDb(Content) /\ KeptForGood(Content.adopted)
    BY ContentIs DEF IInv
  <1>3. IsDb(d) /\ d.line = "stable" /\ d.adopted = Content.adopted
    BY <1>2, NoDbIs DEF IsDb
  <1> HIDE DEF d
  <1>4. ~At(p, "down")
    BY <1>1 DEF At
  <1>5. ByItself(p) /\ proc' \in [Procs -> [pc: Pcs, build: Builds]]
    BY <1>1, <1>4, Onward
  <1>6. StoredWell
    BY <1>1, <1>2, <1>3, Committed
  <1>7. Known(p)'
    BY <1>1 DEF Known, At
  <1>8. QED
    BY <1>5, <1>6, <1>7, ProcessKeeps

LEMMA SnapshotBetaKeeps ==
  ASSUME IInv, NEW p \in Procs, SnapshotBeta(p)
  PROVE  IInv'
  <1> DEFINE x == [data |-> Content.data, synced |-> FALSE]
  <1>1. /\ UNCHANGED <<holder, file, wal, files, man, synced, job, restore, listed, stepped,
                       orphans>>
        /\ At(p, "opened") /\ snaps' = snaps \cup {x}
        /\ proc' = [proc EXCEPT ![p].pc = "linked"]
    BY DEF SnapshotBeta, Goto, backups
  <1>2. proc'[p].pc = "linked"
    BY <1>1 DEF IInv, Typed
  <1>3. job[p].pc = "idle" /\ ~At(p, "down")
    BY <1>1 DEF IInv, Alone, At
  <1>4. ByItself(p) /\ proc' \in [Procs -> [pc: Pcs, build: Builds]]
    BY <1>1, <1>3, Onward DEF Pcs
  <1>5. x \in snaps' /\ x.data = Content.data /\ DOMAIN x = {"data", "synced"}
    BY <1>1
  <1> HIDE DEF x
  <1>6. \A d : KeptForGood(d) => KeptForGood(d)'
    BY <1>1 DEF KeptForGood
  <1>7. StoredWell
    BY <1>1, <1>5, <1>6 DEF StoredWell, IInv, Typed, AdoptedKept
  <1>8. Known(p)'
    BY <1>1, <1>2, <1>5 DEF Known, At, Content
  <1>9. QED
    BY <1>4, <1>7, <1>8, ProcessKeeps

LEMMA SyncedStay ==
  ASSUME NEW S, NEW T, \A s \in S : DOMAIN s = {"data", "synced"},
         T \subseteq S, \A s \in S \ T : ~s.synced
  PROVE  /\ \A s \in SyncedSnapshots(T) : DOMAIN s = {"data", "synced"} /\ s.synced
         /\ \A s \in S : s.synced => \E x \in SyncedSnapshots(T) : x.data = s.data
         /\ \A s \in T : \E x \in SyncedSnapshots(T) : x.data = s.data
  <1>1. ASSUME NEW s \in S
        PROVE  LET x == [s EXCEPT !.synced = TRUE]
               IN DOMAIN x = {"data", "synced"} /\ x.synced /\ x.data = s.data
    OBVIOUS
  <1>2. QED
    BY <1>1 DEF SyncedSnapshots

LEMMA SyncSnapshotKeeps ==
  ASSUME IInv, NEW p \in Procs, SyncSnapshot(p)
  PROVE  IInv'
  <1>1. /\ UNCHANGED <<holder, file, wal, files, man, synced, job, restore, listed, stepped,
                       orphans>>
        /\ At(p, "linked") /\ snaps' = SyncedSnapshots(snaps)
        /\ proc' = [proc EXCEPT ![p].pc = "snapped"]
    BY DEF SyncSnapshot, Goto, backups
  <1>2. proc'[p].pc = "snapped"
    BY <1>1 DEF IInv, Typed
  <1>3. job[p].pc = "idle" /\ ~At(p, "down")
    BY <1>1 DEF IInv, Alone, At
  <1>4. ByItself(p) /\ proc' \in [Procs -> [pc: Pcs, build: Builds]]
    BY <1>1, <1>3, Onward DEF Pcs
  <1>5. /\ \A s \in snaps' : DOMAIN s = {"data", "synced"} /\ s.synced
        /\ \A s \in snaps : \E x \in snaps' : x.data = s.data
    BY <1>1, SyncedStay DEF IInv, Typed
  <1>6. \A d : KeptForGood(d) => KeptForGood(d)'
    BY <1>5 DEF KeptForGood
  <1>7. StoredWell
    BY <1>1, <1>5, <1>6 DEF StoredWell, IInv, Typed, AdoptedKept
  <1>8. \E s \in snaps : s.data = Content.data
    BY <1>1 DEF IInv, Knows, Known
  <1>9. Known(p)'
    BY <1>1, <1>2, <1>5, <1>8 DEF Known, At, Content, KeptForGood
  <1>10. QED
    BY <1>4, <1>7, <1>9, ProcessKeeps

LEMMA AdoptBetaKeeps ==
  ASSUME IInv, NEW p \in Procs, AdoptBeta(p)
  PROVE  IInv'
  <1> DEFINE d == [Content EXCEPT !.line = "stable", !.ver = Target(p), !.adopted = Content.data]
  <1>1. /\ UNCHANGED <<holder, file, snaps, files, man, synced, job, restore, listed, stepped,
                       orphans>>
        /\ At(p, "snapped") /\ wal' = d /\ proc' = [proc EXCEPT ![p].pc = "opened"]
    BY DEF AdoptBeta, Commit, Goto, backups
  <1>2. IsDb(Content) /\ KeptForGood(Content.data)
    BY <1>1, ContentIs DEF IInv, Knows, Known
  <1>3. IsDb(d) /\ d.line = "stable" /\ d.adopted = Content.data
    BY <1>2, NoDbIs DEF IsDb
  <1> HIDE DEF d
  <1>4. job[p].pc = "idle" /\ ~At(p, "down")
    BY <1>1 DEF IInv, Alone, At
  <1>5. ByItself(p) /\ proc' \in [Procs -> [pc: Pcs, build: Builds]]
    BY <1>1, <1>4, Onward DEF Pcs
  <1>6. StoredWell
    BY <1>1, <1>2, <1>3, Committed
  <1>7. proc'[p].pc = "opened"
    BY <1>1 DEF IInv, Typed
  <1>8. Known(p)'
    BY <1>7 DEF Known, At
  <1>9. QED
    BY <1>5, <1>6, <1>8, ProcessKeeps

LEMMA MigrateSetKeeps ==
  ASSUME IInv, NEW p \in Procs, MigrateSet(p)
  PROVE  IInv'
  <1> DEFINE h == Append(Content.hist, proc[p].build.set[Len(Content.hist) + 1])
             d == [Content EXCEPT !.hist = h]
  <1>1. /\ UNCHANGED <<holder, proc, file, snaps, files, man, synced, job, restore, listed, stepped,
                       orphans>>
        /\ At(p, "extension") /\ wal' = d
    BY DEF MigrateSet, Commit, backups
  <1>2. IsDb(Content) /\ KeptForGood(Content.adopted) /\ Stable(Content, Target(p))
    BY <1>1, ContentIs DEF IInv, Knows, Known
  <1> HIDE DEF h
  <1>3. IsDb(d) /\ d.line = Content.line /\ d.ver = Content.ver /\ d.adopted = Content.adopted
    BY <1>2, NoDbIs DEF IsDb
  <1> HIDE DEF d
  <1>4. ~At(p, "down") /\ d.line = "stable"
    BY <1>1, <1>2, <1>3 DEF At, Stable
  <1>5. ByItself(p) /\ proc' \in [Procs -> [pc: Pcs, build: Builds]]
    BY <1>1, <1>4, Onward
  <1>6. StoredWell /\ Content' = d
    BY <1>1, <1>2, <1>3, <1>4, Committed
  <1>7. Known(p)'
    BY <1>1, <1>2, <1>3, <1>6 DEF Known, At, Stable, Target
  <1>8. QED
    BY <1>5, <1>6, <1>7, ProcessKeeps

LEMMA ServeKeeps ==
  ASSUME IInv, NEW p \in Procs, Serve(p)
  PROVE  IInv'
  <1>1. /\ UNCHANGED <<holder, file, wal, snaps, files, man, synced, job, restore, listed, stepped,
                       orphans>>
        /\ At(p, "extension") /\ proc' = [proc EXCEPT ![p].pc = "serving"]
        /\ Content.hist = proc[p].build.set
    BY DEF Serve, Goto, stored, backups
  <1>2. proc'[p].pc = "serving" /\ proc'[p].build = proc[p].build
    BY <1>1 DEF IInv, Typed
  <1>3. job[p].pc = "idle" /\ ~At(p, "down") /\ Stable(Content, Target(p))
    BY <1>1 DEF IInv, Alone, At, Knows, Known
  <1>4. ByItself(p) /\ proc' \in [Procs -> [pc: Pcs, build: Builds]]
    BY <1>1, <1>3, Onward DEF Pcs
  <1>5. StoredWell /\ Content' = Content
    BY <1>1, NothingStored
  <1>6. Known(p)'
    BY <1>1, <1>2, <1>3, <1>5 DEF Known, At, Stable, Target
  <1>7. QED
    BY <1>4, <1>5, <1>6, ProcessKeeps

LEMMA WriteKeeps ==
  ASSUME IInv, NEW p \in Procs, Write(p)
  PROVE  IInv'
  <1> DEFINE d == [Content EXCEPT !.data = @ + 1]
  <1>1. /\ UNCHANGED <<holder, proc, file, snaps, files, man, synced, job, restore, listed, stepped,
                       orphans>>
        /\ At(p, "serving") /\ wal' = d
    BY DEF Write, Commit, backups
  <1>2. /\ IsDb(Content) /\ KeptForGood(Content.adopted) /\ Stable(Content, Target(p))
        /\ Content.hist = proc[p].build.set
    BY <1>1, ContentIs DEF IInv, Knows, Known
  <1>3. /\ IsDb(d) /\ d.line = Content.line /\ d.ver = Content.ver /\ d.adopted = Content.adopted
        /\ d.hist = Content.hist
    BY <1>2, NoDbIs DEF IsDb
  <1> HIDE DEF d
  <1>4. ~At(p, "down") /\ d.line = "stable"
    BY <1>1, <1>2, <1>3 DEF At, Stable
  <1>5. ByItself(p) /\ proc' \in [Procs -> [pc: Pcs, build: Builds]]
    BY <1>1, <1>4, Onward
  <1>6. StoredWell /\ Content' = d
    BY <1>1, <1>2, <1>3, <1>4, Committed
  <1>7. Known(p)'
    BY <1>1, <1>2, <1>3, <1>6 DEF Known, At, Stable, Target
  <1>8. QED
    BY <1>5, <1>6, <1>7, ProcessKeeps

LEMMA CheckpointKeeps ==
  ASSUME IInv, NEW p \in Procs, Checkpoint(p)
  PROVE  IInv'
  <1>1. /\ UNCHANGED <<holder, proc, wal, snaps, files, man, synced, job, restore, listed, stepped,
                       orphans>>
        /\ ~At(p, "down") /\ wal # NoDb /\ file' = wal
    BY DEF Checkpoint, backups, At
  <1>2. ByItself(p) /\ proc' \in [Procs -> [pc: Pcs, build: Builds]]
    BY <1>1, Onward
  <1>3. StoredWell /\ Content' = Content
    BY <1>1 DEF StoredWell, IInv, Typed, AdoptedKept, KeptForGood, Content
  <1>4. Known(p)'
    BY <1>1, <1>3 DEF IInv, Knows, Known, At, Stable, Target, KeptForGood
  <1>5. QED
    BY <1>2, <1>3, <1>4, ProcessKeeps

(* A process ends, in good order or not.                                   *)
LEMMA EndKeeps ==
  ASSUME IInv, NEW p \in Procs, ~At(p, "down"), Ended(p), Release(p), StoredWell,
         UNCHANGED <<files, man, synced, orphans, listed, stepped, restore>>
  PROVE  IInv'
  <1>1. /\ proc' = [proc EXCEPT ![p].pc = "down"] /\ job' = [job EXCEPT ![p] = NoJob]
        /\ holder' = IF holder = p THEN NoProc ELSE holder
    BY DEF Ended, Release
  <1>2. /\ proc' \in [Procs -> [pc: Pcs, build: Builds]] /\ proc'[p].pc = "down"
        /\ \A q \in Procs : q # p => proc'[q] = proc[q]
    BY <1>1 DEF IInv, Typed, Pcs
  <1>3. job'[p] = NoJob
    BY <1>1 DEF IInv, Typed
  <1>4. ByItself(p)
    BY <1>1, <1>2, <1>3, Others, NoJobIs DEF ByItself
  <1>5. Known(p)'
    BY <1>2 DEF Known, At
  <1>6. QED
    BY <1>2, <1>4, <1>5, ProcessKeeps

LEMMA CloseKeeps ==
  ASSUME IInv, NEW p \in Procs, Close(p) \/ Kill(p)
  PROVE  IInv'
  <1>1. /\ UNCHANGED <<snaps, files, man, synced, orphans, listed, stepped, restore>>
        /\ ~At(p, "down") /\ Ended(p) /\ Release(p)
        /\ (file' = Content /\ wal' = NoDb) \/ (file' = file /\ wal' = wal)
    BY DEF Close, Kill, At, backups, stored
  <1>2. StoredWell
    <2>1. CASE file' = file /\ wal' = wal
      BY <1>1, <2>1, NothingStored
    <2>2. CASE file' = Content /\ wal' = NoDb
      BY <1>1, <2>2, ContentIs, NoDbIs DEF StoredWell, IInv, Typed, KeptForGood
    <2>3. QED
      BY <1>1, <2>1, <2>2
  <1>3. QED
    BY <1>1, <1>2, EndKeeps

-----------------------------------------------------------------------------
(* Snapshots.                                                              *)

(* The server p takes a step of its snapshot.                              *)
Snaps(p) ==
  /\ At(p, "serving") /\ UNCHANGED <<holder, proc, file, wal, snaps, restore>>
  /\ job' = [q \in Procs |-> job'[q]] /\ \A q \in Procs : q # p => job'[q] = job[q]
  /\ IsJob(job'[p])
  /\ IsDir(files') /\ IsManifest(man') /\ IsDir(synced.files)' /\ IsManifest(synced.man)'
  /\ \A i \in Ids : files'[i] \in {files[i], Content, NoDb}
  /\ \A i \in Ids : synced'.files[i] \in {synced.files[i], files[i]}

LEMMA SnapshotKeeps ==
  ASSUME IInv, NEW p \in Procs, Snaps(p), EntriesGood', SomeLasting', JobSound(job[p])'
  PROVE  IInv'
  <1>1. \A q \in Procs : q # p => At(q, "down") /\ job'[q].pc = "idle"
    BY Others DEF Snaps, At
  <1>2. Content' = Content
    BY DEF Snaps, Content
  <1>3. Typed'
    <2>1. \A q \in Procs : IsJob(job'[q])
      BY DEF Snaps, IInv, Typed
    <2>2. QED
      BY <2>1 DEF IInv, Typed, Snaps
  <1>4. Alone'
    BY <1>1 DEF IInv, Alone, At, Snaps
  <1>5. Knows'
    <2> SUFFICES ASSUME NEW q \in Procs PROVE Known(q)'
      BY DEF Knows
    <2>1. Known(q)
      BY DEF IInv, Knows
    <2>2. QED
      BY <1>2, <2>1 DEF Known, At, KeptForGood, Stable, Target, Snaps
  <1>6. AdoptedKept'
    <2>1. \A d : KeptForGood(d)' = KeptForGood(d)
      BY DEF KeptForGood, Snaps
    <2>2. KeptForGood(Content.adopted) /\ KeptForGood(NoDb.adopted)
      BY ContentIs, NoDbIs DEF IInv, KeptForGood
    <2>3. ASSUME NEW i \in Ids
          PROVE  KeptForGood(files'[i].adopted) /\ KeptForGood(synced'.files[i].adopted)
      BY <2>2 DEF IInv, AdoptedKept, Snaps
    <2>4. KeptForGood(file.adopted) /\ KeptForGood(wal.adopted) /\ KeptForGood(restore.db.adopted)
      BY DEF IInv, AdoptedKept
    <2>5. QED
      BY <2>1, <2>3, <2>4 DEF AdoptedKept, Snaps
  <1>7. JobsSound'
    BY <1>1 DEF JobsSound, JobSound
  <1>8. QED
    BY <1>3, <1>4, <1>5, <1>6, <1>7 DEF IInv

(* What the step knows of the one snapshot there is.                       *)
LEMMA Taking ==
  ASSUME IInv, NEW p \in Procs, At(p, "serving")
  PROVE  /\ IsJob(job[p]) /\ JobSound(job[p]) /\ job = [q \in Procs |-> job[q]]
         /\ \A q \in Procs : q # p => ~InFlight(q)
         /\ IsDir(files) /\ IsDir(synced.files) /\ IsManifest(man) /\ IsManifest(synced.man)
         /\ Content # NoDb /\ IsDb(Content)
  <1>1. \A q \in Procs : q # p => ~InFlight(q)
    BY Others DEF At, InFlight
  <1>2. Content.line = "stable" /\ IsDb(Content)
    BY ContentIs DEF IInv, Knows, Known, Stable
  <1>3. Content # NoDb
    BY <1>2, NoDbIs
  <1>4. QED
    BY <1>1, <1>2, <1>3 DEF IInv, Typed, JobsSound

LEMMA StaysGood ==
  ASSUME NEW e, Good(e), files'[e[1]] = files[e[1]],
         synced'.files[e[1]] \in {synced.files[e[1]], files[e[1]]}
  PROVE  Good(e)'
  BY DEF Good

LEMMA LinkKeeps ==
  ASSUME IInv, NEW p \in Procs, NEW i \in Ids, LinkBackup(p, i)
  PROVE  IInv'
  <1> DEFINE j == [NoJob EXCEPT !.pc = "linked", !.id = i]
  <1>1. /\ UNCHANGED <<holder, proc, file, wal, snaps, man, synced, restore, listed, orphans>>
        /\ At(p, "serving") /\ files[i] = NoDb /\ synced.files[i] = NoDb
        /\ \A e \in man : e[1] # i
        /\ files' = [files EXCEPT ![i] = Content] /\ job' = [job EXCEPT ![p] = j]
        /\ stepped' = (stepped \/ \E k \in Existing : k > i)
    BY DEF LinkBackup, InJob, stored
  <1>2. /\ job = [q \in Procs |-> job[q]] /\ \A q \in Procs : q # p => ~InFlight(q)
        /\ IsDir(files) /\ IsDir(synced.files) /\ IsManifest(man) /\ IsManifest(synced.man)
        /\ Content # NoDb /\ IsDb(Content)
    BY <1>1, Taking
  <1>3. j.pc = "linked" /\ j.id = i /\ j.drop = {} /\ DOMAIN j = DOMAIN NoJob
    BY NoJobIs
  <1>4. /\ job'[p] = j /\ job' = [q \in Procs |-> job'[q]]
        /\ \A q \in Procs : q # p => job'[q] = job[q]
    BY <1>1, <1>2
  <1> HIDE DEF j
  <1>5. IsJob(j)
    BY <1>3 DEF IsJob, JobPcs
  <1>6. files'[i] = Content /\ (\A k \in Ids : k # i => files'[k] = files[k]) /\ IsDir(files')
    BY <1>1, <1>2 DEF IsDir
  <1>7. Snaps(p)
    BY <1>1, <1>2, <1>4, <1>5, <1>6 DEF Snaps
  <1>8. ASSUME NEW e \in man \cup synced.man, Good(e) PROVE e[1] # i /\ Good(e)'
    <2>1. e[1] # i
      BY <1>1, <1>8 DEF Good
    <2>2. e[1] \in Ids
      BY <1>2 DEF IsManifest
    <2>3. QED
      BY <1>1, <1>6, <1>8, <2>1, <2>2, StaysGood
  <1>9. EntriesGood'
    BY <1>1, <1>8 DEF EntriesGood, IInv
  <1>10. SomeLasting'
    <2>1. ASSUME NEW m, m \subseteq man \cup synced.man, Lasting(m) PROVE Lasting(m)'
      <3>1. PICK e \in m : Good(e)
        BY <2>1 DEF Lasting
      <3>2. Good(e)' /\ e[1] # i
        BY <1>8, <2>1, <3>1
      <3>3. \A q \in Procs : InFlight(q)' => e[1] # job'[q].id
        BY <1>2, <1>3, <1>4, <3>2 DEF InFlight
      <3>4. QED
        BY <3>1, <3>2, <3>3 DEF Lasting
    <2>2. QED
      BY <1>1, <2>1 DEF SomeLasting, IInv
  <1>11. JobSound(job[p])'
    <2>1. \A e \in man \cup synced.man : e[1] = i => i \in orphans
      BY <1>8 DEF IInv, EntriesGood
    <2>2. ASSUME ~stepped' PROVE \A k \in Existing' : k <= i
      <3>1. \A k \in Existing : ~(k > i)
        BY <1>1, <2>2
      <3>2. QED
        BY <1>6, <3>1 DEF Existing, Ids
    <2>3. QED
      BY <1>1, <1>2, <1>3, <1>4, <1>6, <2>1, <2>2 DEF JobSound
  <1>12. QED
    BY <1>7, <1>9, <1>10, <1>11, SnapshotKeeps

(* The directory is synced: what is there is what a power failure leaves.  *)
LEMMA DirectorySynced ==
  ASSUME IInv, NEW p \in Procs, At(p, "serving"), UNCHANGED <<files, orphans>>, man' \subseteq man,
         synced' = [files |-> files', man |-> man']
  PROVE  /\ synced'.files = files /\ synced'.man = man' /\ EntriesGood'
         /\ \A e \in man : Good(e) => Good(e)'
         /\ \A i \in Ids : files'[i] \in {files[i], Content, NoDb}
         /\ \A i \in Ids : synced'.files[i] \in {synced.files[i], files[i]}
         /\ IsDir(files') /\ IsManifest(man') /\ IsDir(synced.files)' /\ IsManifest(synced.man)'
  <1>1. synced'.files = files /\ synced'.man = man'
    OBVIOUS
  <1>2. \A e : Good(e) => Good(e)'
    BY <1>1 DEF Good
  <1>3. EntriesGood'
    BY <1>1, <1>2 DEF EntriesGood, IInv
  <1>4. IsDir(files) /\ IsManifest(man)
    BY Taking
  <1>5. QED
    BY <1>1, <1>2, <1>3, <1>4 DEF IsManifest

LEMMA ReadManifestKeeps ==
  ASSUME IInv, NEW p \in Procs, ReadManifest(p)
  PROVE  IInv'
  <1> DEFINE j == [[job[p] EXCEPT !.pc = "read"] EXCEPT !.man = man]
  <1>1. /\ UNCHANGED <<holder, proc, file, wal, snaps, files, man, restore, listed, stepped,
                       orphans>>
        /\ At(p, "serving") /\ job[p].pc = "linked" /\ synced' = [files |-> files', man |-> man']
        /\ job' = [job EXCEPT ![p].pc = "read", ![p].man = man]
    BY DEF ReadManifest, InJob, SyncDirectory, stored
  <1>2. /\ job = [q \in Procs |-> job[q]] /\ \A q \in Procs : q # p => ~InFlight(q)
        /\ IsJob(job[p]) /\ JobSound(job[p])
    BY <1>1, Taking
  <1>3. /\ j.pc = "read" /\ j.id = job[p].id /\ j.drop = job[p].drop /\ j.man = man
        /\ DOMAIN j = DOMAIN NoJob
    BY <1>2, NoJobIs DEF IsJob
  <1>4. /\ job'[p] = j /\ job' = [q \in Procs |-> job'[q]]
        /\ \A q \in Procs : q # p => job'[q] = job[q]
    BY <1>1, <1>2
  <1> HIDE DEF j
  <1>5. IsJob(j)
    BY <1>1, <1>2, <1>3 DEF IsJob, JobPcs
  <1>6. /\ synced'.files = files /\ synced'.man = man /\ EntriesGood'
        /\ \A e \in man : Good(e) => Good(e)'
    BY <1>1, DirectorySynced
  <1>7. Snaps(p)
    BY <1>1, <1>4, <1>5, DirectorySynced DEF Snaps
  <1>8. SomeLasting'
    <2>1. \A q \in Procs : InFlight(q)' => InFlight(q) /\ job'[q].id = job[q].id
      BY <1>1, <1>2, <1>3, <1>4 DEF InFlight
    <2>2. Lasting(man) => Lasting(man)' /\ Lasting(synced.man)'
      BY <1>1, <1>6, <2>1 DEF Lasting
    <2>3. QED
      BY <1>1, <2>2 DEF SomeLasting, IInv
  <1>9. JobSound(job[p])'
    BY <1>1, <1>2, <1>3, <1>4, <1>6 DEF JobSound, Filed, Existing
  <1>10. QED
    BY <1>6, <1>7, <1>8, <1>9, SnapshotKeeps

LEMMA WriteManifestKeeps ==
  ASSUME IInv, NEW p \in Procs, WriteManifest(p)
  PROVE  IInv'
  <1> DEFINE j == [job[p] EXCEPT !.pc = "written"]
             new == <<job[p].id, files[job[p].id]>>
  <1>1. /\ UNCHANGED <<holder, proc, file, wal, snaps, files, synced, restore, listed, stepped,
                       orphans>>
        /\ At(p, "serving") /\ job[p].pc = "read" /\ man' = job[p].man \cup {new}
        /\ job' = [job EXCEPT ![p].pc = "written"]
    BY DEF WriteManifest, InJob, Step, stored
  <1>2. /\ job = [q \in Procs |-> job[q]] /\ \A q \in Procs : q # p => ~InFlight(q)
        /\ IsJob(job[p]) /\ JobSound(job[p])
        /\ IsDir(files) /\ IsDir(synced.files) /\ IsManifest(man) /\ IsManifest(synced.man)
    BY <1>1, Taking
  <1>3. /\ j.pc = "written" /\ j.id = job[p].id /\ j.drop = job[p].drop /\ DOMAIN j = DOMAIN NoJob
    BY <1>2, NoJobIs DEF IsJob
  <1>4. /\ job'[p] = j /\ job' = [q \in Procs |-> job'[q]]
        /\ \A q \in Procs : q # p => job'[q] = job[q]
    BY <1>1, <1>2
  <1> HIDE DEF j
  <1>5. IsJob(j) /\ job[p].id \in Ids
    BY <1>1, <1>2, <1>3 DEF IsJob, JobPcs
  <1>6. job[p].man = man /\ Filed(job[p])
    BY <1>1, <1>2 DEF JobSound
  <1>7. new = <<new[1], new[2]>> /\ new[1] = job[p].id /\ new[2] = files[job[p].id]
    OBVIOUS
  <1> HIDE DEF new
  <1>8. Good(new) /\ man' = man \cup {new} /\ IsManifest(man')
    BY <1>1, <1>2, <1>5, <1>6, <1>7 DEF Good, Filed, IsManifest
  <1>9. Snaps(p)
    BY <1>1, <1>2, <1>4, <1>5, <1>8 DEF Snaps
  <1>10. \A e : Good(e)' = Good(e)
    BY <1>1 DEF Good
  <1>11. EntriesGood'
    BY <1>1, <1>8, <1>10 DEF EntriesGood, IInv
  <1>12. SomeLasting'
    <2>1. \A q \in Procs : InFlight(q)' => InFlight(q) /\ job'[q].id = job[q].id
      BY <1>1, <1>2, <1>3, <1>4 DEF InFlight
    <2>2. Lasting(man) => Lasting(man)'
      BY <1>8, <1>10, <2>1 DEF Lasting
    <2>3. Lasting(synced.man) => Lasting(synced.man)'
      BY <1>1, <1>10, <2>1 DEF Lasting
    <2>4. QED
      BY <1>1, <2>2, <2>3 DEF SomeLasting, IInv
  <1>13. JobSound(job[p])'
    <2>1. <<j.id, files[j.id]>> \in man'
      BY <1>3, <1>8 DEF new
    <2>2. QED
      BY <1>1, <1>2, <1>3, <1>4, <1>6, <2>1 DEF JobSound, Filed, Existing
  <1>14. QED
    BY <1>9, <1>11, <1>12, <1>13, SnapshotKeeps

LEMMA SnapshotFailsKeeps ==
  ASSUME IInv, NEW p \in Procs, SnapshotFails(p)
  PROVE  IInv'
  <1>1. /\ UNCHANGED <<holder, proc, file, wal, snaps, man, synced, restore, listed, stepped>>
        /\ At(p, "serving") /\ job[p].pc # "idle" /\ job' = [job EXCEPT ![p] = NoJob]
        /\ orphans' = IF job[p].pc = "written" THEN orphans \cup {job[p].id} ELSE orphans
        /\ \/ /\ job[p].pc \in {"linked", "read", "written"}
              /\ files' = [files EXCEPT ![job[p].id] = NoDb]
           \/ job[p].pc \in {"listed", "pruned"} /\ UNCHANGED files
    BY DEF SnapshotFails, stored
  <1>2. /\ job = [q \in Procs |-> job[q]] /\ \A q \in Procs : q # p => ~InFlight(q)
        /\ IsJob(job[p]) /\ JobSound(job[p])
        /\ IsDir(files) /\ IsDir(synced.files) /\ IsManifest(man) /\ IsManifest(synced.man)
    BY <1>1, Taking
  <1>3. /\ job'[p] = NoJob /\ job' = [q \in Procs |-> job'[q]]
        /\ \A q \in Procs : q # p => job'[q] = job[q]
    BY <1>1, <1>2
  <1>4. JobSound(job[p])'
    BY <1>3, NoJobIs DEF JobSound
  <1>5. CASE UNCHANGED <<files, orphans>>
    <2>1. Snaps(p)
      BY <1>1, <1>2, <1>3, <1>5, NoJobIs DEF Snaps
    <2>2. EntriesGood' /\ SomeLasting'
      BY <1>1, <1>3, <1>5, BackupsFrame
    <2>3. QED
      BY <1>4, <2>1, <2>2, SnapshotKeeps
  <1>6. CASE /\ job[p].pc \in {"linked", "read", "written"}
             /\ files' = [files EXCEPT ![job[p].id] = NoDb]
    <2>1. PICK i \in Ids : i = job[p].id
      BY <1>1, <1>2 DEF IsJob
    <2>2. files'[i] = NoDb /\ (\A k \in Ids : k # i => files'[k] = files[k]) /\ IsDir(files')
      BY <1>2, <1>6, <2>1, NoDbIs DEF IsDir
    <2>3. Snaps(p)
      BY <1>1, <1>2, <1>3, <2>2, NoJobIs DEF Snaps
    <2>4. ASSUME NEW e \in man \cup synced.man, Good(e), e[1] # i PROVE Good(e)'
      <3>1. e[1] \in Ids
        BY <1>2 DEF IsManifest
      <3>2. QED
        BY <1>1, <2>2, <2>4, <3>1, StaysGood
    <2>5. EntriesGood'
      <3> SUFFICES ASSUME NEW e \in man \cup synced.man, e[1] \notin orphans' PROVE Good(e)'
        BY <1>1 DEF EntriesGood
      <3>1. e[1] \notin orphans /\ Good(e)
        BY <1>1 DEF IInv, EntriesGood
      <3>2. e[1] # i
        BY <1>1, <1>2, <1>6, <2>1, <3>1 DEF JobSound
      <3>3. QED
        BY <2>4, <3>1, <3>2
    <2>6. SomeLasting'
      <3>1. ASSUME NEW m, m \subseteq man \cup synced.man, Lasting(m) PROVE Lasting(m)'
        <4>1. PICK e \in m : Good(e) /\ \A q \in Procs : InFlight(q) => e[1] # job[q].id
          BY <3>1 DEF Lasting
        <4>2. e[1] # i
          BY <1>6, <2>1, <4>1 DEF InFlight
        <4>3. Good(e)'
          BY <2>4, <3>1, <4>1, <4>2
        <4>4. \A q \in Procs : ~InFlight(q)'
          BY <1>2, <1>3, NoJobIs DEF InFlight
        <4>5. QED
          BY <4>1, <4>3, <4>4 DEF Lasting
      <3>2. QED
        BY <1>1, <3>1 DEF SomeLasting, IInv
    <2>7. QED
      BY <1>4, <2>3, <2>5, <2>6, SnapshotKeeps
  <1>7. QED
    BY <1>1, <1>5, <1>6

LEMMA SyncManifestKeeps ==
  ASSUME IInv, NEW p \in Procs, SyncManifest(p)
  PROVE  IInv'
  <1> DEFINE j == [[[job[p] EXCEPT !.pc = "listed"] EXCEPT !.drop = Dropped] EXCEPT !.man = man]
             new == <<job[p].id, files[job[p].id]>>
  <1>1. /\ UNCHANGED <<holder, proc, file, wal, snaps, files, man, restore, stepped, orphans>>
        /\ At(p, "serving") /\ job[p].pc = "written" /\ synced' = [files |-> files', man |-> man']
        /\ job' = [job EXCEPT ![p].pc = "listed", ![p].drop = Dropped, ![p].man = man]
    BY DEF SyncManifest, InJob, SyncDirectory, stored
  <1>2. /\ job = [q \in Procs |-> job[q]] /\ \A q \in Procs : q # p => ~InFlight(q)
        /\ IsJob(job[p]) /\ JobSound(job[p])
    BY <1>1, Taking
  <1>3. /\ j.pc = "listed" /\ j.id = job[p].id /\ j.drop = Dropped /\ j.man = man
        /\ DOMAIN j = DOMAIN NoJob
    BY <1>2, NoJobIs DEF IsJob
  <1>4. /\ job'[p] = j /\ job' = [q \in Procs |-> job'[q]]
        /\ \A q \in Procs : q # p => job'[q] = job[q]
    BY <1>1, <1>2
  <1> HIDE DEF j
  <1>5. Dropped \subseteq Ids
    BY DEF Dropped, Existing
  <1>6. IsJob(j) /\ job[p].id \in Ids
    BY <1>1, <1>2, <1>3, <1>5 DEF IsJob, JobPcs
  <1>7. /\ synced'.files = files /\ synced'.man = man /\ EntriesGood'
        /\ \A e \in man : Good(e) => Good(e)'
    BY <1>1, DirectorySynced
  <1>8. Snaps(p)
    BY <1>1, <1>4, <1>6, DirectorySynced DEF Snaps
  <1>9. new \in man /\ Filed(job[p])
    BY <1>1, <1>2 DEF JobSound
  <1>10. Good(new)
    BY <1>9 DEF Good, Filed
  <1> HIDE DEF new
  <1>11. SomeLasting'
    <2>1. \A q \in Procs : ~InFlight(q)'
      BY <1>2, <1>3, <1>4 DEF InFlight
    <2>2. QED
      BY <1>1, <1>7, <1>9, <1>10, <2>1 DEF SomeLasting, Lasting
  <1>12. ASSUME ~stepped PROVE job[p].id \notin Dropped
    <2>1. \A i \in Existing : i <= job[p].id
      BY <1>1, <1>2, <1>12 DEF JobSound
    <2>2. {i \in Existing : i > job[p].id} = {}
      BY <1>6, <2>1 DEF Existing, Ids
    <2>3. Cardinality({i \in Existing : i > job[p].id}) = 0
      BY <2>2, FS_EmptySet
    <2>4. QED
      BY <2>3, LifecycleAssumption DEF Dropped
  <1>13. JobSound(job[p])'
    <2>1. <<job[p].id, files[job[p].id]>> \in man
      BY <1>9 DEF new
    <2>2. QED
      BY <1>1, <1>3, <1>4, <1>7, <1>9, <1>12, <2>1 DEF JobSound, Filed
  <1>14. QED
    BY <1>7, <1>8, <1>11, <1>13, SnapshotKeeps

LEMMA PruneManifestKeeps ==
  ASSUME IInv, NEW p \in Procs, PruneManifest(p)
  PROVE  IInv'
  <1> DEFINE j == [job[p] EXCEPT !.pc = "pruned"]
             new == <<job[p].id, files[job[p].id]>>
  <1>1. /\ UNCHANGED <<holder, proc, file, wal, snaps, files, restore, listed, stepped, orphans>>
        /\ At(p, "serving") /\ job[p].pc = "listed" /\ synced' = [files |-> files', man |-> man']
        /\ man' = Kept(job[p].man, job[p].drop) /\ job' = [job EXCEPT ![p].pc = "pruned"]
    BY DEF PruneManifest, InJob, Step, SyncDirectory, stored
  <1>2. /\ job = [q \in Procs |-> job[q]] /\ \A q \in Procs : q # p => ~InFlight(q)
        /\ IsJob(job[p]) /\ JobSound(job[p])
    BY <1>1, Taking
  <1>3. j.pc = "pruned" /\ j.id = job[p].id /\ j.drop = job[p].drop /\ DOMAIN j = DOMAIN NoJob
    BY <1>2, NoJobIs DEF IsJob
  <1>4. /\ job'[p] = j /\ job' = [q \in Procs |-> job'[q]]
        /\ \A q \in Procs : q # p => job'[q] = job[q]
    BY <1>1, <1>2
  <1> HIDE DEF j
  <1>5. IsJob(j)
    BY <1>1, <1>2, <1>3 DEF IsJob, JobPcs
  <1>6. man' = {e \in man : e[1] \notin job[p].drop}
    BY <1>1, <1>2 DEF JobSound, Kept
  <1>7. /\ synced'.files = files /\ synced'.man = man' /\ EntriesGood'
        /\ \A e \in man : Good(e) => Good(e)'
    BY <1>1, <1>6, DirectorySynced
  <1>8. Snaps(p)
    BY <1>1, <1>4, <1>5, <1>6, DirectorySynced DEF Snaps
  <1>9. ASSUME ~stepped
        PROVE  /\ new \in man' /\ (\E e \in man' : Good(e)')
               /\ Filed(job[p]) /\ job[p].id \notin job[p].drop
    <2>1. new \in man /\ Filed(job[p]) /\ job[p].id \notin job[p].drop
      BY <1>1, <1>2, <1>9 DEF JobSound
    <2>2. Good(new) /\ new[1] = job[p].id
      BY <2>1 DEF Good, Filed
    <2>3. PICK e \in man : e = new
      BY <2>1
    <2> HIDE DEF new
    <2>4. Good(e)' /\ e \in man'
      BY <1>6, <1>7, <2>1, <2>2, <2>3
    <2>5. QED
      BY <2>1, <2>3, <2>4
  <1>10. SomeLasting'
    <2>1. \A q \in Procs : ~InFlight(q)'
      BY <1>2, <1>3, <1>4 DEF InFlight
    <2>2. ASSUME ~stepped PROVE Lasting(man)' /\ synced'.man = man'
      BY <1>7, <1>9, <2>1, <2>2 DEF Lasting
    <2>3. QED
      BY <1>1, <2>2 DEF SomeLasting, Lasting
  <1>11. JobSound(job[p])'
    <2>1. \A e \in man' \cup synced'.man : e[1] \notin job[p].drop
      BY <1>6, <1>7
    <2>2. ~stepped => <<job[p].id, files[job[p].id]>> \in man'
      BY <1>9
    <2>3. QED
      BY <1>1, <1>3, <1>4, <1>7, <1>9, <2>1, <2>2 DEF JobSound, Filed
  <1>12. QED
    BY <1>7, <1>8, <1>10, <1>11, SnapshotKeeps

LEMMA RemoveOldKeeps ==
  ASSUME IInv, NEW p \in Procs, RemoveOld(p)
  PROVE  IInv'
  <1>1. /\ UNCHANGED <<holder, proc, file, wal, snaps, man, synced, restore, listed, stepped,
                       orphans>>
        /\ At(p, "serving") /\ job[p].pc = "pruned"
    BY DEF RemoveOld, InJob, stored
  <1>2. PICK i \in job[p].drop : /\ files' = [files EXCEPT ![i] = NoDb]
                                 /\ job' = [job EXCEPT ![p].drop = @ \ {i}]
    BY DEF RemoveOld
  <1> DEFINE j == [job[p] EXCEPT !.drop = @ \ {i}]
  <1>3. /\ job = [q \in Procs |-> job[q]] /\ \A q \in Procs : q # p => ~InFlight(q)
        /\ IsJob(job[p]) /\ JobSound(job[p])
        /\ IsDir(files) /\ IsDir(synced.files) /\ IsManifest(man) /\ IsManifest(synced.man)
    BY <1>1, Taking
  <1>4. /\ j.pc = "pruned" /\ j.id = job[p].id /\ j.drop = job[p].drop \ {i}
        /\ DOMAIN j = DOMAIN NoJob
    BY <1>1, <1>3, NoJobIs DEF IsJob
  <1>5. /\ job'[p] = j /\ job' = [q \in Procs |-> job'[q]]
        /\ \A q \in Procs : q # p => job'[q] = job[q]
    BY <1>2, <1>3
  <1> HIDE DEF j
  <1>6. IsJob(j) /\ i \in Ids
    BY <1>1, <1>3, <1>4 DEF IsJob, JobPcs
  <1>7. files'[i] = NoDb /\ (\A k \in Ids : k # i => files'[k] = files[k]) /\ IsDir(files')
    BY <1>2, <1>3, <1>6, NoDbIs DEF IsDir
  <1>8. Snaps(p)
    BY <1>1, <1>3, <1>5, <1>6, <1>7 DEF Snaps
  <1>9. \A e \in man \cup synced.man : e[1] \notin job[p].drop
    BY <1>1, <1>3 DEF JobSound
  <1>10. ASSUME NEW e \in man \cup synced.man, Good(e) PROVE Good(e)'
    <2>1. e[1] \in Ids /\ e[1] # i
      BY <1>3, <1>9 DEF IsManifest
    <2>2. QED
      BY <1>1, <1>7, <1>10, <2>1, StaysGood
  <1>11. EntriesGood'
    BY <1>1, <1>10 DEF EntriesGood, IInv
  <1>12. SomeLasting'
    <2>1. \A q \in Procs : ~InFlight(q)'
      BY <1>3, <1>4, <1>5 DEF InFlight
    <2>2. QED
      BY <1>1, <1>10, <2>1 DEF SomeLasting, Lasting, IInv
  <1>13. JobSound(job[p])'
    <2>1. ASSUME ~stepped
          PROVE  /\ job[p].id \notin job[p].drop /\ <<job[p].id, files[job[p].id]>> \in man
                 /\ Filed(job[p]) /\ files'[job[p].id] = files[job[p].id]
      <3>1. job[p].id \notin job[p].drop /\ <<job[p].id, files[job[p].id]>> \in man /\ Filed(job[p])
        BY <1>1, <1>3, <2>1 DEF JobSound
      <3>2. job[p].id \in Ids /\ job[p].id # i
        BY <1>1, <1>3, <3>1 DEF IsJob
      <3>3. QED
        BY <1>7, <3>1, <3>2
    <2>2. QED
      BY <1>1, <1>4, <1>5, <1>9, <2>1 DEF JobSound, Filed
  <1>14. QED
    BY <1>8, <1>11, <1>12, <1>13, SnapshotKeeps

LEMMA FinishKeeps ==
  ASSUME IInv, NEW p \in Procs, FinishSnapshot(p)
  PROVE  IInv'
  <1>1. /\ UNCHANGED <<holder, proc, file, wal, snaps, files, man, restore, listed, stepped,
                       orphans>>
        /\ At(p, "serving") /\ job' = [job EXCEPT ![p] = NoJob]
        /\ synced' = [files |-> files', man |-> man']
    BY DEF FinishSnapshot, InJob, SyncDirectory, stored
  <1>2. job = [q \in Procs |-> job[q]] /\ \A q \in Procs : q # p => ~InFlight(q)
    BY <1>1, Taking
  <1>3. /\ job'[p] = NoJob /\ job' = [q \in Procs |-> job'[q]]
        /\ \A q \in Procs : q # p => job'[q] = job[q]
    BY <1>1, <1>2
  <1>4. /\ synced'.man = man /\ EntriesGood' /\ \A e \in man : Good(e) => Good(e)'
    BY <1>1, DirectorySynced
  <1>5. Snaps(p)
    BY <1>1, <1>3, NoJobIs, DirectorySynced DEF Snaps
  <1>6. SomeLasting'
    <2>1. \A q \in Procs : ~InFlight(q)'
      BY <1>2, <1>3, NoJobIs DEF InFlight
    <2>2. Lasting(man) => Lasting(man)' /\ Lasting(synced.man)'
      BY <1>1, <1>4, <2>1 DEF Lasting
    <2>3. QED
      BY <1>1, <2>2 DEF SomeLasting, IInv
  <1>7. JobSound(job[p])'
    BY <1>3, NoJobIs DEF JobSound
  <1>8. QED
    BY <1>4, <1>5, <1>6, <1>7, SnapshotKeeps

-----------------------------------------------------------------------------
(* The scheduler, restores and power failures.                             *)

Untouched ==
  UNCHANGED <<holder, proc, file, wal, snaps, files, man, synced, job, restore, listed, stepped,
              orphans>>

LEMMA UntouchedKeeps ==
  ASSUME IInv, Untouched
  PROVE  IInv'
  <1>1. EntriesGood' /\ SomeLasting' /\ JobsSound'
    BY BackupsFrame DEF Untouched
  <1>2. Typed' /\ Alone'
    BY DEF IInv, Untouched, Typed, Alone, At
  <1>3. Knows' /\ AdoptedKept'
    BY DEF IInv, Untouched, Knows, Known, AdoptedKept, KeptForGood, At, Content, Stable, Target
  <1>4. QED
    BY <1>1, <1>2, <1>3 DEF IInv

LEMMA SchedulerKeeps ==
  ASSUME IInv, \/ ReadConfig \/ Await \/ HearChange \/ TickStale \/ UNCHANGED vars
               \/ \E r \in Reqs :
                    SavePreferences(r) \/ ResolvePreferences(r) \/ UpdateScheduler(r)
  PROVE  IInv'
  <1>1. Untouched
    BY DEF Untouched, ReadConfig, Await, HearChange, TickStale, SavePreferences, ResolvePreferences,
           UpdateScheduler, vars, stored, backups
  <1>2. QED
    BY <1>1, UntouchedKeeps

LEMMA RestoreKeeps ==
  ASSUME IInv, Offline,
         UNCHANGED <<holder, proc, job, snaps, files, man, synced, orphans, listed, stepped>>,
         IsDb(file') /\ IsDb(wal') /\ IsDb(restore'.db),
         wal' = NoDb \/ wal'.line = "stable", DOMAIN restore' = {"pc", "db"},
         KeptForGood(file'.adopted), KeptForGood(wal'.adopted), KeptForGood(restore'.db.adopted)
  PROVE  IInv'
  <1>1. EntriesGood' /\ SomeLasting' /\ JobsSound'
    BY BackupsFrame
  <1>2. Typed'
    BY DEF IInv, Typed
  <1>3. Alone' /\ Knows'
    BY DEF IInv, Alone, Knows, Known, Offline, At
  <1>4. AdoptedKept'
    BY DEF IInv, AdoptedKept, KeptForGood
  <1>5. QED
    BY <1>1, <1>2, <1>3, <1>4 DEF IInv

LEMMA BeginRestoreKeeps ==
  ASSUME IInv, NEW i \in Ids, BeginRestore(i)
  PROVE  IInv'
  <1> DEFINE d == [files[i] EXCEPT !.gen = file.gen + 1]
  <1>1. /\ UNCHANGED <<holder, proc, job, file, wal, snaps, files, man, synced, orphans,
                       listed, stepped>>
        /\ Offline /\ restore' = [pc |-> "copied", db |-> d]
    BY DEF BeginRestore, stored, backups
  <1>2. IsDb(files[i]) /\ KeptForGood(files[i].adopted)
    BY DEF IInv, Typed, IsDir, AdoptedKept
  <1>3. IsDb(d) /\ d.adopted = files[i].adopted /\ restore'.db = d /\ DOMAIN restore' = {"pc", "db"}
    BY <1>1, <1>2, NoDbIs DEF IsDb
  <1> HIDE DEF d
  <1>4. /\ IsDb(file) /\ IsDb(wal) /\ (wal = NoDb \/ wal.line = "stable")
        /\ KeptForGood(file.adopted) /\ KeptForGood(wal.adopted)
    BY DEF IInv, Typed, AdoptedKept
  <1>5. QED
    BY <1>1, <1>2, <1>3, <1>4, RestoreKeeps

LEMMA RestoreGoesOn ==
  ASSUME IInv, RemoveWal \/ RenameRestored \/ RestoreKilled
  PROVE  IInv'
  <1>1. /\ UNCHANGED <<holder, proc, job, snaps, files, man, synced, orphans, listed, stepped>>
        /\ restore.pc # "idle" /\ file' \in {file, restore.db} /\ wal' \in {wal, NoDb}
    BY DEF RemoveWal, RenameRestored, RestoreKilled, WalRemoved, stored, backups
  <1>2. restore'.db \in {restore.db, NoDb} /\ DOMAIN restore' = {"pc", "db"}
    <2>1. CASE RemoveWal
      <3>1. restore' = [restore EXCEPT !.pc = "cleared"]
        BY <2>1 DEF RemoveWal
      <3>2. QED
        BY <3>1 DEF IInv, Typed
    <2>2. CASE RenameRestored \/ RestoreKilled
      BY <2>2 DEF RenameRestored, RestoreKilled
    <2>3. QED
      BY <2>1, <2>2
  <1>3. Offline
    BY <1>1 DEF IInv, Alone, Offline
  <1>4. /\ IsDb(file) /\ IsDb(wal) /\ IsDb(restore.db) /\ (wal = NoDb \/ wal.line = "stable")
        /\ KeptForGood(file.adopted) /\ KeptForGood(wal.adopted) /\ KeptForGood(restore.db.adopted)
    BY DEF IInv, Typed, AdoptedKept
  <1>5. IsDb(NoDb) /\ KeptForGood(NoDb.adopted)
    BY NoDbIs DEF KeptForGood
  <1>6. /\ IsDb(file') /\ IsDb(wal') /\ IsDb(restore'.db) /\ (wal' = NoDb \/ wal'.line = "stable")
        /\ KeptForGood(file'.adopted) /\ KeptForGood(wal'.adopted)
        /\ KeptForGood(restore'.db.adopted)
    BY <1>1, <1>2, <1>4, <1>5
  <1>7. QED
    BY <1>1, <1>2, <1>3, <1>6, RestoreKeeps

LEMMA PowerKeeps ==
  ASSUME IInv, PowerFails
  PROVE  IInv'
  <1>1. /\ UNCHANGED <<file, restore, listed, stepped, orphans>>
        /\ man' \in {man, synced.man} /\ wal' \in {wal, NoDb}
        /\ synced' = [files |-> files', man |-> man']
        /\ proc' = [p \in Procs |-> [proc[p] EXCEPT !.pc = "down"]]
        /\ job' = [p \in Procs |-> NoJob]
    BY DEF PowerFails
  <1>2. /\ files' = [i \in Ids |-> files'[i]]
        /\ \A i \in Ids : files'[i] \in {files[i], synced.files[i]}
    <2>1. PICK pick \in [Ids -> BOOLEAN] :
            files' = [i \in Ids |-> IF pick[i] THEN files[i] ELSE synced.files[i]]
      BY DEF PowerFails
    <2>2. QED
      BY <2>1
  <1>3. synced'.files = files' /\ synced'.man = man'
    BY <1>1
  <1>4. /\ \A p \in Procs : proc'[p].pc = "down" /\ job'[p] = NoJob
        /\ proc' \in [Procs -> [pc: Pcs, build: Builds]] /\ job' = [p \in Procs |-> job'[p]]
    BY <1>1 DEF IInv, Typed, Pcs
  <1>5. /\ \A s \in snaps' : DOMAIN s = {"data", "synced"} /\ s.synced
        /\ \A d : KeptForGood(d) => KeptForGood(d)'
    <2>1. PICK lost \in SUBSET {s \in snaps : ~s.synced} : snaps' = SyncedSnapshots(snaps \ lost)
      BY DEF PowerFails
    <2>2. /\ \A s \in snaps : DOMAIN s = {"data", "synced"}
          /\ snaps \ lost \subseteq snaps /\ \A s \in snaps \ (snaps \ lost) : ~s.synced
      BY DEF IInv, Typed
    <2>3. /\ \A s \in snaps' : DOMAIN s = {"data", "synced"} /\ s.synced
          /\ \A s \in snaps : s.synced => \E x \in snaps' : x.data = s.data
      BY <2>1, <2>2, SyncedStay
    <2>4. QED
      BY <2>3 DEF KeptForGood
  <1>6. Typed'
    <2>1. /\ IsDb(file') /\ IsDb(wal') /\ (wal' = NoDb \/ wal'.line = "stable")
          /\ DOMAIN restore' = {"pc", "db"} /\ IsDb(restore'.db)
      BY <1>1, NoDbIs DEF IInv, Typed
    <2>2. IsDir(files') /\ IsManifest(man')
      BY <1>1, <1>2 DEF IInv, Typed, IsDir
    <2>3. QED
      BY <1>3, <1>4, <1>5, <2>1, <2>2, NoJobIs DEF Typed
  <1>7. Alone' /\ Knows'
    BY <1>4, NoJobIs DEF Alone, Knows, Known, At
  <1>8. AdoptedKept'
    <2>1. /\ KeptForGood(file'.adopted) /\ KeptForGood(wal'.adopted)
          /\ KeptForGood(restore'.db.adopted)
      BY <1>1, NoDbIs DEF IInv, AdoptedKept, KeptForGood
    <2>2. \A i \in Ids : KeptForGood(files'[i].adopted)
      BY <1>2 DEF IInv, AdoptedKept
    <2>3. QED
      BY <1>3, <1>5, <2>1, <2>2 DEF AdoptedKept
  <1>9. ASSUME NEW e \in man \cup synced.man, Good(e) PROVE Good(e)'
    <2>1. e[1] \in Ids
      BY DEF IInv, Typed, IsManifest
    <2>2. QED
      BY <1>2, <1>3, <1>9, <2>1 DEF Good
  <1>10. EntriesGood'
    BY <1>1, <1>3, <1>9 DEF IInv, EntriesGood
  <1>11. SomeLasting'
    <2>1. \A p \in Procs : ~InFlight(p)'
      BY <1>4, NoJobIs DEF InFlight
    <2>2. ASSUME listed, ~stepped PROVE \E e \in man' : Good(e)'
      BY <1>1, <1>9, <2>2 DEF IInv, SomeLasting, Lasting
    <2>3. QED
      BY <1>1, <1>3, <2>1, <2>2 DEF SomeLasting, Lasting
  <1>12. JobsSound'
    BY <1>4, NoJobIs DEF JobsSound, JobSound
  <1>13. QED
    BY <1>6, <1>7, <1>8, <1>10, <1>11, <1>12 DEF IInv

-----------------------------------------------------------------------------
(* The theorems.                                                           *)

LEMMA InitSound ==
  ASSUME Init
  PROVE  IInv
  <1>1. PICK s \in Starts : file = s.db
    BY DEF Init
  <1>2. /\ wal = NoDb /\ snaps = {} /\ files = [i \in Ids |-> NoDb] /\ man = {}
        /\ synced.files = files /\ synced.man = man
        /\ proc = [p \in Procs |-> [pc |-> "down", build |-> CHOOSE b \in Builds : TRUE]]
        /\ job = [p \in Procs |-> NoJob] /\ listed = FALSE
        /\ restore = [pc |-> "idle", db |-> NoDb]
    BY DEF Init
  <1>3. (CHOOSE b \in Builds : TRUE) \in Builds
    BY LifecycleAssumption
  <1>4. IsDb(file) /\ file.adopted = None
    BY <1>1, StartsAssumption DEF IsDb
  <1>5. Typed
    BY <1>2, <1>3, <1>4, NoDbIs, NoJobIs DEF Typed, Pcs, IsDir, IsManifest
  <1>6. Alone /\ Knows
    BY <1>2, NoJobIs DEF Alone, Knows, Known, At
  <1>7. AdoptedKept
    BY <1>2, <1>4, NoDbIs DEF AdoptedKept, KeptForGood
  <1>8. EntriesGood /\ SomeLasting
    BY <1>2 DEF EntriesGood, SomeLasting
  <1>9. JobsSound
    BY <1>2, NoJobIs DEF JobsSound, JobSound
  <1>10. QED
    BY <1>5, <1>6, <1>7, <1>8, <1>9 DEF IInv

LEMMA StepSound ==
  ASSUME IInv, [Next]_vars
  PROVE  IInv'
  <1>1. ASSUME NEW p \in Procs, ProcStep(p) PROVE IInv'
    BY <1>1, OpenKeeps, AcceptSchemaKeeps, MigrateOneKeeps, SnapshotBetaKeeps, SyncSnapshotKeeps,
       AdoptBetaKeeps, MigrateSetKeeps, ServeKeeps, WriteKeeps, CheckpointKeeps, CloseKeeps
       DEF ProcStep
  <1>2. ASSUME NEW p \in Procs, SnapshotStep(p) PROVE IInv'
    BY <1>2, LinkKeeps, ReadManifestKeeps, WriteManifestKeeps, SnapshotFailsKeeps,
       SyncManifestKeeps, PruneManifestKeeps, RemoveOldKeeps, FinishKeeps DEF SnapshotStep
  <1>3. QED
    BY <1>1, <1>2, SchedulerKeeps, BeginRestoreKeeps, RestoreGoesOn, PowerKeeps DEF Next

LEMMA AlwaysSound == Spec => []IInv
  <1>1. Init => IInv
    BY InitSound
  <1>2. IInv /\ [Next]_vars => IInv'
    BY StepSound
  <1>3. QED
    BY <1>1, <1>2, PTL DEF Spec

(* Whatever step of snapshot.go is interrupted, by a kill, an error or a   *)
(* power failure, every snapshot in the manifest has its file with the     *)
(* digest recorded, and once one was listed one stays so.                  *)
THEOREM ListedAlwaysRestorable == Spec => []ListedIsRestorable
  <1>1. IInv => ListedIsRestorable
    BY DEF IInv, EntriesGood, SomeLasting, Lasting, Good, ListedIsRestorable
  <1>2. QED
    BY <1>1, AlwaysSound, PTL

(* A database that adopted a beta schema has the snapshot of it that       *)
(* createAdoptionSnapshot took, after any crash, backup and restore.       *)
THEOREM BetasAreKept == Spec => []BetaIsKept
  <1>1. IInv => BetaIsKept
    BY ContentIs DEF IInv, KeptForGood, BetaIsKept
  <1>2. QED
    BY <1>1, AlwaysSound, PTL

(* PrepareStable and MigrateSet let a process serve only the schema and    *)
(* the extension history of its own build, and the lock keeps them so      *)
(* while it serves.                                                        *)
THEOREM ServesOnlyKnown == Spec => []ServesWhatItKnows
  <1>1. IInv => ServesWhatItKnows
    BY DEF IInv, Knows, Known, ServesWhatItKnows
  <1>2. QED
    BY <1>1, AlwaysSound, PTL
=============================================================================
