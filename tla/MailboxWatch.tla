---------------------------- MODULE MailboxWatch ----------------------------
(***************************************************************************)
(* Intake from a mailbox: one email_accounts row, the watcher that polls   *)
(* it (core/ingest/emailwatch), the supervisor that replaces watchers when *)
(* the row changes, and the API handlers that change it.                   *)
(*                                                                         *)
(* A watcher works on the copy of the row it was started with.  It asks    *)
(* the server for the UIDs above its cursor, imports them one transaction  *)
(* at a time, tidies the mailbox and only then moves the cursor.  Reload   *)
(* lists the rows first and takes the supervisor's mutex afterwards.       *)
(*                                                                         *)
(* The IMAP server is external: a mailbox numbers its messages upwards,    *)
(* loses some to other clients, and may start a new numbering.             *)
(***************************************************************************)
EXTENDS Naturals, FiniteSets, FiniteSetsExt

CONSTANTS
  Boxes,        \* mailboxes of the server
  FirstSource,  \* the one the account is created with
  Sources,      \* settings that say which messages are read
  BoxOf,        \* [Sources -> Boxes], host, user and folder of a source
  Horizon,      \* [Sources -> SUBSET Msgs], what SINCE lets through
  FirstVal,     \* [Boxes -> Nat], UIDVALIDITY at the start
  Msgs,
  HasFiles,     \* messages with a named attachment
  Big,          \* messages above the raw size limit
  Nameless,     \* messages without a Message-ID
  Policies,     \* intake policies: sets of rules
  Tidyings,     \* what is done to handled messages: "none", "seen", "move"
  Batch,        \* imapFetchBatchSize
  MaxUid, MaxVal,
  Callers,      \* concurrent requests that change the row and reload
  Booter,       \* the caller that stands for the supervisor's own start
  MailBounds,   \* how often each thing outside the watcher may happen
  NoMsg, NoRow, NoWatcher, Free

Steps == {"idle", "rotate", "search", "fetch", "mark"}
Rows == [on : BOOLEAN, src : Sources, policy : Policies, tidy : Tidyings,
         secret : Nat, uid : 0..MaxUid, val : 0..MaxVal]

Watchers ==
  [src : Sources, policy : Policies, tidy : Tidyings, secret : Nat, uid : 0..MaxUid, val : 0..MaxVal,
   pc : Steps, cancelled : BOOLEAN, last : 0..MaxUid, now : 0..MaxVal,
   todo : SUBSET (1..MaxUid), batch : SUBSET (1..MaxUid), done : SUBSET (1..MaxUid),
   failed : SUBSET (1..MaxUid), missing : SUBSET (1..MaxUid), book : SUBSET (1..MaxUid),
   ok : BOOLEAN, err : BOOLEAN]

ASSUME SourcesAssumption ==
  /\ BoxOf \in [Sources -> Boxes]
  /\ Horizon \in [Sources -> SUBSET Msgs]
  /\ FirstVal \in [Boxes -> 1..MaxVal]
  /\ HasFiles \subseteq Msgs /\ Big \subseteq Msgs /\ Nameless \subseteq Msgs

ASSUME MarkersAssumption ==
  /\ NoMsg \notin Msgs
  /\ IsFiniteSet(Callers) /\ Booter \in Callers /\ FirstSource \in Sources
  /\ Free \notin Callers
  /\ NoRow \notin Rows /\ NoWatcher \notin Watchers

ASSUME NumbersAssumption ==
  /\ Batch \in Nat \ {0} /\ MaxUid \in Nat /\ MaxVal \in Nat
  /\ MailBounds \in [{"mails", "creates", "edits", "mishaps", "lost"} -> Nat]

(* More than IMAP promises across mailboxes: every source is a mailbox of  *)
(* its own, and none is ever given a number that another one had.          *)
OwnNumberings ==
  /\ \A s, t \in Sources : BoxOf[s] = BoxOf[t] => s = t
  /\ \A b, c \in Boxes : b # c =>
       \/ FirstVal[b] + MailBounds["mishaps"] < FirstVal[c]
       \/ FirstVal[c] + MailBounds["mishaps"] < FirstVal[b]

VARIABLES
  box,      \* [Boxes -> [1..MaxUid -> Msgs or NoMsg]], the messages by UID
  top,      \* [Boxes -> 0..MaxUid], the highest UID given out
  val,      \* [Boxes -> 1..MaxVal], the current UIDVALIDITY
  row,      \* the email_accounts row, or NoRow
  owner,    \* the owner's user row is enabled and may enter the archive
  docs,     \* [Msgs -> {"none", "live", "trash"}], documents of messages
  filed,    \* messages that were ever filed
  ignored,  \* messages a policy left out
  watcher,  \* the running watcher, or NoWatcher
  calls,    \* [Callers -> [pc, seen]], requests between commit and answer
  mutex,    \* Supervisor.mu: a caller, or Free
  up,       \* the process has started its supervisor
  quota     \* what remains of MailBounds

mailVars == <<box, top, val, row, owner, docs, filed, ignored,
              watcher, calls, mutex, up, quota>>
server == <<box, top, val>>
archive == <<docs, filed, ignored>>
process == <<watcher, calls, mutex, up>>

Contents == {"email_and_files", "files_only"}
Selections == {"all", "files", "matching"}

-----------------------------------------------------------------------------
(* The intake policy.                                                      *)

(* ruleMatches: the populated criteria of a rule are the messages in crit. *)
RuleMatches(rule, m) ==
  /\ rule.content = "files_only" => m \in HasFiles
  /\ rule.selection = "files" => m \in HasFiles
  /\ rule.selection = "matching" => m \in rule.crit

(* evaluatePolicy: any rule that keeps the mail wins over files only.      *)
Content(policy, m) ==
  LET hit == {rule \in policy : RuleMatches(rule, m)}
  IN  IF \E rule \in hit : rule.content = "email_and_files" THEN "email_and_files"
      ELSE IF hit # {} THEN "files_only" ELSE ""

(* normalizeIntakeRule and NormalizeIntakePolicy: what a row may carry.    *)
ValidPolicy(policy) ==
  /\ policy # {} /\ Cardinality(policy) <= 20
  /\ \A rule \in policy :
       /\ rule.selection \in Selections /\ rule.content \in Contents
       /\ (rule.selection = "matching") <=> (rule.crit # Msgs)

-----------------------------------------------------------------------------
(* The row, and the part of it a watcher is started with.                  *)

Conf(r) == [src |-> r.src, policy |-> r.policy, tidy |-> r.tidy, secret |-> r.secret]

(* Sealed credentials are numbered as they are made; a revoked account     *)
(* keeps a placeholder.                                                    *)
Placeholder == 0

NewRow(src, policy, tidy, on) ==
  [on |-> on, src |-> src, policy |-> policy, tidy |-> tidy,
   secret |-> 1, uid |-> 0, val |-> 0]

(* cursorSourceChanged: another server, folder, account or horizon makes   *)
(* the cursor meaningless, a new credential for the same account does not. *)
CursorSourceChanged(r, new) ==
  r.src # new.src \/ (r.secret = Placeholder) # (new.secret = Placeholder)

(* Patch, inside its transaction.                                          *)
Patched(r, new) ==
  IF CursorSourceChanged(r, new) THEN [new EXCEPT !.uid = 0, !.val = 0] ELSE new

(* New: a watcher is built only for an enabled row whose owner is there.   *)
Started(r) ==
  [src |-> r.src, policy |-> r.policy, tidy |-> r.tidy, secret |-> r.secret,
   uid |-> r.uid, val |-> r.val, pc |-> "idle", cancelled |-> FALSE,
   last |-> 0, now |-> 0, todo |-> {}, batch |-> {}, done |-> {}, failed |-> {},
   missing |-> {}, book |-> {}, ok |-> TRUE, err |-> FALSE]

MailInit ==
  /\ box = [b \in Boxes |-> [u \in 1..MaxUid |-> NoMsg]]
  /\ top = [b \in Boxes |-> 0]
  /\ val = FirstVal
  /\ row = NoRow
  /\ owner = TRUE
  /\ docs = [m \in Msgs |-> "none"]
  /\ filed = {} /\ ignored = {}
  /\ watcher = NoWatcher
  /\ calls = [c \in Callers |-> [pc |-> IF c = Booter THEN "list" ELSE "idle", seen |-> NoRow]]
  /\ mutex = Free
  /\ up = TRUE
  /\ quota = MailBounds

MailSpend(what) == quota[what] > 0 /\ quota' = [quota EXCEPT ![what] = @ - 1]

-----------------------------------------------------------------------------
(* The mail server and its other clients.                                  *)

Deliver(b, m) ==
  /\ MailSpend("mails")
  /\ top[b] < MaxUid
  /\ \A c \in Boxes, u \in 1..MaxUid : box[c][u] # m
  /\ top' = [top EXCEPT ![b] = @ + 1]
  /\ box' = [box EXCEPT ![b][top[b] + 1] = m]
  /\ UNCHANGED <<val, row, owner, archive, process>>

Expunge(b, u) ==
  /\ MailSpend("mishaps")
  /\ box[b][u] # NoMsg
  /\ box' = [box EXCEPT ![b][u] = NoMsg]
  /\ UNCHANGED <<top, val, row, owner, archive, process>>

(* A new numbering: the mail that is there is counted again from one.      *)
Renumber(b) ==
  LET old == {u \in 1..MaxUid : box[b][u] # NoMsg}
      Rank(u) == Cardinality({v \in old : v <= u})
  IN  /\ MailSpend("mishaps")
      /\ val[b] < MaxVal
      /\ val' = [val EXCEPT ![b] = @ + 1]
      /\ top' = [top EXCEPT ![b] = Cardinality(old)]
      /\ box' = [box EXCEPT ![b] =
                   [u \in 1..MaxUid |-> IF \E v \in old : Rank(v) = u
                                        THEN box[b][CHOOSE v \in old : Rank(v) = u]
                                        ELSE NoMsg]]
      /\ UNCHANGED <<row, owner, archive, process>>

-----------------------------------------------------------------------------
(* Requests that change the row, each followed by a reload.                *)

NewSecret ==
  1 + Max({row.secret} \cup (IF watcher = NoWatcher THEN {} ELSE {watcher.secret})
          \cup {calls[c].seen.secret : c \in {d \in Callers : calls[d].seen # NoRow}})

(* The handler's transaction commits; its reload comes next.               *)
Reloading(c) ==
  /\ up
  /\ calls[c].pc = "idle"
  /\ calls' = [calls EXCEPT ![c].pc = "list"]

(* CreateEmailAccount: a cursor of zero, and a policy that was normalised. *)
CreateEmailAccount(c) ==
  /\ MailSpend("creates")
  /\ Reloading(c)
  /\ row = NoRow /\ owner
  /\ \E policy \in Policies, tidy \in Tidyings :
       /\ ValidPolicy(policy)
       /\ row' = NewRow(FirstSource, policy, tidy, TRUE)
  /\ UNCHANGED <<server, owner, archive, watcher, mutex, up>>

(* PatchEmailAccount and the sign-in that completes: any of the settings,  *)
(* authorized again inside the transaction.                                *)
PatchEmailAccount(c) ==
  /\ MailSpend("edits")
  /\ Reloading(c)
  /\ row # NoRow /\ owner
  /\ \E src \in Sources, policy \in Policies, tidy \in Tidyings, on \in BOOLEAN :
       /\ ValidPolicy(policy)
       /\ row' = Patched(row, [row EXCEPT !.src = src, !.policy = policy,
                                          !.tidy = tidy, !.on = on])
  /\ row' # row
  /\ UNCHANGED <<server, owner, archive, watcher, mutex, up>>

CompleteOAuth(c) ==
  /\ MailSpend("edits")
  /\ Reloading(c)
  /\ row # NoRow /\ owner
  /\ row' = Patched(row, [row EXCEPT !.secret = NewSecret, !.on = TRUE])
  /\ UNCHANGED <<server, owner, archive, watcher, mutex, up>>

(* RevokeEmailAccountOAuth clears the credential and switches the row off. *)
RevokeOAuth(c) ==
  /\ MailSpend("edits")
  /\ Reloading(c)
  /\ row # NoRow /\ owner
  /\ row.secret # Placeholder
  /\ row' = Patched(row, [row EXCEPT !.secret = Placeholder, !.on = FALSE])
  /\ UNCHANGED <<server, owner, archive, watcher, mutex, up>>

DeleteEmailAccount(c) ==
  /\ MailSpend("edits")
  /\ Reloading(c)
  /\ row # NoRow
  /\ row' = NoRow
  /\ UNCHANGED <<server, owner, archive, watcher, mutex, up>>

(* PatchUser: the owner is disabled or enabled again, the row stays.       *)
PatchOwner(c) ==
  /\ MailSpend("edits")
  /\ Reloading(c)
  /\ owner' = ~owner
  /\ UNCHANGED <<server, row, archive, watcher, mutex, up>>

(* PatchUser without the mailbox capability: DisableAllByOwner.            *)
RevokeCapability(c) ==
  /\ MailSpend("edits")
  /\ Reloading(c)
  /\ row # NoRow
  /\ row.on
  /\ row' = [row EXCEPT !.on = FALSE]
  /\ UNCHANGED <<server, owner, archive, watcher, mutex, up>>

(* Documents of mails are trashed, restored and purged like any other.     *)
TouchDocument(m) ==
  /\ MailSpend("mishaps")
  /\ \/ docs[m] = "live" /\ docs' = [docs EXCEPT ![m] = "trash"]
     \/ docs[m] = "trash" /\ docs' \in {[docs EXCEPT ![m] = "live"],
                                        [docs EXCEPT ![m] = "none"]}
  /\ UNCHANGED <<server, row, owner, filed, ignored, process>>

-----------------------------------------------------------------------------
(* Supervisor.Reload.                                                      *)

(* ListEnabled, before the mutex: enabled rows of usable owners.           *)
Listed == row # NoRow /\ row.on /\ owner

ReloadList(c) ==
  /\ calls[c].pc = "list"
  /\ calls' = [calls EXCEPT ![c] =
                 [pc |-> "lock", seen |-> IF Listed THEN row ELSE NoRow]]
  /\ UNCHANGED <<server, row, owner, archive, watcher, mutex, up, quota>>

(* The request is gone and its context with it: list_failed, only logged.  *)
ReloadLost(c) ==
  /\ quota["mishaps"] > 0 /\ quota["lost"] > 0
  /\ quota' = [quota EXCEPT !["mishaps"] = @ - 1, !["lost"] = @ - 1]
  /\ calls[c].pc = "list"
  /\ calls' = [calls EXCEPT ![c] = [pc |-> "idle", seen |-> NoRow]]
  /\ UNCHANGED <<server, row, owner, archive, watcher, mutex, up>>

OutdatedIfGone(seen) == watcher # NoWatcher /\ seen = NoRow

(* fingerprint: what the running watcher was started with.                 *)
Outdated(seen) ==
  watcher # NoWatcher /\ (seen = NoRow \/ Conf(seen) # Conf(watcher))

ReloadLock(c) ==
  /\ calls[c].pc = "lock"
  /\ mutex = Free
  /\ mutex' = c
  /\ calls' = [calls EXCEPT ![c].pc = "start"]
  /\ watcher' = IF Outdated(calls[c].seen) THEN [watcher EXCEPT !.cancelled = TRUE] ELSE watcher
  /\ UNCHANGED <<server, row, owner, archive, up, quota>>

(* The old watcher has drained: start one from the listed row.             *)
ReloadStart(c) ==
  /\ calls[c].pc = "start"
  /\ watcher # NoWatcher => ~watcher.cancelled
  /\ watcher' = IF watcher = NoWatcher /\ calls[c].seen # NoRow /\ owner
                THEN Started(calls[c].seen) ELSE watcher
  /\ mutex' = Free
  /\ calls' = [calls EXCEPT ![c] = [pc |-> "idle", seen |-> NoRow]]
  /\ UNCHANGED <<server, row, owner, archive, up, quota>>

(* A cancelled watcher returns at the next place it looks at its context.  *)
Drain ==
  /\ watcher # NoWatcher
  /\ watcher.cancelled
  /\ watcher' = NoWatcher
  /\ UNCHANGED <<server, row, owner, archive, calls, mutex, up, quota>>

(* stopAll at shutdown; requests that are in flight are not finished.      *)
Shutdown ==
  /\ MailSpend("mishaps")
  /\ up /\ mutex = Free
  /\ up' = FALSE
  /\ watcher' = IF watcher = NoWatcher THEN NoWatcher ELSE [watcher EXCEPT !.cancelled = TRUE]
  /\ calls' = [c \in Callers |-> [pc |-> "idle", seen |-> NoRow]]
  /\ UNCHANGED <<server, row, owner, archive, mutex>>

Crash ==
  /\ MailSpend("mishaps")
  /\ up
  /\ up' = FALSE
  /\ watcher' = NoWatcher
  /\ mutex' = Free
  /\ calls' = [c \in Callers |-> [pc |-> "idle", seen |-> NoRow]]
  /\ UNCHANGED <<server, row, owner, archive>>

(* Supervisor.Run seeds its set with a reload.                             *)
Boot ==
  /\ ~up /\ watcher = NoWatcher
  /\ up' = TRUE
  /\ calls' = [calls EXCEPT ![Booter].pc = "list"]
  /\ UNCHANGED <<server, row, owner, archive, watcher, mutex, quota>>

-----------------------------------------------------------------------------
(* The watcher.                                                            *)

Live(pc) == watcher # NoWatcher /\ watcher.pc = pc /\ ~watcher.cancelled
Ended == [watcher EXCEPT !.pc = "idle", !.todo = {}, !.batch = {}, !.done = {}, !.failed = {},
                         !.missing = {}, !.book = {}, !.ok = TRUE, !.err = FALSE,
                         !.last = 0, !.now = 0]

CycleFailedForGood == [Ended EXCEPT !.pc = "stopped"]

(* runCycle: a failed cycle is logged and recorded, the ticker goes on.    *)
CycleFailed == Ended

(* cycle up to the connection: a poll for a disabled owner does nothing, a *)
(* placeholder or a dead server ends it, a token may need to be refreshed. *)
Connect ==
  /\ Live("idle")
  /\ \/ /\ ~owner
        /\ watcher' = Ended
        /\ UNCHANGED quota
     \/ /\ owner
        /\ \/ /\ watcher.secret = Placeholder
              /\ watcher' = Ended
              /\ UNCHANGED quota
           \/ /\ MailSpend("mishaps")
              /\ watcher' = CycleFailed
           \/ /\ watcher.secret # Placeholder
              /\ MailSpend("mishaps")
              /\ watcher' = [watcher EXCEPT !.pc = "rotate"]
           \/ /\ watcher.secret # Placeholder
              /\ watcher' = [watcher EXCEPT !.pc = "search"]
              /\ UNCHANGED quota
  /\ UNCHANGED <<server, row, owner, archive, calls, mutex, up>>

(* The refreshed token cache is patched into the row, whatever it holds.   *)
Rotate ==
  /\ Live("rotate")
  /\ row' = IF row # NoRow /\ owner
            THEN [row EXCEPT !.secret = NewSecret] ELSE row
  /\ watcher' = [watcher EXCEPT !.pc = "search"]
  /\ UNCHANGED <<server, owner, archive, calls, mutex, up, quota>>

(* The cursor counts only under the UIDVALIDITY it was taken in.           *)
Since == IF watcher.val # 0 /\ watcher.val # val[BoxOf[watcher.src]] THEN 0 ELSE watcher.uid

Found(last) ==
  {u \in last + 1 .. MaxUid : box[BoxOf[watcher.src]][u] \in Horizon[watcher.src]}

FirstOf(uids) == {u \in uids : Cardinality({v \in uids : v <= u}) <= Batch}

(* Take the next chunk of the search result.                               *)
WithBatch(w, uids, last) ==
  [w EXCEPT !.pc = "fetch", !.last = last, !.batch = FirstOf(uids), !.todo = uids \ FirstOf(uids),
            !.done = {}, !.failed = {}, !.missing = {}, !.book = {}, !.ok = TRUE, !.err = FALSE]

(* UpdateUIDCursor names the row by its id and nothing else.               *)
UpdateUIDCursor(uid, validity) == [row EXCEPT !.uid = uid, !.val = validity]

(* SELECT and UID SEARCH.  An empty result only stamps the numbering.      *)
Search ==
  LET v == val[BoxOf[watcher.src]]
      uids == Found(Since)
  IN  /\ Live("search")
      /\ \/ /\ uids # {}
            /\ watcher' = [WithBatch(watcher, uids, Since) EXCEPT !.now = v]
            /\ UNCHANGED row
         \/ /\ uids = {} /\ (row # NoRow => watcher.val = v)
            /\ watcher' = Ended
            /\ UNCHANGED row
         \/ /\ uids = {} /\ watcher.val # v /\ row # NoRow
            /\ row' = UpdateUIDCursor(Since, v)
            /\ watcher' = [Ended EXCEPT !.uid = Since, !.val = v]
      /\ UNCHANGED <<server, owner, archive, calls, mutex, up, quota>>

(* importOne's transaction refuses an account that is no longer usable.    *)
MayImport == row # NoRow /\ row.on /\ owner

(* A message with an id is known wherever its document is, one without an  *)
(* id only by the bytes of a live document.                                *)
Known(m) == docs[m] = "live" \/ (m \notin Nameless /\ docs[m] = "trash")

Took(u, set) == [watcher EXCEPT !.batch = @ \ {u}, ![set] = @ \cup {u}]

(* One reply of the fetch: materialize and importOne.                      *)
FetchOne ==
  LET u == Min(watcher.batch)
      m == box[BoxOf[watcher.src]][u]
      content == Content(watcher.policy, m)
      stays == UNCHANGED <<archive, quota>>
  IN  /\ Live("fetch")
      /\ watcher.batch # {}
      /\ val[BoxOf[watcher.src]] = watcher.now
      /\ \/ /\ m = NoMsg /\ watcher' = Took(u, "missing") /\ stays
         \/ /\ m # NoMsg /\ m \in Big /\ watcher' = Took(u, "done") /\ stays
         \/ /\ m # NoMsg /\ m \notin Big
            /\ \/ /\ MailSpend("mishaps")
                  /\ watcher' = [Took(u, "failed") EXCEPT !.err = TRUE]
                  /\ UNCHANGED archive
               \/ /\ content = ""
                  /\ ignored' = ignored \cup {m}
                  /\ watcher' = Took(u, "done")
                  /\ UNCHANGED <<docs, filed, quota>>
               \/ /\ content # "" /\ ~MayImport
                  /\ watcher' = [Took(u, "failed") EXCEPT !.err = TRUE]
                  /\ stays
               \/ /\ content # "" /\ MayImport
                  /\ docs' = IF Known(m) THEN docs ELSE [docs EXCEPT ![m] = "live"]
                  /\ filed' = filed \cup {m}
                  /\ watcher' = [Took(u, "done") EXCEPT !.book = @ \cup {u}]
                  /\ UNCHANGED <<ignored, quota>>
      /\ UNCHANGED <<server, row, owner, calls, mutex, up>>

(* missingUIDs and partitionMissingUIDs: after the server's complaint that *)
(* messages are gone, a second search tells which are.                     *)
Rechecked(missing) ==
  LET present == {u \in missing : box[BoxOf[watcher.src]][u] # NoMsg}
  IN  [watcher EXCEPT !.batch = {}, !.missing = missing \ present,
                      !.failed = @ \cup present, !.err = @ \/ present # {}]

(* The fetch ends early: on a lost connection, where nothing is known of   *)
(* the rest, or with the answer that requested messages no longer exist.   *)
FetchBreaks ==
  /\ Live("fetch")
  /\ MailSpend("mishaps")
  /\ \/ watcher' = [watcher EXCEPT !.batch = {}, !.ok = FALSE, !.err = TRUE]
     \/ watcher' = Rechecked(watcher.missing \cup watcher.batch)
  /\ UNCHANGED <<server, row, owner, archive, calls, mutex, up>>

(* The numbering changed under an open connection: its session is dead.    *)
FetchStale ==
  /\ Live("fetch")
  /\ val[BoxOf[watcher.src]] # watcher.now
  /\ watcher.batch # {}
  /\ watcher' = [watcher EXCEPT !.batch = {}, !.ok = FALSE, !.err = TRUE]
  /\ UNCHANGED <<server, row, owner, archive, calls, mutex, up, quota>>

(* The batch is through: move or flag what was filed.                      *)
Tidy ==
  LET b == BoxOf[watcher.src]
      current == val[b] = watcher.now
  IN  /\ Live("fetch") /\ watcher.batch = {}
      /\ \/ /\ watcher.book # {} /\ watcher.tidy # "none"
            /\ MailSpend("mishaps") \/ (~current /\ UNCHANGED quota)
            /\ watcher' = [watcher EXCEPT !.pc = "mark", !.ok = FALSE, !.err = TRUE]
            /\ UNCHANGED server
         \/ /\ watcher.tidy = "move" /\ watcher.book # {} /\ current
            /\ box' = [box EXCEPT ![b] =
                         [u \in 1..MaxUid |-> IF u \in watcher.book THEN NoMsg ELSE box[b][u]]]
            /\ watcher' = [watcher EXCEPT !.pc = "mark"]
            /\ UNCHANGED <<top, val, quota>>
         \/ /\ watcher.tidy # "move" \/ watcher.book = {}
            /\ current \/ watcher.tidy = "none" \/ watcher.book = {}
            /\ watcher' = [watcher EXCEPT !.pc = "mark"]
            /\ UNCHANGED <<server, quota>>
      /\ UNCHANGED <<row, owner, archive, calls, mutex, up>>

NextUIDCheckpointUnwalled(last, passed, failed, complete) ==
  IF ~complete THEN last ELSE Max(passed \cup {last})

(* nextUIDCheckpoint: the highest UID that may be passed, stopped in front *)
(* of the first failure and left alone after an incomplete batch.          *)
NextUIDCheckpoint(last, passed, failed, complete) ==
  LET next == Max(passed \cup {last})
      wall == IF failed = {} THEN next ELSE Min(failed) - 1
  IN  IF ~complete THEN last ELSE Max({wall, last})

(* The end of fetchBatch: persist the cursor, then the next batch, the end *)
(* of the cycle, or its failure.  A write that fails leaves the copy too.  *)
Mark ==
  LET next == NextUIDCheckpoint(watcher.last, watcher.done \cup watcher.missing,
                                watcher.failed, watcher.ok)
      due == next > watcher.last \/ watcher.val # watcher.now
      w == IF due THEN [watcher EXCEPT !.uid = next, !.val = watcher.now] ELSE watcher
  IN  /\ Live("mark")
      /\ \/ /\ due
            /\ (row = NoRow /\ UNCHANGED quota) \/ MailSpend("mishaps")
            /\ watcher' = Ended
            /\ UNCHANGED row
         \/ /\ due => row # NoRow
            /\ row' = IF due THEN UpdateUIDCursor(next, watcher.now) ELSE row
            /\ watcher' = IF watcher.err \/ watcher.todo = {}
                          THEN [Ended EXCEPT !.uid = w.uid, !.val = w.val]
                          ELSE WithBatch(w, watcher.todo, w.uid)
            /\ UNCHANGED quota
      /\ UNCHANGED <<server, owner, archive, calls, mutex, up>>

-----------------------------------------------------------------------------
AccountRequests(c) ==
  \/ CreateEmailAccount(c) \/ PatchEmailAccount(c) \/ CompleteOAuth(c) \/ RevokeOAuth(c)
  \/ DeleteEmailAccount(c) \/ PatchOwner(c) \/ RevokeCapability(c)

Reload(c) == ReloadList(c) \/ ReloadLock(c) \/ ReloadStart(c)

Poll == Connect \/ Rotate \/ Search \/ FetchOne \/ FetchStale \/ Tidy \/ Mark

World ==
  \/ \E b \in Boxes :
       \/ \E m \in Msgs : Deliver(b, m)
       \/ \E u \in 1..MaxUid : Expunge(b, u)
       \/ Renumber(b)
  \/ \E m \in Msgs : TouchDocument(m)

MailNext ==
  \/ World
  \/ \E c \in Callers : AccountRequests(c) \/ Reload(c) \/ ReloadLost(c)
  \/ Poll \/ FetchBreaks \/ Drain
  \/ Shutdown \/ Crash \/ Boot

MailSpec == MailInit /\ [][MailNext]_mailVars

(* The ticker keeps polling and handlers run to their end.                 *)
MailFairSpec ==
  /\ MailSpec
  /\ WF_mailVars(Poll) /\ WF_mailVars(Drain) /\ WF_mailVars(Boot)
  /\ \A c \in Callers : WF_mailVars(Reload(c))

-----------------------------------------------------------------------------
TypeOK ==
  /\ box \in [Boxes -> [1..MaxUid -> Msgs \cup {NoMsg}]]
  /\ top \in [Boxes -> 0..MaxUid] /\ val \in [Boxes -> 1..MaxVal]
  /\ row \in Rows \cup {NoRow} /\ watcher \in Watchers \cup {NoWatcher}
  /\ owner \in BOOLEAN /\ up \in BOOLEAN
  /\ docs \in [Msgs -> {"none", "live", "trash"}]
  /\ filed \subseteq Msgs /\ ignored \subseteq Msgs
  /\ calls \in [Callers -> [pc : {"idle", "list", "lock", "start"}, seen : Rows \cup {NoRow}]]
  /\ mutex \in Callers \cup {Free}
  /\ quota \in [{"mails", "creates", "edits", "mishaps", "lost"} -> Nat]

(* A cursor passes only messages that were dealt with: filed, left out by  *)
(* the policy of the day, or skipped with a notice as too large.  It holds *)
(* for the row and for the watcher's copy, whatever failed, vanished, was  *)
(* renumbered, reloaded or lost on the way.                                *)
Passed(cursor) ==
  {box[BoxOf[cursor.src]][u] : u \in 1..cursor.uid} \cap Horizon[cursor.src]

Dealt(cursor) ==
  cursor.val = val[BoxOf[cursor.src]] => Passed(cursor) \subseteq filed \cup ignored \cup Big

NothingPassedOver ==
  /\ row # NoRow => Dealt(row)
  /\ watcher # NoWatcher => Dealt(watcher)

(* supervisor.go: after every write and its Reload the running set matches *)
(* the table: once no request is in flight there is a watcher exactly for  *)
(* an enabled row with a usable owner, and it has the row's settings.  A   *)
(* reload whose request went away is only logged and does not count.       *)
Quiet == up /\ \A c \in Callers : calls[c].pc = "idle"

NoReloadLost == quota["lost"] = MailBounds["lost"]

RunningMatchesRow ==
  Quiet /\ NoReloadLost =>
    /\ watcher # NoWatcher =>
         /\ Listed
         /\ watcher.src = row.src /\ watcher.policy = row.policy /\ watcher.tidy = row.tidy
    /\ Listed => watcher # NoWatcher

(* A message that the policy accepts and that stays where the account      *)
(* looks is filed in the end, as long as faults and edits come to an end.  *)
Waiting(m) ==
  /\ NoReloadLost
  /\ row # NoRow /\ row.on /\ owner /\ row.secret # Placeholder
  /\ m \in Horizon[row.src] \ Big
  /\ \E u \in 1..MaxUid : box[BoxOf[row.src]][u] = m
  /\ Content(row.policy, m) # ""

EventuallyFiled ==
  \A m \in Msgs : Waiting(m) ~> (m \in filed \cup ignored \/ ~Waiting(m))
=============================================================================
