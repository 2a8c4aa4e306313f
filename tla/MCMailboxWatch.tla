--------------------------- MODULE MCMailboxWatch ---------------------------
(* Small instances of MailboxWatch.                                        *)
EXTENDS MailboxWatch

CONSTANTS inbox, bills, atInbox, atBills, m1, m2, m3, m4

TwoFolders == [s \in {atInbox, atBills} |-> IF s = atInbox THEN inbox ELSE bills]
Everything == [s \in {atInbox, atBills} |-> {m1, m2, m3, m4}]
OwnNumbering == [b \in {inbox, bills} |-> IF b = inbox THEN 1 ELSE 3]

Rule(selection, content, crit) == [selection |-> selection, content |-> content, crit |-> crit]
KeepSome == {Rule("files", "files_only", {m1, m2, m3, m4}), Rule("matching", "email_and_files", {m3})}
OnePolicy == {KeepSome}

PollBounds == [mails |-> 2, creates |-> 1, edits |-> 1, mishaps |-> 1, lost |-> 1]

(* What the theorems about the mailbox assume beyond the module.           *)
ASSUME HypothesesAssumption == OwnNumberings /\ Callers = {Booter}
=============================================================================
