---------------------------- MODULE MCPostIngest ----------------------------
EXTENDS PostIngest

MCIds == 1..4
MCJobIds == 1..4
Bytes(what, pw, scan, native, mid, parts) ==
  [what |-> what, pw |-> pw, scan |-> scan, native |-> native, mid |-> mid, parts |-> parts, inline |-> {6}]

\* 1, 2: the same message twice; 3, 4: its attachments; 5: an encrypted PDF with a label; others: one of each
\* format.
MCFile == <<Bytes("mail", 0, 0, TRUE, 1, <<3, 6, 4>>), Bytes("mail", 0, 0, TRUE, 1, <<3>>),
            Bytes("pdf", 0, 1, FALSE, 0, <<>>), Bytes("text", 0, 0, TRUE, 0, <<>>),
            Bytes("pdf", 1, 1, FALSE, 0, <<>>), Bytes("image", 0, 0, FALSE, 0, <<>>),
            Bytes("djvu", 0, 0, FALSE, 0, <<>>), Bytes("office", 0, 0, FALSE, 0, <<>>),
            Bytes("msg", 0, 0, TRUE, 2, <<4>>), Bytes("pdf", 0, 2, TRUE, 0, <<>>)>>

Nothing == [arrive |-> 0, trash |-> 0, purge |-> 0, unlock |-> 0, asn |-> 0, boot |-> 0, tool |-> 0,
            bad |-> 0, rescan |-> 0, forget |-> 0, file |-> 0, classify |-> 0]

Doc(b) == [Blank EXCEPT !.st = "live", !.bytes = b, !.owner = "u"]
Job(n, d, files) == [n |-> n, doc |-> d, files |-> files, tries |-> Attempts, st |-> "pending"]
Archive(ds) == [d \in MCIds |-> IF d \in DOMAIN ds THEN ds[d] ELSE Blank]
Plain == [asn |-> FALSE, hook |-> FALSE, engine |-> "tesseract"]
Release(now, content, llm) ==
  [now |-> now, rec |-> [k \in Kinds |-> IF k = "llm" THEN llm ELSE content]]
First == [now |-> 1, rec |-> [k \in Kinds |-> 0], may |-> {Release(1, 0, 0)}]
\* Restarted, upgraded with both revisions recommended, and with an older recommendation.
Later == [First EXCEPT !.may = {Release(1, 1, 0), Release(2, 2, 2), Release(2, 1, 0)}]
Read(d) == [d EXCEPT !.text = "server", !.ver = [k \in Kinds |-> 1]]

\* Mail: only the files wanted or not, twice the same message, failures and a crash.
MailStarts ==
  {[docs |-> Archive(<<Doc(1)>>), jobs |-> {Job(1, 1, f)}, opts |-> Plain, rel |-> First,
    left |-> [Nothing EXCEPT ![w] = 1, !.boot = 1, !.tool = 1]] :
    f \in BOOLEAN, w \in {"trash", "bad"}}
  \cup
  {[docs |-> Archive(<<Doc(2), Read(Doc(1))>>), jobs |-> {Job(1, 1, FALSE)}, opts |-> Plain, rel |-> First,
    left |-> [Nothing EXCEPT !.trash = 1, !.purge = 1, !.rescan = 1]],
   [docs |-> Archive(<<Doc(2)>>), jobs |-> {Job(1, 1, TRUE)}, opts |-> Plain, rel |-> First,
    left |-> [Nothing EXCEPT !.arrive = 1, !.trash = 1, !.purge = 1]]}

\* Passwords and labels.
PDFStarts ==
  {[docs |-> Archive(<<Doc(5), [Doc(3) EXCEPT !.text = "device"]>>), jobs |-> {Job(1, 1, FALSE), Job(2, 2, FALSE)},
    opts |-> [asn |-> a, hook |-> a, engine |-> "ocrmypdf"], rel |-> First,
    left |-> [Nothing EXCEPT !.unlock = 1, ![w] = 1, ![x] = 1]] :
    a \in BOOLEAN, w \in {"asn", "trash", "file"}, x \in {"forget", "tool", "rescan"}}

\* Proposals.
RescanStarts ==
  {[docs |-> Archive(<<Read(Doc(3)), [Read(Doc(5)) EXCEPT !.enc = e]>>), jobs |-> {}, opts |-> Plain,
    rel |-> Later, left |-> [Nothing EXCEPT !.boot = 2]] : e \in {"decrypted", "encrypted"}}
  \cup
  {[docs |-> Archive(<<Read(Doc(4))>>), jobs |-> {}, opts |-> Plain, rel |-> Later,
    left |-> [Nothing EXCEPT !.boot = 3, !.classify = 1]]}

FormatStarts ==
  {[docs |-> Archive(<<Doc(b)>>), jobs |-> {Job(1, 1, TRUE)}, opts |-> Plain, rel |-> First,
    left |-> [Nothing EXCEPT !.tool = 1, !.trash = 1]] : b \in 6..10}

MCStarts == FormatStarts \cup MailStarts \cup PDFStarts \cup RescanStarts
=============================================================================
