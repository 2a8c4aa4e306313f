------------------------------ MODULE Taxonomy ------------------------------
(***************************************************************************)
(* What documents are filed under: correspondents, tags and their tree,    *)
(* folder layouts, custom fields and the filing tree, with the requests of *)
(* administrators that create, rename, merge and delete them.              *)
(*                                                                         *)
(* A document's path in the rendered view is made from these rows, so a    *)
(* request that changes one owes a render job to every live document that  *)
(* reads it.  The path is kept here as what it is made from.               *)
(*                                                                         *)
(* Every request ends in one write transaction.  Four kinds read first,    *)
(* outside of it, and act later on what they read: setting a tag's parent, *)
(* merging two names, storing a custom field value, and changing the       *)
(* filing tree after a preview.  Those are in flight between the two.      *)
(*                                                                         *)
(* Rows are numbered as SQLite numbers them: one more than the largest     *)
(* number in use, so that the number of a deleted row comes back.          *)
(***************************************************************************)
EXTENDS Integers, FiniteSets, Sequences, SequencesExt, TLC

CONSTANTS
  DocIds,      \* documents of the archive
  Ids,         \* 1..n: numbers rows can get
  Names,       \* names people give
  Templates,   \* folder layouts people write: sets of variables
  Rules,       \* automations
  Codes,       \* categories of the filing tree that can exist, Inbox included
  Inbox,
  FilingSets,  \* built-in sets: [name |-> [lane, cats, keys]]
  MaxFilingSets,
  SystemCodes, \* codes archives can be given
  Options,     \* choices of a select field
  Starts       \* archives to start from

None == 0
NoName == "-"
Kinds == {"corr", "tag", "layout"}
Types == {"text", "number", "select", "link"}
NoField == [type |-> "none", choices |-> {}]
NoValue == [col |-> "none", v |-> NoName]
InboxOnly == [c \in Codes |-> IF c = Inbox THEN "Inbox" ELSE NoName]

\* Variables a template can read, and what is kept of a document and an archive.
Variables == {"title", "correspondent", "tag_list", "storage_path", "asn", "category", "system"}

Documents ==
  [live: BOOLEAN, title: Names, cat: Codes, layout: Ids \cup {None}, asn: BOOLEAN,
   senders: Seq(Ids), tags: SUBSET Ids, mach: SUBSET Ids]

Systems ==
  [code: SystemCodes \cup {NoName}, name: Names \cup SystemCodes, mode: {"jd", "flat"},
   sets: SUBSET DOMAIN FilingSets]

\* SetTagParent gives up its walk after this many tags.
MaxHops == 128

ASSUME TaxonomyAssumption ==
  /\ Inbox \in Codes
  /\ NoName \notin Names
  /\ \E n \in 0..MaxHops : Ids = 1..n
  /\ Templates \subseteq SUBSET Variables
  /\ \A s \in DOMAIN FilingSets : DOMAIN FilingSets[s].cats \subseteq Codes \ {Inbox}

\* What an archive refers to exists, a document lists a sender once, and no
\* tag has a parent yet.
ASSUME StartsAssumption ==
  \A s \in Starts :
    /\ s.row \in [Kinds -> [Ids -> Names \cup {NoName}]]
    /\ s.parent = [i \in Ids |-> None]
    /\ s.uses \in [Ids -> SUBSET Variables]
    /\ s.system \in Systems
    /\ s.rules \in [Rules -> [Kinds -> Ids \cup {None}]]
    /\ \A r \in Rules, k \in Kinds : s.rules[r][k] # None => s.row[k][s.rules[r][k]] # NoName
    /\ s.doc \in [DocIds -> Documents]
    /\ \A d \in DocIds :
         /\ IsInjective(s.doc[d].senders)
         /\ \A c \in Range(s.doc[d].senders) : s.row["corr"][c] # NoName
         /\ \A t \in s.doc[d].tags : s.row["tag"][t] # NoName
         /\ s.doc[d].layout # None => s.row["layout"][s.doc[d].layout] # NoName

VARIABLES
  row,        \* [Kinds -> [Ids -> name or NoName]]
  parent,     \* [Ids -> the tag's parent or None]
  uses,       \* [Ids -> variables the layout's template reads]
  doc,        \* [DocIds -> [live, title, cat, layout, asn, senders, tags, mach]]
  rules,      \* [Rules -> [tag, corr, layout]]: what an automation refers to
  meant,      \* [Rules -> [tag, corr, layout]]: names of what its author chose
  field,      \* the archive's custom field
  value,      \* [DocIds -> value of that field]
  categories, \* [Codes -> name or NoName]
  system,     \* [code, name, mode, sets]; code NoName until systems are introduced
  others,     \* codes of further systems
  moves,      \* documents with a render job
  shown,      \* [DocIds -> what the link's path was made from]
  flight,     \* requests that have read and not yet written
  crossed,    \* two changes of the tag tree overlapped
  left        \* how many requests of each kind may still come

taxVars == <<row, parent, uses, doc, rules, meant, field, value, categories, system, others, moves,
             shown, flight, crossed, left>>
names == <<row, parent, uses, rules, meant>>
fields == <<field, value>>
filing == <<categories, system, others>>

Spend(what) == left[what] > 0 /\ left' = [left EXCEPT ![what] = @ - 1]

----------------------------------------------------------------------------
(* Paths *)

\* Template when the document has no layout: by category, or by sender.
DefaultTemplate ==
  IF system.mode = "flat" THEN {"correspondent", "title"} ELSE {"category", "title"}

TemplateOf(d) == IF doc[d].layout = None THEN DefaultTemplate ELSE uses[doc[d].layout]

\* Primary sender: the first by position.
Primary(d) == IF doc[d].senders = <<>> THEN NoName ELSE row["corr"][Head(doc[d].senders)]

\* What a variable stands for in the path of a document.
ValueOf(v, d) ==
  CASE v = "title" -> doc[d].title
    [] v = "correspondent" -> Primary(d)
    [] v = "tag_list" -> {row["tag"][t] : t \in doc[d].tags}
    [] v = "storage_path" -> row["layout"][doc[d].layout]
    [] v = "asn" -> doc[d].asn
    [] v = "category" -> <<doc[d].cat, categories[doc[d].cat]>>
    [] v = "system" -> system.name

PathOf(d) == {<<v, ValueOf(v, d)>> : v \in TemplateOf(d)}

LiveIn(ds) == {d \in ds : doc[d].live}

\* EnqueueMove: a trashed document gets no job.
EnqueueMoves(ds) == moves' = moves \cup LiveIn(ds)

\* Mutant: documents without a layout are taken not to read it.
TemplateMovesOfLayouts(v, ds) ==
  moves \cup {d \in LiveIn(ds) : doc[d].layout # None /\ v \in uses[doc[d].layout]}

\* EnqueueTemplateMoves: live documents whose template reads the variable.
TemplateMoves(v, ds) == moves \cup {d \in LiveIn(ds) : v \in TemplateOf(d)}

EnqueueTemplateMoves(v, ds) == moves' = TemplateMoves(v, ds)

\* The renderer takes a job; RenderedView models how.
Render(d) ==
  /\ d \in moves
  /\ moves' = moves \ {d}
  /\ shown' = IF doc[d].live THEN [shown EXCEPT ![d] = PathOf(d)] ELSE shown
  /\ UNCHANGED <<names, doc, fields, filing, flight, crossed, left>>

----------------------------------------------------------------------------
(* Rows with names *)

Rows(k) == {i \in Ids : row[k][i] # NoName}
FreeName(k, n) == \A i \in Ids : row[k][i] # n
NextId(k) == 1 + (IF Rows(k) = {} THEN 0 ELSE CHOOSE m \in Rows(k) : \A i \in Rows(k) : i <= m)
Senders(c) == {d \in DocIds : c \in Range(doc[d].senders)}
Tagged(t) == {d \in DocIds : t \in doc[d].tags}
LaidOut(l) == {d \in DocIds : doc[d].layout = l}
\* A document lists a sender once.
Position(s, x) == CHOOSE p \in DOMAIN s : s[p] = x
Without(s, x) == IF x \in Range(s) THEN RemoveAt(s, Position(s, x)) ELSE s
\* Automations that refer to a row.
Assigning(k, i) == {r \in Rules : rules[r][k] = i}

\* taxonomyCreate and CreateTag: name and slug are unique in the archive.
Create(k, n) ==
  /\ Spend("names")
  /\ NextId(k) \in Ids
  /\ FreeName(k, n)
  /\ row' = [row EXCEPT ![k][NextId(k)] = n]
  /\ UNCHANGED <<parent, rules, meant, doc, fields, filing, moves, shown, flight, crossed>>

CreateCorrespondent(n) == Create("corr", n) /\ UNCHANGED uses
CreateTag(n) == Create("tag", n) /\ UNCHANGED uses
CreateLayout(n, tpl) ==
  Create("layout", n) /\ uses' = [uses EXCEPT ![NextId("layout")] = tpl]

Rename(k, i, n) ==
  /\ Spend("names")
  /\ i \in Rows(k)
  /\ FreeName(k, n)
  /\ row' = [row EXCEPT ![k][i] = n]
  /\ UNCHANGED <<parent, rules, meant, fields, filing, shown, flight, crossed>>

\* taxonomyUpdate for correspondents: every document with this sender.
UpdateCorrespondent(c, n) ==
  /\ Rename("corr", c, n)
  /\ EnqueueTemplateMoves("correspondent", Senders(c))
  /\ UNCHANGED <<uses, doc>>

\* UpdateTag: a person has named it, so the classifier owns it nowhere.
UpdateTag(t, n) ==
  /\ Rename("tag", t, n)
  /\ doc' = [d \in DocIds |-> [doc[d] EXCEPT !.mach = @ \ {t}]]
  /\ EnqueueTemplateMoves("tag_list", Tagged(t))
  /\ UNCHANGED uses

\* taxonomyUpdate for layouts, name only: read by templates that print it.
RenameLayout(l, n) ==
  /\ Rename("layout", l, n)
  /\ moves' = moves \cup (IF "storage_path" \in uses[l] THEN LiveIn(LaidOut(l)) ELSE {})
  /\ UNCHANGED <<uses, doc>>

\* The same with a path.  Documents without a number keep a layout that asks for one.
UpdateLayout(l, tpl) ==
  /\ Spend("names")
  /\ l \in Rows("layout")
  /\ tpl # uses[l]
  /\ uses' = [uses EXCEPT ![l] = tpl]
  /\ EnqueueMoves(LaidOut(l))
  /\ UNCHANGED <<row, parent, rules, meant, doc, fields, filing, shown, flight, crossed>>

\* taxonomyDelete for correspondents: jobs first, the sender links fall with the row.
DeleteCorrespondent(c) ==
  /\ Spend("names")
  /\ c \in Rows("corr")
  /\ EnqueueTemplateMoves("correspondent", Senders(c))
  /\ row' = [row EXCEPT !["corr"][c] = NoName]
  /\ doc' = [d \in DocIds |-> [doc[d] EXCEPT !.senders = Without(@, c)]]
  /\ meant' = [r \in Rules |->
       IF r \in Assigning("corr", c) THEN [meant[r] EXCEPT !.corr = NoName] ELSE meant[r]]
  /\ UNCHANGED <<parent, uses, rules, fields, filing, shown, flight, crossed>>

\* DeleteTag and DeleteTags: all of them exist; children become roots.
DeleteTags(ts) ==
  /\ Spend("names")
  /\ ts # {} /\ ts \subseteq Rows("tag")
  /\ moves' = TemplateMoves("tag_list", UNION {Tagged(t) : t \in ts})
  /\ row' = [row EXCEPT !["tag"] = [i \in Ids |-> IF i \in ts THEN NoName ELSE @[i]]]
  /\ parent' = [i \in Ids |-> IF i \in ts \/ parent[i] \in ts THEN None ELSE parent[i]]
  /\ doc' = [d \in DocIds |-> [doc[d] EXCEPT !.tags = @ \ ts, !.mach = @ \ ts]]
  /\ meant' = [r \in Rules |->
       IF rules[r].tag \in ts THEN [meant[r] EXCEPT !.tag = NoName] ELSE meant[r]]
  /\ UNCHANGED <<uses, rules, fields, filing, shown, flight, crossed>>

\* taxonomyDelete for layouts: refused while an automation assigns it; its
\* documents fall back to the default template.
DeleteLayout(l) ==
  /\ Spend("names")
  /\ l \in Rows("layout")
  /\ Assigning("layout", l) = {}
  /\ row' = [row EXCEPT !["layout"][l] = NoName]
  /\ uses' = [uses EXCEPT ![l] = {}]
  /\ doc' = [d \in DocIds |-> [doc[d] EXCEPT !.layout = IF @ = l THEN None ELSE @]]
  /\ EnqueueMoves(LaidOut(l))
  /\ UNCHANGED <<parent, rules, meant, fields, filing, shown, flight, crossed>>

\* Saving an automation checks in its transaction that what it names exists.
SaveRule(r, k, i) ==
  /\ Spend("rules")
  /\ i \in Rows(k)
  /\ rules' = [rules EXCEPT ![r][k] = i]
  /\ meant' = [meant EXCEPT ![r][k] = row[k][i]]
  /\ UNCHANGED <<row, parent, uses, doc, fields, filing, moves, shown, flight, crossed>>

----------------------------------------------------------------------------
(* Merging two names *)

\* Merge looks both names up before its transaction.
BeginMerge(k, i, j) ==
  /\ Spend("merge")
  /\ i \in Rows(k) /\ j \in Rows(k) /\ i # j
  /\ flight' = flight \cup {[op |-> "merge", kind |-> k, from |-> i, into |-> j]}
  /\ UNCHANGED <<names, doc, fields, filing, moves, shown, crossed>>

\* The source's links handed to the target.
Renamed(s, i, j) == [n \in DOMAIN s |-> IF s[n] = i THEN j ELSE s[n]]

\* mergeCorrespondent: the target takes the better of the two positions.
Merged(s, i, j) ==
  IF i \notin Range(s) THEN s
  ELSE IF j \in Range(s) /\ Position(s, j) < Position(s, i) THEN Without(s, i)
  ELSE Renamed(Without(s, j), i, j)

MergedDoc(d, k, i, j) ==
  IF k = "corr" THEN [doc[d] EXCEPT !.senders = Merged(@, i, j)]
  ELSE IF i \notin doc[d].tags THEN doc[d]
  ELSE [doc[d] EXCEPT !.tags = (@ \ {i}) \cup {j}, !.mach = @ \ {i, j}]

\* Mutant: automations are left alone.
RulesAsTheyAre(k, i, j) == rules

\* rewriteAutomationReferences: triggers and actions follow the merge.
RewrittenRules(k, i, j) ==
  [r \in Rules |-> IF rules[r][k] = i THEN [rules[r] EXCEPT ![k] = j] ELSE rules[r]]

MergePossible(f) == {f.from, f.into} \subseteq Rows(f.kind)

CommitMerge(f) ==
  /\ f \in flight /\ f.op = "merge"
  /\ MergePossible(f)
  /\ LET k == f.kind
         affected == IF k = "corr" THEN Senders(f.from) ELSE Tagged(f.from)
     IN  /\ doc' = [d \in DocIds |-> MergedDoc(d, k, f.from, f.into)]
         /\ EnqueueMoves(affected)
         /\ rules' = RewrittenRules(k, f.from, f.into)
         /\ meant' = [r \in Rules |-> IF rules[r][k] = f.from /\ meant[r][k] # NoName
                                      THEN [meant[r] EXCEPT ![k] = row[k][f.into]] ELSE meant[r]]
         /\ row' = [row EXCEPT ![k][f.from] = NoName]
         /\ parent' = IF k # "tag" THEN parent
                      ELSE [i \in Ids |-> IF i = f.from \/ parent[i] = f.from THEN None ELSE parent[i]]
  /\ flight' = flight \ {f}
  /\ UNCHANGED <<uses, fields, filing, shown, crossed, left>>

RefuseMerge(f) ==
  /\ f \in flight /\ f.op = "merge"
  /\ ~MergePossible(f)
  /\ flight' = flight \ {f}
  /\ UNCHANGED <<names, doc, fields, filing, moves, shown, crossed, left>>

----------------------------------------------------------------------------
(* The tag tree *)

\* Tags on the way up from t, t included: what every set with t in it that
\* is closed under taking the parent holds.  There are at most MaxHops.
Closed(ts) == \A x \in ts : parent[x] # None => parent[x] \in ts
Lineage(t) == {x \in Ids : \A ts \in SUBSET Ids : t \in ts /\ Closed(ts) => x \in ts}

\* Mutant: looks at the new parent's own parent only.
ParentCycles(t, p) == parent[p] = t

\* The walk of SetTagParent from the new parent meets the tag.
WouldCycle(t, p) == t \in Lineage(p)

\* SetTagParent walks up from the new parent, outside of the transaction.
CheckTagParent(t, p) ==
  /\ Spend("tree")
  /\ t \in Rows("tag") /\ p \in Rows("tag") \cup {None}
  /\ p # t
  /\ (p # None => ~WouldCycle(t, p))
  /\ flight' = flight \cup {[op |-> "parent", tag |-> t, to |-> p]}
  /\ UNCHANGED <<names, doc, fields, filing, moves, shown, crossed>>

ParentPossible(f) == f.tag \in Rows("tag") /\ f.to \in Rows("tag") \cup {None}

\* The transaction checks again only that both exist.
SetTagParent(f) ==
  /\ f \in flight /\ f.op = "parent"
  /\ ParentPossible(f)
  /\ parent' = [parent EXCEPT ![f.tag] = f.to]
  /\ crossed' = (crossed \/ \E g \in flight \ {f} : g.op = "parent")
  /\ flight' = flight \ {f}
  /\ UNCHANGED <<row, uses, rules, meant, doc, fields, filing, moves, shown, left>>

RefuseTagParent(f) ==
  /\ f \in flight /\ f.op = "parent"
  /\ ~ParentPossible(f)
  /\ flight' = flight \ {f}
  /\ UNCHANGED <<names, doc, fields, filing, moves, shown, crossed, left>>

----------------------------------------------------------------------------
(* Documents *)

\* A layout that prints the number may be given only to documents with one.
NeedsNumber(l) == l # None /\ "asn" \in uses[l]

\* reconcileClassifierReview: after an edit the classifier's review mark goes.
ReviewTag == 1
Reviewed(r) ==
  IF ReviewTag \in r.mach THEN [r EXCEPT !.tags = @ \ {ReviewTag}, !.mach = @ \ {ReviewTag}] ELSE r

\* edited: [ds -> the record after the edit]; moved: those whose path may change.
EditDocs(ds, edited, moved) ==
  /\ Spend("docs")
  /\ doc' = [d \in DocIds |-> IF d \in ds THEN Reviewed(edited[d]) ELSE doc[d]]
  /\ EnqueueMoves(moved \cup {d \in ds : ReviewTag \in edited[d].mach})
  /\ UNCHANGED <<names, fields, filing, shown, flight, crossed>>

\* PatchDocument: title, category, layout.  The layout in force is checked
\* against the number in force, whatever the request changes.
PatchPossible(d, l, asn) == NeedsNumber(l) => asn

PatchTitle(d, n) ==
  /\ PatchPossible(d, doc[d].layout, doc[d].asn)
  /\ EditDocs({d}, [x \in {d} |-> [doc[x] EXCEPT !.title = n]], {d})

PatchCategory(d, c) ==
  /\ categories[c] # NoName
  /\ PatchPossible(d, doc[d].layout, doc[d].asn)
  /\ EditDocs({d}, [x \in {d} |-> [doc[x] EXCEPT !.cat = c]], {d})

PatchLayout(d, l) ==
  /\ l \in Rows("layout") \cup {None}
  /\ PatchPossible(d, l, doc[d].asn)
  /\ EditDocs({d}, [x \in {d} |-> [doc[x] EXCEPT !.layout = l]], {d})

\* A number is given to live documents only; the path moves if it prints it.
PatchNumber(d, given) ==
  /\ given # doc[d].asn
  /\ given => doc[d].live
  /\ PatchPossible(d, doc[d].layout, given)
  /\ EditDocs({d}, [x \in {d} |-> [doc[x] EXCEPT !.asn = given]],
       IF NeedsNumber(doc[d].layout) THEN {d} ELSE {})

\* BulkEdit, all documents or none; those that change get a job.
BulkLayout(ds, l) ==
  /\ l \in Rows("layout") \cup {None}
  /\ NeedsNumber(l) => \A d \in ds : doc[d].asn
  /\ EditDocs(ds, [x \in ds |-> [doc[x] EXCEPT !.layout = l]], {d \in ds : doc[d].layout # l})

BulkCategory(ds, c) ==
  /\ categories[c] # NoName
  /\ EditDocs(ds, [x \in ds |-> [doc[x] EXCEPT !.cat = c]], {d \in ds : doc[d].cat # c})

\* SetPrimaryCorrespondent puts the sender first; None clears them all.
BulkCorrespondent(ds, c) ==
  /\ c \in Rows("corr") \cup {None}
  /\ EditDocs(ds,
       [x \in ds |-> [doc[x] EXCEPT !.senders = IF c = None THEN <<>> ELSE <<c>> \o Without(@, c)]],
       {d \in ds : IF c = None THEN doc[d].senders # <<>>
                   ELSE doc[d].senders = <<>> \/ Head(doc[d].senders) # c})

BulkAddTag(ds, t) ==
  /\ t \in Rows("tag")
  /\ EditDocs(ds, [x \in ds |-> [doc[x] EXCEPT !.tags = @ \cup {t}, !.mach = @ \ {t}]],
       {d \in ds : t \notin doc[d].tags})

BulkRemoveTag(ds, t) ==
  /\ t \in Rows("tag")
  /\ EditDocs(ds, [x \in ds |-> [doc[x] EXCEPT !.tags = @ \ {t}, !.mach = @ \ {t}]],
       {d \in ds : t \in doc[d].tags})

\* AddDocCorrespondent: UpsertByName finds the name or makes a row of it.
IdOf(n) == IF FreeName("corr", n) THEN NextId("corr")
           ELSE CHOOSE c \in Rows("corr") : row["corr"][c] = n

AddDocCorrespondent(d, n) ==
  /\ Spend("docs")
  /\ doc[d].live
  /\ IdOf(n) \in Ids
  /\ row' = [row EXCEPT !["corr"][IdOf(n)] = n]
  /\ doc' = [doc EXCEPT ![d].senders = IF IdOf(n) \in Range(@) THEN @ ELSE Append(@, IdOf(n))]
  /\ EnqueueMoves({d})
  /\ UNCHANGED <<parent, uses, rules, meant, fields, filing, shown, flight, crossed>>

RemoveDocCorrespondent(d, c) ==
  /\ Spend("docs")
  /\ c \in Range(doc[d].senders)
  /\ doc' = [doc EXCEPT ![d].senders = Without(@, c)]
  /\ EnqueueMoves({d})
  /\ UNCHANGED <<names, fields, filing, shown, flight, crossed>>

BulkTrash(ds) ==
  /\ Spend("docs")
  /\ doc' = [d \in DocIds |-> IF d \in ds THEN [doc[d] EXCEPT !.live = FALSE] ELSE doc[d]]
  /\ UNCHANGED <<names, fields, filing, moves, shown, flight, crossed>>

BulkRestore(ds) ==
  /\ Spend("docs")
  /\ \E d \in ds : ~doc[d].live
  /\ doc' = [d \in DocIds |-> IF d \in ds THEN [doc[d] EXCEPT !.live = TRUE] ELSE doc[d]]
  /\ moves' = moves \cup ds
  /\ UNCHANGED <<names, fields, filing, shown, flight, crossed>>

----------------------------------------------------------------------------
(* The custom field *)

Column(type) == CASE type \in {"text", "select"} -> "text"
                  [] type = "number" -> "number"
                  [] type = "link" -> "int"

\* Handler.Validate: what the field's definition makes of the value given.
Validated(v) ==
  CASE field.type = "select" -> v \in field.choices
    [] field.type = "link" -> v \in DocIds
    [] field.type \in {"text", "number"} -> v \in Options

InUse == \E d \in DocIds : value[d].col # "none"

CreateField(type, cs) ==
  /\ Spend("fields")
  /\ field = NoField
  /\ field' = [type |-> type, choices |-> cs]
  /\ UNCHANGED <<names, doc, value, filing, moves, shown, flight, crossed>>

\* UpdateCustomFieldDef: the type stays while values exist; a choice some
\* document has stays.
UpdateField(type, cs) ==
  /\ Spend("fields")
  /\ field # NoField
  /\ [type |-> type, choices |-> cs] # field
  /\ (type # field.type => ~InUse)
  /\ (type = "select" /\ field.type = "select" =>
        \A d \in DocIds : value[d].v \notin field.choices \ cs)
  /\ field' = [type |-> type, choices |-> cs]
  /\ UNCHANGED <<names, doc, value, filing, moves, shown, flight, crossed>>

\* DeleteCustomFieldDef: the values go with the row.
DeleteField ==
  /\ Spend("fields")
  /\ field # NoField
  /\ field' = NoField
  /\ value' = [d \in DocIds |-> NoValue]
  /\ UNCHANGED <<names, doc, filing, moves, shown, flight, crossed>>

\* SetCustomField reads the definition and checks the value against it.
CheckValue(d, v) ==
  /\ Spend("values")
  /\ field # NoField
  /\ Validated(v)
  /\ flight' = flight \cup {[op |-> "value", doc |-> d, v |-> v, by |-> field]}
  /\ UNCHANGED <<names, doc, fields, filing, moves, shown, crossed>>

\* WriteDocumentLinkInTx: only into a link field, to another live document.
LinkPossible(f) == field.type = "link" /\ f.v # f.doc /\ doc[f.v].live

ValuePossible(f) ==
  /\ doc[f.doc].live
  /\ field # NoField
  /\ (f.by.type = "link" => LinkPossible(f))

\* The write goes to the column of the type that was read.
SetValue(f) ==
  /\ f \in flight /\ f.op = "value"
  /\ ValuePossible(f)
  /\ value' = [value EXCEPT ![f.doc] =
       [col |-> Column(f.by.type), v |-> f.v]]
  /\ flight' = flight \ {f}
  /\ UNCHANGED <<names, doc, field, filing, moves, shown, crossed, left>>

RefuseValue(f) ==
  /\ f \in flight /\ f.op = "value"
  /\ ~ValuePossible(f)
  /\ flight' = flight \ {f}
  /\ UNCHANGED <<names, doc, fields, filing, moves, shown, crossed, left>>

DeleteValue(d) ==
  /\ Spend("values")
  /\ doc[d].live
  /\ value[d].col # "none"
  /\ value' = [value EXCEPT ![d] = NoValue]
  /\ UNCHANGED <<names, doc, field, filing, moves, shown, flight, crossed>>

----------------------------------------------------------------------------
(* The filing tree *)

\* normalizeSetIDs: at most MaxFilingSets, one for each decade.
Composable(ss) ==
  /\ Cardinality(ss) <= MaxFilingSets
  /\ \A s, t \in ss : FilingSets[s].lane = FilingSets[t].lane => s = t

\* ComposePreset: the sets' categories; the Inbox is always there.
Incoming(ss) == UNION {DOMAIN FilingSets[s].cats : s \in ss}
SetOf(ss, c) == CHOOSE s \in ss : c \in DOMAIN FilingSets[s].cats
IncomingName(ss, c) == FilingSets[SetOf(ss, c)].cats[c]
CategoryKey(ss, c) == FilingSets[SetOf(ss, c)].keys[c]

\* automaticReplacements: the same meaning under another name.
AutoReplaced(have, ss) ==
  {c \in Incoming(ss) \cap Incoming(have) :
     CategoryKey(ss, c) = CategoryKey(have, c) /\ categories[c] # NoName}

Collisions(ss) == {c \in Incoming(ss) : categories[c] \notin {NoName, IncomingName(ss, c)}}

\* previewTx refuses remaps of what does not collide, out of the decade, or taken.
RemapPossible(ss, repl, remap) ==
  /\ repl \subseteq {c \in Incoming(ss) : categories[c] # NoName}
  /\ DOMAIN remap \subseteq Collisions(ss) \ repl
  /\ \A c \in DOMAIN remap : remap[c] # None =>
       /\ remap[c] \div 10 = c \div 10 /\ remap[c] % 10 # 0
       /\ categories[remap[c]] = NoName /\ remap[c] \notin Incoming(ss)
  /\ \A b, c \in DOMAIN remap : remap[b] = remap[c] /\ b # c => remap[b] = None

\* The state hash: the tree, the archive, and whether anything is filed or set up.
Binding ==
  [tree |-> categories, system |-> system, filed |-> \E d \in DocIds : doc[d].cat # Inbox,
   configured |-> \E r \in Rules : \E k \in Kinds : rules[r][k] # None]

\* applyTree: what the tree becomes.
Grown(ss, repl, remap) ==
  [c \in Codes |->
     CASE c \in repl -> IncomingName(ss, c)
       [] c \in Incoming(ss) /\ categories[c] = NoName -> IncomingName(ss, c)
       [] \E b \in DOMAIN remap : remap[b] = c ->
            IncomingName(ss, CHOOSE b \in DOMAIN remap : remap[b] = c)
       [] OTHER -> categories[c]]

Unresolved(ss, repl, remap) == Collisions(ss) \ (repl \cup DOMAIN remap)

Replacing == /\ system.sets = {} /\ ~Binding.filed /\ ~Binding.configured
             /\ \A c \in Codes \ {Inbox} : categories[c] = NoName

\* resolveDestination: a file with a system code names this archive when it
\* is the first, or names it otherwise and creates another; later codes
\* create.  A created archive's tree is its own and not kept here.
Introduces(code) == code # NoName /\ system.code = NoName
Creates(code, mine) ==
  code # NoName /\ (IF system.code = NoName THEN mine # NoName ELSE code # system.code)

DestinationPossible(code, mine) ==
  /\ code \notin others
  /\ mine # NoName => Introduces(code) /\ mine # code

\* PreviewPresetChange (no code) and the preview of ImportTaxonomy: the plan
\* an administrator sees before confirming it.
Preview(ss, repl, remap, code, mine) ==
  /\ Spend("preset")
  /\ Composable(ss)
  /\ DestinationPossible(code, mine)
  /\ LET new == Creates(code, mine)
         all == IF code = NoName THEN AutoReplaced(system.sets, ss) \cup repl ELSE repl
     IN  /\ IF new THEN all = {} /\ remap = <<>>
            ELSE RemapPossible(ss, all, remap) /\ Unresolved(ss, all, remap) = {}
         /\ flight' = flight \cup
              {[op |-> "preset", sets |-> ss, repl |-> all, mine |-> repl, remap |-> remap,
                code |-> code, was |-> mine, seen |-> Binding,
                tree |-> IF new THEN categories ELSE Grown(ss, all, remap)]}
  /\ UNCHANGED <<names, doc, fields, filing, moves, shown, crossed>>

\* planPresetChange of the apply call replaces what is automatic now; the
\* plan is made again in the transaction and must hash to what was shown.
Planned(f) == IF f.code = NoName THEN AutoReplaced(system.sets, f.sets) \cup f.mine ELSE f.mine
AsPreviewed(f) == Binding = f.seen /\ Planned(f) = f.repl

\* applyDestination: codes and name of this archive, and the one created.
Destined(f) ==
  IF ~Introduces(f.code) THEN system
  ELSE IF Creates(f.code, f.was) THEN [system EXCEPT !.code = f.was]
  ELSE [system EXCEPT !.code = f.code, !.name = f.code]

\* Apply: destination, tree, provenance, and a job for every live document.
ApplyPreset(f) ==
  /\ f \in flight /\ f.op = "preset"
  /\ AsPreviewed(f)
  /\ IF Creates(f.code, f.was)
     THEN /\ others' = others \cup {f.code}
          /\ system' = Destined(f)
          /\ moves' = moves \cup (IF Introduces(f.code) THEN LiveIn(DocIds) ELSE {})
          /\ UNCHANGED categories
     ELSE /\ categories' = Grown(f.sets, Planned(f), f.remap)
          /\ system' = [Destined(f) EXCEPT !.sets = f.sets, !.mode = IF Replacing THEN "jd" ELSE @]
          /\ EnqueueMoves(DocIds)
          /\ UNCHANGED others
  /\ flight' = flight \ {f}
  /\ UNCHANGED <<names, doc, fields, shown, crossed, left>>

RefuseStale(f) ==
  /\ f \in flight /\ f.op = "preset"
  /\ ~AsPreviewed(f)
  /\ flight' = flight \ {f}
  /\ UNCHANGED <<names, doc, fields, filing, moves, shown, crossed, left>>

\* PatchSystem: the name is in the path of templates that print it.
PatchSystem(n) ==
  /\ Spend("preset")
  /\ n # system.name
  /\ system' = [system EXCEPT !.name = n]
  /\ EnqueueTemplateMoves("system", DocIds)
  /\ UNCHANGED <<names, doc, fields, categories, others, shown, flight, crossed>>

----------------------------------------------------------------------------

TaxInit ==
  \E s \in Starts :
    /\ row = s.row /\ parent = s.parent /\ uses = s.uses /\ doc = s.doc
    /\ rules = s.rules /\ left = s.left
    /\ meant = [r \in Rules |-> [k \in Kinds |->
                  IF s.rules[r][k] = None THEN NoName ELSE s.row[k][s.rules[r][k]]]]
    /\ field = NoField
    /\ value = [d \in DocIds |-> NoValue]
    /\ categories = s.tree
    /\ system = s.system
    /\ others = {} /\ moves = {} /\ flight = {} /\ crossed = FALSE
    /\ shown = [d \in DocIds |-> PathOf(d)]

NamesStep ==
  \/ \E n \in Names :
       \/ CreateCorrespondent(n)
       \/ CreateTag(n)
       \/ \E tpl \in Templates : CreateLayout(n, tpl)
       \/ \E i \in Ids : UpdateCorrespondent(i, n) \/ UpdateTag(i, n) \/ RenameLayout(i, n)
  \/ \E i \in Ids : DeleteCorrespondent(i) \/ DeleteLayout(i)
  \/ \E l \in Ids, tpl \in Templates : UpdateLayout(l, tpl)
  \/ \E ts \in SUBSET Ids : DeleteTags(ts)
  \/ \E r \in Rules, k \in Kinds, i \in Ids : SaveRule(r, k, i)
  \/ \E k \in {"corr", "tag"}, i, j \in Ids : BeginMerge(k, i, j)
  \/ \E f \in flight : CommitMerge(f) \/ RefuseMerge(f)

TreeStep ==
  \/ \E t \in Ids, p \in Ids \cup {None} : CheckTagParent(t, p)
  \/ \E f \in flight : SetTagParent(f) \/ RefuseTagParent(f)

DocStep ==
  \/ \E d \in DocIds : Render(d)
  \/ \E d \in DocIds :
       \/ \E n \in Names : PatchTitle(d, n) \/ AddDocCorrespondent(d, n)
       \/ \E c \in Codes : PatchCategory(d, c)
       \/ \E i \in Ids \cup {None} : PatchLayout(d, i) \/ RemoveDocCorrespondent(d, i)
       \/ \E g \in BOOLEAN : PatchNumber(d, g)
  \/ \E ds \in SUBSET DocIds \ {{}} :
       \/ \E i \in Ids \cup {None} : BulkLayout(ds, i) \/ BulkCorrespondent(ds, i)
       \/ \E c \in Codes : BulkCategory(ds, c)
       \/ \E t \in Ids : BulkAddTag(ds, t) \/ BulkRemoveTag(ds, t)
       \/ BulkTrash(ds)
       \/ BulkRestore(ds)

FieldStep ==
  \/ \E type \in Types, cs \in SUBSET Options \ {{}} : CreateField(type, cs) \/ UpdateField(type, cs)
  \/ DeleteField
  \/ \E d \in DocIds, v \in Options \cup DocIds : CheckValue(d, v)
  \/ \E d \in DocIds : DeleteValue(d)
  \/ \E f \in flight : SetValue(f) \/ RefuseValue(f)

\* One collision at most is moved to another code, or left out.
Remaps == {<<>>} \cup {(c :> x) : c \in Codes \ {Inbox}, x \in (Codes \ {Inbox}) \cup {None}}

FilingStep ==
  \/ /\ left["preset"] > 0
     /\ \E ss \in {x \in SUBSET DOMAIN FilingSets : Composable(x)},
           repl \in SUBSET (Codes \ {Inbox}), remap \in Remaps :
          \E code, mine \in SystemCodes \cup {NoName} : Preview(ss, repl, remap, code, mine)
  \/ \E f \in flight : ApplyPreset(f) \/ RefuseStale(f)
  \/ \E n \in Names : PatchSystem(n)

TaxNext == NamesStep \/ TreeStep \/ DocStep \/ FieldStep \/ FilingStep

TaxSpec == TaxInit /\ [][TaxNext]_taxVars

----------------------------------------------------------------------------
(* Properties *)

\* The path of a live document is made from what the archive says now, or a
\* render job is queued for it: every request that changes a name, a layout,
\* the tree or a document queues a job for every document that reads it.
PathFollows == \A d \in DocIds : doc[d].live /\ d \notin moves => shown[d] = PathOf(d)

\* An automation refers to the row its author chose, or to the row that one
\* was merged into, unless the row was deleted by name; the layout it assigns
\* is never deleted.
RuleRefers(r, k) ==
  /\ rules[r][k] # None /\ meant[r][k] # NoName => row[k][rules[r][k]] # NoName
  /\ k = "layout" /\ rules[r][k] # None => meant[r][k] # NoName

RulesFollowMerges == \A r \in Rules, k \in Kinds : RuleRefers(r, k)

\* The tags form a forest, as long as two requests that set a parent do not
\* overlap: the walk up the tree is not repeated in the transaction.
TagsFormAForest ==
  crossed \/ \A t \in Rows("tag") : parent[t] # None => t \notin Lineage(parent[t])

=============================================================================
