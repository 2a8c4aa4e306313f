------------------------------- MODULE Access -------------------------------
(***************************************************************************)
(* Who may do what with a document, and what a user publishes on the       *)
(* strength of it: grants and groups (core/authz), membership of archives, *)
(* share links, shared views, notes and mailbox sign-ins (core/api).       *)
(*                                                                         *)
(* A handler checks the caller's rights outside its write transaction and  *)
(* again inside; an administrator may take the right away in between.      *)
(* Taking it away is terminal: giving it back revives nothing.             *)
(*                                                                         *)
(* Write transactions are serialized by the single writer.  The OAuth flow *)
(* store has a mutex of its own, which the two administrative handlers     *)
(* take inside their transaction and hold until it has committed.          *)
(***************************************************************************)
EXTENDS Naturals, FiniteSets

CONSTANTS
  Users, Boss,       \* accounts; Boss is the administrator at the start
  Systems, Elsewhere, \* archives; Elsewhere is one that holds no document of Docs
  NoSystem,          \* no archive selected (0)
  Docs, Owner, SystemOf, \* documents, who owns each, which archive holds it
  Groups,
  Clients,           \* requests in flight at one time
  MaxViews,          \* maxSavedViewsPerUser
  MaxFlows, MaxFlowsPerUser, \* maxOAuthFlows, maxOAuthFlowsPerUser
  CapSets,           \* capability lists that administrators send
  Bounds             \* how many requests administrators and users make

Caps == {"links", "views", "mail"}

ASSUME AccessAssumption ==
  /\ CapSets \subseteq SUBSET Caps /\ {} \in CapSets
  /\ Boss \in Users /\ NoSystem \notin Systems
  /\ Systems \cap (Caps \cup {"seat"}) = {} \* era indexes archives beside rights
  /\ Users \cap Groups = {}
  /\ Owner \in [Docs -> Users] /\ SystemOf \in [Docs -> Systems]
  /\ MaxViews \in Nat /\ MaxFlows \in Nat /\ MaxFlowsPerUser \in Nat
  /\ \A b \in DOMAIN Bounds : Bounds[b] \in Nat

Masks == {{"view"}, {"view", "change"}, {"view", "change", "delete"}}

VARIABLES
  acct,    \* [Users -> [role, on, caps]]
  member,  \* SUBSET (Users \X Systems)
  groups,  \* the groups that exist
  belongs, \* SUBSET (Groups \X Users)
  grants,  \* set of [doc, to, bits], one per document and principal
  trash,   \* documents in the trash
  notes,   \* set of [doc, by]
  links,   \* share links not revoked: set of [n, by, sys, docs, public, era]
  views,   \* saved views: set of [n, by, sys, shared, era]
  flows,   \* OAuth flows: set of [n, by, sys, at, active, late, era]
  mu,      \* what the holder of the flow store's mutex will drop, or Free
  handed,  \* eras at start and end of every flow that was completed
  era,     \* [Users -> [caps and archives -> Nat]]: rights that have ended
  reqs,    \* [Clients -> request], Idle when the client has none
  fresh,   \* the next unused number
  left     \* what remains of Bounds

vars == <<acct, member, groups, belongs, grants, trash, notes, links, views, flows, mu,
          handed, era, reqs, fresh, left>>
people == <<acct, member, era>>
shared == <<groups, belongs, grants>>
papers == <<trash, notes>>
published == <<links, views>>
oauth == <<flows, mu, handed>>

Free == [users |-> {}, sys |-> NoSystem]
Idle == [kind |-> "idle", by |-> Boss, sys |-> NoSystem, arg |-> 0]

Spend(what) ==
  /\ left[what] > 0
  /\ left' = [left EXCEPT ![what] = @ - 1]

-----------------------------------------------------------------------------
(* The decision, in its three forms.  A principal is what authentication   *)
(* found: its role may be out of date by the time it is used.              *)

GroupsOf(u) == {g \in groups : <<g, u>> \in belongs}

Principal(u) ==
  [user |-> u, role |-> acct[u].role, sys |-> NoSystem, tok |-> NoSystem,
   groups |-> IF acct[u].role = "admin" THEN {} ELSE GroupsOf(u)]

CanEnter(u, s) == acct[u].on /\ (acct[u].role = "admin" \/ <<u, s>> \in member)

InBoundary(p, d) ==
  /\ p.sys # NoSystem => SystemOf[d] = p.sys
  /\ p.tok # NoSystem => SystemOf[d] = p.tok
  /\ CanEnter(p.user, SystemOf[d])

\* bindRequestSystem: a token's archive is the request's archive, where one is selected.
SystemBound(p) == p.tok # NoSystem => p.sys \in {p.tok, NoSystem}

Named(p) == {p.user} \cup p.groups
EffectivePerms(p, d) == UNION {g.bits : g \in {h \in grants : h.doc = d /\ h.to \in Named(p)}}

\* One document.
Can(p, d, want) ==
  /\ InBoundary(p, d)
  /\ p.role = "admin" \/ Owner[d] = p.user \/ want \in EffectivePerms(p, d)

\* A batch, as one query: documents within the boundary, left-joined with the grants.
CanDocuments(p, ds, want) ==
  LET named == {g \in grants : g.to \in Named(p)}
      rows == {r \in [doc : ds, bits : {{}}] \cup {[doc |-> g.doc, bits |-> g.bits] : g \in named} :
                 r.doc \in ds /\ InBoundary(p, r.doc)}
  IN {r.doc : r \in {q \in rows :
        p.role = "admin" \/ Owner[q.doc] = p.user \/ want \in q.bits}}

\* Mutant: the filter that every list uses forgets the token's own archive.
VisibleToToken(p, s) ==
  {d \in Docs : /\ p.sys = NoSystem \/ p.sys = s
                /\ InBoundary([p EXCEPT !.sys = s, !.tok = NoSystem], d)
                /\ \/ p.role = "admin" \/ Owner[d] = p.user
                   \/ \E g \in grants : g.doc = d /\ "view" \in g.bits /\ g.to \in Named(p)}

\* The filter that every list of documents uses.
Visible(p, s) ==
  {d \in Docs : /\ p.sys = NoSystem \/ p.sys = s
                /\ InBoundary([p EXCEPT !.sys = s], d)
                /\ \/ p.role = "admin" \/ Owner[d] = p.user
                   \/ \E g \in grants : g.doc = d /\ "view" \in g.bits /\ g.to \in Named(p)}

CanManage(p, d) == InBoundary(p, d) /\ (p.role = "admin" \/ Owner[d] = p.user)

Holds(u, cap) == acct[u].role = "admin" \/ cap \in acct[u].caps
ActiveAdmin(u) == acct[u].on /\ acct[u].role = "admin"

\* currentWriterPrincipal: the rows as they are in the transaction.
CurrentWriter(u, s) == CanEnter(u, s)

\* authorized, inside a transaction.
Authorized(u, d, want) == CurrentWriter(u, SystemOf[d]) /\ Can(Principal(u), d, want)

EraOf(u, rights) == [r \in rights |-> era[u][r]]

-----------------------------------------------------------------------------
(* Groups and grants.                                                      *)

CreateGroup(a, g) ==
  /\ Spend("admin") /\ ActiveAdmin(a) /\ g \notin groups
  /\ groups' = groups \cup {g}
  /\ UNCHANGED <<people, belongs, grants, papers, published, oauth, reqs, fresh>>

DeleteGroup(a, g) ==
  /\ Spend("admin") /\ ActiveAdmin(a) /\ g \in groups
  /\ \A h \in grants : h.to # g
  /\ groups' = groups \ {g}
  /\ belongs' = {b \in belongs : b[1] # g}
  /\ UNCHANGED <<people, grants, papers, published, oauth, reqs, fresh>>

AddMember(a, g, u) ==
  /\ Spend("admin") /\ ActiveAdmin(a) /\ g \in groups
  /\ belongs' = belongs \cup {<<g, u>>}
  /\ UNCHANGED <<people, groups, grants, papers, published, oauth, reqs, fresh>>

RemoveMember(a, g, u) ==
  /\ Spend("admin") /\ ActiveAdmin(a) /\ <<g, u>> \in belongs
  /\ belongs' = belongs \ {<<g, u>>}
  /\ UNCHANGED <<people, groups, grants, papers, published, oauth, reqs, fresh>>

MayReceive(to, d) == IF to \in Users THEN CanEnter(to, SystemOf[d]) ELSE to \in groups

PutGrant(a, d, to, bits) ==
  /\ Spend("use")
  /\ CurrentWriter(a, SystemOf[d]) /\ CanManage(Principal(a), d)
  /\ MayReceive(to, d)
  /\ grants' = {g \in grants : g.doc # d \/ g.to # to} \cup {[doc |-> d, to |-> to, bits |-> bits]}
  /\ UNCHANGED <<people, groups, belongs, papers, published, oauth, reqs, fresh>>

DeleteGrant(a, d, to) ==
  /\ Spend("use")
  /\ CurrentWriter(a, SystemOf[d]) /\ CanManage(Principal(a), d)
  /\ to \in Users \cup groups
  /\ grants' = {g \in grants : g.doc # d \/ g.to # to}
  /\ UNCHANGED <<people, groups, belongs, papers, published, oauth, reqs, fresh>>

-----------------------------------------------------------------------------
(* Notes.                                                                  *)

CreateNote(u, d) ==
  /\ Spend("use")
  /\ Authorized(u, d, "change") /\ d \notin trash
  /\ notes' = notes \cup {[doc |-> d, by |-> u]}
  /\ UNCHANGED <<people, shared, trash, published, oauth, reqs, fresh>>

NoteWriter(u, n) ==
  /\ Authorized(u, n.doc, "change")
  /\ n \in notes /\ n.doc \notin trash
  /\ acct[u].role = "admin" \/ n.by = u

DeleteNote(u, n) ==
  /\ Spend("use") /\ NoteWriter(u, n)
  /\ notes' = notes \ {n}
  /\ UNCHANGED <<people, shared, trash, published, oauth, reqs, fresh>>

\* The document's owner trashes or restores it (modelled in DocumentIntake).
TrashDocument(d) ==
  /\ Spend("use")
  /\ trash' = IF d \in trash THEN trash \ {d} ELSE trash \cup {d}
  /\ UNCHANGED <<people, shared, notes, published, oauth, reqs, fresh>>

-----------------------------------------------------------------------------
(* Share links.                                                            *)

Shareable(u, s, ds) ==
  /\ ds # {}
  /\ \A d \in ds : d \notin trash /\ SystemOf[d] = s /\ (acct[u].role = "admin" \/ Owner[d] = u)

BeginLink(c, u, s, ds) ==
  /\ Spend("use") /\ reqs[c] = Idle
  /\ Holds(u, "links") /\ CanEnter(u, s) /\ Shareable(u, s, ds)
  /\ reqs' = [reqs EXCEPT ![c] = [kind |-> "link", by |-> u, sys |-> s, arg |-> ds]]
  /\ UNCHANGED <<people, shared, papers, published, oauth, fresh>>

Done(c) == reqs' = [reqs EXCEPT ![c] = Idle]

NewLink(u, s, ds) ==
  [n |-> fresh, by |-> u, sys |-> s, docs |-> ds, era |-> EraOf(u, {"links", s})]

\* Mutant: the transaction trusts the capability read before it.
CreateLinkUnchecked(c) ==
  /\ reqs[c].kind = "link"
  /\ Done(c)
  /\ LET r == reqs[c] IN
     IF CurrentWriter(r.by, r.sys) /\ Shareable(r.by, r.sys, r.arg)
       THEN links' = links \cup {NewLink(r.by, r.sys, r.arg)} /\ fresh' = fresh + 1
       ELSE UNCHANGED <<links, fresh>>
  /\ UNCHANGED <<people, shared, papers, views, oauth, left>>

CreateLink(c) ==
  /\ reqs[c].kind = "link"
  /\ Done(c)
  /\ LET r == reqs[c] IN
     IF CurrentWriter(r.by, r.sys) /\ Holds(r.by, "links") /\ Shareable(r.by, r.sys, r.arg)
       THEN links' = links \cup {NewLink(r.by, r.sys, r.arg)} /\ fresh' = fresh + 1
       ELSE UNCHANGED <<links, fresh>>
  /\ UNCHANGED <<people, shared, papers, views, oauth, left>>

RevokeLink(u, l) ==
  /\ Spend("use")
  /\ l \in links /\ l.by = u /\ CurrentWriter(u, l.sys)
  /\ links' = links \ {l}
  /\ UNCHANGED <<people, shared, papers, views, oauth, reqs, fresh>>

\* A link past its expiry never answers again.
ExpireLink(l) ==
  /\ Spend("use") /\ l \in links
  /\ links' = links \ {l}
  /\ UNCHANGED <<people, shared, papers, views, oauth, reqs, fresh>>

\* What anyone holding the link's token gets to see.
LoadShareByToken(l) == l \in links /\ CanEnter(l.by, l.sys)

\* Mutant: the creator was checked when the link was made.
ShareDocsOnceChecked(l) == {d \in l.docs : d \notin trash /\ SystemOf[d] = l.sys}

LoadShareDocs(l) ==
  {d \in l.docs : d \notin trash /\ SystemOf[d] = l.sys /\ (acct[l.by].role = "admin" \/ Owner[d] = l.by)}

SharePublicDownload(l, d) ==
  d \in l.docs /\ d \notin trash /\ SystemOf[d] = l.sys /\ (acct[l.by].role = "admin" \/ Owner[d] = l.by)

-----------------------------------------------------------------------------
(* Saved views.  Their number is read outside the transaction.             *)

ViewsOf(u, s) == {v \in views : v.by = u /\ v.sys = s}

BeginView(c, u, s, share) ==
  /\ Spend("use") /\ reqs[c] = Idle
  /\ CanEnter(u, s) /\ (share => Holds(u, "views"))
  /\ Cardinality(ViewsOf(u, s)) < MaxViews
  /\ reqs' = [reqs EXCEPT ![c] = [kind |-> "view", by |-> u, sys |-> s, arg |-> share]]
  /\ UNCHANGED <<people, shared, papers, published, oauth, fresh>>

CreateView(c) ==
  /\ reqs[c].kind = "view"
  /\ Done(c)
  /\ LET r == reqs[c] IN
     IF CurrentWriter(r.by, r.sys) /\ (r.arg => Holds(r.by, "views"))
       THEN /\ views' = views \cup {[n |-> fresh, by |-> r.by, sys |-> r.sys, shared |-> r.arg,
                                     era |-> EraOf(r.by, {"views"})]}
            /\ fresh' = fresh + 1
       ELSE UNCHANGED <<views, fresh>>
  /\ UNCHANGED <<people, shared, papers, links, oauth, left>>

UpdateView(u, v, share) ==
  /\ Spend("use")
  /\ v \in views /\ v.by = u /\ CurrentWriter(u, v.sys) /\ (share => Holds(u, "views"))
  /\ views' = (views \ {v}) \cup {[v EXCEPT !.shared = share, !.era = EraOf(u, {"views"})]}
  /\ UNCHANGED <<people, shared, papers, links, oauth, reqs, fresh>>

DeleteView(u, v) ==
  /\ Spend("use")
  /\ v \in views /\ v.by = u /\ CurrentWriter(u, v.sys)
  /\ views' = views \ {v}
  /\ UNCHANGED <<people, shared, papers, links, oauth, reqs, fresh>>

-----------------------------------------------------------------------------
(* Signing a mailbox in at its provider: the flow store lives in memory.   *)

FlowRights(s) == {"seat", s}

Put(fs, f) ==
  LET kept == {g \in fs : ~g.late}
  IN IF Cardinality(kept) < MaxFlows /\ Cardinality({g \in kept : g.by = f.by}) < MaxFlowsPerUser
       THEN kept \cup {f} ELSE kept

StartOAuth(u, s) ==
  /\ Spend("use") /\ mu = Free
  /\ CurrentWriter(u, s) /\ Holds(u, "mail")
  /\ flows' = Put(flows, [n |-> fresh, by |-> u, sys |-> s, at |-> "starting", active |-> FALSE,
                          late |-> FALSE, era |-> EraOf(u, FlowRights(s))])
  /\ fresh' = fresh + 1
  /\ UNCHANGED <<people, shared, papers, published, mu, handed, reqs>>

\* The provider answers the start (or does not), then the user's consent.
DeviceCode(f, to) ==
  /\ mu = Free /\ f \in flows
  /\ \/ f.at = "starting" /\ to = "waiting"
     \/ f.at = "waiting" /\ to \in {"ready", "failed"}
  /\ flows' = (flows \ {f}) \cup {[f EXCEPT !.at = to]}
  /\ UNCHANGED <<people, shared, papers, published, mu, handed, reqs, fresh, left>>

DeviceCodeFails(f) ==
  /\ Spend("use") /\ mu = Free /\ f \in flows /\ f.at = "starting"
  /\ flows' = flows \ {f}
  /\ UNCHANGED <<people, shared, papers, published, mu, handed, reqs, fresh>>

FlowExpires(f) ==
  /\ Spend("use") /\ f \in flows /\ ~f.late
  /\ flows' = (flows \ {f}) \cup {[f EXCEPT !.late = TRUE]}
  /\ UNCHANGED <<people, shared, papers, published, mu, handed, reqs, fresh>>

BeginOAuth(c, f) ==
  /\ Spend("use") /\ reqs[c] = Idle /\ mu = Free
  /\ Holds(f.by, "mail") /\ CanEnter(f.by, f.sys)
  /\ f \in flows /\ (f.late \/ (f.at \in {"ready", "failed"} /\ ~f.active))
  /\ IF f.late \/ f.at = "failed"
       THEN flows' = flows \ {f} /\ UNCHANGED reqs
       ELSE /\ flows' = (flows \ {f}) \cup {[f EXCEPT !.active = TRUE]}
            /\ reqs' = [reqs EXCEPT ![c] = [kind |-> "oauth", by |-> f.by, sys |-> f.sys, arg |-> f.n]]
  /\ UNCHANGED <<people, shared, papers, published, mu, handed, fresh>>

\* The transaction looks for the flow again; the handle is dropped after it,
\* or released for another attempt.
CompleteOAuth(c) ==
  /\ reqs[c].kind = "oauth" /\ mu = Free
  /\ Done(c)
  /\ LET r == reqs[c]
         mine == {f \in flows : f.n = r.arg}
     IN IF CurrentWriter(r.by, r.sys) /\ Holds(r.by, "mail") /\ mine # {}
          THEN /\ handed' = handed \cup {[start |-> f.era, end |-> EraOf(f.by, FlowRights(f.sys))] : f \in mine}
               /\ flows' = flows \ mine
          ELSE /\ flows' = (flows \ mine) \cup {[f EXCEPT !.active = FALSE] : f \in mine}
               /\ UNCHANGED handed
  /\ UNCHANGED <<people, shared, papers, published, mu, fresh, left>>

-----------------------------------------------------------------------------
(* Administration.                                                         *)

Ended(u, rights) == [era EXCEPT ![u] = [r \in DOMAIN @ |-> IF r \in rights THEN @[r] + 1 ELSE @[r]]]

\* The capabilities that the account row holds afterwards.
NextCaps(u, role, caps, given) ==
  IF role = "admin" \/ (acct[u].role = "admin" /\ ~given) THEN {}
  ELSE IF given THEN caps ELSE acct[u].caps

RevokeShareLinksFor(u, lost) == {l \in links : l.by = u => "links" \notin lost}
RevokeSharedViewsFor(u, lost) ==
  {IF v.by = u /\ "views" \in lost THEN [v EXCEPT !.shared = FALSE] ELSE v : v \in views}

\* role and caps are as requested ("keep" / given = FALSE when the body leaves them out).
PatchUser(a, u, role, caps, given, on) ==
  LET next == [role |-> role, on |-> on, caps |-> NextCaps(u, role, caps, given)]
      lost == {x \in Caps : Holds(u, x) /\ ~(role = "admin" \/ x \in next.caps)}
      off == ~on /\ acct[u].on
  IN /\ Spend("admin") /\ ActiveAdmin(a)
     /\ given \/ role # acct[u].role \/ on # acct[u].on
     /\ \E x \in Users : LET y == IF x = u THEN next ELSE acct[x] IN y.on /\ y.role = "admin"
     /\ ~on => mu = Free
     /\ acct' = [acct EXCEPT ![u] = next]
     /\ links' = RevokeShareLinksFor(u, lost)
     /\ views' = RevokeSharedViewsFor(u, lost)
     /\ mu' = IF ~on THEN [users |-> {u}, sys |-> NoSystem] ELSE mu
     /\ era' = Ended(u, lost \cup (IF off THEN {"seat"} ELSE {}))
     /\ UNCHANGED <<member, shared, papers, flows, handed, reqs, fresh>>

\* Mutant: the mutex is taken only after the commit.
PutMembersUnlocked(a, s, wanted) ==
  LET had == {u \in Users : <<u, s>> \in member}
      gone == had \ wanted
  IN /\ Spend("admin") /\ ActiveAdmin(a)
     /\ \A u \in wanted \ had : acct[u].on
     /\ member' = {m \in member : m[2] # s} \cup {<<u, s>> : u \in wanted}
     /\ links' = {l \in links : ~(l.sys = s /\ l.by \in gone)}
     /\ era' = [u \in Users |-> IF u \in gone THEN [era[u] EXCEPT ![s] = @ + 1] ELSE era[u]]
     /\ UNCHANGED <<acct, shared, papers, views, flows, mu, handed, reqs, fresh>>

PutSystemMembers(a, s, wanted) ==
  LET had == {u \in Users : <<u, s>> \in member}
      gone == had \ wanted
  IN /\ Spend("admin") /\ ActiveAdmin(a)
     /\ \A u \in wanted \ had : acct[u].on
     /\ gone # {} => mu = Free
     /\ member' = {m \in member : m[2] # s} \cup {<<u, s>> : u \in wanted}
     /\ links' = {l \in links : ~(l.sys = s /\ l.by \in gone)}
     /\ mu' = IF gone # {} THEN [users |-> gone, sys |-> s] ELSE mu
     /\ era' = [u \in Users |-> IF u \in gone THEN [era[u] EXCEPT ![s] = @ + 1] ELSE era[u]]
     /\ UNCHANGED <<acct, shared, papers, views, flows, handed, reqs, fresh>>

InvalidateMember ==
  /\ mu # Free
  /\ flows' = {f \in flows : ~(f.by \in mu.users /\ (mu.sys = NoSystem \/ f.sys = mu.sys))}
  /\ mu' = Free
  /\ UNCHANGED <<people, shared, papers, published, handed, reqs, fresh, left>>

\* A restart loses the flow store and every request in flight.
Restart ==
  /\ Spend("admin")
  /\ flows' = {} /\ mu' = Free /\ reqs' = [c \in Clients |-> Idle]
  /\ UNCHANGED <<people, shared, papers, published, handed, fresh>>

-----------------------------------------------------------------------------
Init ==
  /\ acct = [u \in Users |-> [role |-> IF u = Boss THEN "admin" ELSE "member", on |-> TRUE,
                              caps |-> IF u = Boss THEN {} ELSE Caps]]
  /\ member = Users \X Systems
  /\ groups = Groups /\ belongs = {} /\ grants = {} /\ trash = {} /\ notes = {}
  /\ links = {} /\ views = {} /\ flows = {} /\ mu = Free /\ handed = {}
  /\ era = [u \in Users |-> [r \in Caps \cup Systems \cup {"seat"} |-> 0]]
  /\ reqs = [c \in Clients |-> Idle] /\ fresh = 1 /\ left = Bounds

Sharing ==
  \/ \E a \in Users, g \in Groups :
       \/ CreateGroup(a, g) \/ DeleteGroup(a, g)
       \/ \E u \in Users : AddMember(a, g, u) \/ RemoveMember(a, g, u)
  \/ \E a \in Users, d \in Docs, to \in Users \cup Groups :
       DeleteGrant(a, d, to) \/ \E bits \in Masks : PutGrant(a, d, to, bits)
  \/ \E u \in Users, d \in Docs : CreateNote(u, d)
  \/ \E u \in Users, n \in notes : DeleteNote(u, n)
  \/ \E d \in Docs : TrashDocument(d)

Publishing ==
  \/ \E c \in Clients, u \in Users, s \in Systems :
       \/ \E ds \in SUBSET Docs : BeginLink(c, u, s, ds)
       \/ \E share \in BOOLEAN : BeginView(c, u, s, share)
  \/ \E c \in Clients : CreateLink(c) \/ CreateView(c)
  \/ \E u \in Users, l \in links : RevokeLink(u, l)
  \/ \E l \in links : ExpireLink(l)
  \/ \E u \in Users, v \in views :
       DeleteView(u, v) \/ \E share \in BOOLEAN : UpdateView(u, v, share)

SigningIn ==
  \/ \E u \in Users, s \in Systems : StartOAuth(u, s)
  \/ \E f \in flows :
       \/ \E to \in {"waiting", "ready", "failed"} : DeviceCode(f, to)
       \/ DeviceCodeFails(f) \/ FlowExpires(f)
       \/ \E c \in Clients : BeginOAuth(c, f)
  \/ \E c \in Clients : CompleteOAuth(c)

Administering ==
  \/ \E a, u \in Users, role \in {"admin", "member"}, caps \in CapSets, given, on \in BOOLEAN :
       (given \/ caps = {}) /\ PatchUser(a, u, role, caps, given, on)
  \/ \E a \in Users, s \in Systems, wanted \in SUBSET Users : PutSystemMembers(a, s, wanted)
  \/ InvalidateMember
  \/ Restart

Next == Sharing \/ Publishing \/ SigningIn \/ Administering

Spec == Init /\ [][Next]_vars

-----------------------------------------------------------------------------
(* The check of one document, of a batch and the filter of lists are three *)
(* pieces of SQL: for every principal, also one whose role has changed     *)
(* since it was authenticated, they come to the same decision.             *)
Principals ==
  {p \in [user : Users, role : {"admin", "member"}, sys : Systems \cup {NoSystem, Elsewhere},
          tok : Systems \cup {NoSystem, Elsewhere}, groups : {{}} \cup {GroupsOf(u) : u \in Users}] :
     /\ p.groups = IF p.role = "admin" THEN {} ELSE GroupsOf(p.user)
     /\ SystemBound(p)}

DecisionsAgree ==
  \A p \in Principals :
    /\ \A want \in {"view", "change"} :
         CanDocuments(p, Docs, want) = {d \in Docs : Can(p, d, want)}
    /\ {d \in Docs : d \in Visible(p, SystemOf[d])} = {d \in Docs : Can(p, d, "view")}

(* "Revoke is terminal" (users.go): no share link and no shared view stems *)
(* from before its creator last lost the capability, or the archive.       *)
RevokeIsTerminal ==
  /\ \A l \in links : l.era = EraOf(l.by, {"links", l.sys}) /\ Holds(l.by, "links")
  /\ \A v \in views : v.shared => v.era = EraOf(v.by, {"views"}) /\ Holds(v.by, "views")

(* Whatever a link gives to a stranger, its creator may see at this        *)
(* moment; the page and the download agree.                                *)
LinkShowsNoMore ==
  \A l \in links : LoadShareByToken(l) =>
    /\ LoadShareDocs(l) \subseteq {d \in Docs : Can(Principal(l.by), d, "view")}
    /\ LoadShareDocs(l) = {d \in Docs : SharePublicDownload(l, d)}

(* A mailbox sign-in begun before its user was disabled or removed from    *)
(* the archive is never completed, not even if he is back by then.         *)
FlowEndsWithSeat == \A h \in handed : h.start = h.end
=============================================================================
