---------------------------- MODULE AccessProofs ----------------------------
(***************************************************************************)
(* Proofs about Access, for any number of users, archives, documents and   *)
(* requests in flight.                                                     *)
(*                                                                         *)
(* What a user publishes carries the eras of the rights it rests on.  The  *)
(* inductive invariant says that a link or a shared view always carries    *)
(* the current ones, and that a mailbox sign-in does too unless the holder *)
(* of the flow store's mutex is about to drop it.                          *)
(***************************************************************************)
EXTENDS Access, TLAPS

Rights == Caps \cup Systems \cup {"seat"}
Roles == {"admin", "member"}

PeopleTyped ==
  /\ acct \in [Users -> [role : Roles, on : BOOLEAN, caps : SUBSET Caps]]
  /\ era \in [Users -> [Rights -> Nat]]

\* Views and sign-ins, whose eras are functions on the rights they rest on.
Views == [n : Nat, by : Users, sys : Systems, shared : BOOLEAN, era : [{"views"} -> Nat]]
Flows ==
  [n : Nat, by : Users, sys : Systems, at : {"starting", "waiting", "ready", "failed"},
   active : BOOLEAN, late : BOOLEAN, era : UNION {[FlowRights(s) -> Nat] : s \in Systems}]

\* A request that will publish names its user, its archive and what to publish.
RequestRow(r) ==
  /\ r.kind \in {"link", "view"} => r.by \in Users /\ r.sys \in Systems
  /\ r.kind = "link" => r.arg \subseteq Docs
  /\ r.kind = "view" => r.arg \in BOOLEAN
RequestsTyped ==
  /\ reqs = [c \in Clients |-> reqs[c]] /\ \A c \in Clients : RequestRow(reqs[c])
  /\ fresh \in Nat

\* Link l rests on rights that its creator still has.
LinkStands(l) == l.era = EraOf(l.by, {"links", l.sys}) /\ Holds(l.by, "links")
LinksStand ==
  \A l \in links : l.by \in Users /\ l.sys \in Systems /\ l.docs \subseteq Docs /\ LinkStands(l)

ViewStands(v) == v.era = EraOf(v.by, {"views"}) /\ Holds(v.by, "views")
ViewsStand == views \subseteq Views /\ \A v \in views : v.shared => ViewStands(v)

\* The sign-ins that the holder of the mutex drops before it lets go.
Doomed(f) == f.by \in mu.users /\ (mu.sys = NoSystem \/ f.sys = mu.sys)
FlowStands(f) == f.era = EraOf(f.by, FlowRights(f.sys))
FlowsStand == flows \subseteq Flows /\ \A f \in flows : Doomed(f) \/ FlowStands(f)

IInv ==
  /\ PeopleTyped /\ RequestsTyped
  /\ LinksStand /\ ViewsStand /\ FlowsStand /\ FlowEndsWithSeat

-----------------------------------------------------------------------------
(* Frames: what leaves the rights and a shelf alone keeps it sound.        *)

LEMMA LinksFrame ==
  ASSUME LinksStand, UNCHANGED <<acct, era>>, links' \subseteq links
  PROVE  LinksStand'
  BY DEF LinksStand, LinkStands, EraOf, Holds

LEMMA ViewsFrame ==
  ASSUME ViewsStand, UNCHANGED <<acct, era>>, views' \subseteq views
  PROVE  ViewsStand'
  BY DEF ViewsStand, ViewStands, EraOf, Holds

LEMMA FlowsFrame ==
  ASSUME FlowsStand, UNCHANGED <<era, mu>>, flows' \subseteq flows
  PROVE  FlowsStand'
  BY DEF FlowsStand, FlowStands, Doomed, EraOf

LEMMA PeopleFrame ==
  ASSUME PeopleTyped, UNCHANGED <<acct, era>>
  PROVE  PeopleTyped'
  BY DEF PeopleTyped

LEMMA RequestsFrame ==
  ASSUME RequestsTyped, UNCHANGED <<reqs, fresh>>
  PROVE  RequestsTyped'
  BY DEF RequestsTyped

\* A request that starts, or one that ends.
LEMMA RequestMoves ==
  ASSUME RequestsTyped, NEW c \in Clients, NEW r, RequestRow(r),
         reqs' = [reqs EXCEPT ![c] = r], fresh' \in Nat
  PROVE  RequestsTyped'
  BY DEF RequestsTyped

LEMMA IdleRow == RequestRow(Idle)
  BY DEF RequestRow, Idle

-----------------------------------------------------------------------------
LEMMA InitSound == Init => IInv
  <1> SUFFICES ASSUME Init PROVE IInv
    OBVIOUS
  <1>1. PeopleTyped
    BY DEF Init, PeopleTyped, Rights, Roles
  <1>2. RequestsTyped
    BY IdleRow DEF Init, RequestsTyped
  <1>3. LinksStand /\ ViewsStand /\ FlowsStand /\ FlowEndsWithSeat
    BY DEF Init, LinksStand, ViewsStand, FlowsStand, FlowEndsWithSeat
  <1>4. QED
    BY <1>1, <1>2, <1>3 DEF IInv

LEMMA SharingKeeps == ASSUME IInv, Sharing PROVE IInv'
  <1>1. UNCHANGED <<acct, era, links, views, flows, mu, handed, reqs, fresh>>
    BY DEF Sharing, CreateGroup, DeleteGroup, AddMember, RemoveMember, DeleteGrant, PutGrant,
           CreateNote, DeleteNote, TrashDocument, people, published, oauth
  <1>2. QED
    BY <1>1, LinksFrame, ViewsFrame, FlowsFrame, PeopleFrame, RequestsFrame
       DEF IInv, FlowEndsWithSeat

-----------------------------------------------------------------------------
(* Share links and saved views.                                            *)

LEMMA ErasTyped ==
  ASSUME PeopleTyped, NEW u \in Users
  PROVE  /\ EraOf(u, {"views"}) \in [{"views"} -> Nat]
         /\ \A s \in Systems : EraOf(u, FlowRights(s)) \in [FlowRights(s) -> Nat]
  BY DEF PeopleTyped, EraOf, FlowRights, Rights, Caps

LEMMA CreateLinkKeeps ==
  ASSUME IInv, NEW c \in Clients, CreateLink(c)
  PROVE  LinksStand' /\ RequestsTyped' /\ views' = views
  <1> DEFINE r == reqs[c]
             l == NewLink(r.by, r.sys, r.arg)
  <1>1. /\ r.kind = "link" /\ reqs' = [reqs EXCEPT ![c] = Idle] /\ UNCHANGED <<acct, era>>
        /\ \/ links' = links /\ fresh' = fresh
           \/ links' = links \cup {l} /\ fresh' = fresh + 1 /\ Holds(r.by, "links")
        /\ views' = views
    BY DEF CreateLink, Done, people
  <1>2. r.by \in Users /\ r.sys \in Systems /\ r.arg \subseteq Docs
    BY <1>1 DEF IInv, RequestsTyped, RequestRow
  <1>3. RequestsTyped'
    BY <1>1, RequestMoves, IdleRow DEF IInv, RequestsTyped
  <1>4. /\ l.by = r.by /\ l.sys = r.sys /\ l.docs = r.arg
        /\ l.era = EraOf(l.by, {"links", l.sys})
    BY DEF NewLink
  <1> HIDE DEF l
  <1>5. CASE links' = links
    BY <1>1, <1>3, <1>5, LinksFrame DEF IInv
  <1>6. CASE links' = links \cup {l} /\ Holds(r.by, "links")
    <2>1. \A k : LinkStands(k)' = LinkStands(k)
      BY <1>1 DEF LinkStands, EraOf, Holds
    <2>2. \A k \in links' : /\ k.by \in Users /\ k.sys \in Systems /\ k.docs \subseteq Docs
                           /\ LinkStands(k)
      BY <1>2, <1>4, <1>6 DEF LinkStands, LinksStand, IInv
    <2>3. QED
      BY <1>1, <1>3, <2>1, <2>2 DEF LinksStand
  <1>7. QED
    BY <1>1, <1>5, <1>6

LEMMA CreateViewKeeps ==
  ASSUME IInv, NEW c \in Clients, CreateView(c)
  PROVE  ViewsStand' /\ RequestsTyped' /\ links' = links
  <1> DEFINE r == reqs[c]
             v == [n |-> fresh, by |-> r.by, sys |-> r.sys, shared |-> r.arg,
                   era |-> EraOf(r.by, {"views"})]
  <1>1. /\ r.kind = "view" /\ reqs' = [reqs EXCEPT ![c] = Idle] /\ UNCHANGED <<acct, era>>
        /\ \/ views' = views /\ fresh' = fresh
           \/ views' = views \cup {v} /\ fresh' = fresh + 1 /\ (r.arg => Holds(r.by, "views"))
        /\ links' = links
    BY DEF CreateView, Done, people
  <1>2. r.by \in Users /\ r.sys \in Systems /\ r.arg \in BOOLEAN /\ fresh \in Nat
    BY <1>1 DEF IInv, RequestsTyped, RequestRow
  <1>3. RequestsTyped'
    BY <1>1, RequestMoves, IdleRow DEF IInv, RequestsTyped
  <1>4. v \in Views /\ v.by = r.by /\ v.shared = r.arg /\ v.era = EraOf(r.by, {"views"})
    BY <1>2, ErasTyped DEF Views, IInv
  <1> HIDE DEF v
  <1>5. CASE views' = views
    BY <1>1, <1>3, <1>5, ViewsFrame DEF IInv
  <1>6. CASE views' = views \cup {v} /\ (r.arg => Holds(r.by, "views"))
    <2>1. \A w \in views' : w.shared => ViewStands(w)
      BY <1>4, <1>6 DEF ViewStands, IInv, ViewsStand
    <2>2. \A w : ViewStands(w)' = ViewStands(w)
      BY <1>1 DEF ViewStands, EraOf, Holds
    <2>3. QED
      BY <1>1, <1>3, <1>4, <1>6, <2>1, <2>2 DEF ViewsStand, IInv
  <1>7. QED
    BY <1>1, <1>5, <1>6

LEMMA UpdateViewKeeps ==
  ASSUME IInv, NEW u \in Users, NEW v \in views, NEW share \in BOOLEAN, UpdateView(u, v, share)
  PROVE  ViewsStand'
  <1> DEFINE w == [v EXCEPT !.shared = share, !.era = EraOf(u, {"views"})]
  <1>1. /\ UNCHANGED <<acct, era>> /\ v.by = u /\ (share => Holds(u, "views"))
        /\ views' = (views \ {v}) \cup {w}
    BY DEF UpdateView, people
  <1>2. v \in Views
    BY DEF IInv, ViewsStand
  <1>3. EraOf(u, {"views"}) \in [{"views"} -> Nat]
    BY ErasTyped DEF IInv
  <1>4. w \in Views /\ w.by = u /\ w.shared = share /\ w.era = EraOf(u, {"views"})
    BY <1>1, <1>2, <1>3 DEF Views
  <1> HIDE DEF w
  <1>5. \A x \in views' : x.shared => ViewStands(x)
    BY <1>1, <1>4 DEF ViewStands, IInv, ViewsStand
  <1>6. \A x : ViewStands(x)' = ViewStands(x)
    BY <1>1 DEF ViewStands, EraOf, Holds
  <1>7. QED
    BY <1>1, <1>4, <1>5, <1>6 DEF ViewsStand, IInv

LEMMA BeginKeeps ==
  ASSUME IInv, NEW c \in Clients, NEW u \in Users, NEW s \in Systems,
         \/ \E ds \in SUBSET Docs : BeginLink(c, u, s, ds)
         \/ \E share \in BOOLEAN : BeginView(c, u, s, share)
  PROVE  RequestsTyped' /\ UNCHANGED <<links, views>>
  <1>1. PICK r : RequestRow(r) /\ reqs' = [reqs EXCEPT ![c] = r]
    <2>1. CASE \E ds \in SUBSET Docs : BeginLink(c, u, s, ds)
      <3>1. PICK ds \in SUBSET Docs : BeginLink(c, u, s, ds)
        BY <2>1
      <3>2. RequestRow([kind |-> "link", by |-> u, sys |-> s, arg |-> ds])
        BY DEF RequestRow
      <3>3. QED
        BY <3>1, <3>2 DEF BeginLink
    <2>2. CASE \E share \in BOOLEAN : BeginView(c, u, s, share)
      <3>1. PICK share \in BOOLEAN : BeginView(c, u, s, share)
        BY <2>2
      <3>2. RequestRow([kind |-> "view", by |-> u, sys |-> s, arg |-> share])
        BY DEF RequestRow
      <3>3. QED
        BY <3>1, <3>2 DEF BeginView
    <2>3. QED
      BY <2>1, <2>2
  <1>2. UNCHANGED <<links, views, fresh>>
    BY DEF BeginLink, BeginView, published
  <1>3. QED
    BY <1>1, <1>2, RequestMoves DEF IInv, RequestsTyped

LEMMA PublishingKeeps == ASSUME IInv, Publishing PROVE IInv'
  <1>1. UNCHANGED <<acct, era, flows, mu, handed>>
    BY DEF Publishing, BeginLink, BeginView, CreateLink, CreateView, RevokeLink, ExpireLink,
           DeleteView, UpdateView, people, oauth
  <1>2. PeopleTyped' /\ FlowsStand' /\ FlowEndsWithSeat'
    BY <1>1, PeopleFrame, FlowsFrame DEF IInv, FlowEndsWithSeat
  <1>3. RequestsTyped' /\ LinksStand' /\ ViewsStand'
    <2>1. ASSUME NEW c \in Clients, NEW u \in Users, NEW s \in Systems,
                 \/ \E ds \in SUBSET Docs : BeginLink(c, u, s, ds)
                 \/ \E share \in BOOLEAN : BeginView(c, u, s, share)
          PROVE  RequestsTyped' /\ LinksStand' /\ ViewsStand'
      BY <1>1, <2>1, BeginKeeps, LinksFrame, ViewsFrame DEF IInv
    <2>2. ASSUME NEW c \in Clients, CreateLink(c)
          PROVE  RequestsTyped' /\ LinksStand' /\ ViewsStand'
      BY <1>1, <2>2, CreateLinkKeeps, ViewsFrame DEF IInv
    <2>3. ASSUME NEW c \in Clients, CreateView(c)
          PROVE  RequestsTyped' /\ LinksStand' /\ ViewsStand'
      BY <1>1, <2>3, CreateViewKeeps, LinksFrame DEF IInv
    <2>4. ASSUME NEW u \in Users, NEW l \in links, RevokeLink(u, l) \/ ExpireLink(l)
          PROVE  RequestsTyped' /\ LinksStand' /\ ViewsStand'
      <3>1. links' \subseteq links /\ UNCHANGED <<views, reqs, fresh>>
        BY <2>4 DEF RevokeLink, ExpireLink
      <3>2. QED
        BY <1>1, <3>1, LinksFrame, ViewsFrame, RequestsFrame DEF IInv
    <2>5. ASSUME NEW u \in Users, NEW v \in views, DeleteView(u, v)
          PROVE  RequestsTyped' /\ LinksStand' /\ ViewsStand'
      <3>1. views' \subseteq views /\ UNCHANGED <<links, reqs, fresh>>
        BY <2>5 DEF DeleteView
      <3>2. QED
        BY <1>1, <3>1, LinksFrame, ViewsFrame, RequestsFrame DEF IInv
    <2>6. ASSUME NEW u \in Users, NEW v \in views, NEW share \in BOOLEAN, UpdateView(u, v, share)
          PROVE  RequestsTyped' /\ LinksStand' /\ ViewsStand'
      <3>1. UNCHANGED <<links, reqs, fresh>>
        BY <2>6 DEF UpdateView
      <3>2. QED
        BY <1>1, <2>6, <3>1, UpdateViewKeeps, LinksFrame, RequestsFrame DEF IInv
    <2>7. Boss \in Users
      BY AccessAssumption
    <2>8. QED
      BY <2>1, <2>2, <2>3, <2>4, <2>5, <2>6, <2>7 DEF Publishing
  <1>4. QED
    BY <1>2, <1>3 DEF IInv

-----------------------------------------------------------------------------
(* Signing a mailbox in.  A flow keeps its user, archive and eras.         *)

LEMMA PutKeepsOnly ==
  ASSUME NEW fs, NEW f PROVE Put(fs, f) \subseteq fs \cup {f}
  BY DEF Put

\* A flow that moves on stands as long as it did.
LEMMA FlowMoves ==
  ASSUME FlowsStand, UNCHANGED <<era, mu>>, NEW f \in flows, NEW g \in Flows,
         g.by = f.by, g.sys = f.sys, g.era = f.era, flows' = (flows \ {f}) \cup {g}
  PROVE  FlowsStand'
  <1>1. \A h : (Doomed(h) \/ FlowStands(h))' = (Doomed(h) \/ FlowStands(h))
    BY DEF Doomed, FlowStands, EraOf
  <1>2. Doomed(g) \/ FlowStands(g)
    BY DEF FlowsStand, Doomed, FlowStands
  <1>3. QED
    BY <1>1, <1>2 DEF FlowsStand

LEMMA StartKeeps ==
  ASSUME IInv, NEW u \in Users, NEW s \in Systems, StartOAuth(u, s)
  PROVE  FlowsStand' /\ RequestsTyped' /\ handed' = handed
  <1> DEFINE f == [n |-> fresh, by |-> u, sys |-> s, at |-> "starting", active |-> FALSE,
                   late |-> FALSE, era |-> EraOf(u, FlowRights(s))]
  <1>1. /\ UNCHANGED <<era, mu, handed, reqs>> /\ flows' \subseteq flows \cup {f}
        /\ fresh' = fresh + 1
    BY PutKeepsOnly DEF StartOAuth, people
  <1>2. f \in Flows /\ f.by = u /\ f.sys = s /\ f.era = EraOf(u, FlowRights(s))
    <2>1. EraOf(u, FlowRights(s)) \in UNION {[FlowRights(x) -> Nat] : x \in Systems}
      BY ErasTyped DEF IInv
    <2>2. fresh \in Nat
      BY DEF IInv, RequestsTyped
    <2>3. QED
      BY <2>1, <2>2 DEF Flows
  <1> HIDE DEF f
  <1>3. \A h : (Doomed(h) \/ FlowStands(h))' = (Doomed(h) \/ FlowStands(h))
    BY <1>1 DEF Doomed, FlowStands, EraOf
  <1>4. \A h \in flows' : h \in Flows /\ (Doomed(h) \/ FlowStands(h))
    BY <1>1, <1>2 DEF IInv, FlowsStand, FlowStands
  <1>5. FlowsStand'
    BY <1>3, <1>4 DEF FlowsStand
  <1>6. RequestsTyped'
    BY <1>1 DEF IInv, RequestsTyped
  <1>7. QED
    BY <1>1, <1>5, <1>6

LEMMA FlowKeeps ==
  ASSUME IInv, NEW f \in flows,
         \/ \E to \in {"waiting", "ready", "failed"} : DeviceCode(f, to)
         \/ DeviceCodeFails(f) \/ FlowExpires(f)
  PROVE  FlowsStand' /\ UNCHANGED <<reqs, fresh, handed>>
  <1>1. UNCHANGED <<era, mu, reqs, fresh, handed>>
    BY DEF DeviceCode, DeviceCodeFails, FlowExpires, people
  <1>2. f \in Flows
    BY DEF IInv, FlowsStand
  <1>3. ASSUME NEW to \in {"waiting", "ready", "failed"}, DeviceCode(f, to)
        PROVE  FlowsStand'
    <2> DEFINE g == [f EXCEPT !.at = to]
    <2>1. g \in Flows /\ g.by = f.by /\ g.sys = f.sys /\ g.era = f.era
      BY <1>2 DEF Flows
    <2>2. flows' = (flows \ {f}) \cup {g}
      BY <1>3 DEF DeviceCode
    <2> HIDE DEF g
    <2>3. QED
      BY <1>1, <2>1, <2>2, FlowMoves DEF IInv
  <1>4. ASSUME DeviceCodeFails(f)
        PROVE  FlowsStand'
    <2>1. flows' \subseteq flows
      BY <1>4 DEF DeviceCodeFails
    <2>2. QED
      BY <1>1, <2>1, FlowsFrame DEF IInv
  <1>5. ASSUME FlowExpires(f)
        PROVE  FlowsStand'
    <2> DEFINE g == [f EXCEPT !.late = TRUE]
    <2>1. g \in Flows /\ g.by = f.by /\ g.sys = f.sys /\ g.era = f.era
      BY <1>2 DEF Flows
    <2>2. flows' = (flows \ {f}) \cup {g}
      BY <1>5 DEF FlowExpires
    <2> HIDE DEF g
    <2>3. QED
      BY <1>1, <2>1, <2>2, FlowMoves DEF IInv
  <1>6. QED
    BY <1>1, <1>3, <1>4, <1>5

LEMMA BeginOAuthKeeps ==
  ASSUME IInv, NEW c \in Clients, NEW f \in flows, BeginOAuth(c, f)
  PROVE  FlowsStand' /\ RequestsTyped' /\ handed' = handed
  <1> DEFINE g == [f EXCEPT !.active = TRUE]
             r == [kind |-> "oauth", by |-> f.by, sys |-> f.sys, arg |-> f.n]
  <1>1. /\ UNCHANGED <<era, mu, fresh, handed>>
        /\ \/ flows' = flows \ {f} /\ reqs' = reqs
           \/ flows' = (flows \ {f}) \cup {g} /\ reqs' = [reqs EXCEPT ![c] = r]
    BY DEF BeginOAuth, people
  <1>2. f \in Flows
    BY DEF IInv, FlowsStand
  <1>3. g \in Flows /\ g.by = f.by /\ g.sys = f.sys /\ g.era = f.era
    BY <1>2 DEF Flows
  <1>4. RequestRow(r)
    BY DEF RequestRow
  <1> HIDE DEF g, r
  <1>5. CASE flows' = flows \ {f} /\ reqs' = reqs
    BY <1>1, <1>5, FlowsFrame, RequestsFrame DEF IInv
  <1>6. CASE flows' = (flows \ {f}) \cup {g} /\ reqs' = [reqs EXCEPT ![c] = r]
    BY <1>1, <1>3, <1>4, <1>6, FlowMoves, RequestMoves DEF IInv, RequestsTyped
  <1>7. QED
    BY <1>1, <1>5, <1>6

\* Nothing is doomed while the mutex is free, so what is completed stands.
LEMMA CompleteKeeps ==
  ASSUME IInv, NEW c \in Clients, CompleteOAuth(c)
  PROVE  FlowsStand' /\ RequestsTyped' /\ FlowEndsWithSeat'
  <1> DEFINE mine == {f \in flows : f.n = reqs[c].arg}
             back == {[f EXCEPT !.active = FALSE] : f \in mine}
  <1>1. /\ UNCHANGED <<era, mu, fresh>> /\ mu = Free /\ reqs' = [reqs EXCEPT ![c] = Idle]
        /\ \/ /\ handed' = handed \cup {[start |-> f.era, end |-> EraOf(f.by, FlowRights(f.sys))] : f \in mine}
              /\ flows' = flows \ mine
           \/ handed' = handed /\ flows' = (flows \ mine) \cup back
    BY DEF CompleteOAuth, people, Done
  <1>2. RequestsTyped'
    BY <1>1, RequestMoves, IdleRow DEF IInv, RequestsTyped
  <1>3. \A f \in flows : FlowStands(f) /\ f \in Flows
    BY <1>1 DEF IInv, FlowsStand, Doomed, Free
  <1>4. CASE flows' = flows \ mine
    <2>1. FlowsStand'
      BY <1>1, <1>4, FlowsFrame DEF IInv
    <2>2. \A h \in handed' : h.start = h.end
      BY <1>1, <1>3 DEF IInv, FlowEndsWithSeat, FlowStands
    <2>3. QED
      BY <1>2, <2>1, <2>2 DEF FlowEndsWithSeat
  <1>5. CASE handed' = handed /\ flows' = (flows \ mine) \cup back
    <2>1. \A f \in back : FlowStands(f) /\ f \in Flows
      <3>1. ASSUME NEW f \in flows PROVE FlowStands([f EXCEPT !.active = FALSE]) /\ [f EXCEPT !.active = FALSE] \in Flows
        <4> DEFINE g == [f EXCEPT !.active = FALSE]
        <4>1. f \in Flows /\ FlowStands(f)
          BY <1>3
        <4>2. g \in Flows /\ g.by = f.by /\ g.sys = f.sys /\ g.era = f.era
          BY <4>1 DEF Flows
        <4> HIDE DEF g
        <4>3. FlowStands(g) /\ g \in Flows
          BY <4>1, <4>2 DEF FlowStands
        <4>4. QED
          BY <4>3 DEF g
      <3>2. QED
        BY <3>1, Zenon
    <2>2. \A f : FlowStands(f)' = FlowStands(f)
      BY <1>1 DEF FlowStands, EraOf
    <2> HIDE DEF back
    <2>3. FlowsStand'
      BY <1>3, <1>5, <2>1, <2>2 DEF FlowsStand
    <2>4. QED
      BY <1>2, <1>5, <2>3 DEF FlowEndsWithSeat, IInv
  <1>6. QED
    BY <1>1, <1>4, <1>5

LEMMA SigningInKeeps == ASSUME IInv, SigningIn PROVE IInv'
  <1>1. UNCHANGED <<acct, era, links, views>>
    BY DEF SigningIn, StartOAuth, DeviceCode, DeviceCodeFails, FlowExpires, BeginOAuth,
           CompleteOAuth, people, published
  <1>2. FlowsStand' /\ RequestsTyped' /\ FlowEndsWithSeat'
    <2>1. ASSUME NEW u \in Users, NEW s \in Systems, StartOAuth(u, s)
          PROVE  FlowsStand' /\ RequestsTyped' /\ FlowEndsWithSeat'
      BY <2>1, StartKeeps DEF FlowEndsWithSeat, IInv
    <2>2. ASSUME NEW f \in flows,
                 \/ \E to \in {"waiting", "ready", "failed"} : DeviceCode(f, to)
                 \/ DeviceCodeFails(f) \/ FlowExpires(f)
          PROVE  FlowsStand' /\ RequestsTyped' /\ FlowEndsWithSeat'
      BY <2>2, FlowKeeps, RequestsFrame DEF FlowEndsWithSeat, IInv
    <2>3. ASSUME NEW c \in Clients, NEW f \in flows, BeginOAuth(c, f)
          PROVE  FlowsStand' /\ RequestsTyped' /\ FlowEndsWithSeat'
      BY <2>3, BeginOAuthKeeps DEF FlowEndsWithSeat, IInv
    <2>4. ASSUME NEW c \in Clients, CompleteOAuth(c)
          PROVE  FlowsStand' /\ RequestsTyped' /\ FlowEndsWithSeat'
      BY <2>4, CompleteKeeps
    <2>5. QED
      BY <2>1, <2>2, <2>3, <2>4 DEF SigningIn
  <1>3. QED
    BY <1>1, <1>2, PeopleFrame, LinksFrame, ViewsFrame DEF IInv

-----------------------------------------------------------------------------
(* Administration: a right that ends takes with it what rests on it, and a *)
(* right that does not end keeps its era.                                  *)

LEMMA ShelvesApart ==
  ASSUME NEW s \in Systems
  PROVE  s \notin Caps /\ s # "seat" /\ "seat" \notin Caps /\ s # NoSystem /\ {"links", "views"} \subseteq Caps
  BY AccessAssumption DEF Caps

LEMMA PatchKeeps ==
  ASSUME IInv, NEW a \in Users, NEW u \in Users, NEW role \in Roles, NEW caps \in CapSets,
         NEW given \in BOOLEAN, NEW on \in BOOLEAN, PatchUser(a, u, role, caps, given, on)
  PROVE  IInv'
  <1> DEFINE kept == NextCaps(u, role, caps, given)
             next == [role |-> role, on |-> on, caps |-> kept]
             lost == {x \in Caps : Holds(u, x) /\ ~(role = "admin" \/ x \in kept)}
             over == lost \cup (IF ~on /\ acct[u].on THEN {"seat"} ELSE {})
             row == [r \in Rights |-> IF r \in over THEN era[u][r] + 1 ELSE era[u][r]]
  <1>1. /\ acct' = [acct EXCEPT ![u] = next] /\ era' = Ended(u, over)
        /\ links' = RevokeShareLinksFor(u, lost) /\ views' = RevokeSharedViewsFor(u, lost)
        /\ mu' = (IF ~on THEN [users |-> {u}, sys |-> NoSystem] ELSE mu) /\ (~on => mu = Free)
        /\ UNCHANGED <<flows, handed, reqs, fresh>>
    BY DEF PatchUser
  <1>2. kept \in SUBSET Caps
    BY AccessAssumption DEF NextCaps, IInv, PeopleTyped
  <1>3. next \in [role : Roles, on : BOOLEAN, caps : SUBSET Caps]
    BY <1>2
  <1>4. next.role = role /\ next.caps = kept
    OBVIOUS
  <1> HIDE DEF kept, next
  <1>5. /\ acct' \in [Users -> [role : Roles, on : BOOLEAN, caps : SUBSET Caps]]
        /\ acct'[u] = next /\ \A v \in Users : v # u => acct'[v] = acct[v]
    BY <1>1, <1>3 DEF IInv, PeopleTyped
  <1>6. lost \subseteq Caps /\ over \subseteq lost \cup {"seat"} /\ (on => over = lost)
    OBVIOUS
  <1> HIDE DEF over
  <1>7. era' = [era EXCEPT ![u] = row] /\ row \in [Rights -> Nat]
    <2>1. era[u] \in [Rights -> Nat] /\ DOMAIN era[u] = Rights
      BY DEF IInv, PeopleTyped
    <2>2. era' = [era EXCEPT ![u] =
                    [r \in DOMAIN era[u] |-> IF r \in over THEN era[u][r] + 1 ELSE era[u][r]]]
      BY <1>1 DEF Ended, IInv, PeopleTyped
    <2>3. row \in [Rights -> Nat]
      BY <2>1
    <2>4. QED
      BY <2>1, <2>2, <2>3
  <1>8. \A r \in Rights : r \notin over => row[r] = era[u][r]
    OBVIOUS
  <1> HIDE DEF row
  <1>9. /\ era' \in [Users -> [Rights -> Nat]]
        /\ era'[u] = row /\ \A v \in Users : v # u => era'[v] = era[v]
    BY <1>7 DEF IInv, PeopleTyped
  <1>10. PeopleTyped'
    BY <1>5, <1>9 DEF PeopleTyped
  <1>11. \A v \in Users, x \in Caps : (v = u => x \notin lost) /\ Holds(v, x) => Holds(v, x)'
    BY <1>4, <1>5 DEF Holds
  <1>12. \A v \in Users : \A R \in SUBSET Rights :
           (v = u => R \cap over = {}) => EraOf(v, R)' = EraOf(v, R)
    BY <1>8, <1>9 DEF EraOf
  <1>13. \A R \in SUBSET Rights : R \cap lost = {} /\ "seat" \notin R => R \cap over = {}
    BY <1>6
  <1> HIDE DEF lost
  <1>14. LinksStand'
    <2>1. ASSUME NEW l \in links' PROVE l \in links /\ (l.by = u => "links" \notin lost)
      BY <1>1, <2>1 DEF RevokeShareLinksFor
    <2>2. ASSUME NEW l \in links' PROVE LinkStands(l)'
      <3>1. l.by \in Users /\ l.sys \in Systems /\ LinkStands(l)
        BY <2>1, <2>2 DEF IInv, LinksStand
      <3> DEFINE R == {"links", l.sys}
      <3>2. R \in SUBSET Rights /\ "seat" \notin R
        BY <3>1, ShelvesApart DEF Rights
      <3>3. l.by = u => R \cap lost = {}
        BY <1>6, <2>1, <2>2, <3>1, ShelvesApart
      <3>4. EraOf(l.by, R)' = EraOf(l.by, R)
        BY <1>12, <1>13, <3>1, <3>2, <3>3
      <3>5. "links" \in Caps
        BY DEF Caps
      <3>6. Holds(l.by, "links")'
        BY <1>11, <2>1, <2>2, <3>1, <3>5 DEF LinkStands
      <3>7. QED
        BY <3>1, <3>4, <3>6 DEF LinkStands
    <2>3. QED
      BY <2>1, <2>2 DEF LinksStand, IInv
  <1>15. ViewsStand'
    <2>1. ASSUME NEW v \in views' PROVE v \in Views /\ (v.shared => v \in views /\ (v.by = u => "views" \notin lost))
      <3>1. PICK w \in views : v = IF w.by = u /\ "views" \in lost THEN [w EXCEPT !.shared = FALSE] ELSE w
        BY <1>1, <2>1 DEF RevokeSharedViewsFor
      <3>2. w \in Views
        BY DEF IInv, ViewsStand
      <3> DEFINE z == [w EXCEPT !.shared = FALSE]
      <3>3. z \in Views /\ z.shared = FALSE
        BY <3>2 DEF Views
      <3>4. v = z \/ (v = w /\ ~(w.by = u /\ "views" \in lost))
        BY <3>1
      <3> HIDE DEF z
      <3>5. QED
        BY <3>2, <3>3, <3>4
    <2>2. ASSUME NEW v \in views', v.shared PROVE ViewStands(v)'
      <3>1. v \in views /\ v \in Views /\ (v.by = u => "views" \notin lost)
        BY <2>1, <2>2
      <3>2. v.by \in Users
        BY <3>1 DEF Views
      <3>3. ViewStands(v)
        BY <2>2, <3>1 DEF IInv, ViewsStand
      <3>4. {"views"} \in SUBSET Rights /\ "seat" \notin {"views"} /\ "views" \in Caps
        BY DEF Rights, Caps
      <3>5. EraOf(v.by, {"views"})' = EraOf(v.by, {"views"})
        BY <1>12, <1>13, <3>1, <3>2, <3>4
      <3>6. Holds(v.by, "views")'
        BY <1>11, <3>1, <3>2, <3>3, <3>4 DEF ViewStands
      <3>7. QED
        BY <3>3, <3>5, <3>6 DEF ViewStands
    <2>3. QED
      BY <2>1, <2>2 DEF ViewsStand
  <1>16. FlowsStand'
    <2>1. ASSUME NEW f \in flows PROVE (Doomed(f) \/ FlowStands(f))'
      <3>1. f \in Flows
        BY DEF IInv, FlowsStand
      <3>2. f.by \in Users /\ f.sys \in Systems
        BY <3>1 DEF Flows
      <3>3. CASE ~on /\ f.by = u
        BY <1>1, <3>3 DEF Doomed
      <3>4. CASE on \/ f.by # u
        <4> DEFINE R == FlowRights(f.sys)
        <4>1. R \in SUBSET Rights /\ R \cap Caps = {}
          BY <3>2, ShelvesApart DEF Rights, FlowRights
        <4>2. f.by = u => R \cap over = {}
          BY <1>6, <3>4, <4>1
        <4>3. EraOf(f.by, R)' = EraOf(f.by, R)
          BY <1>12, <3>2, <4>1, <4>2
        <4>4. FlowStands(f)' = FlowStands(f)
          BY <4>3 DEF FlowStands
        <4>5. CASE on
          BY <1>1, <4>4, <4>5 DEF IInv, FlowsStand, Doomed
        <4>6. CASE ~on
          BY <1>1, <4>4, <4>6 DEF IInv, FlowsStand, Doomed, Free
        <4>7. QED
          BY <4>5, <4>6
      <3>5. QED
        BY <3>3, <3>4
    <2>2. QED
      BY <1>1, <2>1 DEF FlowsStand, IInv
  <1>17. RequestsTyped' /\ FlowEndsWithSeat'
    BY <1>1, RequestsFrame DEF IInv, FlowEndsWithSeat
  <1>18. QED
    BY <1>10, <1>14, <1>15, <1>16, <1>17 DEF IInv

LEMMA MembersKeep ==
  ASSUME IInv, NEW a \in Users, NEW s \in Systems, NEW wanted \in SUBSET Users,
         PutSystemMembers(a, s, wanted)
  PROVE  IInv'
  <1> DEFINE gone == {u \in Users : <<u, s>> \in member} \ wanted
  <1>1. /\ links' = {l \in links : ~(l.sys = s /\ l.by \in gone)}
        /\ mu' = (IF gone # {} THEN [users |-> gone, sys |-> s] ELSE mu) /\ (gone # {} => mu = Free)
        /\ era' = [u \in Users |-> IF u \in gone THEN [era[u] EXCEPT ![s] = @ + 1] ELSE era[u]]
        /\ UNCHANGED <<acct, views, flows, handed, reqs, fresh>>
    BY DEF PutSystemMembers
  <1> HIDE DEF gone
  <1>2. s \in Rights
    BY DEF Rights
  <1>3. /\ era' \in [Users -> [Rights -> Nat]]
        /\ \A u \in Users, r \in Rights : u \notin gone \/ r # s => era'[u][r] = era[u][r]
    BY <1>1, <1>2 DEF IInv, PeopleTyped
  <1>4. PeopleTyped'
    BY <1>1, <1>3 DEF IInv, PeopleTyped
  <1>5. \A u \in Users : \A R \in SUBSET Rights :
          u \notin gone \/ s \notin R => EraOf(u, R)' = EraOf(u, R)
    BY <1>3 DEF EraOf
  <1>6. \A u, x : Holds(u, x)' = Holds(u, x)
    BY <1>1 DEF Holds
  <1>7. LinksStand'
    <2>1. ASSUME NEW l \in links' PROVE LinkStands(l)'
      <3>1. l \in links /\ ~(l.sys = s /\ l.by \in gone)
        BY <1>1, <2>1
      <3>2. l.by \in Users /\ l.sys \in Systems /\ LinkStands(l)
        BY <3>1 DEF IInv, LinksStand
      <3> DEFINE R == {"links", l.sys}
      <3>3. R \in SUBSET Rights /\ "links" # s
        BY <3>2, ShelvesApart DEF Rights
      <3>4. EraOf(l.by, R)' = EraOf(l.by, R)
        BY <1>5, <3>1, <3>2, <3>3
      <3>5. QED
        BY <1>6, <3>2, <3>4 DEF LinkStands
    <2>2. QED
      BY <1>1, <2>1 DEF LinksStand, IInv
  <1>8. ViewsStand'
    <2>1. ASSUME NEW v \in views PROVE ViewStands(v)' = ViewStands(v)
      <3>1. v.by \in Users
        BY DEF IInv, ViewsStand, Views
      <3>2. {"views"} \in SUBSET Rights /\ s \notin {"views"}
        BY ShelvesApart DEF Rights
      <3>3. EraOf(v.by, {"views"})' = EraOf(v.by, {"views"})
        BY <1>5, <3>1, <3>2
      <3>4. QED
        BY <1>6, <3>3 DEF ViewStands
    <2>2. QED
      BY <1>1, <2>1 DEF ViewsStand, IInv
  <1>9. FlowsStand'
    <2>1. ASSUME NEW f \in flows PROVE (Doomed(f) \/ FlowStands(f))'
      <3>1. f.by \in Users /\ f.sys \in Systems
        BY DEF IInv, FlowsStand, Flows
      <3>2. CASE f.by \in gone /\ f.sys = s
        BY <1>1, <3>2 DEF Doomed
      <3>3. CASE ~(f.by \in gone /\ f.sys = s)
        <4> DEFINE R == FlowRights(f.sys)
        <4>1. R \in SUBSET Rights /\ "seat" # s
          BY <3>1, ShelvesApart DEF Rights, FlowRights
        <4>2. f.by \notin gone \/ s \notin R
          BY <3>3, <4>1 DEF FlowRights
        <4>3. EraOf(f.by, R)' = EraOf(f.by, R)
          BY <1>5, <3>1, <4>1, <4>2
        <4>4. FlowStands(f)' = FlowStands(f)
          BY <4>3 DEF FlowStands
        <4>5. CASE gone = {}
          BY <1>1, <4>4, <4>5 DEF IInv, FlowsStand, Doomed
        <4>6. CASE gone # {}
          BY <1>1, <4>4, <4>6 DEF IInv, FlowsStand, Doomed, Free
        <4>7. QED
          BY <4>5, <4>6
      <3>4. QED
        BY <3>2, <3>3
    <2>2. QED
      BY <1>1, <2>1 DEF FlowsStand, IInv
  <1>10. RequestsTyped' /\ FlowEndsWithSeat'
    BY <1>1, RequestsFrame DEF IInv, FlowEndsWithSeat
  <1>11. QED
    BY <1>4, <1>7, <1>8, <1>9, <1>10 DEF IInv

LEMMA InvalidateKeeps == ASSUME IInv, InvalidateMember PROVE IInv'
  <1>1. /\ UNCHANGED <<acct, era, links, views, handed, reqs, fresh>>
        /\ flows' = {f \in flows : ~Doomed(f)}
    BY DEF InvalidateMember, Doomed, people, published
  <1>2. \A f : FlowStands(f)' = FlowStands(f)
    BY <1>1 DEF FlowStands, EraOf
  <1>3. FlowsStand'
    BY <1>1, <1>2 DEF FlowsStand, IInv
  <1>4. QED
    BY <1>1, <1>3, PeopleFrame, RequestsFrame, LinksFrame, ViewsFrame DEF IInv, FlowEndsWithSeat

LEMMA RestartKeeps == ASSUME IInv, Restart PROVE IInv'
  <1>1. /\ UNCHANGED <<acct, era, links, views, handed, fresh>>
        /\ flows' = {} /\ reqs' = [c \in Clients |-> Idle]
    BY DEF Restart, people, published
  <1>2. FlowsStand' /\ RequestsTyped'
    BY <1>1, IdleRow DEF FlowsStand, RequestsTyped, IInv
  <1>3. QED
    BY <1>1, <1>2, PeopleFrame, LinksFrame, ViewsFrame DEF IInv, FlowEndsWithSeat

LEMMA StepSound == IInv /\ [Next]_vars => IInv'
  <1> SUFFICES ASSUME IInv, [Next]_vars PROVE IInv'
    OBVIOUS
  <1>1. CASE Administering
    <2>1. ASSUME NEW a \in Users, NEW u \in Users, NEW role \in {"admin", "member"},
                 NEW caps \in CapSets, NEW given \in BOOLEAN, NEW on \in BOOLEAN,
                 PatchUser(a, u, role, caps, given, on)
          PROVE  IInv'
      BY <2>1, PatchKeeps DEF Roles
    <2>2. ASSUME NEW a \in Users, NEW s \in Systems, NEW wanted \in SUBSET Users,
                 PutSystemMembers(a, s, wanted)
          PROVE  IInv'
      BY <2>2, MembersKeep
    <2>3. QED
      BY <1>1, <2>1, <2>2, InvalidateKeeps, RestartKeeps DEF Administering
  <1>2. CASE UNCHANGED vars
    BY <1>2, PeopleFrame, RequestsFrame, LinksFrame, ViewsFrame, FlowsFrame
       DEF vars, IInv, FlowEndsWithSeat
  <1>3. QED
    BY <1>1, <1>2, SharingKeeps, PublishingKeeps, SigningInKeeps DEF Next

LEMMA AccessSound == Spec => []IInv
  BY InitSound, StepSound, PTL DEF Spec

(* Every link and every shared view stems from after its creator last lost *)
(* the capability, or the archive, however many requests were in flight    *)
(* when that happened (core/api users.go, systems.go, share_links.go,      *)
(* saved_views.go).                                                        *)
THEOREM RevocationIsTerminal == Spec => []RevokeIsTerminal
  <1>1. IInv => RevokeIsTerminal
    BY DEF IInv, LinksStand, LinkStands, ViewsStand, ViewStands, RevokeIsTerminal
  <1>2. QED
    BY <1>1, AccessSound, PTL

(* No mailbox sign-in begun before its user lost the seat is completed,    *)
(* because the administrator's handler holds the flow store's mutex from   *)
(* before its commit until the flows are dropped (core/api                 *)
(* emailaccounts.go, users.go, systems.go).                                *)
THEOREM FlowsEndWithSeat == Spec => []FlowEndsWithSeat
  <1>1. IInv => FlowEndsWithSeat
    BY DEF IInv
  <1>2. QED
    BY <1>1, AccessSound, PTL

(* What a link gives to a stranger its creator may see at that moment, and *)
(* the page and the download agree (core/api share_links.go).              *)
THEOREM LinksShowNoMore == Spec => []LinkShowsNoMore
  <1>1. IInv => LinkShowsNoMore
    <2> SUFFICES ASSUME IInv, NEW l \in links, LoadShareByToken(l)
                 PROVE  /\ LoadShareDocs(l) \subseteq {d \in Docs : Can(Principal(l.by), d, "view")}
                        /\ LoadShareDocs(l) = {d \in Docs : SharePublicDownload(l, d)}
      BY DEF LinkShowsNoMore
    <2>1. l.docs \subseteq Docs
      BY DEF IInv, LinksStand
    <2>2. LoadShareDocs(l) = {d \in Docs : SharePublicDownload(l, d)}
      BY <2>1 DEF LoadShareDocs, SharePublicDownload
    <2>3. ASSUME NEW d \in LoadShareDocs(l)
          PROVE  d \in Docs /\ Can(Principal(l.by), d, "view")
      <3> DEFINE p == Principal(l.by)
      <3>1. p.user = l.by /\ p.role = acct[l.by].role /\ p.sys = NoSystem /\ p.tok = NoSystem
        BY DEF Principal
      <3> HIDE DEF p
      <3>2. CanEnter(l.by, SystemOf[d])
        BY <2>3 DEF LoadShareByToken, LoadShareDocs
      <3>3. Can(p, d, "view")
        BY <2>3, <3>1, <3>2 DEF Can, InBoundary, LoadShareDocs
      <3>4. QED
        BY <2>1, <2>3, <3>3 DEF p, LoadShareDocs
    <2>4. QED
      BY <2>2, <2>3
  <1>2. QED
    BY <1>1, AccessSound, PTL

-----------------------------------------------------------------------------
(* The three forms of the decision.                                        *)

LEMMA BatchAgrees ==
  ASSUME NEW p, NEW want
  PROVE  CanDocuments(p, Docs, want) = {d \in Docs : Can(p, d, want)}
  <1> DEFINE named == {g \in grants : g.to \in Named(p)}
             bare == [doc : Docs, bits : {{}}]
             given == {[doc |-> g.doc, bits |-> g.bits] : g \in named}
             rows == {r \in bare \cup given : r.doc \in Docs /\ InBoundary(p, r.doc)}
             sure(d) == p.role = "admin" \/ Owner[d] = p.user
             yes == {r.doc : r \in {q \in rows : sure(q.doc) \/ want \in q.bits}}
  <1>1. CanDocuments(p, Docs, want) = yes
    BY DEF CanDocuments
  <1>2. ASSUME NEW d \in yes
        PROVE  d \in Docs /\ Can(p, d, want)
    <2>1. PICK r \in rows : d = r.doc /\ (sure(r.doc) \/ want \in r.bits)
      BY <1>2
    <2>2. d \in Docs /\ InBoundary(p, d)
      BY <2>1
    <2>3. CASE sure(d)
      BY <2>2, <2>3 DEF Can
    <2>4. CASE want \in r.bits
      <3>1. r \in given
        BY <2>1, <2>4
      <3>2. PICK g \in named : r = [doc |-> g.doc, bits |-> g.bits]
        BY <3>1
      <3>3. g \in grants /\ g.doc = d /\ g.to \in Named(p) /\ want \in g.bits
        BY <2>1, <2>4, <3>2
      <3>4. want \in EffectivePerms(p, d)
        BY <3>3 DEF EffectivePerms
      <3>5. QED
        BY <2>2, <3>4 DEF Can
    <2>5. QED
      BY <2>1, <2>3, <2>4
  <1>3. ASSUME NEW d \in Docs, Can(p, d, want)
        PROVE  d \in yes
    <2>1. InBoundary(p, d)
      BY <1>3 DEF Can
    <2>2. CASE sure(d)
      <3> DEFINE r == [doc |-> d, bits |-> {}]
      <3>1. r \in bare /\ r.doc = d
        OBVIOUS
      <3> HIDE DEF r
      <3>2. r \in rows
        BY <2>1, <3>1
      <3>3. QED
        BY <2>2, <3>1, <3>2
    <2>3. CASE want \in EffectivePerms(p, d)
      <3>1. PICK g \in grants : g.doc = d /\ g.to \in Named(p) /\ want \in g.bits
        BY <2>3 DEF EffectivePerms
      <3> DEFINE r == [doc |-> g.doc, bits |-> g.bits]
      <3>2. r \in given /\ r.doc = d /\ r.bits = g.bits
        BY <3>1
      <3> HIDE DEF r
      <3>3. r \in rows
        BY <2>1, <3>2
      <3>4. QED
        BY <3>1, <3>2, <3>3
    <2>4. QED
      BY <1>3, <2>2, <2>3 DEF Can
  <1>4. QED
    BY <1>1, <1>2, <1>3

LEMMA FilterAgrees ==
  ASSUME NEW p \in Principals, NEW d \in Docs
  PROVE  d \in Visible(p, SystemOf[d]) <=> Can(p, d, "view")
  <1> DEFINE Bound == Systems \cup {NoSystem, Elsewhere}
             q == [p EXCEPT !.sys = SystemOf[d]]
  <1>1. PICK G : p \in [user : Users, role : {"admin", "member"}, sys : Bound, tok : Bound, groups : G]
    BY DEF Principals
  <1>2. q.sys = SystemOf[d] /\ q.tok = p.tok /\ q.user = p.user
    BY <1>1
  <1>3. InBoundary(q, d) <=> (p.tok # NoSystem => SystemOf[d] = p.tok) /\ CanEnter(p.user, SystemOf[d])
    BY <1>2 DEF InBoundary
  <1>4. d \in Visible(p, SystemOf[d]) <=>
          /\ p.sys = NoSystem \/ p.sys = SystemOf[d]
          /\ InBoundary(q, d)
          /\ \/ p.role = "admin" \/ Owner[d] = p.user
             \/ \E g \in grants : g.doc = d /\ "view" \in g.bits /\ g.to \in Named(p)
    BY DEF Visible
  <1> HIDE DEF q
  <1>5. "view" \in EffectivePerms(p, d) <=>
          \E g \in grants : g.doc = d /\ "view" \in g.bits /\ g.to \in Named(p)
    BY DEF EffectivePerms
  <1>6. InBoundary(p, d) <=> (p.sys = NoSystem \/ p.sys = SystemOf[d]) /\ InBoundary(q, d)
    BY <1>3 DEF InBoundary
  <1>7. QED
    BY <1>4, <1>5, <1>6 DEF Can

(* The check of one document, of a batch and the filter of lists agree for *)
(* every principal whatever the grants, groups and memberships are         *)
(* (core/authz authz.go, store.go, visibility.go).                         *)
THEOREM DecisionsAlwaysAgree == Spec => []DecisionsAgree
  <1>1. DecisionsAgree
    BY BatchAgrees, FilterAgrees DEF DecisionsAgree
  <1>2. QED
    BY <1>1, PTL
=============================================================================
