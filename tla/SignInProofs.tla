---------------------------- MODULE SignInProofs ----------------------------
(***************************************************************************)
(* That one-time secrets are honoured once, that an enabled second factor  *)
(* guards every local entry and that keys end with the membership they     *)
(* were made in, for any number of accounts, archives and requests.  Then, *)
(* of the mailbox, that a cursor passes only what was dealt with and that  *)
(* the running watcher matches its row.                                    *)
(***************************************************************************)
EXTENDS SignIn, MailboxWatch, FiniteSetTheorems, WellFoundedInduction, TLAPS

-----------------------------------------------------------------------------
(* Types.                                                                  *)
Vias == {"local", "oidc", "setup"}
Codes == [kind : {"none", "totp", "recovery", "pairing"}, n : Nat, step : Nat]
Sessions == [id : Nat, user : Users, via : Vias, proof : Nat]
Tokens == [user : Users, sys : Systems, spell : Nat]
Pairings == [code : Nat, user : Users, sys : Systems, via : Vias, proof : Nat, spell : Nat]
Enrols == [user : Users, sess : Sessions, seed : Nat]

(* Requests made with a session in hand.                                   *)
SessionKinds == {"email", "codes", "disable", "reset", "pair", "mint", "sync"}

Requests == [kind : {"idle", "login", "token", "issue"} \cup SessionKinds,
             pc : {"idle", "commit", "reject", "rotate"},
             user : Users, sess : Sessions, use : Codes]

(* How long an account is blocked is a power of two, of which the provers  *)
(* know nothing: until stays without a type.                               *)
FactorRow(f) ==
  /\ f = [seed |-> f.seed, step |-> f.step, fails |-> f.fails, until |-> f.until]
  /\ f.seed \in Nat /\ f.step \in Nat /\ f.fails \in Nat

FactorsTyped ==
  /\ factor = [u \in Users |-> factor[u]] /\ \A u \in Users : FactorRow(factor[u])
  /\ codes \in [Users -> SUBSET Nat]

KeysTyped ==
  /\ spell \in [Users \X Systems -> Nat] /\ member \subseteq Users \X Systems
  /\ tokens \subseteq Tokens /\ pairings \subseteq Pairings

EntryTyped == sessions \subseteq Sessions /\ enrols \subseteq Enrols
RequestsTyped == reqs \in [Clients -> Requests]
NumbersTyped == fresh \in Nat \ {0} /\ clock \in Nat \ {0} /\ spent \subseteq Codes

Typed == FactorsTyped /\ KeysTyped /\ EntryTyped /\ RequestsTyped /\ NumbersTyped

-----------------------------------------------------------------------------
(* What a request carries to its transaction: its own session, a session   *)
(* to be issued that no password made, and no code of an account without   *)
(* a factor.                                                               *)
RequestSound(r) ==
  /\ r.kind \in SessionKinds => r.sess.user = r.user
  /\ r.pc = "rotate" => r.kind = "email"
  /\ r.kind = "issue" => r.sess.via # "local"
  /\ r.pc = "commit" /\ r.use.kind = "totp" => r.use.n # 0
  /\ r.use.kind = "none" => r.use = NoCode
  /\ r.use.kind # "pairing"

RequestsSound == \A c \in Clients : RequestSound(reqs[c])

(* No two places hold the same secret, and those to come hold none yet.  A *)
(* sealed seed that was used is bound to a session that is gone.           *)
SecretsApart ==
  /\ \A u \in Users : factor[u].seed < fresh
  /\ \A u, v \in Users : factor[u].seed # 0 /\ factor[u].seed = factor[v].seed => u = v
  /\ \A u \in Users : \A n \in codes[u] : n < fresh
  /\ \A u, v \in Users : \A n \in codes[u] : n \in codes[v] => u = v
  /\ \A s \in sessions : s.id < fresh
  /\ \A e \in enrols :
       /\ e.user = e.sess.user /\ e.sess.id < fresh /\ 0 < e.seed /\ e.seed < fresh
       /\ \A u \in Users : factor[u].seed = e.seed => e.sess \notin sessions
  /\ \A e, f \in enrols : e.seed = f.seed => e = f
  /\ \A p \in pairings : p.code < fresh
  /\ \A p, q \in pairings : p.code = q.code => p = q

(* A secret that cannot be honoured any more.                              *)
Dead(x) ==
  /\ x.n < fresh
  /\ x.kind = "totp" =>
       /\ x.n # 0
       /\ \A u \in Users : factor[u].seed = x.n => x.step <= factor[u].step
       /\ \A e \in enrols : e.seed = x.n => e.sess \notin sessions
  /\ x.kind = "recovery" => \A u \in Users : x.n \notin codes[u]
  /\ x.kind = "pairing" => \A p \in pairings : p.code # x.n

SpentAreDead == \A x \in spent : Dead(x)

IInv ==
  /\ Typed /\ RequestsSound /\ SecretsApart /\ SpentAreDead
  /\ HonouredOnce /\ FactorGuardsEntry /\ KeysEndWithMembership

-----------------------------------------------------------------------------
(* What a step may do to secrets, entries, keys and honoured codes.        *)

Made(n) == fresh <= n /\ n < fresh'

(* A factor is kept with its last step moving on, dropped, or enabled with *)
(* a sealed seed whose session ends with it.                               *)
SeedStep(u) ==
  \/ factor'[u].seed = 0
  \/ factor'[u].seed = factor[u].seed /\ factor[u].step <= factor'[u].step
  \/ \E e \in enrols : /\ e.user = u /\ factor'[u].seed = e.seed
                       /\ e.sess \in sessions /\ e.sess \notin sessions'

SecretsStep ==
  /\ fresh <= fresh'
  /\ \A u \in Users : SeedStep(u)
  /\ \A u \in Users : \A n \in codes'[u] : n \in codes[u] \/ Made(n)
  /\ \A u, v \in Users : \A n \in codes'[u] : Made(n) /\ n \in codes'[v] => u = v
  /\ \A s \in sessions' : s \in sessions \/ Made(s.id)
  /\ \A e \in enrols' :
       e \in enrols \/ (Made(e.seed) /\ e.user = e.sess.user /\ e.sess \in sessions)
  /\ \A e, f \in enrols' : Made(e.seed) /\ e.seed = f.seed => e = f
  /\ \A p \in pairings' : p \in pairings \/ Made(p.code)
  /\ \A p, q \in pairings' : Made(p.code) /\ p.code = q.code => p = q

(* Dead, after the step.                                                   *)
DeadNext(x) ==
  /\ x.n < fresh'
  /\ x.kind = "totp" =>
       /\ x.n # 0
       /\ \A u \in Users : factor'[u].seed = x.n => x.step <= factor'[u].step
       /\ \A e \in enrols' : e.seed = x.n => e.sess \notin sessions'
  /\ x.kind = "recovery" => \A u \in Users : x.n \notin codes'[u]
  /\ x.kind = "pairing" => \A p \in pairings' : p.code # x.n

HonourStep ==
  \/ spent' = spent /\ reused' = reused
  \/ \E x \in Codes : x \notin spent /\ Honour(x) /\ DeadNext(x)

(* Every entry is one that was, or is as good as one.                      *)
GuardStep ==
  \A u \in Users : factor'[u].seed # 0 =>
    \A e \in sessions' \cup pairings' : e.user = u =>
      \/ e.via # "local" \/ e.proof = factor'[u].seed
      \/ /\ factor'[u].seed = factor[u].seed
         /\ \E f \in sessions \cup pairings :
              f.user = u /\ f.via = e.via /\ f.proof = e.proof

KeysStep ==
  \A k \in tokens' \cup pairings' :
    \/ k \in tokens \cup pairings /\ spell'[k.user, k.sys] = spell[k.user, k.sys]
    \/ k.spell = spell'[k.user, k.sys]

LEMMA SecretNumbers ==
  ASSUME Typed
  PROVE  /\ fresh \in Nat /\ 0 < fresh
         /\ \A u \in Users : factor[u].seed \in Nat /\ factor[u].step \in Nat
         /\ \A u \in Users : codes[u] \subseteq Nat
         /\ \A s \in sessions : s.id \in Nat
         /\ \A e \in enrols : e.seed \in Nat /\ e.sess.id \in Nat
         /\ \A p \in pairings : p.code \in Nat
         /\ \A x \in spent : x.n \in Nat /\ x.step \in Nat
  BY DEF Typed, FactorsTyped, FactorRow, KeysTyped, EntryTyped, NumbersTyped, Sessions,
         Enrols, Pairings, Codes

LEMMA NextNumbers ==
  ASSUME FactorsTyped', KeysTyped', EntryTyped', NumbersTyped'
  PROVE  /\ fresh' \in Nat /\ 0 < fresh'
         /\ \A u \in Users : factor'[u].seed \in Nat /\ factor'[u].step \in Nat
         /\ \A u \in Users : codes'[u] \subseteq Nat
         /\ \A s \in sessions' : s.id \in Nat
         /\ \A e \in enrols' : e.seed \in Nat /\ e.sess.id \in Nat
         /\ \A p \in pairings' : p.code \in Nat
  BY DEF FactorsTyped, FactorRow, KeysTyped, EntryTyped, NumbersTyped, Sessions,
         Enrols, Pairings

(* A session that ended does not come back.                                *)
LEMMA GoneForGood ==
  ASSUME Typed, SecretsApart, SecretsStep, NEW e \in enrols, e.sess \notin sessions
  PROVE  e.sess \notin sessions'
  <1>1. e.sess.id < fresh /\ e.sess.id \in Nat /\ fresh \in Nat
    BY SecretNumbers DEF SecretsApart
  <1>2. ~Made(e.sess.id)
    BY <1>1 DEF Made
  <1>3. QED
    BY <1>2 DEF SecretsStep

LEMMA ApartKept ==
  ASSUME Typed, SecretsApart, SecretsStep,
         FactorsTyped', KeysTyped', EntryTyped', NumbersTyped'
  PROVE  SecretsApart'
  <1>1. fresh \in Nat /\ fresh' \in Nat /\ fresh <= fresh' /\ 0 < fresh /\ 0 < fresh'
    BY SecretNumbers, NextNumbers DEF SecretsStep
  <1>2. ASSUME NEW n \in Nat, Made(n) PROVE n < fresh' /\ ~(n < fresh) /\ 0 < n
    BY <1>1, <1>2 DEF Made
  <1>3. ASSUME NEW n \in Nat, n < fresh PROVE n < fresh' /\ ~Made(n)
    BY <1>1, <1>3 DEF Made
  <1>4. ASSUME NEW u \in Users PROVE factor'[u].seed < fresh'
    <2>1. CASE factor'[u].seed = 0
      BY <1>1, <2>1
    <2>2. CASE factor'[u].seed = factor[u].seed
      BY <1>3, <2>2, SecretNumbers DEF SecretsApart
    <2>3. CASE \E e \in enrols : factor'[u].seed = e.seed
      BY <1>3, <2>3, SecretNumbers DEF SecretsApart
    <2>4. QED
      BY <2>1, <2>2, <2>3 DEF SecretsStep, SeedStep
  <1>5. ASSUME NEW u \in Users, NEW v \in Users, factor'[u].seed # 0,
               factor'[u].seed = factor'[v].seed
        PROVE  u = v
    <2>1. CASE factor'[u].seed = factor[u].seed /\ factor'[v].seed = factor[v].seed
      BY <1>5, <2>1 DEF SecretsApart
    <2>2. ASSUME NEW x \in Users, NEW y \in Users, factor'[x].seed = factor[x].seed,
                 factor'[x].seed = factor'[y].seed
          PROVE  ~\E e \in enrols : factor'[y].seed = e.seed /\ e.sess \in sessions
      BY <2>2 DEF SecretsApart
    <2>3. ASSUME NEW e \in enrols, NEW f \in enrols, e.user = u, f.user = v,
                 factor'[u].seed = e.seed, factor'[v].seed = f.seed
          PROVE  u = v
      BY <1>5, <2>3 DEF SecretsApart
    <2>4. SeedStep(u) /\ SeedStep(v)
      BY DEF SecretsStep
    <2>5. QED
      BY <1>5, <2>1, <2>2, <2>3, <2>4 DEF SeedStep
  <1>6. ASSUME NEW u \in Users, NEW n \in codes'[u] PROVE n < fresh'
    <2>1. n \in Nat
      BY NextNumbers
    <2>2. CASE n \in codes[u]
      BY <1>3, <2>1, <2>2 DEF SecretsApart
    <2>3. CASE Made(n)
      BY <1>2, <2>1, <2>3
    <2>4. QED
      BY <2>2, <2>3 DEF SecretsStep
  <1>7. ASSUME NEW u \in Users, NEW v \in Users, NEW n \in codes'[u], n \in codes'[v]
        PROVE  u = v
    <2>1. CASE Made(n)
      BY <1>7, <2>1 DEF SecretsStep
    <2>2. CASE ~Made(n)
      <3>1. n \in codes[u] /\ n \in codes[v]
        BY <1>7, <2>2 DEF SecretsStep
      <3>2. QED
        BY <3>1 DEF SecretsApart
    <2>3. QED
      BY <2>1, <2>2
  <1>8. ASSUME NEW s \in sessions' PROVE s.id < fresh'
    <2>1. s.id \in Nat
      BY NextNumbers
    <2>2. CASE s \in sessions
      BY <1>3, <2>1, <2>2 DEF SecretsApart
    <2>3. CASE Made(s.id)
      BY <1>2, <2>1, <2>3
    <2>4. QED
      BY <2>2, <2>3 DEF SecretsStep
  <1>9. ASSUME NEW e \in enrols'
        PROVE  /\ e.user = e.sess.user /\ e.sess.id < fresh' /\ 0 < e.seed /\ e.seed < fresh'
               /\ \A u \in Users : factor'[u].seed = e.seed => e.sess \notin sessions'
    <2>1. e.seed \in Nat /\ e.sess.id \in Nat
      BY NextNumbers
    <2>2. CASE e \in enrols
      <3>1. /\ e.user = e.sess.user /\ e.sess.id < fresh' /\ 0 < e.seed /\ e.seed < fresh'
        BY <1>3, <2>1, <2>2 DEF SecretsApart
      <3>2. ASSUME NEW u \in Users, factor'[u].seed = e.seed
            PROVE  e.sess \notin sessions'
        <4>1. CASE factor'[u].seed = factor[u].seed
          BY <2>2, <3>2, <4>1, GoneForGood DEF SecretsApart
        <4>2. CASE \E f \in enrols : factor'[u].seed = f.seed /\ f.sess \notin sessions'
          BY <2>2, <3>2, <4>2 DEF SecretsApart
        <4>3. factor'[u].seed # 0
          BY <2>1, <3>1, <3>2
        <4>4. QED
          BY <4>1, <4>2, <4>3 DEF SecretsStep, SeedStep
      <3>3. QED
        BY <3>1, <3>2
    <2>3. CASE Made(e.seed) /\ e.user = e.sess.user /\ e.sess \in sessions
      <3>1. 0 < e.seed /\ e.seed < fresh' /\ ~(e.seed < fresh)
        BY <1>2, <2>1, <2>3
      <3>2. e.sess.id < fresh'
        BY <1>3, <2>1, <2>3 DEF SecretsApart
      <3>3. ASSUME NEW u \in Users, factor'[u].seed = e.seed PROVE FALSE
        <4>1. factor[u].seed < fresh /\ \A f \in enrols : f.seed < fresh
          BY DEF SecretsApart
        <4>2. factor'[u].seed # factor[u].seed /\ \A f \in enrols : factor'[u].seed # f.seed
          BY <3>1, <3>3, <4>1
        <4>3. factor'[u].seed # 0
          BY <2>1, <3>1, <3>3
        <4>4. QED
          BY <4>2, <4>3 DEF SecretsStep, SeedStep
      <3>4. QED
        BY <2>3, <3>1, <3>2, <3>3
    <2>4. QED
      BY <2>2, <2>3 DEF SecretsStep
  <1>10. ASSUME NEW e \in enrols', NEW f \in enrols', e.seed = f.seed PROVE e = f
    <2>1. CASE Made(e.seed)
      BY <1>10, <2>1 DEF SecretsStep
    <2>2. CASE ~Made(e.seed)
      <3>1. e \in enrols /\ f \in enrols
        BY <1>10, <2>2 DEF SecretsStep
      <3>2. QED
        BY <1>10, <3>1 DEF SecretsApart
    <2>3. QED
      BY <2>1, <2>2
  <1>11. ASSUME NEW p \in pairings' PROVE p.code < fresh'
    <2>1. p.code \in Nat
      BY NextNumbers
    <2>2. CASE p \in pairings
      BY <1>3, <2>1, <2>2 DEF SecretsApart
    <2>3. CASE Made(p.code)
      BY <1>2, <2>1, <2>3
    <2>4. QED
      BY <2>2, <2>3 DEF SecretsStep
  <1>12. ASSUME NEW p \in pairings', NEW q \in pairings', p.code = q.code PROVE p = q
    <2>1. CASE Made(p.code)
      BY <1>12, <2>1 DEF SecretsStep
    <2>2. CASE ~Made(p.code)
      <3>1. p \in pairings /\ q \in pairings
        BY <1>12, <2>2 DEF SecretsStep
      <3>2. QED
        BY <1>12, <3>1 DEF SecretsApart
    <2>3. QED
      BY <2>1, <2>2
  <1>13. QED
    BY <1>4, <1>5, <1>6, <1>7, <1>8, <1>9, <1>10, <1>11, <1>12 DEF SecretsApart

(* A dead secret stays dead.                                               *)
LEMMA DeadStay ==
  ASSUME Typed, SecretsApart, SecretsStep, NEW x \in Codes, Dead(x),
         FactorsTyped', KeysTyped', EntryTyped', NumbersTyped'
  PROVE  DeadNext(x)
  <1>1. fresh \in Nat /\ fresh' \in Nat /\ fresh <= fresh' /\ x.n \in Nat /\ x.step \in Nat
        /\ x.n < fresh
    BY SecretNumbers, NextNumbers DEF SecretsStep, Codes, Dead
  <1>2. x.n < fresh' /\ ~Made(x.n)
    BY <1>1 DEF Made
  <1>3. ASSUME x.kind = "totp", NEW u \in Users, factor'[u].seed = x.n
        PROVE  x.step <= factor'[u].step
    <2>1. x.n # 0
      BY <1>3 DEF Dead
    <2>2. CASE factor'[u].seed = factor[u].seed /\ factor[u].step <= factor'[u].step
      <3>1. x.step <= factor[u].step
        BY <1>3, <2>2 DEF Dead
      <3>2. QED
        BY <1>1, <2>2, <3>1, SecretNumbers, NextNumbers
    <2>3. ~\E e \in enrols : factor'[u].seed = e.seed /\ e.sess \in sessions
      BY <1>3 DEF Dead
    <2>4. QED
      BY <1>3, <2>1, <2>2, <2>3 DEF SecretsStep, SeedStep
  <1>4. ASSUME x.kind = "totp", NEW e \in enrols', e.seed = x.n
        PROVE  e.sess \notin sessions'
    <2>1. e \in enrols
      BY <1>2, <1>4 DEF SecretsStep
    <2>2. QED
      BY <1>4, <2>1, GoneForGood DEF Dead
  <1>5. ASSUME x.kind = "recovery", NEW u \in Users PROVE x.n \notin codes'[u]
    BY <1>2, <1>5 DEF Dead, SecretsStep
  <1>6. ASSUME x.kind = "pairing", NEW p \in pairings' PROVE p.code # x.n
    BY <1>2, <1>6 DEF Dead, SecretsStep
  <1>7. QED
    BY <1>2, <1>3, <1>4, <1>5, <1>6 DEF DeadNext, Dead

LEMMA Combine ==
  ASSUME IInv, FactorsTyped', KeysTyped', EntryTyped', RequestsTyped', NumbersTyped',
         RequestsSound', SecretsStep, GuardStep, KeysStep, HonourStep
  PROVE  IInv'
  <1>1. Typed /\ Typed' /\ SecretsApart
    BY DEF IInv, Typed
  <1>2. SecretsApart'
    BY <1>1, ApartKept
  <1>3. \A x \in Codes : Dead(x) => DeadNext(x)
    BY <1>1, DeadStay
  <1>4. spent \subseteq Codes /\ \A x \in spent : Dead(x)
    BY <1>1 DEF Typed, NumbersTyped, IInv, SpentAreDead
  <1>5. \A x \in spent' : DeadNext(x)
    BY <1>3, <1>4 DEF HonourStep, Honour
  <1>6. SpentAreDead'
    BY <1>5 DEF SpentAreDead, Dead, DeadNext
  <1>7. HonouredOnce'
    BY DEF HonouredOnce, HonourStep, Honour, IInv
  <1>8. FactorGuardsEntry'
    <2>1. ASSUME NEW u \in Users, factor'[u].seed # 0,
                 NEW e \in sessions' \cup pairings', e.user = u
          PROVE  e.via # "local" \/ e.proof = factor'[u].seed
      <3>1. CASE e.via # "local" \/ e.proof = factor'[u].seed
        BY <3>1
      <3>2. CASE /\ factor'[u].seed = factor[u].seed
                 /\ \E f \in sessions \cup pairings :
                      f.user = u /\ f.via = e.via /\ f.proof = e.proof
        BY <2>1, <3>2 DEF IInv, FactorGuardsEntry
      <3>3. QED
        BY <2>1, <3>1, <3>2 DEF GuardStep
    <2>2. QED
      BY <2>1 DEF FactorGuardsEntry
  <1>9. KeysEndWithMembership'
    BY DEF KeysStep, KeysEndWithMembership, IInv
  <1>10. QED
    BY <1>1, <1>2, <1>6, <1>7, <1>8, <1>9 DEF IInv

-----------------------------------------------------------------------------
(* Requests.                                                               *)
LEMMA ConstantRows ==
  /\ NoCode \in Codes /\ NoCode.kind = "none" /\ NoCode.n = 0 /\ NoCode.step = 0
  /\ Wrong \in Codes /\ Wrong.kind = "totp" /\ Wrong.n = 0
  /\ NoSession \in Sessions
  /\ Idle \in Requests /\ RequestSound(Idle)
  /\ FactorRow(NoFactor) /\ NoFactor.seed = 0
  <1>1. FirstUser \in Users
    BY SignInAssumption DEF SignInAssumption
  <1>2. NoCode \in Codes /\ NoCode.kind = "none" /\ NoCode.n = 0 /\ NoCode.step = 0
    BY DEF NoCode, Codes
  <1>3. Wrong \in Codes /\ Wrong.kind = "totp" /\ Wrong.n = 0
    BY DEF Wrong, Codes
  <1>4. NoSession \in Sessions
    BY <1>1 DEF NoSession, Sessions, Vias
  <1>5. Idle \in Requests
    BY <1>1, <1>2, <1>4 DEF Idle, Requests
  <1>6. RequestSound(Idle)
    BY <1>2 DEF Idle, RequestSound, SessionKinds
  <1>7. FactorRow(NoFactor) /\ NoFactor.seed = 0
    BY DEF NoFactor, FactorRow
  <1>8. QED
    BY <1>2, <1>3, <1>4, <1>5, <1>6, <1>7

LEMMA OneRequest ==
  ASSUME IInv, NEW c \in Clients, NEW r \in Requests, RequestSound(r),
         reqs' = [reqs EXCEPT ![c] = r]
  PROVE  RequestsTyped' /\ RequestsSound'
  BY DEF IInv, Typed, RequestsTyped, RequestsSound

LEMMA DoneSound ==
  ASSUME IInv, NEW c \in Clients, Done(c)
  PROVE  RequestsTyped' /\ RequestsSound'
  BY OneRequest, ConstantRows DEF Done

LEMMA OtherRequests ==
  ASSUME IInv, reqs' = reqs
  PROVE  RequestsTyped' /\ RequestsSound'
  BY DEF IInv, Typed, RequestsTyped, RequestsSound

LEMMA HeldRequest ==
  ASSUME IInv, NEW c \in Clients
  PROVE  /\ reqs[c] \in Requests /\ RequestSound(reqs[c])
         /\ reqs[c].user \in Users /\ reqs[c].sess \in Sessions /\ reqs[c].use \in Codes
         /\ reqs[c].sess.via \in Vias /\ reqs[c].sess.proof \in Nat
  BY DEF IInv, Typed, RequestsTyped, RequestsSound, Requests, Sessions

(* Requests begun with password and code.                                  *)
LEMMA Prepared ==
  ASSUME IInv, NEW u \in Users, NEW code \in Attempts(u)
  PROVE  /\ PrepareFactor(u, code) \in Codes
         /\ PrepareFactor(u, code).kind \in {"none", "totp", "recovery"}
         /\ PrepareFactor(u, code).kind = "none" => PrepareFactor(u, code) = NoCode
         /\ PrepareFactor(u, code) # Wrong /\ PrepareFactor(u, code).kind = "totp" =>
              PrepareFactor(u, code).n # 0
  <1>1. factor[u].seed \in Nat /\ codes[u] \subseteq Nat /\ clock \in Nat \ {0}
    BY SecretNumbers DEF IInv, Typed, NumbersTyped
  <1>2. CASE factor[u].seed = 0
    BY <1>2, ConstantRows DEF PrepareFactor
  <1>3. CASE factor[u].seed # 0
    <2>1. code \in Codes /\ (code.kind = "none" => code = NoCode)
          /\ code.kind \in {"none", "totp", "recovery"}
      <3>1. CASE code \in {NoCode, Wrong}
        BY <3>1, ConstantRows
      <3>2. CASE code \in [kind : {"totp"}, n : {factor[u].seed}, step : (clock - 1)..(clock + 1)]
        <4>1. code.step \in Nat /\ code.n \in Nat /\ code.kind = "totp"
          BY <1>1, <3>2
        <4>2. QED
          BY <3>2, <4>1 DEF Codes
      <3>3. CASE code \in [kind : {"recovery"}, n : codes[u], step : {0}]
        <4>1. code.step \in Nat /\ code.n \in Nat /\ code.kind = "recovery"
          BY <1>1, <3>3
        <4>2. QED
          BY <3>3, <4>1 DEF Codes
      <3>4. QED
        BY <3>1, <3>2, <3>3 DEF Attempts
    <2>2. CASE code.kind = "recovery"
      BY <1>3, <2>1, <2>2 DEF PrepareFactor
    <2>3. CASE code.kind # "recovery" /\ MatchTOTP(factor[u].seed, factor[u].step, code)
      BY <1>3, <2>1, <2>3 DEF PrepareFactor, MatchTOTP
    <2>4. CASE code.kind # "recovery" /\ ~MatchTOTP(factor[u].seed, factor[u].step, code)
      BY <1>3, <2>4, ConstantRows DEF PrepareFactor
    <2>5. QED
      BY <2>2, <2>3, <2>4
  <1>4. QED
    BY <1>2, <1>3

LEMMA Begun ==
  ASSUME IInv, NEW c \in Clients, NEW u \in Users, NEW s \in Sessions,
         NEW kind \in {"login", "token", "email", "codes", "disable", "reset"},
         kind \in SessionKinds => s.user = u, Begin(c, kind, u, s)
  PROVE  RequestsTyped' /\ RequestsSound'
  <1>1. PICK code \in Attempts(u) :
          reqs' = [reqs EXCEPT ![c] =
            [kind |-> kind, user |-> u, sess |-> s, use |-> PrepareFactor(u, code),
             pc |-> IF PrepareFactor(u, code) = Wrong THEN "reject" ELSE "commit"]]
    BY DEF Begin
  <1> DEFINE use == PrepareFactor(u, code)
             r == [kind |-> kind, user |-> u, sess |-> s, use |-> use,
                   pc |-> IF use = Wrong THEN "reject" ELSE "commit"]
  <1>2. /\ use \in Codes /\ use.kind \in {"none", "totp", "recovery"}
        /\ use.kind = "none" => use = NoCode
        /\ use # Wrong /\ use.kind = "totp" => use.n # 0
    BY Prepared
  <1>3. reqs' = [reqs EXCEPT ![c] = r]
    BY <1>1
  <1> HIDE DEF use
  <1>4. r \in Requests
    BY <1>2 DEF Requests, SessionKinds
  <1>5. RequestSound(r)
    BY <1>2 DEF RequestSound, SessionKinds
  <1> HIDE DEF r
  <1>6. QED
    BY <1>3, <1>4, <1>5, OneRequest

LEMMA IssuingSound ==
  ASSUME NEW u \in Users, NEW via \in {"oidc", "setup"}
  PROVE  Issuing(u, via) \in Requests /\ RequestSound(Issuing(u, via))
  <1> DEFINE s == [NoSession EXCEPT !.via = via]
             r == Issuing(u, via)
  <1>1. s \in Sessions /\ s.via = via
    BY ConstantRows DEF Sessions, Vias
  <1>2. r = [Idle EXCEPT !.kind = "issue", !.pc = "commit", !.user = u, !.sess = s]
    BY DEF Issuing
  <1> HIDE DEF s
  <1>3. r.kind = "issue" /\ r.pc = "commit" /\ r.user = u /\ r.sess = s /\ r.use = NoCode
    BY <1>2 DEF Idle
  <1>4. r \in Requests
    BY <1>1, <1>2, ConstantRows DEF Requests
  <1> HIDE DEF r
  <1>5. RequestSound(r)
    BY <1>1, <1>3, ConstantRows DEF RequestSound, SessionKinds
  <1>6. QED
    BY <1>4, <1>5 DEF r

-----------------------------------------------------------------------------
(* Frames.                                                                 *)
LEMMA FactorsStay ==
  ASSUME IInv, factor' = factor, codes' = codes
  PROVE  /\ FactorsTyped' /\ \A u \in Users : SeedStep(u)
         /\ \A u \in Users : codes'[u] \subseteq codes[u]
  <1>1. FactorsTyped'
    BY DEF IInv, Typed, FactorsTyped
  <1>2. \A u \in Users : factor[u].step <= factor[u].step
    BY SecretNumbers DEF IInv
  <1>3. QED
    BY <1>1, <1>2 DEF SeedStep

(* No new code, sealed seed or pairing comes about.                        *)
LEMMA SecretsShrink ==
  ASSUME IInv, fresh <= fresh', \A u \in Users : SeedStep(u),
         \A u \in Users : codes'[u] \subseteq codes[u],
         \A s \in sessions' : s \in sessions \/ Made(s.id),
         enrols' \subseteq enrols, pairings' \subseteq pairings
  PROVE  SecretsStep
  BY DEF SecretsStep, IInv, SecretsApart

LEMMA NumbersStay ==
  ASSUME IInv, fresh' = fresh, clock' = clock, spent' = spent, reused' = reused
  PROVE  NumbersTyped' /\ fresh <= fresh' /\ HonourStep
  BY SecretNumbers DEF IInv, Typed, NumbersTyped, HonourStep

LEMMA FreshMoves ==
  ASSUME IInv, NEW n \in {1, 2}, Fresh(n)
  PROVE  /\ fresh' \in Nat \ {0} /\ fresh <= fresh' /\ fresh' = fresh + n
         /\ Made(fresh) /\ (n = 2 => Made(fresh + 1)) /\ fresh \in Nat
  BY SecretNumbers DEF IInv, Fresh, Made

LEMMA EntriesStay ==
  ASSUME IInv, factor' = factor, sessions' \subseteq sessions, pairings' \subseteq pairings
  PROVE  GuardStep
  BY DEF GuardStep

LEMMA KeysStay ==
  ASSUME IInv, spell' = spell, member' = member, tokens' \subseteq tokens,
         pairings' \subseteq pairings
  PROVE  KeysTyped' /\ KeysStep
  BY DEF IInv, Typed, KeysTyped, KeysStep

(* Steps that touch no secret, session or key.                             *)
LEMMA OnlyRequests ==
  ASSUME IInv, RequestsTyped', RequestsSound', clock' \in Nat \ {0},
         UNCHANGED <<factors, access, sessions, pairings, enrols, fresh, honours>>
  PROVE  IInv'
  <1>1. /\ factor' = factor /\ codes' = codes /\ member' = member /\ spell' = spell
        /\ tokens' = tokens /\ sessions' = sessions /\ pairings' = pairings
        /\ enrols' = enrols /\ fresh' = fresh /\ spent' = spent /\ reused' = reused
    BY DEF factors, access, honours
  <1>2. FactorsTyped' /\ \A u \in Users : SeedStep(u) /\ codes'[u] \subseteq codes[u]
    BY <1>1, FactorsStay
  <1>3. EntryTyped' /\ NumbersTyped' /\ fresh <= fresh' /\ HonourStep
    BY <1>1, SecretNumbers DEF IInv, Typed, EntryTyped, NumbersTyped, HonourStep
  <1>4. KeysTyped' /\ KeysStep /\ GuardStep
    BY <1>1, KeysStay, EntriesStay
  <1>5. SecretsStep
    BY <1>1, <1>2, <1>3, SecretsShrink
  <1>6. QED
    BY <1>2, <1>3, <1>4, <1>5, Combine

LEMMA BeginKeeps ==
  ASSUME IInv, NEW c \in Clients,
         \/ BeginSignIn(c) \/ BeginConfirmed(c) \/ BeginSession(c) \/ Refuse(c)
         \/ SetupForm(c) \/ \E u \in Users : OidcResolve(c, u)
  PROVE  IInv'
  <1>1. /\ clock' = clock /\ clock \in Nat \ {0}
        /\ UNCHANGED <<factors, access, sessions, pairings, enrols, fresh, honours>>
    BY DEF BeginSignIn, BeginConfirmed, BeginSession, Refuse, SetupForm, OidcResolve, Begin,
           ApplySetup, IInv, Typed, NumbersTyped
  <1>2. CASE BeginSignIn(c)
    <2>1. PICK u \in Users, kind \in {"login", "token"} : Begin(c, kind, u, NoSession)
      BY <1>2 DEF BeginSignIn
    <2>2. RequestsTyped' /\ RequestsSound'
      BY <2>1, Begun, ConstantRows DEF SessionKinds
    <2>3. QED
      BY <1>1, <2>2, OnlyRequests
  <1>3. CASE BeginConfirmed(c)
    <2>1. PICK s \in sessions, kind \in {"email", "codes", "disable", "reset"} :
            Begin(c, kind, s.user, s)
      BY <1>3 DEF BeginConfirmed
    <2>2. s \in Sessions /\ s.user \in Users
      BY DEF IInv, Typed, EntryTyped, Sessions
    <2>3. RequestsTyped' /\ RequestsSound'
      <3> DEFINE u == s.user
      <3>1. Begin(c, kind, u, s) /\ u \in Users /\ s.user = u
        BY <2>1, <2>2
      <3> HIDE DEF u
      <3>2. QED
        BY <2>2, <3>1, Begun
    <2>4. QED
      BY <1>1, <2>3, OnlyRequests
  <1>4. CASE BeginSession(c)
    <2>1. PICK s \in sessions, kind \in {"pair", "mint", "sync"} :
            reqs' = [reqs EXCEPT ![c] = [kind |-> kind, pc |-> "commit", user |-> s.user,
                                         sess |-> s, use |-> NoCode]]
      BY <1>4 DEF BeginSession
    <2> DEFINE r == [kind |-> kind, pc |-> "commit", user |-> s.user, sess |-> s, use |-> NoCode]
    <2>2. s \in Sessions /\ s.user \in Users
      BY DEF IInv, Typed, EntryTyped, Sessions
    <2>3. r \in Requests /\ RequestSound(r)
      BY <2>2, ConstantRows DEF Requests, RequestSound, SessionKinds
    <2>4. reqs' = [reqs EXCEPT ![c] = r]
      BY <2>1
    <2> HIDE DEF r
    <2>5. RequestsTyped' /\ RequestsSound'
      BY <2>3, <2>4, OneRequest
    <2>6. QED
      BY <1>1, <2>5, OnlyRequests
  <1>5. CASE Refuse(c)
    <2> DEFINE r == [reqs[c] EXCEPT !.pc = "reject"]
    <2>1. reqs[c] \in Requests /\ RequestSound(reqs[c])
      BY HeldRequest
    <2>2. r \in Requests /\ RequestSound(r)
      BY <2>1 DEF Requests, RequestSound
    <2>3. \E x \in {Idle, r} : reqs' = [reqs EXCEPT ![c] = x]
      BY <1>5 DEF Refuse
    <2> HIDE DEF r
    <2>4. RequestsTyped' /\ RequestsSound'
      BY <2>2, <2>3, OneRequest, ConstantRows
    <2>5. QED
      BY <1>1, <2>4, OnlyRequests
  <1>6. CASE SetupForm(c)
    <2>1. reqs' = [reqs EXCEPT ![c] = Issuing(FirstUser, "setup")]
      BY <1>6 DEF SetupForm
    <2>2. FirstUser \in Users
      BY SignInAssumption DEF SignInAssumption
    <2>3. RequestsTyped' /\ RequestsSound'
      BY <2>1, <2>2, IssuingSound, OneRequest
    <2>4. QED
      BY <1>1, <2>3, OnlyRequests
  <1>7. ASSUME NEW u \in Users, OidcResolve(c, u) PROVE IInv'
    <2>1. reqs' = [reqs EXCEPT ![c] = Issuing(u, "oidc")]
      BY <1>7 DEF OidcResolve
    <2>2. RequestsTyped' /\ RequestsSound'
      BY <2>1, IssuingSound, OneRequest
    <2>3. QED
      BY <1>1, <2>2, OnlyRequests
  <1>8. QED
    BY <1>2, <1>3, <1>4, <1>5, <1>6, <1>7

(* Accounts, the setup page, time and restarts.                            *)
LEMMA AccountsKeep ==
  ASSUME IInv,
         \/ \E u \in Users : CreateUser(u) \/ \E a \in Users : PatchUser(a, u)
         \/ SetupHandler \/ Tick \/ RemintSetup \/ Restart \/ UNCHANGED vars
  PROVE  IInv'
  <1>1. UNCHANGED <<factors, access, sessions, pairings, enrols, fresh, honours>>
    BY DEF CreateUser, PatchUser, SetupHandler, ApplySetup, Tick, RemintSetup, Restart, vars,
           factors, access, honours
  <1>2. clock' \in Nat \ {0}
    <2>1. clock' = clock \/ clock' = clock + 1
      BY DEF CreateUser, PatchUser, SetupHandler, ApplySetup, Tick, RemintSetup, Restart, vars
    <2>2. QED
      BY <2>1 DEF IInv, Typed, NumbersTyped
  <1>3. reqs' = reqs \/ reqs' = [c \in Clients |-> Idle]
    BY DEF CreateUser, PatchUser, SetupHandler, Tick, RemintSetup, Restart, vars
  <1>4. RequestsTyped' /\ RequestsSound'
    <2>1. CASE reqs' = reqs
      BY <2>1, OtherRequests
    <2>2. CASE reqs' = [c \in Clients |-> Idle]
      BY <2>2, ConstantRows DEF RequestsTyped, RequestsSound
    <2>3. QED
      BY <1>3, <2>1, <2>2
  <1>5. QED
    BY <1>1, <1>2, <1>4, OnlyRequests

-----------------------------------------------------------------------------
(* Sessions, pairings and tokens.                                          *)
LEMMA SessionMade ==
  ASSUME IInv, NEW u \in Users, NEW via \in Vias, NEW proof \in Nat
  PROVE  LET s == NewSession(u, via, proof) IN
           /\ s \in Sessions /\ s.id = fresh /\ s.user = u /\ s.via = via /\ s.proof = proof
  BY SecretNumbers DEF IInv, NewSession, Sessions

LEMMA FactorSet ==
  ASSUME NEW t, NEW f \in [seed : Nat, step : Nat, fails : Nat, until : {t}]
  PROVE  FactorRow(f)
  BY DEF FactorRow

LEMMA FactorIsRecord ==
  ASSUME NEW f, FactorRow(f)
  PROVE  \E t : f \in [seed : Nat, step : Nat, fails : Nat, until : {t}]
  <1>1. f \in [seed : Nat, step : Nat, fails : Nat, until : {f.until}]
    BY DEF FactorRow
  <1>2. QED
    BY <1>1, Zenon

LEMMA Rejected ==
  ASSUME IInv, NEW c \in Clients, RejectFactor(c)
  PROVE  IInv'
  <1> DEFINE u == reqs[c].user
             n == factor[u].fails + 1
  <1>1. u \in Users
    BY HeldRequest
  <1>2. FactorRow(factor[u]) /\ factor = [v \in Users |-> factor[v]]
    BY <1>1 DEF IInv, Typed, FactorsTyped
  <1>3. \/ factor' = factor
        \/ \E t : factor' = [factor EXCEPT ![u] = [factor[u] EXCEPT !.fails = n, !.until = t]]
    BY DEF RejectFactor
  <1>4. /\ Done(c)
        /\ codes' = codes /\ member' = member /\ spell' = spell /\ tokens' = tokens
        /\ sessions' = sessions /\ pairings' = pairings /\ enrols' = enrols
        /\ clock' = clock /\ fresh' = fresh /\ spent' = spent /\ reused' = reused
    BY DEF RejectFactor, access, honours
  <1>5. CASE factor' = factor
    <2>1. RequestsTyped' /\ RequestsSound' /\ clock' \in Nat \ {0}
      BY <1>4, DoneSound DEF IInv, Typed, NumbersTyped
    <2>2. UNCHANGED <<factors, access, sessions, pairings, enrols, fresh, honours>>
      BY <1>4, <1>5 DEF factors, access, honours
    <2>3. QED
      BY <2>1, <2>2, OnlyRequests
  <1>6. ASSUME NEW t, factor' = [factor EXCEPT ![u] = [factor[u] EXCEPT !.fails = n, !.until = t]]
        PROVE  IInv'
    <2> DEFINE f == [factor[u] EXCEPT !.fails = n, !.until = t]
    <2>1. n \in Nat
      BY <1>2 DEF FactorRow
    <2>2. FactorRow(f) /\ f.seed = factor[u].seed /\ f.step = factor[u].step
      <3> HIDE DEF n, u
      <3>1. PICK old : factor[u] \in [seed : Nat, step : Nat, fails : Nat, until : {old}]
        BY <1>2, FactorIsRecord
      <3>2. /\ f \in [seed : Nat, step : Nat, fails : Nat, until : {t}]
            /\ f.seed = factor[u].seed /\ f.step = factor[u].step
        BY <2>1, <3>1
      <3> HIDE DEF f
      <3>3. QED
        BY <3>2, FactorSet
    <2>3. factor' = [factor EXCEPT ![u] = f]
      BY <1>6
    <2> HIDE DEF f, u
    <2>4. factor' = [v \in Users |-> factor'[v]] /\ factor'[u] = f
          /\ \A v \in Users : v # u => factor'[v] = factor[v]
      BY <1>1, <1>2, <2>3
    <2>5. \A v \in Users : factor'[v].seed = factor[v].seed /\ factor'[v].step = factor[v].step
      BY <2>2, <2>4
    <2>6. FactorsTyped'
      BY <1>4, <2>2, <2>4 DEF FactorsTyped, IInv, Typed
    <2>7. \A v \in Users : SeedStep(v)
      BY <2>5, SecretNumbers DEF SeedStep, IInv
    <2>8. \A v \in Users : codes'[v] \subseteq codes[v]
      BY <1>4
    <2>9. NumbersTyped' /\ fresh <= fresh' /\ HonourStep
      BY <1>4, NumbersStay
    <2>10. KeysTyped' /\ KeysStep /\ EntryTyped'
      BY <1>4, KeysStay DEF IInv, Typed, EntryTyped
    <2>11. GuardStep
      BY <1>4, <2>5 DEF GuardStep
    <2>12. SecretsStep
      BY <1>4, <2>7, <2>8, <2>9, SecretsShrink
    <2>13. RequestsTyped' /\ RequestsSound'
      BY <1>4, DoneSound
    <2>14. QED
      BY <2>6, <2>9, <2>10, <2>11, <2>12, <2>13, Combine
  <1>7. QED
    BY <1>3, <1>5, <1>6

(* A code that is accepted was not spent, and is dead when the factor      *)
(* moves past it or goes.                                                  *)
LEMMA UseDies ==
  ASSUME IInv, NEW u \in Users, NEW use \in Codes, use # NoCode, Accepts(u, use),
         use.kind = "none" => use = NoCode, use.kind # "pairing",
         use.kind = "totp" => use.n # 0,
         fresh <= fresh', fresh' \in Nat,
         use.kind = "totp" /\ factor'[u].seed = use.n => use.step <= factor'[u].step,
         use.kind = "recovery" => use.n \notin codes'[u],
         \A v \in Users : factor'[v].seed \in {0, factor[v].seed},
         \A v \in Users : v # u => codes'[v] \subseteq codes[v],
         \A s \in sessions' : s \in sessions \/ Made(s.id), enrols' = enrols
  PROVE  use \notin spent /\ DeadNext(use)
  <1>1. /\ fresh \in Nat /\ use.n \in Nat /\ use.step \in Nat /\ factor[u].step \in Nat
        /\ factor[u].seed \in Nat /\ SecretsApart
    BY SecretNumbers DEF IInv, Codes
  <1>2. use.kind \in {"totp", "recovery"}
    BY DEF Codes
  <1>3. CASE use.kind = "totp"
    <2>1. factor[u].seed = use.n /\ factor[u].step < use.step /\ use.n # 0
      BY <1>3 DEF Accepts
    <2>2. use \notin spent
      <3>1. use \in spent => use.step <= factor[u].step
        BY <1>3, <2>1 DEF IInv, SpentAreDead, Dead
      <3>2. QED
        BY <1>1, <2>1, <3>1
    <2>3. use.n < fresh'
      <3>1. use.n < fresh
        BY <1>1, <2>1 DEF SecretsApart
      <3>2. QED
        BY <1>1, <3>1
    <2>4. ASSUME NEW v \in Users, factor'[v].seed = use.n PROVE use.step <= factor'[v].step
      <3>1. factor[v].seed = use.n
        BY <2>1, <2>4
      <3>2. v = u
        BY <1>1, <2>1, <3>1 DEF SecretsApart
      <3>3. QED
        BY <1>3, <2>4, <3>2
    <2>5. ASSUME NEW e \in enrols', e.seed = use.n PROVE e.sess \notin sessions'
      <3>1. e.sess \notin sessions /\ e.sess.id < fresh /\ e.sess.id \in Nat
        BY <1>1, <2>1, <2>5, SecretNumbers DEF SecretsApart, IInv
      <3>2. ~Made(e.sess.id)
        BY <1>1, <3>1 DEF Made
      <3>3. QED
        BY <3>1, <3>2
    <2>6. QED
      BY <1>3, <2>1, <2>2, <2>3, <2>4, <2>5 DEF DeadNext
  <1>4. CASE use.kind = "recovery"
    <2>1. use.n \in codes[u]
      BY <1>4, ConstantRows DEF Accepts
    <2>2. use \notin spent
      BY <1>4, <2>1 DEF IInv, SpentAreDead, Dead
    <2>3. use.n < fresh'
      <3>1. use.n < fresh
        BY <1>1, <2>1 DEF SecretsApart
      <3>2. QED
        BY <1>1, <3>1
    <2>4. ASSUME NEW v \in Users PROVE use.n \notin codes'[v]
      <3>1. CASE v = u
        BY <1>4, <3>1
      <3>2. CASE v # u
        BY <1>1, <2>1, <3>2 DEF SecretsApart
      <3>3. QED
        BY <3>1, <3>2
    <2>5. QED
      BY <1>4, <2>2, <2>3, <2>4 DEF DeadNext
  <1>5. QED
    BY <1>2, <1>3, <1>4

(* The factor's rows after a code was consumed.                            *)
LEMMA RowsAfter ==
  ASSUME IInv, NEW u \in Users, NEW use \in Codes, use.kind \in {"none", "totp", "recovery"},
         use.kind = "none" => use = NoCode, Accepts(u, use)
  PROVE  /\ FactorRow(FactorAfter(u, use)) /\ FactorAfter(u, use).seed = factor[u].seed
         /\ factor[u].step <= FactorAfter(u, use).step
         /\ use.kind = "totp" => use.step <= FactorAfter(u, use).step
         /\ CodesAfter(u, use) \subseteq codes[u]
         /\ use.kind = "recovery" => use.n \notin CodesAfter(u, use)
  <1>1. FactorRow(factor[u]) /\ use.n \in Nat /\ use.step \in Nat
    BY DEF IInv, Typed, FactorsTyped, Codes
  <1>2. CodesAfter(u, use) \subseteq codes[u]
        /\ (use.kind = "recovery" => use.n \notin CodesAfter(u, use))
    BY DEF CodesAfter
  <1>3. CASE use = NoCode
    <2>1. FactorAfter(u, use) = factor[u]
      BY <1>3 DEF FactorAfter
    <2>2. factor[u].step \in Nat
      BY <1>1 DEF FactorRow
    <2>3. QED
      BY <1>1, <1>2, <1>3, <2>1, <2>2, ConstantRows
  <1>4. CASE use # NoCode /\ use.kind \in {"recovery", "totp"}
    <2> DEFINE step == IF use.kind = "totp" THEN use.step ELSE factor[u].step
    <2>1. FactorAfter(u, use) = [factor[u] EXCEPT !.step = step, !.fails = 0, !.until = 0]
      BY <1>4 DEF FactorAfter
    <2>2. factor[u].step \in Nat
      BY <1>1 DEF FactorRow
    <2>3. /\ step \in Nat /\ factor[u].step <= step
          /\ use.kind = "totp" => use.step <= step
      BY <1>1, <1>4, <2>2 DEF Accepts
    <2> HIDE DEF step
    <2>4. /\ FactorRow(FactorAfter(u, use)) /\ FactorAfter(u, use).seed = factor[u].seed
          /\ FactorAfter(u, use).step = step
      <3> DEFINE g == [factor[u] EXCEPT !.step = step, !.fails = 0, !.until = 0]
      <3>1. PICK old : factor[u] \in [seed : Nat, step : Nat, fails : Nat, until : {old}]
        BY <1>1, FactorIsRecord
      <3>2. /\ g \in [seed : Nat, step : Nat, fails : Nat, until : {0}]
            /\ g.seed = factor[u].seed /\ g.step = step
        BY <2>3, <3>1
      <3>3. FactorAfter(u, use) = g
        BY <2>1
      <3> HIDE DEF g
      <3>4. QED
        BY <3>2, <3>3, FactorSet
    <2>5. QED
      BY <1>2, <2>3, <2>4
  <1>5. QED
    BY <1>3, <1>4

LEMMA UseSound ==
  ASSUME IInv, NEW c \in Clients, reqs[c].pc = "commit"
  PROVE  /\ reqs[c].user \in Users /\ reqs[c].use \in Codes
         /\ reqs[c].use.kind \in {"none", "totp", "recovery"}
         /\ reqs[c].use.kind = "none" => reqs[c].use = NoCode
         /\ reqs[c].use.kind = "totp" => reqs[c].use.n # 0
  BY HeldRequest DEF RequestSound, Codes

(* A code is consumed, as by Login, TokenHandler and VerifySecondFactor.   *)
LEMMA Consumed ==
  ASSUME IInv, NEW u \in Users, NEW use \in Codes, use.kind \in {"none", "totp", "recovery"},
         use.kind = "none" => use = NoCode, use.kind = "totp" => use.n # 0,
         Consume(u, use),
         factor' = [factor EXCEPT ![u] = FactorAfter(u, use)],
         codes' = [codes EXCEPT ![u] = CodesAfter(u, use)],
         enrols' = enrols, pairings' = pairings, clock' = clock,
         fresh <= fresh', fresh' \in Nat \ {0},
         \A s \in sessions' : s \in sessions \/ Made(s.id)
  PROVE  /\ FactorsTyped' /\ SecretsStep /\ HonourStep /\ NumbersTyped'
         /\ \A v \in Users : factor'[v].seed = factor[v].seed
  <1> DEFINE f == FactorAfter(u, use)
             k == CodesAfter(u, use)
  <1>1. Accepts(u, use)
    BY DEF Consume
  <1>2. /\ FactorRow(f) /\ f.seed = factor[u].seed /\ factor[u].step <= f.step
        /\ use.kind = "totp" => use.step <= f.step
        /\ k \subseteq codes[u] /\ (use.kind = "recovery" => use.n \notin k)
    BY <1>1, RowsAfter
  <1>3. factor = [v \in Users |-> factor[v]] /\ codes \in [Users -> SUBSET Nat]
        /\ \A v \in Users : FactorRow(factor[v])
    BY DEF IInv, Typed, FactorsTyped
  <1>4. factor' = [factor EXCEPT ![u] = f] /\ codes' = [codes EXCEPT ![u] = k]
    OBVIOUS
  <1> HIDE DEF f, k
  <1>5. /\ factor' = [v \in Users |-> factor'[v]] /\ factor'[u] = f
        /\ codes' \in [Users -> SUBSET Nat] /\ codes'[u] = k
        /\ \A v \in Users : v # u => factor'[v] = factor[v] /\ codes'[v] = codes[v]
    BY <1>2, <1>3, <1>4
  <1>6. FactorsTyped'
    BY <1>2, <1>3, <1>5 DEF FactorsTyped
  <1>7. \A v \in Users : factor'[v].seed = factor[v].seed /\ factor[v].step <= factor'[v].step
    BY <1>2, <1>5, SecretNumbers DEF IInv
  <1>8. \A v \in Users : SeedStep(v) /\ codes'[v] \subseteq codes[v]
    BY <1>2, <1>5, <1>7 DEF SeedStep
  <1>9. SecretsStep
    BY <1>8, SecretsShrink
  <1>10. HonourStep /\ NumbersTyped'
    <2>1. CASE use = NoCode
      BY <2>1 DEF Consume, honours, HonourStep, NumbersTyped, IInv, Typed
    <2>2. CASE use # NoCode
      <3>1. use \notin spent /\ DeadNext(use)
        BY <1>1, <1>2, <1>5, <1>7, <1>8, <2>2, UseDies
      <3>2. Honour(use)
        BY <2>2 DEF Consume
      <3>3. QED
        BY <3>1, <3>2 DEF HonourStep, Honour, NumbersTyped, IInv, Typed
    <2>3. QED
      BY <2>1, <2>2
  <1>11. QED
    BY <1>6, <1>7, <1>9, <1>10

LEMMA LoginKeeps ==
  ASSUME IInv, NEW c \in Clients, Login(c) \/ EmailVerified(c)
  PROVE  IInv'
  <1> DEFINE u == reqs[c].user
             use == reqs[c].use
             s == NewSession(u, "local", factor[u].seed)
  <1>1. /\ reqs[c].pc = "commit" /\ Consume(u, use)
        /\ factor' = [factor EXCEPT ![u] = FactorAfter(u, use)]
        /\ codes' = [codes EXCEPT ![u] = CodesAfter(u, use)]
        /\ member' = member /\ spell' = spell /\ tokens' = tokens
        /\ pairings' = pairings /\ enrols' = enrols /\ clock' = clock
    BY DEF Login, EmailVerified, At, access
  <1>2. /\ u \in Users /\ use \in Codes /\ use.kind \in {"none", "totp", "recovery"}
        /\ use.kind = "none" => use = NoCode
        /\ use.kind = "totp" => use.n # 0
    BY <1>1, UseSound
  <1>3. /\ fresh' \in Nat \ {0} /\ fresh <= fresh'
        /\ \/ sessions' = sessions
           \/ sessions' = sessions \cup {s} /\ Made(fresh)
    <2>1. CASE Login(c)
      BY <2>1, FreshMoves DEF Login
    <2>2. CASE EmailVerified(c)
      BY <2>2, SecretNumbers DEF EmailVerified, IInv, Typed, NumbersTyped
    <2>3. QED
      BY <2>1, <2>2
  <1>4. s \in Sessions /\ s.id = fresh /\ s.user = u /\ s.proof = factor[u].seed
    BY <1>2, SessionMade, SecretNumbers DEF IInv, Vias
  <1>5. RequestsTyped' /\ RequestsSound'
    <2>1. CASE Login(c)
      BY <2>1, DoneSound DEF Login
    <2>2. CASE EmailVerified(c)
      <3> DEFINE r == [reqs[c] EXCEPT !.pc = "rotate"]
      <3>1. reqs' = [reqs EXCEPT ![c] = r] /\ reqs[c].kind = "email"
        BY <2>2 DEF EmailVerified, At
      <3>2. r \in Requests /\ RequestSound(r)
        BY <3>1, HeldRequest DEF Requests, RequestSound
      <3> HIDE DEF r
      <3>3. QED
        BY <3>1, <3>2, OneRequest
    <2>3. QED
      BY <2>1, <2>2
  <1> HIDE DEF u, use, s
  <1>6. \A t \in sessions' : t \in sessions \/ Made(t.id)
    BY <1>3, <1>4
  <1>7. /\ FactorsTyped' /\ SecretsStep /\ HonourStep /\ NumbersTyped'
        /\ \A v \in Users : factor'[v].seed = factor[v].seed
    BY <1>1, <1>2, <1>3, <1>6, Consumed
  <1>8. KeysTyped' /\ KeysStep
    BY <1>1, KeysStay
  <1>9. EntryTyped'
    BY <1>1, <1>3, <1>4 DEF EntryTyped, IInv, Typed
  <1>10. GuardStep
    BY <1>1, <1>3, <1>4, <1>7 DEF GuardStep
  <1>11. QED
    BY <1>5, <1>7, <1>8, <1>9, <1>10, Combine

LEMMA TokenLoginKeeps ==
  ASSUME IInv, NEW c \in Clients, TokenLogin(c)
  PROVE  IInv'
  <1> DEFINE u == reqs[c].user
             use == reqs[c].use
  <1>1. /\ reqs[c].pc = "commit" /\ Done(c)
        /\ member' = member /\ spell' = spell /\ sessions' = sessions
        /\ pairings' = pairings /\ enrols' = enrols /\ clock' = clock /\ fresh' = fresh
    BY DEF TokenLogin, At
  <1>2. /\ u \in Users /\ use \in Codes /\ use.kind \in {"none", "totp", "recovery"}
        /\ use.kind = "none" => use = NoCode
        /\ use.kind = "totp" => use.n # 0
    BY <1>1, UseSound
  <1>3. RequestsTyped' /\ RequestsSound'
    BY <1>1, DoneSound
  <1>4. CASE UNCHANGED <<factors, tokens, honours>>
    <2>1. UNCHANGED <<factors, access, sessions, pairings, enrols, fresh, honours>>
      BY <1>1, <1>4 DEF access
    <2>2. clock' \in Nat \ {0}
      BY <1>1 DEF IInv, Typed, NumbersTyped
    <2>3. QED
      BY <1>3, <2>1, <2>2, OnlyRequests
  <1>5. ASSUME NEW s \in Systems, Consume(u, use),
               factor' = [factor EXCEPT ![u] = FactorAfter(u, use)],
               codes' = [codes EXCEPT ![u] = CodesAfter(u, use)],
               tokens' = tokens \cup {[user |-> u, sys |-> s, spell |-> spell[u, s]]}
        PROVE  IInv'
    <2> HIDE DEF u, use
    <2>1. fresh <= fresh' /\ fresh' \in Nat \ {0}
      BY <1>1, SecretNumbers DEF IInv, Typed, NumbersTyped
    <2>2. /\ FactorsTyped' /\ SecretsStep /\ HonourStep /\ NumbersTyped'
          /\ \A v \in Users : factor'[v].seed = factor[v].seed
      BY <1>1, <1>2, <1>5, <2>1, Consumed
    <2>3. EntryTyped' /\ GuardStep
      BY <1>1, <2>2 DEF EntryTyped, IInv, Typed, GuardStep
    <2> DEFINE k == [user |-> u, sys |-> s, spell |-> spell[u, s]]
    <2>4. k \in Tokens /\ k.spell = spell[k.user, k.sys]
      BY <1>2 DEF Tokens, IInv, Typed, KeysTyped
    <2>5. tokens' = tokens \cup {k}
      BY <1>5
    <2> HIDE DEF k
    <2>6. KeysTyped' /\ KeysStep
      BY <1>1, <2>4, <2>5 DEF KeysTyped, KeysStep, IInv, Typed
    <2>7. QED
      BY <1>3, <2>2, <2>3, <2>6, Combine
  <1>6. QED
    BY <1>4, <1>5 DEF TokenLogin

(* A session is replaced by one that stands where it stood: ChangeEmail    *)
(* and the binding of an identity.                                         *)
LEMMA RotateKeeps ==
  ASSUME IInv, NEW c \in Clients, ChangeEmail(c) \/ OidcSync(c)
  PROVE  IInv'
  <1> DEFINE u == reqs[c].user
             old == reqs[c].sess
             s == NewSession(u, old.via, old.proof)
  <1>1. /\ Done(c) /\ factor' = factor /\ codes' = codes
        /\ member' = member /\ spell' = spell /\ tokens' = tokens
        /\ pairings' = pairings /\ enrols' = enrols /\ clock' = clock
        /\ spent' = spent /\ reused' = reused
    BY DEF ChangeEmail, OidcSync, factors, access, honours
  <1>2. RequestsTyped' /\ RequestsSound'
    BY <1>1, DoneSound
  <1>3. /\ u \in Users /\ old \in Sessions /\ old.via \in Vias /\ old.proof \in Nat
        /\ reqs[c].kind \in SessionKinds /\ old.user = u
    BY HeldRequest DEF RequestSound, ChangeEmail, OidcSync, At, SessionKinds
  <1>4. /\ s \in Sessions /\ s.id = fresh /\ s.user = u /\ s.via = old.via
        /\ s.proof = old.proof
    BY <1>3, SessionMade
  <1>5. \/ sessions' = sessions /\ fresh' = fresh
        \/ old \in sessions /\ sessions' = Rotated(u, s) /\ Fresh(1)
    BY DEF ChangeEmail, OidcSync, Authentic
  <1> HIDE DEF u, old, s
  <1>6. NumbersTyped' /\ fresh <= fresh' /\ HonourStep
    BY <1>1, <1>5, FreshMoves, SecretNumbers DEF IInv, Typed, NumbersTyped, HonourStep
  <1>7. \A t \in sessions' : t \in sessions \/ (t = s /\ Made(t.id) /\ old \in sessions)
    BY <1>4, <1>5, FreshMoves DEF Rotated
  <1>8. EntryTyped' /\ KeysTyped' /\ KeysStep
    BY <1>1, <1>4, <1>7, KeysStay DEF EntryTyped, IInv, Typed
  <1>9. FactorsTyped' /\ \A v \in Users : SeedStep(v) /\ codes'[v] \subseteq codes[v]
    BY <1>1, FactorsStay
  <1>10. SecretsStep
    BY <1>1, <1>6, <1>7, <1>9, SecretsShrink
  <1>11. GuardStep
    <2>1. ASSUME NEW e \in sessions' \cup pairings'
          PROVE  \E f \in sessions \cup pairings :
                   f.user = e.user /\ f.via = e.via /\ f.proof = e.proof
      <3>1. CASE e \in sessions \cup pairings
        BY <3>1
      <3>2. CASE e = s /\ old \in sessions
        BY <1>3, <1>4, <3>2
      <3>3. QED
        BY <1>1, <1>7, <2>1, <3>1, <3>2
    <2>2. QED
      BY <1>1, <2>1 DEF GuardStep
  <1>12. QED
    BY <1>2, <1>6, <1>8, <1>9, <1>10, <1>11, Combine

(* The operator drops a factor; the sessions of the account end with it.   *)
LEMMA FactorDropped ==
  ASSUME IInv, NEW u \in Users, OfflineReset(u)
  PROVE  IInv'
  <1>1. /\ factor' = [factor EXCEPT ![u] = NoFactor] /\ codes' = [codes EXCEPT ![u] = {}]
        /\ sessions' \subseteq sessions
        /\ member' = member /\ spell' = spell /\ tokens' = tokens
        /\ pairings' = pairings /\ enrols' = enrols /\ clock' = clock /\ reqs' = reqs
        /\ fresh' = fresh /\ spent' = spent /\ reused' = reused
    BY DEF OfflineReset, access, honours
  <1>2. factor = [v \in Users |-> factor[v]] /\ codes \in [Users -> SUBSET Nat]
        /\ \A v \in Users : FactorRow(factor[v])
    BY DEF IInv, Typed, FactorsTyped
  <1>3. /\ factor' = [v \in Users |-> factor'[v]] /\ factor'[u] = NoFactor
        /\ codes' \in [Users -> SUBSET Nat] /\ codes'[u] = {}
        /\ \A v \in Users : v # u => factor'[v] = factor[v] /\ codes'[v] = codes[v]
    BY <1>1, <1>2
  <1>4. FactorsTyped'
    BY <1>2, <1>3, ConstantRows DEF FactorsTyped
  <1>5. \A v \in Users : SeedStep(v) /\ codes'[v] \subseteq codes[v]
    BY <1>3, ConstantRows, SecretNumbers DEF SeedStep, IInv
  <1>6. NumbersTyped' /\ fresh <= fresh' /\ HonourStep
    BY <1>1, NumbersStay
  <1>7. KeysTyped' /\ KeysStep /\ EntryTyped'
    BY <1>1, KeysStay DEF EntryTyped, IInv, Typed
  <1>8. SecretsStep
    BY <1>1, <1>5, <1>6, SecretsShrink
  <1>9. GuardStep
    BY <1>1, <1>3, ConstantRows DEF GuardStep
  <1>10. QED
    BY <1>1, <1>4, <1>6, <1>7, <1>8, <1>9, OtherRequests, Combine

LEMMA AdminResetKeeps ==
  ASSUME IInv, NEW c \in Clients, AdminReset(c)
  PROVE  IInv'
  <1> DEFINE a == reqs[c].user
             use == reqs[c].use
             f == FactorAfter(a, use)
             k == CodesAfter(a, use)
  <1>1. /\ reqs[c].pc = "commit" /\ Accepts(a, use) /\ Done(c)
        /\ member' = member /\ spell' = spell /\ tokens' = tokens
        /\ pairings' = pairings /\ enrols' = enrols /\ clock' = clock /\ fresh' = fresh
    BY DEF AdminReset, At, access
  <1>2. /\ a \in Users /\ use \in Codes /\ use.kind \in {"none", "totp", "recovery"}
        /\ use.kind = "none" => use = NoCode
        /\ use.kind = "totp" => use.n # 0
    BY <1>1, UseSound
  <1>3. RequestsTyped' /\ RequestsSound'
    BY <1>1, DoneSound
  <1>4. CASE UNCHANGED <<factors, sessions, honours>>
    <2>1. UNCHANGED <<factors, access, sessions, pairings, enrols, fresh, honours>>
      BY <1>1, <1>4 DEF access
    <2>2. clock' \in Nat \ {0}
      BY <1>1 DEF IInv, Typed, NumbersTyped
    <2>3. QED
      BY <1>3, <2>1, <2>2, OnlyRequests
  <1>5. ASSUME NEW u \in Users \ {a}, Consume(a, use),
               factor' = [factor EXCEPT ![a] = FactorAfter(a, use), ![u] = NoFactor],
               codes' = [codes EXCEPT ![a] = CodesAfter(a, use), ![u] = {}],
               sessions' = {t \in sessions : t.user # u}
        PROVE  IInv'
    <2>1. /\ FactorRow(f) /\ f.seed = factor[a].seed /\ factor[a].step <= f.step
          /\ use.kind = "totp" => use.step <= f.step
          /\ k \subseteq codes[a] /\ (use.kind = "recovery" => use.n \notin k)
      BY <1>1, <1>2, RowsAfter
    <2>2. factor = [v \in Users |-> factor[v]] /\ codes \in [Users -> SUBSET Nat]
          /\ \A v \in Users : FactorRow(factor[v])
      BY DEF IInv, Typed, FactorsTyped
    <2>3. /\ factor' = [[factor EXCEPT ![a] = f] EXCEPT ![u] = NoFactor]
          /\ codes' = [[codes EXCEPT ![a] = k] EXCEPT ![u] = {}]
      BY <1>5
    <2> HIDE DEF f, k, a, use
    <2>4. /\ factor' = [v \in Users |-> factor'[v]] /\ factor'[u] = NoFactor
          /\ codes' \in [Users -> SUBSET Nat] /\ codes'[u] = {}
          /\ factor'[a] = f /\ codes'[a] = k
          /\ \A v \in Users : v # u /\ v # a => factor'[v] = factor[v] /\ codes'[v] = codes[v]
      BY <1>2, <1>5, <2>1, <2>2, <2>3
    <2>5. FactorsTyped'
      BY <2>1, <2>2, <2>4, ConstantRows DEF FactorsTyped
    <2>6. \A v \in Users : SeedStep(v) /\ codes'[v] \subseteq codes[v]
      BY <2>1, <2>4, ConstantRows, SecretNumbers DEF SeedStep, IInv
    <2>7. \A v \in Users : factor'[v].seed \in {0, factor[v].seed}
      BY <2>1, <2>4, ConstantRows
    <2>8. fresh <= fresh' /\ fresh' \in Nat \ {0} /\ sessions' \subseteq sessions
      BY <1>1, <1>5, SecretNumbers DEF IInv, Typed, NumbersTyped
    <2>9. SecretsStep
      BY <1>1, <2>6, <2>8, SecretsShrink
    <2>10. HonourStep /\ NumbersTyped'
      <3>1. CASE use = NoCode
        BY <1>1, <1>5, <3>1 DEF Consume, honours, HonourStep, NumbersTyped, IInv, Typed
      <3>2. CASE use # NoCode
        <4>1. /\ use.kind = "totp" /\ factor'[a].seed = use.n => use.step <= factor'[a].step
              /\ use.kind = "recovery" => use.n \notin codes'[a]
              /\ use.kind # "pairing" /\ fresh' \in Nat
          BY <1>2, <2>1, <2>4, <2>8
        <4>2. use \notin spent /\ DeadNext(use)
          BY <1>1, <1>2, <2>6, <2>7, <2>8, <3>2, <4>1, UseDies
        <4>3. Honour(use)
          BY <1>5, <3>2 DEF Consume
        <4>4. QED
          BY <1>1, <1>2, <2>8, <4>2, <4>3 DEF HonourStep, Honour, NumbersTyped, IInv, Typed
      <3>3. QED
        BY <3>1, <3>2
    <2>11. KeysTyped' /\ KeysStep /\ EntryTyped'
      BY <1>1, <2>8, KeysStay DEF EntryTyped, IInv, Typed
    <2>12. GuardStep
      BY <1>1, <2>7, <2>8 DEF GuardStep
    <2>13. QED
      BY <1>3, <2>5, <2>9, <2>10, <2>11, <2>12, Combine
  <1>6. QED
    BY <1>4, <1>5 DEF AdminReset

LEMMA ChangeTwoFactorKeeps ==
  ASSUME IInv, NEW c \in Clients, ChangeTwoFactor(c)
  PROVE  IInv'
  <1> DEFINE u == reqs[c].user
             use == reqs[c].use
  <1>1. /\ reqs[c].pc = "commit" /\ Accepts(u, use) /\ Done(c)
        /\ member' = member /\ spell' = spell /\ tokens' = tokens
        /\ pairings' = pairings /\ enrols' = enrols /\ clock' = clock
    BY DEF ChangeTwoFactor, At, access
  <1>2. /\ u \in Users /\ use \in Codes /\ use.kind \in {"none", "totp", "recovery"}
        /\ use.kind = "none" => use = NoCode
        /\ use.kind = "totp" => use.n # 0
    BY <1>1, UseSound
  <1>3. RequestsTyped' /\ RequestsSound'
    BY <1>1, DoneSound
  <1>4. CASE UNCHANGED <<factors, sessions, fresh, honours>>
    <2>1. UNCHANGED <<factors, access, sessions, pairings, enrols, fresh, honours>>
      BY <1>1, <1>4 DEF access
    <2>2. clock' \in Nat \ {0}
      BY <1>1 DEF IInv, Typed, NumbersTyped
    <2>3. QED
      BY <1>3, <2>1, <2>2, OnlyRequests
  <1>5. CASE ~UNCHANGED <<factors, sessions, fresh, honours>>
    <2>1. PICK f, k, proof :
            /\ use # NoCode /\ Fresh(2) /\ Honour(use)
            /\ factor' = [factor EXCEPT ![u] = f] /\ codes' = [codes EXCEPT ![u] = k]
            /\ sessions' = Rotated(u, NewSession(u, "local", proof))
            /\ \/ f = FactorAfter(u, use) /\ k = {fresh + 1} /\ proof = factor[u].seed
               \/ f = NoFactor /\ k = {} /\ proof = 0
      <3>1. use # NoCode /\ Fresh(2) /\ Honour(use)
        BY <1>5 DEF ChangeTwoFactor
      <3>2. CASE /\ factor' = [factor EXCEPT ![u] = FactorAfter(u, use)]
                 /\ codes' = [codes EXCEPT ![u] = {fresh + 1}]
                 /\ sessions' = Rotated(u, NewSession(u, "local", factor[u].seed))
        BY <3>1, <3>2
      <3>3. CASE /\ factor' = [factor EXCEPT ![u] = NoFactor]
                 /\ codes' = [codes EXCEPT ![u] = {}]
                 /\ sessions' = Rotated(u, NewSession(u, "local", 0))
        BY <3>1, <3>3
      <3>4. QED
        BY <1>5, <3>2, <3>3 DEF ChangeTwoFactor
    <2>2. /\ FactorRow(FactorAfter(u, use)) /\ FactorAfter(u, use).seed = factor[u].seed
          /\ factor[u].step <= FactorAfter(u, use).step
          /\ use.kind = "totp" => use.step <= FactorAfter(u, use).step
      BY <1>1, <1>2, RowsAfter
    <2> HIDE DEF u, use
    <2>3. /\ fresh' \in Nat \ {0} /\ fresh <= fresh' /\ fresh' = fresh + 2
          /\ Made(fresh) /\ Made(fresh + 1) /\ fresh \in Nat
      BY <2>1, FreshMoves
    <2>4. factor = [v \in Users |-> factor[v]] /\ codes \in [Users -> SUBSET Nat]
          /\ \A v \in Users : FactorRow(factor[v]) /\ factor[v].seed \in Nat
      BY SecretNumbers DEF IInv, Typed, FactorsTyped
    <2>5. /\ FactorRow(f) /\ proof \in Nat /\ (f.seed # 0 => proof = f.seed)
          /\ f.seed \in {0, factor[u].seed}
          /\ f.seed # 0 => factor[u].step <= f.step
          /\ use.kind = "totp" /\ f.seed = use.n => use.step <= f.step
          /\ k \subseteq {fresh + 1}
      BY <1>2, <2>1, <2>2, <2>4, ConstantRows
    <2>6. k \subseteq Nat
      BY <2>3, <2>5
    <2> DEFINE s == NewSession(u, "local", proof)
    <2>7. s \in Sessions /\ s.id = fresh /\ s.user = u /\ s.proof = proof
      BY <1>2, <2>5, SessionMade DEF Vias
    <2>8. sessions' = {t \in sessions : t.user # u} \cup {s}
      BY <2>1 DEF Rotated
    <2> HIDE DEF s
    <2>9. /\ factor' = [v \in Users |-> factor'[v]] /\ factor'[u] = f
          /\ codes' \in [Users -> SUBSET Nat] /\ codes'[u] = k
          /\ \A v \in Users : v # u => factor'[v] = factor[v] /\ codes'[v] = codes[v]
      BY <1>2, <2>1, <2>4, <2>6
    <2>10. FactorsTyped'
      BY <2>4, <2>5, <2>9 DEF FactorsTyped
    <2>11. \A v \in Users : SeedStep(v)
      BY <2>5, <2>9, SecretNumbers DEF SeedStep, IInv
    <2>12. \A t \in sessions' : t \in sessions \/ Made(t.id)
      BY <2>3, <2>7, <2>8
    <2>13. \A v \in Users : \A n \in codes[v] : n # fresh + 1 /\ ~Made(n)
      <3>1. \A v \in Users : \A n \in codes[v] : n < fresh /\ n \in Nat
        BY SecretNumbers DEF IInv, SecretsApart
      <3>2. QED
        BY <2>3, <3>1 DEF Made
    <2>14. \A v \in Users : \A n \in codes'[v] : n \in codes[v] \/ Made(n)
      BY <2>3, <2>5, <2>9
    <2>15. \A v, w \in Users : \A n \in codes'[v] : Made(n) /\ n \in codes'[w] => v = w
      BY <2>9, <2>13
    <2>16. SecretsStep
      BY <1>1, <2>3, <2>11, <2>12, <2>14, <2>15 DEF SecretsStep, IInv, SecretsApart
    <2>17. use \notin spent /\ DeadNext(use)
      <3>1. use.kind = "recovery" => use.n \notin codes'[u]
        <4>1. use.kind = "recovery" => use.n \in codes[u]
          BY <1>1, ConstantRows DEF Accepts
        <4>2. QED
          BY <1>2, <2>5, <2>9, <2>13, <4>1
      <3>2. /\ use.kind = "totp" /\ factor'[u].seed = use.n => use.step <= factor'[u].step
            /\ \A v \in Users : factor'[v].seed \in {0, factor[v].seed}
            /\ \A v \in Users : v # u => codes'[v] \subseteq codes[v]
            /\ use.kind # "pairing" /\ fresh' \in Nat /\ use # NoCode
        BY <1>2, <2>1, <2>3, <2>5, <2>9
      <3>3. QED
        BY <1>1, <1>2, <2>3, <2>12, <3>1, <3>2, UseDies
    <2>18. HonourStep /\ NumbersTyped'
      BY <1>1, <1>2, <2>1, <2>3, <2>17 DEF HonourStep, Honour, NumbersTyped, IInv, Typed
    <2>19. KeysTyped' /\ KeysStep /\ EntryTyped'
      BY <1>1, <2>7, <2>8, KeysStay DEF EntryTyped, IInv, Typed
    <2>20. GuardStep
      <3>1. ASSUME NEW v \in Users, factor'[v].seed # 0, NEW e \in sessions' \cup pairings',
                   e.user = v
            PROVE  \/ e.proof = factor'[v].seed
                   \/ factor'[v].seed = factor[v].seed /\ e \in sessions \cup pairings
        <4>1. CASE v = u
          BY <1>1, <2>5, <2>7, <2>8, <2>9, <3>1, <4>1
        <4>2. CASE v # u
          BY <1>1, <2>7, <2>8, <2>9, <3>1, <4>2
        <4>3. QED
          BY <4>1, <4>2
      <3>2. QED
        BY <3>1 DEF GuardStep
    <2>21. QED
      BY <1>3, <2>10, <2>16, <2>18, <2>19, <2>20, Combine
  <1>6. QED
    BY <1>4, <1>5

LEMMA EnableKeeps ==
  ASSUME IInv, NEW e \in enrols, EnableTwoFactor(e)
  PROVE  IInv'
  <1> DEFINE u == e.user
             s == NewSession(u, "local", e.seed)
  <1>1. PICK k \in (clock - 1)..(clock + 1) :
          /\ factor' = [factor EXCEPT ![u] = [NoFactor EXCEPT !.seed = e.seed, !.step = k]]
          /\ Honour([kind |-> "totp", n |-> e.seed, step |-> k])
    BY DEF EnableTwoFactor
  <1> DEFINE f == [NoFactor EXCEPT !.seed = e.seed, !.step = k]
             x == [kind |-> "totp", n |-> e.seed, step |-> k]
  <1>2. /\ Fresh(2) /\ e.sess \in sessions /\ codes' = [codes EXCEPT ![u] = {fresh + 1}]
        /\ sessions' = {t \in sessions : t.user # u} \cup {s}
        /\ pairings' = {p \in pairings : p.user # u}
        /\ member' = member /\ spell' = spell /\ tokens' = tokens
        /\ enrols' = enrols /\ clock' = clock /\ reqs' = reqs
    BY DEF EnableTwoFactor, Rotated, access
  <1>3. /\ e.seed \in Nat /\ 0 < e.seed /\ e.seed < fresh /\ e.user = e.sess.user
        /\ e.sess.id < fresh /\ e.sess.id \in Nat /\ u \in Users
        /\ \A v \in Users : factor[v].seed # e.seed
    BY <1>2, SecretNumbers DEF IInv, SecretsApart, Typed, EntryTyped, Enrols
  <1>4. k \in Nat
    BY DEF IInv, Typed, NumbersTyped
  <1>5. FactorRow(f) /\ f.seed = e.seed /\ f.step = k
    <2>1. NoFactor \in [seed : Nat, step : Nat, fails : Nat, until : {0}]
      BY DEF NoFactor
    <2> HIDE DEF u
    <2>2. /\ f \in [seed : Nat, step : Nat, fails : Nat, until : {0}]
          /\ f.seed = e.seed /\ f.step = k
      BY <1>3, <1>4, <2>1
    <2> HIDE DEF f
    <2>3. QED
      BY <2>2, FactorSet
  <1>6. x \in Codes /\ x.n = e.seed /\ x.step = k /\ x.kind = "totp"
    BY <1>3, <1>4 DEF Codes
  <1>7. factor' = [factor EXCEPT ![u] = f] /\ Honour(x)
    BY <1>1
  <1>8. /\ fresh' \in Nat \ {0} /\ fresh <= fresh' /\ fresh' = fresh + 2
        /\ Made(fresh) /\ Made(fresh + 1) /\ fresh \in Nat
    BY <1>2, FreshMoves
  <1>9. s \in Sessions /\ s.id = fresh /\ s.user = u /\ s.proof = e.seed
    BY <1>3, SessionMade DEF Vias
  <1> HIDE DEF u, s, f, x
  <1>10. factor = [v \in Users |-> factor[v]] /\ codes \in [Users -> SUBSET Nat]
         /\ \A v \in Users : FactorRow(factor[v])
    BY DEF IInv, Typed, FactorsTyped
  <1>11. fresh + 1 \in Nat
    BY <1>8
  <1>12. /\ factor' = [v \in Users |-> factor'[v]] /\ factor'[u] = f
         /\ codes' \in [Users -> SUBSET Nat] /\ codes'[u] = {fresh + 1}
         /\ \A v \in Users : v # u => factor'[v] = factor[v] /\ codes'[v] = codes[v]
    BY <1>2, <1>3, <1>7, <1>10, <1>11
  <1>13. FactorsTyped'
    BY <1>5, <1>10, <1>12 DEF FactorsTyped
  <1>14. e.sess \notin sessions'
    <2>1. e.sess.user = u
      BY <1>3 DEF u
    <2>2. e.sess # s
      BY <1>3, <1>8, <1>9
    <2>3. QED
      BY <1>2, <2>1, <2>2
  <1>15. \A v \in Users : SeedStep(v)
    <2>1. SeedStep(u)
      BY <1>2, <1>5, <1>12, <1>14 DEF SeedStep, u
    <2>2. \A v \in Users : v # u => SeedStep(v)
      BY <1>12, SecretNumbers DEF SeedStep, IInv
    <2>3. QED
      BY <2>1, <2>2
  <1>16. \A v \in Users : \A n \in codes[v] : ~Made(n)
    <2>1. \A v \in Users : \A n \in codes[v] : n < fresh /\ n \in Nat
      BY SecretNumbers DEF IInv, SecretsApart
    <2>2. QED
      BY <1>8, <2>1 DEF Made
  <1>17. \A v \in Users : \A n \in codes'[v] : n \in codes[v] \/ Made(n)
    BY <1>8, <1>12
  <1>18. \A v, w \in Users : \A n \in codes'[v] : Made(n) /\ n \in codes'[w] => v = w
    BY <1>12, <1>16
  <1>19. \A t \in sessions' : t \in sessions \/ Made(t.id)
    BY <1>2, <1>8, <1>9
  <1>20. SecretsStep
    BY <1>2, <1>8, <1>15, <1>17, <1>18, <1>19 DEF SecretsStep, IInv, SecretsApart
  <1>21. x \notin spent
    BY <1>2, <1>6 DEF IInv, SpentAreDead, Dead
  <1>22. DeadNext(x)
    <2>1. x.n < fresh' /\ x.n # 0
      BY <1>3, <1>6, <1>8
    <2>2. ASSUME NEW v \in Users, factor'[v].seed = x.n PROVE x.step <= factor'[v].step
      BY <1>3, <1>4, <1>5, <1>6, <1>12, <2>2
    <2>3. ASSUME NEW g \in enrols', g.seed = x.n PROVE g.sess \notin sessions'
      BY <1>2, <1>6, <1>14, <2>3 DEF IInv, SecretsApart
    <2>4. QED
      BY <1>6, <2>1, <2>2, <2>3 DEF DeadNext
  <1>23. HonourStep /\ NumbersTyped'
    BY <1>2, <1>6, <1>7, <1>8, <1>21, <1>22 DEF HonourStep, Honour, NumbersTyped, IInv, Typed
  <1>24. KeysTyped' /\ KeysStep /\ EntryTyped'
    <2>1. pairings' \subseteq pairings
      BY <1>2
    <2>2. QED
      BY <1>2, <1>9, <2>1, KeysStay DEF EntryTyped, IInv, Typed
  <1>25. GuardStep
    <2>1. ASSUME NEW v \in Users, factor'[v].seed # 0, NEW g \in sessions' \cup pairings',
                 g.user = v
          PROVE  \/ g.proof = factor'[v].seed
                 \/ factor'[v].seed = factor[v].seed /\ g \in sessions \cup pairings
      <3>1. CASE v = u
        BY <1>2, <1>5, <1>9, <1>12, <2>1, <3>1
      <3>2. CASE v # u
        BY <1>2, <1>9, <1>12, <2>1, <3>2
      <3>3. QED
        BY <3>1, <3>2
    <2>2. QED
      BY <2>1 DEF GuardStep
  <1>26. QED
    BY <1>2, <1>13, <1>20, <1>23, <1>24, <1>25, OtherRequests, Combine

LEMMA StartEnrollmentKeeps ==
  ASSUME IInv, NEW s \in sessions, StartEnrollment(s)
  PROVE  IInv'
  <1> DEFINE e == [user |-> s.user, sess |-> s, seed |-> fresh]
  <1>1. /\ Fresh(1) /\ enrols' = enrols \cup {e}
        /\ factor' = factor /\ codes' = codes /\ sessions' = sessions
        /\ member' = member /\ spell' = spell /\ tokens' = tokens
        /\ pairings' = pairings /\ clock' = clock /\ reqs' = reqs
        /\ spent' = spent /\ reused' = reused
    BY DEF StartEnrollment, factors, access, honours
  <1>2. /\ fresh' \in Nat \ {0} /\ fresh <= fresh' /\ fresh' = fresh + 1
        /\ Made(fresh) /\ fresh \in Nat
    BY <1>1, FreshMoves
  <1>3. e \in Enrols /\ e.user = e.sess.user /\ e.sess = s /\ e.seed = fresh
    BY <1>2 DEF Enrols, IInv, Typed, EntryTyped, Sessions
  <1> HIDE DEF e
  <1>4. FactorsTyped' /\ \A v \in Users : SeedStep(v) /\ codes'[v] \subseteq codes[v]
    BY <1>1, FactorsStay
  <1>5. KeysTyped' /\ KeysStep /\ EntryTyped' /\ GuardStep
    BY <1>1, <1>3, KeysStay, EntriesStay DEF EntryTyped, IInv, Typed
  <1>6. \A g \in enrols : ~Made(g.seed)
    <2>1. \A g \in enrols : g.seed < fresh /\ g.seed \in Nat
      BY SecretNumbers DEF IInv, SecretsApart
    <2>2. QED
      BY <1>2, <2>1 DEF Made
  <1>7. \A g, h \in enrols' : Made(g.seed) /\ g.seed = h.seed => g = h
    BY <1>1, <1>6
  <1>8. SecretsStep
    BY <1>1, <1>2, <1>3, <1>4, <1>7 DEF SecretsStep, IInv, SecretsApart
  <1>9. NumbersTyped' /\ HonourStep
    BY <1>1, <1>2 DEF NumbersTyped, HonourStep, IInv, Typed
  <1>10. QED
    BY <1>1, <1>4, <1>5, <1>8, <1>9, OtherRequests, Combine

LEMMA CreatePairingKeeps ==
  ASSUME IInv, NEW c \in Clients, CreatePairing(c)
  PROVE  IInv'
  <1> DEFINE u == reqs[c].user
             old == reqs[c].sess
  <1>1. /\ Done(c) /\ factor' = factor /\ codes' = codes /\ sessions' = sessions
        /\ member' = member /\ spell' = spell /\ tokens' = tokens
        /\ enrols' = enrols /\ clock' = clock /\ spent' = spent /\ reused' = reused
    BY DEF CreatePairing, factors, access, honours
  <1>2. RequestsTyped' /\ RequestsSound'
    BY <1>1, DoneSound
  <1>3. /\ u \in Users /\ old \in Sessions /\ old.via \in Vias /\ old.proof \in Nat
        /\ old.user = u
    BY HeldRequest DEF RequestSound, CreatePairing, At, SessionKinds
  <1>4. CASE UNCHANGED <<pairings, fresh>>
    <2>1. UNCHANGED <<factors, access, sessions, pairings, enrols, fresh, honours>>
      BY <1>1, <1>4 DEF factors, access, honours
    <2>2. clock' \in Nat \ {0}
      BY <1>1 DEF IInv, Typed, NumbersTyped
    <2>3. QED
      BY <1>2, <2>1, <2>2, OnlyRequests
  <1>5. ASSUME NEW s \in Systems, old \in sessions, Fresh(1),
               pairings' = {p \in pairings : p.user # u}
                 \cup {[code |-> fresh, user |-> u, sys |-> s, via |-> old.via,
                        proof |-> old.proof, spell |-> spell[u, s]]}
        PROVE  IInv'
    <2> DEFINE k == [code |-> fresh, user |-> u, sys |-> s, via |-> old.via,
                     proof |-> old.proof, spell |-> spell[u, s]]
    <2>1. /\ fresh' \in Nat \ {0} /\ fresh <= fresh' /\ Made(fresh) /\ fresh \in Nat
      BY <1>5, FreshMoves
    <2>2. pairings' = {p \in pairings : p.user # u} \cup {k}
      BY <1>5
    <2> HIDE DEF u, old
    <2>3. /\ k \in Pairings /\ k.code = fresh /\ k.user = u /\ k.via = old.via
          /\ k.proof = old.proof /\ k.spell = spell[k.user, k.sys]
      BY <1>3, <2>1 DEF Pairings, IInv, Typed, KeysTyped
    <2> HIDE DEF k
    <2>4. FactorsTyped' /\ \A v \in Users : SeedStep(v) /\ codes'[v] \subseteq codes[v]
      BY <1>1, FactorsStay
    <2>5. KeysTyped' /\ KeysStep /\ EntryTyped'
      BY <1>1, <2>2, <2>3 DEF KeysTyped, KeysStep, EntryTyped, IInv, Typed
    <2>6. GuardStep
      <3>1. ASSUME NEW e \in sessions' \cup pairings'
            PROVE  \E f \in sessions \cup pairings :
                     f.user = e.user /\ f.via = e.via /\ f.proof = e.proof
        <4>1. CASE e \in sessions \cup pairings
          BY <4>1
        <4>2. CASE e = k
          BY <1>3, <1>5, <2>3, <4>2
        <4>3. QED
          BY <1>1, <2>2, <3>1, <4>1, <4>2
      <3>2. QED
        BY <1>1, <3>1 DEF GuardStep
    <2>7. \A p \in pairings : ~Made(p.code)
      <3>1. \A p \in pairings : p.code < fresh /\ p.code \in Nat
        BY SecretNumbers DEF IInv, SecretsApart
      <3>2. QED
        BY <2>1, <3>1 DEF Made
    <2>8. \A p, q \in pairings' : Made(p.code) /\ p.code = q.code => p = q
      BY <2>2, <2>7
    <2>9. SecretsStep
      BY <1>1, <2>1, <2>2, <2>3, <2>4, <2>8 DEF SecretsStep, IInv, SecretsApart
    <2>10. NumbersTyped' /\ HonourStep
      BY <1>1, <2>1 DEF NumbersTyped, HonourStep, IInv, Typed
    <2>11. QED
      BY <1>2, <2>4, <2>5, <2>6, <2>9, <2>10, Combine
  <1>6. QED
    BY <1>4, <1>5 DEF CreatePairing

(* Sessions, tokens and pairings end.                                      *)
LEMMA EndKeeps ==
  ASSUME IInv, \/ \E s \in sessions : Logout(s)
               \/ \E p \in pairings : DeletePairing(p)
               \/ \E t \in tokens : DeleteToken(t) \/ LogoutToken(t)
  PROVE  IInv'
  <1>1. /\ sessions' \subseteq sessions /\ pairings' \subseteq pairings
        /\ tokens' \subseteq tokens /\ factor' = factor /\ codes' = codes
        /\ member' = member /\ spell' = spell /\ enrols' = enrols /\ clock' = clock
        /\ reqs' = reqs /\ fresh' = fresh /\ spent' = spent /\ reused' = reused
    BY DEF Logout, DeletePairing, DeleteToken, LogoutToken, factors, access, honours
  <1>2. FactorsTyped' /\ \A v \in Users : SeedStep(v) /\ codes'[v] \subseteq codes[v]
    BY <1>1, FactorsStay
  <1>3. KeysTyped' /\ KeysStep /\ EntryTyped' /\ GuardStep
    BY <1>1, KeysStay, EntriesStay DEF EntryTyped, IInv, Typed
  <1>4. NumbersTyped' /\ fresh <= fresh' /\ HonourStep
    BY <1>1, NumbersStay
  <1>5. SecretsStep
    BY <1>1, <1>2, <1>4, SecretsShrink
  <1>6. QED
    BY <1>1, <1>2, <1>3, <1>4, <1>5, OtherRequests, Combine

LEMMA ExchangeKeeps ==
  ASSUME IInv, NEW p \in pairings, Exchange(p)
  PROVE  IInv'
  <1> DEFINE k == [user |-> p.user, sys |-> p.sys, spell |-> p.spell]
             x == [kind |-> "pairing", n |-> p.code, step |-> 0]
  <1>1. /\ pairings' = pairings \ {p} /\ tokens' = tokens \cup {k} /\ Honour(x)
        /\ sessions' = sessions /\ factor' = factor /\ codes' = codes
        /\ member' = member /\ spell' = spell /\ enrols' = enrols /\ clock' = clock
        /\ reqs' = reqs /\ fresh' = fresh
    BY DEF Exchange, factors
  <1>2. p \in Pairings
    BY DEF IInv, Typed, KeysTyped
  <1>3. /\ k \in Tokens /\ k.spell = p.spell /\ k.user = p.user /\ k.sys = p.sys
        /\ p.spell = spell[p.user, p.sys]
    BY <1>2 DEF Tokens, Pairings, IInv, KeysEndWithMembership
  <1>4. x \in Codes /\ x.kind = "pairing" /\ x.n = p.code
    BY <1>2 DEF Codes, Pairings
  <1> HIDE DEF k, x
  <1>5. FactorsTyped' /\ \A v \in Users : SeedStep(v) /\ codes'[v] \subseteq codes[v]
    BY <1>1, FactorsStay
  <1>6. EntryTyped' /\ GuardStep
    BY <1>1, EntriesStay DEF EntryTyped, IInv, Typed
  <1>7. KeysTyped' /\ KeysStep
    BY <1>1, <1>3 DEF KeysTyped, KeysStep, IInv, Typed
  <1>8. fresh <= fresh' /\ fresh' \in Nat \ {0}
    BY <1>1, SecretNumbers DEF IInv, Typed, NumbersTyped
  <1>9. SecretsStep
    BY <1>1, <1>5, <1>8, SecretsShrink
  <1>10. x \notin spent
    BY <1>4 DEF IInv, SpentAreDead, Dead
  <1>11. DeadNext(x)
    <2>1. x.n < fresh' /\ \A q \in pairings' : q.code # x.n
      BY <1>1, <1>4 DEF IInv, SecretsApart
    <2>2. QED
      BY <1>4, <2>1 DEF DeadNext
  <1>12. HonourStep /\ NumbersTyped'
    BY <1>1, <1>4, <1>8, <1>10, <1>11 DEF HonourStep, Honour, NumbersTyped, IInv, Typed
  <1>13. QED
    BY <1>1, <1>5, <1>6, <1>7, <1>9, <1>12, OtherRequests, Combine

LEMMA CreateTokenKeeps ==
  ASSUME IInv, NEW c \in Clients, CreateToken(c)
  PROVE  IInv'
  <1> DEFINE u == reqs[c].user
  <1>1. /\ Done(c) /\ factor' = factor /\ codes' = codes /\ sessions' = sessions
        /\ member' = member /\ spell' = spell /\ pairings' = pairings /\ fresh' = fresh
        /\ enrols' = enrols /\ clock' = clock /\ spent' = spent /\ reused' = reused
    BY DEF CreateToken, factors, honours
  <1>2. PICK s \in Systems :
          tokens' \subseteq tokens \cup {[user |-> u, sys |-> s, spell |-> spell[u, s]]}
    BY DEF CreateToken
  <1> DEFINE k == [user |-> u, sys |-> s, spell |-> spell[u, s]]
  <1>3. k \in Tokens /\ k.spell = spell[k.user, k.sys]
    BY HeldRequest DEF Tokens, IInv, Typed, KeysTyped
  <1>4. tokens' \subseteq tokens \cup {k}
    BY <1>2
  <1> HIDE DEF u, k
  <1>5. FactorsTyped' /\ \A v \in Users : SeedStep(v) /\ codes'[v] \subseteq codes[v]
    BY <1>1, FactorsStay
  <1>6. EntryTyped' /\ GuardStep
    BY <1>1, EntriesStay DEF EntryTyped, IInv, Typed
  <1>7. KeysTyped' /\ KeysStep
    BY <1>1, <1>3, <1>4 DEF KeysTyped, KeysStep, IInv, Typed
  <1>8. NumbersTyped' /\ fresh <= fresh' /\ HonourStep
    BY <1>1, NumbersStay
  <1>9. SecretsStep
    BY <1>1, <1>5, <1>8, SecretsShrink
  <1>10. QED
    BY <1>1, <1>5, <1>6, <1>7, <1>8, <1>9, DoneSound, Combine

LEMMA IssueSessionKeeps ==
  ASSUME IInv, NEW c \in Clients, IssueSession(c)
  PROVE  IInv'
  <1> DEFINE u == reqs[c].user
             via == reqs[c].sess.via
             s == NewSession(u, via, 0)
  <1>1. /\ Done(c) /\ Fresh(1) /\ sessions' = sessions \cup {s}
        /\ factor' = factor /\ codes' = codes /\ reqs[c].kind = "issue"
        /\ member' = member /\ spell' = spell /\ tokens' = tokens
        /\ pairings' = pairings /\ enrols' = enrols /\ clock' = clock
        /\ spent' = spent /\ reused' = reused
    BY DEF IssueSession, At, factors, access, honours
  <1>2. u \in Users /\ via \in Vias /\ via # "local" /\ 0 \in Nat
    BY <1>1, HeldRequest DEF RequestSound
  <1>3. s \in Sessions /\ s.id = fresh /\ s.user = u /\ s.via = via
    BY <1>2, SessionMade
  <1> HIDE DEF u, via, s
  <1>4. /\ fresh' \in Nat \ {0} /\ fresh <= fresh' /\ Made(fresh)
    BY <1>1, FreshMoves
  <1>5. FactorsTyped' /\ \A v \in Users : SeedStep(v) /\ codes'[v] \subseteq codes[v]
    BY <1>1, FactorsStay
  <1>6. KeysTyped' /\ KeysStep /\ EntryTyped'
    BY <1>1, <1>3, KeysStay DEF EntryTyped, IInv, Typed
  <1>7. GuardStep
    BY <1>1, <1>2, <1>3 DEF GuardStep
  <1>8. NumbersTyped' /\ HonourStep
    BY <1>1, <1>4 DEF NumbersTyped, HonourStep, IInv, Typed
  <1>9. SecretsStep
    <2>1. \A t \in sessions' : t \in sessions \/ Made(t.id)
      BY <1>1, <1>3, <1>4
    <2>2. QED
      BY <1>1, <1>4, <1>5, <2>1, SecretsShrink
  <1>10. QED
    BY <1>1, <1>5, <1>6, <1>7, <1>8, <1>9, DoneSound, Combine

LEMMA MembersKeep ==
  ASSUME IInv, NEW a \in Users, NEW s \in Systems, PutSystemMembers(a, s)
  PROVE  IInv'
  <1>1. /\ factor' = factor /\ codes' = codes /\ sessions' = sessions
        /\ enrols' = enrols /\ clock' = clock /\ reqs' = reqs /\ fresh' = fresh
        /\ spent' = spent /\ reused' = reused
    BY DEF PutSystemMembers, factors, honours
  <1>2. PICK wanted \in SUBSET Users :
       LET gone == {u \in Users : <<u, s>> \in member} \ wanted
       IN  /\ member' = {m \in member : m[2] # s} \cup (wanted \X {s})
           /\ spell' = [p \in DOMAIN spell |-> IF p[1] \in gone /\ p[2] = s
                                               THEN spell[p] + 1 ELSE spell[p]]
           /\ tokens' = {t \in tokens : ~(t.user \in gone /\ t.sys = s)}
           /\ pairings' = {p \in pairings : ~(p.user \in gone /\ p.sys = s)}
    BY DEF PutSystemMembers
  <1> DEFINE gone == {u \in Users : <<u, s>> \in member} \ wanted
  <1>3. spell \in [Users \X Systems -> Nat] /\ member \subseteq Users \X Systems
        /\ tokens \subseteq Tokens /\ pairings \subseteq Pairings
    BY DEF IInv, Typed, KeysTyped
  <1>4. spell' = [p \in Users \X Systems |-> IF p[1] \in gone /\ p[2] = s
                                             THEN spell[p] + 1 ELSE spell[p]]
    BY <1>2, <1>3
  <1>5. /\ tokens' = {t \in tokens : ~(t.user \in gone /\ t.sys = s)}
        /\ pairings' = {p \in pairings : ~(p.user \in gone /\ p.sys = s)}
    BY <1>2
  <1>6. member' \subseteq Users \X Systems
    BY <1>2, <1>3
  <1> HIDE DEF gone
  <1>7. \A u \in Users, t \in Systems :
          ~(u \in gone /\ t = s) => spell'[u, t] = spell[u, t]
    BY <1>4
  <1>8. spell' \in [Users \X Systems -> Nat]
    BY <1>3, <1>4
  <1>9. KeysTyped'
    BY <1>3, <1>5, <1>6, <1>8 DEF KeysTyped
  <1>10. KeysStep
    BY <1>3, <1>5, <1>7 DEF KeysStep, Tokens, Pairings
  <1>11. FactorsTyped' /\ \A v \in Users : SeedStep(v) /\ codes'[v] \subseteq codes[v]
    BY <1>1, FactorsStay
  <1>12. EntryTyped' /\ GuardStep
    BY <1>1, <1>5, EntriesStay DEF EntryTyped, IInv, Typed
  <1>13. NumbersTyped' /\ fresh <= fresh' /\ HonourStep
    BY <1>1, NumbersStay
  <1>14. SecretsStep
    BY <1>1, <1>5, <1>11, <1>13, SecretsShrink
  <1>15. QED
    BY <1>1, <1>9, <1>10, <1>11, <1>12, <1>13, <1>14, OtherRequests, Combine

-----------------------------------------------------------------------------
(* The invariant is inductive.                                             *)
LEMMA InitSound == Init => IInv
  <1> SUFFICES ASSUME Init PROVE IInv
    OBVIOUS
  <1>1. FactorsTyped /\ \A u \in Users : factor[u].seed = 0 /\ codes[u] = {}
    BY ConstantRows DEF Init, FactorsTyped
  <1>2. KeysTyped /\ EntryTyped /\ NumbersTyped
    BY DEF Init, KeysTyped, EntryTyped, NumbersTyped
  <1>3. RequestsTyped /\ RequestsSound
    BY ConstantRows DEF Init, RequestsTyped, RequestsSound
  <1>4. SecretsApart
    BY <1>1 DEF Init, SecretsApart
  <1>5. SpentAreDead /\ HonouredOnce /\ FactorGuardsEntry /\ KeysEndWithMembership
    BY DEF Init, SpentAreDead, HonouredOnce, FactorGuardsEntry, KeysEndWithMembership
  <1>6. QED
    BY <1>1, <1>2, <1>3, <1>4, <1>5 DEF IInv, Typed

LEMMA StepSound == IInv /\ [Next]_vars => IInv'
  <1> SUFFICES ASSUME IInv, [Next]_vars PROVE IInv'
    OBVIOUS
  <1>1. ASSUME NEW c \in Clients,
               \/ BeginSignIn(c) \/ BeginConfirmed(c) \/ BeginSession(c) \/ Refuse(c)
               \/ SetupForm(c) \/ \E u \in Users : OidcResolve(c, u)
        PROVE  IInv'
    BY <1>1, BeginKeeps
  <1>2. ASSUME NEW c \in Clients,
               \/ RejectFactor(c) \/ Login(c) \/ TokenLogin(c) \/ EmailVerified(c)
               \/ ChangeEmail(c) \/ ChangeTwoFactor(c) \/ AdminReset(c)
               \/ CreatePairing(c) \/ CreateToken(c) \/ IssueSession(c) \/ OidcSync(c)
        PROVE  IInv'
    BY <1>2, Rejected, LoginKeeps, TokenLoginKeeps, RotateKeeps, ChangeTwoFactorKeeps,
       AdminResetKeeps, CreatePairingKeeps, CreateTokenKeeps, IssueSessionKeeps
  <1>3. CASE \E s \in sessions : StartEnrollment(s)
    BY <1>3, StartEnrollmentKeeps
  <1>4. CASE \E e \in enrols : EnableTwoFactor(e)
    BY <1>4, EnableKeeps
  <1>5. CASE \E p \in pairings : Exchange(p)
    BY <1>5, ExchangeKeeps
  <1>6. CASE \/ \E s \in sessions : Logout(s)
             \/ \E p \in pairings : DeletePairing(p)
             \/ \E t \in tokens : DeleteToken(t) \/ LogoutToken(t)
    BY <1>6, EndKeeps
  <1>7. CASE \E u \in Users : OfflineReset(u)
    BY <1>7, FactorDropped
  <1>8. CASE \E a \in Users, s \in Systems : PutSystemMembers(a, s)
    BY <1>8, MembersKeep
  <1>9. CASE \/ \E u \in Users : CreateUser(u) \/ \E a \in Users : PatchUser(a, u)
             \/ SetupHandler \/ Tick \/ RemintSetup \/ Restart \/ UNCHANGED vars
    BY <1>9, AccountsKeep
  <1>10. QED
    BY <1>1, <1>2, <1>3, <1>4, <1>5, <1>6, <1>7, <1>8, <1>9 DEF Next

LEMMA SignInSound == Spec => []IInv
  BY InitSound, StepSound, PTL DEF Spec

(* No TOTP, recovery or pairing code is honoured twice, whichever requests *)
(* carry it at the same time and whatever is enabled, reset or restarted   *)
(* in between: consuming one moves the factor past it or deletes it, and   *)
(* an enrolment token dies with the session it is bound to                 *)
(* (plugins/local-auth consume, EnableTwoFactor; core/api pairing).        *)
THEOREM SecretsHonouredOnce == Spec => []HonouredOnce
  <1>1. IInv => HonouredOnce
    BY DEF IInv
  <1>2. QED
    BY <1>1, SignInSound, PTL

(* Once a second factor is enabled, every local session and pairing code   *)
(* of the account comes from someone who passed it                         *)
(* (plugins/local-auth EnableTwoFactor, requireLiveSession).               *)
THEOREM FactorIsGuard == Spec => []FactorGuardsEntry
  <1>1. IInv => FactorGuardsEntry
    BY DEF IInv
  <1>2. QED
    BY <1>1, SignInSound, PTL

(* Tokens and pairing codes do not outlive the membership they were made   *)
(* in (core/api PutSystemMembers).                                         *)
THEOREM KeysEnd == Spec => []KeysEndWithMembership
  <1>1. IInv => KeysEndWithMembership
    BY DEF IInv
  <1>2. QED
    BY <1>1, SignInSound, PTL

-----------------------------------------------------------------------------
(* The mailbox.                                                            *)
Handled == filed \cup ignored \cup Big

(* A server, by its boxes bx, their tops tp and their numberings vl.       *)
ServerAt(bx, tp, vl) ==
  /\ bx \in [Boxes -> [1..MaxUid -> Msgs \cup {NoMsg}]]
  /\ tp \in [Boxes -> 0..MaxUid] /\ vl \in [Boxes -> 1..MaxVal]
  /\ \A b \in Boxes : FirstVal[b] <= vl[b] /\ vl[b] <= FirstVal[b] + MailBounds["mishaps"]
  /\ \A b \in Boxes : \A u \in 1..MaxUid : bx[b][u] # NoMsg => u <= tp[b]

ServerInv ==
  /\ ServerAt(box, top, val)
  /\ \A b \in Boxes : val[b] + quota["mishaps"] <= FirstVal[b] + MailBounds["mishaps"]

(* A server and what was handled, before and after a step: a number is     *)
(* raised by one or stands for the same messages, some of them gone.       *)
LaterThan(bx, tp, vl, h, bx2, tp2, vl2, h2) ==
  /\ h \subseteq h2
  /\ \A b \in Boxes :
       \/ vl2[b] = vl[b] + 1
       \/ /\ vl2[b] = vl[b] /\ tp[b] <= tp2[b]
          /\ \A u \in 1..tp[b] : bx2[b][u] \in {bx[b][u], NoMsg}

(* A number that the mailbox has, or had.                                  *)
Given(n, b, vl) == FirstVal[b] <= n /\ n <= vl[b]

(* A cursor is nothing yet, or taken in some numbering, and passes only    *)
(* handled mail while its own mailbox still has that numbering.            *)
SoundAt(c, bx, tp, vl, h) ==
  LET b == BoxOf[c.src]
  IN  /\ c.val = 0 => c.uid = 0
      /\ c.val # 0 => \E d \in Boxes : Given(c.val, d, vl)
      /\ c.val = vl[b] =>
           /\ c.uid <= tp[b]
           /\ \A u \in 1..c.uid : bx[b][u] \in Horizon[c.src] => bx[b][u] \in h

(* A poll under way: what its search found and was not given up, and that  *)
(* this leaves no message out as long as the batch is complete.            *)
Seen(w) == w.todo \cup w.batch \cup w.done \cup w.failed \cup w.missing

FetchAt(w, bx, tp, vl, h) ==
  LET b == BoxOf[w.src]
  IN  /\ Given(w.now, b, vl)
      /\ w.last = (IF w.val = w.now THEN w.uid ELSE 0)
      /\ ~w.ok \/ w.failed # {} => w.err
      /\ w.pc = "mark" => w.batch = {}
      /\ \A t \in w.todo : \A p \in w.batch \cup w.done \cup w.failed \cup w.missing : p < t
      /\ w.now = vl[b] =>
           /\ \A s \in Seen(w) : w.last < s /\ s <= tp[b]
           /\ w.ok => \A u \in 1..MaxUid : \A s \in Seen(w) :
                        bx[b][u] \in Horizon[w.src] /\ w.last < u /\ u <= s => u \in Seen(w)
           /\ \A u \in w.done : bx[b][u] \in h \cup {NoMsg}
           /\ \A u \in w.missing : bx[b][u] = NoMsg

CursorInv ==
  /\ row # NoRow => SoundAt(row, box, top, val, Handled)
  /\ watcher # NoWatcher => SoundAt(watcher, box, top, val, Handled)
  /\ \A c \in Callers : calls[c].seen # NoRow => SoundAt(calls[c].seen, box, top, val, Handled)
  /\ watcher # NoWatcher /\ watcher.pc \in {"fetch", "mark"} =>
       FetchAt(watcher, box, top, val, Handled)

PassInv == TypeOK /\ ServerInv /\ CursorInv

-----------------------------------------------------------------------------
(* Sets of numbers.                                                        *)
LEMMA MailLeast ==
  ASSUME NEW S, S \subseteq Nat, S # {}
  PROVE  Min(S) \in S /\ \A y \in S : Min(S) <= y
<1>1. PICK x \in S : \A y \in S : ~(<<y, x>> \in OpToRel(<, Nat))
  BY NatLessThanWellFounded, WFMin
<1>2. ASSUME NEW y \in S PROVE x <= y
  <2> x \in Nat /\ y \in Nat OBVIOUS
  <2>1. y < x => <<y, x>> \in OpToRel(<, Nat) BY DEF OpToRel
  <2>2. ~(y < x) BY <1>1, <2>1, Zenon
  <2> QED BY <2>2
<1> QED BY <1>2 DEF Min

LEMMA MailGreatest ==
  ASSUME NEW S, S \subseteq Nat, S # {}, IsFiniteSet(S)
  PROVE  Max(S) \in S /\ \A y \in S : Max(S) >= y
<1> DEFINE Has(T) == \E x \in T : \A y \in T : x >= y
           Bad == {T \in SUBSET S : T # {} /\ ~Has(T)}
<1>1. SUFFICES Bad = {} BY DEF Max
<1>2. SUFFICES ASSUME Bad # {} PROVE FALSE OBVIOUS
<1>3. IsWellFoundedOn(StrictSubsetOrdering(S), SUBSET S)
  BY FS_StrictSubsetOrderingWellFounded, FS_FiniteSubsetsOfFinite
<1>4. PICK T \in Bad : \A U \in Bad : ~(<<U, T>> \in StrictSubsetOrdering(S))
  <2> Bad \subseteq SUBSET S OBVIOUS
  <2> HIDE DEF Bad
  <2> QED BY <1>2, <1>3, WFMin
<1>5. PICK x \in T : TRUE BY <1>4
<1>6. T \in SUBSET S /\ T \ {x} \in SUBSET S /\ T \ {x} # T BY <1>4, <1>5
<1>7. T \ {x} \notin Bad
  <2> <<T \ {x}, T>> \in StrictSubsetOrdering(S) BY <1>6 DEF StrictSubsetOrdering
  <2> QED BY <1>4
<1>8. CASE T \ {x} = {}
  <2> \A y \in T : x >= y BY <1>5, <1>6, <1>8
  <2> QED BY <1>4, <1>5
<1>9. CASE Has(T \ {x})
  <2> PICK m \in T \ {x} : \A y \in T \ {x} : m >= y BY <1>9
  <2> m \in Nat /\ x \in Nat /\ \A y \in T : y \in Nat BY <1>6
  <2>1. CASE m >= x
    <3> \A y \in T : m >= y BY <2>1
    <3> QED BY <1>4
  <2>2. CASE x >= m
    <3> \A y \in T : x >= y BY <2>2
    <3> QED BY <1>4, <1>5
  <2> QED BY <2>1, <2>2
<1> QED BY <1>6, <1>7, <1>8, <1>9

LEMMA MailBounded ==
  ASSUME NEW S, NEW n \in Nat, S \subseteq 0..n, S # {}
  PROVE  Max(S) \in S /\ \A y \in S : Max(S) >= y
<1> IsFiniteSet(S) BY FS_BoundedSetOfNaturals, S \in SUBSET Nat, \A s \in S : s <= n
<1> QED BY MailGreatest, S \subseteq Nat

(* The first Batch of a set of UIDs lie in front of the others.            *)
LEMMA MailFirstOf ==
  ASSUME NEW uids, uids \subseteq 1..MaxUid
  PROVE  FirstOf(uids) \subseteq uids /\ \A p \in FirstOf(uids), t \in uids \ FirstOf(uids) : p < t
<1>0. MaxUid \in Nat /\ Batch \in Nat BY NumbersAssumption
<1> uids \subseteq Nat BY <1>0
<1>1. FirstOf(uids) \subseteq uids BY DEF FirstOf
<1>2. SUFFICES ASSUME NEW p \in FirstOf(uids), NEW t \in uids \ FirstOf(uids), ~(p < t) PROVE FALSE
  BY <1>1
<1> DEFINE L(x) == {v \in uids : v <= x}
<1>3. p \in Nat /\ t \in Nat /\ MaxUid \in Nat /\ Batch \in Nat BY <1>0, <1>1
<1>4. L(t) \in SUBSET L(p)
  <2> \A v \in uids : v \in Nat /\ (v <= t => v <= p) BY <1>2, <1>3
  <2> QED OBVIOUS
<1>5. IsFiniteSet(L(p))
  <2> L(p) \in SUBSET Nat /\ \A s \in L(p) : s <= p BY <1>3
  <2> HIDE DEF L
  <2> QED BY <1>3, FS_BoundedSetOfNaturals
<1>6. Cardinality(L(t)) <= Cardinality(L(p)) /\ Cardinality(L(p)) \in Nat /\ Cardinality(L(t)) \in Nat
  <2> HIDE DEF L
  <2> QED BY <1>4, <1>5, FS_Subset, FS_CardinalityType
<1>7. Cardinality(L(p)) <= Batch BY DEF FirstOf
<1> QED BY <1>3, <1>6, <1>7 DEF FirstOf

Checkpoint(n, last, passed, failed, complete) ==
  /\ n \in 0..MaxUid /\ last <= n
  /\ ~complete => n = last
  /\ n # last => /\ \E s \in passed \cup failed : n <= s
                 /\ \A f \in failed : n < f
  /\ complete /\ failed = {} => n \in passed \cup {last} /\ \A p \in passed : p <= n

LEMMA MailCheckpoint ==
  ASSUME NEW last \in 0..MaxUid, NEW passed \in SUBSET (1..MaxUid), NEW failed \in SUBSET (1..MaxUid),
         NEW complete \in BOOLEAN
  PROVE  Checkpoint(NextUIDCheckpoint(last, passed, failed, complete), last, passed, failed, complete)
<1> PICK n : n = NextUIDCheckpoint(last, passed, failed, complete) OBVIOUS
<1> SUFFICES Checkpoint(n, last, passed, failed, complete) OBVIOUS
<1> USE DEF Checkpoint
<1>1. MaxUid \in Nat BY NumbersAssumption
<1> DEFINE next == Max(passed \cup {last})
           wall == IF failed = {} THEN next ELSE Min(failed) - 1
<1>2. next \in passed \cup {last} /\ \A y \in passed \cup {last} : next >= y
  <2> passed \cup {last} \subseteq 0..MaxUid BY <1>1
  <2> QED BY <1>1, MailBounded
<1>3. failed # {} => Min(failed) \in failed /\ \A y \in failed : Min(failed) <= y
  BY <1>1, MailLeast, failed \subseteq Nat
<1>4. wall \in 0..MaxUid
  <2> HIDE DEF next
  <2> next \in 0..MaxUid BY <1>1, <1>2
  <2> \A x \in failed : x \in 1..MaxUid /\ x - 1 \in 0..MaxUid BY <1>1
  <2> failed # {} => Min(failed) - 1 \in 0..MaxUid BY <1>3
  <2> QED OBVIOUS
<1>5. Max({wall, last}) = (IF wall >= last THEN wall ELSE last)
  <2> HIDE DEF wall
  <2> Max({wall, last}) \in {wall, last} /\ \A y \in {wall, last} : Max({wall, last}) >= y
    BY <1>1, <1>4, MailBounded
  <2> QED BY <1>4
<1>6. n = IF ~complete THEN last ELSE IF wall >= last THEN wall ELSE last
  <2> n = IF ~complete THEN last ELSE Max({wall, last}) BY DEF NextUIDCheckpoint
  <2> QED BY <1>5
<1>7. CASE failed = {}
  <2> wall = next BY <1>7
  <2> HIDE DEF wall, next
  <2> QED BY <1>1, <1>2, <1>4, <1>6, <1>7
<1>8. CASE failed # {}
  <2> wall = Min(failed) - 1 BY <1>8
  <2> HIDE DEF wall, next
  <2> PICK m : m = Min(failed) OBVIOUS
  <2>0. \A y \in failed : y \in 1..MaxUid /\ y \in Nat BY <1>1
  <2>1. m \in failed /\ m \in 1..MaxUid /\ m \in Nat /\ \A y \in failed : y \in Nat /\ m <= y
    BY <1>3, <1>8, <2>0
  <2>2. n \in 0..MaxUid /\ last <= n /\ (~complete => n = last) BY <1>1, <1>4, <1>6
  <2>3. ASSUME n # last PROVE n = m - 1 BY <1>6, <2>3
  <2>4. n # last => n <= m /\ \A f \in failed : n < f BY <2>1, <2>3
  <2> QED BY <1>8, <2>1, <2>2, <2>4
<1> QED BY <1>7, <1>8

-----------------------------------------------------------------------------
(* Cursors and polls as the server moves on.                               *)
LEMMA MailOneBox ==
  ASSUME OwnNumberings, NEW bx, NEW tp, NEW vl, ServerAt(bx, tp, vl), NEW n \in Nat,
         NEW b \in Boxes, NEW c \in Boxes, Given(n, b, vl), Given(n, c, vl)
  PROVE  b = c
<1> MailBounds["mishaps"] \in Nat /\ FirstVal[b] \in Nat /\ FirstVal[c] \in Nat /\ vl[b] \in Nat /\ vl[c] \in Nat
  BY NumbersAssumption, SourcesAssumption DEF ServerAt
<1>1. /\ FirstVal[b] <= n /\ n <= FirstVal[b] + MailBounds["mishaps"]
      /\ FirstVal[c] <= n /\ n <= FirstVal[c] + MailBounds["mishaps"]
  BY DEF Given, ServerAt
<1> QED BY <1>1 DEF OwnNumberings

LEMMA MailCursorTypes ==
  ASSUME NEW c \in Rows \cup Watchers
  PROVE  c.src \in Sources /\ BoxOf[c.src] \in Boxes /\ c.uid \in 0..MaxUid /\ c.uid \in Nat /\ c.val \in Nat
         /\ MaxUid \in Nat /\ MaxVal \in Nat /\ NoMsg \notin Horizon[c.src]
BY NumbersAssumption, SourcesAssumption, MarkersAssumption DEF Rows, Watchers

LEMMA MailServerTypes ==
  ASSUME NEW bx, NEW tp, NEW vl, ServerAt(bx, tp, vl), NEW b \in Boxes
  PROVE  vl[b] \in Nat /\ vl[b] > 0 /\ vl[b] <= MaxVal /\ tp[b] \in Nat /\ FirstVal[b] \in Nat
<1> vl[b] \in 1..MaxVal /\ tp[b] \in 0..MaxUid /\ FirstVal[b] \in 1..MaxVal BY SourcesAssumption DEF ServerAt
<1> QED BY NumbersAssumption

LEMMA MailLaterTypes ==
  ASSUME NEW bx, NEW tp, NEW vl, NEW h, NEW bx2, NEW tp2, NEW vl2, NEW h2,
         ServerAt(bx, tp, vl), ServerAt(bx2, tp2, vl2),
         LaterThan(bx, tp, vl, h, bx2, tp2, vl2, h2), NEW b \in Boxes
  PROVE  vl[b] \in Nat /\ vl2[b] \in Nat /\ tp[b] \in Nat /\ tp2[b] \in Nat
         /\ FirstVal[b] \in Nat /\ vl2[b] >= vl[b] /\ vl[b] > 0
<1> vl2[b] = vl[b] + 1 \/ vl2[b] = vl[b] BY DEF LaterThan
<1> QED BY MailServerTypes

LEMMA MailSoundLater ==
  ASSUME OwnNumberings,
         NEW bx, NEW tp, NEW vl, NEW h, NEW bx2, NEW tp2, NEW vl2, NEW h2,
         ServerAt(bx, tp, vl), ServerAt(bx2, tp2, vl2),
         LaterThan(bx, tp, vl, h, bx2, tp2, vl2, h2),
         NEW c \in Rows \cup Watchers, SoundAt(c, bx, tp, vl, h)
  PROVE  SoundAt(c, bx2, tp2, vl2, h2)
<1> DEFINE b == BoxOf[c.src]
<1>1. c.src \in Sources /\ b \in Boxes /\ c.uid \in 0..MaxUid /\ c.uid \in Nat /\ c.val \in Nat
      /\ MaxUid \in Nat /\ NoMsg \notin Horizon[c.src] BY MailCursorTypes
<1>2. \A d \in Boxes : vl[d] \in Nat /\ vl2[d] \in Nat /\ tp[d] \in Nat /\ tp2[d] \in Nat
                         /\ FirstVal[d] \in Nat /\ vl2[d] >= vl[d] /\ vl[d] > 0
  BY MailLaterTypes
<1>3. \A d \in Boxes : Given(c.val, d, vl) => Given(c.val, d, vl2) BY <1>1, <1>2 DEF Given
<1>4. c.val # 0 => \E d \in Boxes : Given(c.val, d, vl2) BY <1>3 DEF SoundAt
<1>5. ASSUME c.val = vl2[b]
      PROVE  c.uid <= tp2[b] /\ \A u \in 1..c.uid : bx2[b][u] \in Horizon[c.src] => bx2[b][u] \in h2
  <2>1. c.val # 0 BY <1>1, <1>2, <1>5
  <2>2. PICK d \in Boxes : Given(c.val, d, vl) BY <2>1 DEF SoundAt
  <2>3. Given(c.val, b, vl2) BY <1>1, <1>5 DEF Given, ServerAt
  <2>4. d = b BY <1>1, <1>3, <2>2, <2>3, MailOneBox
  <2>5. vl2[b] = vl[b] BY <1>1, <1>2, <1>5, <2>2, <2>4 DEF Given
  <2>6. tp[b] <= tp2[b] /\ \A u \in 1..tp[b] : bx2[b][u] \in {bx[b][u], NoMsg}
    BY <1>1, <1>2, <2>5 DEF LaterThan
  <2>7. c.uid <= tp[b] /\ \A u \in 1..c.uid : bx[b][u] \in Horizon[c.src] => bx[b][u] \in h
    BY <1>5, <2>5 DEF SoundAt
  <2>8. h \subseteq h2 BY DEF LaterThan
  <2> HIDE DEF b
  <2> QED BY <1>1, <1>2, <2>6, <2>7, <2>8
<1> QED BY <1>4, <1>5 DEF SoundAt

LEMMA MailFetchLater ==
  ASSUME NEW bx, NEW tp, NEW vl, NEW h, NEW bx2, NEW tp2, NEW vl2, NEW h2,
         ServerAt(bx, tp, vl), ServerAt(bx2, tp2, vl2),
         LaterThan(bx, tp, vl, h, bx2, tp2, vl2, h2),
         NEW w \in Watchers, FetchAt(w, bx, tp, vl, h)
  PROVE  FetchAt(w, bx2, tp2, vl2, h2)
<1> DEFINE b == BoxOf[w.src]
<1>1. w.src \in Sources /\ b \in Boxes /\ MaxUid \in Nat /\ NoMsg \notin Horizon[w.src] BY MailCursorTypes
<1>2. vl[b] \in Nat /\ vl2[b] \in Nat /\ tp[b] \in Nat /\ tp2[b] \in Nat
      /\ FirstVal[b] \in Nat /\ vl2[b] >= vl[b]
  BY <1>1, MailLaterTypes
<1>3. w.now \in Nat /\ w.last \in Nat /\ Seen(w) \subseteq 1..MaxUid /\ w.done \subseteq Seen(w) /\ w.missing \subseteq Seen(w)
  BY NumbersAssumption DEF Watchers, Seen
<1>4. Given(w.now, b, vl2) BY <1>2, <1>3 DEF FetchAt, Given
<1>5. ASSUME w.now = vl2[b]
      PROVE  /\ \A s \in Seen(w) : w.last < s /\ s <= tp2[b]
             /\ w.ok => \A u \in 1..MaxUid : \A s \in Seen(w) :
                        bx2[b][u] \in Horizon[w.src] /\ w.last < u /\ u <= s => u \in Seen(w)
             /\ \A u \in w.done : bx2[b][u] \in h2 \cup {NoMsg}
             /\ \A u \in w.missing : bx2[b][u] = NoMsg
  <2>1. vl2[b] = vl[b] BY <1>2, <1>3, <1>5 DEF FetchAt, Given
  <2>2. tp[b] <= tp2[b] /\ \A u \in 1..tp[b] : bx2[b][u] \in {bx[b][u], NoMsg}
    BY <1>1, <1>2, <2>1 DEF LaterThan
  <2>3. /\ \A s \in Seen(w) : w.last < s /\ s <= tp[b]
        /\ w.ok => \A u \in 1..MaxUid : \A s \in Seen(w) :
                        bx[b][u] \in Horizon[w.src] /\ w.last < u /\ u <= s => u \in Seen(w)
        /\ \A u \in w.done : bx[b][u] \in h \cup {NoMsg}
        /\ \A u \in w.missing : bx[b][u] = NoMsg
    BY <1>5, <2>1 DEF FetchAt
  <2>4. h \subseteq h2 BY DEF LaterThan
  <2>5. \A s \in Seen(w) : w.last < s /\ s <= tp2[b] BY <1>1, <1>2, <1>3, <2>2, <2>3
  <2>6. \A u \in Seen(w) : u \in 1..tp[b] BY <1>2, <1>3, <2>3
  <2>7. \A u \in w.done : bx2[b][u] \in h2 \cup {NoMsg} BY <1>3, <2>2, <2>3, <2>4, <2>6
  <2>8. \A u \in w.missing : bx2[b][u] = NoMsg BY <1>3, <2>2, <2>3, <2>6
  <2>9. ASSUME w.ok, NEW u \in 1..MaxUid, NEW s \in Seen(w), bx2[b][u] \in Horizon[w.src], w.last < u, u <= s
        PROVE  u \in Seen(w)
    <3> u \in 1..tp[b] BY <1>1, <1>2, <1>3, <2>3, <2>9
    <3> bx[b][u] \in Horizon[w.src] BY <1>1, <2>2, <2>9
    <3> QED BY <2>3, <2>9
  <2> QED BY <2>5, <2>7, <2>8, <2>9
<1> QED BY <1>4, <1>5 DEF FetchAt

(* Only the source and the two numbers of a cursor count.                  *)
LEMMA MailSoundSame ==
  ASSUME NEW bx, NEW tp, NEW vl, NEW h, NEW c, NEW d,
         c.src = d.src, c.uid = d.uid, c.val = d.val, SoundAt(c, bx, tp, vl, h)
  PROVE  SoundAt(d, bx, tp, vl, h)
BY DEF SoundAt

(* At the beginning of a numbering nothing was passed.                     *)
LEMMA MailSoundAtZero ==
  ASSUME NEW bx, NEW tp, NEW vl, NEW h, ServerAt(bx, tp, vl), NEW c \in Rows \cup Watchers,
         c.uid = 0, c.val = 0 \/ \E d \in Boxes : Given(c.val, d, vl)
  PROVE  SoundAt(c, bx, tp, vl, h)
<1> BoxOf[c.src] \in Boxes BY MailCursorTypes
<1> vl[BoxOf[c.src]] > 0 /\ tp[BoxOf[c.src]] >= 0 BY NumbersAssumption DEF ServerAt
<1> QED BY DEF SoundAt

-----------------------------------------------------------------------------
(* Types.                                                                  *)
LEMMA MailNewSecret ==
  ASSUME TypeOK, row # NoRow
  PROVE  NewSecret \in Nat
<1> DEFINE Ws == IF watcher = NoWatcher THEN {} ELSE {watcher.secret}
           Ds == {d \in Callers : calls[d].seen # NoRow}
           Cs == {calls[c].seen.secret : c \in Ds}
           S == {row.secret} \cup Ws \cup Cs
<1>1. S \subseteq Nat
  <2> row.secret \in Nat BY DEF TypeOK, Rows
  <2> Ws \subseteq Nat BY DEF TypeOK, Watchers
  <2> \A c \in Ds : calls[c].seen \in Rows /\ calls[c].seen.secret \in Nat BY DEF TypeOK, Rows
  <2> QED OBVIOUS
<1>2. IsFiniteSet(S)
  <2>1. IsFiniteSet(Ds) BY MarkersAssumption, FS_Subset, Ds \in SUBSET Callers
  <2>2. IsFiniteSet(Cs)
    <3> DEFINE f == [c \in Ds |-> calls[c].seen.secret]
    <3> f \in Surjection(Ds, Cs) BY DEF Surjection
    <3> HIDE DEF Ds, Cs, f
    <3> QED BY <2>1, FS_Surjection
  <2>3. IsFiniteSet({row.secret} \cup Ws) BY FS_Singleton, FS_EmptySet, FS_Union
  <2> HIDE DEF Cs, Ws
  <2> QED BY <2>2, <2>3, FS_Union
<1>3. Max(S) \in S
  <2> S # {} OBVIOUS
  <2> HIDE DEF S
  <2> QED BY <1>1, <1>2, MailGreatest
<1>4. NewSecret = 1 + Max(S) BY DEF NewSecret
<1>5. Max(S) \in Nat
  <2> HIDE DEF S
  <2> QED BY <1>1, <1>3
<1> HIDE DEF S
<1> QED BY <1>4, <1>5

LEMMA MailSpendType ==
  ASSUME TypeOK, NEW what \in DOMAIN MailBounds, MailSpend(what)
  PROVE  quota' \in [{"mails", "creates", "edits", "mishaps", "lost"} -> Nat]
BY NumbersAssumption DEF TypeOK, MailSpend

LEMMA MailCallTypes ==
  ASSUME TypeOK, NEW c \in Callers, Reloading(c)
  PROVE  calls' \in [Callers -> [pc : {"idle", "list", "lock", "start"}, seen : Rows \cup {NoRow}]]
BY DEF TypeOK, Reloading

LEMMA MailHowMany ==
  ASSUME NEW S \in SUBSET (1..MaxUid)
  PROVE  Cardinality(S) \in 0..MaxUid /\ IsFiniteSet(S)
<1>1. MaxUid \in Nat /\ MaxUid \in Int /\ 1 \in Int BY NumbersAssumption
<1>2. IsFiniteSet(1..MaxUid) /\ Cardinality(1..MaxUid) = IF 1 > MaxUid THEN 0 ELSE MaxUid - 1 + 1
  BY <1>1, FS_Interval
<1>3. Cardinality(1..MaxUid) = MaxUid BY <1>1, <1>2
<1>4. IsFiniteSet(S) /\ Cardinality(S) <= MaxUid /\ Cardinality(S) \in Nat
  BY <1>2, <1>3, FS_Subset, FS_CardinalityType
<1> QED BY <1>1, <1>4

LEMMA MailWorldTypes == TypeOK /\ World => TypeOK'
<1> SUFFICES ASSUME TypeOK, World PROVE TypeOK' OBVIOUS
<1> USE NumbersAssumption, SourcesAssumption, MarkersAssumption
<1>1. ASSUME NEW b \in Boxes, NEW m \in Msgs, Deliver(b, m) PROVE TypeOK'
  <2> quota' \in [{"mails", "creates", "edits", "mishaps", "lost"} -> Nat] BY <1>1, MailSpendType DEF Deliver
  <2> top[b] \in 0..MaxUid /\ top[b] < MaxUid BY <1>1 DEF Deliver, TypeOK
  <2> top[b] + 1 \in 1..MaxUid /\ top[b] + 1 \in 0..MaxUid OBVIOUS
  <2> QED BY <1>1 DEF Deliver, TypeOK, archive, process
<1>2. ASSUME NEW b \in Boxes, NEW u \in 1..MaxUid, Expunge(b, u) PROVE TypeOK'
  <2> quota' \in [{"mails", "creates", "edits", "mishaps", "lost"} -> Nat] BY <1>2, MailSpendType DEF Expunge
  <2> QED BY <1>2 DEF Expunge, TypeOK, archive, process
<1>3. ASSUME NEW b \in Boxes, Renumber(b) PROVE TypeOK'
  <2> DEFINE old == {u \in 1..MaxUid : box[b][u] # NoMsg}
             Rank(u) == Cardinality({v \in old : v <= u})
  <2>1. quota' \in [{"mails", "creates", "edits", "mishaps", "lost"} -> Nat]
    BY <1>3, MailSpendType DEF Renumber
  <2>2. Cardinality(old) \in 0..MaxUid
    <3> old \in SUBSET (1..MaxUid) OBVIOUS
    <3> HIDE DEF old
    <3> QED BY MailHowMany
  <2>3. top' \in [Boxes -> 0..MaxUid]
    <3> top' = [top EXCEPT ![b] = Cardinality(old)] BY <1>3 DEF Renumber
    <3> HIDE DEF old
    <3> QED BY <2>2 DEF TypeOK
  <2>4. val' \in [Boxes -> 1..MaxVal]
    <3> val[b] \in 1..MaxVal /\ val[b] < MaxVal BY <1>3 DEF Renumber, TypeOK
    <3> val[b] + 1 \in 1..MaxVal OBVIOUS
    <3> QED BY <1>3 DEF Renumber, TypeOK
  <2>5. box' \in [Boxes -> [1..MaxUid -> Msgs \cup {NoMsg}]]
    <3> DEFINE New == [u \in 1..MaxUid |-> IF \E v \in old : Rank(v) = u
                                           THEN box[b][CHOOSE v \in old : Rank(v) = u] ELSE NoMsg]
    <3>1. box' = [box EXCEPT ![b] = New] BY <1>3 DEF Renumber
    <3>2. \A v \in 1..MaxUid : box[b][v] \in Msgs \cup {NoMsg} BY DEF TypeOK
    <3>4. old \subseteq 1..MaxUid OBVIOUS
    <3>3. New \in [1..MaxUid -> Msgs \cup {NoMsg}]
      <4> HIDE DEF old, Rank
      <4> QED BY <3>2, <3>4
    <3> HIDE DEF New
    <3> QED BY <3>1, <3>3 DEF TypeOK
  <2> QED BY <1>3, <2>1, <2>3, <2>4, <2>5 DEF Renumber, TypeOK, archive, process
<1>4. ASSUME NEW m \in Msgs, TouchDocument(m) PROVE TypeOK'
  <2> quota' \in [{"mails", "creates", "edits", "mishaps", "lost"} -> Nat]
    BY <1>4, MailSpendType DEF TouchDocument
  <2> docs' \in [Msgs -> {"none", "live", "trash"}] BY <1>4 DEF TouchDocument, TypeOK
  <2> QED BY <1>4 DEF TouchDocument, TypeOK, server, process
<1> QED BY <1>1, <1>2, <1>3, <1>4 DEF World

(* A patched row is a row, at the same place or at the beginning.          *)
LEMMA MailPatched ==
  ASSUME NEW r \in Rows, NEW new \in Rows, new.uid = r.uid, new.val = r.val
  PROVE  /\ Patched(r, new) \in Rows
         /\ \/ Patched(r, new).uid = 0 /\ Patched(r, new).val = 0
            \/ Patched(r, new).src = r.src /\ Patched(r, new).uid = r.uid /\ Patched(r, new).val = r.val
<1> 0 \in 0..MaxUid /\ 0 \in 0..MaxVal BY NumbersAssumption
<1>1. CASE CursorSourceChanged(r, new) BY <1>1 DEF Patched, Rows
<1>2. CASE ~CursorSourceChanged(r, new) BY <1>2 DEF Patched, CursorSourceChanged
<1> QED BY <1>1, <1>2

(* What a request writes.                                                  *)
Rewritten ==
  \/ row' = row
  \/ row' = NoRow
  \/ /\ row' \in Rows
     /\ \/ row'.uid = 0 /\ row'.val = 0
        \/ /\ row # NoRow
           /\ row'.src = row.src /\ row'.uid = row.uid /\ row'.val = row.val

LEMMA MailRequests ==
  ASSUME TypeOK, NEW c \in Callers, AccountRequests(c)
  PROVE  /\ Rewritten /\ Reloading(c)
         /\ UNCHANGED <<box, top, val, docs, filed, ignored, watcher, mutex, up>>
         /\ owner' \in BOOLEAN
         /\ \E what \in {"creates", "edits"} : MailSpend(what)
<1> USE DEF server, archive
<1>1. CASE CreateEmailAccount(c)
  <2> PICK policy \in Policies, tidy \in Tidyings : row' = NewRow(FirstSource, policy, tidy, TRUE)
    BY <1>1 DEF CreateEmailAccount
  <2> row' \in Rows /\ row'.uid = 0 /\ row'.val = 0 BY NumbersAssumption, MarkersAssumption DEF NewRow, Rows
  <2> QED BY <1>1 DEF CreateEmailAccount, Rewritten, TypeOK
<1>2. CASE PatchEmailAccount(c)
  <2> PICK src \in Sources, policy \in Policies, tidy \in Tidyings, on \in BOOLEAN :
        row' = Patched(row, [row EXCEPT !.src = src, !.policy = policy, !.tidy = tidy, !.on = on])
    BY <1>2 DEF PatchEmailAccount
  <2> DEFINE new == [row EXCEPT !.src = src, !.policy = policy, !.tidy = tidy, !.on = on]
  <2> row \in Rows /\ row # NoRow BY <1>2 DEF PatchEmailAccount, TypeOK
  <2> new \in Rows /\ new.uid = row.uid /\ new.val = row.val BY DEF Rows
  <2> Rewritten
    <3> HIDE DEF new
    <3> row' = Patched(row, new) BY DEF new
    <3> QED BY MailPatched DEF Rewritten
  <2> QED BY <1>2 DEF PatchEmailAccount, TypeOK
<1>3. CASE CompleteOAuth(c)
  <2> DEFINE new == [row EXCEPT !.secret = NewSecret, !.on = TRUE]
  <2> row \in Rows /\ row # NoRow /\ NewSecret \in Nat BY <1>3, MailNewSecret DEF CompleteOAuth, TypeOK
  <2> new \in Rows /\ new.uid = row.uid /\ new.val = row.val BY DEF Rows
  <2> Rewritten
    <3> row' = Patched(row, new) BY <1>3 DEF CompleteOAuth
    <3> HIDE DEF new
    <3> QED BY MailPatched DEF Rewritten
  <2> QED BY <1>3 DEF CompleteOAuth, TypeOK
<1>4. CASE RevokeOAuth(c)
  <2> DEFINE new == [row EXCEPT !.secret = Placeholder, !.on = FALSE]
  <2> row \in Rows /\ row # NoRow BY <1>4 DEF RevokeOAuth, TypeOK
  <2> new \in Rows /\ new.uid = row.uid /\ new.val = row.val BY DEF Rows, Placeholder
  <2> Rewritten
    <3> row' = Patched(row, new) BY <1>4 DEF RevokeOAuth
    <3> HIDE DEF new
    <3> QED BY MailPatched DEF Rewritten
  <2> QED BY <1>4 DEF RevokeOAuth, TypeOK
<1>5. CASE DeleteEmailAccount(c) BY <1>5 DEF DeleteEmailAccount, Rewritten, TypeOK
<1>6. CASE PatchOwner(c) BY <1>6 DEF PatchOwner, Rewritten, TypeOK
<1>7. CASE RevokeCapability(c)
  <2> row \in Rows /\ row # NoRow /\ row' = [row EXCEPT !.on = FALSE] BY <1>7 DEF RevokeCapability, TypeOK
  <2> row' \in Rows /\ row'.src = row.src /\ row'.uid = row.uid /\ row'.val = row.val BY DEF Rows
  <2> QED BY <1>7 DEF RevokeCapability, Rewritten, TypeOK
<1> QED BY <1>1, <1>2, <1>3, <1>4, <1>5, <1>6, <1>7 DEF AccountRequests

LEMMA MailRequestTypes ==
  ASSUME TypeOK, NEW c \in Callers, AccountRequests(c)
  PROVE  TypeOK'
<1> quota' \in [{"mails", "creates", "edits", "mishaps", "lost"} -> Nat]
  BY NumbersAssumption, MailRequests, MailSpendType
<1> calls' \in [Callers -> [pc : {"idle", "list", "lock", "start"}, seen : Rows \cup {NoRow}]]
  BY MailRequests, MailCallTypes
<1> row' \in Rows \cup {NoRow} BY MailRequests DEF Rewritten, TypeOK
<1> QED BY MailRequests DEF TypeOK

(* A watcher that is started stands where its row stands.                  *)
LEMMA MailStarted ==
  ASSUME NEW r \in Rows
  PROVE  /\ Started(r) \in Watchers /\ Started(r).pc = "idle"
         /\ Started(r).src = r.src /\ Started(r).uid = r.uid /\ Started(r).val = r.val
BY NumbersAssumption DEF Started, Rows, Watchers, Steps

LEMMA MailReloadTypes ==
  ASSUME TypeOK, NEW c \in Callers, Reload(c) \/ ReloadLost(c)
  PROVE  TypeOK'
<1> USE DEF server, archive
<1>1. CASE ReloadList(c) BY <1>1 DEF ReloadList, TypeOK, Listed
<1>2. CASE ReloadLock(c)
  <2> watcher' \in Watchers \cup {NoWatcher}
    <3> watcher # NoWatcher => [watcher EXCEPT !.cancelled = TRUE] \in Watchers BY DEF TypeOK, Watchers
    <3> QED BY <1>2 DEF ReloadLock, TypeOK, Outdated
  <2> QED BY <1>2 DEF ReloadLock, TypeOK
<1>3. CASE ReloadStart(c)
  <2> watcher' \in Watchers \cup {NoWatcher}
    <3> calls[c].seen # NoRow => calls[c].seen \in Rows BY DEF TypeOK
    <3> QED BY <1>3, MailStarted DEF ReloadStart, TypeOK
  <2> QED BY <1>3 DEF ReloadStart, TypeOK
<1>4. CASE ReloadLost(c)
  <2> quota' \in [{"mails", "creates", "edits", "mishaps", "lost"} -> Nat]
    <3> quota["mishaps"] - 1 \in Nat /\ quota["lost"] - 1 \in Nat BY <1>4 DEF ReloadLost, TypeOK
    <3> quota' = [quota EXCEPT !["mishaps"] = quota["mishaps"] - 1, !["lost"] = quota["lost"] - 1]
      BY <1>4 DEF ReloadLost
    <3> QED BY DEF TypeOK
  <2> calls' \in [Callers -> [pc : {"idle", "list", "lock", "start"}, seen : Rows \cup {NoRow}]]
    BY <1>4 DEF ReloadLost, TypeOK
  <2> QED BY <1>4 DEF ReloadLost, TypeOK
<1> QED BY <1>1, <1>2, <1>3, <1>4 DEF Reload

LEMMA MailProcessTypes == TypeOK /\ (Drain \/ Shutdown \/ Crash \/ Boot) => TypeOK'
<1> SUFFICES ASSUME TypeOK, Drain \/ Shutdown \/ Crash \/ Boot PROVE TypeOK' OBVIOUS
<1> USE DEF server, archive
<1>1. CASE Drain BY <1>1 DEF Drain, TypeOK
<1>2. CASE Shutdown
  <2> quota' \in [{"mails", "creates", "edits", "mishaps", "lost"} -> Nat]
    BY <1>2, NumbersAssumption, MailSpendType DEF Shutdown
  <2> watcher # NoWatcher => [watcher EXCEPT !.cancelled = TRUE] \in Watchers BY DEF TypeOK, Watchers
  <2> QED BY <1>2 DEF Shutdown, TypeOK
<1>3. CASE Crash
  <2> quota' \in [{"mails", "creates", "edits", "mishaps", "lost"} -> Nat]
    BY <1>3, NumbersAssumption, MailSpendType DEF Crash
  <2> QED BY <1>3 DEF Crash, TypeOK
<1>4. CASE Boot
  <2> calls' \in [Callers -> [pc : {"idle", "list", "lock", "start"}, seen : Rows \cup {NoRow}]]
    BY <1>4, MarkersAssumption DEF Boot, TypeOK
  <2> QED BY <1>4 DEF Boot, TypeOK
<1> QED BY <1>1, <1>2, <1>3, <1>4

(* What the steps of a poll make of a watcher.                             *)
LEMMA MailEnded ==
  ASSUME watcher \in Watchers
  PROVE  /\ Ended \in Watchers /\ Ended.pc = "idle"
         /\ Ended.src = watcher.src /\ Ended.uid = watcher.uid /\ Ended.val = watcher.val
<1>1. 0 \in 0..MaxUid /\ 0 \in 0..MaxVal BY NumbersAssumption
<1>2. Ended \in Watchers BY <1>1 DEF Ended, Watchers, Steps
<1>3. Ended.pc = "idle" /\ Ended.src = watcher.src /\ Ended.uid = watcher.uid /\ Ended.val = watcher.val
  BY DEF Ended, Watchers
<1> QED BY <1>2, <1>3

Standing(e, src, n, v) ==
  e \in Watchers /\ e.pc = "idle" /\ e.src = src /\ e.uid = n /\ e.val = v

LEMMA MailEndedAt ==
  ASSUME watcher \in Watchers, NEW n \in 0..MaxUid, NEW v \in 0..MaxVal
  PROVE  Standing([Ended EXCEPT !.uid = n, !.val = v], watcher.src, n, v)
<1> Ended \in Watchers /\ Ended.pc = "idle" /\ Ended.src = watcher.src BY MailEnded
<1> QED BY DEF Watchers, Standing

Batched(x, w, uids, last) ==
  /\ x \in Watchers /\ x.pc = "fetch"
  /\ x.src = w.src /\ x.uid = w.uid /\ x.val = w.val /\ x.now = w.now /\ x.last = last
  /\ x.batch \subseteq uids /\ x.todo = uids \ x.batch
  /\ x.done = {} /\ x.failed = {} /\ x.missing = {} /\ x.ok /\ ~x.err
  /\ \A p \in x.batch, t \in x.todo : p < t

LEMMA MailWithBatch ==
  ASSUME NEW w \in Watchers, NEW uids \in SUBSET (1..MaxUid), NEW last \in 0..MaxUid
  PROVE  Batched(WithBatch(w, uids, last), w, uids, last)
<1> PICK x : x = WithBatch(w, uids, last) OBVIOUS
<1> SUFFICES Batched(x, w, uids, last) OBVIOUS
<1> USE DEF Batched
<1> DEFINE first == FirstOf(uids)
<1>1. first \subseteq uids /\ \A p \in first, t \in uids \ first : p < t BY MailFirstOf
<1>2. x = [w EXCEPT !.pc = "fetch", !.last = last, !.batch = first, !.todo = uids \ first, !.done = {},
                    !.failed = {}, !.missing = {}, !.book = {}, !.ok = TRUE, !.err = FALSE]
  BY DEF WithBatch
<1> HIDE DEF first
<1>3. first \in SUBSET (1..MaxUid) /\ uids \ first \in SUBSET (1..MaxUid) BY <1>1
<1>4. x \in Watchers
  <2> DEFINE y == [w EXCEPT !.pc = "fetch", !.last = last, !.batch = first, !.todo = uids \ first]
  <2> y \in Watchers BY <1>3 DEF Watchers, Steps
  <2> x = [y EXCEPT !.done = {}, !.failed = {}, !.missing = {}, !.book = {}, !.ok = TRUE, !.err = FALSE]
    BY <1>2 DEF Watchers
  <2> HIDE DEF y
  <2> QED BY DEF Watchers
<1>5. /\ x.pc = "fetch" /\ x.src = w.src /\ x.uid = w.uid /\ x.val = w.val /\ x.now = w.now
      /\ x.last = last /\ x.batch = first /\ x.todo = uids \ first
      /\ x.done = {} /\ x.failed = {} /\ x.missing = {} /\ x.ok /\ ~x.err
  BY <1>2 DEF Watchers
<1> QED BY <1>1, <1>4, <1>5

(* A watcher with some of its poll changed is a watcher.                   *)
LEMMA MailTook ==
  ASSUME watcher \in Watchers, NEW u \in watcher.batch, NEW set \in {"done", "failed", "missing"}
  PROVE  /\ Took(u, set) \in Watchers /\ [Took(u, set) EXCEPT !.err = TRUE] \in Watchers
         /\ [Took(u, set) EXCEPT !.book = @ \cup {u}] \in Watchers
<1> u \in 1..MaxUid BY DEF Watchers
<1> QED BY DEF Took, Watchers

LEMMA MailSince ==
  ASSUME TypeOK, watcher # NoWatcher
  PROVE  Since \in 0..MaxUid /\ Found(Since) \in SUBSET (1..MaxUid)
<1>1. Since \in 0..MaxUid BY NumbersAssumption DEF TypeOK, Watchers, Since
<1> HIDE DEF Since
<1>2. \A u \in Since + 1 .. MaxUid : u \in 1..MaxUid BY <1>1, NumbersAssumption
<1> QED BY <1>1, <1>2 DEF Found

LEMMA MailCursorWritten ==
  ASSUME row \in Rows, NEW n \in 0..MaxUid, NEW v \in 0..MaxVal, NEW r, r = UpdateUIDCursor(n, v)
  PROVE  r \in Rows /\ r.src = row.src /\ r.uid = n /\ r.val = v
BY DEF UpdateUIDCursor, Rows

LEMMA MailConnectTypes == TypeOK /\ (Connect \/ Rotate) => TypeOK'
<1> SUFFICES ASSUME TypeOK, Connect \/ Rotate PROVE TypeOK' OBVIOUS
<1> USE DEF server, archive
<1>1. CASE Connect
  <2> watcher \in Watchers BY <1>1 DEF Connect, Live, TypeOK
  <2> quota' \in [{"mails", "creates", "edits", "mishaps", "lost"} -> Nat]
    <3> MailSpend("mishaps") \/ quota' = quota BY <1>1 DEF Connect
    <3> QED BY NumbersAssumption, MailSpendType DEF TypeOK
  <2> [watcher EXCEPT !.pc = "rotate"] \in Watchers /\ [watcher EXCEPT !.pc = "search"] \in Watchers
    BY DEF Watchers, Steps
  <2> watcher' \in Watchers BY <1>1, MailEnded DEF Connect, CycleFailed
  <2> QED BY <1>1 DEF Connect, TypeOK
<1>2. CASE Rotate
  <2> watcher \in Watchers BY <1>2 DEF Rotate, Live, TypeOK
  <2> watcher' \in Watchers BY <1>2 DEF Rotate, Watchers, Steps
  <2> row' \in Rows \cup {NoRow}
    <3> row # NoRow => NewSecret \in Nat /\ row \in Rows BY MailNewSecret DEF TypeOK
    <3> row # NoRow => [row EXCEPT !.secret = NewSecret] \in Rows BY DEF Rows
    <3> QED BY <1>2 DEF Rotate, TypeOK
  <2> QED BY <1>2 DEF Rotate, TypeOK
<1> QED BY <1>1, <1>2

LEMMA MailSearched ==
  ASSUME TypeOK, Search
  PROVE  /\ watcher \in Watchers /\ watcher' \in Watchers /\ row' \in Rows \cup {NoRow}
         /\ val[BoxOf[watcher.src]] \in 0..MaxVal
<1>1. watcher \in Watchers BY DEF Search, Live, TypeOK
<1>2. val[BoxOf[watcher.src]] \in 1..MaxVal BY <1>1, SourcesAssumption DEF TypeOK, Watchers
<1>3. val[BoxOf[watcher.src]] \in 0..MaxVal BY <1>2, NumbersAssumption
<1> DEFINE v == val[BoxOf[watcher.src]]
           since == Since
           x == WithBatch(watcher, Found(since), since)
<1>4. since \in 0..MaxUid /\ Found(since) \in SUBSET (1..MaxUid) BY <1>1, MailSince, MarkersAssumption
<1>5. x \in Watchers
  <2> HIDE DEF since
  <2> QED BY <1>1, <1>4, MailWithBatch DEF Batched
<1>6. [x EXCEPT !.now = v] \in Watchers
  <2> HIDE DEF x, v
  <2> QED BY <1>3, <1>5 DEF Watchers, v
<1>7. Ended \in Watchers BY <1>1, MailEnded
<1>8. [Ended EXCEPT !.uid = since, !.val = v] \in Watchers
  <2> HIDE DEF since, v
  <2> Standing([Ended EXCEPT !.uid = since, !.val = v], watcher.src, since, v)
    BY <1>1, <1>3, <1>4, MailEndedAt DEF v
  <2> QED BY DEF Standing
<1>9. row # NoRow => UpdateUIDCursor(since, v) \in Rows
  <2> HIDE DEF since, v
  <2> row # NoRow => row \in Rows BY DEF TypeOK
  <2> QED BY <1>3, <1>4, MailCursorWritten DEF v
<1>10. watcher' \in Watchers BY <1>6, <1>7, <1>8 DEF Search
<1>11. row' \in Rows \cup {NoRow} BY <1>9 DEF Search, TypeOK
<1> QED BY <1>1, <1>3, <1>10, <1>11

LEMMA MailFetched ==
  ASSUME TypeOK, FetchOne
  PROVE  /\ watcher \in Watchers /\ watcher' \in Watchers
         /\ Min(watcher.batch) \in watcher.batch
         /\ box[BoxOf[watcher.src]][Min(watcher.batch)] \in Msgs \cup {NoMsg}
         /\ TypeOK'
<1> USE DEF server, archive
<1> DEFINE u == Min(watcher.batch)
           m == box[BoxOf[watcher.src]][u]
<1>1. watcher \in Watchers /\ watcher.batch # {} BY DEF FetchOne, Live, TypeOK
<1>2. u \in watcher.batch
  <2> watcher.batch \subseteq 1..MaxUid BY <1>1 DEF Watchers
  <2> watcher.batch \subseteq Nat BY NumbersAssumption
  <2> QED BY <1>1, MailLeast
<1>3. m \in Msgs \cup {NoMsg}
  <2> HIDE DEF u
  <2> u \in 1..MaxUid /\ BoxOf[watcher.src] \in Boxes BY <1>1, <1>2, SourcesAssumption DEF Watchers
  <2> box[BoxOf[watcher.src]] \in [1..MaxUid -> Msgs \cup {NoMsg}] BY DEF TypeOK
  <2> QED OBVIOUS
<1>4. watcher' \in Watchers
  <2>1. \/ \E set \in {"done", "failed", "missing"} : watcher' = Took(u, set)
        \/ watcher' = [Took(u, "failed") EXCEPT !.err = TRUE]
        \/ watcher' = [Took(u, "done") EXCEPT !.book = @ \cup {u}]
    BY DEF FetchOne
  <2> HIDE DEF u
  <2> QED BY <1>1, <1>2, <2>1, MailTook
<1>5. quota' \in [{"mails", "creates", "edits", "mishaps", "lost"} -> Nat]
  <2> MailSpend("mishaps") \/ quota' = quota BY DEF FetchOne
  <2> QED BY NumbersAssumption, MailSpendType DEF TypeOK
<1>6. docs' \in [Msgs -> {"none", "live", "trash"}] /\ filed' \subseteq Msgs /\ ignored' \subseteq Msgs
  <2>1. \/ UNCHANGED <<docs, filed, ignored>>
        \/ m # NoMsg /\ ignored' = ignored \cup {m} /\ UNCHANGED <<docs, filed>>
        \/ m # NoMsg /\ filed' = filed \cup {m} /\ UNCHANGED ignored /\ docs' \in {docs, [docs EXCEPT ![m] = "live"]}
    BY DEF FetchOne
  <2> HIDE DEF m
  <2> QED BY <1>3, <2>1 DEF TypeOK
<1>7. UNCHANGED <<box, top, val, row, owner, calls, mutex, up>> BY DEF FetchOne
<1> QED BY <1>1, <1>2, <1>3, <1>4, <1>5, <1>6, <1>7 DEF TypeOK

LEMMA MailBroken ==
  ASSUME TypeOK, FetchBreaks \/ FetchStale
  PROVE  watcher \in Watchers /\ watcher' \in Watchers /\ TypeOK'
<1> USE DEF server, archive
<1>1. watcher \in Watchers BY DEF FetchBreaks, FetchStale, Live, TypeOK
<1>2. quota' \in [{"mails", "creates", "edits", "mishaps", "lost"} -> Nat]
  <2> MailSpend("mishaps") \/ quota' = quota BY DEF FetchBreaks, FetchStale
  <2> QED BY NumbersAssumption, MailSpendType DEF TypeOK
<1>3. [watcher EXCEPT !.batch = {}, !.ok = FALSE, !.err = TRUE] \in Watchers BY <1>1 DEF Watchers
<1>4. Rechecked(watcher.missing \cup watcher.batch) \in Watchers BY <1>1 DEF Watchers, Rechecked
<1>5. watcher' \in Watchers BY <1>3, <1>4 DEF FetchBreaks, FetchStale
<1>6. UNCHANGED <<box, top, val, row, owner, docs, filed, ignored, calls, mutex, up>>
  BY DEF FetchBreaks, FetchStale
<1> QED BY <1>1, <1>2, <1>5, <1>6 DEF TypeOK

LEMMA MailTidied ==
  ASSUME TypeOK, Tidy
  PROVE  /\ watcher \in Watchers /\ watcher' \in Watchers /\ TypeOK'
         /\ watcher' \in {[watcher EXCEPT !.pc = "mark", !.ok = FALSE, !.err = TRUE], [watcher EXCEPT !.pc = "mark"]}
         /\ top' = top /\ val' = val /\ (box' = box \/ \A b \in Boxes, u \in 1..MaxUid : box'[b][u] \in {box[b][u], NoMsg})
<1> USE DEF server, archive
<1>1. watcher \in Watchers BY DEF Tidy, Live, TypeOK
<1>2. quota' \in [{"mails", "creates", "edits", "mishaps", "lost"} -> Nat]
  <2> MailSpend("mishaps") \/ quota' = quota BY DEF Tidy
  <2> QED BY NumbersAssumption, MailSpendType DEF TypeOK
<1>3. watcher' \in {[watcher EXCEPT !.pc = "mark", !.ok = FALSE, !.err = TRUE], [watcher EXCEPT !.pc = "mark"]}
  BY DEF Tidy
<1>4. watcher' \in Watchers
  <2> [watcher EXCEPT !.pc = "mark", !.ok = FALSE, !.err = TRUE] \in Watchers BY <1>1 DEF Watchers, Steps
  <2> [watcher EXCEPT !.pc = "mark"] \in Watchers BY <1>1 DEF Watchers, Steps
  <2> QED BY <1>3
<1> DEFINE b == BoxOf[watcher.src]
           rest == [u \in 1..MaxUid |-> IF u \in watcher.book THEN NoMsg ELSE box[b][u]]
<1>5. b \in Boxes BY <1>1, SourcesAssumption DEF Watchers
<1>6. rest \in [1..MaxUid -> Msgs \cup {NoMsg}]
  <2> HIDE DEF b
  <2> box[b] \in [1..MaxUid -> Msgs \cup {NoMsg}] BY <1>5 DEF TypeOK
  <2> QED OBVIOUS
<1>7. box' = box \/ box' = [box EXCEPT ![b] = rest] BY DEF Tidy
<1>8. box' \in [Boxes -> [1..MaxUid -> Msgs \cup {NoMsg}]]
  <2> HIDE DEF rest
  <2> QED BY <1>5, <1>6, <1>7 DEF TypeOK
<1>9. box' = box \/ \A d \in Boxes, u \in 1..MaxUid : box'[d][u] \in {box[d][u], NoMsg}
  <2> HIDE DEF b, rest
  <2>1. \A u \in 1..MaxUid : rest[u] \in {box[b][u], NoMsg} BY DEF rest
  <2>2. ASSUME box' = [box EXCEPT ![b] = rest], NEW d \in Boxes PROVE box'[d] = IF d = b THEN rest ELSE box[d]
    BY <1>5, <2>2 DEF TypeOK
  <2> QED BY <1>7, <2>1, <2>2
<1>10. UNCHANGED <<top, val, row, owner, docs, filed, ignored, calls, mutex, up>> BY DEF Tidy
<1> QED BY <1>1, <1>2, <1>3, <1>4, <1>8, <1>9, <1>10 DEF TypeOK

-----------------------------------------------------------------------------
(* The end of a batch.  The new cursor passes only what was handled ...    *)
LEMMA MailPassing ==
  ASSUME NEW bx, NEW tp, NEW vl, NEW h, ServerAt(bx, tp, vl), NEW w \in Watchers, w.pc = "mark",
         SoundAt(w, bx, tp, vl, h), FetchAt(w, bx, tp, vl, h),
         NEW n, n = NextUIDCheckpoint(w.last, w.done \cup w.missing, w.failed, w.ok),
         NEW c \in Rows \cup Watchers, c.src = w.src, c.uid = n, c.val = w.now
  PROVE  SoundAt(c, bx, tp, vl, h)
<1> DEFINE b == BoxOf[w.src]
           passed == w.done \cup w.missing
<1>1. b \in Boxes /\ MaxUid \in Nat /\ NoMsg \notin Horizon[w.src] /\ w.uid \in Nat BY MailCursorTypes
<1>2. vl[b] \in Nat /\ vl[b] > 0 /\ tp[b] \in Nat /\ FirstVal[b] \in Nat /\ FirstVal[b] > 0
  <2> FirstVal[b] \in 1..MaxVal BY <1>1, SourcesAssumption
  <2> QED BY <1>1, MailServerTypes, NumbersAssumption
<1>3. w.last \in 0..MaxUid /\ w.now \in 0..MaxVal /\ w.ok \in BOOLEAN /\ passed \in SUBSET (1..MaxUid) /\ w.failed \in SUBSET (1..MaxUid)
      /\ w.todo \in SUBSET (1..MaxUid)
  BY DEF Watchers
<1>4. /\ n \in 0..MaxUid /\ w.last <= n
      /\ ~w.ok => n = w.last
      /\ n # w.last => /\ \E s \in passed \cup w.failed : n <= s
                       /\ \A f \in w.failed : n < f
  <2> HIDE DEF passed
  <2> n = NextUIDCheckpoint(w.last, passed, w.failed, w.ok) BY DEF passed
  <2> Checkpoint(n, w.last, passed, w.failed, w.ok) BY <1>3, MailCheckpoint
  <2> QED BY DEF Checkpoint
<1>5. w.batch = {} /\ Given(w.now, b, vl) /\ w.last = (IF w.val = w.now THEN w.uid ELSE 0) BY DEF FetchAt
<1>6. c.val # 0 /\ Given(c.val, b, vl)
  <2> w.now \in Nat BY <1>3, NumbersAssumption
  <2> QED BY <1>2, <1>5 DEF Given
<1>7. ASSUME w.now = vl[b] PROVE n <= tp[b] /\ \A u \in 1..n : bx[b][u] \in Horizon[w.src] => bx[b][u] \in h
  <2>1. w.last <= tp[b] /\ \A u \in 1..w.last : bx[b][u] \in Horizon[w.src] => bx[b][u] \in h
    <3>1. CASE w.val = w.now BY <1>5, <1>7, <3>1 DEF SoundAt
    <3>2. CASE w.val # w.now
      <4> w.last = 0 BY <1>5, <3>2
      <4> QED BY <1>2
    <3> QED BY <3>1, <3>2
  <2>2. CASE n = w.last BY <2>1, <2>2
  <2>3. CASE n # w.last
    <3>1. w.ok BY <1>4, <2>3
    <3>2. PICK s \in passed \cup w.failed : n <= s BY <1>4, <2>3
    <3>3. s \in Seen(w) /\ s \in 1..MaxUid BY <1>3, <3>2 DEF Seen
    <3>4. s <= tp[b] BY <1>7, <3>3 DEF FetchAt
    <3>5. \A u \in passed : bx[b][u] \in h \cup {NoMsg} BY <1>7 DEF FetchAt
    <3>6. \A t \in w.todo : s < t BY <3>2 DEF FetchAt
    <3>7. ASSUME NEW u \in 1..n, bx[b][u] \in Horizon[w.src] PROVE bx[b][u] \in h
      <4>0. u \in Nat /\ u >= 1 /\ u <= n /\ n \in Nat /\ n <= MaxUid /\ s \in Nat /\ w.last \in Nat
        BY <1>1, <1>3, <1>4, <3>3
      <4>1. CASE u <= w.last
        <5> u \in 1..w.last BY <4>0, <4>1
        <5> QED BY <2>1, <3>7
      <4>2. CASE w.last < u
        <5>1. u \in 1..MaxUid /\ u <= s BY <1>1, <3>2, <4>0
        <5>2. u \in Seen(w) BY <1>7, <3>1, <3>3, <3>7, <4>2, <5>1 DEF FetchAt
        <5>3. u \notin w.todo
          <6> \A t \in w.todo : t \in Nat BY <1>1, <1>3
          <6> QED BY <3>6, <4>0, <5>1
        <5>4. u \notin w.failed
          <6> \A t \in w.failed : t \in Nat /\ n < t BY <1>1, <1>3, <1>4, <2>3
          <6> QED BY <4>0
        <5>5. u \in passed BY <1>5, <5>2, <5>3, <5>4 DEF Seen
        <5> QED BY <1>1, <3>5, <3>7, <5>5
      <4> QED BY <4>0, <4>1, <4>2
    <3>8. n <= tp[b]
      <4> n \in Nat /\ s \in Nat BY <1>1, <1>4, <3>3
      <4> QED BY <1>2, <3>2, <3>4
    <3> QED BY <3>7, <3>8
  <2> QED BY <2>2, <2>3
<1> QED BY <1>1, <1>6, <1>7 DEF SoundAt

(* ... and the next batch begins right behind it.                          *)
LEMMA MailNextBatch ==
  ASSUME NEW bx, NEW tp, NEW vl, NEW h, ServerAt(bx, tp, vl), NEW w \in Watchers, w.pc = "mark", ~w.err,
         FetchAt(w, bx, tp, vl, h),
         NEW n, n = NextUIDCheckpoint(w.last, w.done \cup w.missing, w.failed, w.ok),
         NEW w2 \in Watchers, w2.src = w.src, w2.now = w.now, w2.uid = n, w2.val = w.now,
         NEW x, x = WithBatch(w2, w.todo, n)
  PROVE  x \in Watchers /\ FetchAt(x, bx, tp, vl, h)
<1> DEFINE b == BoxOf[w.src]
           passed == w.done \cup w.missing
<1>1. b \in Boxes /\ MaxUid \in Nat BY MailCursorTypes
<1>2. tp[b] \in Nat BY <1>1, MailServerTypes
<1>3. w.last \in 0..MaxUid /\ w.now \in 0..MaxVal /\ w.ok \in BOOLEAN /\ passed \in SUBSET (1..MaxUid) /\ w.failed \in SUBSET (1..MaxUid)
      /\ w.todo \in SUBSET (1..MaxUid)
  BY DEF Watchers
<1>4. w.ok /\ w.failed = {} /\ w.batch = {} BY <1>3 DEF FetchAt
<1>5. n \in 0..MaxUid /\ n \in passed \cup {w.last} /\ w.last <= n /\ \A p \in passed : p <= n
  <2> HIDE DEF passed
  <2> n = NextUIDCheckpoint(w.last, passed, w.failed, w.ok) BY DEF passed
  <2> Checkpoint(n, w.last, passed, w.failed, w.ok) BY <1>3, MailCheckpoint
  <2> QED BY <1>4 DEF Checkpoint
<1>6. /\ x \in Watchers /\ x.pc = "fetch"
      /\ x.src = w.src /\ x.uid = n /\ x.val = w.now /\ x.now = w.now /\ x.last = n
      /\ x.batch \subseteq w.todo /\ x.todo = w.todo \ x.batch
      /\ x.done = {} /\ x.failed = {} /\ x.missing = {} /\ x.ok /\ ~x.err
      /\ \A p \in x.batch, t \in x.todo : p < t
  <2> Batched(x, w2, w.todo, n) BY <1>3, <1>5, MailWithBatch
  <2> QED BY DEF Batched
<1>7. Seen(x) = w.todo BY <1>6 DEF Seen
<1>8. Given(x.now, b, vl) BY <1>6 DEF FetchAt
<1>9. ASSUME w.now = vl[b], NEW s \in w.todo PROVE n < s /\ s <= tp[b]
  <2>1. s \in Seen(w) BY DEF Seen
  <2>2. w.last < s /\ s <= tp[b] BY <1>9, <2>1 DEF FetchAt
  <2>3. \A p \in passed : p < s BY DEF FetchAt
  <2> QED BY <1>5, <2>2, <2>3
<1>10. ASSUME w.now = vl[b], NEW u \in 1..MaxUid, NEW s \in w.todo, bx[b][u] \in Horizon[w.src], n < u, u <= s
       PROVE  u \in w.todo
  <2>1. s \in Seen(w) BY DEF Seen
  <2>2. w.last < u BY <1>1, <1>3, <1>5, <1>10
  <2>3. u \in Seen(w) BY <1>4, <1>10, <2>1, <2>2 DEF FetchAt
  <2>4. u \notin passed
    <3> u \in Nat /\ n \in Nat BY <1>1, <1>5
    <3> QED BY <1>5, <1>10
  <2> QED BY <1>4, <2>3, <2>4 DEF Seen
<1> HIDE DEF b
<1> QED BY <1>6, <1>7, <1>8, <1>9, <1>10 DEF FetchAt, b

(* A search begins a poll that has left nothing out.                       *)
SinceIn(w, vl) == IF w.val # 0 /\ w.val # vl[BoxOf[w.src]] THEN 0 ELSE w.uid
FoundIn(w, bx, last) == {u \in last + 1 .. MaxUid : bx[BoxOf[w.src]][u] \in Horizon[w.src]}
BatchIn(w, bx, vl) ==
  [WithBatch(w, FoundIn(w, bx, SinceIn(w, vl)), SinceIn(w, vl)) EXCEPT !.now = vl[BoxOf[w.src]]]
PollBegun(x, w, bx, tp, vl, h) ==
  /\ x \in Watchers /\ x.src = w.src /\ x.uid = w.uid /\ x.val = w.val
  /\ FetchAt(x, bx, tp, vl, h)

LEMMA MailFirstBatch ==
  ASSUME NEW bx, NEW tp, NEW vl, NEW h, ServerAt(bx, tp, vl), NEW w \in Watchers,
         SoundAt(w, bx, tp, vl, h)
  PROVE  PollBegun(BatchIn(w, bx, vl), w, bx, tp, vl, h)
<1> PICK v : v = vl[BoxOf[w.src]] OBVIOUS
<1> PICK last : last = SinceIn(w, vl) OBVIOUS
<1> PICK uids : uids = FoundIn(w, bx, last) OBVIOUS
<1> PICK x : x = [WithBatch(w, uids, last) EXCEPT !.now = v] OBVIOUS
<1>0. SUFFICES PollBegun(x, w, bx, tp, vl, h) BY DEF BatchIn
<1> last = (IF w.val # 0 /\ w.val # v THEN 0 ELSE w.uid) BY DEF SinceIn
<1> uids = {u \in last + 1 .. MaxUid : bx[BoxOf[w.src]][u] \in Horizon[w.src]} BY DEF FoundIn
<1> DEFINE b == BoxOf[w.src]
           y == WithBatch(w, uids, last)
<1>1. b \in Boxes /\ MaxUid \in Nat /\ MaxVal \in Nat /\ NoMsg \notin Horizon[w.src]
      /\ w.uid \in 0..MaxUid /\ w.val \in Nat
  BY MailCursorTypes
<1>2. vl[b] \in Nat /\ vl[b] > 0 /\ vl[b] <= MaxVal /\ tp[b] \in Nat /\ FirstVal[b] \in Nat
  BY <1>1, MailServerTypes
<1>3. last \in 0..MaxUid BY <1>1
<1>4. uids \in SUBSET (1..MaxUid) BY <1>1, <1>3
<1>5. /\ y \in Watchers /\ y.pc = "fetch"
      /\ y.src = w.src /\ y.uid = w.uid /\ y.val = w.val /\ y.last = last
      /\ y.batch \subseteq uids /\ y.todo = uids \ y.batch
      /\ y.done = {} /\ y.failed = {} /\ y.missing = {} /\ y.ok /\ ~y.err
      /\ \A p \in y.batch, t \in y.todo : p < t
  <2> Batched(y, w, uids, last) BY <1>3, <1>4, MailWithBatch
  <2> HIDE DEF y
  <2> QED BY DEF Batched
<1>6. v \in 0..MaxVal /\ v = vl[b] BY <1>1, <1>2
<1>7. /\ x \in Watchers /\ x.pc = "fetch" /\ x.now = v
      /\ x.src = w.src /\ x.uid = w.uid /\ x.val = w.val /\ x.last = last
      /\ x.batch \subseteq uids /\ x.todo = uids \ x.batch
      /\ x.done = {} /\ x.failed = {} /\ x.missing = {} /\ x.ok /\ ~x.err
      /\ \A p \in x.batch, t \in x.todo : p < t
  <2> x = [y EXCEPT !.now = v] OBVIOUS
  <2> HIDE DEF y
  <2> QED BY <1>5, <1>6 DEF Watchers
<1>8. Seen(x) = uids BY <1>7 DEF Seen
<1>9. Given(x.now, b, vl)
  <2> FirstVal[b] <= vl[b] BY <1>1 DEF ServerAt
  <2> HIDE DEF b
  <2>1. x.now = vl[b] BY <1>6, <1>7
  <2>2. Given(vl[b], b, vl) BY <1>2 DEF Given
  <2> QED BY <2>1, <2>2
<1>10. last = IF w.val = v THEN w.uid ELSE 0 BY <1>2, <1>6 DEF SoundAt
<1>11. ASSUME NEW s \in uids PROVE last < s /\ s <= tp[b]
  <2>1. s \in last + 1 .. MaxUid /\ bx[b][s] # NoMsg /\ s \in 1..MaxUid BY <1>1, <1>4
  <2> QED BY <1>1, <1>3, <2>1 DEF ServerAt
<1>12. ASSUME NEW u \in 1..MaxUid, NEW s \in uids, bx[b][u] \in Horizon[w.src], last < u PROVE u \in uids
  <2> u \in last + 1 .. MaxUid BY <1>1, <1>3, <1>12
  <2> QED BY <1>12
<1> HIDE DEF b
<1> QED BY <1>6, <1>7, <1>8, <1>9, <1>10, <1>11, <1>12 DEF FetchAt, PollBegun, b

-----------------------------------------------------------------------------
(* Where the row, the watcher and the listed rows stand after a step, seen *)
(* against the server before it.                                           *)
Carried ==
  /\ row' # NoRow => SoundAt(row', box, top, val, Handled)
  /\ watcher' # NoWatcher => SoundAt(watcher', box, top, val, Handled)
  /\ \A c \in Callers : calls'[c].seen # NoRow => SoundAt(calls'[c].seen, box, top, val, Handled)
  /\ watcher' # NoWatcher /\ watcher'.pc \in {"fetch", "mark"} =>
       FetchAt(watcher', box, top, val, Handled')

LaterStep == LaterThan(box, top, val, Handled, box', top', val', Handled')

LEMMA MailCarried ==
  ASSUME OwnNumberings, PassInv, TypeOK', ServerInv', LaterStep, Carried
  PROVE  CursorInv'
<1>1. ServerAt(box, top, val) /\ ServerAt(box', top', val') BY DEF PassInv, ServerInv
<1>2. LaterThan(box, top, val, Handled, box', top', val', Handled') BY DEF LaterStep
<1>3. LaterThan(box, top, val, Handled', box', top', val', Handled') BY <1>2 DEF LaterThan
<1>4. row' # NoRow => SoundAt(row', box', top', val', Handled')
  <2> row' # NoRow => row' \in Rows BY DEF TypeOK
  <2> QED BY <1>1, <1>2, MailSoundLater DEF Carried
<1>5. watcher' # NoWatcher => SoundAt(watcher', box', top', val', Handled')
  <2> watcher' # NoWatcher => watcher' \in Watchers BY DEF TypeOK
  <2> QED BY <1>1, <1>2, MailSoundLater DEF Carried
<1>6. ASSUME NEW c \in Callers, calls'[c].seen # NoRow PROVE SoundAt(calls'[c].seen, box', top', val', Handled')
  <2> calls'[c].seen \in Rows BY <1>6 DEF TypeOK
  <2> QED BY <1>1, <1>2, <1>6, MailSoundLater DEF Carried
<1>7. watcher' # NoWatcher /\ watcher'.pc \in {"fetch", "mark"} => FetchAt(watcher', box', top', val', Handled')
  <2> watcher' # NoWatcher => watcher' \in Watchers BY DEF TypeOK
  <2> QED BY <1>1, <1>3, MailFetchLater DEF Carried
<1> QED BY <1>4, <1>5, <1>6, <1>7 DEF CursorInv

LEMMA MailSameServer ==
  ASSUME PassInv, TypeOK', UNCHANGED <<box, top, val>>, filed \subseteq filed', ignored \subseteq ignored',
         quota'["mishaps"] <= quota["mishaps"]
  PROVE  ServerInv' /\ LaterStep
<1>1. Handled \subseteq Handled' BY DEF Handled
<1>2. ASSUME NEW b \in Boxes PROVE top[b] <= top[b]
  <2> top[b] \in 0..MaxUid BY DEF PassInv, TypeOK
  <2> QED BY NumbersAssumption
<1>3. LaterStep BY <1>1, <1>2 DEF LaterStep, LaterThan
<1>4. ServerAt(box', top', val') BY DEF PassInv, ServerInv
<1>5. ASSUME NEW b \in Boxes PROVE val'[b] + quota'["mishaps"] <= FirstVal[b] + MailBounds["mishaps"]
  <2> val[b] \in 1..MaxVal /\ quota["mishaps"] \in Nat /\ quota'["mishaps"] \in Nat /\ FirstVal[b] \in 1..MaxVal /\ MailBounds["mishaps"] \in Nat
    BY NumbersAssumption, SourcesAssumption DEF PassInv, TypeOK
  <2> val[b] + quota["mishaps"] <= FirstVal[b] + MailBounds["mishaps"] BY DEF PassInv, ServerInv
  <2> QED BY NumbersAssumption
<1> QED BY <1>3, <1>4, <1>5 DEF ServerInv

(* A poll loses nothing when more is handled.                              *)
LEMMA MailMoreHandled ==
  ASSUME PassInv, filed \subseteq filed', ignored \subseteq ignored',
         watcher # NoWatcher, watcher.pc \in {"fetch", "mark"}
  PROVE  FetchAt(watcher, box, top, val, Handled')
<1>1. Handled \subseteq Handled' BY DEF Handled
<1>2. ASSUME NEW b \in Boxes PROVE top[b] <= top[b]
  <2> top[b] \in 0..MaxUid BY DEF PassInv, TypeOK
  <2> QED BY NumbersAssumption
<1>3. LaterThan(box, top, val, Handled, box, top, val, Handled') BY <1>1, <1>2 DEF LaterThan
<1>4. watcher \in Watchers /\ ServerAt(box, top, val) /\ FetchAt(watcher, box, top, val, Handled)
  BY DEF PassInv, TypeOK, ServerInv, CursorInv
<1> QED BY <1>3, <1>4, MailFetchLater

LEMMA MailWaits ==
  ASSUME PassInv, UNCHANGED <<row, watcher, calls>>, filed \subseteq filed', ignored \subseteq ignored'
  PROVE  Carried
BY MailMoreHandled DEF Carried, PassInv, CursorInv

LEMMA MailSpent ==
  ASSUME TypeOK, NEW what \in {"mails", "creates", "edits", "mishaps", "lost"}, MailSpend(what)
  PROVE  quota'["mishaps"] <= quota["mishaps"] /\ quota["mishaps"] \in Nat
         /\ (what = "mishaps" => quota["mishaps"] = quota'["mishaps"] + 1)
BY DEF TypeOK, MailSpend

LEMMA MailWorldStep ==
  ASSUME PassInv, World, TypeOK'
  PROVE  ServerInv' /\ LaterStep /\ Carried
<1> USE DEF server, archive, process
<1>0. TypeOK /\ ServerAt(box, top, val) BY DEF PassInv, ServerInv
<1>1. ASSUME NEW d \in Boxes
      PROVE  /\ val[d] \in Nat /\ val[d] >= 1 /\ top[d] \in Nat /\ FirstVal[d] \in Nat
             /\ val'[d] \in Nat /\ top'[d] \in Nat /\ MailBounds["mishaps"] \in Nat /\ quota["mishaps"] \in Nat
             /\ quota'["mishaps"] \in Nat
             /\ val[d] + quota["mishaps"] <= FirstVal[d] + MailBounds["mishaps"] /\ FirstVal[d] <= val[d]
  <2> val[d] \in 1..MaxVal /\ top[d] \in 0..MaxUid /\ FirstVal[d] \in 1..MaxVal /\ val'[d] \in 1..MaxVal /\ top'[d] \in 0..MaxUid
    BY SourcesAssumption DEF PassInv, TypeOK
  <2> quota["mishaps"] \in Nat /\ quota'["mishaps"] \in Nat BY DEF PassInv, TypeOK
  <2> QED BY NumbersAssumption DEF PassInv, ServerInv, ServerAt
<1>2. ASSUME NEW b \in Boxes, NEW m \in Msgs, Deliver(b, m) PROVE ServerInv' /\ LaterStep /\ Carried
  <2>1. quota'["mishaps"] <= quota["mishaps"] BY <1>0, <1>2, MailSpent DEF Deliver
  <2>2. val' = val /\ UNCHANGED <<row, watcher, calls, filed, ignored>> BY <1>2 DEF Deliver
  <2>3. \A d \in Boxes : top'[d] = IF d = b THEN top[b] + 1 ELSE top[d] BY <1>2 DEF Deliver, PassInv, TypeOK
  <2>4. \A d \in Boxes, u \in 1..MaxUid : box'[d][u] = IF d = b /\ u = top[b] + 1 THEN m ELSE box[d][u]
    BY <1>2 DEF Deliver, PassInv, TypeOK
  <2>5. \A d \in Boxes, u \in 1..MaxUid : box'[d][u] # NoMsg => u <= top'[d]
    <3> SUFFICES ASSUME NEW d \in Boxes, NEW u \in 1..MaxUid, box'[d][u] # NoMsg PROVE u <= top'[d] OBVIOUS
    <3> u \in Nat BY NumbersAssumption
    <3>1. CASE d = b /\ u = top[b] + 1 BY <1>1, <2>3, <3>1
    <3>2. CASE ~(d = b /\ u = top[b] + 1)
      <4> u <= top[d] BY <1>0, <2>4, <3>2 DEF ServerAt
      <4> QED BY <1>1, <2>3
    <3> QED BY <3>1, <3>2
  <2>6. ServerAt(box', top', val')
    <3> \A d \in Boxes : FirstVal[d] <= val'[d] /\ val'[d] <= FirstVal[d] + MailBounds["mishaps"]
      BY <1>0, <2>2 DEF ServerAt
    <3> QED BY <2>5 DEF ServerAt, TypeOK
  <2>7. \A d \in Boxes : val'[d] + quota'["mishaps"] <= FirstVal[d] + MailBounds["mishaps"]
    BY <1>1, <2>1, <2>2
  <2>8. ASSUME NEW d \in Boxes
        PROVE  val'[d] = val[d] /\ top[d] <= top'[d] /\ \A u \in 1..top[d] : box'[d][u] \in {box[d][u], NoMsg}
    <3> top[d] <= top'[d] BY <1>1, <2>3
    <3> ASSUME NEW u \in 1..top[d] PROVE box'[d][u] \in {box[d][u], NoMsg}
      <4> top[d] \in 0..MaxUid BY DEF PassInv, TypeOK
      <4> u \in 1..MaxUid /\ u # top[d] + 1 BY NumbersAssumption
      <4> QED BY <2>4
    <3> QED BY <2>2
  <2>9. LaterStep BY <2>2, <2>8 DEF LaterStep, LaterThan, Handled
  <2> QED BY <2>2, <2>6, <2>7, <2>9, MailWaits DEF ServerInv
<1>3. ASSUME NEW b \in Boxes, NEW e \in 1..MaxUid, Expunge(b, e) PROVE ServerInv' /\ LaterStep /\ Carried
  <2>1. quota'["mishaps"] <= quota["mishaps"] BY <1>0, <1>3, MailSpent DEF Expunge
  <2>2. val' = val /\ top' = top /\ UNCHANGED <<row, watcher, calls, filed, ignored>> BY <1>3 DEF Expunge
  <2>3. \A d \in Boxes, u \in 1..MaxUid : box'[d][u] = IF d = b /\ u = e THEN NoMsg ELSE box[d][u]
    BY <1>3 DEF Expunge, PassInv, TypeOK
  <2>4. ServerAt(box', top', val')
    <3> \A d \in Boxes, u \in 1..MaxUid : box'[d][u] # NoMsg => u <= top'[d] BY <1>0, <2>2, <2>3 DEF ServerAt
    <3> \A d \in Boxes : FirstVal[d] <= val'[d] /\ val'[d] <= FirstVal[d] + MailBounds["mishaps"]
      BY <1>0, <2>2 DEF ServerAt
    <3> QED BY DEF ServerAt, TypeOK
  <2>5. \A d \in Boxes : val'[d] + quota'["mishaps"] <= FirstVal[d] + MailBounds["mishaps"]
    BY <1>1, <2>1, <2>2
  <2>6. ASSUME NEW d \in Boxes
        PROVE  val'[d] = val[d] /\ top[d] <= top'[d] /\ \A u \in 1..top[d] : box'[d][u] \in {box[d][u], NoMsg}
    <3> top[d] <= top'[d] BY <1>1, <2>2
    <3> ASSUME NEW u \in 1..top[d] PROVE box'[d][u] \in {box[d][u], NoMsg}
      <4> top[d] \in 0..MaxUid BY DEF PassInv, TypeOK
      <4> u \in 1..MaxUid BY NumbersAssumption
      <4> QED BY <2>3
    <3> QED BY <2>2
  <2>7. LaterStep BY <2>2, <2>6 DEF LaterStep, LaterThan, Handled
  <2> QED BY <2>2, <2>4, <2>5, <2>7, MailWaits DEF ServerInv
<1>4. ASSUME NEW b \in Boxes, Renumber(b) PROVE ServerInv' /\ LaterStep /\ Carried
  <2> DEFINE old == {u \in 1..MaxUid : box[b][u] # NoMsg}
             Rank(u) == Cardinality({v \in old : v <= u})
             New == [u \in 1..MaxUid |-> IF \E v \in old : Rank(v) = u
                                         THEN box[b][CHOOSE v \in old : Rank(v) = u] ELSE NoMsg]
  <2>1. quota["mishaps"] = quota'["mishaps"] + 1 BY <1>0, <1>4, MailSpent DEF Renumber
  <2>2. UNCHANGED <<row, watcher, calls, filed, ignored>> BY <1>4 DEF Renumber
  <2>3. \A d \in Boxes : val'[d] = IF d = b THEN val[b] + 1 ELSE val[d] BY <1>4 DEF Renumber, PassInv, TypeOK
  <2>4. \A d \in Boxes : top'[d] = IF d = b THEN Cardinality(old) ELSE top[d]
    <3> top' = [top EXCEPT ![b] = Cardinality(old)] BY <1>4 DEF Renumber
    <3> HIDE DEF old
    <3> QED BY DEF PassInv, TypeOK
  <2>5. \A d \in Boxes : box'[d] = IF d = b THEN New ELSE box[d]
    <3> box' = [box EXCEPT ![b] = New] BY <1>4 DEF Renumber
    <3> HIDE DEF New
    <3> QED BY DEF PassInv, TypeOK
  <2>6. ASSUME NEW u \in 1..MaxUid, New[u] # NoMsg PROVE u <= Cardinality(old)
    <3> old \in SUBSET (1..MaxUid) OBVIOUS
    <3>1. PICK v \in old : Rank(v) = u
      <4> HIDE DEF old, Rank
      <4> QED BY <2>6
    <3>2. {w \in old : w <= v} \in SUBSET old OBVIOUS
    <3> HIDE DEF old
    <3>3. Cardinality({w \in old : w <= v}) <= Cardinality(old) BY <3>2, MailHowMany, FS_Subset
    <3> QED BY <3>1, <3>3
  <2> HIDE DEF New, old, Rank
  <2>7. ASSUME NEW d \in Boxes, NEW u \in 1..MaxUid, box'[d][u] # NoMsg PROVE u <= top'[d]
    <3>1. CASE d = b BY <2>4, <2>5, <2>6, <2>7, <3>1
    <3>2. CASE d # b BY <1>0, <2>4, <2>5, <2>7, <3>2 DEF ServerAt
    <3> QED BY <3>1, <3>2
  <2>8. ASSUME NEW d \in Boxes PROVE val'[d] + quota'["mishaps"] <= FirstVal[d] + MailBounds["mishaps"] /\ FirstVal[d] <= val'[d]
    BY <1>1, <2>1, <2>3
  <2>9. ServerAt(box', top', val')
    <3> \A d \in Boxes : val'[d] <= FirstVal[d] + MailBounds["mishaps"] BY <1>1, <2>8
    <3> QED BY <2>7, <2>8 DEF ServerAt, TypeOK
  <2>10. LaterStep
    <3> \A d \in Boxes : top[d] <= top[d] BY <1>1
    <3> \A d \in Boxes : d # b => val'[d] = val[d] /\ top'[d] = top[d] /\ box'[d] = box[d] BY <2>3, <2>4, <2>5
    <3> Handled' = Handled BY <2>2 DEF Handled
    <3> QED BY <2>3 DEF LaterStep, LaterThan
  <2> QED BY <2>2, <2>8, <2>9, <2>10, MailWaits DEF ServerInv
<1>5. ASSUME NEW m \in Msgs, TouchDocument(m) PROVE ServerInv' /\ LaterStep /\ Carried
  <2>1. UNCHANGED <<box, top, val, row, watcher, calls, filed, ignored>> BY <1>5 DEF TouchDocument
  <2>2. quota'["mishaps"] <= quota["mishaps"] BY <1>0, <1>5, MailSpent DEF TouchDocument
  <2> QED BY <2>1, <2>2, MailWaits, MailSameServer
<1> QED BY <1>2, <1>3, <1>4, <1>5 DEF World

LEMMA MailRequestStep ==
  ASSUME PassInv, NEW c \in Callers, AccountRequests(c)
  PROVE  TypeOK' /\ ServerInv' /\ LaterStep /\ Carried
<1>1. TypeOK /\ ServerAt(box, top, val) BY DEF PassInv, ServerInv
<1>2. TypeOK' BY <1>1, MailRequestTypes
<1>3. /\ Rewritten /\ Reloading(c) /\ UNCHANGED <<box, top, val, filed, ignored, watcher>>
      /\ \E what \in {"creates", "edits"} : MailSpend(what)
  BY <1>1, MailRequests
<1>4. quota'["mishaps"] <= quota["mishaps"] BY <1>1, <1>3, MailSpent
<1>5. ServerInv' /\ LaterStep BY <1>2, <1>3, <1>4, MailSameServer
<1>6. row' # NoRow => SoundAt(row', box, top, val, Handled)
  <2>1. CASE row' = row BY <2>1 DEF PassInv, CursorInv
  <2>2. CASE row' \in Rows /\ row'.uid = 0 /\ row'.val = 0 BY <1>1, <2>2, MailSoundAtZero
  <2>3. CASE row # NoRow /\ row'.src = row.src /\ row'.uid = row.uid /\ row'.val = row.val
    BY <2>3, MailSoundSame DEF PassInv, CursorInv
  <2> QED BY <1>3, <2>1, <2>2, <2>3 DEF Rewritten
<1>7. \A d \in Callers : calls'[d].seen = calls[d].seen BY <1>1, <1>3 DEF Reloading, TypeOK
<1>8. watcher # NoWatcher /\ watcher.pc \in {"fetch", "mark"} => FetchAt(watcher, box, top, val, Handled')
  BY <1>3, MailMoreHandled
<1> QED BY <1>2, <1>3, <1>5, <1>6, <1>7, <1>8 DEF Carried, PassInv, CursorInv

(* Cancelling a watcher changes nothing of its poll.                       *)
LEMMA MailCancelled ==
  ASSUME PassInv, watcher # NoWatcher, NEW w, w = [watcher EXCEPT !.cancelled = TRUE]
  PROVE  /\ SoundAt(w, box, top, val, Handled)
         /\ w.pc \in {"fetch", "mark"} => FetchAt(w, box, top, val, Handled)
<1>1. watcher \in Watchers /\ SoundAt(watcher, box, top, val, Handled) BY DEF PassInv, TypeOK, CursorInv
<1>2. /\ w.src = watcher.src /\ w.uid = watcher.uid /\ w.val = watcher.val /\ w.pc = watcher.pc
      /\ w.last = watcher.last /\ w.now = watcher.now /\ w.todo = watcher.todo /\ w.batch = watcher.batch
      /\ w.done = watcher.done /\ w.failed = watcher.failed /\ w.missing = watcher.missing
      /\ w.ok = watcher.ok /\ w.err = watcher.err
  BY <1>1 DEF Watchers
<1>3. SoundAt(w, box, top, val, Handled) BY <1>1, <1>2, MailSoundSame
<1>4. ASSUME w.pc \in {"fetch", "mark"} PROVE FetchAt(w, box, top, val, Handled)
  <2> FetchAt(watcher, box, top, val, Handled) BY <1>2, <1>4 DEF PassInv, CursorInv
  <2> Seen(w) = Seen(watcher) BY <1>2 DEF Seen
  <2> HIDE DEF Seen
  <2> QED BY <1>2 DEF FetchAt
<1> QED BY <1>3, <1>4

LEMMA MailReloadStep ==
  ASSUME PassInv, NEW c \in Callers, Reload(c) \/ ReloadLost(c)
  PROVE  TypeOK' /\ ServerInv' /\ LaterStep /\ Carried
<1> USE DEF server, archive
<1>1. TypeOK BY DEF PassInv
<1>2. TypeOK' BY <1>1, MailReloadTypes
<1>3. UNCHANGED <<box, top, val, row, filed, ignored>>
  BY DEF Reload, ReloadList, ReloadLock, ReloadStart, ReloadLost
<1>4. quota'["mishaps"] <= quota["mishaps"]
  <2> quota' = quota \/ quota' = [quota EXCEPT !["mishaps"] = @ - 1, !["lost"] = @ - 1]
    BY DEF Reload, ReloadList, ReloadLock, ReloadStart, ReloadLost
  <2> QED BY <1>1 DEF TypeOK
<1>5. ServerInv' /\ LaterStep BY <1>2, <1>3, <1>4, MailSameServer
<1>6. Handled' = Handled BY <1>3 DEF Handled
<1>7. \A d \in Callers : calls'[d].seen # NoRow => SoundAt(calls'[d].seen, box, top, val, Handled)
  <2> \A d \in Callers : calls'[d].seen \in {NoRow, row, calls[d].seen}
    BY <1>1 DEF Reload, ReloadList, ReloadLock, ReloadStart, ReloadLost, TypeOK
  <2> QED BY DEF PassInv, CursorInv
<1>8. \/ watcher' = watcher
      \/ watcher # NoWatcher /\ watcher' = [watcher EXCEPT !.cancelled = TRUE]
      \/ calls[c].seen # NoRow /\ watcher' = Started(calls[c].seen)
  BY DEF Reload, ReloadList, ReloadLock, ReloadStart, ReloadLost, Outdated
<1>9. watcher' # NoWatcher =>
        /\ SoundAt(watcher', box, top, val, Handled)
        /\ watcher'.pc \in {"fetch", "mark"} => FetchAt(watcher', box, top, val, Handled)
  <2>1. CASE watcher' = watcher BY <2>1 DEF PassInv, CursorInv
  <2>2. CASE watcher # NoWatcher /\ watcher' = [watcher EXCEPT !.cancelled = TRUE] BY <2>2, MailCancelled
  <2>3. CASE calls[c].seen # NoRow /\ watcher' = Started(calls[c].seen)
    <3> calls[c].seen \in Rows /\ SoundAt(calls[c].seen, box, top, val, Handled)
      BY <2>3 DEF PassInv, TypeOK, CursorInv
    <3> /\ watcher'.pc = "idle" /\ watcher'.src = calls[c].seen.src
        /\ watcher'.uid = calls[c].seen.uid /\ watcher'.val = calls[c].seen.val
      BY <2>3, MailStarted
    <3> QED BY MailSoundSame
  <2> QED BY <1>8, <2>1, <2>2, <2>3
<1>10. row' # NoRow => SoundAt(row', box, top, val, Handled) BY <1>3 DEF PassInv, CursorInv
<1> QED BY <1>2, <1>5, <1>6, <1>7, <1>9, <1>10 DEF Carried

LEMMA MailProcessStep ==
  ASSUME PassInv, Drain \/ Shutdown \/ Crash \/ Boot
  PROVE  TypeOK' /\ ServerInv' /\ LaterStep /\ Carried
<1> USE DEF server, archive
<1>1. TypeOK BY DEF PassInv
<1>2. TypeOK' BY <1>1, MailProcessTypes
<1>3. UNCHANGED <<box, top, val, row, filed, ignored>> BY DEF Drain, Shutdown, Crash, Boot
<1>4. quota'["mishaps"] <= quota["mishaps"]
  <2> quota' = quota \/ MailSpend("mishaps") BY DEF Drain, Shutdown, Crash, Boot
  <2> quota["mishaps"] \in Nat BY <1>1 DEF TypeOK
  <2> QED BY <1>1, MailSpent
<1>5. ServerInv' /\ LaterStep BY <1>2, <1>3, <1>4, MailSameServer
<1>6. Handled' = Handled BY <1>3 DEF Handled
<1>7. \A d \in Callers : calls'[d].seen # NoRow => SoundAt(calls'[d].seen, box, top, val, Handled)
  <2>1. \/ calls' = calls \/ calls' = [d \in Callers |-> [pc |-> "idle", seen |-> NoRow]]
        \/ calls' = [calls EXCEPT ![Booter].pc = "list"]
    BY DEF Drain, Shutdown, Crash, Boot
  <2> ASSUME NEW d \in Callers PROVE calls'[d].seen \in {NoRow, calls[d].seen}
    BY <1>1, <2>1 DEF TypeOK
  <2> QED BY DEF PassInv, CursorInv
<1>8. watcher' \in {watcher, NoWatcher} \/ (watcher # NoWatcher /\ watcher' = [watcher EXCEPT !.cancelled = TRUE])
  BY DEF Drain, Shutdown, Crash, Boot
<1>9. watcher' # NoWatcher =>
        /\ SoundAt(watcher', box, top, val, Handled)
        /\ watcher'.pc \in {"fetch", "mark"} => FetchAt(watcher', box, top, val, Handled)
  <2>1. CASE watcher' \in {watcher, NoWatcher} BY <2>1 DEF PassInv, CursorInv
  <2>2. CASE watcher # NoWatcher /\ watcher' = [watcher EXCEPT !.cancelled = TRUE] BY <2>2, MailCancelled
  <2> QED BY <1>8, <2>1, <2>2
<1>10. row' # NoRow => SoundAt(row', box, top, val, Handled) BY <1>3 DEF PassInv, CursorInv
<1> QED BY <1>2, <1>5, <1>6, <1>7, <1>9, <1>10 DEF Carried

LEMMA MailConnectStep ==
  ASSUME PassInv, Connect \/ Rotate
  PROVE  TypeOK' /\ ServerInv' /\ LaterStep /\ Carried
<1> USE DEF server, archive
<1>1. TypeOK BY DEF PassInv
<1>2. TypeOK' BY <1>1, MailConnectTypes
<1>3. UNCHANGED <<box, top, val, filed, ignored, calls>> BY DEF Connect, Rotate
<1>4. quota'["mishaps"] <= quota["mishaps"]
  <2> quota' = quota \/ MailSpend("mishaps") BY DEF Connect, Rotate
  <2> quota["mishaps"] \in Nat BY <1>1 DEF TypeOK
  <2> QED BY <1>1, MailSpent
<1>5. ServerInv' /\ LaterStep BY <1>2, <1>3, <1>4, MailSameServer
<1>6. watcher \in Watchers /\ watcher # NoWatcher BY <1>1 DEF Connect, Rotate, Live, TypeOK
<1>7. \/ watcher' = Ended
      \/ \E pc \in {"rotate", "search"} : watcher' = [watcher EXCEPT !.pc = pc]
  BY DEF Connect, Rotate, CycleFailed
<1>8. /\ watcher'.src = watcher.src /\ watcher'.uid = watcher.uid /\ watcher'.val = watcher.val
      /\ watcher'.pc \notin {"fetch", "mark"}
  <2>1. CASE watcher' = Ended BY <1>6, <2>1, MailEnded
  <2>2. ASSUME NEW pc \in {"rotate", "search"}, watcher' = [watcher EXCEPT !.pc = pc]
        PROVE  /\ watcher'.src = watcher.src /\ watcher'.uid = watcher.uid /\ watcher'.val = watcher.val
               /\ watcher'.pc = pc
    BY <1>6, <2>2 DEF Watchers
  <2> QED BY <1>7, <2>1, <2>2
<1>9. SoundAt(watcher', box, top, val, Handled) BY <1>6, <1>8, MailSoundSame DEF PassInv, CursorInv
<1>10. row' # NoRow => SoundAt(row', box, top, val, Handled)
  <2>1. CASE row' = row BY <2>1 DEF PassInv, CursorInv
  <2>2. CASE row # NoRow /\ row' = [row EXCEPT !.secret = NewSecret]
    <3> row \in Rows BY <1>1, <2>2 DEF TypeOK
    <3> row'.src = row.src /\ row'.uid = row.uid /\ row'.val = row.val BY <2>2 DEF Rows
    <3> QED BY <2>2, MailSoundSame DEF PassInv, CursorInv
  <2> QED BY <2>1, <2>2 DEF Connect, Rotate
<1> QED BY <1>2, <1>3, <1>5, <1>8, <1>9, <1>10 DEF Carried, PassInv, CursorInv

LEMMA MailSearchStep ==
  ASSUME PassInv, Search
  PROVE  TypeOK' /\ ServerInv' /\ LaterStep /\ Carried
<1> USE DEF server, archive
<1>1. TypeOK /\ ServerAt(box, top, val) BY DEF PassInv, ServerInv
<1> DEFINE b == BoxOf[watcher.src]
           v == val[b]
           since == Since
<1>2. watcher \in Watchers /\ watcher # NoWatcher /\ watcher' \in Watchers /\ row' \in Rows \cup {NoRow} /\ v \in 0..MaxVal
  BY <1>1, MailSearched DEF Search, Live
<1>3. UNCHANGED <<box, top, val, owner, docs, filed, ignored, calls, mutex, up, quota>> BY DEF Search
<1>4. TypeOK' BY <1>1, <1>2, <1>3 DEF TypeOK
<1>5. ServerInv' /\ LaterStep
  <2> quota'["mishaps"] <= quota["mishaps"] BY <1>1, <1>3 DEF TypeOK
  <2> QED BY <1>3, <1>4, MailSameServer
<1>6. SoundAt(watcher, box, top, val, Handled) BY <1>2 DEF PassInv, CursorInv
<1>7. b \in Boxes /\ Given(v, b, val)
  <2>1. b \in Boxes BY <1>2, MailCursorTypes
  <2>2. val[b] \in Nat /\ FirstVal[b] <= val[b] BY <1>1, <2>1, MailServerTypes DEF ServerAt
  <2> QED BY <2>1, <2>2 DEF Given
<1>8. Handled' = Handled BY <1>3 DEF Handled
<1>9. CASE row' = row /\ watcher' = [WithBatch(watcher, Found(since), since) EXCEPT !.now = v]
  <2>1. PollBegun(BatchIn(watcher, box, val), watcher, box, top, val, Handled)
    BY <1>1, <1>2, <1>6, MailFirstBatch
  <2>2. watcher' = BatchIn(watcher, box, val) BY <1>9 DEF BatchIn, SinceIn, FoundIn, Since, Found
  <2>3. /\ watcher'.src = watcher.src /\ watcher'.uid = watcher.uid /\ watcher'.val = watcher.val
        /\ FetchAt(watcher', box, top, val, Handled)
    BY <2>1, <2>2 DEF PollBegun
  <2>4. SoundAt(watcher', box, top, val, Handled) BY <1>6, <2>3, MailSoundSame
  <2> QED BY <1>3, <1>4, <1>5, <1>8, <1>9, <2>3, <2>4 DEF Carried, PassInv, CursorInv
<1>10. CASE row' = row /\ watcher' = Ended
  <2>1. watcher'.src = watcher.src /\ watcher'.uid = watcher.uid /\ watcher'.val = watcher.val /\ watcher'.pc = "idle"
    BY <1>2, <1>10, MailEnded
  <2>2. SoundAt(watcher', box, top, val, Handled) BY <1>6, <2>1, MailSoundSame
  <2> QED BY <1>3, <1>4, <1>5, <1>10, <2>1, <2>2 DEF Carried, PassInv, CursorInv
<1>11. CASE watcher.val # v /\ row # NoRow /\ row' = UpdateUIDCursor(since, v)
            /\ watcher' = [Ended EXCEPT !.uid = since, !.val = v]
  <2>1. since = 0 BY <1>6, <1>11 DEF SoundAt, Since
  <2>2. row \in Rows BY <1>1, <1>11 DEF TypeOK
  <2>3. 0 \in 0..MaxUid BY NumbersAssumption
  <2> HIDE DEF since, v
  <2>4. row' \in Rows /\ row'.uid = 0 /\ row'.val = v BY <1>2, <1>11, <2>1, <2>2, <2>3, MailCursorWritten
  <2>5. watcher'.pc = "idle" /\ watcher'.uid = 0 /\ watcher'.val = v
    <3> Standing(watcher', watcher.src, since, v) BY <1>2, <1>11, <2>1, <2>3, MailEndedAt
    <3> QED BY <2>1 DEF Standing
  <2>6. SoundAt(row', box, top, val, Handled) /\ SoundAt(watcher', box, top, val, Handled)
    BY <1>1, <1>2, <1>7, <2>4, <2>5, MailSoundAtZero
  <2> QED BY <1>3, <1>4, <1>5, <2>5, <2>6 DEF Carried, PassInv, CursorInv
<1>12. \/ row' = row /\ watcher' = [WithBatch(watcher, Found(since), since) EXCEPT !.now = v]
       \/ row' = row /\ watcher' = Ended
       \/ /\ watcher.val # v /\ row # NoRow /\ row' = UpdateUIDCursor(since, v)
          /\ watcher' = [Ended EXCEPT !.uid = since, !.val = v]
  BY DEF Search
<1> QED BY <1>9, <1>10, <1>11, <1>12

(* Within a batch UIDs are only regrouped, or given up with the batch.     *)
SamePoll(w, x) ==
  x.src = w.src /\ x.uid = w.uid /\ x.val = w.val /\ x.now = w.now /\ x.last = w.last /\ x.todo = w.todo

Regrouped(w, x, bx, vl, h) ==
  LET Group(y) == y.batch \cup y.done \cup y.failed \cup y.missing
      b == BoxOf[w.src]
  IN  /\ SamePoll(w, x)
      /\ x.pc = "mark" => x.batch = {}
      /\ ~x.ok \/ x.failed # {} => x.err
      /\ Group(x) \subseteq Group(w) /\ (x.ok => w.ok /\ Group(w) \subseteq Group(x))
      /\ w.now = vl[b] => /\ \A u \in x.done : u \in w.done \/ bx[b][u] \in h \cup {NoMsg}
                          /\ \A u \in x.missing : u \in w.missing \/ bx[b][u] = NoMsg

LEMMA MailRegrouped ==
  ASSUME NEW bx, NEW tp, NEW vl, NEW h, NEW h2, h \subseteq h2, NEW w \in Watchers, NEW x \in Watchers,
         FetchAt(w, bx, tp, vl, h), Regrouped(w, x, bx, vl, h2)
  PROVE  FetchAt(x, bx, tp, vl, h2)
<1>1. Seen(x) \subseteq Seen(w) /\ (x.ok => w.ok /\ Seen(x) = Seen(w)) BY DEF Seen, Regrouped, SamePoll
<1>2. /\ Given(x.now, BoxOf[x.src], vl)
      /\ x.last = (IF x.val = x.now THEN x.uid ELSE 0)
      /\ ~x.ok \/ x.failed # {} => x.err
      /\ x.pc = "mark" => x.batch = {}
  BY DEF FetchAt, Regrouped, SamePoll
<1>3. \A t \in x.todo : \A p \in x.batch \cup x.done \cup x.failed \cup x.missing : p < t
  BY DEF FetchAt, Regrouped, SamePoll
<1>4. ASSUME x.now = vl[BoxOf[x.src]]
      PROVE  /\ \A s \in Seen(x) : x.last < s /\ s <= tp[BoxOf[x.src]]
             /\ x.ok => \A u \in 1..MaxUid : \A s \in Seen(x) :
                   bx[BoxOf[x.src]][u] \in Horizon[x.src] /\ x.last < u /\ u <= s => u \in Seen(x)
             /\ \A u \in x.done : bx[BoxOf[x.src]][u] \in h2 \cup {NoMsg}
             /\ \A u \in x.missing : bx[BoxOf[x.src]][u] = NoMsg
  <2>1. x.src = w.src /\ x.last = w.last /\ w.now = vl[BoxOf[w.src]] BY <1>4 DEF Regrouped, SamePoll
  <2>2. /\ \A s \in Seen(w) : w.last < s /\ s <= tp[BoxOf[w.src]]
        /\ w.ok => \A u \in 1..MaxUid : \A s \in Seen(w) :
              bx[BoxOf[w.src]][u] \in Horizon[w.src] /\ w.last < u /\ u <= s => u \in Seen(w)
        /\ \A u \in w.done : bx[BoxOf[w.src]][u] \in h \cup {NoMsg}
        /\ \A u \in w.missing : bx[BoxOf[w.src]][u] = NoMsg
    BY <2>1 DEF FetchAt
  <2>3. \A u \in x.done : bx[BoxOf[x.src]][u] \in h2 \cup {NoMsg} BY <2>1, <2>2 DEF Regrouped
  <2>4. \A u \in x.missing : bx[BoxOf[x.src]][u] = NoMsg BY <2>1, <2>2 DEF Regrouped
  <2>5. \A s \in Seen(x) : x.last < s /\ s <= tp[BoxOf[x.src]] BY <1>1, <2>1, <2>2
  <2>6. x.ok => \A u \in 1..MaxUid : \A s \in Seen(x) :
           bx[BoxOf[x.src]][u] \in Horizon[x.src] /\ x.last < u /\ u <= s => u \in Seen(x)
    BY <1>1, <2>1, <2>2
  <2> QED BY <2>3, <2>4, <2>5, <2>6
<1> QED BY <1>2, <1>3, <1>4 DEF FetchAt

(* What taking one reply makes of the groups.                              *)
Taken(x, u, set) ==
  /\ SamePoll(watcher, x) /\ x.pc = watcher.pc /\ x.ok = watcher.ok
  /\ watcher.err => x.err
  /\ x.batch = watcher.batch \ {u}
  /\ x.done = IF set = "done" THEN watcher.done \cup {u} ELSE watcher.done
  /\ x.failed = IF set = "failed" THEN watcher.failed \cup {u} ELSE watcher.failed
  /\ x.missing = IF set = "missing" THEN watcher.missing \cup {u} ELSE watcher.missing

LEMMA MailTaken ==
  ASSUME watcher \in Watchers, NEW u
  PROVE  /\ Taken(Took(u, "missing"), u, "missing") /\ Taken(Took(u, "done"), u, "done")
         /\ Taken([Took(u, "failed") EXCEPT !.err = TRUE], u, "failed") /\ [Took(u, "failed") EXCEPT !.err = TRUE].err
         /\ Taken([Took(u, "done") EXCEPT !.book = @ \cup {u}], u, "done")
<1>1. Taken(Took(u, "missing"), u, "missing") BY DEF Taken, Took, SamePoll, Watchers
<1>2. Taken(Took(u, "done"), u, "done") BY DEF Taken, Took, SamePoll, Watchers
<1>3. Taken([Took(u, "failed") EXCEPT !.err = TRUE], u, "failed") /\ [Took(u, "failed") EXCEPT !.err = TRUE].err
  BY DEF Taken, Took, SamePoll, Watchers
<1>4. Taken([Took(u, "done") EXCEPT !.book = @ \cup {u}], u, "done") BY DEF Taken, Took, SamePoll, Watchers
<1> QED BY <1>1, <1>2, <1>3, <1>4

LEMMA MailFetchStep ==
  ASSUME PassInv, FetchOne
  PROVE  TypeOK' /\ ServerInv' /\ LaterStep /\ Carried
<1> USE DEF server, archive
<1>1. TypeOK /\ ServerAt(box, top, val) BY DEF PassInv, ServerInv
<1> DEFINE u == Min(watcher.batch)
           b == BoxOf[watcher.src]
           m == box[b][u]
<1>2. /\ watcher \in Watchers /\ watcher # NoWatcher /\ watcher' \in Watchers /\ u \in watcher.batch /\ TypeOK'
      /\ watcher.pc = "fetch"
  BY <1>1, MailFetched DEF FetchOne, Live
<1>3. UNCHANGED <<box, top, val, row, calls>> /\ filed \subseteq filed' /\ ignored \subseteq ignored'
  BY DEF FetchOne
<1>4. ServerInv' /\ LaterStep
  <2> quota' = quota \/ MailSpend("mishaps") BY DEF FetchOne
  <2> quota["mishaps"] \in Nat BY <1>1 DEF TypeOK
  <2> quota'["mishaps"] <= quota["mishaps"] BY <1>1, MailSpent
  <2> QED BY <1>2, <1>3, MailSameServer
<1>5. /\ SoundAt(watcher, box, top, val, Handled) /\ FetchAt(watcher, box, top, val, Handled)
  BY <1>2 DEF PassInv, CursorInv
<1>6. \/ m = NoMsg /\ Taken(watcher', u, "missing")
      \/ m \in Handled' /\ Taken(watcher', u, "done")
      \/ Taken(watcher', u, "failed") /\ watcher'.err
  <2>1. \/ m = NoMsg /\ watcher' = Took(u, "missing")
        \/ m \in Big /\ watcher' = Took(u, "done")
        \/ watcher' = [Took(u, "failed") EXCEPT !.err = TRUE]
        \/ m \in ignored' /\ watcher' = Took(u, "done")
        \/ m \in filed' /\ watcher' = [Took(u, "done") EXCEPT !.book = @ \cup {u}]
    BY DEF FetchOne
  <2> HIDE DEF u, m
  <2> QED BY <1>2, <2>1, MailTaken DEF Handled
<1> HIDE DEF u, m
<1>7. Regrouped(watcher, watcher', box, val, Handled')
  <2>1. watcher.failed # {} => watcher.err BY <1>5 DEF FetchAt
  <2>2. ~watcher.ok => watcher.err BY <1>5 DEF FetchAt
  <2>3. CASE m = NoMsg /\ Taken(watcher', u, "missing") BY <1>2, <2>1, <2>2, <2>3 DEF Regrouped, Taken, m
  <2>4. CASE m \in Handled' /\ Taken(watcher', u, "done") BY <1>2, <2>1, <2>2, <2>4 DEF Regrouped, Taken, m
  <2>5. CASE Taken(watcher', u, "failed") /\ watcher'.err BY <1>2, <2>1, <2>2, <2>5 DEF Regrouped, Taken
  <2> QED BY <1>6, <2>3, <2>4, <2>5
<1>8. FetchAt(watcher', box, top, val, Handled')
  <2> Handled \subseteq Handled' BY <1>3 DEF Handled
  <2> QED BY <1>2, <1>5, <1>7, MailRegrouped
<1>9. SoundAt(watcher', box, top, val, Handled) BY <1>5, <1>7, MailSoundSame DEF Regrouped, SamePoll
<1> QED BY <1>2, <1>3, <1>4, <1>8, <1>9 DEF Carried, PassInv, CursorInv

LEMMA MailBreakStep ==
  ASSUME PassInv, FetchBreaks \/ FetchStale
  PROVE  TypeOK' /\ ServerInv' /\ LaterStep /\ Carried
<1> USE DEF server, archive
<1>1. TypeOK BY DEF PassInv
<1>2. watcher \in Watchers /\ watcher # NoWatcher /\ watcher' \in Watchers /\ TypeOK' /\ watcher.pc = "fetch"
  BY <1>1, MailBroken DEF FetchBreaks, FetchStale, Live
<1>3. UNCHANGED <<box, top, val, row, calls, filed, ignored>> BY DEF FetchBreaks, FetchStale
<1>4. ServerInv' /\ LaterStep
  <2> quota' = quota \/ MailSpend("mishaps") BY DEF FetchBreaks, FetchStale
  <2> quota["mishaps"] \in Nat BY <1>1 DEF TypeOK
  <2> quota'["mishaps"] <= quota["mishaps"] BY <1>1, MailSpent
  <2> QED BY <1>2, <1>3, MailSameServer
<1>5. /\ SoundAt(watcher, box, top, val, Handled) /\ FetchAt(watcher, box, top, val, Handled)
  BY <1>2 DEF PassInv, CursorInv
<1>6. Regrouped(watcher, watcher', box, val, Handled)
  <2>1. CASE watcher' = [watcher EXCEPT !.batch = {}, !.ok = FALSE, !.err = TRUE]
    BY <1>2, <2>1 DEF Regrouped, SamePoll, Watchers
  <2>2. CASE watcher' = Rechecked(watcher.missing \cup watcher.batch)
    <3> DEFINE gone == watcher.missing \cup watcher.batch
               present == {u \in gone : box[BoxOf[watcher.src]][u] # NoMsg}
    <3>1. /\ SamePoll(watcher, watcher') /\ watcher'.pc = "fetch" /\ watcher'.ok = watcher.ok
          /\ watcher'.batch = {} /\ watcher'.done = watcher.done /\ watcher'.missing = gone \ present
          /\ watcher'.failed = watcher.failed \cup present
          /\ watcher'.err = (watcher.err \/ present # {})
      <4> watcher' = [watcher EXCEPT !.batch = {}, !.missing = gone \ present,
                                     !.failed = watcher.failed \cup present, !.err = (watcher.err \/ present # {})]
        BY <2>2 DEF Rechecked
      <4> HIDE DEF present, gone
      <4> QED BY <1>2 DEF SamePoll, Watchers
    <3>2. watcher.failed # {} \/ ~watcher.ok => watcher.err BY <1>5 DEF FetchAt
    <3>3. \A u \in gone \ present : box[BoxOf[watcher.src]][u] = NoMsg OBVIOUS
    <3>4. present \subseteq gone /\ gone = watcher.missing \cup watcher.batch OBVIOUS
    <3> HIDE DEF present, gone
    <3>5. ~watcher'.ok \/ watcher'.failed # {} => watcher'.err BY <3>1, <3>2
    <3> QED BY <3>1, <3>3, <3>4, <3>5 DEF Regrouped, SamePoll
  <2> QED BY <2>1, <2>2 DEF FetchBreaks, FetchStale
<1>7. FetchAt(watcher', box, top, val, Handled) BY <1>2, <1>5, <1>6, MailRegrouped
<1>8. SoundAt(watcher', box, top, val, Handled) BY <1>5, <1>6, MailSoundSame DEF Regrouped, SamePoll
<1>9. Handled' = Handled BY <1>3 DEF Handled
<1> QED BY <1>2, <1>3, <1>4, <1>7, <1>8, <1>9 DEF Carried, PassInv, CursorInv

LEMMA MailTidyStep ==
  ASSUME PassInv, Tidy
  PROVE  TypeOK' /\ ServerInv' /\ LaterStep /\ Carried
<1> USE DEF server, archive
<1>1. TypeOK /\ ServerAt(box, top, val) BY DEF PassInv, ServerInv
<1>2. /\ watcher \in Watchers /\ watcher' \in Watchers /\ TypeOK'
      /\ watcher' \in {[watcher EXCEPT !.pc = "mark", !.ok = FALSE, !.err = TRUE], [watcher EXCEPT !.pc = "mark"]}
      /\ top' = top /\ val' = val
      /\ (box' = box \/ \A b \in Boxes, u \in 1..MaxUid : box'[b][u] \in {box[b][u], NoMsg})
  BY <1>1, MailTidied
<1>3. watcher # NoWatcher /\ watcher.pc = "fetch" /\ watcher.batch = {} BY DEF Tidy, Live
<1>4. UNCHANGED <<row, calls, filed, ignored>> BY DEF Tidy
<1>5. ASSUME NEW b \in Boxes
      PROVE  /\ top[b] <= top[b] /\ top[b] \in 0..MaxUid
             /\ val[b] + quota'["mishaps"] <= FirstVal[b] + MailBounds["mishaps"]
  <2> top[b] \in 0..MaxUid /\ val[b] \in 1..MaxVal /\ FirstVal[b] \in 1..MaxVal
    BY <1>1, SourcesAssumption DEF TypeOK
  <2> quota' = quota \/ MailSpend("mishaps") BY DEF Tidy
  <2> quota["mishaps"] \in Nat /\ quota'["mishaps"] \in Nat /\ MailBounds["mishaps"] \in Nat
    BY <1>1, <1>2, NumbersAssumption DEF TypeOK
  <2> quota'["mishaps"] <= quota["mishaps"] BY <1>1, MailSpent
  <2> val[b] + quota["mishaps"] <= FirstVal[b] + MailBounds["mishaps"] BY DEF PassInv, ServerInv
  <2> QED BY NumbersAssumption
<1>6. \A b \in Boxes, u \in 1..MaxUid : box'[b][u] \in {box[b][u], NoMsg} BY <1>2
<1>7. ServerInv'
  <2> ServerAt(box', top', val')
    <3> \A b \in Boxes, u \in 1..MaxUid : box'[b][u] # NoMsg => u <= top'[b] BY <1>1, <1>2, <1>6 DEF ServerAt
    <3> \A b \in Boxes : FirstVal[b] <= val'[b] /\ val'[b] <= FirstVal[b] + MailBounds["mishaps"]
      BY <1>1, <1>2 DEF ServerAt
    <3> QED BY <1>2 DEF ServerAt, TypeOK
  <2> QED BY <1>2, <1>5 DEF ServerInv
<1>8. Handled' = Handled BY <1>4 DEF Handled
<1>9. LaterStep
  <2> ASSUME NEW b \in Boxes, NEW u \in 1..top[b] PROVE box'[b][u] \in {box[b][u], NoMsg}
    <3> u \in 1..MaxUid BY <1>5, NumbersAssumption
    <3> QED BY <1>6
  <2> QED BY <1>2, <1>5, <1>8 DEF LaterStep, LaterThan
<1>10. /\ SoundAt(watcher, box, top, val, Handled) /\ FetchAt(watcher, box, top, val, Handled)
  BY <1>3 DEF PassInv, CursorInv
<1>11. Regrouped(watcher, watcher', box, val, Handled)
  <2>1. CASE watcher' = [watcher EXCEPT !.pc = "mark", !.ok = FALSE, !.err = TRUE]
    BY <1>2, <1>3, <2>1 DEF Regrouped, SamePoll, Watchers
  <2>2. CASE watcher' = [watcher EXCEPT !.pc = "mark"]
    <3> ~watcher.ok \/ watcher.failed # {} => watcher.err BY <1>10 DEF FetchAt
    <3> QED BY <1>2, <1>3, <2>2 DEF Regrouped, SamePoll, Watchers
  <2> QED BY <1>2, <2>1, <2>2
<1>12. FetchAt(watcher', box, top, val, Handled) BY <1>2, <1>10, <1>11, MailRegrouped
<1>13. SoundAt(watcher', box, top, val, Handled) BY <1>10, <1>11, MailSoundSame DEF Regrouped, SamePoll
<1> QED BY <1>2, <1>4, <1>7, <1>8, <1>9, <1>12, <1>13 DEF Carried, PassInv, CursorInv

LEMMA MailMarkStep ==
  ASSUME OwnNumberings, PassInv, Mark
  PROVE  TypeOK' /\ ServerInv' /\ LaterStep /\ Carried
<1> USE DEF server, archive
<1>1. TypeOK /\ ServerAt(box, top, val) BY DEF PassInv, ServerInv
<1>2. watcher \in Watchers /\ watcher # NoWatcher /\ watcher.pc = "mark" BY <1>1 DEF Mark, Live, TypeOK
<1>3. /\ SoundAt(watcher, box, top, val, Handled) /\ FetchAt(watcher, box, top, val, Handled)
  BY <1>2 DEF PassInv, CursorInv
<1> DEFINE next == NextUIDCheckpoint(watcher.last, watcher.done \cup watcher.missing, watcher.failed, watcher.ok)
           b == BoxOf[watcher.src]
<1>4. PICK n : n = next OBVIOUS
<1>5. n \in 0..MaxUid /\ watcher.last <= n
  <2> watcher.last \in 0..MaxUid /\ watcher.done \cup watcher.missing \in SUBSET (1..MaxUid)
      /\ watcher.failed \in SUBSET (1..MaxUid) /\ watcher.ok \in BOOLEAN
    BY <1>2 DEF Watchers
  <2> Checkpoint(n, watcher.last, watcher.done \cup watcher.missing, watcher.failed, watcher.ok)
    BY <1>4, MailCheckpoint
  <2> QED BY DEF Checkpoint
<1>6. /\ watcher.now \in 0..MaxVal /\ watcher.now \in Nat /\ watcher.last \in Nat /\ watcher.uid \in 0..MaxUid
      /\ watcher.val \in 0..MaxVal /\ watcher.err \in BOOLEAN
  BY <1>2, NumbersAssumption DEF Watchers
<1> DEFINE due == n > watcher.last \/ watcher.val # watcher.now
           w2 == [watcher EXCEPT !.uid = n, !.val = watcher.now]
<1>7. ~due => watcher.uid = n /\ watcher.val = watcher.now
  <2> n \in Nat BY <1>5, NumbersAssumption
  <2> watcher.val = watcher.now => watcher.last = watcher.uid BY <1>3 DEF FetchAt
  <2> QED BY <1>5, <1>6
<1>8. \/ /\ row' = row /\ watcher' = Ended
      \/ /\ \/ ~due /\ row' = row
            \/ row # NoRow /\ row' = UpdateUIDCursor(n, watcher.now)
         /\ \/ watcher' = [Ended EXCEPT !.uid = n, !.val = watcher.now]
            \/ ~watcher.err /\ \E w \in {watcher, w2} : w.uid = n /\ w.val = watcher.now /\ watcher' = WithBatch(w, watcher.todo, n)
  <2> HIDE DEF next
  <2>1. CASE row' = row /\ watcher' = Ended BY <2>1
  <2>2. CASE ~due /\ row' = row /\ watcher' = IF watcher.err \/ watcher.todo = {}
                          THEN [Ended EXCEPT !.uid = watcher.uid, !.val = watcher.val]
                          ELSE WithBatch(watcher, watcher.todo, watcher.uid)
    BY <1>7, <2>2
  <2>3. CASE row # NoRow /\ row' = UpdateUIDCursor(n, watcher.now) /\ watcher' = IF watcher.err \/ watcher.todo = {}
                          THEN [Ended EXCEPT !.uid = w2.uid, !.val = w2.val]
                          ELSE WithBatch(w2, watcher.todo, w2.uid)
    <3> w2.uid = n /\ w2.val = watcher.now BY <1>2 DEF Watchers
    <3> HIDE DEF w2
    <3> QED BY <2>3
  <2>4. \/ row' = row /\ watcher' = Ended
        \/ ~due /\ row' = row /\ watcher' = IF watcher.err \/ watcher.todo = {}
                          THEN [Ended EXCEPT !.uid = watcher.uid, !.val = watcher.val]
                          ELSE WithBatch(watcher, watcher.todo, watcher.uid)
        \/ row # NoRow /\ row' = UpdateUIDCursor(n, watcher.now) /\ watcher' = IF watcher.err \/ watcher.todo = {}
                          THEN [Ended EXCEPT !.uid = w2.uid, !.val = w2.val]
                          ELSE WithBatch(w2, watcher.todo, w2.uid)
    BY <1>4 DEF Mark, next
  <2> QED BY <2>1, <2>2, <2>3, <2>4
<1>9. /\ w2 \in Watchers /\ w2.src = watcher.src /\ w2.now = watcher.now
  BY <1>2, <1>5, <1>6 DEF Watchers
<1>10. UNCHANGED <<box, top, val, owner, docs, filed, ignored, calls, mutex, up>> BY DEF Mark
<1> HIDE DEF next, due, w2
<1>11. ASSUME NEW c \in Rows \cup Watchers, c.src = watcher.src, c.uid = n, c.val = watcher.now
       PROVE  SoundAt(c, box, top, val, Handled)
  BY <1>1, <1>2, <1>3, <1>4, <1>11, MailPassing DEF next
<1>12. /\ row' \in Rows \cup {NoRow}
       /\ row' # NoRow => SoundAt(row', box, top, val, Handled)
  <2>1. CASE row' = row BY <1>1, <2>1 DEF TypeOK, PassInv, CursorInv
  <2>2. CASE row # NoRow /\ row' = UpdateUIDCursor(n, watcher.now)
    <3>1. row \in Rows BY <1>1, <2>2 DEF TypeOK
    <3>2. row' \in Rows /\ row'.src = row.src /\ row'.uid = n /\ row'.val = watcher.now
      BY <1>5, <1>6, <2>2, <3>1, MailCursorWritten
    <3>3. b \in Boxes /\ BoxOf[row'.src] \in Boxes /\ row'.src \in Sources /\ watcher.src \in Sources
      BY <1>2, <3>2, MailCursorTypes
    <3>4. Given(watcher.now, b, val) BY <1>3 DEF FetchAt
    <3>5. CASE row'.src = watcher.src BY <1>11, <3>2, <3>5
    <3>6. CASE row'.src # watcher.src
      <4>1. BoxOf[row'.src] # b BY <3>3, <3>6 DEF OwnNumberings
      <4>2. watcher.now # val[BoxOf[row'.src]]
        <5> SUFFICES ASSUME watcher.now = val[BoxOf[row'.src]] PROVE FALSE OBVIOUS
        <5> Given(watcher.now, BoxOf[row'.src], val)
          <6> FirstVal[BoxOf[row'.src]] <= val[BoxOf[row'.src]] BY <1>1, <3>3 DEF ServerAt
          <6> QED BY <1>6 DEF Given
        <5> QED BY <1>1, <1>6, <3>3, <3>4, <4>1, MailOneBox
      <4>3. watcher.now # 0
        <5> FirstVal[b] \in 1..MaxVal BY <3>3, SourcesAssumption
        <5> QED BY <3>4, NumbersAssumption DEF Given
      <4> QED BY <3>2, <3>3, <3>4, <4>2, <4>3 DEF SoundAt
    <3> QED BY <3>2, <3>5, <3>6
  <2> QED BY <1>8, <2>1, <2>2
<1>13. /\ watcher' \in Watchers /\ SoundAt(watcher', box, top, val, Handled)
       /\ watcher'.pc \in {"fetch", "mark"} => FetchAt(watcher', box, top, val, Handled)
  <2>1. CASE watcher' = Ended
    <3> /\ watcher' \in Watchers /\ watcher'.pc = "idle"
        /\ watcher'.src = watcher.src /\ watcher'.uid = watcher.uid /\ watcher'.val = watcher.val
      BY <1>2, <2>1, MailEnded
    <3> QED BY <1>3, MailSoundSame
  <2>2. CASE watcher' = [Ended EXCEPT !.uid = n, !.val = watcher.now]
    <3> Standing(watcher', watcher.src, n, watcher.now) BY <1>2, <1>5, <1>6, <2>2, MailEndedAt
    <3> QED BY <1>11 DEF Standing
  <2>3. ASSUME ~watcher.err, NEW w \in {watcher, w2}, w.uid = n, w.val = watcher.now,
               watcher' = WithBatch(w, watcher.todo, n)
        PROVE  /\ watcher' \in Watchers /\ SoundAt(watcher', box, top, val, Handled)
               /\ FetchAt(watcher', box, top, val, Handled)
    <3>1. w \in Watchers /\ w.src = watcher.src /\ w.now = watcher.now BY <1>2, <1>9, <2>3
    <3>2. watcher' \in Watchers /\ FetchAt(watcher', box, top, val, Handled)
      BY <1>1, <1>2, <1>3, <1>4, <2>3, <3>1, MailNextBatch DEF next
    <3>3. watcher'.src = watcher.src /\ watcher'.uid = n /\ watcher'.val = watcher.now
      <4> watcher.todo \in SUBSET (1..MaxUid) BY <1>2 DEF Watchers
      <4> Batched(watcher', w, watcher.todo, n) BY <1>5, <2>3, <3>1, MailWithBatch
      <4> QED BY <2>3, <3>1 DEF Batched
    <3> QED BY <1>11, <3>2, <3>3
  <2> QED BY <1>8, <2>1, <2>2, <2>3
<1>14. quota' = quota \/ MailSpend("mishaps") BY DEF Mark
<1>15. TypeOK'
  <2> quota' \in [{"mails", "creates", "edits", "mishaps", "lost"} -> Nat]
    BY <1>1, <1>14, NumbersAssumption, MailSpendType DEF TypeOK
  <2> QED BY <1>1, <1>10, <1>12, <1>13 DEF TypeOK
<1>16. ServerInv' /\ LaterStep
  <2> quota["mishaps"] \in Nat BY <1>1 DEF TypeOK
  <2> quota'["mishaps"] <= quota["mishaps"] BY <1>1, <1>14, MailSpent
  <2> QED BY <1>10, <1>15, MailSameServer
<1>17. Handled' = Handled BY <1>10 DEF Handled
<1> QED BY <1>10, <1>12, <1>13, <1>15, <1>16, <1>17 DEF Carried, PassInv, CursorInv

LEMMA MailPassStart == MailInit => PassInv
<1> SUFFICES ASSUME MailInit PROVE PassInv OBVIOUS
<1>1. TypeOK
  <2> 0 \in 0..MaxUid BY NumbersAssumption
  <2> QED BY NumbersAssumption, SourcesAssumption, MarkersAssumption DEF MailInit, TypeOK
<1>2. ServerInv
  <2> ASSUME NEW b \in Boxes
      PROVE /\ FirstVal[b] <= val[b] /\ val[b] <= FirstVal[b] + MailBounds["mishaps"]
            /\ val[b] + quota["mishaps"] <= FirstVal[b] + MailBounds["mishaps"]
    <3> val[b] = FirstVal[b] /\ quota["mishaps"] = MailBounds["mishaps"] BY DEF MailInit
    <3> FirstVal[b] \in 1..MaxVal /\ MailBounds["mishaps"] \in Nat BY SourcesAssumption, NumbersAssumption
    <3> QED BY NumbersAssumption
  <2> \A b \in Boxes, u \in 1..MaxUid : box[b][u] = NoMsg BY DEF MailInit
  <2> QED BY <1>1 DEF ServerInv, ServerAt, TypeOK
<1>3. CursorInv BY DEF MailInit, CursorInv
<1> QED BY <1>1, <1>2, <1>3 DEF PassInv

LEMMA MailPassStep == OwnNumberings /\ PassInv /\ [MailNext]_mailVars => PassInv'
<1> SUFFICES ASSUME OwnNumberings, PassInv, [MailNext]_mailVars PROVE PassInv' OBVIOUS
<1>1. SUFFICES TypeOK' /\ ServerInv' /\ LaterStep /\ Carried BY MailCarried DEF PassInv
<1>2. CASE World
  <2> TypeOK' BY <1>2, MailWorldTypes DEF PassInv
  <2> QED BY <1>2, MailWorldStep
<1>3. ASSUME NEW c \in Callers, AccountRequests(c) \/ Reload(c) \/ ReloadLost(c)
      PROVE  TypeOK' /\ ServerInv' /\ LaterStep /\ Carried
  BY <1>3, MailRequestStep, MailReloadStep
<1>4. CASE Poll \/ FetchBreaks
  BY <1>4, MailConnectStep, MailSearchStep, MailFetchStep, MailBreakStep, MailTidyStep, MailMarkStep DEF Poll
<1>5. CASE Drain \/ Shutdown \/ Crash \/ Boot BY <1>5, MailProcessStep
<1>6. CASE UNCHANGED mailVars
  <2>1. UNCHANGED <<box, top, val, row, owner, docs, filed, ignored, watcher, calls, mutex, up, quota>>
    BY <1>6 DEF mailVars
  <2>2. TypeOK' BY <2>1 DEF PassInv, TypeOK
  <2>3. quota'["mishaps"] <= quota["mishaps"] BY <2>1 DEF PassInv, TypeOK
  <2> QED BY <2>1, <2>2, <2>3, MailWaits, MailSameServer
<1> QED BY <1>2, <1>3, <1>4, <1>5, <1>6 DEF MailNext

LEMMA MailPassedOver == PassInv => NothingPassedOver
<1> SUFFICES ASSUME PassInv PROVE NothingPassedOver OBVIOUS
<1>1. ASSUME NEW c, SoundAt(c, box, top, val, Handled) PROVE Dealt(c)
  BY <1>1 DEF SoundAt, Dealt, Passed, Handled
<1> QED BY <1>1 DEF PassInv, CursorInv, NothingPassedOver

(* emailwatch.go: whatever fails, vanishes, is renumbered, reloaded or     *)
(* lost, the cursor of the row and of the watcher passes only messages     *)
(* that were filed, left out by the policy or skipped as too large.        *)
THEOREM MailNothingPassedOver == OwnNumberings => (MailSpec => []NothingPassedOver)
<1> SUFFICES ASSUME OwnNumberings PROVE MailSpec => []NothingPassedOver OBVIOUS
<1>1. PassInv /\ [MailNext]_mailVars => PassInv' BY MailPassStep
<1> QED BY <1>1, MailPassStart, MailPassedOver, PTL DEF MailSpec

-----------------------------------------------------------------------------
(* The supervisor, with one request at a time.                             *)
SameSettings(a, b) == a.src = b.src /\ a.policy = b.policy /\ a.tidy = b.tidy

ReloadInv ==
  LET call == calls[Booter]
  IN  /\ quota["lost"] <= MailBounds["lost"]
      /\ call.pc # "idle" => up
      /\ (call.pc = "start") <=> (mutex = Booter)
      /\ call.pc \in {"lock", "start"} =>
           (call.seen # NoRow <=> Listed) /\ (call.seen # NoRow => SameSettings(call.seen, row))
      /\ watcher # NoWatcher /\ watcher.cancelled => call.pc = "start" \/ ~up
      /\ call.pc = "start" /\ watcher # NoWatcher /\ ~watcher.cancelled =>
           call.seen # NoRow /\ SameSettings(watcher, call.seen)

MatchInv == TypeOK /\ ReloadInv /\ RunningMatchesRow

(* A poll changes neither the settings of a watcher nor those of the row.  *)
Settled(x) ==
  x \in Watchers /\ SameSettings(x, watcher) /\ x.cancelled = watcher.cancelled

RowSettled ==
  \/ row' = row
  \/ /\ row \in Rows /\ row # NoRow /\ row' \in Rows
     /\ row'.on = row.on /\ SameSettings(row', row)

LEMMA MailSettledFields ==
  ASSUME watcher \in Watchers
  PROVE  /\ Settled(Ended)
         /\ \A pc \in Steps : Settled([watcher EXCEPT !.pc = pc])
         /\ \A n \in 0..MaxUid, v \in 0..MaxVal : Settled([Ended EXCEPT !.uid = n, !.val = v])
         /\ \A n \in 0..MaxUid, v \in 0..MaxVal : Settled([watcher EXCEPT !.uid = n, !.val = v])
<1> USE DEF Settled, SameSettings
<1>1. Ended \in Watchers BY MailEnded
<1>2. Ended.src = watcher.src /\ Ended.policy = watcher.policy /\ Ended.tidy = watcher.tidy
      /\ Ended.cancelled = watcher.cancelled
  BY DEF Ended, Watchers
<1>3. ASSUME NEW pc \in Steps PROVE Settled([watcher EXCEPT !.pc = pc]) BY DEF Watchers
<1>4. ASSUME NEW n \in 0..MaxUid, NEW v \in 0..MaxVal PROVE Settled([Ended EXCEPT !.uid = n, !.val = v])
  BY <1>1, <1>2 DEF Watchers
<1>5. ASSUME NEW n \in 0..MaxUid, NEW v \in 0..MaxVal PROVE Settled([watcher EXCEPT !.uid = n, !.val = v])
  BY DEF Watchers
<1> QED BY <1>1, <1>2, <1>3, <1>4, <1>5

LEMMA MailSettledBatch ==
  ASSUME NEW w, Settled(w), NEW uids \in SUBSET (1..MaxUid), NEW last \in 0..MaxUid
  PROVE  Settled(WithBatch(w, uids, last))
<1> PICK x : x = WithBatch(w, uids, last) OBVIOUS
<1>1. x \in Watchers BY MailWithBatch DEF Batched, Settled
<1>2. x.src = w.src /\ x.policy = w.policy /\ x.tidy = w.tidy /\ x.cancelled = w.cancelled
  <2> PICK f, t : x = [w EXCEPT !.pc = "fetch", !.last = last, !.batch = f, !.todo = t, !.done = {},
                    !.failed = {}, !.missing = {}, !.book = {}, !.ok = TRUE, !.err = FALSE]
    BY DEF WithBatch
  <2> QED BY DEF Settled, Watchers
<1> QED BY <1>1, <1>2 DEF Settled, SameSettings

LEMMA MailSettledRow ==
  ASSUME TypeOK, row # NoRow, NEW n \in 0..MaxUid, NEW v \in 0..MaxVal, row' = UpdateUIDCursor(n, v)
  PROVE  RowSettled
<1> row \in Rows BY DEF TypeOK
<1> QED BY DEF RowSettled, UpdateUIDCursor, Rows, SameSettings

LEMMA MailSettledSearch ==
  ASSUME TypeOK, Search
  PROVE  Settled(watcher') /\ RowSettled
<1>1. watcher \in Watchers /\ watcher # NoWatcher /\ val[BoxOf[watcher.src]] \in 0..MaxVal
  BY MailSearched DEF Search, Live
<1> DEFINE v == val[BoxOf[watcher.src]]
           since == Since
           x == WithBatch(watcher, Found(since), since)
<1>2. since \in 0..MaxUid /\ Found(since) \in SUBSET (1..MaxUid) BY <1>1, MailSince
<1>3. Settled(watcher) BY <1>1 DEF Settled, SameSettings
<1>4. Settled(x)
  <2> HIDE DEF since
  <2> QED BY <1>2, <1>3, MailSettledBatch
<1>5. Settled([x EXCEPT !.now = v])
  <2> HIDE DEF x
  <2> QED BY <1>1, <1>4 DEF Settled, SameSettings, Watchers
<1>6. Settled(Ended) BY <1>1, MailSettledFields
<1> HIDE DEF since
<1>7. Settled([Ended EXCEPT !.uid = since, !.val = v]) BY <1>1, <1>2, MailSettledFields
<1>8. Settled(watcher') BY <1>5, <1>6, <1>7 DEF Search, since
<1>9. RowSettled
  <2>1. row' = row \/ (row # NoRow /\ row' = UpdateUIDCursor(since, v)) BY DEF Search, since
  <2> QED BY <1>1, <1>2, <2>1, MailSettledRow DEF RowSettled
<1> QED BY <1>8, <1>9

LEMMA MailSettledMark ==
  ASSUME TypeOK, Mark
  PROVE  Settled(watcher') /\ RowSettled
<1>1. watcher \in Watchers /\ watcher # NoWatcher BY DEF Mark, Live, TypeOK
<1> DEFINE next == NextUIDCheckpoint(watcher.last, watcher.done \cup watcher.missing, watcher.failed, watcher.ok)
<1>2. PICK n : n = next OBVIOUS
<1>3. n \in 0..MaxUid
  <2> watcher.last \in 0..MaxUid /\ watcher.done \cup watcher.missing \in SUBSET (1..MaxUid)
      /\ watcher.failed \in SUBSET (1..MaxUid) /\ watcher.ok \in BOOLEAN
    BY <1>1 DEF Watchers
  <2> Checkpoint(n, watcher.last, watcher.done \cup watcher.missing, watcher.failed, watcher.ok)
    BY <1>2, MailCheckpoint
  <2> QED BY DEF Checkpoint
<1>4. /\ watcher.now \in 0..MaxVal /\ watcher.uid \in 0..MaxUid /\ watcher.val \in 0..MaxVal
      /\ watcher.todo \in SUBSET (1..MaxUid)
  BY <1>1 DEF Watchers
<1> DEFINE w2 == [watcher EXCEPT !.uid = n, !.val = watcher.now]
<1>5. Settled(watcher) /\ Settled(w2) BY <1>1, <1>3, <1>4, MailSettledFields DEF Settled, SameSettings
<1>6. \/ watcher' = Ended
      \/ \E w \in {watcher, w2} : \/ watcher' = [Ended EXCEPT !.uid = w.uid, !.val = w.val]
                                  \/ watcher' = WithBatch(w, watcher.todo, w.uid)
  BY <1>2 DEF Mark
<1>7. row' = row \/ (row # NoRow /\ row' = UpdateUIDCursor(n, watcher.now)) BY <1>2 DEF Mark
<1> HIDE DEF next, w2
<1>8. \A w \in {watcher, w2} : Settled(w) /\ w.uid \in 0..MaxUid /\ w.val \in 0..MaxVal
  BY <1>5 DEF Settled, Watchers
<1>9. Settled(watcher')
  <2>1. CASE watcher' = Ended BY <1>1, <2>1, MailSettledFields
  <2>2. ASSUME NEW w \in {watcher, w2}, watcher' = [Ended EXCEPT !.uid = w.uid, !.val = w.val] PROVE Settled(watcher')
    <3>1. w.uid \in 0..MaxUid /\ w.val \in 0..MaxVal BY <1>8, <2>2
    <3>2. Settled([Ended EXCEPT !.uid = w.uid, !.val = w.val]) BY <1>1, <3>1, MailSettledFields
    <3> QED BY <2>2, <3>2
  <2>3. ASSUME NEW w \in {watcher, w2}, watcher' = WithBatch(w, watcher.todo, w.uid) PROVE Settled(watcher')
    BY <1>4, <1>8, <2>3, MailSettledBatch
  <2> QED BY <1>6, <2>1, <2>2, <2>3
<1>10. RowSettled BY <1>3, <1>4, <1>7, MailSettledRow DEF RowSettled
<1> QED BY <1>9, <1>10

LEMMA MailSettled ==
  ASSUME TypeOK, Poll \/ FetchBreaks
  PROVE  /\ watcher # NoWatcher /\ ~watcher.cancelled /\ Settled(watcher') /\ RowSettled /\ TypeOK'
         /\ UNCHANGED <<owner, calls, mutex, up>> /\ quota'["lost"] = quota["lost"]
<1> USE DEF server, archive
<1>1. /\ watcher # NoWatcher /\ watcher \in Watchers /\ ~watcher.cancelled
      /\ UNCHANGED <<owner, calls, mutex, up>>
  BY DEF Poll, Connect, Rotate, Search, FetchOne, FetchStale, Tidy, Mark, FetchBreaks, Live, TypeOK
<1>2. quota' = quota \/ MailSpend("mishaps")
  BY DEF Poll, Connect, Rotate, Search, FetchOne, FetchStale, Tidy, Mark, FetchBreaks
<1>3. quota'["lost"] = quota["lost"] BY <1>2 DEF MailSpend, TypeOK
<1>4. Settled(watcher) BY <1>1 DEF Settled, SameSettings
<1>5. CASE Connect
  <2> TypeOK' BY <1>5, MailConnectTypes
  <2> \/ watcher' = Ended \/ \E pc \in Steps : watcher' = [watcher EXCEPT !.pc = pc]
    BY <1>5 DEF Connect, CycleFailed, Steps
  <2> QED BY <1>1, <1>3, <1>5, MailSettledFields DEF Connect, RowSettled
<1>6. CASE Rotate
  <2>1. TypeOK' BY <1>6, MailConnectTypes
  <2>2. Settled(watcher') BY <1>1, <1>6, MailSettledFields DEF Rotate, Steps
  <2>3. RowSettled
    <3>1. row' = row \/ (row # NoRow /\ row' = [row EXCEPT !.secret = NewSecret]) BY <1>6 DEF Rotate
    <3>2. row # NoRow => row \in Rows /\ NewSecret \in Nat BY MailNewSecret DEF TypeOK
    <3> QED BY <3>1, <3>2 DEF RowSettled, Rows, SameSettings
  <2> QED BY <1>1, <1>3, <2>1, <2>2, <2>3
<1>7. CASE Search
  <2> Settled(watcher') /\ RowSettled BY <1>7, MailSettledSearch
  <2> row' \in Rows \cup {NoRow} BY DEF RowSettled, TypeOK
  <2> watcher' \in Watchers BY DEF Settled
  <2> TypeOK' BY <1>7 DEF Search, TypeOK
  <2> QED BY <1>1, <1>3
<1>8. CASE FetchOne
  <2>1. watcher' \in Watchers /\ TypeOK' BY <1>8, MailFetched
  <2>2. \E u \in {Min(watcher.batch)}, set \in {"done", "failed", "missing"} :
          \/ watcher' = Took(u, set) \/ watcher' = [Took(u, set) EXCEPT !.err = TRUE]
          \/ watcher' = [Took(u, set) EXCEPT !.book = @ \cup {u}]
    BY <1>8 DEF FetchOne
  <2>3. SameSettings(watcher', watcher) /\ watcher'.cancelled = watcher.cancelled
    BY <1>1, <2>2 DEF Took, SameSettings, Watchers
  <2> QED BY <1>1, <1>3, <1>8, <2>1, <2>3 DEF Settled, RowSettled, FetchOne
<1>9. CASE FetchStale \/ FetchBreaks
  <2>1. watcher' \in Watchers /\ TypeOK' BY <1>9, MailBroken
  <2>2. \E f, m, e :
          \/ watcher' = [watcher EXCEPT !.batch = {}, !.ok = FALSE, !.err = TRUE]
          \/ watcher' = [watcher EXCEPT !.batch = {}, !.missing = m, !.failed = f, !.err = e]
    <3>1. CASE watcher' = [watcher EXCEPT !.batch = {}, !.ok = FALSE, !.err = TRUE] BY <3>1
    <3>2. CASE watcher' = Rechecked(watcher.missing \cup watcher.batch) BY <3>2 DEF Rechecked
    <3> QED BY <1>9, <3>1, <3>2 DEF FetchStale, FetchBreaks
  <2>3. SameSettings(watcher', watcher) /\ watcher'.cancelled = watcher.cancelled
    BY <1>1, <2>2 DEF SameSettings, Watchers
  <2>4. row' = row BY <1>9 DEF FetchStale, FetchBreaks
  <2> QED BY <1>1, <1>3, <2>1, <2>3, <2>4 DEF Settled, RowSettled
<1>10. CASE Tidy
  <2>1. /\ watcher' \in Watchers /\ TypeOK'
        /\ watcher' \in {[watcher EXCEPT !.pc = "mark", !.ok = FALSE, !.err = TRUE], [watcher EXCEPT !.pc = "mark"]}
    BY <1>10, MailTidied
  <2>2. SameSettings(watcher', watcher) /\ watcher'.cancelled = watcher.cancelled
    BY <1>1, <2>1 DEF SameSettings, Watchers
  <2> QED BY <1>1, <1>3, <1>10, <2>1, <2>2 DEF Settled, RowSettled, Tidy
<1>11. CASE Mark
  <2> Settled(watcher') /\ RowSettled BY <1>11, MailSettledMark
  <2> row' \in Rows \cup {NoRow} BY DEF RowSettled, TypeOK
  <2> watcher' \in Watchers BY DEF Settled
  <2> quota' \in [{"mails", "creates", "edits", "mishaps", "lost"} -> Nat]
    BY <1>2, NumbersAssumption, MailSpendType DEF TypeOK
  <2> TypeOK' BY <1>11 DEF Mark, TypeOK
  <2> QED BY <1>1, <1>3
<1> QED BY <1>5, <1>6, <1>7, <1>8, <1>9, <1>10, <1>11 DEF Poll

LEMMA MailListedKept ==
  ASSUME RowSettled, owner' = owner, NoRow \notin Rows
  PROVE  (Listed' <=> Listed) /\ (row # NoRow => row' # NoRow /\ SameSettings(row', row))
BY DEF RowSettled, Listed, SameSettings

LEMMA MailMatchPoll ==
  ASSUME MatchInv, Poll \/ FetchBreaks
  PROVE  MatchInv'
<1>1. TypeOK BY DEF MatchInv
<1>2. /\ watcher # NoWatcher /\ ~watcher.cancelled /\ Settled(watcher') /\ RowSettled /\ TypeOK'
      /\ UNCHANGED <<owner, calls, mutex, up>> /\ quota'["lost"] = quota["lost"]
  BY <1>1, MailSettled
<1>3. watcher' # NoWatcher /\ SameSettings(watcher', watcher) /\ ~watcher'.cancelled
  BY <1>2, MarkersAssumption DEF Settled
<1>4. (Listed' <=> Listed) /\ (row # NoRow => row' # NoRow /\ SameSettings(row', row))
  BY <1>2, MarkersAssumption, MailListedKept
<1>5. ReloadInv'
  <2>1. calls[Booter].seen # NoRow /\ calls[Booter].pc \in {"lock", "start"} => row # NoRow
    BY DEF MatchInv, ReloadInv, Listed
  <2> QED BY <1>2, <1>3, <1>4, <2>1 DEF MatchInv, ReloadInv, SameSettings
<1>6. RunningMatchesRow'
  BY <1>2, <1>3, <1>4 DEF MatchInv, RunningMatchesRow, Quiet, NoReloadLost, Listed, SameSettings
<1> QED BY <1>2, <1>5, <1>6 DEF MatchInv

LEMMA MailMatchRequest ==
  ASSUME MatchInv, Callers = {Booter}, AccountRequests(Booter)
  PROVE  MatchInv'
<1>1. TypeOK BY DEF MatchInv
<1>2. TypeOK' BY <1>1, MailRequestTypes
<1>3. /\ Reloading(Booter) /\ UNCHANGED <<watcher, mutex, up>>
      /\ \E what \in {"creates", "edits"} : MailSpend(what)
  BY <1>1, MailRequests
<1>4. quota'["lost"] = quota["lost"] BY <1>1, <1>3 DEF MailSpend, TypeOK
<1>5. calls[Booter].pc = "idle" /\ up /\ calls'[Booter].pc = "list" BY <1>1, <1>3 DEF Reloading, TypeOK
<1>6. ReloadInv' BY <1>3, <1>4, <1>5 DEF MatchInv, ReloadInv
<1>7. RunningMatchesRow' BY <1>5 DEF RunningMatchesRow, Quiet
<1> QED BY <1>2, <1>6, <1>7 DEF MatchInv

LEMMA MailMatchReload ==
  ASSUME MatchInv, Callers = {Booter}, Reload(Booter) \/ ReloadLost(Booter)
  PROVE  MatchInv'
<1> USE DEF server, archive
<1>1. TypeOK /\ TypeOK' BY MailReloadTypes DEF MatchInv
<1> DEFINE call == calls[Booter]
<1>2. UNCHANGED <<row, owner, up>> BY DEF Reload, ReloadList, ReloadLock, ReloadStart, ReloadLost
<1>3. Listed' = Listed BY <1>2 DEF Listed
<1>4. Free # Booter BY MarkersAssumption
<1>5. CASE ReloadList(Booter)
  <2>1. calls'[Booter] = [pc |-> "lock", seen |-> IF Listed THEN row ELSE NoRow] /\ call.pc = "list"
        /\ UNCHANGED <<watcher, mutex, quota>>
    BY <1>1, <1>5 DEF ReloadList, TypeOK
  <2>2. calls'[Booter].pc = "lock" /\ (calls'[Booter].seen # NoRow <=> Listed) /\ (Listed => calls'[Booter].seen = row)
    BY <2>1 DEF Listed
  <2>3. ReloadInv' BY <1>2, <1>3, <2>1, <2>2 DEF MatchInv, ReloadInv, SameSettings
  <2>4. RunningMatchesRow' BY <2>2 DEF RunningMatchesRow, Quiet
  <2> QED BY <1>1, <2>3, <2>4 DEF MatchInv
<1>6. CASE ReloadLock(Booter)
  <2>1. /\ call.pc = "lock" /\ calls'[Booter].pc = "start" /\ calls'[Booter].seen = call.seen /\ mutex' = Booter
        /\ UNCHANGED quota
    BY <1>1, <1>6 DEF ReloadLock, TypeOK
  <2>2. watcher' = IF Outdated(call.seen) THEN [watcher EXCEPT !.cancelled = TRUE] ELSE watcher
    BY <1>6 DEF ReloadLock
  <2>3. watcher' # NoWatcher /\ ~watcher'.cancelled => call.seen # NoRow /\ SameSettings(watcher', call.seen)
    <3>1. CASE Outdated(call.seen)
      <4> watcher \in Watchers BY <1>1, <3>1 DEF Outdated, TypeOK
      <4> watcher'.cancelled BY <2>2, <3>1 DEF Watchers
      <4> QED OBVIOUS
    <3>2. CASE ~Outdated(call.seen)
      <4> watcher' = watcher BY <2>2, <3>2
      <4> watcher # NoWatcher => call.seen # NoRow /\ Conf(call.seen) = Conf(watcher) BY <3>2 DEF Outdated
      <4> QED BY DEF Conf, SameSettings
    <3> QED BY <3>1, <3>2
  <2>4. ReloadInv' BY <1>2, <1>3, <2>1, <2>3 DEF MatchInv, ReloadInv
  <2>5. RunningMatchesRow' BY <2>1 DEF RunningMatchesRow, Quiet
  <2> QED BY <1>1, <2>4, <2>5 DEF MatchInv
<1>7. CASE ReloadStart(Booter)
  <2>1. /\ call.pc = "start" /\ calls'[Booter].pc = "idle" /\ calls'[Booter].seen = NoRow /\ mutex' = Free
        /\ UNCHANGED quota /\ (watcher # NoWatcher => ~watcher.cancelled)
    BY <1>1, <1>7 DEF ReloadStart, TypeOK
  <2>2. watcher' = IF watcher = NoWatcher /\ call.seen # NoRow /\ owner THEN Started(call.seen) ELSE watcher
    BY <1>7 DEF ReloadStart
  <2>3. (call.seen # NoRow <=> Listed) /\ (call.seen # NoRow => SameSettings(call.seen, row))
    BY <2>1 DEF MatchInv, ReloadInv
  <2>4. /\ watcher' # NoWatcher => ~watcher'.cancelled /\ Listed /\ SameSettings(watcher', row)
        /\ Listed => watcher' # NoWatcher
    <3>1. CASE watcher = NoWatcher /\ call.seen # NoRow /\ owner
      <4>1. call.seen \in Rows /\ watcher' = Started(call.seen) BY <1>1, <2>2, <3>1 DEF TypeOK
      <4>2. watcher' # NoWatcher BY <4>1, MailStarted, MarkersAssumption
      <4>3. ~watcher'.cancelled /\ SameSettings(watcher', call.seen) BY <4>1 DEF Started, SameSettings
      <4> QED BY <2>3, <3>1, <4>2, <4>3 DEF SameSettings
    <3>2. CASE ~(watcher = NoWatcher /\ call.seen # NoRow /\ owner)
      <4>1. watcher' = watcher BY <2>2, <3>2
      <4>2. watcher # NoWatcher => call.seen # NoRow /\ SameSettings(watcher, call.seen)
        BY <2>1 DEF MatchInv, ReloadInv
      <4>3. Listed => owner BY DEF Listed
      <4> QED BY <2>1, <2>3, <3>2, <4>1, <4>2, <4>3 DEF SameSettings
    <3> QED BY <3>1, <3>2
  <2>5. ReloadInv' BY <1>2, <1>3, <1>4, <2>1, <2>4 DEF MatchInv, ReloadInv
  <2>6. RunningMatchesRow' BY <1>2, <1>3, <2>4 DEF RunningMatchesRow, SameSettings
  <2> QED BY <1>1, <2>5, <2>6 DEF MatchInv
<1>8. CASE ReloadLost(Booter)
  <2>1. /\ call.pc = "list" /\ calls'[Booter].pc = "idle" /\ UNCHANGED <<watcher, mutex>>
        /\ quota'["lost"] = quota["lost"] - 1 /\ quota["lost"] \in Nat /\ MailBounds["lost"] \in Nat
    BY <1>1, <1>8, NumbersAssumption DEF ReloadLost, TypeOK
  <2>2. quota["lost"] <= MailBounds["lost"] BY DEF MatchInv, ReloadInv
  <2>3. ReloadInv' BY <1>2, <2>1, <2>2 DEF MatchInv, ReloadInv
  <2>4. RunningMatchesRow' BY <2>1, <2>2 DEF RunningMatchesRow, NoReloadLost
  <2> QED BY <1>1, <2>3, <2>4 DEF MatchInv
<1> QED BY <1>5, <1>6, <1>7, <1>8 DEF Reload

LEMMA MailMatchProcess ==
  ASSUME MatchInv, Callers = {Booter}, Drain \/ Shutdown \/ Crash \/ Boot
  PROVE  MatchInv'
<1> USE DEF server, archive
<1>1. TypeOK /\ TypeOK' BY MailProcessTypes DEF MatchInv
<1>2. UNCHANGED <<row, owner>> BY DEF Drain, Shutdown, Crash, Boot
<1>3. Listed' = Listed BY <1>2 DEF Listed
<1>4. quota'["lost"] = quota["lost"]
  <2> quota' = quota \/ MailSpend("mishaps") BY DEF Drain, Shutdown, Crash, Boot
  <2> QED BY <1>1 DEF MailSpend, TypeOK
<1>5. Free # Booter BY MarkersAssumption
<1>6. CASE Drain
  <2>1. watcher # NoWatcher /\ watcher.cancelled /\ watcher' = NoWatcher /\ UNCHANGED <<calls, mutex, up>>
    BY <1>6 DEF Drain
  <2>2. calls[Booter].pc = "start" \/ ~up BY <2>1 DEF MatchInv, ReloadInv
  <2>3. ReloadInv' BY <1>2, <1>3, <1>4, <2>1 DEF MatchInv, ReloadInv
  <2>4. RunningMatchesRow' BY <2>1, <2>2 DEF RunningMatchesRow, Quiet
  <2> QED BY <1>1, <2>3, <2>4 DEF MatchInv
<1>7. CASE Shutdown \/ Crash
  <2>1. up' = FALSE /\ calls'[Booter].pc = "idle" /\ mutex' = Free BY <1>7 DEF Shutdown, Crash
  <2>2. ReloadInv' BY <1>4, <1>5, <2>1 DEF MatchInv, ReloadInv
  <2>3. RunningMatchesRow' BY <2>1 DEF RunningMatchesRow, Quiet
  <2> QED BY <1>1, <2>2, <2>3 DEF MatchInv
<1>8. CASE Boot
  <2>1. ~up /\ watcher = NoWatcher /\ up' /\ calls'[Booter].pc = "list" /\ UNCHANGED <<watcher, mutex>>
    BY <1>1, <1>8 DEF Boot, TypeOK
  <2>2. calls[Booter].pc = "idle" BY <2>1 DEF MatchInv, ReloadInv
  <2>3. ReloadInv' BY <1>4, <2>1, <2>2 DEF MatchInv, ReloadInv
  <2>4. RunningMatchesRow' BY <2>1 DEF RunningMatchesRow, Quiet
  <2> QED BY <1>1, <2>3, <2>4 DEF MatchInv
<1> QED BY <1>6, <1>7, <1>8

LEMMA MailMatchWorld ==
  ASSUME MatchInv, World
  PROVE  MatchInv'
<1>1. TypeOK /\ TypeOK' BY MailWorldTypes DEF MatchInv
<1>2. UNCHANGED <<row, owner, watcher, calls, mutex, up>>
      /\ \E what \in {"mails", "mishaps"} : MailSpend(what)
  BY DEF World, Deliver, Expunge, Renumber, TouchDocument, server, archive, process
<1>3. quota'["lost"] = quota["lost"] BY <1>1, <1>2 DEF MailSpend, TypeOK
<1>4. Listed' = Listed BY <1>2 DEF Listed
<1>5. ReloadInv' BY <1>2, <1>3, <1>4 DEF MatchInv, ReloadInv
<1>6. RunningMatchesRow' BY <1>2, <1>3, <1>4 DEF MatchInv, RunningMatchesRow, Quiet, NoReloadLost
<1> QED BY <1>1, <1>5, <1>6 DEF MatchInv

LEMMA MailMatchStart == MailInit => MatchInv
<1> SUFFICES ASSUME MailInit PROVE MatchInv OBVIOUS
<1>1. TypeOK BY MailPassStart DEF PassInv
<1>2. calls[Booter].pc = "list" /\ up /\ mutex = Free /\ watcher = NoWatcher /\ quota = MailBounds
  BY MarkersAssumption DEF MailInit
<1>3. MailBounds["lost"] \in Nat /\ Free # Booter BY NumbersAssumption, MarkersAssumption
<1>4. ReloadInv BY <1>2, <1>3 DEF ReloadInv
<1>5. RunningMatchesRow BY <1>2, MarkersAssumption DEF RunningMatchesRow, Quiet
<1> QED BY <1>1, <1>4, <1>5 DEF MatchInv

LEMMA MailMatchStep == Callers = {Booter} /\ MatchInv /\ [MailNext]_mailVars => MatchInv'
<1> SUFFICES ASSUME Callers = {Booter}, MatchInv, [MailNext]_mailVars PROVE MatchInv' OBVIOUS
<1>1. CASE World BY <1>1, MailMatchWorld
<1>2. CASE \E c \in Callers : AccountRequests(c) \/ Reload(c) \/ ReloadLost(c)
  <2> AccountRequests(Booter) \/ Reload(Booter) \/ ReloadLost(Booter) BY <1>2
  <2> QED BY MailMatchRequest, MailMatchReload
<1>3. CASE Poll \/ FetchBreaks BY <1>3, MailMatchPoll
<1>4. CASE Drain \/ Shutdown \/ Crash \/ Boot BY <1>4, MailMatchProcess
<1>5. CASE UNCHANGED mailVars
  <2> UNCHANGED <<box, top, val, row, owner, docs, filed, ignored, watcher, calls, mutex, up, quota>>
    BY <1>5 DEF mailVars
  <2>1. TypeOK' BY DEF MatchInv, TypeOK
  <2>2. Listed' = Listed BY DEF Listed
  <2>3. ReloadInv' BY <2>2 DEF MatchInv, ReloadInv
  <2>4. RunningMatchesRow' BY <2>2 DEF MatchInv, RunningMatchesRow, Quiet, NoReloadLost
  <2> QED BY <2>1, <2>3, <2>4 DEF MatchInv
<1> QED BY <1>1, <1>2, <1>3, <1>4, <1>5 DEF MailNext

(* supervisor.go: when requests come one at a time and no reload is lost,  *)
(* a watcher runs exactly for an enabled row of a usable owner, with the   *)
(* settings of the row, whatever the polls and the crashes in between.     *)
THEOREM MailRunningMatchesRow == Callers = {Booter} => (MailSpec => []RunningMatchesRow)
<1> SUFFICES ASSUME Callers = {Booter} PROVE MailSpec => []RunningMatchesRow OBVIOUS
<1>1. MatchInv /\ [MailNext]_mailVars => MatchInv' BY MailMatchStep
<1>2. MatchInv => RunningMatchesRow BY DEF MatchInv
<1> QED BY <1>1, <1>2, MailMatchStart, PTL DEF MailSpec
=============================================================================
