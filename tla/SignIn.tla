------------------------------- MODULE SignIn -------------------------------
(***************************************************************************)
(* Accounts and the ways into them: password sign-in with a second factor  *)
(* (plugins/local-auth), sign-in at an identity provider (plugins/oidc),   *)
(* API tokens, mobile pairing, membership of an archive, and the           *)
(* administration of accounts (core/api).                                  *)
(*                                                                         *)
(* A request is authenticated, and a code matched, against rows read       *)
(* outside the transaction that acts on them.  Everything between the two  *)
(* steps may change: the session, the factor, the membership, the code.    *)
(*                                                                         *)
(* Every secret (TOTP seed, recovery code, session, pairing code) is a     *)
(* fresh number.  A TOTP code is a seed and a time step.                   *)
(***************************************************************************)
EXTENDS Naturals, FiniteSets

CONSTANTS
  Users, FirstUser,    \* accounts; FirstUser answers the setup page
  AdminIdentity,       \* the account whose email is OIDC_ADMIN_EMAIL
  Systems,             \* archives
  Clients,             \* requests in flight at one time
  FreeAttempts,        \* factorFreeAttempts
  LockoutLimit,        \* factorLockoutLimit
  MaxClock, MaxSecret, \* bounds of the clock and of the fresh numbers
  Bounds               \* how often each kind of request may begin

ASSUME SignInAssumption ==
  /\ FirstUser \in Users /\ AdminIdentity \in Users
  /\ FreeAttempts \in Nat /\ LockoutLimit \in Nat
  /\ MaxClock \in Nat /\ MaxSecret \in Nat
  /\ \A b \in DOMAIN Bounds : Bounds[b] \in Nat

VARIABLES
  acct,     \* [Users -> [role, on, pass, bound]], role "none" without a row
  factor,   \* [Users -> [seed, step, fails, until]], seed 0 without a factor
  codes,    \* [Users -> set of recovery codes]
  member,   \* SUBSET (Users \X Systems)
  spell,    \* [Users \X Systems -> Nat], memberships that have ended
  sessions, \* set of [id, user, via, proof]
  tokens,   \* set of [user, sys, spell] that are not revoked
  pairings, \* set of [code, user, sys, via, proof, spell]
  enrols,   \* set of sealed enrolment tokens [user, sess, seed]
  setup,    \* the first-boot token: "none", "live" or "old"
  clock,    \* time in TOTP periods
  reqs,     \* [Clients -> request], Idle when the client has none
  fresh,    \* the next unused secret
  spent,    \* one-time secrets that were honoured
  reused,   \* one-time secrets that were honoured twice
  left      \* what remains of Bounds

vars == <<acct, factor, codes, member, spell, sessions, tokens, pairings, enrols,
          setup, clock, reqs, fresh, spent, reused, left>>
access == <<member, spell, tokens>>
factors == <<factor, codes>>
honours == <<spent, reused>>

NoCode == [kind |-> "none", n |-> 0, step |-> 0]
Wrong == [kind |-> "totp", n |-> 0, step |-> 0]
NoSession == [id |-> 0, user |-> FirstUser, via |-> "local", proof |-> 0]
Idle == [kind |-> "idle", pc |-> "idle", user |-> FirstUser, sess |-> NoSession, use |-> NoCode]
NoFactor == [seed |-> 0, step |-> 0, fails |-> 0, until |-> 0]

Init ==
  /\ acct = [u \in Users |-> [role |-> "none", on |-> TRUE, pass |-> FALSE, bound |-> FALSE]]
  /\ factor = [u \in Users |-> NoFactor]
  /\ codes = [u \in Users |-> {}]
  /\ member = {}
  /\ spell = [p \in Users \X Systems |-> 0]
  /\ sessions = {} /\ tokens = {} /\ pairings = {} /\ enrols = {}
  /\ setup = "live"
  /\ clock = 1
  /\ reqs = [c \in Clients |-> Idle]
  /\ fresh = 1
  /\ spent = {} /\ reused = {}
  /\ left = Bounds

(* Bounds["all"] bounds the requests of all kinds together.                *)
Spend(what) ==
  /\ left[what] > 0 /\ left["all"] > 0
  /\ left' = [left EXCEPT ![what] = @ - 1, !["all"] = @ - 1]

Fresh(n) == fresh + n <= MaxSecret + 1 /\ fresh' = fresh + n

Honour(c) == spent' = spent \cup {c} /\ reused' = reused \cup (spent \cap {c})

(* systems.CanEnter: an enabled administrator, or an enabled member.       *)
CanEnter(u, s) ==
  acct[u].on /\ (acct[u].role = "admin" \/ <<u, s>> \in member)

ActiveAdmins(a) == {u \in Users : a[u].role = "admin" /\ a[u].on}

(* authCookie: a session row whose account is enabled.                     *)
Authentic(s) == s \in sessions /\ acct[s.user].on

(* PreparedSession.Rotate: the new session stands in for all of them.      *)
Rotated(u, s) == {t \in sessions : t.user # u} \cup {s}

-----------------------------------------------------------------------------
(* The second factor.                                                      *)

(* factorBlockFor, in TOTP periods of 30 seconds, up to an hour.           *)
FactorBlockFor(fails) ==
  IF fails < FreeAttempts THEN 0
  ELSE LET doubled == 2 ^ (fails - FreeAttempts) IN IF doubled > 120 THEN 120 ELSE doubled

(* matchTOTP: the period before, this one or the next, never one again.    *)
MatchTOTP(seed, last, code) ==
  /\ code.kind = "totp" /\ code.n = seed
  /\ code.step \in (clock - 1)..(clock + 1)
  /\ code.step > last

(* prepareFactor refuses without counting when there is no code, after too *)
(* many failures and while the account is blocked.                         *)
Refused(u, code) ==
  factor[u].seed # 0 /\ (code = NoCode \/ factor[u].fails >= LockoutLimit
                          \/ clock < factor[u].until)

(* prepareFactor: what the request carries on to its transaction.          *)
PrepareFactor(u, code) ==
  IF factor[u].seed = 0 THEN NoCode
  ELSE IF code.kind = "recovery" \/ MatchTOTP(factor[u].seed, factor[u].step, code)
  THEN code ELSE Wrong

AcceptsUnspent(u, use) ==
  IF use = NoCode THEN factor[u].seed = 0
  ELSE IF use.kind = "recovery" THEN use.n \in codes[u]
  ELSE factor[u].seed = use.n

(* consume, inside the transaction.                                        *)
Accepts(u, use) ==
  IF use = NoCode THEN factor[u].seed = 0
  ELSE IF use.kind = "recovery" THEN use.n \in codes[u]
  ELSE factor[u].seed = use.n /\ factor[u].step < use.step

Consume(u, use) ==
  /\ Accepts(u, use)
  /\ IF use = NoCode THEN UNCHANGED honours ELSE Honour(use)

(* The factor's rows after it was consumed.                                *)
FactorAfter(u, use) ==
  IF use = NoCode THEN factor[u]
  ELSE [factor[u] EXCEPT !.step = IF use.kind = "totp" THEN use.step ELSE @,
                         !.fails = 0, !.until = 0]
CodesAfter(u, use) ==
  IF use.kind = "recovery" THEN codes[u] \ {use.n} ELSE codes[u]

-----------------------------------------------------------------------------
(* Requests begin: password, session and code are checked, nothing is held.*)

Attempts(u) ==
  {NoCode, Wrong} \cup [kind : {"totp"}, n : {factor[u].seed}, step : (clock - 1)..(clock + 1)]
                  \cup [kind : {"recovery"}, n : codes[u], step : {0}]

(* verifyCredentials and prepareFactor.                                    *)
Begin(c, kind, u, s) ==
  /\ reqs[c] = Idle
  /\ acct[u].role # "none" /\ acct[u].on /\ acct[u].pass
  /\ \E code \in Attempts(u) :
       /\ ~Refused(u, code)
       /\ reqs' = [reqs EXCEPT ![c] =
            [kind |-> kind, user |-> u, sess |-> s, use |-> PrepareFactor(u, code),
             pc |-> IF PrepareFactor(u, code) = Wrong THEN "reject" ELSE "commit"]]
  /\ UNCHANGED <<acct, factors, access, sessions, pairings, enrols, setup, clock, fresh, honours>>

(* LoginHandler, LoginFormHandler and TokenHandler.                        *)
BeginSignIn(c) ==
  /\ Spend("signins")
  /\ \E u \in Users, kind \in {"login", "token"} : Begin(c, kind, u, NoSession)

(* Requests that ask a signed-in user for password and code again.         *)
BeginConfirmed(c) ==
  /\ Spend("confirms")
  /\ \E s \in sessions, kind \in {"email", "codes", "disable", "reset"} :
       /\ kind = "reset" => acct[s.user].role = "admin"
       /\ Begin(c, kind, s.user, s)

(* Requests that only need their session.                                  *)
BeginSession(c) ==
  /\ Spend("signins")
  /\ reqs[c] = Idle
  /\ \E s \in sessions, kind \in {"pair", "mint", "sync"} :
       /\ Authentic(s)
       /\ reqs' = [reqs EXCEPT ![c] = [kind |-> kind, pc |-> "commit", user |-> s.user,
                                       sess |-> s, use |-> NoCode]]
  /\ UNCHANGED <<acct, factors, access, sessions, pairings, enrols, setup, clock, fresh, honours>>

Done(c) == reqs' = [reqs EXCEPT ![c] = Idle]

At(c, kind) == reqs[c].kind = kind /\ reqs[c].pc = "commit"

(* A code that another request has spent is a failure like a wrong one.    *)
Refuse(c) ==
  /\ reqs[c].pc = "commit"
  /\ reqs[c].kind \in {"login", "token", "email", "codes", "disable", "reset"}
  /\ ~Accepts(reqs[c].user, reqs[c].use)
  /\ reqs' = [reqs EXCEPT ![c] = IF reqs[c].use = NoCode THEN Idle ELSE [@ EXCEPT !.pc = "reject"]]
  /\ UNCHANGED <<acct, factors, access, sessions, pairings, enrols, setup, clock, fresh, honours, left>>

(* rejectFactor, a transaction of its own.                                 *)
RejectFactor(c) ==
  LET r == reqs[c]  f == factor[r.user]  n == f.fails + 1
  IN  /\ r.pc = "reject"
      /\ factor' = IF f.seed = 0 THEN factor
                   ELSE [factor EXCEPT ![r.user] =
                          [@ EXCEPT !.fails = n,
                                    !.until = IF FactorBlockFor(n) = 0 THEN @
                                              ELSE clock + FactorBlockFor(n)]]
      /\ Done(c)
      /\ UNCHANGED <<acct, codes, access, sessions, pairings, enrols, setup, clock, fresh, honours, left>>

-----------------------------------------------------------------------------
(* Transactions of the requests.                                           *)

NewSession(u, via, proof) == [id |-> fresh, user |-> u, via |-> via, proof |-> proof]

Login(c) ==
  LET r == reqs[c]
  IN  /\ At(c, "login")
      /\ Consume(r.user, r.use)
      /\ Fresh(1)
      /\ factor' = [factor EXCEPT ![r.user] = FactorAfter(r.user, r.use)]
      /\ codes' = [codes EXCEPT ![r.user] = CodesAfter(r.user, r.use)]
      /\ sessions' = sessions \cup {NewSession(r.user, "local", factor[r.user].seed)}
      /\ Done(c)
      /\ UNCHANGED <<acct, access, pairings, enrols, setup, clock, left>>

(* TokenHandler: without access to the archive the code is not spent.      *)
TokenLogin(c) ==
  LET r == reqs[c]
  IN  /\ At(c, "token")
      /\ Accepts(r.user, r.use)
      /\ \E s \in Systems :
           IF CanEnter(r.user, s)
           THEN /\ Consume(r.user, r.use)
                /\ factor' = [factor EXCEPT ![r.user] = FactorAfter(r.user, r.use)]
                /\ codes' = [codes EXCEPT ![r.user] = CodesAfter(r.user, r.use)]
                /\ tokens' = tokens \cup {[user |-> r.user, sys |-> s, spell |-> spell[r.user, s]]}
           ELSE UNCHANGED <<factors, tokens, honours>>
      /\ Done(c)
      /\ UNCHANGED <<acct, member, spell, sessions, pairings, enrols, setup, clock, fresh, left>>

(* PostSelfEmail: VerifySecondFactor commits on its own.                   *)
EmailVerified(c) ==
  LET r == reqs[c]
  IN  /\ At(c, "email")
      /\ Consume(r.user, r.use)
      /\ factor' = [factor EXCEPT ![r.user] = FactorAfter(r.user, r.use)]
      /\ codes' = [codes EXCEPT ![r.user] = CodesAfter(r.user, r.use)]
      /\ reqs' = [reqs EXCEPT ![c].pc = "rotate"]
      /\ UNCHANGED <<acct, access, sessions, pairings, enrols, setup, clock, fresh, left>>

ChangeEmailAnyway(c) ==
  LET r == reqs[c]
  IN  /\ r.pc = "rotate"
      /\ Fresh(1)
      /\ sessions' = Rotated(r.user, NewSession(r.user, r.sess.via, r.sess.proof))
      /\ Done(c)
      /\ UNCHANGED <<acct, factors, access, pairings, enrols, setup, clock, honours, left>>

(* PostSelfEmail's transaction: account and session are looked at again.   *)
ChangeEmail(c) ==
  LET r == reqs[c]
  IN  /\ r.pc = "rotate"
      /\ IF Authentic(r.sess)
         THEN /\ Fresh(1)
              /\ sessions' = Rotated(r.user, NewSession(r.user, r.sess.via, r.sess.proof))
         ELSE UNCHANGED <<sessions, fresh>>
      /\ Done(c)
      /\ UNCHANGED <<acct, factors, access, pairings, enrols, setup, clock, honours, left>>

(* changeTwoFactor: new recovery codes, or no factor any more.             *)
ChangeTwoFactor(c) ==
  LET r == reqs[c]
  IN  /\ At(c, "codes") \/ At(c, "disable")
      /\ Accepts(r.user, r.use)
      /\ IF r.sess \in sessions /\ r.use # NoCode
         THEN /\ Fresh(2)
              /\ Honour(r.use)
              /\ IF r.kind = "codes"
                 THEN /\ factor' = [factor EXCEPT ![r.user] = FactorAfter(r.user, r.use)]
                      /\ codes' = [codes EXCEPT ![r.user] = {fresh + 1}]
                      /\ sessions' = Rotated(r.user, NewSession(r.user, "local", factor[r.user].seed))
                 ELSE /\ factor[r.user].seed # 0
                      /\ factor' = [factor EXCEPT ![r.user] = NoFactor]
                      /\ codes' = [codes EXCEPT ![r.user] = {}]
                      /\ sessions' = Rotated(r.user, NewSession(r.user, "local", 0))
         ELSE UNCHANGED <<factors, sessions, fresh, honours>>
      /\ Done(c)
      /\ UNCHANGED <<acct, access, pairings, enrols, setup, clock, left>>

(* AdminResetTwoFactor of another account.                                 *)
AdminReset(c) ==
  LET r == reqs[c]
  IN  /\ At(c, "reset")
      /\ Accepts(r.user, r.use)
      /\ IF r.sess \in sessions /\ r.user \in ActiveAdmins(acct)
         THEN \E u \in Users \ {r.user} :
                /\ factor[u].seed # 0
                /\ Consume(r.user, r.use)
                /\ factor' = [factor EXCEPT ![r.user] = FactorAfter(r.user, r.use), ![u] = NoFactor]
                /\ codes' = [codes EXCEPT ![r.user] = CodesAfter(r.user, r.use), ![u] = {}]
                /\ sessions' = {t \in sessions : t.user # u}
         ELSE UNCHANGED <<factors, sessions, honours>>
      /\ Done(c)
      /\ UNCHANGED <<acct, access, pairings, enrols, setup, clock, fresh, left>>

(* StartTwoFactorEnrollment: the seed travels in a sealed token that is    *)
(* bound to the session, nothing is stored.                                *)
StartEnrollment(s) ==
  /\ Spend("enrols")
  /\ Fresh(1)
  /\ Authentic(s) /\ acct[s.user].pass
  /\ factor[s.user].seed = 0
  /\ enrols' = enrols \cup {[user |-> s.user, sess |-> s, seed |-> fresh]}
  /\ UNCHANGED <<acct, factors, access, sessions, pairings, setup, clock, reqs, honours>>

(* EnableTwoFactor: every other session and every pairing code ends.       *)
EnableTwoFactor(e) ==
  /\ Fresh(2)
  /\ e.sess \in sessions
  /\ factor[e.user].seed = 0
  /\ \E k \in (clock - 1)..(clock + 1) :
       /\ factor' = [factor EXCEPT ![e.user] = [NoFactor EXCEPT !.seed = e.seed, !.step = k]]
       /\ Honour([kind |-> "totp", n |-> e.seed, step |-> k])
  /\ codes' = [codes EXCEPT ![e.user] = {fresh + 1}]
  /\ sessions' = Rotated(e.user, NewSession(e.user, "local", e.seed))
  /\ pairings' = {p \in pairings : p.user # e.user}
  /\ UNCHANGED <<acct, access, enrols, setup, clock, reqs, left>>

(* The operator's command with the database at hand.                       *)
OfflineReset(u) ==
  /\ Spend("admin")
  /\ acct[u].role # "none"
  /\ factor' = [factor EXCEPT ![u] = NoFactor]
  /\ codes' = [codes EXCEPT ![u] = {}]
  /\ sessions' = {t \in sessions : t.user # u}
  /\ UNCHANGED <<acct, access, pairings, enrols, setup, clock, reqs, fresh, honours>>

-----------------------------------------------------------------------------
(* Pairing and tokens.                                                     *)

(* CreateMobilePairing replaces the pairing the user has.                  *)
CreatePairing(c) ==
  LET r == reqs[c]
  IN  /\ At(c, "pair")
      /\ \E s \in Systems :
           IF r.sess \in sessions /\ CanEnter(r.user, s)
           THEN /\ Fresh(1)
                /\ pairings' = {p \in pairings : p.user # r.user}
                     \cup {[code |-> fresh, user |-> r.user, sys |-> s, via |-> r.sess.via,
                            proof |-> r.sess.proof, spell |-> spell[r.user, s]]}
           ELSE UNCHANGED <<pairings, fresh>>
      /\ Done(c)
      /\ UNCHANGED <<acct, factors, access, sessions, enrols, setup, clock, honours, left>>

(* DeleteMobilePairing, and the five minutes of a pairing.                 *)
DeletePairing(p) ==
  /\ Spend("ends")
  /\ pairings' = pairings \ {p}
  /\ UNCHANGED <<acct, factors, access, sessions, enrols, setup, clock, reqs, fresh, honours>>

(* ExchangeMobilePairing: the row is deleted and the token made together;  *)
(* without access both are rolled back.                                    *)
Exchange(p) ==
  /\ Spend("exchanges")
  /\ CanEnter(p.user, p.sys)
  /\ pairings' = pairings \ {p}
  /\ tokens' = tokens \cup {[user |-> p.user, sys |-> p.sys, spell |-> p.spell]}
  /\ Honour([kind |-> "pairing", n |-> p.code, step |-> 0])
  /\ UNCHANGED <<acct, factors, member, spell, sessions, enrols, setup, clock, reqs, fresh>>

(* CreateToken.                                                            *)
CreateToken(c) ==
  LET r == reqs[c]
  IN  /\ At(c, "mint")
      /\ \E s \in Systems :
           tokens' = IF r.sess \in sessions /\ CanEnter(r.user, s)
                     THEN tokens \cup {[user |-> r.user, sys |-> s, spell |-> spell[r.user, s]]}
                     ELSE tokens
      /\ Done(c)
      /\ UNCHANGED <<acct, factors, member, spell, sessions, pairings, enrols, setup, clock, fresh, honours, left>>

(* DeleteToken by its owner or an administrator.                           *)
DeleteToken(t) ==
  /\ Spend("ends")
  /\ tokens' = tokens \ {t}
  /\ UNCHANGED <<acct, factors, member, spell, sessions, pairings, enrols, setup, clock, reqs, fresh, honours>>

(* authToken: the account is enabled and still belongs to the archive.     *)
Usable(t) == t \in tokens /\ CanEnter(t.user, t.sys)

(* LogoutHandler called with a token revokes it.                           *)
LogoutToken(t) == Usable(t) /\ DeleteToken(t)

(* LogoutHandler, and a session that ran out.                              *)
Logout(s) ==
  /\ Spend("ends")
  /\ sessions' = sessions \ {s}
  /\ UNCHANGED <<acct, factors, access, pairings, enrols, setup, clock, reqs, fresh, honours>>

-----------------------------------------------------------------------------
(* The identity provider.                                                  *)

Issuing(u, via) ==
  [Idle EXCEPT !.kind = "issue", !.pc = "commit", !.user = u, !.sess = [NoSession EXCEPT !.via = via]]

(* resolveOrProvisionUser: the bound account, or a new one; never another  *)
(* account with the same email.                                            *)
OidcResolve(c, u) ==
  LET first == u = AdminIdentity /\ \A v \in Users : acct[v].role # "admin"
  IN  /\ Spend("signins")
      /\ reqs[c] = Idle
      /\ \/ acct[u].bound /\ acct[u].on /\ UNCHANGED acct
         \/ /\ acct[u].role = "none"
            /\ acct' = [acct EXCEPT ![u] = [role |-> IF first THEN "admin" ELSE "member",
                                            on |-> TRUE, pass |-> FALSE, bound |-> TRUE]]
      /\ reqs' = [reqs EXCEPT ![c] = Issuing(u, "oidc")]
      /\ UNCHANGED <<factors, access, sessions, pairings, enrols, setup, clock, fresh, honours>>

(* IssueSession in a second transaction, which looks at nothing.           *)
IssueSession(c) ==
  /\ At(c, "issue")
  /\ Fresh(1)
  /\ sessions' = sessions \cup {NewSession(reqs[c].user, reqs[c].sess.via, 0)}
  /\ Done(c)
  /\ UNCHANGED <<acct, factors, access, pairings, enrols, setup, clock, honours, left>>

(* synchronizeIdentity: bind the account, or take over the email.          *)
OidcSync(c) ==
  LET r == reqs[c]
  IN  /\ At(c, "sync")
      /\ \/ /\ Authentic(r.sess)
            /\ Fresh(1)
            /\ acct' = [acct EXCEPT ![r.user].bound = TRUE]
            /\ sessions' = Rotated(r.user, NewSession(r.user, r.sess.via, r.sess.proof))
         \/ UNCHANGED <<acct, sessions, fresh>>
      /\ Done(c)
      /\ UNCHANGED <<factors, access, pairings, enrols, setup, clock, honours, left>>

-----------------------------------------------------------------------------
(* Accounts.                                                               *)

(* applySetup, under setupMu: the token makes one administrator.           *)
ApplySetup ==
  /\ setup = "live"
  /\ acct[FirstUser].role = "none"
  /\ acct' = [acct EXCEPT ![FirstUser] = [role |-> "admin", on |-> TRUE, pass |-> TRUE, bound |-> FALSE]]
  /\ setup' = "none"
  /\ UNCHANGED <<factors, access, sessions, pairings, enrols, clock, fresh, honours>>

SetupHandler == ApplySetup /\ UNCHANGED <<reqs, left>>

(* SetupFormHandler goes on to sign the new administrator in.              *)
SetupForm(c) ==
  /\ Spend("signins")
  /\ ApplySetup
  /\ reqs[c] = Idle
  /\ reqs' = [reqs EXCEPT ![c] = Issuing(FirstUser, "setup")]

(* CreateUser by an administrator who still is one.                        *)
CreateUser(u) ==
  /\ Spend("admin")
  /\ ActiveAdmins(acct) # {}
  /\ acct[u].role = "none"
  /\ \E role \in {"admin", "member"} :
       acct' = [acct EXCEPT ![u] = [role |-> role, on |-> TRUE, pass |-> TRUE, bound |-> FALSE]]
  /\ UNCHANGED <<factors, access, sessions, pairings, enrols, setup, clock, reqs, fresh, honours>>

(* PatchUser: role and state; the last active administrator stays.         *)
PatchUser(a, u) ==
  /\ Spend("admin")
  /\ a \in ActiveAdmins(acct)
  /\ acct[u].role # "none"
  /\ \E role \in {"admin", "member"}, on \in BOOLEAN :
       /\ u = a => on
       /\ acct' = [acct EXCEPT ![u].role = role, ![u].on = on]
       /\ acct' # acct /\ ActiveAdmins(acct') # {}
  /\ UNCHANGED <<factors, access, sessions, pairings, enrols, setup, clock, reqs, fresh, honours>>

PutMembersKeepingTokens(a, s) ==
  /\ Spend("members")
  /\ a \in ActiveAdmins(acct)
  /\ \E wanted \in SUBSET {u \in Users : acct[u].role # "none" /\ acct[u].on} :
       LET gone == {u \in Users : <<u, s>> \in member} \ wanted
       IN  /\ member' = {m \in member : m[2] # s} \cup (wanted \X {s})
           /\ member' # member
           /\ spell' = [p \in DOMAIN spell |-> IF p[1] \in gone /\ p[2] = s THEN spell[p] + 1 ELSE spell[p]]
           /\ pairings' = {p \in pairings : ~(p.user \in gone /\ p.sys = s)}
  /\ UNCHANGED <<acct, factors, tokens, sessions, enrols, setup, clock, reqs, fresh, honours>>

(* PutSystemMembers: who is removed loses the tokens and the pairing for   *)
(* this archive.                                                           *)
PutSystemMembers(a, s) ==
  /\ Spend("members")
  /\ a \in ActiveAdmins(acct)
  /\ \E wanted \in SUBSET {u \in Users : acct[u].role # "none" /\ (acct[u].on \/ <<u, s>> \in member)} :
       LET gone == {u \in Users : <<u, s>> \in member} \ wanted
       IN  /\ member' = {m \in member : m[2] # s} \cup (wanted \X {s})
           /\ member' # member
           /\ spell' = [p \in DOMAIN spell |-> IF p[1] \in gone /\ p[2] = s THEN spell[p] + 1 ELSE spell[p]]
           /\ tokens' = {t \in tokens : ~(t.user \in gone /\ t.sys = s)}
           /\ pairings' = {p \in pairings : ~(p.user \in gone /\ p.sys = s)}
  /\ UNCHANGED <<acct, factors, sessions, enrols, setup, clock, reqs, fresh, honours>>

-----------------------------------------------------------------------------
(* Time and restarts.                                                      *)

Tick ==
  /\ clock < MaxClock
  /\ clock' = clock + 1
  /\ setup' \in IF setup = "live" THEN {"live", "old"} ELSE {setup}
  /\ UNCHANGED <<acct, factors, access, sessions, pairings, enrols, reqs, fresh, honours, left>>

(* An old token is replaced when someone uses it, and any at a restart     *)
(* that finds no account (mintSetupToken).                                 *)
RemintSetup ==
  /\ setup = "old"
  /\ setup' = "live"
  /\ UNCHANGED <<acct, factors, access, sessions, pairings, enrols, clock, reqs, fresh, honours, left>>

Restart ==
  /\ Spend("restarts")
  /\ setup' = IF \A u \in Users : acct[u].role = "none" THEN "live" ELSE "none"
  /\ reqs' = [c \in Clients |-> Idle]
  /\ UNCHANGED <<acct, factors, access, sessions, pairings, enrols, clock, fresh, honours>>

Next ==
  \/ \E c \in Clients :
       \/ BeginSignIn(c) \/ BeginConfirmed(c) \/ BeginSession(c)
       \/ Refuse(c) \/ RejectFactor(c)
       \/ Login(c) \/ TokenLogin(c) \/ EmailVerified(c) \/ ChangeEmail(c)
       \/ ChangeTwoFactor(c) \/ AdminReset(c)
       \/ CreatePairing(c) \/ CreateToken(c)
       \/ \E u \in Users : OidcResolve(c, u)
       \/ IssueSession(c) \/ OidcSync(c) \/ SetupForm(c)
  \/ \E s \in sessions : StartEnrollment(s) \/ Logout(s)
  \/ \E e \in enrols : EnableTwoFactor(e)
  \/ \E p \in pairings : Exchange(p) \/ DeletePairing(p)
  \/ \E t \in tokens : DeleteToken(t) \/ LogoutToken(t)
  \/ \E u \in Users : CreateUser(u) \/ OfflineReset(u) \/ \E a \in Users : PatchUser(a, u)
  \/ \E a \in Users, s \in Systems : PutSystemMembers(a, s)
  \/ SetupHandler \/ Tick \/ RemintSetup \/ Restart

Spec == Init /\ [][Next]_vars

-----------------------------------------------------------------------------
(* A TOTP code, a recovery code or a pairing code lets one request in,     *)
(* whichever requests carry it at the same time (consume,                  *)
(* ExchangeMobilePairing, EnableTwoFactor).                                *)
HonouredOnce == reused = {}

(* Once an account has a second factor, every local session and every      *)
(* pairing code that can still let a device in comes from someone who      *)
(* passed that factor: a sign-in, an email change or a pairing that was    *)
(* under way when it was enabled gets nothing (EnableTwoFactor, consume,   *)
(* requireLiveSession).  Sessions of the identity provider and the one of  *)
(* the setup page are issued without looking at the factor.                *)
FactorGuardsEntry ==
  \A u \in Users : factor[u].seed # 0 =>
    \A e \in {s \in sessions : s.user = u} \cup {p \in pairings : p.user = u} :
      e.via # "local" \/ e.proof = factor[u].seed

(* Whoever is removed from an archive and comes back does not find old     *)
(* tokens or pairing codes alive (PutSystemMembers, token insert).         *)
KeysEndWithMembership ==
  \A k \in tokens \cup pairings : k.spell = spell[k.user, k.sys]

=============================================================================
