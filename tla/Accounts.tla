----------------------------- MODULE Accounts ------------------------------
(***************************************************************************)
(* Accounts (apps/api/src/auth.js, roles.js, security.js): the setup of    *)
(* the first administrator, invitations, registration, login with and      *)
(* without a second factor, sessions, passwords, and what operators do to  *)
(* the accounts of others.                                                 *)
(*                                                                         *)
(* A request that awaits something (a password hash, GitHub) between what  *)
(* it reads and what it writes is two actions.  One instance of the API:   *)
(* what it reads is what is stored; older copies are in Releases.          *)
(***************************************************************************)
EXTENDS Naturals, FiniteSets

CONSTANTS
  Users,       \* user names
  Clients,     \* browsers, one session each
  Passwords, GithubIds,
  Codes,       \* recovery codes
  Invites,
  InviteLimit, \* how often each invitation may be used
  LoginLimit,  \* logins per name and window (8 in the code)
  None,
  AllowBootstrap, \* ALLOW_BOOTSTRAP_ADMIN: the bootstrap token works after the setup, too
  MaxChanges   \* what operators and owners do, in all

ASSUME AccountsAssumption ==
  /\ InviteLimit \in [Invites -> Nat \ {0}]
  /\ LoginLimit \in Nat /\ MaxChanges \in Nat /\ AllowBootstrap \in BOOLEAN
  /\ None \notin Users \cup Clients \cup GithubIds \cup Invites \cup Codes \cup {"setup", "open"}
  /\ {"setup", "open"} \cap Invites = {}

Roles == {"superadmin", "community", "developer", "user"}

VARIABLES
  account,   \* of each name; None: not registered
  session,   \* of each client
  invite,    \* invitations that were issued
  ticket,    \* the pending second factor of each client's login
  reset,     \* names with an open password reset
  oauth,     \* names that were sent to GitHub
  attempts,  \* rateLimits["login:..."] of each name
  request,   \* what a client's request holds while it awaits something
  cuts,      \* history: how often all sessions of a name were ended
  changed,   \* history: names whose owner changed the password since
  changes

vars == <<account, session, invite, ticket, reset, oauth, attempts, request, cuts, changed, changes>>
history == <<cuts, changed>>
pending == <<ticket, reset, oauth, attempts>>

Account == [role : Roles, disabled : BOOLEAN, password : Passwords, totp : {"off", "set", "on"},
            recovery : SUBSET Codes, github : GithubIds \cup {None}, from : Invites \cup {"setup", "open"}]
Session == [user : Users, password : Passwords, since : Nat, raced : BOOLEAN]
Invite == [role : Roles \ {"user"}, by : Users \cup {"bootstrap"}, used : Nat, open : BOOLEAN]
Request == [kind : {"register", "setup", "login", "ticket", "complete", "issue", "change", "reset", "github"},
            user : Users, password : Passwords, since : Nat, value : Invites \cup Codes \cup {None}]

ASSUME NothingAssumption ==
  /\ None \notin Account /\ None \notin Session /\ None \notin Invite /\ None \notin Request
  /\ None \notin [user : Users, password : Passwords, since : Nat]

TypeOK ==
  /\ account \in [Users -> Account \cup {None}]
  /\ session \in [Clients -> Session \cup {None}]
  /\ invite \in [Invites -> Invite \cup {None}]
  /\ ticket \in [Clients -> [user : Users, password : Passwords, since : Nat] \cup {None}]
  /\ reset \subseteq Users /\ oauth \subseteq Users
  /\ attempts \in [Users -> Nat]
  /\ request \in [Clients -> Request \cup {None}]
  /\ cuts \in [Users -> Nat] /\ changed \subseteq Users /\ changes \in 0..MaxChanges

Init ==
  /\ account = [u \in Users |-> None] /\ session = [w \in Clients |-> None]
  /\ invite = [i \in Invites |-> None] /\ ticket = [w \in Clients |-> None]
  /\ reset = {} /\ oauth = {} /\ attempts = [u \in Users |-> 0]
  /\ request = [w \in Clients |-> None]
  /\ cuts = [u \in Users |-> 0] /\ changed = {} /\ changes = 0

------------------------------------------------------------------------------
(* Roles.                                                                  *)

Change == changes < MaxChanges /\ changes' = changes + 1

Known(u) == account[u] # None

Allowed == [
  manage  |-> {"superadmin"},
  invite  |-> {"superadmin", "community"}]

\* principal: the session's user, None when there is none or it is disabled.
Principal(w) ==
  IF session[w] = None THEN None
  ELSE IF account[session[w].user].disabled THEN None
  ELSE session[w].user

\* can: a community administrator needs a GitHub account to invite.
Can(w, permission) ==
  LET u == Principal(w) IN
  /\ u # None /\ account[u].role \in Allowed[permission]
  /\ account[u].role = "community" => account[u].github # None

NoUsers == \A u \in Users : ~Known(u)

\* The bootstrap token is a superadmin's as long as there is no user, and later
\* in an emergency.
Bootstrap == NoUsers \/ AllowBootstrap

Manages(w) == Can(w, "manage") \/ Bootstrap

\* canInviteRole
MayInvite(w, role) ==
  LET u == Principal(w) IN
  /\ u # None
  /\ \/ account[u].role = "superadmin" /\ role \in {"community", "developer"}
     \/ Can(w, "invite") /\ role = "developer"

------------------------------------------------------------------------------
(* Setup, invitations and registration.                                    *)

NewAccount(password, role, from) ==
  [role |-> role, disabled |-> FALSE, password |-> password, totp |-> "off", recovery |-> {},
   github |-> None, from |-> from]

\* A request that awaits the hash of a password.
Hashing(w, kind, u, password, value) ==
  /\ request[w] = None
  /\ request' = [request EXCEPT ![w] = [kind |-> kind, user |-> u, password |-> password,
                                        since |-> 0, value |-> value]]

Done(w) == request' = [request EXCEPT ![w] = None]

\* POST setup with the right token.
SetupStart(w, u, password) ==
  /\ Hashing(w, "setup", u, password, None)
  /\ UNCHANGED <<account, session, invite, pending, history, changes>>

\* The mutation checks that nobody is registered yet.
SetupWrite(w) ==
  LET r == request[w] IN
  /\ r # None /\ r.kind = "setup"
  /\ account' = IF NoUsers
                THEN [account EXCEPT ![r.user] = NewAccount(r.password, "superadmin", "setup")]
                ELSE account
  /\ Done(w)
  /\ UNCHANGED <<session, invite, pending, history, changes>>

CreateInvite(w, i, role) ==
  /\ Change /\ invite[i] = None
  /\ \/ MayInvite(w, role) /\ invite' = [invite EXCEPT ![i] =
          [role |-> role, by |-> Principal(w), used |-> 0, open |-> TRUE]]
     \/ Bootstrap /\ role # "user" /\ invite' = [invite EXCEPT ![i] =
          [role |-> role, by |-> "bootstrap", used |-> 0, open |-> TRUE]]
  /\ UNCHANGED <<account, session, pending, request, history>>

\* Revoked, or expired.
RevokeInvite(w, i) ==
  /\ Change /\ (Can(w, "invite") \/ Bootstrap) /\ invite[i] # None
  /\ invite' = [invite EXCEPT ![i].open = FALSE]
  /\ UNCHANGED <<account, session, pending, request, history>>

Usable(i) == invite[i] # None /\ invite[i].open /\ invite[i].used < InviteLimit[i]

\* POST register, with an invitation or without.
RegisterStart(w, u, password, i) ==
  /\ Hashing(w, "register", u, password, i)
  /\ UNCHANGED <<account, session, invite, pending, history, changes>>

\* Faulty: the invitation was looked at before the password was hashed.
RegisterUnchecked(w) ==
  LET r == request[w]  i == r.value IN
  /\ r # None /\ r.kind = "register"
  /\ \/ ~Known(r.user) /\ i # None /\ invite[i] # None
        /\ account' = [account EXCEPT ![r.user] = NewAccount(r.password, invite[i].role, i)]
        /\ invite' = [invite EXCEPT ![i].used = @ + 1]
     \/ ~Known(r.user) /\ i = None
        /\ account' = [account EXCEPT ![r.user] = NewAccount(r.password, "user", "open")]
        /\ UNCHANGED invite
     \/ Known(r.user) /\ UNCHANGED <<account, invite>>
  /\ Done(w)
  /\ UNCHANGED <<session, pending, history, changes>>

\* The mutation checks the name and the invitation, and counts its use.
RegisterWrite(w) ==
  LET r == request[w]  i == r.value
      refused == Known(r.user) \/ (i # None /\ ~Usable(i)) IN
  /\ r # None /\ r.kind = "register"
  /\ \/ refused /\ UNCHANGED <<account, invite>>
     \/ ~refused /\ i # None
        /\ account' = [account EXCEPT ![r.user] = NewAccount(r.password, invite[i].role, i)]
        /\ invite' = [invite EXCEPT ![i].used = @ + 1]
     \/ ~refused /\ i = None
        /\ account' = [account EXCEPT ![r.user] = NewAccount(r.password, "user", "open")]
        /\ UNCHANGED invite
  /\ Done(w)
  /\ UNCHANGED <<session, pending, history, changes>>

\* A user who has registered becomes a developer.
ActivateDeveloper(w, i) ==
  LET u == Principal(w) IN
  /\ Change /\ u # None /\ account[u].role = "user"
  /\ Usable(i) /\ invite[i].role = "developer"
  /\ invite' = [invite EXCEPT ![i].used = @ + 1]
  /\ account' = [account EXCEPT ![u].role = "developer", ![u].from = i]
  /\ UNCHANGED <<session, pending, request, history>>

------------------------------------------------------------------------------
(* Login.                                                                  *)

\* consumeRateLimit, and the snapshot after it: the password is then compared
\* with the hash that was read.  A wrong one, or a disabled account, ends
\* the request.
LoginStart(w, u, password) ==
  /\ request[w] = None /\ session[w] = None /\ attempts[u] < LoginLimit
  /\ attempts' = [attempts EXCEPT ![u] = @ + 1]
  /\ request' = IF Known(u) /\ ~account[u].disabled /\ account[u].password = password
                THEN [request EXCEPT ![w] = [kind |-> IF account[u].totp = "on" THEN "ticket" ELSE "issue",
                                             user |-> u, password |-> password, since |-> cuts[u],
                                             value |-> None]]
                ELSE request
  /\ UNCHANGED <<account, session, invite, ticket, reset, oauth, history, changes>>

\* The window of fifteen minutes is over.
WindowEnds(u) ==
  /\ Change /\ attempts[u] > 0
  /\ attempts' = [attempts EXCEPT ![u] = 0]
  /\ UNCHANGED <<account, session, invite, ticket, reset, oauth, request, history>>

LoginTicket(w) ==
  LET r == request[w] IN
  /\ r # None /\ r.kind = "ticket"
  /\ ticket' = [ticket EXCEPT ![w] = [user |-> r.user, password |-> r.password, since |-> r.since]]
  /\ Done(w)
  /\ UNCHANGED <<account, session, invite, reset, oauth, attempts, history, changes>>

\* completeTotp: the ticket, and a code of the authenticator or a recovery
\* code (None: of the authenticator), are looked at in the snapshot.
CompleteStart(w, code) ==
  LET t == ticket[w] IN
  /\ request[w] = None /\ session[w] = None /\ t # None
  /\ code # None => code \in account[t.user].recovery
  /\ request' = [request EXCEPT ![w] = [kind |-> "complete", user |-> t.user, password |-> t.password,
                                        since |-> t.since, value |-> code]]
  /\ UNCHANGED <<account, session, invite, pending, history, changes>>

CompleteWrite(w) ==
  LET r == request[w] IN
  /\ r # None /\ r.kind = "complete"
  /\ ticket' = [ticket EXCEPT ![w] = None]
  /\ account' = [account EXCEPT ![r.user].recovery = @ \ {r.value}]
  /\ request' = [request EXCEPT ![w].kind = "issue", ![w].value = None]
  /\ UNCHANGED <<session, invite, reset, oauth, attempts, history, changes>>

\* issueSession, for the user as the login read it.
IssueSession(w) ==
  LET r == request[w] IN
  /\ r # None /\ r.kind = "issue"
  /\ session' = [session EXCEPT ![w] = [user |-> r.user, password |-> r.password, since |-> r.since,
                                        raced |-> r.since # cuts[r.user]]]
  /\ Done(w)
  /\ UNCHANGED <<account, invite, pending, history, changes>>

------------------------------------------------------------------------------
(* Sessions.                                                               *)

\* Faulty: sessions outlive what should end them.
KeptSessions(u) == session

\* The store without the sessions of u.
WithoutSessions(u) ==
  [w \in Clients |-> IF session[w] # None /\ session[w].user = u THEN None ELSE session[w]]

\* Every session of u ends.
Cut(u) ==
  /\ session' = WithoutSessions(u)
  /\ cuts' = [cuts EXCEPT ![u] = @ + 1]
  /\ changed' = changed \ {u}

\* Logout, the end of its time, or revokeSession by anyone who is logged in.
EndSession(w) ==
  /\ session[w] # None
  /\ session' = [session EXCEPT ![w] = None]
  /\ UNCHANGED <<account, invite, pending, request, history, changes>>

RevokeUserSessions(w, u) ==
  /\ Change /\ Manages(w) /\ Known(u)
  /\ Cut(u)
  /\ UNCHANGED <<account, invite, pending, request>>

------------------------------------------------------------------------------
(* What operators do to accounts.                                          *)

DisableUser(w, u) ==
  /\ Change /\ Manages(w) /\ Known(u)
  /\ account' = [account EXCEPT ![u].disabled = TRUE]
  /\ Cut(u)
  /\ UNCHANGED <<invite, pending, request>>

EnableUser(w, u) ==
  /\ Change /\ Manages(w) /\ Known(u)
  /\ account' = [account EXCEPT ![u].disabled = FALSE]
  /\ UNCHANGED <<session, invite, pending, request, history>>

SetUserRole(w, u, role) ==
  /\ Change /\ Manages(w) /\ Known(u) /\ role # "superadmin"
  /\ account' = [account EXCEPT ![u].role = role]
  /\ UNCHANGED <<session, invite, pending, request, history>>

CreatePasswordReset(w, u) ==
  /\ Change /\ Manages(w) /\ Known(u)
  /\ reset' = reset \cup {u}
  /\ UNCHANGED <<account, session, invite, ticket, oauth, attempts, request, history>>

------------------------------------------------------------------------------
(* What owners do to theirs.                                               *)

ResetStart(w, u, password) ==
  /\ u \in reset /\ Hashing(w, "reset", u, password, None)
  /\ UNCHANGED <<account, session, invite, pending, history, changes>>

\* consumePasswordReset: the token is looked at in the mutation.
ResetWrite(w) ==
  LET r == request[w] IN
  /\ r # None /\ r.kind = "reset"
  /\ \/ /\ r.user \in reset
        /\ reset' = reset \ {r.user}
        /\ account' = [account EXCEPT ![r.user].password = r.password]
        /\ Cut(r.user)
     \/ r.user \notin reset /\ UNCHANGED <<account, session, reset, history>>
  /\ Done(w)
  /\ UNCHANGED <<invite, ticket, oauth, attempts, changes>>

\* The current password was right; the new one is hashed.
ChangeStart(w, password) ==
  /\ Change /\ Principal(w) # None
  /\ Hashing(w, "change", Principal(w), password, None)
  /\ UNCHANGED <<account, session, invite, pending, history>>

\* Sessions stay.
ChangeWrite(w) ==
  LET r == request[w] IN
  /\ r # None /\ r.kind = "change"
  /\ account' = [account EXCEPT ![r.user].password = r.password]
  /\ changed' = changed \cup {r.user}
  /\ Done(w)
  /\ UNCHANGED <<session, invite, pending, cuts, changes>>

\* enableTotp: new recovery codes, and off until it is confirmed.
EnableTotp(w) ==
  LET u == Principal(w) IN
  /\ Change /\ u # None
  /\ account' = [account EXCEPT ![u].totp = "set", ![u].recovery = Codes]
  /\ UNCHANGED <<session, invite, pending, request, history>>

ConfirmTotp(w) ==
  LET u == Principal(w) IN
  /\ Change /\ u # None /\ account[u].totp # "off"
  /\ account' = [account EXCEPT ![u].totp = "on"]
  /\ UNCHANGED <<session, invite, pending, request, history>>

\* createGithubState and, when GitHub sends the browser back,
\* consumeGithubState; the profile is fetched in between.
GithubStart(w) ==
  /\ Change /\ Principal(w) # None
  /\ oauth' = oauth \cup {Principal(w)}
  /\ UNCHANGED <<account, session, invite, ticket, reset, attempts, request, history>>

GithubBack(w, u) ==
  /\ u \in oauth /\ request[w] = None
  /\ oauth' = oauth \ {u}
  /\ request' = [request EXCEPT ![w] = [kind |-> "github", user |-> u, password |-> account[u].password,
                                        since |-> 0, value |-> None]]
  /\ UNCHANGED <<account, session, invite, ticket, reset, attempts, history, changes>>

\* bindGithub
GithubBind(w, g) ==
  LET r == request[w] IN
  /\ r # None /\ r.kind = "github"
  /\ account' = IF \E v \in Users \ {r.user} : Known(v) /\ account[v].github = g
                THEN account
                ELSE [account EXCEPT ![r.user].github = g]
  /\ Done(w)
  /\ UNCHANGED <<session, invite, pending, history, changes>>

\* The client goes away, or GitHub does not answer.
Fails(w) ==
  /\ request[w] # None /\ Done(w)
  /\ UNCHANGED <<account, session, invite, pending, history, changes>>

------------------------------------------------------------------------------

Enter(w) ==
  \/ \E u \in Users, p \in Passwords :
       \/ SetupStart(w, u, p) \/ LoginStart(w, u, p) \/ ResetStart(w, u, p)
       \/ \E i \in Invites \cup {None} : RegisterStart(w, u, p, i)
  \/ SetupWrite(w) \/ RegisterWrite(w) \/ ResetWrite(w)
  \/ LoginTicket(w) \/ CompleteWrite(w) \/ IssueSession(w)
  \/ \E code \in Codes \cup {None} : CompleteStart(w, code)
  \/ EndSession(w) \/ Fails(w)

Own(w) ==
  \/ \E p \in Passwords : ChangeStart(w, p)
  \/ ChangeWrite(w) \/ EnableTotp(w) \/ ConfirmTotp(w) \/ GithubStart(w)
  \/ \E u \in Users : GithubBack(w, u)
  \/ \E g \in GithubIds : GithubBind(w, g)
  \/ \E i \in Invites : ActivateDeveloper(w, i)

Operate(w) ==
  \/ \E i \in Invites : RevokeInvite(w, i) \/ \E role \in Roles : CreateInvite(w, i, role)
  \/ \E u \in Users : \/ RevokeUserSessions(w, u) \/ DisableUser(w, u) \/ EnableUser(w, u)
                      \/ CreatePasswordReset(w, u)
                      \/ \E role \in Roles : SetUserRole(w, u, role)

Next ==
  \/ \E w \in Clients : Enter(w) \/ Own(w) \/ Operate(w)
  \/ \E u \in Users : WindowEnds(u)

Spec == Init /\ [][Next]_vars

------------------------------------------------------------------------------
(* Properties.                                                             *)

From(i) == {u \in Users : Known(u) /\ account[u].from = i}

\* The platform is set up once, an invitation makes no more accounts or
\* developers than it allows, and two accounts share no GitHub account.
GrantedOnce ==
  /\ \A u, v \in From("setup") : u = v
  /\ \A i \in Invites : Cardinality(From(i)) <= InviteLimit[i]
  /\ \A u, v \in Users :
       Known(u) /\ Known(v) /\ account[u].github # None /\ account[u].github = account[v].github => u = v

\* A superadmin is the one who set the platform up, or was invited with the
\* bootstrap token: nobody becomes one by what other administrators do.
AdminsAreRooted ==
  \A u \in Users :
    Known(u) /\ account[u].role = "superadmin" =>
      \/ account[u].from = "setup"
      \/ account[u].from \in Invites /\ invite[account[u].from].by = "bootstrap"

RolesAreGranted == GrantedOnce /\ AdminsAreRooted

\* RUNBOOK.md: disable an account to rotate its sessions.  A session that is
\* left is of a login since, by a user who is not disabled, with the password
\* that is in force unless its owner changed it - except when the login had
\* read the account before and issued the session after (auth.js:151).
SessionsAreCurrent ==
  \A w \in Clients :
    session[w] # None /\ ~session[w].raced =>
      LET u == session[w].user IN
      /\ session[w].since = cuts[u]
      /\ Known(u)
      /\ ~account[u].disabled
      /\ session[w].password = account[u].password \/ u \in changed

=============================================================================
