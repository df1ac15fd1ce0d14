--------------------------- MODULE AccountsProofs ---------------------------
(***************************************************************************)
(* Theorems about accounts, for any number of users, clients, invitations  *)
(* and changes: their types, that a session is of a login its user still   *)
(* may have, and that nobody has a role that was not granted.              *)
(***************************************************************************)
EXTENDS Accounts, FiniteSetTheorems, TLAPS

Tickets == [user : Users, password : Passwords, since : Nat]

(***************************************************************************)
(* What a step may do to accounts, invitations and their histories.        *)
(***************************************************************************)
\* Sessions, tickets, resets and requests are of names that are registered,
\* and a registration names an invitation or none.
Registered ==
  /\ \A u \in reset \cup oauth : Known(u)
  /\ \A w \in Clients :
       /\ session[w] # None => Known(session[w].user)
       /\ ticket[w] # None => Known(ticket[w].user)
       /\ request[w] # None /\ request[w].kind \notin {"register", "setup"} => Known(request[w].user)
       /\ request[w] # None /\ request[w].kind = "register" => request[w].value \in Invites \cup {None}

\* The use of an invitation is counted.
Uses(i) == Usable(i) /\ invite' = [invite EXCEPT ![i].used = @ + 1]

\* A name gets its first account: the administrator of the setup, one that was
\* invited, or a plain user.
Registers(v, a) ==
  /\ account[v] = None /\ UNCHANGED history
  /\ \E p \in Passwords :
       \/ NoUsers /\ a = NewAccount(p, "superadmin", "setup") /\ UNCHANGED invite
       \/ \E i \in Invites : Uses(i) /\ a = NewAccount(p, invite[i].role, i)
       \/ a = NewAccount(p, "user", "open") /\ UNCHANGED invite

\* A user becomes a developer.
Activates(v, a) ==
  /\ account[v] # None /\ UNCHANGED history
  /\ \E i \in Invites : Uses(i) /\ a = [account[v] EXCEPT !.role = "developer", !.from = i]

\* An account stays whoever's it was: nobody becomes an administrator, and
\* it is disabled or gets a password with its sessions ended or by its owner.
Alters(v, a) ==
  /\ account[v] # None /\ UNCHANGED invite
  /\ a.from = account[v].from
  /\ a.role = account[v].role \/ a.role # "superadmin"
  /\ \/ a.github = account[v].github
     \/ \A u \in Users \ {v} : account[u] # None => account[u].github # a.github
  /\ \/ a.password = account[v].password /\ a.disabled \in {account[v].disabled, FALSE} /\ UNCHANGED history
     \/ a.disabled = account[v].disabled /\ cuts' = cuts /\ changed' = changed \cup {v}
     \/ Cut(v)

\* An invitation is issued, by the bootstrap token when it is for an
\* administrator, or closed.
Issues ==
  \E i \in Invites, n \in Invite :
    /\ invite' = [invite EXCEPT ![i] = n] /\ UNCHANGED <<account, history>>
    /\ \/ invite[i] = None /\ n.used = 0 /\ (n.role = "superadmin" => n.by = "bootstrap")
       \/ invite[i] # None /\ n.used = invite[i].used /\ n.role = invite[i].role /\ n.by = invite[i].by

AccountStep ==
  \/ \E v \in Users, a \in Account : /\ account' = [account EXCEPT ![v] = a]
                                     /\ Registers(v, a) \/ Activates(v, a) \/ Alters(v, a)
  \/ Issues
  \/ /\ UNCHANGED <<account, invite>>
     /\ UNCHANGED history \/ \E v \in Users : Cut(v)

\* Any field of an account may get a value of its own.
LEMMA Fields ==
  ASSUME TypeOK, NEW u \in Users, account[u] # None
  PROVE  /\ account[u] \in Account
         /\ \A x \in Roles : [account[u] EXCEPT !.role = x] \in Account
         /\ \A x \in BOOLEAN : [account[u] EXCEPT !.disabled = x] \in Account
         /\ \A x \in Passwords : [account[u] EXCEPT !.password = x] \in Account
         /\ \A x \in GithubIds : [account[u] EXCEPT !.github = x] \in Account
         /\ \A x : [account[u] EXCEPT !.recovery = @ \ {x}] \in Account
<1>1. account[u] \in Account
  BY DEF TypeOK
<1> QED
  BY <1>1 DEF Account

\* A session, a request and what they name are typed.
LEMMA Parts ==
  ASSUME TypeOK, NEW w \in Clients
  PROVE  /\ request[w] # None => /\ request[w] \in Request /\ request[w].user \in Users
                                 /\ request[w].password \in Passwords /\ request[w].since \in Nat
         /\ session[w] # None => session[w] \in Session /\ session[w].user \in Users
         /\ ticket[w] # None => /\ ticket[w] \in Tickets /\ ticket[w].user \in Users
                                /\ ticket[w].password \in Passwords /\ ticket[w].since \in Nat
         /\ Principal(w) # None => /\ Principal(w) \in Users /\ session[w] # None
                                   /\ Principal(w) = session[w].user
<1>1. request[w] # None => /\ request[w] \in Request /\ request[w].user \in Users
                           /\ request[w].password \in Passwords /\ request[w].since \in Nat
  BY DEF TypeOK, Request
<1>2. session[w] # None => session[w] \in Session /\ session[w].user \in Users
  BY DEF TypeOK, Session
<1>3. ticket[w] # None => /\ ticket[w] \in Tickets /\ ticket[w].user \in Users
                          /\ ticket[w].password \in Passwords /\ ticket[w].since \in Nat
  BY DEF TypeOK, Tickets
<1> QED
  BY <1>1, <1>2, <1>3 DEF Principal

\* What a new account is.
LEMMA NewTyped ==
  ASSUME NEW p \in Passwords, NEW role \in Roles, NEW from \in Invites \cup {"setup", "open"}
  PROVE  NewAccount(p, role, from) \in Account
BY DEF NewAccount, Account

\* Registrations do what Registers says.
LEMMA RegisterStep ==
  ASSUME TypeOK, Registered, NEW w \in Clients, SetupWrite(w) \/ RegisterWrite(w)
  PROVE  AccountStep
<1> USE AccountsAssumption, NothingAssumption
<1> DEFINE r == request[w]
           u == r.user
           i == r.value
<1>0. r # None /\ r \in Request /\ u \in Users /\ r.password \in Passwords
  BY Parts DEF SetupWrite, RegisterWrite
<1>1. CASE UNCHANGED <<account, invite>>
  BY <1>1 DEF AccountStep, SetupWrite, RegisterWrite
<1>2. CASE SetupWrite(w) /\ NoUsers
  <2> DEFINE a == NewAccount(r.password, "superadmin", "setup")
  <2>1. a \in Account
    BY <1>0, NewTyped DEF Roles
  <2>2. account[u] = None
    BY <1>0, <1>2 DEF NoUsers, Known
  <2>3. account' = [account EXCEPT ![u] = a] /\ UNCHANGED <<invite, history>>
    BY <1>2 DEF SetupWrite
  <2>4. Registers(u, a)
    BY <1>0, <1>2, <2>2, <2>3 DEF Registers
  <2> QED
    BY <1>0, <2>1, <2>3, <2>4 DEF AccountStep
<1>3. CASE RegisterWrite(w) /\ ~Known(u) /\ i # None /\ Usable(i)
           /\ account' = [account EXCEPT ![u] = NewAccount(r.password, invite[i].role, i)]
           /\ invite' = [invite EXCEPT ![i].used = @ + 1]
  <2> DEFINE a == NewAccount(r.password, invite[i].role, i)
  <2>0. i \in Invites
    BY <1>0, <1>3 DEF Registered, RegisterWrite
  <2>1. a \in Account
    <3>1. invite[i] \in Invite
      BY <1>3, <2>0 DEF Usable, TypeOK
    <3>2. invite[i].role \in Roles
      BY <3>1 DEF Invite
    <3> QED
      BY <1>0, <2>0, <3>2, NewTyped
  <2>2. Registers(u, a)
    BY <1>0, <1>3, <2>0 DEF Registers, RegisterWrite, Known, Uses
  <2> QED
    BY <1>0, <1>3, <2>1, <2>2 DEF AccountStep
<1>4. CASE RegisterWrite(w) /\ ~Known(u) /\ UNCHANGED invite
           /\ account' = [account EXCEPT ![u] = NewAccount(r.password, "user", "open")]
  <2> DEFINE a == NewAccount(r.password, "user", "open")
  <2>1. a \in Account
    BY <1>0, NewTyped DEF Roles
  <2>2. Registers(u, a)
    BY <1>0, <1>4 DEF Registers, RegisterWrite, Known
  <2> QED
    BY <1>0, <1>4, <2>1, <2>2 DEF AccountStep
<1> QED
  <2>1. CASE SetupWrite(w)
    BY <1>1, <1>2, <2>1 DEF SetupWrite
  <2>2. CASE RegisterWrite(w)
    BY <1>1, <1>3, <1>4, <2>2 DEF RegisterWrite
  <2> QED
    BY <2>1, <2>2

\* A user who becomes a developer does so as Activates says.
LEMMA ActivateStep ==
  ASSUME TypeOK, Registered, NEW w \in Clients, NEW i \in Invites, ActivateDeveloper(w, i)
  PROVE  AccountStep
<1> DEFINE u == Principal(w)
           a == [account[u] EXCEPT !.role = "developer", !.from = i]
<1>1. u \in Users /\ account[u] # None
  BY Parts DEF ActivateDeveloper, Registered, Known
<1>2. a \in Account
  <2>1. account[u] \in Account
    BY <1>1, Fields
  <2> QED
    BY <2>1 DEF Account, Roles
<1>3. account' = [account EXCEPT ![u] = a]
  BY DEF ActivateDeveloper
<1>4. Activates(u, a)
  BY <1>1 DEF Activates, ActivateDeveloper, Uses
<1> QED
  BY <1>1, <1>2, <1>3, <1>4 DEF AccountStep

\* An alteration by account' = ... is one by Alters.
LEMMA AlterStep ==
  ASSUME NEW v \in Users, NEW a \in Account, account' = [account EXCEPT ![v] = a], Alters(v, a)
  PROVE  AccountStep
BY DEF AccountStep

\* What users do to their accounts.
LEMMA OwnStep ==
  ASSUME TypeOK, Registered, NEW w \in Clients, Own(w)
  PROVE  AccountStep
<1> USE AccountsAssumption, NothingAssumption
<1> DEFINE r == request[w]
           p == Principal(w)
<1>0. /\ r # None => r \in Request /\ r.user \in Users /\ r.password \in Passwords
      /\ p # None => p \in Users /\ account[p] # None
      /\ r # None /\ r.kind \in {"change", "github"} => account[r.user] # None
  BY Parts DEF Registered, Known
<1>1. CASE ChangeWrite(w)
  <2> DEFINE a == [account[r.user] EXCEPT !.password = r.password]
  <2>1. /\ r # None /\ r.user \in Users /\ account[r.user] # None /\ r.password \in Passwords
        /\ UNCHANGED invite /\ cuts' = cuts /\ changed' = changed \cup {r.user}
        /\ account' = [account EXCEPT ![r.user] = a]
    BY <1>0, <1>1 DEF ChangeWrite
  <2>2. account[r.user] \in Account /\ a \in Account
    BY <2>1, Fields
  <2>3. a.from = account[r.user].from /\ a.role = account[r.user].role
        /\ a.github = account[r.user].github /\ a.disabled = account[r.user].disabled
    BY <2>2 DEF Account
  <2>4. Alters(r.user, a)
    BY <2>1, <2>3 DEF Alters
  <2> QED
    BY <2>1, <2>2, <2>4, AlterStep
<1>2. CASE EnableTotp(w) \/ ConfirmTotp(w)
  <2>1. p \in Users /\ account[p] # None /\ account[p] \in Account /\ UNCHANGED <<invite, history>>
    BY <1>0, <1>2, Fields DEF EnableTotp, ConfirmTotp
  <2>2. PICK a \in Account : /\ account' = [account EXCEPT ![p] = a]
                             /\ a.from = account[p].from /\ a.role = account[p].role
                             /\ a.github = account[p].github /\ a.disabled = account[p].disabled
                             /\ a.password = account[p].password
    <3>1. CASE EnableTotp(w)
      <4> DEFINE a == [account[p] EXCEPT !.totp = "set", !.recovery = Codes]
      <4>1. /\ a \in Account
            /\ a.from = account[p].from /\ a.role = account[p].role
            /\ a.github = account[p].github /\ a.disabled = account[p].disabled
            /\ a.password = account[p].password
        BY <2>1 DEF Account
      <4>2. account' = [account EXCEPT ![p] = a]
        BY <3>1 DEF EnableTotp
      <4> QED
        BY <4>1, <4>2
    <3>2. CASE ConfirmTotp(w)
      <4> DEFINE a == [account[p] EXCEPT !.totp = "on"]
      <4>1. /\ a \in Account
            /\ a.from = account[p].from /\ a.role = account[p].role
            /\ a.github = account[p].github /\ a.disabled = account[p].disabled
            /\ a.password = account[p].password
        BY <2>1 DEF Account
      <4>2. account' = [account EXCEPT ![p] = a]
        BY <3>2 DEF ConfirmTotp
      <4> QED
        BY <4>1, <4>2
    <3> QED
      BY <1>2, <3>1, <3>2
  <2>3. Alters(p, a)
    BY <2>1, <2>2 DEF Alters
  <2> QED
    BY <2>1, <2>2, <2>3, AlterStep
<1>3. ASSUME NEW g \in GithubIds, GithubBind(w, g) PROVE AccountStep
  <2>1. CASE UNCHANGED account
    BY <1>3, <2>1 DEF GithubBind, AccountStep
  <2>2. CASE ~UNCHANGED account
    <3> DEFINE a == [account[r.user] EXCEPT !.github = g]
    <3>1. /\ r # None /\ r.user \in Users /\ account[r.user] # None
          /\ UNCHANGED <<invite, history>> /\ account' = [account EXCEPT ![r.user] = a]
          /\ \A v \in Users \ {r.user} : account[v] # None => account[v].github # g
      BY <1>0, <1>3, <2>2 DEF GithubBind, Known
    <3>2. account[r.user] \in Account /\ a \in Account
      BY <3>1, Fields
    <3>3. a.from = account[r.user].from /\ a.role = account[r.user].role /\ a.github = g
          /\ a.disabled = account[r.user].disabled /\ a.password = account[r.user].password
      BY <3>2 DEF Account
    <3>4. Alters(r.user, a)
      BY <3>1, <3>3 DEF Alters
    <3> QED
      BY <3>1, <3>2, <3>4, AlterStep
  <2> QED
    BY <2>1, <2>2
<1>4. ASSUME NEW i \in Invites, ActivateDeveloper(w, i) PROVE AccountStep
  BY <1>4, ActivateStep
<1>5. ASSUME NEW q \in Passwords, ChangeStart(w, q) PROVE AccountStep
  BY <1>5 DEF ChangeStart, AccountStep
<1>6. ASSUME NEW u \in Users, GithubBack(w, u) PROVE AccountStep
  BY <1>6 DEF GithubBack, AccountStep
<1>7. CASE GithubStart(w)
  BY <1>7 DEF GithubStart, AccountStep
<1> QED
  BY <1>1, <1>2, <1>3, <1>4, <1>5, <1>6, <1>7 DEF Own

\* What operators do to the accounts of others and to invitations.
LEMMA OperateStep ==
  ASSUME TypeOK, Registered, NEW w \in Clients, Operate(w)
  PROVE  AccountStep
<1> USE AccountsAssumption, NothingAssumption
<1>1. ASSUME NEW u \in Users, NEW disabled \in BOOLEAN,
             account[u] # None, account' = [account EXCEPT ![u].disabled = disabled], UNCHANGED invite,
             Cut(u) \/ (UNCHANGED history /\ disabled = FALSE)
      PROVE  AccountStep
  <2> DEFINE a == [account[u] EXCEPT !.disabled = disabled]
  <2>1. account[u] \in Account /\ a \in Account
    BY <1>1, Fields
  <2>2. a.from = account[u].from /\ a.role = account[u].role /\ a.github = account[u].github
        /\ a.disabled = disabled /\ a.password = account[u].password
    BY <2>1 DEF Account
  <2>3. Alters(u, a)
    BY <1>1, <2>2 DEF Alters
  <2> QED
    BY <1>1, <2>1, <2>3, AlterStep
<1>2. ASSUME NEW u \in Users, DisableUser(w, u) PROVE AccountStep
  BY <1>1, <1>2 DEF DisableUser, Known, Cut
<1>3. ASSUME NEW u \in Users, EnableUser(w, u) PROVE AccountStep
  BY <1>1, <1>3 DEF EnableUser, Known
<1>4. ASSUME NEW u \in Users, NEW role \in Roles, SetUserRole(w, u, role) PROVE AccountStep
  <2> DEFINE a == [account[u] EXCEPT !.role = role]
  <2>1. account[u] # None /\ account[u] \in Account /\ a \in Account
    BY <1>4, Fields DEF SetUserRole, Known
  <2>2. a.from = account[u].from /\ a.role = role /\ a.github = account[u].github
        /\ a.disabled = account[u].disabled /\ a.password = account[u].password
    BY <2>1 DEF Account
  <2>3. Alters(u, a)
    BY <1>4, <2>1, <2>2 DEF Alters, SetUserRole
  <2>4. account' = [account EXCEPT ![u] = a]
    BY <1>4 DEF SetUserRole
  <2> QED
    BY <2>1, <2>3, <2>4, AlterStep
<1>5. ASSUME NEW u \in Users, RevokeUserSessions(w, u) PROVE AccountStep
  BY <1>5 DEF RevokeUserSessions, AccountStep
<1>6. ASSUME NEW u \in Users, CreatePasswordReset(w, u) PROVE AccountStep
  BY <1>6 DEF CreatePasswordReset, AccountStep
<1>7. ASSUME NEW i \in Invites, NEW role \in Roles, CreateInvite(w, i, role) PROVE AccountStep
  <2>1. /\ UNCHANGED <<account, history>> /\ invite[i] = None
        /\ \/ MayInvite(w, role) /\ invite' = [invite EXCEPT ![i] =
                 [role |-> role, by |-> Principal(w), used |-> 0, open |-> TRUE]]
           \/ role # "user" /\ invite' = [invite EXCEPT ![i] =
                 [role |-> role, by |-> "bootstrap", used |-> 0, open |-> TRUE]]
    BY <1>7 DEF CreateInvite
  <2>2. MayInvite(w, role) => role \in {"community", "developer"} /\ Principal(w) \in Users
    BY Parts DEF MayInvite
  <2>3. PICK n \in Invite : /\ invite' = [invite EXCEPT ![i] = n] /\ n.used = 0
                            /\ n.role = "superadmin" => n.by = "bootstrap"
    <3> DEFINE n(by) == [role |-> role, by |-> by, used |-> 0, open |-> TRUE]
    <3>1. CASE MayInvite(w, role) /\ invite' = [invite EXCEPT ![i] = n(Principal(w))]
      <4>1. n(Principal(w)) \in Invite /\ n(Principal(w)).used = 0 /\ n(Principal(w)).role # "superadmin"
        BY <2>2, <3>1 DEF Invite, Roles
      <4> QED
        BY <3>1, <4>1
    <3>2. CASE role # "user" /\ invite' = [invite EXCEPT ![i] = n("bootstrap")]
      <4>1. n("bootstrap") \in Invite /\ n("bootstrap").used = 0 /\ n("bootstrap").by = "bootstrap"
        BY <3>2 DEF Invite
      <4> QED
        BY <3>2, <4>1
    <3> QED
      BY <2>1, <3>1, <3>2
  <2>4. Issues
    BY <2>1, <2>3 DEF Issues
  <2> QED
    BY <2>4 DEF AccountStep
<1>8. ASSUME NEW i \in Invites, RevokeInvite(w, i) PROVE AccountStep
  <2> DEFINE n == [invite[i] EXCEPT !.open = FALSE]
  <2>1. /\ UNCHANGED <<account, history>> /\ invite[i] # None /\ invite[i] \in Invite
        /\ invite' = [invite EXCEPT ![i] = n]
    BY <1>8 DEF RevokeInvite, TypeOK
  <2>2. n \in Invite /\ n.used = invite[i].used /\ n.role = invite[i].role /\ n.by = invite[i].by
    BY <2>1 DEF Invite
  <2>3. Issues
    BY <2>1, <2>2 DEF Issues
  <2> QED
    BY <2>3 DEF AccountStep
<1> QED
  BY <1>2, <1>3, <1>4, <1>5, <1>6, <1>7, <1>8 DEF Operate

\* What anybody may do: register, log in, use a reset.
LEMMA EnterStep ==
  ASSUME TypeOK, Registered, NEW w \in Clients, Enter(w)
  PROVE  AccountStep
<1> USE AccountsAssumption, NothingAssumption
<1> DEFINE r == request[w]
<1>0. /\ r # None => r \in Request /\ r.user \in Users /\ r.password \in Passwords
      /\ r # None /\ r.kind = "complete" => account[r.user] # None
      /\ r # None /\ r.kind = "reset" /\ r.user \in reset => account[r.user] # None
  BY Parts DEF Registered, Known
<1>1. CASE CompleteWrite(w)
  <2> DEFINE a == [account[r.user] EXCEPT !.recovery = @ \ {r.value}]
  <2>1. /\ r # None /\ r.user \in Users /\ account[r.user] # None
        /\ UNCHANGED <<invite, history>> /\ account' = [account EXCEPT ![r.user] = a]
    BY <1>0, <1>1 DEF CompleteWrite
  <2>2. account[r.user] \in Account /\ a \in Account
    BY <2>1, Fields
  <2>3. a.from = account[r.user].from /\ a.role = account[r.user].role
        /\ a.github = account[r.user].github /\ a.disabled = account[r.user].disabled
        /\ a.password = account[r.user].password
    BY <2>2 DEF Account
  <2>4. Alters(r.user, a)
    BY <2>1, <2>3 DEF Alters
  <2> QED
    BY <2>1, <2>2, <2>4, AlterStep
<1>2. CASE ResetWrite(w)
  <2>1. CASE r.user \notin reset
    BY <1>2, <2>1 DEF ResetWrite, AccountStep
  <2>2. CASE r.user \in reset
    <3> DEFINE a == [account[r.user] EXCEPT !.password = r.password]
    <3>1. /\ r # None /\ r.user \in Users /\ account[r.user] # None /\ r.password \in Passwords
          /\ UNCHANGED invite /\ Cut(r.user) /\ account' = [account EXCEPT ![r.user] = a]
      BY <1>0, <1>2, <2>2 DEF ResetWrite
    <3>2. account[r.user] \in Account /\ a \in Account
      BY <3>1, Fields
    <3>3. a.from = account[r.user].from /\ a.role = account[r.user].role
          /\ a.github = account[r.user].github /\ a.disabled = account[r.user].disabled
      BY <3>2 DEF Account
    <3>4. Alters(r.user, a)
      BY <3>1, <3>3 DEF Alters
    <3> QED
      BY <3>1, <3>2, <3>4, AlterStep
  <2> QED
    BY <2>1, <2>2
<1>3. CASE SetupWrite(w) \/ RegisterWrite(w)
  BY <1>3, RegisterStep
<1> QED
  BY <1>1, <1>2, <1>3
  DEF Enter, AccountStep, SetupStart, LoginStart, ResetStart, RegisterStart, LoginTicket, IssueSession,
      CompleteStart, EndSession, Fails

\* Every step of the system is one of these.
LEMMA EveryStep == TypeOK /\ Registered /\ [Next]_vars => AccountStep
<1> SUFFICES ASSUME TypeOK, Registered, [Next]_vars PROVE AccountStep
  OBVIOUS
<1>1. CASE UNCHANGED vars
  BY <1>1 DEF vars, history, AccountStep
<1>2. ASSUME NEW u \in Users, WindowEnds(u) PROVE AccountStep
  BY <1>2 DEF WindowEnds, AccountStep
<1> QED
  BY <1>1, <1>2, EnterStep, OwnStep, OperateStep DEF Next

\* Who is registered stays registered.
LEMMA KnownKept ==
  ASSUME TypeOK, AccountStep, NEW u \in Users, Known(u)
  PROVE  account'[u] # None
BY NothingAssumption DEF AccountStep, Known, TypeOK, Issues

(***************************************************************************)
(* Types.                                                                  *)
(***************************************************************************)
\* A step that leaves accounts typed leaves all that AccountStep names typed.
LEMMA AccountTyped ==
  ASSUME TypeOK, AccountStep
  PROVE  /\ account' \in [Users -> Account \cup {None}]
         /\ invite' \in [Invites -> Invite \cup {None}]
         /\ cuts' \in [Users -> Nat] /\ changed' \subseteq Users
<1> USE NothingAssumption
<1>1. account' \in [Users -> Account \cup {None}]
  BY DEF AccountStep, Issues, TypeOK
<1>2. ASSUME NEW i \in Invites, Uses(i) PROVE invite' \in [Invites -> Invite \cup {None}]
  <2>1. invite[i] \in Invite
    BY <1>2 DEF Uses, Usable, TypeOK
  <2>2. [invite[i] EXCEPT !.used = @ + 1] \in Invite
    BY <2>1 DEF Invite
  <2>3. invite' = [invite EXCEPT ![i] = [invite[i] EXCEPT !.used = @ + 1]]
    BY <1>2 DEF Uses
  <2> QED
    BY <2>2, <2>3 DEF TypeOK
<1>3. invite' \in [Invites -> Invite \cup {None}]
  BY <1>2 DEF AccountStep, Issues, Registers, Activates, Alters, TypeOK
<1>4. ASSUME NEW u \in Users, Cut(u) PROVE cuts' \in [Users -> Nat] /\ changed' \subseteq Users
  BY <1>4 DEF Cut, TypeOK
<1>5. cuts' \in [Users -> Nat] /\ changed' \subseteq Users
  BY <1>4 DEF AccountStep, Issues, Registers, Activates, Alters, TypeOK, history
<1> QED
  BY <1>1, <1>3, <1>5

\* What Enter and its like leave of sessions, tickets, requests and limits.
RestTyped ==
  /\ session' \in [Clients -> Session \cup {None}]
  /\ ticket' \in [Clients -> Tickets \cup {None}]
  /\ reset' \subseteq Users /\ oauth' \subseteq Users
  /\ attempts' \in [Users -> Nat]
  /\ request' \in [Clients -> Request \cup {None}]
  /\ changes' \in 0..MaxChanges

\* A change by an operator or an owner is counted.
LEMMA ChangeTyped ==
  ASSUME TypeOK, Change \/ UNCHANGED changes
  PROVE  changes' \in 0..MaxChanges
BY AccountsAssumption DEF Change, TypeOK

\* Ending sessions leaves sessions.
LEMMA CutTyped ==
  ASSUME TypeOK, NEW u, Cut(u)
  PROVE  session' \in [Clients -> Session \cup {None}]
BY DEF Cut, WithoutSessions, TypeOK

\* A request that is set or done is typed.
LEMMA RequestSet ==
  ASSUME TypeOK, NEW w \in Clients, NEW r \in Request \cup {None}, request' = [request EXCEPT ![w] = r]
  PROVE  request' \in [Clients -> Request \cup {None}]
BY DEF TypeOK

\* A request that hashes a password is typed.
LEMMA HashingTyped ==
  ASSUME TypeOK, NEW w \in Clients, NEW u \in Users, NEW p \in Passwords,
         NEW kind \in {"register", "setup", "change", "reset"}, NEW v \in Invites \cup {None},
         Hashing(w, kind, u, p, v)
  PROVE  request' \in [Clients -> Request \cup {None}]
<1> DEFINE r == [kind |-> kind, user |-> u, password |-> p, since |-> 0, value |-> v]
<1>1. r \in Request
  BY DEF Request
<1>2. request' = [request EXCEPT ![w] = r]
  BY DEF Hashing
<1> QED
  BY <1>1, <1>2, RequestSet

\* Login, registration and resets keep the types.
LEMMA EnterTyped ==
  ASSUME TypeOK, Registered, NEW w \in Clients, Enter(w)
  PROVE  RestTyped
<1> USE AccountsAssumption, NothingAssumption
<1> DEFINE r == request[w]
<1>0. /\ r # None => r \in Request /\ r.user \in Users /\ r.password \in Passwords /\ r.since \in Nat
      /\ ticket[w] # None => /\ ticket[w].user \in Users /\ ticket[w].password \in Passwords
                             /\ ticket[w].since \in Nat
  BY Parts
<1>00. ASSUME Done(w) PROVE request' \in [Clients -> Request \cup {None}]
  BY <1>00, RequestSet DEF Done
<1>1. ASSUME NEW u \in Users, NEW p \in Passwords, SetupStart(w, u, p) PROVE RestTyped
  BY <1>1, HashingTyped DEF SetupStart, RestTyped, TypeOK, Tickets, pending
<1>2. ASSUME NEW u \in Users, NEW p \in Passwords, ResetStart(w, u, p) PROVE RestTyped
  BY <1>2, HashingTyped DEF ResetStart, RestTyped, TypeOK, Tickets, pending
<1>3. ASSUME NEW u \in Users, NEW p \in Passwords, NEW i \in Invites \cup {None}, RegisterStart(w, u, p, i)
      PROVE  RestTyped
  BY <1>3, HashingTyped DEF RegisterStart, RestTyped, TypeOK, Tickets, pending
<1>4. ASSUME NEW u \in Users, NEW p \in Passwords, LoginStart(w, u, p) PROVE RestTyped
  <2> DEFINE q == [kind |-> IF account[u].totp = "on" THEN "ticket" ELSE "issue",
                   user |-> u, password |-> p, since |-> cuts[u], value |-> None]
  <2>1. q \in Request
    BY DEF Request, TypeOK
  <2>2. request' = [request EXCEPT ![w] = q] \/ request' = request
    BY <1>4 DEF LoginStart
  <2>3. request' \in [Clients -> Request \cup {None}]
    BY <2>1, <2>2, RequestSet DEF TypeOK
  <2>4. attempts' \in [Users -> Nat]
    BY <1>4 DEF LoginStart, TypeOK
  <2> QED
    BY <1>4, <2>3, <2>4 DEF LoginStart, RestTyped, TypeOK, Tickets
<1>5. CASE SetupWrite(w) \/ RegisterWrite(w) \/ Fails(w)
  BY <1>5, <1>00 DEF SetupWrite, RegisterWrite, Fails, RestTyped, TypeOK, Tickets, pending
<1>6. CASE ResetWrite(w)
  <2>1. session' \in [Clients -> Session \cup {None}]
    BY <1>6, CutTyped DEF ResetWrite, TypeOK
  <2>2. reset' \subseteq Users
    BY <1>6 DEF ResetWrite, TypeOK
  <2> QED
    BY <1>6, <1>00, <2>1, <2>2 DEF ResetWrite, RestTyped, TypeOK, Tickets
<1>7. CASE LoginTicket(w)
  <2> DEFINE t == [user |-> r.user, password |-> r.password, since |-> r.since]
  <2>1. t \in Tickets
    BY <1>0, <1>7 DEF LoginTicket, Tickets
  <2>2. ticket' = [ticket EXCEPT ![w] = t]
    BY <1>7 DEF LoginTicket
  <2>3. ticket' \in [Clients -> Tickets \cup {None}]
    BY <2>1, <2>2 DEF TypeOK, Tickets
  <2> QED
    BY <1>7, <1>00, <2>3 DEF LoginTicket, RestTyped, TypeOK
<1>8. ASSUME NEW code \in Codes \cup {None}, CompleteStart(w, code) PROVE RestTyped
  <2> DEFINE q == [kind |-> "complete", user |-> ticket[w].user, password |-> ticket[w].password,
                   since |-> ticket[w].since, value |-> code]
  <2>1. q \in Request
    BY <1>0, <1>8 DEF CompleteStart, Request
  <2>2. request' = [request EXCEPT ![w] = q]
    BY <1>8 DEF CompleteStart
  <2>3. request' \in [Clients -> Request \cup {None}]
    BY <2>1, <2>2, RequestSet
  <2> QED
    BY <1>8, <2>3 DEF CompleteStart, RestTyped, TypeOK, Tickets, pending
<1>9. CASE CompleteWrite(w)
  <2> DEFINE q == [r EXCEPT !.kind = "issue", !.value = None]
  <2>1. q \in Request
    BY <1>0, <1>9 DEF CompleteWrite, Request
  <2>2. request' = [request EXCEPT ![w] = q]
    BY <1>9 DEF CompleteWrite
  <2>3. request' \in [Clients -> Request \cup {None}]
    BY <2>1, <2>2, RequestSet
  <2>4. ticket' \in [Clients -> Tickets \cup {None}]
    BY <1>9 DEF CompleteWrite, TypeOK, Tickets
  <2> QED
    BY <1>9, <2>3, <2>4 DEF CompleteWrite, RestTyped, TypeOK
<1>10. CASE IssueSession(w)
  <2> DEFINE s == [user |-> r.user, password |-> r.password, since |-> r.since,
                   raced |-> r.since # cuts[r.user]]
  <2>1. s \in Session
    BY <1>0, <1>10 DEF IssueSession, Session
  <2>2. session' = [session EXCEPT ![w] = s]
    BY <1>10 DEF IssueSession
  <2>3. session' \in [Clients -> Session \cup {None}]
    BY <2>1, <2>2 DEF TypeOK
  <2> QED
    BY <1>10, <1>00, <2>3 DEF IssueSession, RestTyped, TypeOK, Tickets, pending
<1>11. CASE EndSession(w)
  BY <1>11 DEF EndSession, RestTyped, TypeOK, Tickets, pending
<1> QED
  BY <1>1, <1>2, <1>3, <1>4, <1>5, <1>6, <1>7, <1>8, <1>9, <1>10, <1>11 DEF Enter

\* So does what owners do.
LEMMA OwnTyped ==
  ASSUME TypeOK, Registered, NEW w \in Clients, Own(w)
  PROVE  RestTyped
<1> USE AccountsAssumption, NothingAssumption
<1> DEFINE p == Principal(w)
<1>0. p # None => p \in Users /\ account[p] # None
  BY Parts DEF Registered, Known
<1>00. ASSUME Done(w) PROVE request' \in [Clients -> Request \cup {None}]
  BY <1>00, RequestSet DEF Done
<1>1. ASSUME NEW q \in Passwords, ChangeStart(w, q) PROVE RestTyped
  BY <1>0, <1>1, HashingTyped, ChangeTyped DEF ChangeStart, RestTyped, TypeOK, Tickets, pending
<1>2. ASSUME NEW u \in Users, GithubBack(w, u) PROVE RestTyped
  <2> DEFINE q == [kind |-> "github", user |-> u, password |-> account[u].password,
                   since |-> 0, value |-> None]
  <2>1. account[u] \in Account
    BY <1>2 DEF GithubBack, Registered, Known, TypeOK
  <2>2. q \in Request
    BY <2>1 DEF Request, Account
  <2>3. request' = [request EXCEPT ![w] = q]
    BY <1>2 DEF GithubBack
  <2>4. request' \in [Clients -> Request \cup {None}]
    BY <2>2, <2>3, RequestSet
  <2> QED
    BY <1>2, <2>4 DEF GithubBack, RestTyped, TypeOK, Tickets
<1>3. CASE GithubStart(w)
  BY <1>0, <1>3, ChangeTyped DEF GithubStart, RestTyped, TypeOK, Tickets
<1>4. CASE ChangeWrite(w) \/ \E g \in GithubIds : GithubBind(w, g)
  BY <1>4, <1>00 DEF ChangeWrite, GithubBind, RestTyped, TypeOK, Tickets, pending
<1>5. CASE EnableTotp(w) \/ ConfirmTotp(w) \/ \E i \in Invites : ActivateDeveloper(w, i)
  BY <1>5, ChangeTyped DEF EnableTotp, ConfirmTotp, ActivateDeveloper, RestTyped, TypeOK, Tickets, pending
<1> QED
  BY <1>1, <1>2, <1>3, <1>4, <1>5 DEF Own

\* And what operators do, and the end of a window.
LEMMA OperateTyped ==
  ASSUME TypeOK, Registered, (\E w \in Clients : Operate(w)) \/ \E u \in Users : WindowEnds(u)
  PROVE  RestTyped
<1> USE AccountsAssumption, NothingAssumption
<1>1. ASSUME NEW w \in Clients, NEW u \in Users, RevokeUserSessions(w, u) \/ DisableUser(w, u) PROVE RestTyped
  BY <1>1, CutTyped, ChangeTyped DEF RevokeUserSessions, DisableUser, RestTyped, TypeOK, Tickets, pending
<1>2. ASSUME NEW u \in Users, WindowEnds(u) PROVE RestTyped
  BY <1>2, ChangeTyped DEF WindowEnds, RestTyped, TypeOK, Tickets
<1>3. ASSUME NEW w \in Clients, NEW u \in Users, CreatePasswordReset(w, u) PROVE RestTyped
  BY <1>3, ChangeTyped DEF CreatePasswordReset, RestTyped, TypeOK, Tickets
<1>4. ASSUME NEW w \in Clients, NEW u \in Users, EnableUser(w, u) \/ \E role \in Roles : SetUserRole(w, u, role)
      PROVE  RestTyped
  BY <1>4, ChangeTyped DEF EnableUser, SetUserRole, RestTyped, TypeOK, Tickets, pending
<1>5. ASSUME NEW w \in Clients, NEW i \in Invites,
             RevokeInvite(w, i) \/ \E role \in Roles : CreateInvite(w, i, role)
      PROVE  RestTyped
  BY <1>5, ChangeTyped DEF RevokeInvite, CreateInvite, RestTyped, TypeOK, Tickets, pending
<1> QED
  BY <1>1, <1>2, <1>3, <1>4, <1>5 DEF Operate

\* Sessions, tickets, resets and requests go on naming who is registered.
LEMMA RegisteredKept ==
  ASSUME TypeOK, Registered, [Next]_vars
  PROVE  Registered'
<1> USE AccountsAssumption, NothingAssumption
<1>0. \A u \in Users : Known(u) => account'[u] # None
  BY EveryStep, KnownKept
<1>1. CASE UNCHANGED <<session, ticket, reset, oauth, request>>
  BY <1>0, <1>1, Parts DEF Registered, Known, TypeOK
<1>2. ASSUME NEW w \in Clients, Done(w), reset' \subseteq reset,
             UNCHANGED <<session, ticket, oauth>>
      PROVE  Registered'
  BY <1>0, <1>2, Parts DEF Registered, Known, TypeOK, Done
<1>3. ASSUME NEW w \in Clients, NEW r \in Request,
             request' = [request EXCEPT ![w] = r], oauth' \subseteq oauth, UNCHANGED <<session, reset>>,
             r.kind \notin {"register", "setup"} => Known(r.user),
             r.kind = "register" => r.value \in Invites \cup {None},
             ticket' = ticket \/ ticket' = [ticket EXCEPT ![w] = None]
      PROVE  Registered'
  <2>1. \A v \in Clients : request'[v] = IF v = w THEN r ELSE request[v]
    BY <1>3 DEF TypeOK
  <2>2. r.user \in Users
    BY DEF Request
  <2> QED
    BY <1>0, <1>3, <2>1, <2>2, Parts DEF Registered, Known, TypeOK
<1>4. ASSUME NEW u \in Users, session' = WithoutSessions(u), UNCHANGED <<ticket, reset, oauth, request>>
      PROVE  Registered'
  <2>1. \A w \in Clients : session'[w] # None => session'[w] = session[w]
    BY <1>4 DEF WithoutSessions
  <2> QED
    BY <1>0, <1>4, <2>1, Parts DEF Registered, Known, TypeOK
<1>10. ASSUME reset' \subseteq reset, oauth' \subseteq oauth,
              \A v \in Clients : session'[v] \in {None, session[v]}
                                  \/ (session'[v].user \in Users /\ Known(session'[v].user)),
              \A v \in Clients : ticket'[v] \in {None, ticket[v]}
                                  \/ (ticket'[v].user \in Users /\ Known(ticket'[v].user)),
              \A v \in Clients : request'[v] \in {None, request[v]}
       PROVE  Registered'
  <2>1. \A u \in reset' \cup oauth' : account'[u] # None
    BY <1>0, <1>10 DEF Registered, TypeOK
  <2>2. ASSUME NEW v \in Clients
        PROVE  /\ session'[v] # None => account'[session'[v].user] # None
               /\ ticket'[v] # None => account'[ticket'[v].user] # None
               /\ request'[v] # None /\ request'[v].kind \notin {"register", "setup"}
                    => account'[request'[v].user] # None
               /\ request'[v] # None /\ request'[v].kind = "register"
                    => request'[v].value \in Invites \cup {None}
    <3>1. session'[v] # None => account'[session'[v].user] # None
      BY <1>0, <1>10, Parts DEF Registered
    <3>2. ticket'[v] # None => account'[ticket'[v].user] # None
      BY <1>0, <1>10, Parts DEF Registered
    <3>3. request'[v] # None => request'[v] = request[v]
      BY <1>10
    <3>4. request'[v] # None /\ request'[v].kind \notin {"register", "setup"}
            => account'[request'[v].user] # None
      BY <1>0, <3>3, Parts DEF Registered
    <3> QED
      BY <3>1, <3>2, <3>3, <3>4 DEF Registered
  <2> QED
    BY <2>1, <2>2 DEF Registered, Known
<1>5. ASSUME NEW w \in Clients, Enter(w) PROVE Registered'
  <2> DEFINE r == request[w]
  <2>0. /\ r # None => r \in Request /\ r.user \in Users /\ r.password \in Passwords /\ r.since \in Nat
        /\ ticket[w] # None => /\ ticket[w].user \in Users /\ ticket[w].password \in Passwords
                               /\ ticket[w].since \in Nat /\ Known(ticket[w].user)
        /\ r # None /\ r.kind \notin {"register", "setup"} => Known(r.user)
    BY Parts DEF Registered
  <2>1. ASSUME NEW u \in Users, NEW p \in Passwords,
               \/ SetupStart(w, u, p) \/ (ResetStart(w, u, p) /\ u \in reset)
               \/ \E i \in Invites \cup {None} : RegisterStart(w, u, p, i)
        PROVE  Registered'
    <3>1. PICK kind \in {"register", "setup", "reset"}, v \in Invites \cup {None} :
            /\ Hashing(w, kind, u, p, v) /\ UNCHANGED <<session, pending>>
            /\ kind = "reset" => u \in reset
      BY <2>1 DEF SetupStart, ResetStart, RegisterStart
    <3> DEFINE q == [kind |-> kind, user |-> u, password |-> p, since |-> 0, value |-> v]
    <3>2. q \in Request /\ q.kind = kind /\ q.user = u /\ q.value = v
      BY DEF Request
    <3>3. request' = [request EXCEPT ![w] = q] /\ UNCHANGED <<session, ticket, reset, oauth>>
      BY <3>1 DEF Hashing, pending
    <3>4. kind = "reset" => Known(u)
      BY <3>1 DEF Registered
    <3> HIDE DEF q
    <3> QED
      BY <3>2, <3>3, <3>4, <1>3
  <2>2. ASSUME NEW u \in Users, NEW p \in Passwords, LoginStart(w, u, p) PROVE Registered'
    <3> DEFINE q == [kind |-> IF account[u].totp = "on" THEN "ticket" ELSE "issue",
                     user |-> u, password |-> p, since |-> cuts[u], value |-> None]
    <3>1. q \in Request /\ q.kind \in {"ticket", "issue"} /\ q.user = u
      BY DEF Request, TypeOK
    <3>2. CASE Known(u) /\ request' = [request EXCEPT ![w] = q]
      <4>1. UNCHANGED <<session, ticket, reset, oauth>>
        BY <2>2 DEF LoginStart
      <4> HIDE DEF q
      <4> QED
        BY <3>1, <3>2, <4>1, <1>3
    <3>3. CASE UNCHANGED request
      BY <2>2, <3>3, <1>1 DEF LoginStart
    <3> QED
      BY <2>2, <3>2, <3>3 DEF LoginStart
  <2>3. CASE SetupWrite(w) \/ RegisterWrite(w) \/ Fails(w)
    BY <2>3, <1>2 DEF SetupWrite, RegisterWrite, Fails, pending
  <2>4. CASE ResetWrite(w)
    <3>1. CASE r.user \notin reset
      BY <2>4, <3>1, <1>2 DEF ResetWrite
    <3>2. CASE r.user \in reset
      <4>1. /\ session' = WithoutSessions(r.user) /\ Done(w) /\ reset' \subseteq reset
            /\ UNCHANGED <<ticket, oauth>>
        BY <2>4, <3>2 DEF ResetWrite, Cut
      <4>2. \A v \in Clients : session'[v] \in {None, session[v]}
        BY <4>1 DEF WithoutSessions
      <4>3. \A v \in Clients : request'[v] \in {None, request[v]}
        BY <4>1 DEF Done, TypeOK
      <4> QED
        BY <1>10, <4>1, <4>2, <4>3
    <3> QED
      BY <3>1, <3>2
  <2>5. CASE LoginTicket(w)
    <3> DEFINE t == [user |-> r.user, password |-> r.password, since |-> r.since]
    <3>1. t.user = r.user /\ r.user \in Users /\ Known(r.user)
      BY <2>0, <2>5 DEF LoginTicket
    <3>2. ticket' = [ticket EXCEPT ![w] = t] /\ Done(w) /\ UNCHANGED <<session, reset, oauth>>
      BY <2>5 DEF LoginTicket
    <3> HIDE DEF t
    <3>3. \A v \in Clients : ticket'[v] \in {t, ticket[v]}
      BY <3>2 DEF TypeOK
    <3>4. \A v \in Clients : request'[v] \in {None, request[v]}
      BY <3>2 DEF Done, TypeOK
    <3> QED
      BY <1>10, <3>1, <3>2, <3>3, <3>4
  <2>6. ASSUME NEW code \in Codes \cup {None}, CompleteStart(w, code) PROVE Registered'
    <3> DEFINE q == [kind |-> "complete", user |-> ticket[w].user, password |-> ticket[w].password,
                     since |-> ticket[w].since, value |-> code]
    <3>1. q \in Request /\ q.kind = "complete" /\ Known(q.user)
      BY <2>0, <2>6 DEF CompleteStart, Request
    <3>2. request' = [request EXCEPT ![w] = q] /\ UNCHANGED <<session, ticket, reset, oauth>>
      BY <2>6 DEF CompleteStart, pending
    <3> HIDE DEF q
    <3> QED
      BY <3>1, <3>2, <1>3
  <2>7. CASE CompleteWrite(w)
    <3> DEFINE q == [r EXCEPT !.kind = "issue", !.value = None]
    <3>1. q \in Request /\ q.kind = "issue" /\ Known(q.user)
      BY <2>0, <2>7 DEF CompleteWrite, Request
    <3>2. /\ request' = [request EXCEPT ![w] = q] /\ UNCHANGED <<session, reset, oauth>>
          /\ ticket' = [ticket EXCEPT ![w] = None]
      BY <2>7 DEF CompleteWrite
    <3> HIDE DEF q
    <3> QED
      BY <3>1, <3>2, <1>3
  <2>8. CASE IssueSession(w)
    <3> DEFINE t == [user |-> r.user, password |-> r.password, since |-> r.since,
                     raced |-> r.since # cuts[r.user]]
    <3>1. t.user = r.user /\ r.user \in Users /\ Known(r.user)
      BY <2>0, <2>8 DEF IssueSession
    <3>2. session' = [session EXCEPT ![w] = t] /\ Done(w) /\ UNCHANGED <<ticket, reset, oauth>>
      BY <2>8 DEF IssueSession, pending
    <3> HIDE DEF t
    <3>3. \A v \in Clients : session'[v] \in {t, session[v]}
      BY <3>2 DEF TypeOK
    <3>4. \A v \in Clients : request'[v] \in {None, request[v]}
      BY <3>2 DEF Done, TypeOK
    <3> QED
      BY <1>10, <3>1, <3>2, <3>3, <3>4
  <2>9. CASE EndSession(w)
    <3>1. \A v \in Clients : session'[v] # None => session'[v] = session[v]
      BY <2>9 DEF EndSession, TypeOK
    <3> QED
      BY <1>0, <2>9, <3>1, Parts DEF EndSession, Registered, Known, TypeOK, pending
  <2> QED
    BY <1>5, <2>1, <2>2, <2>3, <2>4, <2>5, <2>6, <2>7, <2>8, <2>9 DEF Enter, ResetStart
<1>6. ASSUME NEW w \in Clients, Own(w) PROVE Registered'
  <2> DEFINE p == Principal(w)
  <2>0. p # None => p \in Users /\ Known(p)
    BY Parts DEF Registered
  <2>1. ASSUME NEW q \in Passwords, ChangeStart(w, q) PROVE Registered'
    <3> DEFINE r == [kind |-> "change", user |-> p, password |-> q, since |-> 0, value |-> None]
    <3>1. r \in Request /\ r.kind = "change" /\ Known(r.user)
      BY <2>0, <2>1 DEF ChangeStart, Request
    <3>2. request' = [request EXCEPT ![w] = r] /\ UNCHANGED <<session, ticket, reset, oauth>>
      BY <2>1 DEF ChangeStart, Hashing, pending
    <3> HIDE DEF r
    <3> QED
      BY <3>1, <3>2, <1>3
  <2>2. ASSUME NEW u \in Users, GithubBack(w, u) PROVE Registered'
    <3> DEFINE r == [kind |-> "github", user |-> u, password |-> account[u].password,
                     since |-> 0, value |-> None]
    <3>1. Known(u) /\ account[u] \in Account
      BY <2>2 DEF GithubBack, Registered, Known, TypeOK
    <3>2. r \in Request /\ r.kind = "github" /\ Known(r.user)
      BY <3>1 DEF Request, Account
    <3>3. /\ request' = [request EXCEPT ![w] = r] /\ UNCHANGED <<session, ticket, reset>>
          /\ oauth' \subseteq oauth
      BY <2>2 DEF GithubBack
    <3> HIDE DEF r
    <3> QED
      BY <3>2, <3>3, <1>3
  <2>3. CASE GithubStart(w)
    BY <1>0, <2>0, <2>3, Parts DEF GithubStart, Registered, Known, TypeOK
  <2>4. CASE ChangeWrite(w) \/ \E g \in GithubIds : GithubBind(w, g)
    BY <2>4, <1>2 DEF ChangeWrite, GithubBind, pending
  <2>5. CASE EnableTotp(w) \/ ConfirmTotp(w) \/ \E i \in Invites : ActivateDeveloper(w, i)
    BY <2>5, <1>1 DEF EnableTotp, ConfirmTotp, ActivateDeveloper, pending
  <2> QED
    BY <1>6, <2>1, <2>2, <2>3, <2>4, <2>5 DEF Own
<1>7. ASSUME NEW w \in Clients, Operate(w) PROVE Registered'
  <2>1. ASSUME NEW u \in Users, RevokeUserSessions(w, u) \/ DisableUser(w, u) PROVE Registered'
    BY <2>1, <1>4 DEF RevokeUserSessions, DisableUser, Cut, pending
  <2>2. ASSUME NEW u \in Users, CreatePasswordReset(w, u) PROVE Registered'
    BY <1>0, <2>2, Parts DEF CreatePasswordReset, Registered, Known, TypeOK
  <2> QED
    BY <1>1, <1>7, <2>1, <2>2
    DEF Operate, EnableUser, SetUserRole, RevokeInvite, CreateInvite, pending
<1>8. ASSUME NEW u \in Users, WindowEnds(u) PROVE Registered'
  BY <1>1, <1>8 DEF WindowEnds
<1>9. CASE UNCHANGED vars
  BY <1>1, <1>9 DEF vars, pending
<1> QED
  BY <1>5, <1>6, <1>7, <1>8, <1>9 DEF Next

\* Accounts, sessions, invitations, tickets and requests keep their types, and
\* name nobody who is not registered.
THEOREM AccountsTyped == Spec => [](TypeOK /\ Registered)
<1>1. Init => TypeOK /\ Registered
  <2>1. 0 \in 0..MaxChanges
    BY AccountsAssumption
  <2> QED
    BY <2>1 DEF Init, TypeOK, Registered
<1>2. TypeOK /\ Registered /\ [Next]_vars => TypeOK'
  <2> SUFFICES ASSUME TypeOK, Registered, [Next]_vars PROVE TypeOK'
    OBVIOUS
  <2>1. RestTyped
    <3>1. CASE UNCHANGED vars
      BY <3>1 DEF vars, RestTyped, TypeOK, Tickets, pending
    <3> QED
      BY <3>1, EnterTyped, OwnTyped, OperateTyped DEF Next
  <2> QED
    BY <2>1, EveryStep, AccountTyped DEF RestTyped, TypeOK, Tickets
<1>3. TypeOK /\ Registered /\ [Next]_vars => (TypeOK /\ Registered)'
  BY <1>2, RegisteredKept
<1> QED
  BY <1>1, <1>3, PTL DEF Spec

(***************************************************************************)
(* Sessions are current.                                                   *)
(***************************************************************************)
LoginKinds == {"ticket", "complete", "issue"}

\* Whoever logged in as u with password p, when the sessions of u had been ended
\* s times, still may: unless they were ended since, u is not disabled and the
\* password is in force or was changed by its owner.
Good(u, p, s) ==
  /\ Known(u) /\ s <= cuts[u]
  /\ s = cuts[u] => /\ ~account[u].disabled
                    /\ account[u].password = p \/ u \in changed

\* Every login under way, ticket and session is good.
Fresh ==
  \A w \in Clients :
    /\ session[w] # None /\ ~session[w].raced =>
         /\ Good(session[w].user, session[w].password, session[w].since)
         /\ session[w].since = cuts[session[w].user]
    /\ ticket[w] # None => Good(ticket[w].user, ticket[w].password, ticket[w].since)
    /\ request[w] # None /\ request[w].kind \in LoginKinds =>
         Good(request[w].user, request[w].password, request[w].since)

\* What was good stays good: whatever makes it wrong ends the sessions.
LEMMA GoodKept ==
  ASSUME TypeOK, AccountStep
  PROVE  \A u \in Users, p \in Passwords, s \in Nat : Good(u, p, s) => Good(u, p, s)'
<1> SUFFICES ASSUME NEW u \in Users, NEW p \in Passwords, NEW s \in Nat, Good(u, p, s) PROVE Good(u, p, s)'
  OBVIOUS
<1> USE NothingAssumption
<1>0. account'[u] # None
  BY KnownKept DEF Good
<1>1. CASE UNCHANGED <<account, history>>
  BY <1>1 DEF Good, Known, history
<1>2. ASSUME NEW v \in Users, Cut(v), v # u => account'[u] = account[u]
      PROVE  Good(u, p, s)'
  <2>1. CASE v = u
    BY <1>0, <1>2, <2>1 DEF Good, Known, Cut, TypeOK
  <2>2. CASE v # u
    BY <1>2, <2>2 DEF Good, Known, Cut, TypeOK
  <2> QED
    BY <2>1, <2>2
<1>3. ASSUME NEW v \in Users, NEW a \in Account, account' = [account EXCEPT ![v] = a],
             Registers(v, a) \/ Activates(v, a) \/ Alters(v, a)
      PROVE  Good(u, p, s)'
  <2>1. \A x \in Users : account'[x] = IF x = v THEN a ELSE account[x]
    BY <1>3 DEF TypeOK
  <2>2. CASE Registers(v, a)
    BY <2>1, <2>2 DEF Registers, Good, Known, history
  <2>3. CASE Activates(v, a)
    <3>1. a.disabled = account[v].disabled /\ a.password = account[v].password
      BY <2>3 DEF Activates, TypeOK, Account
    <3> QED
      BY <1>0, <2>1, <2>3, <3>1 DEF Activates, Good, Known, history
  <2>4. CASE Alters(v, a)
    <3>1. CASE Cut(v)
      BY <1>2, <2>1, <3>1
    <3>2. CASE a.password = account[v].password /\ a.disabled \in {account[v].disabled, FALSE}
               /\ UNCHANGED history
      BY <1>0, <2>1, <3>2 DEF Good, Known, history
    <3>3. CASE a.disabled = account[v].disabled /\ cuts' = cuts /\ changed' = changed \cup {v}
      BY <1>0, <2>1, <3>3 DEF Good, Known
    <3> QED
      BY <2>4, <3>1, <3>2, <3>3 DEF Alters
  <2> QED
    BY <1>3, <2>2, <2>3, <2>4
<1> QED
  BY <1>1, <1>2, <1>3 DEF AccountStep, Issues

\* A session that stays is of a name whose sessions were not ended; another is
\* of a login.
LEMMA SessionStep ==
  ASSUME TypeOK, Registered, [Next]_vars, NEW w \in Clients, session'[w] # None
  PROVE  \/ session'[w] = session[w] /\ cuts'[session[w].user] = cuts[session[w].user]
         \/ IssueSession(w)
<1> DEFINE P == \/ session'[w] = session[w] /\ cuts'[session[w].user] = cuts[session[w].user]
                \/ IssueSession(w)
<1>1. ASSUME NEW u \in Users, Cut(u) PROVE P
  <2>1. session[w] # None /\ session[w].user # u /\ session'[w] = session[w]
    BY <1>1 DEF Cut, WithoutSessions
  <2>2. session[w].user \in Users
    BY <2>1, Parts
  <2> QED
    BY <1>1, <2>1, <2>2 DEF Cut, TypeOK
<1>2. CASE UNCHANGED <<session, cuts>>
  BY <1>2
<1>3. ASSUME NEW v \in Clients, Enter(v) PROVE P
  <2>1. CASE ResetWrite(v)
    <3>1. request[v].user \in Users
      BY <2>1, Parts DEF ResetWrite
    <3> QED
      BY <1>1, <1>2, <2>1, <3>1 DEF ResetWrite, history
  <2>2. CASE IssueSession(v)
    BY <2>2 DEF IssueSession, TypeOK, history
  <2>3. CASE EndSession(v)
    BY <2>3 DEF EndSession, TypeOK, history
  <2> QED
    BY <1>2, <1>3, <2>1, <2>2, <2>3
    DEF Enter, SetupStart, LoginStart, ResetStart, RegisterStart, SetupWrite, RegisterWrite, LoginTicket,
        CompleteWrite, CompleteStart, Fails, history
<1>4. ASSUME NEW v \in Clients, Own(v) PROVE P
  BY <1>2, <1>4
  DEF Own, ChangeStart, ChangeWrite, EnableTotp, ConfirmTotp, GithubStart, GithubBack, GithubBind,
      ActivateDeveloper, history
<1>5. ASSUME NEW v \in Clients, Operate(v) PROVE P
  BY <1>1, <1>2, <1>5
  DEF Operate, RevokeInvite, CreateInvite, RevokeUserSessions, DisableUser, EnableUser,
      CreatePasswordReset, SetUserRole, history
<1>6. ASSUME NEW u \in Users, WindowEnds(u) PROVE P
  BY <1>2, <1>6 DEF WindowEnds, history
<1>7. CASE UNCHANGED vars
  BY <1>2, <1>7 DEF vars, history
<1> QED
  BY <1>3, <1>4, <1>5, <1>6, <1>7 DEF Next

\* A ticket that is new is of a login whose password was right.
LEMMA TicketStep ==
  ASSUME TypeOK, Registered, [Next]_vars, NEW w \in Clients, ticket'[w] # None
  PROVE  \/ ticket'[w] = ticket[w]
         \/ /\ request[w] # None /\ request[w].kind = "ticket"
            /\ ticket'[w].user = request[w].user /\ ticket'[w].password = request[w].password
            /\ ticket'[w].since = request[w].since
<1>1. CASE UNCHANGED ticket
  BY <1>1
<1>2. ASSUME NEW v \in Clients, LoginTicket(v) \/ CompleteWrite(v)
      PROVE  \/ ticket'[w] = ticket[w]
             \/ /\ request[w] # None /\ request[w].kind = "ticket"
                /\ ticket'[w].user = request[w].user /\ ticket'[w].password = request[w].password
                /\ ticket'[w].since = request[w].since
  BY <1>2 DEF LoginTicket, CompleteWrite, TypeOK
<1>3. ASSUME NEW v \in Clients, Enter(v), ~LoginTicket(v), ~CompleteWrite(v) PROVE UNCHANGED ticket
  BY <1>3
  DEF pending, Enter, SetupStart, LoginStart, ResetStart, RegisterStart, SetupWrite,
      RegisterWrite, ResetWrite, IssueSession, CompleteStart, EndSession, Fails
<1>4. ASSUME NEW v \in Clients, Own(v) PROVE UNCHANGED ticket
  BY <1>4
  DEF pending, Own, ChangeStart, ChangeWrite, EnableTotp, ConfirmTotp, GithubStart, GithubBack,
      GithubBind, ActivateDeveloper
<1>5. ASSUME NEW v \in Clients, Operate(v) PROVE UNCHANGED ticket
  BY <1>5
  DEF pending, Operate, RevokeInvite, CreateInvite, RevokeUserSessions, DisableUser, EnableUser,
      CreatePasswordReset, SetUserRole
<1>6. ASSUME NEW u \in Users, WindowEnds(u) PROVE UNCHANGED ticket
  BY <1>6 DEF WindowEnds
<1>7. CASE UNCHANGED vars
  BY <1>7 DEF vars, pending
<1> QED
  BY <1>1, <1>2, <1>3, <1>4, <1>5, <1>6, <1>7 DEF Next

\* A login that is new is of an account that was looked at in this step, of a
\* ticket or of a login under way.
LEMMA LoginStep ==
  ASSUME TypeOK, Registered, [Next]_vars, NEW w \in Clients,
         request'[w] # None, request'[w].kind \in LoginKinds
  PROVE  LET r == request'[w] IN
         \/ r = request[w]
         \/ /\ UNCHANGED <<account, cuts, changed>> /\ Known(r.user) /\ r.since = cuts[r.user]
            /\ ~account[r.user].disabled /\ account[r.user].password = r.password /\ r.user \in Users
         \/ /\ ticket[w] # None /\ r.user = ticket[w].user /\ r.password = ticket[w].password
            /\ r.since = ticket[w].since
         \/ /\ request[w] # None /\ request[w].kind = "complete" /\ r.user = request[w].user
            /\ r.password = request[w].password /\ r.since = request[w].since
<1> USE AccountsAssumption, NothingAssumption
<1> DEFINE r == request'[w]
           P == \/ r = request[w]
                \/ /\ UNCHANGED <<account, cuts, changed>> /\ Known(r.user) /\ r.since = cuts[r.user]
                   /\ ~account[r.user].disabled /\ account[r.user].password = r.password /\ r.user \in Users
                \/ /\ ticket[w] # None /\ r.user = ticket[w].user /\ r.password = ticket[w].password
                   /\ r.since = ticket[w].since
                \/ /\ request[w] # None /\ request[w].kind = "complete" /\ r.user = request[w].user
                   /\ r.password = request[w].password /\ r.since = request[w].since
<1>1. ASSUME NEW v \in Clients, NEW q, request' = [request EXCEPT ![v] = q],
             q = None \/ q.kind \notin LoginKinds
      PROVE  P
  BY <1>1 DEF TypeOK
<1>2. CASE r = request[w]
  BY <1>2
<1>3. ASSUME NEW v \in Clients, Enter(v) PROVE P
  <2>1. ASSUME NEW u \in Users, NEW p \in Passwords,
               \/ SetupStart(v, u, p) \/ ResetStart(v, u, p)
               \/ \E i \in Invites \cup {None} : RegisterStart(v, u, p, i)
        PROVE  P
    BY <1>1, <2>1 DEF SetupStart, ResetStart, RegisterStart, Hashing, LoginKinds
  <2>2. ASSUME NEW u \in Users, NEW p \in Passwords, LoginStart(v, u, p) PROVE P
    <3> DEFINE q == [kind |-> IF account[u].totp = "on" THEN "ticket" ELSE "issue",
                     user |-> u, password |-> p, since |-> cuts[u], value |-> None]
    <3>1. CASE Known(u) /\ ~account[u].disabled /\ account[u].password = p
               /\ request' = [request EXCEPT ![v] = q]
      <4>1. w # v => r = request[w]
        BY <3>1 DEF TypeOK
      <4>2. w = v => r = q
        BY <3>1 DEF TypeOK
      <4>3. UNCHANGED <<account, cuts, changed>>
        BY <2>2 DEF LoginStart, history
      <4>4. q.user = u /\ q.password = p /\ q.since = cuts[u]
        OBVIOUS
      <4> HIDE DEF q
      <4> QED
        BY <3>1, <4>1, <4>2, <4>3, <4>4
    <3>2. CASE request' = request
      BY <3>2
    <3> QED
      BY <2>2, <3>1, <3>2 DEF LoginStart
  <2>3. ASSUME NEW code \in Codes \cup {None}, CompleteStart(v, code) PROVE P
    BY <2>3 DEF CompleteStart, TypeOK
  <2>4. CASE CompleteWrite(v)
    <3> DEFINE q == [request[v] EXCEPT !.kind = "issue", !.value = None]
    <3>1. request[v] # None /\ request[v].kind = "complete" /\ request[v] \in Request
      BY <2>4, Parts DEF CompleteWrite
    <3>2. q.user = request[v].user /\ q.password = request[v].password /\ q.since = request[v].since
      BY <3>1 DEF Request
    <3>3. request' = [request EXCEPT ![v] = q]
      BY <2>4 DEF CompleteWrite
    <3> HIDE DEF q
    <3>4. w = v => r = q
      BY <3>3 DEF TypeOK
    <3>5. w # v => r = request[w]
      BY <3>3 DEF TypeOK
    <3> QED
      BY <3>1, <3>2, <3>4, <3>5
  <2>5. CASE SetupWrite(v) \/ RegisterWrite(v) \/ ResetWrite(v) \/ LoginTicket(v) \/ IssueSession(v) \/ Fails(v)
    BY <1>1, <2>5 DEF SetupWrite, RegisterWrite, ResetWrite, LoginTicket, IssueSession, Fails, Done
  <2>6. CASE EndSession(v)
    BY <2>6 DEF EndSession
  <2> QED
    BY <1>3, <2>1, <2>2, <2>3, <2>4, <2>5, <2>6 DEF Enter
<1>4. ASSUME NEW v \in Clients, Own(v) PROVE P
  <2>1. CASE \E p \in Passwords : ChangeStart(v, p)
    BY <1>1, <2>1 DEF ChangeStart, Hashing, LoginKinds
  <2>2. CASE \E u \in Users : GithubBack(v, u)
    BY <1>1, <2>2 DEF GithubBack, LoginKinds
  <2>3. CASE ChangeWrite(v) \/ \E g \in GithubIds : GithubBind(v, g)
    BY <1>1, <2>3 DEF ChangeWrite, GithubBind, Done
  <2> QED
    BY <1>2, <1>4, <2>1, <2>2, <2>3 DEF Own, EnableTotp, ConfirmTotp, GithubStart, ActivateDeveloper
<1>5. ASSUME NEW v \in Clients, Operate(v) PROVE P
  BY <1>2, <1>5
  DEF Operate, RevokeInvite, CreateInvite, RevokeUserSessions, DisableUser, EnableUser,
      CreatePasswordReset, SetUserRole
<1> QED
  BY <1>2, <1>3, <1>4, <1>5 DEF Next, vars, WindowEnds

\* Logins, tickets and sessions stay good.
LEMMA FreshKept ==
  ASSUME TypeOK, Registered, Fresh, [Next]_vars
  PROVE  Fresh'
<1> USE AccountsAssumption, NothingAssumption
<1>1. \A u \in Users, p \in Passwords, s \in Nat : Good(u, p, s) => Good(u, p, s)'
  BY EveryStep, GoodKept
<1>2. ASSUME NEW w \in Clients, ticket'[w] # None
      PROVE  Good(ticket[w].user, ticket[w].password, ticket[w].since)'
  <2>1. CASE ticket'[w] = ticket[w]
    BY <1>1, <1>2, <2>1, Parts DEF Fresh, Good, Known
  <2>2. CASE /\ request[w] # None /\ request[w].kind = "ticket"
             /\ ticket'[w].user = request[w].user /\ ticket'[w].password = request[w].password
             /\ ticket'[w].since = request[w].since
    BY <1>1, <2>2, Parts DEF Fresh, Good, Known, LoginKinds
  <2> QED
    BY <1>2, <2>1, <2>2, TicketStep
<1>3. ASSUME NEW w \in Clients, request'[w] # None, request'[w].kind \in LoginKinds
      PROVE  Good(request[w].user, request[w].password, request[w].since)'
  <2> DEFINE r == request'[w]
  <2>1. CASE r = request[w]
    BY <1>1, <1>3, <2>1, Parts DEF Fresh, Good, Known
  <2>2. CASE /\ UNCHANGED <<account, cuts, changed>> /\ Known(r.user) /\ r.since = cuts[r.user]
             /\ ~account[r.user].disabled /\ account[r.user].password = r.password /\ r.user \in Users
    BY <2>2 DEF Good, Known, TypeOK
  <2>3. CASE /\ ticket[w] # None /\ r.user = ticket[w].user /\ r.password = ticket[w].password
             /\ r.since = ticket[w].since
    BY <1>1, <2>3, Parts DEF Fresh, Good, Known
  <2>4. CASE /\ request[w] # None /\ request[w].kind = "complete" /\ r.user = request[w].user
             /\ r.password = request[w].password /\ r.since = request[w].since
    BY <1>1, <2>4, Parts DEF Fresh, Good, Known, LoginKinds
  <2> QED
    BY <1>3, <2>1, <2>2, <2>3, <2>4, LoginStep
<1>4. ASSUME NEW w \in Clients, session'[w] # None, ~session'[w].raced
      PROVE  /\ Good(session[w].user, session[w].password, session[w].since)'
             /\ session'[w].since = cuts'[session'[w].user]
  <2>1. CASE session'[w] = session[w] /\ cuts'[session[w].user] = cuts[session[w].user]
    <3>1. /\ session[w].user \in Users /\ session[w].password \in Passwords
          /\ session[w].since \in Nat
      BY <1>4, <2>1 DEF TypeOK, Session
    <3>2. /\ Good(session[w].user, session[w].password, session[w].since)
          /\ session[w].since = cuts[session[w].user]
      BY <1>4, <2>1 DEF Fresh
    <3> QED
      BY <1>1, <2>1, <3>1, <3>2 DEF Good, Known
  <2>2. CASE IssueSession(w)
    <3> DEFINE r == request[w]
               s == [user |-> r.user, password |-> r.password, since |-> r.since,
                     raced |-> r.since # cuts[r.user]]
    <3>1. r # None /\ r.kind = "issue" /\ session'[w] = s /\ UNCHANGED <<account, cuts, changed>>
      BY <2>2 DEF IssueSession, history, TypeOK
    <3>2. r.user \in Users /\ r.password \in Passwords /\ r.since \in Nat
      BY <3>1, Parts
    <3>3. Good(r.user, r.password, r.since)
      BY <3>1 DEF Fresh, LoginKinds
    <3>4. s.user = r.user /\ s.password = r.password /\ s.since = r.since /\ (s.raced <=> r.since # cuts[r.user])
      OBVIOUS
    <3> HIDE DEF s
    <3> QED
      BY <1>4, <3>1, <3>2, <3>3, <3>4 DEF Good, Known
  <2> QED
    BY <1>4, <2>1, <2>2, SessionStep
<1> QED
  BY <1>2, <1>3, <1>4 DEF Fresh, Good, Known

\* A session that is left is of a login since the last time all sessions of its
\* user were ended, and its user may still have it, except when the login had
\* read the account before and issued the session after.
THEOREM CurrentCorrect == Spec => []SessionsAreCurrent
<1>1. Init => Fresh
  BY DEF Init, Fresh
<1>2. TypeOK /\ Registered /\ Fresh /\ [Next]_vars => Fresh'
  BY FreshKept
<1>3. Fresh => SessionsAreCurrent
  BY DEF Fresh, SessionsAreCurrent, Good
<1> QED
  BY <1>1, <1>2, <1>3, AccountsTyped, PTL DEF Spec

(***************************************************************************)
(* Roles are granted.                                                      *)
(***************************************************************************)
\* An invitation counts at least the accounts that are from it, and never
\* more than it allows.
Counted ==
  \A i \in Invites :
    /\ IsFiniteSet(From(i))
    /\ invite[i] = None => From(i) = {}
    /\ invite[i] # None => Cardinality(From(i)) <= invite[i].used /\ invite[i].used <= InviteLimit[i]

\* Only the bootstrap token invites administrators.
Rooted == \A i \in Invites : invite[i] # None /\ invite[i].role = "superadmin" => invite[i].by = "bootstrap"

\* One administrator is of the setup, and no GitHub account is bound twice.
Single ==
  /\ \A u, v \in From("setup") : u = v
  /\ \A u, v \in Users :
       Known(u) /\ Known(v) /\ account[u].github # None /\ account[u].github = account[v].github => u = v

Grants == Counted /\ Rooted /\ Single /\ AdminsAreRooted

\* Accounts that are from an invitation number no more than before, or one more.
LEMMA CountStep ==
  ASSUME NEW S, IsFiniteSet(S), NEW T, NEW v, T \subseteq S \cup {v}
  PROVE  /\ IsFiniteSet(T) /\ Cardinality(T) \in Nat /\ Cardinality(S) \in Nat
         /\ Cardinality(T) <= Cardinality(S) + 1
         /\ T \subseteq S => Cardinality(T) <= Cardinality(S)
<1>1. IsFiniteSet(S \cup {v}) /\ Cardinality(S \cup {v}) <= Cardinality(S) + 1
  <2>1. Cardinality(S) \in Nat
    BY FS_CardinalityType
  <2>2. /\ IsFiniteSet(S \cup {v})
        /\ Cardinality(S \cup {v}) = IF v \in S THEN Cardinality(S) ELSE Cardinality(S) + 1
    BY FS_AddElement
  <2> QED
    BY <2>1, <2>2
<1>2. IsFiniteSet(T) /\ Cardinality(T) <= Cardinality(S \cup {v})
  BY <1>1, FS_Subset
<1>3. T \subseteq S => Cardinality(T) <= Cardinality(S)
  BY FS_Subset
<1>4. Cardinality(T) \in Nat /\ Cardinality(S) \in Nat /\ Cardinality(S \cup {v}) \in Nat
  BY <1>1, <1>2, FS_CardinalityType
<1> QED
  BY <1>1, <1>2, <1>3, <1>4

\* What a use of an invitation changes.
LEMMA UsesStep ==
  ASSUME TypeOK, NEW i \in Invites, Uses(i)
  PROVE  /\ invite[i] # None /\ invite[i].used \in Nat /\ invite[i].used < InviteLimit[i]
         /\ invite'[i] # None /\ invite'[i].used = invite[i].used + 1
         /\ invite'[i].role = invite[i].role /\ invite'[i].by = invite[i].by
         /\ \A j \in Invites : j # i => invite'[j] = invite[j]
<1> USE NothingAssumption
<1>1. invite[i] # None /\ invite[i].used < InviteLimit[i] /\ invite[i] \in Invite
  BY DEF Uses, Usable, TypeOK
<1> DEFINE n == [invite[i] EXCEPT !.used = @ + 1]
<1>2. /\ n \in Invite /\ n.used = invite[i].used + 1 /\ n.role = invite[i].role
      /\ n.by = invite[i].by /\ invite[i].used \in Nat
  BY <1>1 DEF Invite
<1>3. invite' = [invite EXCEPT ![i] = n]
  BY DEF Uses
<1> HIDE DEF n
<1>4. invite'[i] = n /\ \A j \in Invites : j # i => invite'[j] = invite[j]
  BY <1>3 DEF TypeOK
<1>5. n # None
  BY <1>2
<1> QED
  BY <1>1, <1>2, <1>4, <1>5

\* Invitations go on counting.
LEMMA CountedKept ==
  ASSUME TypeOK, Counted, AccountStep
  PROVE  Counted'
<1> USE AccountsAssumption, NothingAssumption
<1> DEFINE Later(i) == {u \in Users : account'[u] # None /\ account'[u].from = i}
<1> SUFFICES ASSUME NEW i \in Invites
             PROVE  /\ IsFiniteSet(Later(i))
                    /\ invite'[i] = None => Later(i) = {}
                    /\ invite'[i] # None => /\ Cardinality(Later(i)) <= invite'[i].used
                                            /\ invite'[i].used <= InviteLimit[i]
  BY DEF Counted, From, Known
<1>0. /\ IsFiniteSet(From(i)) /\ (invite[i] = None => From(i) = {})
      /\ invite[i] # None => /\ Cardinality(From(i)) <= invite[i].used /\ invite[i].used <= InviteLimit[i]
                             /\ invite[i].used \in Nat
      /\ InviteLimit[i] \in Nat
  BY DEF Counted, TypeOK, Invite
<1> HIDE DEF Later
<1>6. ASSUME NEW v, Later(i) \subseteq From(i) \cup {v}
      PROVE  /\ IsFiniteSet(Later(i)) /\ Cardinality(Later(i)) \in Nat /\ Cardinality(From(i)) \in Nat
             /\ Cardinality(Later(i)) <= Cardinality(From(i)) + 1
             /\ Later(i) \subseteq From(i) => Cardinality(Later(i)) <= Cardinality(From(i))
  BY <1>0, <1>6, CountStep
<1>1. CASE Later(i) \subseteq From(i) /\ invite'[i] = invite[i]
  <2>1. Later(i) \subseteq From(i) \cup {None}
    BY <1>1
  <2>2. /\ IsFiniteSet(Later(i)) /\ Cardinality(Later(i)) \in Nat /\ Cardinality(From(i)) \in Nat
        /\ Cardinality(Later(i)) <= Cardinality(From(i))
    BY <1>1, <1>6, <2>1
  <2> QED
    BY <1>0, <1>1, <2>2
<1>2. ASSUME NEW v \in Users, Later(i) \subseteq From(i) \cup {v}, Uses(i) PROVE
               /\ IsFiniteSet(Later(i))
               /\ invite'[i] = None => Later(i) = {}
               /\ invite'[i] # None => /\ Cardinality(Later(i)) <= invite'[i].used
                                       /\ invite'[i].used <= InviteLimit[i]
  <2>1. /\ IsFiniteSet(Later(i)) /\ Cardinality(Later(i)) \in Nat /\ Cardinality(From(i)) \in Nat
        /\ Cardinality(Later(i)) <= Cardinality(From(i)) + 1
    BY <1>2, <1>6
  <2>2. /\ invite[i] # None /\ invite[i].used \in Nat /\ invite[i].used < InviteLimit[i]
        /\ invite'[i] # None /\ invite'[i].used = invite[i].used + 1
    BY <1>2, UsesStep
  <2> QED
    BY <1>0, <2>1, <2>2
<1>3. CASE Issues
  <2>1. PICK j \in Invites, n \in Invite :
          /\ invite' = [invite EXCEPT ![j] = n] /\ UNCHANGED <<account, history>>
          /\ \/ invite[j] = None /\ n.used = 0
             \/ invite[j] # None /\ n.used = invite[j].used
    BY <1>3 DEF Issues
  <2>2. Later(i) = From(i)
    BY <2>1 DEF From, Known, Later
  <2>3. CASE i # j
    BY <1>1, <2>1, <2>2, <2>3 DEF TypeOK
  <2>4. CASE i = j
    <3>1. invite'[i] = n /\ n # None
      BY <2>1, <2>4 DEF TypeOK
    <3>2. CASE invite[i] = None
      <4>1. Later(i) = {} /\ n.used = 0
        BY <1>0, <2>1, <2>2, <2>4, <3>2
      <4>2. Cardinality(Later(i)) = 0 /\ IsFiniteSet(Later(i))
        BY <4>1, FS_EmptySet
      <4> QED
        BY <1>0, <3>1, <4>1, <4>2
    <3>3. CASE invite[i] # None
      BY <1>0, <2>1, <2>2, <2>4, <3>1, <3>3
    <3> QED
      BY <3>2, <3>3
  <2> QED
    BY <2>3, <2>4
<1>4. ASSUME NEW v \in Users, NEW a \in Account, account' = [account EXCEPT ![v] = a],
             Registers(v, a) \/ Activates(v, a) \/ Alters(v, a)
      PROVE    /\ IsFiniteSet(Later(i))
               /\ invite'[i] = None => Later(i) = {}
               /\ invite'[i] # None => /\ Cardinality(Later(i)) <= invite'[i].used
                                       /\ invite'[i].used <= InviteLimit[i]
  <2>1. \A x \in Users : account'[x] = IF x = v THEN a ELSE account[x]
    BY <1>4 DEF TypeOK
  <2>2. Later(i) \subseteq From(i) \cup {v}
    BY <2>1 DEF From, Known, Later
  <2>3. a.from # i => Later(i) \subseteq From(i)
    BY <2>1 DEF From, Known, Later
  <2>4. ASSUME NEW j \in Invites, Uses(j), a.from = j
        PROVE    /\ IsFiniteSet(Later(i))
                 /\ invite'[i] = None => Later(i) = {}
                 /\ invite'[i] # None => /\ Cardinality(Later(i)) <= invite'[i].used
                                         /\ invite'[i].used <= InviteLimit[i]
    BY <1>1, <1>2, <2>2, <2>3, <2>4, UsesStep
  <2>5. CASE Registers(v, a)
    <3>1. CASE a.from \in {"setup", "open"} /\ UNCHANGED invite
      BY <1>1, <2>3, <3>1
    <3>2. \/ a.from \in {"setup", "open"} /\ UNCHANGED invite
          \/ \E j \in Invites : Uses(j) /\ a.from = j
      BY <2>5 DEF Registers, NewAccount
    <3> QED
      BY <2>4, <3>1, <3>2
  <2>6. CASE Activates(v, a)
    <3>1. account[v] \in Account
      BY <2>6 DEF Activates, TypeOK
    <3>2. \E j \in Invites : Uses(j) /\ a.from = j
      BY <2>6, <3>1 DEF Activates, Account
    <3> QED
      BY <2>4, <3>2
  <2>7. CASE Alters(v, a)
    <3>1. Later(i) \subseteq From(i) /\ UNCHANGED invite
      BY <2>1, <2>7 DEF Alters, From, Known, Later
    <3> QED
      BY <1>1, <3>1
  <2> QED
    BY <1>4, <2>5, <2>6, <2>7
<1>5. CASE UNCHANGED <<account, invite>>
  BY <1>1, <1>5 DEF From, Known, Later
<1> QED
  BY <1>3, <1>4, <1>5 DEF AccountStep

\* Nobody but the bootstrap token comes to invite administrators.
LEMMA RootedKept ==
  ASSUME TypeOK, Rooted, AccountStep
  PROVE  Rooted'
<1> USE AccountsAssumption, NothingAssumption
<1> SUFFICES ASSUME NEW i \in Invites, invite'[i] # None, invite'[i].role = "superadmin"
             PROVE  invite'[i].by = "bootstrap"
  BY DEF Rooted
<1>1. CASE UNCHANGED invite
  BY <1>1 DEF Rooted
<1>2. ASSUME NEW j \in Invites, Uses(j) PROVE invite'[i].by = "bootstrap"
  BY <1>2, UsesStep DEF Rooted
<1>3. CASE Issues
  <2>1. PICK j \in Invites, n \in Invite :
          /\ invite' = [invite EXCEPT ![j] = n]
          /\ \/ invite[j] = None /\ (n.role = "superadmin" => n.by = "bootstrap")
             \/ invite[j] # None /\ n.role = invite[j].role /\ n.by = invite[j].by
    BY <1>3 DEF Issues
  <2>2. invite'[i] = IF i = j THEN n ELSE invite[i]
    BY <2>1 DEF TypeOK
  <2> QED
    BY <2>1, <2>2 DEF Rooted
<1> QED
  BY <1>1, <1>2, <1>3 DEF AccountStep, Registers, Activates, Alters

\* An invitation that was issued is never issued again: who invited stays.
LEMMA InviterKept ==
  ASSUME TypeOK, AccountStep, NEW i \in Invites, invite[i] # None
  PROVE  invite'[i] # None /\ invite'[i].by = invite[i].by
<1> USE NothingAssumption
<1>1. CASE UNCHANGED invite
  BY <1>1
<1>2. ASSUME NEW j \in Invites, Uses(j) PROVE invite'[i] # None /\ invite'[i].by = invite[i].by
  BY <1>2, UsesStep
<1>3. CASE Issues
  BY <1>3 DEF Issues, TypeOK
<1> QED
  BY <1>1, <1>2, <1>3 DEF AccountStep, Registers, Activates, Alters

\* Administrators stay those of the setup or of the bootstrap token, and what
\* is single stays single.
LEMMA AdminsKept ==
  ASSUME TypeOK, Grants, AccountStep
  PROVE  Single' /\ AdminsAreRooted'
<1> USE AccountsAssumption, NothingAssumption
<1> DEFINE S == /\ \A x, y \in Users :
                     account'[x] # None /\ account'[x].from = "setup"
                       /\ account'[y] # None /\ account'[y].from = "setup" => x = y
                /\ \A x, y \in Users :
                     account'[x] # None /\ account'[y] # None /\ account'[x].github # None
                       /\ account'[x].github = account'[y].github => x = y
           A == \A x \in Users :
                  account'[x] # None /\ account'[x].role = "superadmin" =>
                    \/ account'[x].from = "setup"
                    \/ account'[x].from \in Invites /\ invite'[account'[x].from].by = "bootstrap"
<1> SUFFICES S /\ A
  BY DEF Single, From, Known, AdminsAreRooted
<1>0. \A x \in Users : account[x] # None /\ account[x].from \in Invites =>
         /\ invite[account[x].from] # None
         /\ invite'[account[x].from].by = invite[account[x].from].by
  <2> SUFFICES ASSUME NEW x \in Users, account[x] # None, account[x].from \in Invites
               PROVE  /\ invite[account[x].from] # None
                      /\ invite'[account[x].from].by = invite[account[x].from].by
    OBVIOUS
  <2>1. x \in From(account[x].from)
    BY DEF From, Known
  <2>2. invite[account[x].from] # None
    BY <2>1 DEF Grants, Counted
  <2> QED
    BY <2>2, InviterKept
<1>1. CASE UNCHANGED account
  <2>1. S
    BY <1>1 DEF Grants, Single, From, Known
  <2>2. A
    BY <1>0, <1>1 DEF Grants, AdminsAreRooted, Known
  <2> QED
    BY <2>1, <2>2
<1>2. ASSUME NEW v \in Users, NEW a \in Account, account' = [account EXCEPT ![v] = a],
             Registers(v, a) \/ Activates(v, a) \/ Alters(v, a)
      PROVE  S /\ A
  <2>1. \A x \in Users : account'[x] = IF x = v THEN a ELSE account[x]
    BY <1>2 DEF TypeOK
  <2>2. \A x \in Users : x # v /\ account[x] # None /\ account[x].role = "superadmin" =>
           \/ account[x].from = "setup"
           \/ account[x].from \in Invites /\ invite'[account[x].from].by = "bootstrap"
    BY <1>0 DEF Grants, AdminsAreRooted, Known
  <2>3. CASE Registers(v, a)
    <3>1. a.github = None /\ account[v] = None
      BY <2>3 DEF Registers, NewAccount
    <3>2. a.from = "setup" => \A x \in Users : account[x] = None
      BY <2>3 DEF Registers, NewAccount, NoUsers, Known
    <3>3. a.role = "superadmin" => \/ a.from = "setup"
                                   \/ a.from \in Invites /\ invite'[a.from].by = "bootstrap"
      <4>1. ASSUME NEW i \in Invites, Uses(i), a.role = invite[i].role, a.from = i, a.role = "superadmin"
            PROVE  invite'[i].by = "bootstrap"
        BY <4>1, UsesStep DEF Grants, Rooted
      <4> QED
        BY <2>3, <4>1 DEF Registers, NewAccount
    <3>4. S
      BY <2>1, <3>1, <3>2 DEF Grants, Single, From, Known
    <3>5. A
      BY <2>1, <2>2, <3>3
    <3> QED
      BY <3>4, <3>5
  <2>4. CASE Activates(v, a)
    <3>1. account[v] # None /\ account[v] \in Account
      BY <2>4 DEF Activates, TypeOK
    <3>2. a.role = "developer" /\ a.from \in Invites /\ a.github = account[v].github
      BY <2>4, <3>1 DEF Activates, Account
    <3>3. S
      BY <2>1, <3>1, <3>2 DEF Grants, Single, From, Known
    <3>4. A
      BY <2>1, <2>2, <3>2
    <3> QED
      BY <3>3, <3>4
  <2>5. CASE Alters(v, a)
    <3>1. /\ account[v] # None /\ a.from = account[v].from
          /\ a.role = account[v].role \/ a.role # "superadmin"
          /\ \/ a.github = account[v].github
             \/ \A u \in Users \ {v} : account[u] # None => account[u].github # a.github
          /\ UNCHANGED invite
      BY <2>5 DEF Alters
    <3>2. S
      BY <2>1, <3>1 DEF Grants, Single, From, Known
    <3>3. A
      <4>1. account[v].role = "superadmin" => \/ account[v].from = "setup"
                                              \/ /\ account[v].from \in Invites
                                                 /\ invite[account[v].from].by = "bootstrap"
        BY <3>1 DEF Grants, AdminsAreRooted, Known
      <4> QED
        BY <2>1, <2>2, <3>1, <4>1
    <3> QED
      BY <3>2, <3>3
  <2> QED
    BY <1>2, <2>3, <2>4, <2>5
<1> QED
  BY <1>1, <1>2 DEF AccountStep, Issues

\* The platform is set up once, an invitation makes no more accounts or
\* developers than it allows, no GitHub account has two users, and every
\* administrator is the one of the setup or was invited by the bootstrap token.
THEOREM GrantedCorrect == Spec => []RolesAreGranted
<1>1. Init => Grants
  <2> SUFFICES ASSUME Init PROVE Grants
    OBVIOUS
  <2>1. \A x : From(x) = {}
    BY DEF Init, From, Known
  <2>2. Counted /\ Rooted
    BY <2>1, FS_EmptySet DEF Init, Counted, Rooted
  <2>3. Single /\ AdminsAreRooted
    BY <2>1 DEF Init, Single, AdminsAreRooted, Known
  <2> QED
    BY <2>2, <2>3 DEF Grants
<1>2. TypeOK /\ Registered /\ Grants /\ [Next]_vars => Grants'
  BY EveryStep, CountedKept, RootedKept, AdminsKept DEF Grants
<1>3. TypeOK /\ Grants => RolesAreGranted
  <2> SUFFICES ASSUME TypeOK, Grants PROVE RolesAreGranted
    OBVIOUS
  <2>1. ASSUME NEW i \in Invites PROVE Cardinality(From(i)) <= InviteLimit[i]
    <3>1. CASE invite[i] = None
      <4>1. Cardinality(From(i)) = 0
        BY <3>1, FS_EmptySet DEF Grants, Counted
      <4> QED
        BY <4>1, AccountsAssumption
    <3>2. CASE invite[i] # None
      <4>1. Cardinality(From(i)) <= invite[i].used /\ invite[i].used <= InviteLimit[i]
            /\ IsFiniteSet(From(i))
        BY <3>2 DEF Grants, Counted
      <4>2. Cardinality(From(i)) \in Nat /\ invite[i].used \in Nat /\ InviteLimit[i] \in Nat
        BY <3>2, <4>1, FS_CardinalityType, AccountsAssumption DEF TypeOK, Invite
      <4> QED
        BY <4>1, <4>2
    <3> QED
      BY <3>1, <3>2
  <2> QED
    BY <2>1 DEF Grants, Single, RolesAreGranted, GrantedOnce
<1> QED
  BY <1>1, <1>2, <1>3, AccountsTyped, PTL DEF Spec

=============================================================================
