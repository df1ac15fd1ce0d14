-------------------------- MODULE JoinGateProofs --------------------------
(***************************************************************************)
(* Theorems about the join gate, for any players, ids, releases and        *)
(* connections, any mishaps and any number of changes of what is served.   *)
(***************************************************************************)
EXTENDS JoinGate, TLAPS

(***************************************************************************)
(* The mailbox.                                                            *)
(***************************************************************************)

\* Storing a record keeps the mailbox well typed.
LEMMA StoredTyped ==
  ASSUME NEW m \in Mailbox, NEW ids, NEW r \in Record
  PROVE  Stored(m, ids, r) \in Mailbox
BY DEF Stored, Mailbox

\* Consuming a group keeps the mailbox well typed.
LEMMA WithoutTyped ==
  ASSUME NEW m \in Mailbox, NEW g
  PROVE  Without(m, g) \in Mailbox
BY DEF Without, Mailbox

\* What a claim finds is a record of the mailbox.
LEMMA FoundStored ==
  ASSUME NEW m \in Mailbox, NEW list \in Seq(Ids), Found(m, list) # None
  PROVE  /\ Found(m, list) \in Record
         /\ Found(m, list).group \in GroupsIn(m)
<1> DEFINE k == CHOOSE k \in DOMAIN list : FirstHit(m, list, k)
<1>1. k \in DOMAIN list /\ FirstHit(m, list, k)
  BY DEF Found
<1>2. list[k] \in Ids /\ m[list[k]] # None /\ Found(m, list) = m[list[k]]
  BY <1>1 DEF FirstHit, Found
<1> QED
  BY <1>2 DEF Mailbox, GroupsIn

\* A stored record brings in its own group and no other.
LEMMA StoredGroups ==
  ASSUME NEW m \in Mailbox, NEW ids, NEW r \in Record
  PROVE  GroupsIn(Stored(m, ids, r)) \subseteq GroupsIn(m) \cup {r.group}
BY DEF Stored, Mailbox, GroupsIn

\* A consumed group is gone from the mailbox, under every id.
LEMMA WithoutGroups ==
  ASSUME NEW m \in Mailbox, NEW g
  PROVE  GroupsIn(Without(m, g)) \subseteq GroupsIn(m) \ {g}
BY JoinGateAssumption DEF Without, Mailbox, GroupsIn

(***************************************************************************)
(* Types.                                                                  *)
(***************************************************************************)

\* An idle and a started claim, and a new entry, have the right types.
LEMMA ClaimTyped ==
  /\ NoClaim \in Claim /\ Asked \in Claim /\ Asked.step = "asked"
  /\ \A ok \in BOOLEAN : Entry(ok) \in ClientEntry
BY DEF NoClaim, Asked, Claim, Verdicts, Entry, ClientEntry

\* A claim that was answered is well typed.
LEMMA AnsweredTyped ==
  ASSUME NEW c \in Claim, NEW h \in Releases \cup {Syncing, None}
  PROVE  [c EXCEPT !.step = "answered", !.hello = h] \in Claim
BY DEF Claim

\* A claim that was decided is well typed.
LEMMA DecidedTyped ==
  ASSUME NEW c \in Claim, NEW v \in Verdicts
  PROVE  [c EXCEPT !.step = "decided", !.verdict = v] \in Claim
BY DEF Claim

\* TryClaim starts claims and leaves the others as they are.
LEMMA TryClaimTyped ==
  ASSUME TypeOK, NEW ns, TryClaim(ns)
  PROVE  claim' \in [Numbers -> Claim]
BY ClaimTyped DEF TryClaim, TypeOK

\* Kicked closes connections and leaves the others as they are.
LEMMA KickedTyped ==
  ASSUME TypeOK, NEW ns, Kicked(ns)
  PROVE  stage' \in [Numbers -> Stages]
BY DEF Kicked, TypeOK, Stages

\* A deposited hello is a record under a group of the pool.
LEMMA DepositTyped ==
  ASSUME TypeOK, NEW p \in Players, NEW h \in Releases \cup {Syncing},
         Deposit(p, h)
  PROVE  box' \in Mailbox /\ used' \subseteq Groups
<1>1. PICK g \in FreeGroups :
        /\ box' = Stored(box, ClientIds[p], [group |-> g, hello |-> h])
        /\ used' = used \ {g}
  BY DEF Deposit
<1>2. [group |-> g, hello |-> h] \in Record
  BY DEF FreeGroups, Record, TypeOK
<1> QED
  BY <1>1, <1>2, StoredTyped DEF TypeOK

\* A number in use belongs to a player.
Owned ==
  \A n \in Numbers :
    claim[n].step # "none" \/ clients[n] # None \/ stage[n] # "out"
      => owner[n] \in Players

\* What a claim finds under the ids of a number in use is in the mailbox.
LEMMA OwnerFinds ==
  ASSUME TypeOK, Owned, NEW n \in Numbers, claim[n].step = "asked",
         Found(box, ServerIds[owner[n]]) # None
  PROVE  /\ Found(box, ServerIds[owner[n]]) \in Record
         /\ Found(box, ServerIds[owner[n]]).group \in GroupsIn(box)
<1>1. ServerIds[owner[n]] \in Seq(Ids)
  BY JoinGateAssumption DEF Owned
<1> QED
  BY <1>1, FoundStored DEF TypeOK

\* Every step keeps the types.
LEMMA TypeStep == TypeOK /\ Owned /\ [Next]_vars => TypeOK'
<1> SUFFICES ASSUME TypeOK, Owned, [Next]_vars PROVE TypeOK'
  OBVIOUS
<1> USE JoinGateAssumption DEF TypeOK, operator, client, assigned, conns, history
<1>1. ASSUME NEW r \in Releases \cup {None}, NEW z \in BOOLEAN, Serve(r, z) PROVE TypeOK'
  BY <1>1 DEF Serve
<1>2. CASE Poll
  BY <1>2 DEF Poll, Assignment
<1>3. CASE PollFails
  BY <1>3 DEF PollFails
<1>4. ASSUME NEW a \in BOOLEAN, NEW e \in BOOLEAN, Apply(a, e) PROVE TypeOK'
  BY <1>4 DEF Apply, InForce
<1>5. ASSUME NEW p \in Players, NEW o \in Readiness, Sync(p, o) PROVE TypeOK'
  BY <1>5 DEF Sync, Readiness
<1>6. ASSUME NEW p \in Players, SendHello(p) PROVE TypeOK'
  BY <1>6 DEF SendHello
<1>7. ASSUME NEW p \in Players, HelloSent(p) PROVE TypeOK'
  BY <1>7, DepositTyped DEF HelloSent
<1>8. ASSUME NEW p \in Players, HelloFailed(p) PROVE TypeOK'
  <2>1. post[p] \in Releases \cup {Syncing}
    BY <1>8 DEF HelloFailed
  <2>2. box' \in Mailbox /\ used' \subseteq Groups
    BY <1>8, <2>1, DepositTyped DEF HelloFailed
  <2> QED
    BY <1>8, <2>2 DEF HelloFailed, Mishap
<1>9. ASSUME NEW n \in Numbers, Answer(n) PROVE TypeOK'
  <2> DEFINE r == Found(box, ServerIds[owner[n]])
  <2>1. CASE r = None
    <3>1. claim' = [claim EXCEPT ![n] = NoClaim]
          /\ UNCHANGED <<box, history, operator, client, assigned, clients,
                         conns, mishaps>>
      BY <1>9, <2>1 DEF Answer
    <3> QED
      BY <3>1, ClaimTyped
  <2>2. CASE r # None
    <3> DEFINE c == [claim[n] EXCEPT !.step = "answered", !.hello = r.hello]
    <3>1. /\ claim' = [claim EXCEPT ![n] = c]
          /\ box' = Without(box, r.group)
          /\ used' = used \cup {r.group}
          /\ fresh' = [fresh EXCEPT ![n] = InForce(policy)]
          /\ UNCHANGED <<operator, client, assigned, clients, conns, mishaps>>
      BY <1>9, <2>2 DEF Answer
    <3>2. r \in Record /\ r.hello \in Releases \cup {Syncing} /\ r.group \in Groups
      BY <1>9, <2>2, OwnerFinds DEF Answer, Record
    <3>3. c \in Claim
      BY <3>2, AnsweredTyped
    <3>4. InForce(policy) \in SUBSET Releases /\ box' \in Mailbox
      BY <3>1, WithoutTyped DEF InForce
    <3> HIDE DEF r, c
    <3> QED
      BY <3>1, <3>2, <3>3, <3>4
  <2> QED
    BY <2>1, <2>2
<1>10. ASSUME NEW n \in Numbers, ClaimLost(n) PROVE TypeOK'
  BY <1>10, ClaimTyped DEF ClaimLost, Mishap
<1>11. ASSUME NEW n \in Numbers, Evaluate(n) PROVE TypeOK'
  <2>1. Verdict(claim[n].hello) \in Verdicts
    BY DEF Verdict, Verdicts
  <2>2. [claim[n] EXCEPT !.step = "decided",
                         !.verdict = Verdict(claim[n].hello)] \in Claim
    BY <1>11, <2>1, DecidedTyped
  <2> QED
    BY <1>11, <2>2 DEF Evaluate
<1>12. ASSUME NEW n \in Numbers, Decide(n) PROVE TypeOK'
  BY <1>12, ClaimTyped, KickedTyped DEF Decide, Claim
<1>13. ASSUME NEW n \in Numbers, NEW p \in Players, Login(n, p) PROVE TypeOK'
  BY <1>13, TryClaimTyped DEF Login, Stages, Unused
<1>14. ASSUME NEW n \in Numbers, Joined(n) PROVE TypeOK'
  <2>1. clients[n] # None => [clients[n] EXCEPT !.waiting = TRUE] \in ClientEntry
    BY DEF ClientEntry
  <2>2. clients' \in [Numbers -> ClientEntry \cup {None}]
    BY <1>14, <2>1, ClaimTyped DEF Joined
  <2>3. claim' \in [Numbers -> Claim]
    BY <1>14, TryClaimTyped DEF Joined
  <2>4. stage' \in [Numbers -> Stages]
    BY <1>14 DEF Joined, Stages
  <2> QED
    BY <1>14, <2>2, <2>3, <2>4 DEF Joined
<1>15. ASSUME NEW n \in Numbers, Spawning(n) PROVE TypeOK'
  BY <1>15, KickedTyped DEF Spawning, Stages
<1>16. ASSUME NEW n \in Numbers, Disconnected(n) PROVE TypeOK'
  BY <1>16 DEF Disconnected, Stages, Mishap
<1>17. ASSUME NEW due \in SUBSET Unverified, Update(due) PROVE TypeOK'
  BY <1>17, TryClaimTyped, KickedTyped DEF Update
<1>18. ASSUME NEW n \in Numbers, Deadline(n) PROVE TypeOK'
  <2>1. [clients[n] EXCEPT !.waiting = FALSE] \in ClientEntry
    BY <1>18, ZenonT(60) DEF Deadline, Waits, ClientEntry
  <2> QED
    BY <1>18, <2>1 DEF Deadline
<1>19. ASSUME NEW g \in Groups, Expire(g) PROVE TypeOK'
  BY <1>19, WithoutTyped DEF Expire, Mishap
<1>20. ASSUME NEW p \in Players, ClientRestart(p) PROVE TypeOK'
  BY <1>20 DEF ClientRestart, Mishap, Readiness
<1>21. ASSUME NEW c \in Cached, NEW a \in BOOLEAN, ServerRestart(c, a) PROVE TypeOK'
  BY <1>21, ClaimTyped DEF ServerRestart, Cached, Mishap, Stages
<1>22. ASSUME NEW p \in Players, CancelRestart(p) PROVE TypeOK'
  BY <1>22 DEF CancelRestart, Readiness
<1>23. ASSUME NEW p \in Players, SaveSettings(p) PROVE TypeOK'
  BY <1>23 DEF SaveSettings, Readiness, Mishap
<1>24. CASE UNCHANGED vars
  BY <1>24 DEF vars
<1>25. ASSUME NEW p \in Players, HelloSyncing(p) PROVE TypeOK'
  BY <1>25, DepositTyped DEF HelloSyncing, Mishap
<1> QED
  BY <1>1, <1>2, <1>3, <1>4, <1>5, <1>6, <1>7, <1>8, <1>9, <1>10, <1>11,
     <1>12, <1>13, <1>14, <1>15, <1>16, <1>17, <1>18, <1>19, <1>20, <1>21,
     <1>22, <1>23, <1>24, <1>25 DEF Next

\* Every step keeps the numbers in use owned.
LEMMA OwnerStep == TypeOK /\ Owned /\ [Next]_vars => Owned'
<1> SUFFICES ASSUME TypeOK, Owned, [Next]_vars PROVE Owned'
  OBVIOUS
<1> USE JoinGateAssumption DEF TypeOK, operator, client, assigned, conns, history, Owned
<1>1. ASSUME NEW r \in Releases \cup {None}, NEW z \in BOOLEAN, Serve(r, z) PROVE Owned'
  BY <1>1 DEF Serve
<1>2. CASE Poll
  BY <1>2 DEF Poll
<1>3. CASE PollFails
  BY <1>3 DEF PollFails
<1>4. ASSUME NEW a \in BOOLEAN, NEW e \in BOOLEAN, Apply(a, e) PROVE Owned'
  BY <1>4 DEF Apply
<1>5. ASSUME NEW p \in Players, NEW o \in Readiness, Sync(p, o) PROVE Owned'
  BY <1>5 DEF Sync
<1>6. ASSUME NEW p \in Players, SendHello(p) PROVE Owned'
  BY <1>6 DEF SendHello
<1>7. ASSUME NEW p \in Players, HelloSent(p) PROVE Owned'
  BY <1>7 DEF HelloSent
<1>8. ASSUME NEW p \in Players, HelloFailed(p) PROVE Owned'
  BY <1>8 DEF HelloFailed
<1>9. ASSUME NEW n \in Numbers, Answer(n) PROVE Owned'
  BY <1>9 DEF Answer, NoClaim, Claim
<1>10. ASSUME NEW n \in Numbers, ClaimLost(n) PROVE Owned'
  BY <1>10 DEF ClaimLost, NoClaim
<1>11. ASSUME NEW n \in Numbers, Evaluate(n) PROVE Owned'
  BY <1>11 DEF Evaluate, Claim
<1>12. ASSUME NEW n \in Numbers, Decide(n) PROVE Owned'
  BY <1>12 DEF Decide, Kicked, NoClaim
<1>13. ASSUME NEW n \in Numbers, NEW p \in Players, Login(n, p) PROVE Owned'
  BY <1>13 DEF Login, TryClaim, Claimable, Asked, NoClaim, Claim
<1>14. ASSUME NEW n \in Numbers, Joined(n) PROVE Owned'
  BY <1>14 DEF Joined, TryClaim, Claimable, Asked, NoClaim, Claim
<1>15. ASSUME NEW n \in Numbers, Spawning(n) PROVE Owned'
  BY <1>15 DEF Spawning, Kicked
<1>16. ASSUME NEW n \in Numbers, Disconnected(n) PROVE Owned'
  BY <1>16 DEF Disconnected
<1>17. ASSUME NEW due \in SUBSET Unverified, Update(due) PROVE Owned'
  BY <1>17 DEF Update, Kicked, Unverified, TryClaim, Claimable, Asked, NoClaim, Claim
<1>18. ASSUME NEW n \in Numbers, Deadline(n) PROVE Owned'
  BY <1>18 DEF Deadline, Waits
<1>19. ASSUME NEW g \in Groups, Expire(g) PROVE Owned'
  BY <1>19 DEF Expire
<1>20. ASSUME NEW p \in Players, ClientRestart(p) PROVE Owned'
  BY <1>20 DEF ClientRestart
<1>21. ASSUME NEW c \in Cached, NEW a \in BOOLEAN, ServerRestart(c, a) PROVE Owned'
  BY <1>21 DEF ServerRestart, NoClaim
<1>22. ASSUME NEW p \in Players, CancelRestart(p) PROVE Owned'
  BY <1>22 DEF CancelRestart
<1>23. ASSUME NEW p \in Players, SaveSettings(p) PROVE Owned'
  BY <1>23 DEF SaveSettings
<1>24. CASE UNCHANGED vars
  BY <1>24 DEF vars
<1>25. ASSUME NEW p \in Players, HelloSyncing(p) PROVE Owned'
  BY <1>25 DEF HelloSyncing
<1> QED
  BY <1>1, <1>2, <1>3, <1>4, <1>5, <1>6, <1>7, <1>8, <1>9, <1>10, <1>11,
     <1>12, <1>13, <1>14, <1>15, <1>16, <1>17, <1>18, <1>19, <1>20, <1>21,
     <1>22, <1>23, <1>24, <1>25 DEF Next

\* The initial state is well typed and no number is in use.
LEMMA TypeInit == Init => TypeOK /\ Owned
<1>1. Init => paused \in BOOLEAN /\ accepting \in BOOLEAN
  BY Zenon DEF Init
<1>2. Empty \in Mailbox
  BY DEF Empty, Mailbox
<1>3. Init => /\ ready \in [Players -> Readiness] /\ sent \in [Players -> BOOLEAN]
  BY DEF Init, Readiness
<1>4. NoClaim.step = "none"
  BY DEF NoClaim
<1> QED
  BY <1>1, <1>2, <1>3, <1>4, ClaimTyped, JoinGateAssumption
     DEF Init, TypeOK, Owned, Stages

\* The variables keep their types, and a number in use has an owner.
THEOREM GateTyped == Spec => [](TypeOK /\ Owned)
BY TypeInit, TypeStep, OwnerStep, PTL DEF Spec

(***************************************************************************)
(* Supervision.                                                            *)
(***************************************************************************)
\* Every step keeps whoever has joined on the list of OnGameUpdate.
LEMMA SupervisedStep == TypeOK /\ EntrySupervised /\ [Next]_vars => EntrySupervised'
<1> SUFFICES ASSUME TypeOK, EntrySupervised, [Next]_vars PROVE EntrySupervised'
  OBVIOUS
<1> USE JoinGateAssumption DEF TypeOK, operator, client, assigned, conns, history, EntrySupervised
<1>1. ASSUME NEW r \in Releases \cup {None}, NEW z \in BOOLEAN, Serve(r, z) PROVE EntrySupervised'
  BY <1>1 DEF Serve
<1>2. CASE Poll
  BY <1>2 DEF Poll
<1>3. CASE PollFails
  BY <1>3 DEF PollFails
<1>4. ASSUME NEW a \in BOOLEAN, NEW e \in BOOLEAN, Apply(a, e) PROVE EntrySupervised'
  BY <1>4 DEF Apply
<1>5. ASSUME NEW p \in Players, NEW o \in Readiness, Sync(p, o) PROVE EntrySupervised'
  BY <1>5 DEF Sync
<1>6. ASSUME NEW p \in Players, SendHello(p) PROVE EntrySupervised'
  BY <1>6 DEF SendHello
<1>7. ASSUME NEW p \in Players, HelloSent(p) PROVE EntrySupervised'
  BY <1>7 DEF HelloSent
<1>8. ASSUME NEW p \in Players, HelloFailed(p) PROVE EntrySupervised'
  BY <1>8 DEF HelloFailed
<1>9. ASSUME NEW n \in Numbers, Answer(n) PROVE EntrySupervised'
  BY <1>9 DEF Answer
<1>10. ASSUME NEW n \in Numbers, ClaimLost(n) PROVE EntrySupervised'
  BY <1>10 DEF ClaimLost
<1>11. ASSUME NEW n \in Numbers, Evaluate(n) PROVE EntrySupervised'
  BY <1>11 DEF Evaluate
<1>12. ASSUME NEW n \in Numbers, Decide(n) PROVE EntrySupervised'
  BY <1>12, ClaimTyped DEF Decide, Kicked, Claim
<1>13. ASSUME NEW n \in Numbers, NEW p \in Players, Login(n, p) PROVE EntrySupervised'
  BY <1>13 DEF Login, Unused
<1>14. ASSUME NEW n \in Numbers, Joined(n) PROVE EntrySupervised'
  BY <1>14, ClaimTyped DEF Joined, ClientEntry
<1>15. ASSUME NEW n \in Numbers, Spawning(n) PROVE EntrySupervised'
  BY <1>15 DEF Spawning, Kicked, Waits
<1>16. ASSUME NEW n \in Numbers, Disconnected(n) PROVE EntrySupervised'
  BY <1>16 DEF Disconnected
<1>17. ASSUME NEW due \in SUBSET Unverified, Update(due) PROVE EntrySupervised'
  BY <1>17 DEF Update, Kicked
<1>18. ASSUME NEW n \in Numbers, Deadline(n) PROVE EntrySupervised'
  BY <1>18 DEF Deadline, Waits, ClientEntry
<1>19. ASSUME NEW g \in Groups, Expire(g) PROVE EntrySupervised'
  BY <1>19 DEF Expire
<1>20. ASSUME NEW p \in Players, ClientRestart(p) PROVE EntrySupervised'
  BY <1>20 DEF ClientRestart
<1>21. ASSUME NEW c \in Cached, NEW a \in BOOLEAN, ServerRestart(c, a) PROVE EntrySupervised'
  BY <1>21 DEF ServerRestart
<1>22. ASSUME NEW p \in Players, CancelRestart(p) PROVE EntrySupervised'
  BY <1>22 DEF CancelRestart
<1>23. ASSUME NEW p \in Players, SaveSettings(p) PROVE EntrySupervised'
  BY <1>23 DEF SaveSettings
<1>24. CASE UNCHANGED vars
  BY <1>24 DEF vars
<1>25. ASSUME NEW p \in Players, HelloSyncing(p) PROVE EntrySupervised'
  BY <1>25 DEF HelloSyncing
<1> QED
  BY <1>1, <1>2, <1>3, <1>4, <1>5, <1>6, <1>7, <1>8, <1>9, <1>10, <1>11,
     <1>12, <1>13, <1>14, <1>15, <1>16, <1>17, <1>18, <1>19, <1>20, <1>21,
     <1>22, <1>23, <1>24, <1>25 DEF Next

\* Whoever has joined is supervised, whatever the order of claims, verdicts,
\* disconnects and restarts.
THEOREM SupervisedCorrect == Spec => []EntrySupervised
<1>1. Init => EntrySupervised
  BY DEF Init, EntrySupervised
<1> QED
  BY <1>1, SupervisedStep, GateTyped, PTL DEF Spec

(***************************************************************************)
(* Hellos are used once.                                                   *)
(***************************************************************************)

\* No group that was claimed is still in the mailbox, under any id.
Spent == GroupsIn(box) \cap used = {}

\* A new group is not among the claimed ones, and those stored before stay out.
LEMMA DepositSpent ==
  ASSUME TypeOK, Spent, NEW p \in Players, NEW h \in Releases \cup {Syncing},
         Deposit(p, h)
  PROVE  Spent'
<1>1. PICK g \in FreeGroups :
        /\ box' = Stored(box, ClientIds[p], [group |-> g, hello |-> h])
        /\ used' = used \ {g}
  BY DEF Deposit
<1>2. [group |-> g, hello |-> h] \in Record
  BY DEF FreeGroups, Record, TypeOK
<1>3. GroupsIn(box') \subseteq GroupsIn(box) \cup {g}
  BY <1>1, <1>2, StoredGroups DEF TypeOK
<1> QED
  BY <1>1, <1>3 DEF Spent

\* What the API does with a claim that finds a hello.
LEMMA AnswerFound ==
  ASSUME TypeOK, Owned, NEW n \in Numbers, Answer(n),
         Found(box, ServerIds[owner[n]]) # None
  PROVE  LET r == Found(box, ServerIds[owner[n]])
         IN  /\ r \in Record /\ r.group \in GroupsIn(box)
             /\ claim' = [claim EXCEPT ![n].step = "answered",
                                        ![n].hello = r.hello]
             /\ box' = Without(box, r.group)
             /\ used' = used \cup {r.group}
             /\ fresh' = [fresh EXCEPT ![n] = InForce(policy)]
<1>1. claim[n].step = "asked"
  BY DEF Answer
<1> QED
  BY <1>1, OwnerFinds DEF Answer

\* What the API does with a claim that finds none.
LEMMA AnswerNone ==
  ASSUME NEW n \in Numbers, Answer(n),
         Found(box, ServerIds[owner[n]]) = None
  PROVE  claim' = [claim EXCEPT ![n] = NoClaim] /\ UNCHANGED <<box, used, fresh>>
BY DEF Answer, history

\* Every step keeps claimed groups out of the mailbox.
LEMMA SpentStep == TypeOK /\ Owned /\ Spent /\ [Next]_vars => Spent'
<1> SUFFICES ASSUME TypeOK, Owned, Spent, [Next]_vars PROVE Spent'
  OBVIOUS
<1> USE JoinGateAssumption DEF TypeOK, operator, client, assigned, conns, history
<1>1. ASSUME NEW r \in Releases \cup {None}, NEW z \in BOOLEAN, Serve(r, z)
       PROVE  Spent'
  BY <1>1 DEF Serve, Spent
<1>2. CASE Poll
  BY <1>2 DEF Poll, Spent
<1>3. CASE PollFails
  BY <1>3 DEF PollFails, Spent
<1>4. ASSUME NEW a \in BOOLEAN, NEW e \in BOOLEAN, Apply(a, e) PROVE Spent'
  BY <1>4 DEF Apply, Spent
<1>5. ASSUME NEW p \in Players, NEW o \in Readiness, Sync(p, o) PROVE Spent'
  BY <1>5 DEF Sync, Spent
<1>6. ASSUME NEW p \in Players, CancelRestart(p) PROVE Spent'
  BY <1>6 DEF CancelRestart, Spent
<1>7. ASSUME NEW p \in Players, SendHello(p) PROVE Spent'
  BY <1>7 DEF SendHello, Spent
<1>8. ASSUME NEW p \in Players, HelloSent(p) PROVE Spent'
  BY <1>8, DepositSpent DEF HelloSent
<1>9. ASSUME NEW p \in Players, HelloFailed(p) PROVE Spent'
  BY <1>9, DepositSpent DEF HelloFailed, Spent
<1>10. ASSUME NEW n \in Numbers, Answer(n) PROVE Spent'
  <2> DEFINE r == Found(box, ServerIds[owner[n]])
  <2>1. CASE r = None
    BY <1>10, <2>1, AnswerNone DEF Spent
  <2>2. CASE r # None
    <3>1. /\ r \in Record /\ r.group \in GroupsIn(box)
          /\ box' = Without(box, r.group) /\ used' = used \cup {r.group}
      BY <1>10, <2>2, AnswerFound
    <3>2. GroupsIn(box') \subseteq GroupsIn(box) \ {r.group}
      BY <3>1, WithoutGroups
    <3> QED
      BY <3>1, <3>2 DEF Spent
  <2> QED
    BY <2>1, <2>2
<1>11. ASSUME NEW n \in Numbers, ClaimLost(n) PROVE Spent'
  BY <1>11 DEF ClaimLost, Spent
<1>12. ASSUME NEW n \in Numbers, Evaluate(n) PROVE Spent'
  BY <1>12 DEF Evaluate, Spent
<1>13. ASSUME NEW n \in Numbers, Decide(n) PROVE Spent'
  BY <1>13 DEF Decide, Spent
<1>14. ASSUME NEW n \in Numbers, NEW p \in Players, Login(n, p) PROVE Spent'
  BY <1>14 DEF Login, Spent
<1>15. ASSUME NEW n \in Numbers, Joined(n) PROVE Spent'
  BY <1>15 DEF Joined, Spent
<1>16. ASSUME NEW n \in Numbers, Spawning(n) PROVE Spent'
  BY <1>16 DEF Spawning, Spent
<1>17. ASSUME NEW n \in Numbers, Disconnected(n) PROVE Spent'
  BY <1>17 DEF Disconnected, Spent
<1>18. ASSUME NEW due \in SUBSET Unverified, Update(due) PROVE Spent'
  BY <1>18 DEF Update, Spent
<1>19. ASSUME NEW n \in Numbers, Deadline(n) PROVE Spent'
  BY <1>19 DEF Deadline, Spent
<1>20. ASSUME NEW g \in Groups, Expire(g) PROVE Spent'
  <2>1. GroupsIn(box') \subseteq GroupsIn(box)
    BY <1>20, WithoutGroups DEF Expire
  <2> QED
    BY <1>20, <2>1 DEF Expire, Spent
<1>21. ASSUME NEW p \in Players, ClientRestart(p) PROVE Spent'
  BY <1>21 DEF ClientRestart, Spent
<1>22. ASSUME NEW p \in Players, SaveSettings(p) PROVE Spent'
  BY <1>22 DEF SaveSettings, Spent
<1>23. ASSUME NEW c \in Cached, NEW a \in BOOLEAN, ServerRestart(c, a)
       PROVE  Spent'
  BY <1>23 DEF ServerRestart, Spent
<1>24. CASE UNCHANGED vars
  BY <1>24 DEF vars, Spent
<1>25. ASSUME NEW p \in Players, HelloSyncing(p) PROVE Spent'
  BY <1>25, DepositSpent DEF HelloSyncing
<1> QED
  BY <1>1, <1>2, <1>3, <1>4, <1>5, <1>6, <1>7, <1>8, <1>9, <1>10, <1>11,
     <1>12, <1>13, <1>14, <1>15, <1>16, <1>17, <1>18, <1>19, <1>20, <1>21,
     <1>22, <1>23, <1>24, <1>25 DEF Next

\* The step of one claim from asked to answered takes a hello that no claim has
\* taken before.
TakesUnused ==
  \A n \in Numbers : claim[n].step = "asked" /\ claim'[n].step = "answered"
    => \E g \in Groups \ used : used' = used \cup {g}

\* Only a claim that found a hello is answered, and its group was not claimed.
LEMMA UnusedStep == TypeOK /\ Owned /\ Spent /\ [Next]_vars => TakesUnused
<1> SUFFICES ASSUME TypeOK, Owned, Spent, [Next]_vars PROVE TakesUnused
  OBVIOUS
<1> USE JoinGateAssumption DEF TypeOK, operator, client, assigned, conns, history
<1>1. ASSUME NEW r \in Releases \cup {None}, NEW z \in BOOLEAN, Serve(r, z)
       PROVE  TakesUnused
  BY <1>1 DEF Serve, TakesUnused
<1>2. CASE Poll
  BY <1>2 DEF Poll, TakesUnused
<1>3. CASE PollFails
  BY <1>3 DEF PollFails, TakesUnused
<1>4. ASSUME NEW a \in BOOLEAN, NEW e \in BOOLEAN, Apply(a, e)
       PROVE  TakesUnused
  BY <1>4 DEF Apply, TakesUnused
<1>5. ASSUME NEW p \in Players, NEW o \in Readiness, Sync(p, o)
       PROVE  TakesUnused
  BY <1>5 DEF Sync, TakesUnused
<1>6. ASSUME NEW p \in Players, CancelRestart(p) PROVE TakesUnused
  BY <1>6 DEF CancelRestart, TakesUnused
<1>7. ASSUME NEW p \in Players, SendHello(p) PROVE TakesUnused
  BY <1>7 DEF SendHello, TakesUnused
<1>8. ASSUME NEW p \in Players, HelloSent(p) PROVE TakesUnused
  BY <1>8 DEF HelloSent, TakesUnused
<1>9. ASSUME NEW p \in Players, HelloFailed(p) PROVE TakesUnused
  BY <1>9 DEF HelloFailed, TakesUnused
<1>10. ASSUME NEW n \in Numbers, Answer(n) PROVE TakesUnused
  <2> DEFINE r == Found(box, ServerIds[owner[n]])
  <2>1. CASE r = None
    <3>1. claim' = [claim EXCEPT ![n] = NoClaim]
      BY <1>10, <2>1, AnswerNone
    <3>2. \A m \in Numbers : claim'[m].step # "answered" \/ claim'[m] = claim[m]
      BY <3>1 DEF NoClaim
    <3> QED
      BY <3>2 DEF TakesUnused
  <2>2. CASE r # None
    <3>1. /\ r \in Record /\ r.group \in GroupsIn(box)
          /\ used' = used \cup {r.group}
      BY <1>10, <2>2, AnswerFound
    <3>2. r.group \in Groups \ used
      BY <3>1 DEF Spent, Record
    <3> QED
      BY <3>1, <3>2 DEF TakesUnused
  <2> QED
    BY <2>1, <2>2
<1>11. ASSUME NEW n \in Numbers, ClaimLost(n) PROVE TakesUnused
  BY <1>11 DEF ClaimLost, TakesUnused, NoClaim
<1>12. ASSUME NEW n \in Numbers, Evaluate(n) PROVE TakesUnused
  BY <1>12 DEF Evaluate, TakesUnused, Claim
<1>13. ASSUME NEW n \in Numbers, Decide(n) PROVE TakesUnused
  BY <1>13 DEF Decide, TakesUnused, NoClaim
<1>14. ASSUME NEW n \in Numbers, NEW p \in Players, Login(n, p)
       PROVE  TakesUnused
  BY <1>14 DEF Login, TryClaim, Asked, NoClaim, Claim, TakesUnused
<1>15. ASSUME NEW n \in Numbers, Joined(n) PROVE TakesUnused
  BY <1>15 DEF Joined, TryClaim, Asked, NoClaim, Claim, TakesUnused
<1>16. ASSUME NEW n \in Numbers, Spawning(n) PROVE TakesUnused
  BY <1>16 DEF Spawning, TakesUnused
<1>17. ASSUME NEW n \in Numbers, Disconnected(n) PROVE TakesUnused
  BY <1>17 DEF Disconnected, TakesUnused
<1>18. ASSUME NEW due \in SUBSET Unverified, Update(due) PROVE TakesUnused
  BY <1>18 DEF Update, TryClaim, Asked, NoClaim, Claim, TakesUnused
<1>19. ASSUME NEW n \in Numbers, Deadline(n) PROVE TakesUnused
  BY <1>19 DEF Deadline, TakesUnused
<1>20. ASSUME NEW g \in Groups, Expire(g) PROVE TakesUnused
  BY <1>20 DEF Expire, TakesUnused
<1>21. ASSUME NEW p \in Players, ClientRestart(p) PROVE TakesUnused
  BY <1>21 DEF ClientRestart, TakesUnused
<1>22. ASSUME NEW p \in Players, SaveSettings(p) PROVE TakesUnused
  BY <1>22 DEF SaveSettings, TakesUnused
<1>23. ASSUME NEW c \in Cached, NEW a \in BOOLEAN, ServerRestart(c, a)
       PROVE  TakesUnused
  BY <1>23 DEF ServerRestart, TakesUnused, NoClaim
<1>24. CASE UNCHANGED vars
  BY <1>24 DEF vars, TakesUnused
<1>25. ASSUME NEW p \in Players, HelloSyncing(p) PROVE TakesUnused
  BY <1>25 DEF HelloSyncing, TakesUnused
<1> QED
  BY <1>1, <1>2, <1>3, <1>4, <1>5, <1>6, <1>7, <1>8, <1>9, <1>10, <1>11,
     <1>12, <1>13, <1>14, <1>15, <1>16, <1>17, <1>18, <1>19, <1>20, <1>21,
     <1>22, <1>23, <1>24, <1>25 DEF Next

\* Pending hellos are consumed on claim: no hello is handed to two claims,
\* whatever ids it was stored under, lost answers and retries included.
THEOREM UsedOnceCorrect == Spec => HelloUsedOnce
<1>1. Init => Spent
  BY DEF Init, Empty, GroupsIn, Spent
<1>2. TypeOK /\ Owned /\ Spent /\ [Next]_vars =>
        [\A n \in Numbers : claim[n].step = "asked" /\ claim'[n].step = "answered"
           => \E g \in Groups \ used : used' = used \cup {g}]_vars
  BY UnusedStep DEF TakesUnused
<1> QED
  BY <1>1, <1>2, SpentStep, GateTyped, PTL DEF Spec, HelloUsedOnce

(***************************************************************************)
(* Verdicts.                                                               *)
(***************************************************************************)

\* While an answered claim waits for its verdict, fresh has the release that
\* is in force; a positive verdict is about a release that was.
FreshSoFar ==
  \A n \in Numbers :
    /\ claim[n].step = "answered" =>
         /\ claim[n].hello \in Releases \cup {Syncing}
         /\ InForce(policy) \subseteq fresh[n]
    /\ claim[n].step = "decided" /\ claim[n].verdict = "ok" =>
         claim[n].hello \in fresh[n]

\* TryClaim answers and decides nothing.
LEMMA TryClaimFresh ==
  ASSUME TypeOK, FreshSoFar, NEW ns, TryClaim(ns), UNCHANGED <<policy, fresh>>
  PROVE  FreshSoFar'
BY DEF TypeOK, TryClaim, Claimable, Asked, NoClaim, Claim, FreshSoFar, InForce

\* Every step keeps the history of verdicts true.
LEMMA FreshStep == TypeOK /\ Owned /\ FreshSoFar /\ [Next]_vars => FreshSoFar'
<1> SUFFICES ASSUME TypeOK, Owned, FreshSoFar, [Next]_vars PROVE FreshSoFar'
  OBVIOUS
<1> USE JoinGateAssumption DEF TypeOK, operator, client, assigned, conns, history
<1>1. ASSUME NEW r \in Releases \cup {None}, NEW z \in BOOLEAN, Serve(r, z)
       PROVE  FreshSoFar'
  BY <1>1 DEF Serve, FreshSoFar, InForce
<1>2. CASE Poll
  BY <1>2 DEF Poll, FreshSoFar, InForce
<1>3. CASE PollFails
  BY <1>3 DEF PollFails, FreshSoFar, InForce
<1>4. ASSUME NEW a \in BOOLEAN, NEW e \in BOOLEAN, Apply(a, e)
       PROVE  FreshSoFar'
  <2>1. policy' = polled /\ claim' = claim
        /\ fresh' = [n \in Numbers |->
             IF claim[n].step = "answered"
               THEN fresh[n] \cup InForce(polled) ELSE fresh[n]]
    BY <1>4 DEF Apply
  <2>2. InForce(policy)' = InForce(polled)
    BY <2>1 DEF InForce
  <2> QED
    BY <2>1, <2>2 DEF FreshSoFar
<1>5. ASSUME NEW p \in Players, NEW o \in Readiness, Sync(p, o)
       PROVE  FreshSoFar'
  BY <1>5 DEF Sync, FreshSoFar, InForce
<1>6. ASSUME NEW p \in Players, CancelRestart(p) PROVE FreshSoFar'
  BY <1>6 DEF CancelRestart, FreshSoFar, InForce
<1>7. ASSUME NEW p \in Players, SendHello(p) PROVE FreshSoFar'
  BY <1>7 DEF SendHello, FreshSoFar, InForce
<1>8. ASSUME NEW p \in Players, HelloSent(p) PROVE FreshSoFar'
  BY <1>8 DEF HelloSent, FreshSoFar, InForce
<1>9. ASSUME NEW p \in Players, HelloFailed(p) PROVE FreshSoFar'
  BY <1>9 DEF HelloFailed, FreshSoFar, InForce
<1>10. ASSUME NEW n \in Numbers, Answer(n) PROVE FreshSoFar'
  <2> DEFINE r == Found(box, ServerIds[owner[n]])
  <2>1. UNCHANGED policy /\ InForce(policy)' = InForce(policy)
    BY <1>10 DEF Answer, InForce
  <2>2. CASE r = None
    <3>1. claim' = [claim EXCEPT ![n] = NoClaim] /\ UNCHANGED fresh
      BY <1>10, <2>2, AnswerNone
    <3> QED
      BY <2>1, <3>1 DEF FreshSoFar, NoClaim
  <2>3. CASE r # None
    <3>1. /\ r \in Record
          /\ claim' = [claim EXCEPT ![n].step = "answered", ![n].hello = r.hello]
          /\ fresh' = [fresh EXCEPT ![n] = InForce(policy)]
      BY <1>10, <2>3, AnswerFound
    <3>2. claim'[n].step = "answered" /\ claim'[n].hello \in Releases \cup {Syncing}
      BY <3>1 DEF Claim, Record
    <3>3. \A m \in Numbers : m # n => claim'[m] = claim[m] /\ fresh'[m] = fresh[m]
      BY <3>1
    <3>4. fresh'[n] = InForce(policy)
      BY <3>1
    <3> QED
      BY <2>1, <3>2, <3>3, <3>4 DEF FreshSoFar
  <2> QED
    BY <2>2, <2>3
<1>11. ASSUME NEW n \in Numbers, ClaimLost(n) PROVE FreshSoFar'
  BY <1>11 DEF ClaimLost, FreshSoFar, InForce, NoClaim
<1>12. ASSUME NEW n \in Numbers, Evaluate(n) PROVE FreshSoFar'
  <2>1. Verdict(claim[n].hello) = "ok" => claim[n].hello \in InForce(policy)
    BY <1>12 DEF Evaluate, Verdict, Refuses, InForce, FreshSoFar
  <2>2. claim'[n].step = "decided"
        /\ claim'[n].verdict = Verdict(claim[n].hello)
        /\ claim'[n].hello = claim[n].hello
    BY <1>12 DEF Evaluate, Claim
  <2>3. \A m \in Numbers : m # n => claim'[m] = claim[m]
    BY <1>12 DEF Evaluate
  <2>4. claim[n].step = "answered" /\ UNCHANGED <<policy, fresh>>
    BY <1>12 DEF Evaluate
  <2>5. claim'[n].verdict = "ok" => claim'[n].hello \in fresh[n]
    BY <2>1, <2>2, <2>4 DEF FreshSoFar
  <2>6. InForce(policy)' = InForce(policy)
    BY <2>4 DEF InForce
  <2> QED
    BY <2>2, <2>3, <2>4, <2>5, <2>6 DEF FreshSoFar
<1>13. ASSUME NEW n \in Numbers, Decide(n) PROVE FreshSoFar'
  BY <1>13 DEF Decide, FreshSoFar, InForce, NoClaim
<1>14. ASSUME NEW n \in Numbers, NEW p \in Players, Login(n, p)
       PROVE  FreshSoFar'
  BY <1>14, TryClaimFresh DEF Login
<1>15. ASSUME NEW n \in Numbers, Joined(n) PROVE FreshSoFar'
  BY <1>15, TryClaimFresh DEF Joined
<1>16. ASSUME NEW n \in Numbers, Spawning(n) PROVE FreshSoFar'
  BY <1>16 DEF Spawning, FreshSoFar, InForce
<1>17. ASSUME NEW n \in Numbers, Disconnected(n) PROVE FreshSoFar'
  BY <1>17 DEF Disconnected, FreshSoFar, InForce
<1>18. ASSUME NEW due \in SUBSET Unverified, Update(due) PROVE FreshSoFar'
  BY <1>18, TryClaimFresh DEF Update
<1>19. ASSUME NEW n \in Numbers, Deadline(n) PROVE FreshSoFar'
  BY <1>19 DEF Deadline, FreshSoFar, InForce
<1>20. ASSUME NEW g \in Groups, Expire(g) PROVE FreshSoFar'
  BY <1>20 DEF Expire, FreshSoFar, InForce
<1>21. ASSUME NEW p \in Players, ClientRestart(p) PROVE FreshSoFar'
  BY <1>21 DEF ClientRestart, FreshSoFar, InForce
<1>22. ASSUME NEW p \in Players, SaveSettings(p) PROVE FreshSoFar'
  BY <1>22 DEF SaveSettings, FreshSoFar, InForce
<1>23. ASSUME NEW c \in Cached, NEW a \in BOOLEAN, ServerRestart(c, a)
       PROVE  FreshSoFar'
  BY <1>23 DEF ServerRestart, FreshSoFar, InForce, NoClaim
<1>24. CASE UNCHANGED vars
  BY <1>24 DEF vars, FreshSoFar, InForce
<1>25. ASSUME NEW p \in Players, HelloSyncing(p) PROVE FreshSoFar'
  BY <1>25 DEF HelloSyncing, FreshSoFar, InForce
<1> QED
  BY <1>1, <1>2, <1>3, <1>4, <1>5, <1>6, <1>7, <1>8, <1>9, <1>10, <1>11,
     <1>12, <1>13, <1>14, <1>15, <1>16, <1>17, <1>18, <1>19, <1>20, <1>21,
     <1>22, <1>23, <1>24, <1>25 DEF Next

\* A connection that a step verifies gets a verdict on a release in fresh.
VerifiesFresh ==
  \A n \in Numbers :
    /\ claim[n].step = "decided"
    /\ clients'[n] # None /\ clients'[n].verified
    /\ clients[n] = None \/ ~clients[n].verified
    => claim[n].hello \in fresh[n]

\* Only a positive verdict makes a connection verified.
LEMMA VerdictStep == TypeOK /\ FreshSoFar /\ [Next]_vars => VerifiesFresh
<1> SUFFICES ASSUME TypeOK, FreshSoFar, [Next]_vars PROVE VerifiesFresh
  OBVIOUS
<1> USE JoinGateAssumption DEF TypeOK, operator, client, assigned, conns, history
<1>1. ASSUME NEW r \in Releases \cup {None}, NEW z \in BOOLEAN, Serve(r, z)
       PROVE  VerifiesFresh
  BY <1>1 DEF Serve, VerifiesFresh
<1>2. CASE Poll
  BY <1>2 DEF Poll, VerifiesFresh
<1>3. CASE PollFails
  BY <1>3 DEF PollFails, VerifiesFresh
<1>4. ASSUME NEW a \in BOOLEAN, NEW e \in BOOLEAN, Apply(a, e)
       PROVE  VerifiesFresh
  BY <1>4 DEF Apply, VerifiesFresh
<1>5. ASSUME NEW p \in Players, NEW o \in Readiness, Sync(p, o)
       PROVE  VerifiesFresh
  BY <1>5 DEF Sync, VerifiesFresh
<1>6. ASSUME NEW p \in Players, CancelRestart(p) PROVE VerifiesFresh
  BY <1>6 DEF CancelRestart, VerifiesFresh
<1>7. ASSUME NEW p \in Players, SendHello(p) PROVE VerifiesFresh
  BY <1>7 DEF SendHello, VerifiesFresh
<1>8. ASSUME NEW p \in Players, HelloSent(p) PROVE VerifiesFresh
  BY <1>8 DEF HelloSent, VerifiesFresh
<1>9. ASSUME NEW p \in Players, HelloFailed(p) PROVE VerifiesFresh
  BY <1>9 DEF HelloFailed, VerifiesFresh
<1>10. ASSUME NEW n \in Numbers, Answer(n) PROVE VerifiesFresh
  BY <1>10 DEF Answer, VerifiesFresh
<1>11. ASSUME NEW n \in Numbers, ClaimLost(n) PROVE VerifiesFresh
  BY <1>11 DEF ClaimLost, VerifiesFresh
<1>12. ASSUME NEW n \in Numbers, Evaluate(n) PROVE VerifiesFresh
  BY <1>12 DEF Evaluate, VerifiesFresh
<1>13. ASSUME NEW n \in Numbers, Decide(n) PROVE VerifiesFresh
  <2>1. \A m \in Numbers : m # n => clients'[m] = clients[m]
    BY <1>13 DEF Decide
  <2>2. clients'[n].verified = (claim[n].verdict = "ok")
    BY <1>13 DEF Decide, Entry, ClientEntry
  <2> QED
    BY <2>1, <2>2 DEF VerifiesFresh, FreshSoFar
<1>14. ASSUME NEW n \in Numbers, NEW p \in Players, Login(n, p)
       PROVE  VerifiesFresh
  BY <1>14 DEF Login, VerifiesFresh
<1>15. ASSUME NEW n \in Numbers, Joined(n) PROVE VerifiesFresh
  <2>1. \A m \in Numbers : m # n => clients'[m] = clients[m]
    BY <1>15 DEF Joined
  <2>2. clients'[n].verified => clients[n] # None /\ clients[n].verified
    BY <1>15 DEF Joined, Entry, ClientEntry
  <2> QED
    BY <2>1, <2>2 DEF VerifiesFresh
<1>16. ASSUME NEW n \in Numbers, Spawning(n) PROVE VerifiesFresh
  BY <1>16 DEF Spawning, VerifiesFresh
<1>17. ASSUME NEW n \in Numbers, Disconnected(n) PROVE VerifiesFresh
  BY <1>17 DEF Disconnected, VerifiesFresh
<1>18. ASSUME NEW due \in SUBSET Unverified, Update(due) PROVE VerifiesFresh
  BY <1>18 DEF Update, VerifiesFresh
<1>19. ASSUME NEW n \in Numbers, Deadline(n) PROVE VerifiesFresh
  BY <1>19 DEF Deadline, Waits, VerifiesFresh, ClientEntry
<1>20. ASSUME NEW g \in Groups, Expire(g) PROVE VerifiesFresh
  BY <1>20 DEF Expire, VerifiesFresh
<1>21. ASSUME NEW p \in Players, ClientRestart(p) PROVE VerifiesFresh
  BY <1>21 DEF ClientRestart, VerifiesFresh
<1>22. ASSUME NEW p \in Players, SaveSettings(p) PROVE VerifiesFresh
  BY <1>22 DEF SaveSettings, VerifiesFresh
<1>23. ASSUME NEW c \in Cached, NEW a \in BOOLEAN, ServerRestart(c, a)
       PROVE  VerifiesFresh
  BY <1>23 DEF ServerRestart, VerifiesFresh
<1>24. CASE UNCHANGED vars
  BY <1>24 DEF vars, VerifiesFresh
<1>25. ASSUME NEW p \in Players, HelloSyncing(p) PROVE VerifiesFresh
  BY <1>25 DEF HelloSyncing, VerifiesFresh
<1> QED
  BY <1>1, <1>2, <1>3, <1>4, <1>5, <1>6, <1>7, <1>8, <1>9, <1>10, <1>11,
     <1>12, <1>13, <1>14, <1>15, <1>16, <1>17, <1>18, <1>19, <1>20, <1>21,
     <1>22, <1>23, <1>24, <1>25 DEF Next

\* A player is verified only for a release that was required and not paused at
\* some time after the claim was answered, whatever polls, changes and restarts
\* come in between.
THEOREM FreshCorrect == Spec => FreshDecision
<1>1. Init => FreshSoFar
  BY DEF Init, FreshSoFar, NoClaim
<1>2. TypeOK /\ FreshSoFar /\ [Next]_vars =>
        [\A n \in Numbers :
           /\ claim[n].step = "decided"
           /\ clients'[n] # None /\ clients'[n].verified
           /\ clients[n] = None \/ ~clients[n].verified
           => claim[n].hello \in fresh[n]]_vars
  BY VerdictStep DEF VerifiesFresh
<1> QED
  BY <1>1, <1>2, FreshStep, GateTyped, PTL DEF Spec, FreshDecision

=============================================================================
