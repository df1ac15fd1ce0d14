----------------------------- MODULE JoinGate -----------------------------
(***************************************************************************)
(* How a player gets into the world: the client plugin posts a hello to    *)
(* the API (plugins/client/ClientPlugin.cs), the server plugin claims it   *)
(* and compares it with the assigned policy (plugins/server/               *)
(* ServerPlugin.cs), while the operator changes what is served and the     *)
(* server polls its assignment.                                            *)
(*                                                                         *)
(* A release stands for everything a hello and a policy are compared by:   *)
(* pack, version, key and artifact fingerprint.  The deadline of a pending *)
(* handshake is the flag "waiting" of its entry; every other delay is an   *)
(* arbitrary interleaving.  A connection is known by its ClientNumber; a   *)
(* number is reused only when nothing refers to it any more.               *)
(***************************************************************************)
EXTENDS Handshakes

CONSTANTS
  Players,    \* players with the client plugin, AutoSync on
  Numbers,    \* ClientNumbers of connections
  ClientIds,  \* [Players -> SUBSET Ids]: what CollectLocalPlayerIds returns
  ServerIds,  \* [Players -> Seq(Ids)]: what CollectPlayerIds returns
  AtStart,    \* what may be served when the plugins start
  Events,     \* what else may happen: see EventNames
  MaxChanges, \* bound: how often the operator changes what is served
  MaxMishaps  \* bound: how many of the Events happen, deadlines aside

\* lost: a request or its answer is lost; slow: a deadline passes although the
\* hello is on its way; leave: players leave before they are verified;
\* restart: a game process restarts; settings: the player saves the settings;
\* syncing: a client tells that it is still downloading.
EventNames == {"lost", "slow", "leave", "restart", "settings", "syncing"}

Assignment == [release : Releases \cup {None}, paused : BOOLEAN]

ClientEntry == [verified : BOOLEAN, waiting : BOOLEAN]

ASSUME JoinGateAssumption ==
  /\ ClientIds \in [Players -> SUBSET Ids]
  /\ ServerIds \in [Players -> Seq(Ids)]
  /\ None \notin Record \cup Releases \cup Players \cup ClientEntry
  /\ Syncing \notin Releases \cup {None}
  /\ AtStart \subseteq Releases \cup {None}
  /\ Events \subseteq EventNames
  /\ MaxChanges \in Nat /\ MaxMishaps \in Nat

VARIABLES
  served, paused,   \* the API: active release of the pack; distributionPaused
  changes,          \* history: how often the operator changed them
  mishaps,          \* history: how many of the Events have happened
  box,              \* the API: pending hellos of this server
  local,            \* client: the release in state.json
  ready, sent,      \* client: syncReady (see Readiness), handshakeSent
  post,             \* client: the hello being posted
  polled,           \* server: the assignment PollAsync is working on
  policy,           \* server: policy
  accepting,        \* server: acceptingPlayers
  clients,          \* server: clients, by ClientNumber
  claim,            \* server: claiming, and how far ClaimAsync has got
  stage, owner,     \* the game: how far a connection is, and whose it is
  used,             \* history: groups that were claimed
  fresh             \* history: unpaused releases in force since a claim was
                    \*   answered

operator == <<served, paused, changes>>
client   == <<local, ready, sent, post>>
assigned == <<polled, policy, accepting>>
conns    == <<stage, owner>>
history  == <<used, fresh>>
vars     == <<operator, box, client, assigned, clients, claim, conns, history,
              mishaps>>

Verdicts == {"deny", "ok", "syncing"}

Claim == [step : {"none", "asked", "answered", "decided"},
          hello : Releases \cup {Syncing, None}, verdict : Verdicts]

NoClaim == [step |-> "none", hello |-> None, verdict |-> "deny"]

Asked == [NoClaim EXCEPT !.step = "asked"]

\* asks: syncReady holds while the restart prompt is open or still to open.
Readiness == {"no", "yes", "asks"}

Stages == {"out", "login", "joined", "world", "closing"}

TypeOK ==
  /\ served \in Releases \cup {None} /\ paused \in BOOLEAN
  /\ changes \in 0 .. MaxChanges /\ mishaps \in 0 .. MaxMishaps
  /\ box \in Mailbox
  /\ local \in [Players -> Releases \cup {None}]
  /\ ready \in [Players -> Readiness] /\ sent \in [Players -> BOOLEAN]
  /\ post \in [Players -> Releases \cup {None}]
  /\ polled \in Assignment \cup {None} /\ policy \in Assignment \cup {None}
  /\ accepting \in BOOLEAN
  /\ clients \in [Numbers -> ClientEntry \cup {None}]
  /\ claim \in [Numbers -> Claim]
  /\ stage \in [Numbers -> Stages]
  /\ owner \in [Numbers -> Players \cup {None}]
  /\ used \subseteq Groups
  /\ fresh \in [Numbers -> SUBSET Releases]

Init ==
  /\ served \in AtStart /\ paused = FALSE /\ changes = 0 /\ mishaps = 0
  /\ box = Empty
  /\ local = [p \in Players |-> None]
  /\ ready = [p \in Players |-> "no"] /\ sent = [p \in Players |-> FALSE]
  /\ post = [p \in Players |-> None]
  /\ polled = None /\ policy = None /\ accepting = FALSE
  /\ clients = [n \in Numbers |-> None]
  /\ claim = [n \in Numbers |-> NoClaim]
  /\ stage = [n \in Numbers |-> "out"] /\ owner = [n \in Numbers |-> None]
  /\ used = {} /\ fresh = [n \in Numbers |-> {}]

Mishap(kind) ==
  /\ kind \in Events /\ mishaps < MaxMishaps
  /\ mishaps' = mishaps + 1

-----------------------------------------------------------------------------
(* The operator publishes, revokes or rolls back, pauses or resumes.       *)

Serve(r, z) ==
  /\ changes < MaxChanges
  /\ (r = served) # (z = paused)
  /\ served' = r /\ paused' = z /\ changes' = changes + 1
  /\ UNCHANGED <<box, client, assigned, clients, claim, conns, history,
                 mishaps>>

-----------------------------------------------------------------------------
(* PollAsync of the server plugin.                                         *)

Poll ==
  /\ polled = None
  /\ polled' = [release |-> served, paused |-> paused]
  /\ UNCHANGED <<operator, box, client, policy, accepting, clients, claim,
                 conns, history, mishaps>>

\* History: the releases policy a lets in.
InForce(a) == {q \in Releases : a # None /\ a.release = q /\ ~a.paused}

\* CanAccept refuses when nothing is served, while paused, and as long as the
\* pack on the server's disk is another one or waits for a restart.
MayAccept(a) == a.release # None /\ ~a.paused

\* ApplyAssignment: when the local pack is the assigned one before the sync
\* (early), and after every sync that succeeded.
Apply(accept, early) ==
  /\ polled # None
  /\ accept => MayAccept(polled)
  /\ policy' = polled /\ accepting' = accept
  /\ polled' = IF early THEN polled ELSE None
  /\ fresh' = [n \in Numbers |->
                 IF claim[n].step = "answered"
                   THEN fresh[n] \cup InForce(polled) ELSE fresh[n]]
  /\ UNCHANGED <<operator, box, client, clients, claim, conns, used, mishaps>>

\* The sync threw: the previous policy stays.
PollFails ==
  /\ polled # None
  /\ polled' = None
  /\ UNCHANGED <<operator, box, client, policy, accepting, clients, claim,
                 conns, history, mishaps>>

-----------------------------------------------------------------------------
(* The client plugin.                                                      *)

Connected(p) == \E n \in Numbers : owner[n] = p /\ stage[n] # "out"

\* SyncPackAsync succeeds.  It is silent while syncReady holds, and then leaves
\* handshakeSent alone.  Only a changed pack may need a restart: it asks for it,
\* or drops syncReady when AutoRestart is off.
Sync(p, outcome) ==
  /\ served # None /\ ~paused
  /\ outcome # "yes" => local[p] # served
  /\ local' = [local EXCEPT ![p] = served]
  /\ ready' = [ready EXCEPT ![p] =
                 IF outcome = "yes" /\ @ = "asks" THEN "asks" ELSE outcome]
  /\ sent' = [sent EXCEPT ![p] = @ /\ ready[p] # "no"]
  /\ UNCHANGED <<operator, box, post, assigned, clients, claim, conns, history,
                 mishaps>>

CancelRestart(p) ==
  /\ ready[p] = "asks"
  /\ ready' = [ready EXCEPT ![p] = "no"]
  /\ UNCHANGED <<operator, box, local, sent, post, assigned, clients, claim,
                 conns, history, mishaps>>

\* TrySendHandshake, with the hello BuildHello reads from state.json
SendHello(p) ==
  /\ Connected(p)
  /\ ready[p] # "no" /\ ~sent[p] /\ post[p] = None
  /\ post' = [post EXCEPT ![p] = local[p]]
  /\ UNCHANGED <<operator, box, local, ready, sent, assigned, clients, claim,
                 conns, history, mishaps>>

FreeGroups == Groups \ GroupsIn(box)

\* storeHandshake, under a fresh groupId
Deposit(p, hello) ==
  /\ FreeGroups # {}
  /\ LET g == CHOOSE g \in FreeGroups : TRUE
     IN  /\ box' = Stored(box, ClientIds[p], [group |-> g, hello |-> hello])
         /\ used' = used \ {g}

HelloSent(p) ==
  /\ post[p] # None
  /\ Deposit(p, post[p])
  /\ post' = [post EXCEPT ![p] = None]
  /\ sent' = [sent EXCEPT ![p] = TRUE]
  /\ UNCHANGED <<operator, local, ready, assigned, clients, claim, conns, fresh,
                 mishaps>>

\* SubmitHandshakeAsync throws: the request or its answer was lost.
HelloFailed(p) ==
  /\ Mishap("lost")
  /\ post[p] # None
  /\ Deposit(p, post[p]) \/ UNCHANGED <<box, used>>
  /\ post' = [post EXCEPT ![p] = None]
  /\ sent' = [sent EXCEPT ![p] = FALSE]
  /\ UNCHANGED <<operator, local, ready, assigned, clients, claim, conns,
                 fresh>>

\* A client that is still downloading posts a hello with syncing set, which both
\* the API and the server plugin know; the plugin of this version posts none.
HelloSyncing(p) ==
  /\ Mishap("syncing")
  /\ Connected(p) /\ ready[p] = "no" /\ post[p] = None
  /\ Deposit(p, Syncing)
  /\ UNCHANGED <<operator, client, assigned, clients, claim, conns, fresh>>

-----------------------------------------------------------------------------
(* The claim of the server plugin: TryClaim, ClaimAsync, OnHello.          *)

\* The numbers among those asked for that have no claim running and are not
\* verified: claiming.Add succeeds.
Claimable(ns) ==
  {n \in ns : /\ claim[n].step = "none"
              /\ clients[n] = None \/ ~clients[n].verified}

TryClaim(ns) ==
  claim' = [n \in Numbers |-> IF n \in Claimable(ns) THEN Asked ELSE claim[n]]

\* claimHandshake at the API; an answer without a hello ends the claim.
Answer(n) ==
  /\ claim[n].step = "asked"
  /\ LET r == Found(box, ServerIds[owner[n]])
     IN  IF r = None
           THEN /\ claim' = [claim EXCEPT ![n] = NoClaim]
                /\ UNCHANGED <<box, history>>
           ELSE /\ claim' = [claim EXCEPT ![n].step = "answered",
                                           ![n].hello = r.hello]
                /\ box' = Without(box, r.group)
                /\ used' = used \cup {r.group}
                /\ fresh' = [fresh EXCEPT ![n] = InForce(policy)]
  /\ UNCHANGED <<operator, client, assigned, clients, conns, mishaps>>

\* ClaimHandshakeAsync throws, before or after the API consumed the hello.
ClaimLost(n) ==
  /\ Mishap("lost")
  /\ claim[n].step \in {"asked", "answered"}
  /\ claim' = [claim EXCEPT ![n] = NoClaim]
  /\ fresh' = [fresh EXCEPT ![n] = {}]
  /\ UNCHANGED <<operator, box, client, assigned, clients, conns, used>>

\* Faulty: a paused distribution does not count.
RefusesUnassigned == policy = None

Refuses == policy = None \/ policy.paused

Verdict(hello) ==
  IF Refuses THEN "deny"
  ELSE IF hello = Syncing THEN "syncing"
  ELSE IF policy.release = hello THEN "ok" ELSE "deny"

\* Evaluate reads the policy under the lock and lets the lock go.
Evaluate(n) ==
  /\ claim[n].step = "answered"
  /\ claim' = [claim EXCEPT ![n].step = "decided",
                             ![n].verdict = Verdict(claim[n].hello)]
  /\ UNCHANGED <<operator, box, client, assigned, clients, conns, history,
                 mishaps>>

Kicked(ns) ==
  stage' = [n \in Numbers |->
              IF n \in ns /\ stage[n] # "out" THEN "closing" ELSE stage[n]]

Entry(ok) == [verified |-> ok, waiting |-> TRUE]

\* The rest of OnHello, whether or not the connection still exists: a syncing
\* hello renews the wait, and nobody is kicked for it.
Decide(n) ==
  /\ claim[n].step = "decided"
  /\ clients' = [clients EXCEPT ![n] = Entry(claim[n].verdict = "ok")]
  /\ Kicked(IF claim[n].verdict = "deny" THEN {n} ELSE {})
  /\ claim' = [claim EXCEPT ![n] = NoClaim]
  /\ fresh' = [fresh EXCEPT ![n] = {}]
  /\ UNCHANGED <<operator, box, client, assigned, owner, used, mishaps>>

-----------------------------------------------------------------------------
(* The game's events on the server.                                        *)

Waits(n) == clients[n] # None /\ ~clients[n].verified /\ clients[n].waiting

Denied(n) == clients[n] # None /\ ~clients[n].verified /\ ~clients[n].waiting

Unused == {n \in Numbers : /\ stage[n] = "out" /\ clients[n] = None
                           /\ claim[n].step = "none"}

\* Each connection gets a number nothing refers to: OnPlayerLogin.
Login(n, p) ==
  /\ ~Connected(p)
  /\ Unused # {} /\ n = CHOOSE m \in Unused : TRUE
  /\ owner' = [owner EXCEPT ![n] = p]
  /\ TryClaim({n})
  /\ stage' = [stage EXCEPT ![n] =
       IF (policy # None /\ policy.paused) \/ ~accepting \/ Denied(n)
         THEN "out" ELSE "login"]
  /\ UNCHANGED <<operator, box, client, assigned, clients, history, mishaps>>

\* Faulty: while a claim is running its answer is left to create the entry.
JoinedIdle(n) ==
  /\ stage[n] = "login"
  /\ clients' = [clients EXCEPT ![n] =
       IF @ = None THEN IF claim[n].step = "none" THEN Entry(FALSE) ELSE None
                   ELSE [@ EXCEPT !.waiting = TRUE]]
  /\ TryClaim({n})
  /\ stage' = [stage EXCEPT ![n] = "joined"]
  /\ UNCHANGED <<operator, box, client, assigned, owner, history, mishaps>>

Joined(n) ==
  /\ stage[n] = "login"
  /\ clients' = [clients EXCEPT ![n] =
       IF @ = None THEN Entry(FALSE) ELSE [@ EXCEPT !.waiting = TRUE]]
  /\ TryClaim({n})
  /\ stage' = [stage EXCEPT ![n] = "joined"]
  /\ UNCHANGED <<operator, box, client, assigned, owner, history, mishaps>>

Spawning(n) ==
  /\ stage[n] = "joined"
  /\ IF clients[n] # None /\ (clients[n].verified \/ Waits(n))
       THEN stage' = [stage EXCEPT ![n] = "world"]
       ELSE Kicked({n})
  /\ UNCHANGED <<operator, box, client, assigned, clients, claim, owner,
                 history, mishaps>>

\* Kicked, or done playing; to leave unverified is a mishap.
MayLeave(n) ==
  stage[n] = "closing" \/ (clients[n] # None /\ clients[n].verified)

Disconnected(n) ==
  /\ stage[n] # "out"
  /\ IF MayLeave(n) THEN UNCHANGED mishaps ELSE Mishap("leave")
  /\ stage' = [stage EXCEPT ![n] = "out"]
  /\ clients' = [clients EXCEPT ![n] = None]
  /\ UNCHANGED <<operator, box, client, assigned, claim, owner, history>>

\* Faulty: an entry whose claim is running is not looked at.
ExpiredIdle == {n \in Numbers : Denied(n) /\ claim[n].step = "none"}

Expired == {n \in Numbers : Denied(n)}

Unverified == {n \in Numbers : clients[n] # None /\ ~clients[n].verified}

\* OnGameUpdate; due: the entries whose NextClaimAt has passed.
Update(due) ==
  /\ Kicked(Expired)
  /\ TryClaim(due)
  /\ UNCHANGED <<operator, box, client, assigned, clients, owner, history,
                 mishaps>>

-----------------------------------------------------------------------------
(* Time, and processes that restart.                                       *)

\* The hello of connection n is on its way, or about to be.
OnItsWay(n) ==
  \/ claim[n].step \in {"answered", "decided"}
  \/ Found(box, ServerIds[owner[n]]) # None
  \/ post[owner[n]] # None
  \/ ready[owner[n]] = "no" \/ ~sent[owner[n]]

\* Two or three minutes pass without a verdict.
Deadline(n) ==
  /\ Waits(n)
  /\ "slow" \in Events \/ ~OnItsWay(n)
  /\ clients' = [clients EXCEPT ![n].waiting = FALSE]
  /\ UNCHANGED <<operator, box, client, assigned, claim, conns, history,
                 mishaps>>

\* Two minutes pass without a claim: pruneHandshakes.
Expire(g) ==
  /\ Mishap("slow")
  /\ g \in GroupsIn(box)
  /\ box' = Without(box, g)
  /\ UNCHANGED <<operator, client, assigned, clients, claim, conns, history>>

\* The player's game restarts (ConfirmRestart, or by hand).
ClientRestart(p) ==
  /\ Mishap("restart")
  /\ ~Connected(p)
  /\ ready' = [ready EXCEPT ![p] = "no"]
  /\ sent' = [sent EXCEPT ![p] = FALSE]
  /\ post' = [post EXCEPT ![p] = None]
  /\ UNCHANGED <<operator, box, local, assigned, clients, claim, conns,
                 history>>

\* ApplyRuntime, from the settings window
SaveSettings(p) ==
  /\ Mishap("settings")
  /\ ready' = [ready EXCEPT ![p] = "no"]
  /\ sent' = [sent EXCEPT ![p] = FALSE]
  /\ UNCHANGED <<operator, box, local, post, assigned, clients, claim, conns,
                 history>>

\* What current-assignment.json may hold: ApplyAssignment deletes the old file
\* before it moves the new one there, both before policy is set.
Cached == IF polled = None THEN {policy} ELSE {policy, polled, None}

\* The game server restarts: LoadCachedAssignment.
ServerRestart(a, accept) ==
  /\ Mishap("restart")
  /\ accept => a # None /\ MayAccept(a)
  /\ policy' = a /\ accepting' = accept /\ polled' = None
  /\ clients' = [n \in Numbers |-> None]
  /\ claim' = [n \in Numbers |-> NoClaim]
  /\ stage' = [n \in Numbers |-> "out"]
  /\ fresh' = [n \in Numbers |-> {}]
  /\ UNCHANGED <<operator, box, client, owner, used>>

Next ==
  \/ \E r \in Releases \cup {None}, z \in BOOLEAN : Serve(r, z)
  \/ Poll \/ PollFails
  \/ \E accept, early \in BOOLEAN : Apply(accept, early)
  \/ \E p \in Players, outcome \in Readiness : Sync(p, outcome)
  \/ \E p \in Players : CancelRestart(p) \/ SendHello(p) \/ HelloSent(p) \/ HelloFailed(p)
  \/ \E p \in Players : HelloSyncing(p)
  \/ \E n \in Numbers : Answer(n) \/ ClaimLost(n) \/ Evaluate(n) \/ Decide(n)
  \/ \E n \in Numbers, p \in Players : Login(n, p)
  \/ \E n \in Numbers : Joined(n) \/ Spawning(n) \/ Disconnected(n)
  \/ \E due \in SUBSET Unverified : Update(due)
  \/ \E n \in Numbers : Deadline(n)
  \/ \E g \in Groups : Expire(g)
  \/ \E p \in Players : ClientRestart(p) \/ SaveSettings(p)
  \/ \E a \in Cached, accept \in BOOLEAN : ServerRestart(a, accept)

Spec == Init /\ [][Next]_vars

-----------------------------------------------------------------------------
(* Properties.                                                             *)

\* Pending hellos are consumed on claim (PROTOCOL.md): whatever ids it was
\* stored under, no hello is handed to two claims.
HelloUsedOnce ==
  [][\A n \in Numbers : claim[n].step = "asked" /\ claim'[n].step = "answered"
        => \E g \in Groups \ used : used' = used \cup {g}]_vars

\* A player is verified for a release that was required, and not paused, at
\* some time after the API answered the claim: never by a policy that was
\* replaced before the hello was looked at.
FreshDecision ==
  [][\A n \in Numbers :
       /\ claim[n].step = "decided"
       /\ clients'[n] # None /\ clients'[n].verified
       /\ clients[n] = None \/ ~clients[n].verified
       => claim[n].hello \in fresh[n]]_vars

\* Whoever has joined is on the list that OnGameUpdate supervises, whatever the
\* order of claims, verdicts and disconnects: nobody plays unsupervised.
EntrySupervised ==
  \A n \in Numbers : stage[n] \in {"joined", "world"} => clients[n] # None

\* The main loop runs, kicked connections close, deadlines pass.
FairSpec ==
  /\ Spec
  /\ WF_vars(Update(Unverified))
  /\ \A n \in Numbers : /\ WF_vars(Deadline(n))
                        /\ WF_vars(stage[n] = "closing" /\ Disconnected(n))

\* A player in the world is verified in the end, or is in it no longer.  Every
\* hello that says the client is still syncing renews its wait: MaxMishaps bounds
\* them, so this is the promise to a client that stops telling so some time.
JoinDecided ==
  \A n \in Numbers :
    stage[n] = "world" ~> stage[n] # "world" \/ clients[n].verified

=============================================================================
