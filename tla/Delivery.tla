----------------------------- MODULE Delivery ------------------------------
(***************************************************************************)
(* How releases, pauses and server settings reach their readers: the       *)
(* public manifest routes of app.js behind an edge cache (cloudflare.js),  *)
(* the launcher channels (launcher-update.js), and game servers that are   *)
(* registered, get tokens and bundles, and poll for their assignment       *)
(* (servers.js, server-bundle.js).                                         *)
(*                                                                         *)
(* A feed is a pack or a launcher channel; releases of all feeds are       *)
(* numbered together.  What a release holds, and the snapshot it is made   *)
(* from, are in Releases.  As there, an instance answers from its copy,    *)
(* which only its own mutations renew.                                     *)
(***************************************************************************)
EXTENDS Naturals, FiniteSets

CONSTANTS
  Instances, Packs, Channels, Servers,
  None,
  MaxChanges,   \* what operators do, in all
  FirstServers  \* servers that are registered at the start, and their packs

Feeds == Packs \cup Channels
Numbers == 1..MaxChanges

ASSUME DeliveryAssumption ==
  /\ Packs \cap Channels = {}
  /\ MaxChanges \in Nat
  /\ FirstServers \in [Servers -> Packs \cup {None}] /\ None \notin Packs

VARIABLES
  row,       \* the stored state
  copy,      \* this.data of each instance
  purging,   \* feeds whose edge copy is about to be purged
  edge,      \* the release the edge serves, 0 when it has none
  fetching,  \* the release in an answer on its way to the edge
  polling,   \* the answer to a server's poll, made from the snapshot
  told,      \* the last answer each server got
  held,      \* the token in the server's server.config.json
  building,  \* a bundle whose token was rotated and that is not delivered yet
  changes

vars == <<row, copy, purging, edge, fetching, polling, told, held, building, changes>>
outside == <<purging, edge, fetching, polling, told, held, building>>

Server == [pack : Packs, token : 0..MaxChanges, restart : BOOLEAN]
Row == [feed : [Numbers -> Feeds \cup {None}], latest : [Feeds -> 0..MaxChanges],
        revoked : SUBSET Numbers, paused : BOOLEAN, servers : [Servers -> Server \cup {None}]]
Answer == [release : 0..MaxChanges, paused : BOOLEAN, accepting : BOOLEAN]

TypeOK ==
  /\ row \in Row /\ copy \in [Instances -> Row]
  /\ purging \subseteq Feeds
  /\ edge \in [Feeds -> 0..MaxChanges] /\ fetching \in [Feeds -> 0..MaxChanges]
  /\ polling \in [Servers -> [instance : Instances, answer : Answer] \cup {None}]
  /\ told \in [Servers -> Answer \cup {None}]
  /\ held \in [Servers -> 0..MaxChanges] /\ building \in [Servers -> 0..MaxChanges]
  /\ changes \in 0..MaxChanges

Init ==
  /\ row = [feed |-> [n \in Numbers |-> None], latest |-> [f \in Feeds |-> 0],
            revoked |-> {}, paused |-> FALSE,
            servers |-> [s \in Servers |->
              IF FirstServers[s] = None THEN None
              ELSE [pack |-> FirstServers[s], token |-> 0, restart |-> FALSE]]]
  /\ copy = [i \in Instances |-> row]
  /\ purging = {} /\ edge = [f \in Feeds |-> 0] /\ fetching = [f \in Feeds |-> 0]
  /\ polling = [s \in Servers |-> None] /\ told = [s \in Servers |-> None]
  /\ held = [s \in Servers |-> 0] /\ building = [s \in Servers |-> 0]
  /\ changes = 0

\* Faulty: the mutation does not renew the copy.
MutateRowOnly(i, r) == row' = r /\ UNCHANGED copy

\* store.mutate at instance i.
Mutate(i, r) == row' = r /\ copy' = [copy EXCEPT ![i] = r]

\* An operator does something; changes also numbers releases and tokens.
Change == changes < MaxChanges /\ changes' = changes + 1

\* activeRelease of a pack, currentLauncher of a channel: 0 when there is none.
Active(c, f) == IF c.latest[f] \in c.revoked THEN 0 ELSE c.latest[f]

\* What GET latest answers: 503 while distribution is paused, but a launcher
\* is always served.
Served(c, f) == IF f \in Packs /\ c.paused THEN 0 ELSE Active(c, f)

------------------------------------------------------------------------------
(* Operators.                                                              *)

Published(r, f, n) == [r EXCEPT !.feed[n] = f, !.latest[f] = n]

PublishPack(i, p) ==
  /\ Change /\ Mutate(i, Published(row, p, changes + 1))
  /\ UNCHANGED outside

\* A launcher replaces the channel, and the edge is purged.
PublishLauncher(i, ch) ==
  /\ Change /\ Mutate(i, Published(row, ch, changes + 1))
  /\ purging' = purging \cup {ch}
  /\ UNCHANGED <<edge, fetching, polling, told, held, building>>

\* Any release of a pack.
RevokePack(i, n) ==
  /\ Change /\ row.feed[n] \in Packs
  /\ Mutate(i, [row EXCEPT !.revoked = @ \cup {n}])
  /\ purging' = purging \cup {row.feed[n]}
  /\ UNCHANGED <<edge, fetching, polling, told, held, building>>

\* The channel as it is.
RevokeLauncher(i, ch) ==
  /\ Change /\ row.latest[ch] # 0
  /\ Mutate(i, [row EXCEPT !.revoked = @ \cup {row.latest[ch]}])
  /\ purging' = purging \cup {ch}
  /\ UNCHANGED <<edge, fetching, polling, told, held, building>>

\* The edge is not purged.
Rollback(i, n) ==
  /\ Change /\ row.feed[n] \in Packs /\ n \notin row.revoked
  /\ Mutate(i, [row EXCEPT !.latest[row.feed[n]] = n])
  /\ UNCHANGED outside

Pause(i, paused) ==
  /\ Change /\ Mutate(i, [row EXCEPT !.paused = paused])
  /\ UNCHANGED outside

------------------------------------------------------------------------------
(* The edge.                                                               *)

\* purgeCloudflare is answered, or fails or times out: the change stays.
Purge(f, works) ==
  /\ f \in purging /\ purging' = purging \ {f}
  /\ edge' = IF works THEN [edge EXCEPT ![f] = 0] ELSE edge
  /\ UNCHANGED <<row, copy, fetching, polling, told, held, building, changes>>

\* A reader asks for a manifest that the edge does not have.
EdgeFetch(i, f) ==
  /\ edge[f] = 0 /\ fetching[f] = 0 /\ Served(copy[i], f) # 0
  /\ fetching' = [fetching EXCEPT ![f] = Served(copy[i], f)]
  /\ UNCHANGED <<row, copy, purging, edge, polling, told, held, building, changes>>

\* The answer arrives, whatever was purged meanwhile.
EdgeFill(f) ==
  /\ fetching[f] # 0
  /\ edge' = [edge EXCEPT ![f] = fetching[f]]
  /\ fetching' = [fetching EXCEPT ![f] = 0]
  /\ UNCHANGED <<row, copy, purging, polling, told, held, building, changes>>

\* Faulty: manifests are cached like artifacts.
CachedForever(kind) == TRUE

\* cloudflareCacheHeaders: a year for an artifact, half a minute for a manifest.
Immutable(kind) == kind = "artifact"

EdgeExpire(f) ==
  /\ edge[f] # 0 /\ ~Immutable("manifest")
  /\ edge' = [edge EXCEPT ![f] = 0]
  /\ UNCHANGED <<row, copy, purging, fetching, polling, told, held, building, changes>>

------------------------------------------------------------------------------
(* The registry of servers.                                                *)

Edited(i, s, server) == Mutate(i, [row EXCEPT !.servers[s] = server])

\* The token is shown once, and the operator pastes it.
CreateServer(i, s, p) ==
  /\ Change /\ row.servers[s] = None
  /\ Edited(i, s, [pack |-> p, token |-> changes + 1, restart |-> FALSE])
  /\ held' = [held EXCEPT ![s] = changes + 1]
  /\ UNCHANGED <<purging, edge, fetching, polling, told, building>>

\* Update, delete and reset look the server up in the copy for its owner, and
\* again in the row.
Owned(i, s) == copy[i].servers[s] # None /\ row.servers[s] # None

PatchServer(i, s, p) ==
  /\ Change /\ Owned(i, s)
  /\ Edited(i, s, [row.servers[s] EXCEPT !.pack = p])
  /\ UNCHANGED outside

DeleteServer(i, s) ==
  /\ Change /\ Owned(i, s)
  /\ Edited(i, s, None)
  /\ UNCHANGED outside

ResetToken(i, s) ==
  /\ Change /\ Owned(i, s)
  /\ Edited(i, s, [row.servers[s] EXCEPT !.token = changes + 1])
  /\ held' = [held EXCEPT ![s] = changes + 1]
  /\ UNCHANGED <<purging, edge, fetching, polling, told, building>>

\* POST bundle with rotateToken: the token is rotated before the ZIP is
\* built.  (With the current token nothing changes.)
Bundle(i, s) ==
  /\ Change /\ Owned(i, s) /\ building[s] = 0
  /\ Active(copy[i], copy[i].servers[s].pack) # 0
  /\ Edited(i, s, [row.servers[s] EXCEPT !.token = changes + 1])
  /\ building' = [building EXCEPT ![s] = changes + 1]
  /\ UNCHANGED <<purging, edge, fetching, polling, told, held>>

\* The ZIP is delivered and unpacked, or an artifact is missing or the
\* download breaks: then the new token is lost and the old one refused.
BundleEnds(s, delivered) ==
  /\ building[s] # 0
  /\ held' = IF delivered THEN [held EXCEPT ![s] = building[s]] ELSE held
  /\ building' = [building EXCEPT ![s] = 0]
  /\ UNCHANGED <<row, copy, purging, edge, fetching, polling, told, changes>>

------------------------------------------------------------------------------
(* What servers ask.                                                       *)

\* The bearer token is compared with the copy's hash.
Credential(i, s) == copy[i].servers[s] # None /\ copy[i].servers[s].token = held[s]

\* POST sync-status: the server needs a restart, or does not any more.
SyncStatus(i, s, restart) ==
  /\ Change /\ Credential(i, s) /\ row.servers[s] # None
  /\ Edited(i, s, [row.servers[s] EXCEPT !.restart = restart])
  /\ UNCHANGED outside

\* handshakePolicy and assignmentAcceptingPlayers.
Assignment(c, s) ==
  LET n == Active(c, c.servers[s].pack) IN
  [release |-> n, paused |-> c.paused,
   accepting |-> n # 0 /\ ~c.paused /\ ~c.servers[s].restart]

\* GET assignment: the answer comes from the copy as it was before the
\* mutation that notes when the server was last seen.
PollRead(i, s) ==
  /\ polling[s] = None /\ Credential(i, s)
  /\ polling' = [polling EXCEPT ![s] = [instance |-> i, answer |-> Assignment(copy[i], s)]]
  /\ UNCHANGED <<row, copy, purging, edge, fetching, told, held, building, changes>>

\* The mutation, which throws when the server was deleted, and the answer.
PollAnswer(s) ==
  /\ polling[s] # None
  /\ polling' = [polling EXCEPT ![s] = None]
  /\ IF row.servers[s] = None
     THEN UNCHANGED <<row, copy, told>>
     ELSE /\ Mutate(polling[s].instance, row)
          /\ told' = [told EXCEPT ![s] = polling[s].answer]
  /\ UNCHANGED <<purging, edge, fetching, held, building, changes>>

------------------------------------------------------------------------------

Operate(i) ==
  \/ \E p \in Packs : PublishPack(i, p)
  \/ \E ch \in Channels : PublishLauncher(i, ch) \/ RevokeLauncher(i, ch)
  \/ \E n \in Numbers : RevokePack(i, n) \/ Rollback(i, n)
  \/ \E paused \in BOOLEAN : Pause(i, paused)

Register(i, s) ==
  \/ \E p \in Packs : CreateServer(i, s, p) \/ PatchServer(i, s, p)
  \/ DeleteServer(i, s) \/ ResetToken(i, s) \/ Bundle(i, s)
  \/ \E restart \in BOOLEAN : SyncStatus(i, s, restart)

Edge(f) == EdgeFill(f) \/ EdgeExpire(f) \/ \E works \in BOOLEAN : Purge(f, works)

Next ==
  \/ \E i \in Instances : \/ Operate(i)
                          \/ \E s \in Servers : Register(i, s) \/ PollRead(i, s)
                          \/ \E f \in Feeds : EdgeFetch(i, f)
  \/ \E f \in Feeds : Edge(f)
  \/ \E s \in Servers : PollAnswer(s) \/ \E delivered \in BOOLEAN : BundleEnds(s, delivered)

\* Answers arrive and expire, and the polls of a server that is let in reach
\* every instance.
FairSpec ==
  /\ Init /\ [][Next]_vars
  /\ \A f \in Feeds : WF_vars(EdgeFill(f)) /\ WF_vars(EdgeExpire(f))
  /\ \A s \in Servers : WF_vars(PollAnswer(s)) /\ \A i \in Instances : SF_vars(PollRead(i, s))

------------------------------------------------------------------------------
(* Properties.                                                             *)

\* Every instance lets the server in.
LetIn(s) == row.servers[s] # None /\ \A i \in Instances : Credential(i, s)

\* CLOUDFLARE.md: thirty seconds at the edge, purged after a revocation.
\* Whatever is published, revoked, rolled back or paused, whichever purge
\* fails, and whatever answers of older copies are on their way: once the
\* operators are done, the edge holds what the store serves, or nothing - as
\* long as a server polls every instance.
EdgeConverges ==
  \A f \in Feeds, s \in Servers :
    <>[]LetIn(s) => <>[](edge[f] \in {0, Served(row, f)})

\* Likewise what a server was told becomes what the store says, though each
\* answer comes from a snapshot that may be outdated when it is sent.
ServersConverge ==
  \A s \in Servers :
    <>[]LetIn(s) => <>[](row.servers[s] # None /\ told[s] = Assignment(row, s))

=============================================================================
