------------------------------ MODULE Releases -----------------------------
(***************************************************************************)
(* Packs and their releases (apps/api/src/app.js): the catalogue is        *)
(* edited, packs are saved, published, revoked and rolled back, and        *)
(* distribution is paused.  How a release reaches its readers is in        *)
(* Delivery.                                                               *)
(*                                                                         *)
(* The API runs as one or several instances over one store.  A handler     *)
(* reads its instance's copy (store.snapshot) and writes by a mutation of  *)
(* the stored row (store.mutate), which also renews the copy.  Handlers    *)
(* whose snapshot and mutation are apart are two actions; in those that    *)
(* are one, the copy may still be older than the row.                      *)
(***************************************************************************)
EXTENDS Catalog

CONSTANTS
  Instances,    \* processes of the API
  Operators,
  Requests,     \* what may be asked of a pack: [game, entries]
  First,        \* the stored state at the start, what earlier requests left
  Edits,        \* kinds of change to the catalogue that operators make
  MaxEdits, MaxReleases, MaxDangers

Dangerous == {"release.revoke", "pack.rollback", "distribution.pause", "distribution.resume"}

VARIABLES
  row,         \* the stored state
  copy,        \* this.data of each instance
  request,     \* what an operator's request holds between its snapshot and its mutate
  issued, done,  \* history: confirmation tokens issued, dangerous actions done
  current,     \* history: releases that no other one of their pack was written before,
               \* since their snapshot
  outdated,    \* history: packs saved when slots, contents, reviews or bans had changed
               \* since the snapshot
  edits

history == <<issued, done, current, outdated, edits>>
vars == <<row, copy, request, history>>

Entry == [mod : {o.mod : o \in Offers}, version : {o.version : o \in Offers}, contents : SUBSET Contents]
Pack == [game : Games, entries : Seq(Entry), latest : 0..MaxReleases]
Release == [pack : Packs, number : 1..(MaxReleases + 1), mods : Manifests, overlays : SUBSET Contents,
            previous : 0..MaxReleases, revoked : BOOLEAN]
Row == [versions : Seq(Offers), slots : SUBSET Slots, contents : SUBSET Contents,
        licensed : SUBSET {o.sha : o \in Offers \cup Contents},
        banned : SUBSET {o.sha : o \in Offers \cup Contents},
        packs : [Packs -> Pack \cup {None}], releases : Seq(Release), paused : BOOLEAN,
        tokens : [Dangerous -> 0..MaxDangers]]

ASSUME ReleasesAssumption ==
  /\ MaxEdits \in Nat /\ MaxReleases \in Nat /\ MaxDangers \in Nat
  /\ \A q \in Requests : q.game \in Games
  /\ None \notin [game : Games, entries : Seq(Entry), latest : Nat]
  /\ First \in Row
  /\ \A j, k \in DOMAIN First.versions :
       j # k => <<First.versions[j].mod, First.versions[j].version>>
                # <<First.versions[k].mod, First.versions[k].version>>
  /\ First.releases = <<>> /\ First.tokens = [a \in Dangerous |-> 0]
  /\ \A p \in Packs : First.packs[p] # None =>
       /\ First.packs[p].latest = 0
       /\ \A k \in DOMAIN First.packs[p].entries : First.packs[p].entries[k].contents \subseteq First.contents

TypeOK ==
  /\ row \in Row /\ Len(row.releases) <= MaxReleases
  /\ copy \in [Instances -> Row]
  /\ \A w \in Operators :
       \/ request[w] = None
       \/ /\ request[w].instance \in Instances /\ request[w].pack \in Packs
          /\ \/ request[w].kind = "save" /\ request[w].value \in Pack
             \/ request[w].kind = "publish" /\ request[w].value \in Release
  /\ issued \in 0..MaxDangers /\ done \in Nat
  /\ current \subseteq 1..MaxReleases /\ outdated \subseteq Packs /\ edits \in 0..MaxEdits

\* The state of a new platform.
EmptyRow ==
  [versions |-> <<>>, slots |-> {}, contents |-> {}, licensed |-> {}, banned |-> {},
   packs |-> [p \in Packs |-> None], releases |-> <<>>, paused |-> FALSE,
   tokens |-> [a \in Dangerous |-> 0]]

Init ==
  /\ row = First /\ copy = [i \in Instances |-> First]
  /\ request = [w \in Operators |-> None]
  /\ issued = 0 /\ done = 0 /\ current = {} /\ outdated = {} /\ edits = 0

------------------------------------------------------------------------------
(* The store, as Store.tla promises it.                                    *)

\* store.mutate at instance i.
Mutate(i, r) == row' = r /\ copy' = [copy EXCEPT ![i] = r]

Edit(kind) == kind \in Edits /\ edits < MaxEdits /\ edits' = edits + 1

counts == <<issued, done, current, outdated>>

------------------------------------------------------------------------------
(* The catalogue.                                                          *)

\* The versions but the one that o is registered as again, of which there is at
\* most one.
Unregistered(versions, o) ==
  LET same == {k \in DOMAIN versions : versions[k].mod = o.mod /\ versions[k].version = o.version} IN
  IF same = {} THEN versions ELSE RemoveAt(versions, Max(same))

\* The row with these slots for m.
WithSlots(m, slots) == [row EXCEPT !.slots = {s \in @ : s.mod # m} \cup slots]

\* POST mods: hash, review and prerequisites are checked in the copy; a
\* version that is registered again becomes the newest. The slots of the mod
\* are replaced, and the contents of those that go stay.
RegisterMod(i, o, slots) ==
  /\ Edit("mod") /\ slots \subseteq {s \in Slots : s.mod = o.mod}
  /\ Approved(copy[i], o.sha) /\ ToSet(o.dependsOn) \subseteq KnownMods(copy[i])
  /\ Mutate(i, [WithSlots(o.mod, slots) EXCEPT !.versions = Append(Unregistered(@, o), o)])
  /\ UNCHANGED <<request, counts>>

\* purgeContentRefs: contents that leave take their references with them.
PurgedPacks(packs, gone) ==
  [p \in Packs |-> IF packs[p] = None THEN None
                   ELSE [packs[p] EXCEPT !.entries = WithoutContents(@, gone)]]

Purged(r, gone) == [r EXCEPT !.contents = @ \ gone, !.packs = PurgedPacks(@, gone)]

\* PUT slots, and DELETE of one: the contents of slots that go are deleted.
SetSlots(i, m, slots) ==
  /\ Edit("slots") /\ m \in KnownMods(row) /\ slots \subseteq {s \in Slots : s.mod = m}
  /\ Mutate(i, LET gone == {k \in row.contents : k.slot.mod = m /\ k.slot \notin slots}
               IN  Purged(WithSlots(m, slots), gone))
  /\ UNCHANGED <<request, counts>>

\* POST contents: everything is checked in the mutation.
SubmitContent(i, k) ==
  /\ Edit("content") /\ k.slot \in row.slots /\ Approved(row, k.sha)
  /\ Mutate(i, [row EXCEPT !.contents = @ \cup {k}])
  /\ UNCHANGED <<request, counts>>

DeleteContent(i, k) ==
  /\ Edit("delete") /\ k \in row.contents
  /\ Mutate(i, Purged(row, {k}))
  /\ UNCHANGED <<request, counts>>

\* A review of an uploaded file, and a ban.
Review(i, h, approved) ==
  /\ Edit("review")
  /\ Mutate(i, [row EXCEPT !.licensed = IF approved THEN @ \cup {h} ELSE @ \ {h}])
  /\ UNCHANGED <<request, counts>>

Ban(i, h) ==
  /\ Edit("ban")
  /\ Mutate(i, [row EXCEPT !.banned = @ \cup {h}])
  /\ UNCHANGED <<request, counts>>

------------------------------------------------------------------------------
(* Packs.                                                                  *)

\* What the contents of a pack's entries were checked against.
Checked(r) == <<r.slots, r.contents, r.licensed, r.banned>>

\* POST packs, up to the mutation: prerequisites are added and every version
\* must fit the game and be licensed (a ban is not looked at).
SaveRead(w, i, p, q) ==
  LET c == copy[i]
      manifest == ExpandPackEntries(c, q.entries, q.game)
      entries == [k \in DOMAIN manifest |->
                    [mod |-> manifest[k].mod, version |-> manifest[k].version,
                     contents |-> ContentsAsked(q.entries, manifest[k].mod)]] IN
  /\ request[w] = None
  /\ manifest \in Manifests
  /\ \A k \in DOMAIN manifest :
       /\ GameVersionMatches(manifest[k], q.game) /\ manifest[k].sha \in c.licensed
       /\ ContentsFit(c, manifest[k].mod, entries[k].contents)
  /\ request' = [request EXCEPT ![w] =
       [kind |-> "save", instance |-> i, pack |-> p, checked |-> Checked(c),
        value |-> [game |-> q.game, entries |-> entries, latest |-> 0]]]
  /\ UNCHANGED <<row, copy, history>>

SaveWrite(w) ==
  LET q == request[w]
      known == row.packs[q.pack]
      latest == IF known = None THEN 0 ELSE known.latest IN
  /\ q # None /\ q.kind = "save" /\ Edit("pack")
  /\ Mutate(q.instance, [row EXCEPT !.packs[q.pack] = [q.value EXCEPT !.latest = latest]])
  /\ outdated' = IF q.checked = Checked(row) THEN outdated \ {q.pack} ELSE outdated \cup {q.pack}
  /\ request' = [request EXCEPT ![w] = None]
  /\ UNCHANGED <<issued, done, current>>

------------------------------------------------------------------------------
(* Releases.                                                               *)

ReleasesOf(r, p) == {n \in DOMAIN r.releases : r.releases[n].pack = p}

\* activeRelease, 0 when there is none.
ActiveRelease(r, p) ==
  LET n == r.packs[p].latest IN
  IF n = 0 THEN 0 ELSE IF r.releases[n].revoked THEN 0 ELSE n

\* Faulty: revoked releases are not counted.
ReleaseNumberActive(r, p) == Cardinality({n \in ReleasesOf(r, p) : ~r.releases[n].revoked}) + 1

ReleaseNumber(r, p) == Cardinality(ReleasesOf(r, p)) + 1

\* POST releases, up to the signature: number, predecessor and manifest come
\* from the copy.
PublishRead(w, i, p) ==
  LET c == copy[i]
      pack == c.packs[p]
      manifest == ExpandPackEntries(c, pack.entries, pack.game)
      asked(k) == ContentsAsked(pack.entries, manifest[k].mod) IN
  /\ request[w] = None /\ pack # None /\ Len(row.releases) < MaxReleases
  /\ manifest \in Manifests
  /\ \A k \in DOMAIN manifest : ContentsFit(c, manifest[k].mod, asked(k))
  /\ request' = [request EXCEPT ![w] =
       [kind |-> "publish", instance |-> i, pack |-> p,
        value |-> [pack |-> p, number |-> ReleaseNumber(c, p), mods |-> manifest,
                   overlays |-> UNION {Overlays(c, asked(k)) : k \in DOMAIN manifest},
                   previous |-> ActiveRelease(c, p), revoked |-> FALSE]]]
  /\ UNCHANGED <<row, copy, history>>

\* The manifest is signed: the release is stored and becomes the latest.
PublishWrite(w) ==
  LET q == request[w]
      n == Len(row.releases) + 1 IN
  /\ q # None /\ q.kind = "publish" /\ n <= MaxReleases
  /\ Mutate(q.instance, [row EXCEPT !.releases = Append(@, q.value), !.packs[q.pack].latest = n])
  /\ current' = IF ReleaseNumber(row, q.pack) = q.value.number THEN current \cup {n} ELSE current
  /\ request' = [request EXCEPT ![w] = None]
  /\ UNCHANGED <<issued, done, outdated, edits>>

\* The signing service refuses or the caller goes away.
Fails(w) ==
  /\ request[w] # None
  /\ request' = [request EXCEPT ![w] = None]
  /\ UNCHANGED <<row, copy, history>>

\* POST admin/confirm, and the token's five minutes.
Confirm(i, a) ==
  /\ issued < MaxDangers /\ issued' = issued + 1
  /\ Mutate(i, [row EXCEPT !.tokens[a] = @ + 1])
  /\ UNCHANGED <<request, done, current, outdated, edits>>

ConfirmExpires(a) ==
  /\ row.tokens[a] > 0
  /\ row' = [row EXCEPT !.tokens[a] = @ - 1]
  /\ UNCHANGED <<copy, request, history>>

\* Faulty: the token stays.
ConsumedNothing(a) == row

\* requireConfirm, in the mutation of a dangerous action: the row without the
\* token.
Consumed(a) == [row EXCEPT !.tokens[a] = @ - 1]

Danger(a) == row.tokens[a] > 0 /\ done' = done + 1

\* The release is not found: the token is used up all the same.
NotFound(i, a) ==
  /\ a \in {"release.revoke", "pack.rollback"} /\ row.tokens[a] > 0
  /\ Mutate(i, Consumed(a))
  /\ UNCHANGED <<request, history>>

Revoke(i, p, n) ==
  /\ n \in ReleasesOf(row, p)
  /\ Danger("release.revoke")
  /\ Mutate(i, [Consumed("release.revoke") EXCEPT !.releases[n].revoked = TRUE])
  /\ UNCHANGED <<request, issued, current, outdated, edits>>

\* A revoked release is refused, and the token stays.
Rollback(i, p, n) ==
  /\ n \in ReleasesOf(row, p) /\ ~row.releases[n].revoked
  /\ Danger("pack.rollback")
  /\ Mutate(i, [Consumed("pack.rollback") EXCEPT !.packs[p].latest = n])
  /\ UNCHANGED <<request, issued, current, outdated, edits>>

Pause(i, paused) ==
  LET a == IF paused THEN "distribution.pause" ELSE "distribution.resume" IN
  /\ Danger(a)
  /\ Mutate(i, [Consumed(a) EXCEPT !.paused = paused])
  /\ UNCHANGED <<request, issued, current, outdated, edits>>

------------------------------------------------------------------------------

Catalogue(i) ==
  \/ \E o \in Offers, slots \in SUBSET Slots : RegisterMod(i, o, slots)
  \/ \E m \in Mods, slots \in SUBSET Slots : SetSlots(i, m, slots)
  \/ \E k \in Contents : SubmitContent(i, k) \/ DeleteContent(i, k)
  \/ \E h \in {o.sha : o \in Offers \cup Contents} :
       Ban(i, h) \/ \E approved \in BOOLEAN : Review(i, h, approved)

Operate(i) ==
  \/ \E a \in Dangerous : Confirm(i, a) \/ NotFound(i, a)
  \/ \E p \in Packs, n \in 1..MaxReleases : Revoke(i, p, n) \/ Rollback(i, p, n)
  \/ \E paused \in BOOLEAN : Pause(i, paused)

Publish(w) ==
  \/ \E i \in Instances, p \in Packs :
       PublishRead(w, i, p) \/ \E q \in Requests : SaveRead(w, i, p, q)
  \/ SaveWrite(w) \/ PublishWrite(w) \/ Fails(w)

Next ==
  \/ \E i \in Instances : Catalogue(i) \/ Operate(i)
  \/ \E w \in Operators : Publish(w)
  \/ \E a \in Dangerous : ConfirmExpires(a)

Spec == Init /\ [][Next]_vars

------------------------------------------------------------------------------
(* Properties.                                                             *)

\* API.md: prerequisites are listed before the mods that need them.  Of a pack
\* that can be published, what it would get now.
ExpandsClosed ==
  \A i \in Instances, p \in Packs :
    LET pack == copy[i].packs[p] IN
    pack # None =>
      LET manifest == ExpandPackEntries(copy[i], pack.entries, pack.game) IN
      manifest # None => Closed(pack.entries, manifest)

\* The version number of a manifest names one release of its pack, among
\* those that were published from an up-to-date snapshot - also after
\* revocations and rollbacks.
NumberNamesOneRelease ==
  \A j, k \in current :
    /\ row.releases[j].pack = row.releases[k].pack
    /\ row.releases[j].number = row.releases[k].number
    => j = k

\* Of a pack that was saved from an up-to-date snapshot.
NamesKnownContents ==
  \A p \in Packs \ outdated :
    row.packs[p] # None =>
      \A k \in DOMAIN row.packs[p].entries : row.packs[p].entries[k].contents \subseteq row.contents

\* However versions were registered again, contents and slots came and went, and
\* whatever a pack asked for: it is closed under its prerequisites, and names no
\* content that is gone.
PacksAreWhole == ExpandsClosed /\ NamesKnownContents

Tokens == row.tokens["release.revoke"] + row.tokens["pack.rollback"]
          + row.tokens["distribution.pause"] + row.tokens["distribution.resume"]

\* Each dangerous action took a confirmation of its own, whichever instance
\* issued or consumed it.
EveryDangerConfirmed == done + Tokens <= issued

=============================================================================
