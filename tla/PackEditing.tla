---------------------------- MODULE PackEditing ----------------------------
(***************************************************************************)
(* Who edits packs, and how: the pack editor of the web console            *)
(* (apps/web/src/views/PacksView.vue), the workshop (WorkshopView.vue,     *)
(* WorkshopModView.vue) and the deployment script                          *)
(* (deploy/publish-platform.js).  Each reads a pack, changes what it read  *)
(* and writes all of it back; the API takes whatever is written last.      *)
(*                                                                         *)
(* What is in the packs, and what is promised of it, is in PackContents;   *)
(* what the API checks is in Catalog, the numbers and the dangers of       *)
(* releases are in Releases.                                               *)
(***************************************************************************)
EXTENDS Naturals, FiniteSets, PackContents

CONSTANTS
  NoPack,
  NewPack,       \* the pack that does not exist at first
  PlatformPack,  \* the one the script maintains
  NoMod,
  Newest,        \* the version it packed
  Games, DefaultGame,
  Declares,      \* of each version of a mod: the games it declares
  DependsOn,         \* of each version of a mod: the mods it needs, directly or not
  Slots,         \* for the loads of the editor
  MaxMoves,      \* what the user of the editor does, apart from saving
  MaxSaves, MaxTrouble

ASSUME PackEditingAssumption ==
  /\ NoPack \notin Packs /\ NoMod \notin Mods
  /\ {NewPack, PlatformPack} \subseteq Packs /\ NewPack # PlatformPack
  /\ Built \subseteq Plugins /\ Plugins \subseteq Mods
  /\ Newest \in Nat \ {0} /\ {MaxMoves, MaxSaves, MaxTrouble} \subseteq Nat
  /\ Theme \in [Packs -> SUBSET Mods] /\ Plugins \subseteq Theme[PlatformPack]
  /\ DefaultGame \in Games
  /\ Declares \in [Mods -> [1..Newest -> SUBSET Games]] /\ DependsOn \in [Mods -> [1..Newest -> SUBSET Mods]]
  /\ \A p \in Packs : \A m \in Theme[p], v \in 1..Newest : DependsOn[m][v] \subseteq Theme[p]

VARIABLES
  \* the API
  created,
  registered, \* of each mod: its newest version
  withdrawn,  \* the versions whose review is not approved any more
  games,      \* of each pack: the game it is for
  \* the editor
  route,      \* the pack of the address
  creating, shown,
  entries, removed, base,  \* what is on the screen, and where it comes from
  loads,
  packGame,   \* the game in the form
  adding,     \* the mod whose details were asked for
  attached,   \* the list it will be added to is the one on the screen
  settled,    \* history: its loads and saves came one after the other, and no load failed
  \* the workshop
  cart,       \* the pack of its list that the mods are added to
  \* the script
  deploy,
  \* bounds and history
  moves, saves, trouble,
  revision    \* of each pack: how often it was written

api == <<stored, created, registered, withdrawn, games, revision, stale>>
screen == <<route, creating, shown, entries, removed, base, packGame, adding, attached, settled>>
editor == <<screen, loads, save>>
vars == <<api, editor, cart, deploy, moves, saves, trouble, crossed>>

Entries == [Mods -> 0..Newest]
Empty == [m \in Mods |-> 0]

\* Something that is put together to be written, from that revision of the pack.
Draft == [step : {"idle", "listed", "save", "publish", "reload"}, pack : Packs \cup {NoPack},
          entries : Entries, removed : SUBSET Mods, base : Nat, game : Games, publish : BOOLEAN]
Idle == [step |-> "idle", pack |-> NoPack, entries |-> Empty, removed |-> {}, base |-> 0, game |-> DefaultGame,
         publish |-> FALSE]

Load == [step : {"free", "asked", "shown"}, pack : Packs \cup {NoPack}, entries : Entries, base : Nat]
NoLoad == [step |-> "free", pack |-> NoPack, entries |-> Empty, base |-> 0]

TypeOK ==
  /\ stored \in [Packs -> Entries] /\ created \subseteq Packs
  /\ registered \in [Mods -> 1..Newest] /\ withdrawn \subseteq Mods \X (1..Newest)
  /\ games \in [Packs -> Games] /\ packGame \in Games
  /\ {route, shown} \subseteq Packs \cup {NoPack} /\ creating \in BOOLEAN
  /\ entries \in Entries /\ removed \subseteq Mods /\ base \in Nat
  /\ loads \in [Slots -> Load] /\ adding \in Mods \cup {NoMod} /\ attached \in BOOLEAN
  /\ save \in Draft /\ cart \in Draft
  /\ deploy \in [step : {"register", "save", "release", "done"},
                 todo : SUBSET Built, entries : Entries, base : Nat, game : Games]
  /\ moves \in 0..MaxMoves /\ saves \in 0..MaxSaves /\ trouble \in 0..MaxTrouble
  /\ revision \in [Packs -> Nat]
  /\ {settled, crossed, stale} \subseteq BOOLEAN

NotStarted == [step |-> "register", todo |-> Built, entries |-> Empty, base |-> 0, game |-> DefaultGame]

\* The editor is open, with the platform's pack.
Init ==
  /\ stored = [p \in Packs |-> IF p = NewPack THEN Empty ELSE [m \in Mods |-> IF m \in Theme[p] THEN 1 ELSE 0]]
  /\ created = Packs \ {NewPack}
  /\ registered = [m \in Mods |-> 1] /\ withdrawn = {}
  /\ games = [p \in Packs |-> DefaultGame] /\ packGame = DefaultGame
  /\ route = PlatformPack /\ creating = FALSE /\ shown = PlatformPack
  /\ entries = stored[PlatformPack] /\ removed = {} /\ base = 0
  /\ loads = [s \in Slots |-> NoLoad] /\ adding = NoMod /\ attached = FALSE
  /\ save = Idle /\ settled = TRUE
  /\ cart = Idle
  /\ deploy = NotStarted
  /\ moves = 0 /\ saves = 0 /\ trouble = 0 /\ revision = [p \in Packs |-> 0]
  /\ crossed = FALSE /\ stale = FALSE

Trouble == trouble < MaxTrouble /\ trouble' = trouble + 1
Move == moves < MaxMoves /\ moves' = moves + 1

------------------------------------------------------------------------------
(* The API.                                                                *)

\* pickCompatibleVersion: the newest one that declares the game, if there is one.
Latest(m, g) ==
  LET newest == {v \in 1..registered[m] :
                   g \in Declares[m][v] /\ \A w \in (v + 1)..registered[m] : g \notin Declares[m][w]}
  IN IF newest = {} THEN 0 ELSE CHOOSE v \in newest : TRUE

Needed(e) == UNION {DependsOn[m][e[m]] : m \in In(e)}

\* expandPackEntries: what is needed is added.  What is needed and listed as well
\* has the version of the list only if it comes first in it.
Expanded(e, g) ==
  {[m \in Mods |-> IF m \in Needed(e) \ kept THEN Latest(m, g) ELSE e[m]] : kept \in SUBSET (Needed(e) \cap In(e))}

\* Every mod has a version that declares the game and is approved.
Accepts(e, full, g) ==
  /\ In(e) \cup Needed(e) \subseteq In(full)
  /\ \A m \in In(full) : g \in Declares[m][full[m]] /\ <<m, full[m]>> \notin withdrawn

\* Refused, if the order of the entries makes it so.
Refused(e, g) == \E full \in Expanded(e, g) : ~Accepts(e, full, g)

\* POST /packs: without an id a pack is made, and one is enough here.  Whatever
\* was there is replaced.
Writes(p, e, g, from) ==
  /\ p \in created \cup {NewPack}
  /\ \E full \in Expanded(e, g) : Accepts(e, full, g) /\ stored' = [stored EXCEPT ![p] = full]
  /\ games' = [games EXCEPT ![p] = g]
  /\ created' = created \cup {p}
  /\ revision' = [revision EXCEPT ![p] = @ + 1]
  /\ stale' = (from # revision[p])
  /\ UNCHANGED <<registered, withdrawn>>

\* POST /reviews/:sha: the review of an archive is taken back, and given again.
Review(reviews) ==
  /\ withdrawn' = reviews
  /\ UNCHANGED <<stored, created, registered, games, revision, stale, editor, cart, deploy, moves, saves, crossed>>

Withdraw(m) == Trouble /\ \E v \in 1..registered[m] : Review(withdrawn \cup {<<m, v>>})

ApproveAgain == withdrawn # {} /\ Review({}) /\ UNCHANGED trouble

------------------------------------------------------------------------------
(* The editor: loads.                                                      *)

FreeSlots == {s \in Slots : loads[s].step = "free"}

\* Nothing else is under way that will change the screen, but for a mod that
\* goes into the list that was there when it was asked for.
Quiet == FreeSlots = Slots /\ save.step \in {"idle", "reload"}

\* loadPack, whatever was asked for before.  It does not matter which slot.
Asks(p) ==
  LET s == CHOOSE t \in FreeSlots : TRUE IN
  /\ FreeSlots # {}
  /\ loads' = [loads EXCEPT ![s] = [NoLoad EXCEPT !.step = "asked", !.pack = p]]
  /\ settled' = Quiet

\* selectPack, or a link to the pack.
Open(p) ==
  /\ Asks(p)
  /\ route' = p /\ creating' = FALSE
  /\ UNCHANGED <<shown, entries, removed, base, packGame, adding, attached>>

Select(p) ==
  /\ Move
  /\ p \in created /\ Open(p)
  /\ UNCHANGED <<api, save, cart, deploy, saves, trouble, crossed>>

\* Faulty: the entries that were on the screen stay there.
LeavesEntries(creates) ==
  /\ route' = NoPack /\ creating' = creates /\ shown' = NoPack
  /\ settled' = Quiet
  /\ UNCHANGED <<entries, removed, base, packGame, adding, attached, loads>>

\* The address has no pack: it was left, or startCreate.
Clears(creates) ==
  /\ route' = NoPack /\ creating' = creates /\ shown' = NoPack
  /\ entries' = Empty /\ removed' = {} /\ base' = 0 /\ attached' = FALSE
  /\ packGame' = IF creates THEN DefaultGame ELSE packGame
  /\ settled' = Quiet
  /\ UNCHANGED <<adding, loads>>

StartCreate ==
  /\ Move
  /\ NewPack \notin created /\ Clears(TRUE)
  /\ UNCHANGED <<api, save, cart, deploy, saves, trouble, crossed>>

Leave ==
  /\ Move
  /\ route # NoPack /\ Clears(FALSE)
  /\ UNCHANGED <<api, save, cart, deploy, saves, trouble, crossed>>

\* GET /packs/:id: the pack is shown at once, with the entries that were there
\* before.
LoadArrives(s) ==
  LET p == loads[s].pack IN
  /\ loads[s].step = "asked"
  /\ loads' = [loads EXCEPT ![s] = [@ EXCEPT !.step = "shown", !.entries = stored[p], !.base = revision[p]]]
  /\ shown' = p /\ packGame' = games[p]
  /\ UNCHANGED <<api, route, creating, entries, removed, base, adding, attached, settled,
                 save, cart, deploy, moves, saves, trouble, crossed>>

\* hydrateEntry has asked for the details of each entry; the list is a new one.
LoadEnds(s) ==
  /\ loads[s].step = "shown"
  /\ loads' = [loads EXCEPT ![s] = NoLoad]
  /\ entries' = loads[s].entries /\ base' = loads[s].base /\ removed' = {}
  /\ attached' = FALSE
  /\ UNCHANGED <<api, route, creating, shown, packGame, adding, settled,
                 save, cart, deploy, moves, saves, trouble, crossed>>

\* A request fails: what is on the screen stays.
LoadFails(s) ==
  /\ loads[s].step # "free" /\ Trouble
  /\ loads' = [loads EXCEPT ![s] = NoLoad]
  /\ settled' = FALSE
  /\ UNCHANGED <<api, route, creating, shown, entries, removed, base, packGame, adding, attached,
                 save, cart, deploy, moves, saves, crossed>>

------------------------------------------------------------------------------
(* The editor: changes.                                                    *)

\* currentId
Current == IF creating THEN NoPack ELSE IF route # NoPack THEN route ELSE shown
Target == IF Current = NoPack THEN NewPack ELSE Current

\* The editor is on the screen, whether or not its pack has been loaded.
Editing == creating \/ Current # NoPack

\* The entry goes into the list that is on the screen now (entries.value is read
\* before the details of the mod are asked for).
AddMod(m) ==
  /\ Move
  /\ Editing /\ adding = NoMod
  /\ m \in Theme[Target] /\ entries[m] = 0
  /\ adding' = m /\ attached' = TRUE
  /\ UNCHANGED <<api, route, creating, shown, entries, removed, base, packGame, settled, loads, save,
                 cart, deploy, saves, trouble, crossed>>

\* The details have arrived.  If the list was replaced meanwhile, nobody sees the entry.
ModAdded ==
  /\ adding # NoMod /\ adding' = NoMod
  /\ IF attached
     THEN /\ \E v \in 1..registered[adding] : entries' = [entries EXCEPT ![adding] = v]
          /\ removed' = removed \ {adding}
     ELSE UNCHANGED <<entries, removed>>
  /\ attached' = FALSE
  /\ UNCHANGED <<api, route, creating, shown, base, packGame, settled, loads, save,
                 cart, deploy, moves, saves, trouble, crossed>>

\* filter makes a new list.
RemoveMod(m) ==
  /\ Move
  /\ Editing /\ entries[m] # 0
  /\ entries' = [entries EXCEPT ![m] = 0] /\ removed' = removed \cup {m} /\ attached' = FALSE
  /\ UNCHANGED <<api, route, creating, shown, base, packGame, adding, settled, loads, save,
                 cart, deploy, saves, trouble, crossed>>

\* The version of an entry, and the game, are picked in the form.
PickVersion(m) ==
  /\ Move
  /\ Editing /\ entries[m] # 0
  /\ \E v \in 1..registered[m] \ {entries[m]} : entries' = [entries EXCEPT ![m] = v]
  /\ UNCHANGED <<api, route, creating, shown, removed, base, packGame, adding, attached, settled, loads, save,
                 cart, deploy, saves, trouble, crossed>>

PickGame(g) ==
  /\ Move
  /\ Editing /\ packGame # g /\ packGame' = g
  /\ UNCHANGED <<api, route, creating, shown, entries, removed, base, adding, attached, settled, loads, save,
                 cart, deploy, saves, trouble, crossed>>

\* What was uploaded, deleted or confirmed to be adult loads the pack again,
\* and what was changed is gone.
Reload ==
  /\ Move
  /\ Current # NoPack /\ Asks(Current)
  /\ UNCHANGED <<api, route, creating, shown, entries, removed, base, packGame, adding, attached, save,
                 cart, deploy, saves, trouble, crossed>>

------------------------------------------------------------------------------
(* The editor: save, and publish.                                          *)

Save(publish) ==
  /\ Editing /\ save.step = "idle" /\ saves < MaxSaves
  /\ In(entries) # {}
  /\ Target = NewPack => NewPack \notin created
  /\ saves' = saves + 1
  /\ save' = [step |-> "save", pack |-> Target, entries |-> entries, removed |-> removed,
              base |-> base, game |-> packGame, publish |-> publish]
  /\ crossed' = (crossed \/ ~settled \/ FreeSlots # Slots)
  /\ UNCHANGED <<api, screen, loads, cart, deploy, moves, trouble>>

SaveWritten ==
  /\ save.step = "save"
  /\ Writes(save.pack, save.entries, save.game, save.base)
  /\ save' = [Idle EXCEPT !.step = IF save.publish THEN "publish" ELSE "reload", !.pack = save.pack]
  /\ shown' = save.pack /\ creating' = FALSE
  /\ UNCHANGED <<route, entries, removed, base, packGame, adding, attached, settled, loads,
                 cart, deploy, moves, saves, trouble, crossed>>

\* What was changed stays on the screen.
SaveRefused ==
  /\ save.step = "save" /\ Refused(save.entries, save.game)
  /\ save' = Idle
  /\ UNCHANGED <<api, screen, loads, cart, deploy, moves, saves, trouble, crossed>>

SavePublished ==
  /\ save.step = "publish"
  /\ save' = [save EXCEPT !.step = "reload"]
  /\ UNCHANGED <<api, screen, loads, cart, deploy, moves, saves, trouble, crossed>>

\* The pack that was saved is selected, wherever the user went meanwhile.
SaveEnds ==
  /\ save.step = "reload"
  /\ Open(save.pack)
  /\ save' = Idle
  /\ UNCHANGED <<api, cart, deploy, moves, saves, trouble, crossed>>

\* The request fails, before or after the API did what it was asked for.
SaveFails ==
  /\ save.step \in {"save", "publish"} /\ Trouble
  /\ \/ UNCHANGED api
     \/ save.step = "save" /\ Writes(save.pack, save.entries, save.game, save.base)
  /\ save' = Idle
  /\ UNCHANGED <<screen, loads, cart, deploy, moves, saves, crossed>>

------------------------------------------------------------------------------
(* The workshop.                                                           *)

\* loadPacks; the pack is chosen from what it returned, or a new one is named with
\* the game it is for.
ListPack(p) ==
  /\ cart.step = "idle" /\ saves < MaxSaves /\ saves' = saves + 1
  /\ p = NewPack => NewPack \notin created
  /\ \E g \in (IF p = NewPack THEN Games ELSE {games[p]}) :
       cart' = [Idle EXCEPT !.step = "listed", !.pack = p, !.entries = stored[p], !.base = revision[p], !.game = g]
  /\ UNCHANGED <<api, editor, deploy, moves, trouble, crossed>>

\* Faulty: the entries of the cart replace those of the pack.
JustCart(cartMods) == [m \in Mods |-> IF m \in cartMods THEN registered[m] ELSE 0]

\* The mods of the cart, in their latest versions, over the entries of the list.
Merged(cartMods) ==
  [m \in Mods |-> IF m \in cartMods THEN registered[m] ELSE cart.entries[m]]

\* addToCart and submitDialog; whether it is released then is all the same here.
\* When the API refuses it, the dialog stays as it is.
SubmitCart(cartMods) ==
  /\ cart.step = "listed"
  /\ cartMods # {} /\ cartMods \subseteq Theme[cart.pack]
  /\ Writes(cart.pack, Merged(cartMods), cart.game, cart.base)
  /\ cart' = Idle
  /\ UNCHANGED <<editor, deploy, moves, saves, trouble, crossed>>

\* The page of a mod adds that mod alone, in the same way.
SubmitMod(m) == SubmitCart({m})

------------------------------------------------------------------------------
(* The script.                                                             *)

Step(next) == deploy' = [NotStarted EXCEPT !.step = next, !.todo = {}]

\* Faulty: a version that is there already is refused.
RegisterOnce(m) ==
  /\ deploy.step = "register" /\ m \in deploy.todo
  /\ registered[m] < Newest
  /\ registered' = [registered EXCEPT ![m] = Newest] /\ withdrawn' = withdrawn \ {<<m, Newest>>}
  /\ deploy' = [deploy EXCEPT !.todo = @ \ {m}]
  /\ UNCHANGED <<stored, created, games, revision, stale, editor, cart, moves, saves, trouble, crossed>>

\* uploadArtifact, approveReview and registerMod; what is there already is
\* approved and written again.
DeployRegister(m) ==
  /\ deploy.step = "register" /\ m \in deploy.todo
  /\ registered' = [registered EXCEPT ![m] = Newest] /\ withdrawn' = withdrawn \ {<<m, Newest>>}
  /\ deploy' = [deploy EXCEPT !.todo = @ \ {m}]
  /\ UNCHANGED <<stored, created, games, revision, stale, editor, cart, moves, saves, trouble, crossed>>

\* upsertPlatformPack: other entries are kept, plugins that were not built are not,
\* and the game stays what it was.
Upserted(e) == [m \in Mods |-> IF m \in Built THEN Newest ELSE IF m \in Plugins THEN 0 ELSE e[m]]

DeployRead ==
  /\ deploy.step = "register" /\ deploy.todo = {}
  /\ deploy' = [deploy EXCEPT !.step = "save", !.entries = Upserted(stored[PlatformPack]),
                              !.base = revision[PlatformPack], !.game = games[PlatformPack]]
  /\ UNCHANGED <<api, editor, cart, moves, saves, trouble, crossed>>

DeploySave ==
  /\ deploy.step = "save"
  /\ Writes(PlatformPack, deploy.entries, deploy.game, deploy.base)
  /\ Step("release")
  /\ UNCHANGED <<editor, cart, moves, saves, trouble, crossed>>

\* The script ends, and is run again.
DeployRefused ==
  /\ deploy.step = "save" /\ Refused(deploy.entries, deploy.game)
  /\ deploy' = NotStarted
  /\ UNCHANGED <<api, editor, cart, moves, saves, trouble, crossed>>

DeployRelease ==
  /\ deploy.step = "release"
  /\ Step("done")
  /\ UNCHANGED <<api, editor, cart, moves, saves, trouble, crossed>>

\* The script ends at the first error; someone runs it again.
DeployFails ==
  /\ deploy.step # "done" /\ deploy.todo # Built /\ Trouble
  /\ deploy' = NotStarted
  /\ UNCHANGED <<api, editor, cart, moves, saves, crossed>>

------------------------------------------------------------------------------

EditorNext ==
  \/ \E p \in Packs : Select(p)
  \/ StartCreate \/ Leave \/ Reload
  \/ \E s \in Slots : LoadArrives(s) \/ LoadEnds(s) \/ LoadFails(s)
  \/ \E m \in Mods : AddMod(m) \/ RemoveMod(m) \/ PickVersion(m)
  \/ \E g \in Games : PickGame(g)
  \/ ModAdded
  \/ \E publish \in BOOLEAN : Save(publish)
  \/ SaveWritten \/ SaveRefused \/ SavePublished \/ SaveEnds \/ SaveFails

WorkshopNext ==
  \/ \E p \in Packs : ListPack(p)
  \/ \E cartMods \in SUBSET Mods : SubmitCart(cartMods)
  \/ \E m \in Mods : SubmitMod(m)

DeployStep ==
  \/ (\E m \in Mods : DeployRegister(m)) \/ DeployRead
  \/ DeploySave \/ DeployRefused \/ DeployRelease

ReviewNext == (\E m \in Mods : Withdraw(m)) \/ ApproveAgain

Next == EditorNext \/ WorkshopNext \/ DeployStep \/ DeployFails \/ ReviewNext

\* The script runs on, and is run again until it is done; nobody has to edit.
Spec == Init /\ [][Next]_vars /\ WF_vars(DeployStep)

------------------------------------------------------------------------------
(* Properties.                                                             *)

\* A deployment that broke off half-way, or was refused, can be run again and
\* comes to an end, unless the API goes on refusing the pack: a mod that is kept
\* stays without its approval, or the pack stays with a game that the new plugins
\* do not declare.
Takes == ~Refused(Upserted(stored[PlatformPack]), games[PlatformPack])
DeployFinishes == <>[]Takes => <>(deploy.step = "done")

=============================================================================
