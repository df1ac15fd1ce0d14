# Hordepin, modelled

Hordepin distributes signed mod packs for 7 Days to Die: an API publishes
releases, an updater on each player's machine installs them, a plugin in the
dedicated server keeps the server on its assigned release and lets in only
players who have it, and a plugin in the game proves that they do. Around them:
a web console, a portable launcher, a server guardian and deployment scripts.
This directory holds TLA+ models of the parts where order, failure and
concurrency matter, the TLC runs that check them on small instances, and proofs
of the most important safety properties for every instance.

- Run a check: `tlc -workers 2 -config Installer.cfg MCInstaller`
- Check a proof: `tlapm InstallerProofs.tla`

Paths below are relative to the repository.

## 1. The system

| Part | State it keeps | Operations | Talks to |
|---|---|---|---|
| Updater (`apps/updater/src/installer.js`) | `Mods/*`, `state.json`, `transaction.json`, `backups/`, `cache/` | `syncPack`, `recoverTransaction`, its catch block | API over HTTP |
| Archives (`updater/src/zip.js`, `overlay.js`) | none | build, list, extract, lay over | updater, API, bundles |
| Client plugin (`plugins/client`) | the installed release, `syncReady`, `handshakeSent` | sync, post a hello, restart prompt, settings | API, game |
| Server plugin, the gate (`plugins/server/ServerPlugin.cs`) | `policy`, `acceptingPlayers`, `clients`, `claiming` | game events, claims, verdicts, supervision | API, game |
| Server plugin, the pack (`plugins/server`, `plugins/shared/PackSync.cs`) | folders, `pending/`, `state.json`, `current-assignment.json`, `packReady`, `pendingRestart` | `PollAsync`, `SyncAsync`, `ApplyPending`, restart | API |
| Mailbox (`apps/api/src/handshakes.js`) | pending hellos | deposit, claim, expiry | inside `store.mutate` |
| State store (`apps/api/src/store*.js`, `postgres.js`) | one JSON file, or one locked row; a copy per instance; a pool of connections | `mutate`, `snapshot`, `init` | every handler of the API |
| Catalogue and packs (`app.js`, `catalog.js`) | mod versions, slots, contents, reviews, bans, packs | register, submit, review, ban, save | store |
| Releases (`app.js`) | releases, latest release of a pack, confirmations, pause | publish, revoke, rollback, confirm, pause | store, signing |
| Delivery (`app.js`, `cloudflare.js`, `servers.js`, `server-bundle.js`) | edge copies, launcher channels, servers and their tokens | manifests, purge, register, bundle, assignment | store, CDN, servers |
| Uploads and objects (`artifact-upload.js`, `objects.js`, `p1-routes.js`) | sessions, chunks, objects, reviews | create, put, complete, commit, collect | store, disk |
| Accounts (`auth.js`, `roles.js`) | accounts, sessions, invitations, resets, tickets, login attempts | set up, register, log in, administer | store, GitHub |
| Keys (`signing.js`, `verify.js`) | key ring, signing key; the keys a client trusts | rotate, restart, trust on first use | API, updater |
| Launcher (`apps/launcher/src`) | its own files, stage, downloads | join, update itself through a helper | API, updater |
| Guardian (`apps/agent/src`, `diagnostics-queue.js`) | child process, breaker file, queue of reports | sync before start, start, report, flush | updater, API |
| Console (`apps/web/src`), scripts (`deploy/`) | what is on the screen, or was read | load, change, write back | API |

`PROJECT.json` lists every part with its modules, and what of it is left out.

### What is hard in it

- **Crashes between two writes.** The installer and both pack syncs move
  folders one by one and record it in JSON files that are replaced by delete
  and move; the launcher copies over itself.
- **Several actors, no ordering.** A hello goes client → API → server plugin
  while the player connects, spawns, leaves and comes back, the operator
  publishes, and the server polls on another thread than the game's. Two
  launchers or guardians share one folder, two clients one upload session.
- **State read before an await.** API handlers take a snapshot, wait for a
  signature, a hash or the disk, and mutate afterwards; the pack policy is read
  under a lock and judged after it; the console writes back what it loaded
  before the user went elsewhere.
- **Partial failure.** Locked DLLs on Windows, failed downloads, a lost answer,
  a database that drops its connections, a script that stops in the middle.
- **Copies.** Each instance of the API has a copy of the row, the edge has
  copies of manifests, the server has a cached assignment, clients have keys.
- **Things that must end.** A join, a sync, an upload, a restart, a deployment, a
  queue, a call that waits for a connection.

### What makes each part correct

| Part | Properties |
|---|---|
| Updater | what a sync moved is known to its recovery and never lost; committed means installed; the state file describes what is on the disk; a player's own folder is left alone; a sync ends |
| Archives | what was packed comes out, and nothing else does from a damaged archive; an overlay replaces its slot |
| Gate | whoever is in the world is supervised; a hello counts once; a verdict is about a release that is in force; a join is decided |
| Server pack | players are let in only under a release that was synced; folders and loaded DLLs are those of that release; the server comes back, or waits for a restart when it may not restart itself |
| Store | an acknowledged change is never lost; a caller reads its own write; no connection in two hands; each query gets its own reply; calls end |
| Releases | packs are closed under their prerequisites and name no content that is gone; a number names one release; a dangerous action was confirmed |
| Delivery | the edge and the servers come to hold what the store says |
| Uploads | what is used, or about to be, is reviewed, and what is reviewed is on the disk; an upload that is tried again succeeds |
| Accounts | a role was granted by someone who could; a session is of a user who still may |
| Keys, launcher | a rotation and restarts reach clients; an update is whole; a launcher ends |
| Guardian | no report is lost; the queue drains; the game is started again |
| Console, scripts | nothing gets into a pack or a mod that was meant for another; nothing is lost from one; a deployment finishes |

`PROJECT.json` lists every hazard at its line, with the properties that are
about it, or the reason there is none.

## 2. Modules

| Module | Models | With |
|---|---|---|
| `Installer` | `syncPack` and its recovery | `MCInstaller`, `InstallerProofs` |
| `Archives` | ZIP archives, slots and overlays, as pure operators | evaluated in `MCInstaller`; `InstallerProofs` |
| `Handshakes` | the mailbox, as operators on a map | extended by `JoinGate` |
| `JoinGate` | client plugin, mailbox and gate together | `MCJoinGate`, `JoinGateProofs` |
| `Store` | what `store.mutate` promises (abstract) | |
| `StateStore` | both drivers and the pool; implements `Store` | `MCStateStore`, `StateStoreProofs` |
| `Wire` | one connection to PostgreSQL, as pure operators | extended by `StateStore` |
| `ServerPack` | the server's polling loop, pack sync and restarts | `MCServerPack`, `ServerPackProofs` |
| `Names` | ids of mods and packs | extended by `Catalog`, `PackContents` |
| `Catalog` | versions that fit, prerequisites, contents, as pure operators | extended by `Releases` |
| `Releases` | the catalogue, packs and their releases over several instances | `MCReleases`, `ReleasesProofs` |
| `Delivery` | manifests, edge, channels, servers and their polls | `MCDelivery`, `LauncherProofs` |
| `Uploads` | upload sessions, their clients, reviews, collection | `MCUploads`, `UploadsProofs` |
| `Accounts` | accounts, invitations, logins, sessions | `MCAccounts`, `AccountsProofs` |
| `Launcher` | launchers, their update, keys of both sides | `MCLauncher`, `LauncherProofs` |
| `Diagnosis` | where a diagnostic may be, and what is promised of it | extended by `Guardian` |
| `Guardian` | guardians, breaker, queue, reports | `MCGuardian`, `ServerPackProofs` |
| `PackContents` | what is in packs, and what is promised to their writers | extended by `PackEditing` |
| `PackEditing` | pack editor, workshop, deployment script | `MCPackEditing`, `ReleasesProofs` |
| `ModContents` | what the API has of mods, and what is promised of it | extended by `ModEditing` |
| `ModEditing` | the mods page and a second administrator | `MCModEditing`, `UploadsProofs` |

Operators marked *Faulty* are mutants: each replaces a definition of the
module by one with a plausible bug, and a run of the module then fails.
`Store.tla` carries the promise that `Releases`, `Delivery`, `Uploads` and
`Accounts` rest on: there, a handler is a read of the instance's copy and an
atomic mutation of the row.

### Installer

State: the live folder of each root, its backup, `state.json`,
`transaction.json`, and the variables of the running process (manifest, the copy
of `managedRoots`, queued items, staged roots). One action per file-system
operation that another one may fail or be killed after: `StartClean` and
`StartRecovery` (`recoverTransaction`), `Plan`, `Stage`, `KeepRoot`,
`QueueInstall`, `RefuseRoot`, `WriteJournal`, `MoveOut`, `MoveIn`,
`MoveRemoved`, `SaveState`, `Commit`, `RemoveJournal`, `Prune`; `UndoRemove` and
`UndoRestore` are shared by the catch block and the recovery, as in the code.

A mod is what the installer compares of it: the hash of its ZIP and the key of
its overlays; roots with equal manifest entries belong to one mod. Items are
visited in any order, installs before removals, where the code has the order of
the manifest. The player edits folders only while no updater runs. The
`Events` constant chooses kills, thrown operations, undo operations that fail
silently, edits and forced syncs; `MaxBreaks` bounds failures per sync. The
removal of `transaction.json` at the end of an undo is among what may fail
silently (`RollbackDone`): the journal then stays, the next start takes it for
that of a transaction that was cut short, and `breaks` counts it as such.

### Archives

A file is a sequence of cells: headers, pieces of content, records of the
directory, the end record. Content may itself be an archive, so its records are
among the cells of the outer one. `Build` is `buildStoredZip` and
`writeStoredZipFromDir`; `ListZip` and `ListZipFile` are the API's reader of a
buffer and the updater's reader of a file, which were written apart; `Extract`
checks each entry as `extractZip` and `extractZipFile` do; `SlotsOf` is
`suggestContentSlots`, `Remap` is `remapOverlayEntry`, and `StagedTree` what
`syncPack` and `assembleServerModTree` make of a mod and an overlay.

### Join gate

`JoinGate` composes the operator, the API's mailbox, the client plugin and the
server plugin. A *release* stands for all that a hello and a policy are
compared by (pack, version, game version, key, fingerprint). A claim is three
steps, as in `ClaimAsync`: the API answers and consumes the hello (`Answer`), the
policy is read under the lock and judged (`Evaluate`), and the verdict is written
without a check that the player is still there (`Decide`). A poll is two (`Poll`,
`Apply`), and the policy may change in between. The client posts a hello
(`SendHello`) and learns later that it arrived or failed.

Connections are numbered; the game gives a number again only when nothing
refers to it. A deadline is an action that may happen when the hello is not on
its way (with the event *slow*: at any time). No client of this version says in a
hello that it is still syncing, but the API and the server plugin know such
hellos: they are the mishap *syncing* (`HelloSyncing`). The server answers one
by renewing the player's entry and leaving it undecided, as
ServerPlugin.cs:258-263 does, and kicks nobody for it. `DisconnectClient` is
assumed to work.

### State store and wire

`Store` says what callers of `mutate` may rely on: a change that was acknowledged
stays for good, one that failed may or may not be kept. `StateStore` models
`store.js` (one process, calls one after another, `this.data` replaced before the
file is written) and `store-pg.js` over `PgPool` (several instances, `SELECT …
FOR UPDATE`, this.data replaced before the commit, a pool that counts
connections before they are made). A state is the set of calls whose change it
has: `fn` is abstracted to adding its call. A dropped database leaves dead
connections in the pool; a query on one is never answered, because `PgConnection`
fails only the query that was waiting when the socket closed. The order in
which the JSON driver queues its calls is left open, and a crash and the
restart after it are one step.

`Wire` plays one `PgConnection` against a server: `OnData` keeps what is left of
a message, `Dispatch` gives messages to the login or the query that waits,
`Startup` is what `connect` awaits. A message is two pieces, and a burst of them
arrives in at most `Chunks` chunks, cut anywhere but between an error and its
end. `WireAssumption` is what a server sends: bursts that decide nothing, then one
that lets the connection in, refuses it or breaks off; a reply has one
ReadyForQuery, at its end, and an error only right before it.

### Server pack

`ServerPack` models `PollAsync`, `SyncAsync`, `ApplyPending`, `ApplyAssignment`,
`CanAccept` and restarts. A mod is what one folder holds; some have a DLL, which
a running process locks. Per root: `KeepRoot`, `Install`, `Postpone` (the old
folder is locked and may be half deleted, the new one waits in `pending/`),
`RemoveRoot`, `RemoveFails`; then `DeleteState` and `WriteState`, the two halves
of the file's replacement. `SyncFails` is a download that fails: folders
installed before it stay, `state.json` does not know them. `Boot` applies what is
pending, loads the folders and the cached assignment. `AutoRestart` is a variable
that keeps its value, chosen in `Init`. `SyncAsync` sets `pendingRestart` before
`SendSyncStatusAsync` is awaited, and `ApplyAssignment` comes after it: during
that report (`Reporting`, the places *moving* and *apply*) the doors stay open
under the policy before, although `state.json` names another release and a
restart may be due. The history variable `before` is what `state.json` named
when the sync began. Assumed: the file writes of `ApplyAssignment` do not throw.
Overlays, extraction and progress are left out; roots are visited in any order.

### Releases and the catalogue

`Catalog` has `GameVersionMatches`, `PickCompatibleVersion`, `ExpandPackEntries`,
`ContentsFit`, `Overlays` and `WithoutContents`. `Ensure` is the recursive
`ensure` as a function of its calls: the mods being visited, the mod and version
asked for and what is ordered so far; a mod that is asked for inside its own call
is refused, whatever version of it would be picked. In `Releases`, requests that
await something between their snapshot and their mutation are two actions:
`SaveRead`/`SaveWrite` for `POST packs`, `PublishRead`/`PublishWrite` for `POST
releases` (the signature is in between). Those that are one step may still read a
copy older than the row, which every action at an instance does through `copy[i]`.
Confirmations are counted per action, without their texts and actors.
`RegisterMod` replaces the slots of a mod that is registered again and leaves what
was submitted for them.

### Delivery

The other end of a release. A *feed* is a pack or a launcher channel. `EdgeFetch`
and `EdgeFill` are an answer and its arrival, with purges in between; `Purge` may
fail. `PollRead` answers an assignment from the copy, `PollAnswer` is the
mutation after it (which renews the copy) and the answer's delivery. Tokens are
numbers; `Bundle` rotates one before the ZIP is built, and `BundleEnds` may lose
it. Artifacts are immutable and not modelled here. Addresses are left out.

### Uploads

One action per await of a request that lets another one in: `ChunkStart`,
`ChunkTouch`, `ChunkEnd`; `CompleteStart`, `Assemble` (or `PutWhole`), `Place`,
`Analyse`, `Commit`. A session is its `meta.json` and which chunks are there,
good or of other bytes; an object is absent, whole or empty. `touch` rewrites
`meta.json` in place: a request that reads it meanwhile may find it half written
and the session gone (`TornRead`), and after a restart it may stay so. Clients
follow `uploadZip` of the console (several workers, which remembers its session)
and `uploadArtifact` of the script (chunks in order). A collection is
`GcSnapshot`, `GcList`, one `GcRemove` per object and `GcRemovePart` per
temporary file, `GcEnd`: what is listed includes the temporary files of requests
under way, which end without an object then. Two history variables name what the
code does not protect. `raced`: a collection removed the object after a request
had analysed it, or a collection that had read the references earlier had not
ended when the review was written; it is cleared when the object is placed again.
`tainted`: a chunk with other bytes was sent.

### Accounts

A request holds what it read while it awaits a password hash, a mutation or
GitHub: `LoginStart` compares, `LoginTicket` or `IssueSession` write. Passwords
are model values; hashing, TOTP arithmetic and the expiry of tickets and resets
are left out. `cuts` counts how often the sessions of a name were ended, and a
login remembers the count it began with: this is what `SessionsAreCurrent`
compares. Handlers that check and change in one mutation are one action. What an
administrator may do, the bootstrap token may as well while there are no users,
and afterwards with `ALLOW_BOOTSTRAP_ADMIN` (`AllowBootstrap`; the run has it on,
which allows all that it allows when off).

### Launcher

A launcher is where its process is and what it has read; root, stage and
downloads are shared by all launchers of a folder. The stage is cleaned,
filled file by file and copied file by file by the helper, which outlives its
launcher and starts the next one. The keys of the API (in memory, in
`keyring.json`, in the environment) and those clients trust are in the same
module, because a client's next step depends on both. Manifest expiry and what
a join installs are left out.

### Guardian

A guardian goes through sync, start, running and report; a report is a POST that
may be refused or unanswered, an enqueue, a list of the queue and flushes that
end at the first refusal. Two guardians of one folder share breaker and queue.
Diagnostics are model values, of which some are *poison*: refused whenever they
are sent (those over `maxDiagnosticBytes`). Time is ticks since the last failure.

### Editing

`PackEditing` has the three writers of packs. A load of the editor is an answer
(`LoadArrives`) and the end of its `hydrateEntry` calls (`LoadEnds`), which replace
what is on the screen whatever was selected since; a save is its request, the
optional release and the reload. A mod that is added goes into the list that was
on the screen when its details were asked for; `attached` says whether that is
still the list on the screen, and if not the entry is gone. `POST packs` is
`Writes`: the API adds prerequisites in a version that fits the game of the pack
(`Expanded`), and refuses entries that do not declare that game or whose review
is not approved (`Accepts`, `Refused`). Reviews are withdrawn and given again, the
script keeps the game the pack has. Simplified: prerequisites are transitive as
given (`DependsOn`), the order of entries is a choice, contents of entries are
left out, and so are the checks of `POST releases`, which ask for nothing that
`POST packs` has not asked for.

`ModEditing` does the same for mods, content slots and uploads, with a second
administrator. The form has the slots that its mod had when it was filled, the
slots that the last analysis suggested (`suggested`) and those that were unticked;
a registration sends the listed slots that are suggested and ticked (`Selected`).
An upload may be made into a form without an id, and gets one from the analysis.

Both carry history variables that say what a write was to remove (`removed`,
`unwanted`) and when the code itself mixed things up (`crossed`, `stale`, `mixed`,
`overlooked`), and the properties promise the rest.

## 3. Runs

| Run | Checks | Bounds |
|---|---|---|
| `installer` | `ArchivesHold`, `JournalCoversMoves`, `CommitIsTruthful`, `MovedContentSurvives`, `StateMatchesDisk`, `PrivateKept`, `SyncEnds` | 2 roots, 3 releases, 2 failures or kills per sync; archives of up to 2 files out of 5 paths and 4 contents, each cut or damaged in one place |
| `gate` | `EntrySupervised`, `HelloUsedOnce`, `FreshDecision`, `JoinDecided` | 1 player, 2 ids, 2 connections, 2 groups of hellos, 1 change of what is served, 1 mishap |
| `store` | `ReadYourWrites`, `PoolCounts`, `WireHolds`, `KeepsPromise`, `CallsEnd` | 3 calls, 2 instances, pool of 2, 2 failures; 8 logins, 4 replies, 2 queries on a connection, bursts in 2 chunks |
| `server_pack` | `AcceptsWhatIsSynced`, `CleanSyncInstalls`, `ServerComesBack` | 3 folders, 2 releases, AutoRestart on or off, 2 changes, 2 mishaps |
| `releases` | `PacksAreWhole`, `NumberNamesOneRelease`, `EveryDangerConfirmed` | 2 mods in 5 versions, 1 pack, 2 instances, 2 operators, 2 releases, 1 change of the catalogue, 1 confirmation |
| `delivery` | `EdgeConverges`, `ServersConverge` | 1 pack, 1 launcher channel, 1 server, 2 instances, 3 changes |
| `uploads` | `ReferencedIsKept`, `UploadSucceeds` | 1 artifact in 2 chunks, a browser and a script, 2 sessions, 1 collection, 1 mishap |
| `accounts` | `RolesAreGranted`, `SessionsAreCurrent` | 2 names, 2 browsers, 2 passwords, 2 logins in a window, 1 invitation, 2 changes besides setup, registration and login |
| `launcher` | `RingReachesClients`, `UpdateIsWhole`, `JoinEnds` | 2 launchers of one folder, 2 files, 3 versions, 1 rotation, 1 publication, 1 failure, 2 starts |
| `guardian` | `EventsKept`, `ServerRuns`, `QueueDrains` | 2 guardians, 2 diagnostics followed, 1 outage, 1 poisoned report, 1 failure |
| `pack_editing` | `IntendedContents`, `EntriesSurvive`, `DeployFinishes` | 2 packs, 2 mods in 2 versions, 2 games, 2 moves and 2 saves, 1 failure or withdrawn review |
| `mod_editing` | `RightArchive`, `ContentsSurvive` | 2 mods, 2 slots, 2 files, 6 clicks, 1 failure |

Each module has a type invariant `TypeOK`. The runs leave it out: it is proved of
each (§4), for every value of the constants. `MCInstaller` and `MCStateStore`
evaluate the pure modules `Archives` and `Wire` in their initial states
(`ArchivesHold`, `WireHolds`).

Runs with `CHECK_DEADLOCK FALSE` are those in which everything may come to an
end: all calls answered, all clicks or changes made. `installer`, `gate`,
`server_pack` and `guardian` are loops and are checked for deadlock.

Why the bounds are enough. *Installer*: two roots give the apply loop a first and
a later item, which is all that its journal and undo distinguish; the three
releases cover an update of overlays only, a mod added next to another, a mod
removed, and a mod of two roots; two failures per sync cover a failure in the undo
of a failure. Syncs follow one another without bound. *Archives*: two files are
enough for records in any order, names that differ by case, a file where a folder
must go, an empty file and an archive within an archive. *Gate*: two connections
let a verdict of the first arrive while the second is open; one change of what is
served, with a poll at any time, makes every policy stale once; players that share
an id are covered by the proofs, which have any number of players. *Store*: two
calls at one instance and a third at another give every conflict of two copies; a
pool of two is exhausted by two. *Wire*: two queries after a login show a reply
that goes to the wrong one; two chunks cut every message in every place (the proof
has any number of either). *Server pack*: the releases differ by an updated DLL, a
DLL that goes and a plain mod that comes; two changes are an update and a
rollback; two mishaps are a lock and a crash, or a failed download and a lock.
*Releases*: the prerequisite gets a version that needs the mod (a circle, through
a newer version of the mod that needs nothing) and the mod may be registered again
without it; two instances and two operators give stale copies and overlapping
requests; the proofs have any number of each. *Delivery*: three changes are, say,
a publication, a revocation and a rollback with an older answer on its way to the
edge. *Uploads*: two clients in one session are all that a session distinguishes
(a chunk is there or not); the proofs have any number. *Accounts*: two requests
race for the setup, a name, an invitation or a session; two changes set up a
second factor, two logins use it. The action constraint `Begun` leaves out
requests that are refused whatever others do meanwhile: a setup or registration of
what is registered already, a login with a wrong password. The proofs have any
number, and no such constraint. *Launcher*: two launchers share a stage; the third
version is a release that says it is another one. *Guardian*: two reports are one
that waits and one that comes after it; the breaker opens after two failures.
*Editing*: two packs or mods are one that is looked at and one that was; two games
make a plugin that declares the new one only refused in a pack that is for the old
one; six clicks allow a slot to be added, filled, and written over from a list
that is old.

### Fairness

- `installer`: weak fairness of the process's own steps (it is a single thread;
  the launcher or the agent starts it again) and strong fairness of a plan (the
  API may refuse, but not always).
- `gate`: weak fairness of `OnGameUpdate` over all unverified clients, of
  passing deadlines, and of kicked connections closing. Nothing is assumed of
  the network or of the client, except that hellos that say it is syncing come
  to an end (`MaxMishaps`): each renews the wait, and a client that posts them
  for ever is never decided.
- `store`: each call takes its steps; nothing is assumed of failures.
  `CallsEnd` promises nothing after a connection was lost, because the code
  does not: see below.
- `server_pack`: the loop goes on and the process is started again after it
  ended. With `AutoRestart` one that asked for a restart is ended at some time
  between two polls; it ships as off (catalog.js:341), and then nobody is bound
  to end it. `ServerComesBack` therefore promises that players are let in, or,
  with `AutoRestart` off only, that the server waits for the restart with its
  doors closed.
- `delivery`: answers arrive and expire (thirty seconds), and the polls of a
  server that is let in reach every instance again and again (the load balancer
  has no affinity). Purges and operators are not fair. Both properties are
  conditional on the server being let in.
- `uploads`: clients go on with what they do, a user whose upload failed tries
  again, a collection goes on.
- `launcher`: processes go on; nobody has to start or publish anything.
- `guardian`: time passes, an outage ends, and a guardian goes on; one that is
  off is started again, as docs/RUNBOOK.md:34 expects of whoever runs it. Games
  need not exit. `QueueDrains` assumes in addition that reports are sent again
  and again, because a flush begins only after one.
- `pack_editing`: the script runs on and is run again after a failure or a
  refusal. `DeployFinishes` promises an end when the API takes the pack from some
  time on: nothing is assumed of reviewers, or of whoever picks the game.
- `releases`, `accounts`, `mod_editing`: none; only safety is checked.

### Where the code does less than its docs say

The models do what the code does, and the properties say what it guarantees;
the hypotheses in them are not conveniences but these places.

*Installer.* docs/SECURITY.md:22 promises that old folders are backed up and
rolled back on failure, but the undo removes the target of every queued item, also
of those that were not moved to the backup yet (installer.js:358, and 86 for the
recovery). A `transaction.json` that the undo cannot remove is left behind without
a word (361), and the next sync undoes once more: what was restored has no backup
any more and is deleted as if it had been installed. `state.json` is written
before the commit mark and never rolled back (346): killed in between, each later
sync of that release fails. Recovery is not idempotent after a second kill at 86.
(The second cut and the journal left behind are the hypothesis of
`MovedContentSurvives`.) An update of overlays only is skipped when the base hash
matches (312); a folder the player deleted is never reinstalled as long as its
entry is unchanged (316); a folder the player puts in place while a journal is
pending is deleted by the recovery (event *late*; the proofs of `PrivateKept`
assume its absence).

*Archives.* Names are not covered by a checksum of the archive (the hash of the
whole file covers them). `writeStoredZipFromDir` packs names that differ by case
only, which its own reader refuses; an archive that is cut inside an empty inner
one opens as empty. A file at the top of an archive becomes an install root, and
overlays then fail.

*Gate.* A player spawns and plays while the server waits for the hello
(ServerPlugin.cs:135), whereas docs/PRODUCTION-TODO.md:52 says unsynced clients
cannot enter. `handshakeSent` survives the connection (ClientPlugin.cs:407), so a
synced player who comes back without restarting the game is kicked. A client that
says again and again that it is syncing stays in the world unverified
(ServerPlugin.cs:258-263, and line 77 does not kick it).

*Store.* A connection attempt that fails is counted by the pool for good
(postgres.js:258), and a transaction whose connection dies may hang in its
`ROLLBACK` (281): with the pool used up, `acquire` waits for ever. On an error
the query is rejected at once; when its ReadyForQuery comes in a later chunk it
resolves the next query, and every later reply of that connection goes to the
query after its own (100-112): hence `RepliesMatch` assumes that an error and its
end come together.

*Server pack.* While a sync reports what it did, players are let in under the
release before although a restart is due (ServerPlugin.cs:355, 365, 328). With
`AutoRestart` off, as it ships, a server that needs a restart lets nobody in until
somebody restarts it (USER.md:86). A sync that fails half way leaves a folder that
`state.json` does not know; after a rollback every root counts as unchanged and
players are let in with the wrong folder (PackSync.cs:176-184, 229, 254), whereas
docs/PRODUCTION-TODO.md:87 has the server roll back unattended. A mod whose DLL is
dropped by a release asks for no restart (242). A folder that was locked during
its removal is forgotten by `state.json` (243), and `pending/` may bring back a
root that a later release dropped (92-106). `ClearRemovedOverlaySlots` edits the
live folder before the new one is staged.

*Releases.* Two publishes from one snapshot give one number to two releases
(app.js:672); a publish whose signature was slow lands after a rollback and
becomes the latest (699); reviews and bans are not looked at again when a pack
is published, and a ban not when one is saved. A pack saved from an outdated
snapshot may name a content that was deleted meanwhile. A confirmation is used
up when the release is not found.

*Delivery.* A rollback does not purge the edge, though docs/CLOUDFLARE.md:48
speaks of one; it converges by expiry. An instance that wrote nothing goes on
answering from an old copy, until a poll at that instance renews it. A bundle
that fails or is lost takes the server's token with it (app.js:1069). Every
server reports 127.0.0.1 and its LAN addresses (ServerPlugin.cs:534), so servers
resolved by address may collide; the most recently seen one wins (servers.js:50).

*Uploads.* docs/API.md:188 has the collection remove what is unreferenced; it also
removes what was reviewed since it read the references, and what is analysed but
not reviewed yet, so that the review names no file (`raced`; app.js:311-314). It
removes the temporary files of uploads under way, too, which fail
(objects.js:100, p1-routes.js:160). A `meta.json` read while another request
touches it looks like a session that is gone, and one that was half written when
the API stopped is never found again (artifact-upload.js:82). A `put` onto an
object that was just collected leaves an empty file. A chunk with other bytes
stays in the session, and every retry finds it (`tainted`). Uploading a reviewed
artifact again puts its review back to what the analysis says.

*Accounts.* A login that read the account before it was disabled or reset issues
a session afterwards (`raced`; docs/RUNBOOK.md:44 relies on the contrary). One
ticket or recovery code serves two completions that overlap, and `completeTotp`
does not look at `disabledAt`. `changePassword` keeps the other sessions, and one
that began earlier overwrites a reset. A plain user who registers before the
setup keeps it from ever being done (auth.js:115, docs/API.md:118).

*Keys and launcher.* After a rotation and a restart the old key signs again
(docs/RUNBOOK.md:39), because the new one is kept in memory. Replacing
`SIGNING_PRIVATE_KEY` without a key ring locks clients out; `revokeKey` has no
route and clients never pass `revokedKeyIds` (docs/RUNBOOK.md:41). A `.partial` of
zero bytes or of full size makes a release undownloadable (installer.js:117). Two
launchers of one folder share the stage; a release whose archive says another
version relaunches for ever; a helper that is killed leaves files of two
versions. `existsSyncFallback` uses `require` in an ES module, so the relaunch is
always the `.cmd`; `update` ignores `--skip-self-update`.

*Guardian.* A report that is always refused blocks the head of the queue; one
whose answer is lost is taken twice; two guardians count failures from what they
read before. `restartFailures` has no effect, `process_exit` is not counted as a
crash, and a game that cannot be spawned ends the guardian with code 0.
`classifyFingerprint` counts all events as failures when `failCount` is 0.

*Editing.* `POST packs` has no revision: what was read earlier overwrites what was
written since. Loads answer out of order, a save that ends after *new pack* was
chosen turns the new draft into the saved pack, and a mod whose details arrive
late is pushed onto the list that was there when they were asked for: when that
was replaced (a load, a removal), the mod is not in what is saved
(PacksView.vue:187, 152, 175, 193). The script keeps the game of the pack
(publish-platform.js:372): when the plugins it built declare another, or an entry
it keeps has lost its approval, each run of it is refused. `removeSlot` and
`saveSlots` use the mod that is current after they were confirmed or answered;
`PUT slots` from an old list deletes the contents of a slot just added; an upload
that ends after another mod was selected puts its hash into that mod's form. An
upload replaces the suggested slots (ModsView.vue:161), and a registration sends
only listed slots that are suggested (64): slots that the form still shows are
dropped by `POST mods` (app.js:454-455), and what was submitted for them is shown to
nobody and deleted with the next list (`overlooked`). The script drops a plugin it
did not build.

## 4. Proofs

All proofs hold for every value of the constants that satisfies the module's
assumptions (which TLC checks in each run). Four proof modules are about two
components each: they extend the one they are named after and reach the other
through a named instance (`Guard!`, `Writers!`, `Page!`, `Hub!`), whose assumption
is then a hypothesis of each theorem. What the first three promise is in a module
of its own (`Diagnosis`, `PackContents`, `ModContents`): the component and its
proofs both extend it, so that the theorems name the very properties that the runs
check. What `Delivery` promises is liveness; its theorems say what that rests on.

**`InstallerProofs`**: `TypeCorrect`, `JournalCorrect`, `PrivateCorrect`,
`CommitCorrect`, `StateCorrect`, `SurvivesCorrect`. `PhaseInv` ties the program
counter to the files (which phases have a journal, and that it agrees with the
items in memory). `MovesInv` adds that nothing has moved before the journal is
written and that its `hadTarget` flags are right, from which `JournalCoversMoves`
follows. `PrivateInv` says that no private folder is in a journal, in a backup or
recorded in `state.json`; without the last of these the hypothesis of the refusal
in the queueing loop would be lost at the next sync. `LoopInv` says what the
queueing and apply loops have established so far. `MatchInv` follows each folder
through a sync: what `state.json` says of it holds, or will hold when the items in
memory are applied, unless an undo or the player touched it. `SurvivesInv` counts:
the journal of a transaction that was cut short once still covers what it moved,
and an undo that leaves its journal behind is the second time. Its theorem
assumes, as `PrivateCorrect` does, that no folder is put in place while a journal
is pending (event *late*).

About the archives it unpacks: `RoundTripCorrect`, `ReadersAgree`,
`OverlayFillsSlotCorrect`, `NothingElseComesOut`, `DamageIsNoticedInPlain`, for
every folder, in whatever order its files are written. Between them they state
the three parts of `ArchivesHold`, the second for less: `DamageIsNoticedInPlain`
is about folders without nested archives. What the code loops over is defined by
recursive functions, and reasoned about by the least number at which something
fails (`LeastNat`, `Upwards`). First where `Build` puts each header, content and
record (`BuildLayout`); then that the last end record is the archive's own, so
that the directory is the one that was written (`ListedAsBuilt`), and that each
entry in turn finds its content and no file in its way (`EntryComesOut`). Damage
is looked at from the other side: a cell of a damaged archive is still a cell of
the archive, so a record that is read names a file of the folder and carries its
content, with which what is written is compared. `OverlayFillsSlotCorrect`
assumes that each file of a mod is in a folder, because a file at the top becomes
a root, in which no slot can be made.

**`JoinGateProofs`**: `GateTyped`, `SupervisedCorrect`, `UsedOnceCorrect`,
`FreshCorrect`, for any players, ids that players may share, and connections.
`UsedOnceCorrect` needs that the group of a pending hello is not among the
groups used, and that a hello's records are consumed together.

**`StateStoreProofs`**: `StoreTyped`, `ReadsCorrect`, `PoolCorrect`, `WireCorrect`
and `KeepsPromiseCorrect`, the refinement of `Store` by both drivers. The
inductive invariant `KeepsInv` has four parts: at most one call writes (the queue,
or the row lock), its draft was taken from the stored state, a call that was
answered is in the copy and in the stored state, and with the JSON driver the copy
is never behind the file. The refinement maps `kept` to the file or row and each
step to `Ask`, `Keep`, `Acknowledge`, `Break` or a stutter. `PoolCounts` is
inductive once the calls that hold a connection are counted (`Holders`): each step
moves one connection between the idle ones and a call, or changes the count with
them. `WireCorrect` is about what the loops of a connection compute, for any
input, and goes by induction (`Upwards`, below) over messages, chunks and bursts:
`OnDataKeeps`, `HearKeeps` and `PlayKeeps` say that if every step leads from one
set of states to the next, so does the loop. The sets are the argument: how far
the login is and who waits (`Challenged`, `Granted`, `Refused`, `Broken`), that a
query has collected exactly its reply so far (`Busy`), and that nobody is left
waiting and nothing in the buffer when the reply has ended (`Free`). The one place
where it fails is a chunk that ends between an error and its ReadyForQuery.

**`ServerPackProofs`**: `PackTyped`, `AcceptsCorrect`, `CleanCorrect`.
`AcceptsInv` adds to the property that a process that is down remembers nothing,
that the assignment about to be put in force is the one in `state.json`, and that
`before` is what `state.json` names until the sync replaces it: the doors that are
open during a report were opened under that release.
`CleanInv` says, while nothing went wrong, that folders are described by
`state.json` between syncs and by the state in memory during one, and that a
process that asks for no restart has loaded every DLL in place.
For the guardians: `GuardianIsTyped`, `ReportsCorrect`. `EventsKept` alone is not
inductive: a flush could remove the file of a report that another guardian is
still posting. `OneHand` excludes it (what is in a hand is in no queue, in no list and
in no other hand), `Answered` says that a file is removed only when its report has
arrived, and `Fresh` that a new report was never anywhere.

**`UploadsProofs`**: `UploadsTyped`, `KeptCorrect`. The latter needs two more parts.
`Known`: a collection under way knows all that is reviewed (except what is raced)
and removes none of it. `Analysed`: what a request has analysed is whole until a
collection removes it, which makes it raced; so the review that is written later
names a file that is there. Each step's effect on objects,
reviews and the collection is classified first, so that the invariant is argued
once per class and not once per action.
For the mods page: `PageIsTyped`, `ArchivesRight`, `SubmissionsSurvive`. `Meaning`
follows an archive from the upload, which knows the mod it was chosen for, into
the form and to the API. `ListsRead` says that a list of slots on the page, or in
an answer under way, is no newer than its mod's and is the same if it is as new;
a write leaves every other list older, so that what is written either
is *stale* or has all the slots there are. `FormRead` says the like of the form of
a registration: it lists what its mod has, if it is as new, but for what was
unticked; what it lists and does not send is what the property calls *overlooked*.

**`AccountsProofs`**: `AccountsTyped`, `CurrentCorrect`, `GrantedCorrect`. Every
action is shown to be an `AccountStep`: a registration, an activation, an
alteration that makes nobody an administrator, an invitation issued or closed,
or a cut of sessions. For sessions, `Good` says of any login under way, ticket
or session: unless the user's sessions were ended since, the user is not
disabled and the password is in force or was changed by its owner. For roles,
`Counted` compares the accounts from an invitation with its counter, `Rooted`
and `Single` say who may have made administrators.

**`ReleasesProofs`**: `ReleasesAreTyped`, `DangerCorrect`, `NumberCorrect`,
`PacksCorrect`, over any number of instances and operators. `Stored` describes the
row, every copy and every request between its snapshot and its mutation;
`Numbered` says that a release published from an up-to-date snapshot has as its
number how many of its pack there were before it; `NamesKnownContents` is
inductive because a content leaves together with its references
(`purgeContentRefs`) and a save is compared with what it was checked against.
`ReleasesAreTyped` adds `Bounded`: the numbers of the row, of every copy and of
every request are within the model's bounds. That no action has more tokens than
were issued follows from `EveryDangerConfirmed`, so that the types are no
invariant by themselves; what a request will write has to be bounded at its
snapshot, whose copy may be old.

The other half of `PacksAreWhole` is about what `expandPackEntries` computes, for
any catalogue, and goes by induction. The library's induction rules cannot be
instantiated (they take an operator), so the proofs take the least
counterexample instead: `LeastNat`, from the well-ordering of the naturals,
gives `Upwards`, a rule about a set of numbers. `Recursion` says that a function
defined by recursion on a bounded rank exists, which is needed before anything
can be said of it; `EnsureAllSteps` applies it to the loop (the rank is the
position) and `EnsureDefined` to `ensure` (the rank is how many mods are left to
visit, which `visiting` makes finite). `Grown` is what a call establishes: the
order so far is a prefix of the new one, nothing being visited was added, the
mod asked for is there, and if every mod was listed once and after its
prerequisites, this is still so. `EnsureGrows` proves it by induction over the
mods left. Without the part about what is being visited, a mod could be listed
a second time inside its own call.

For the writers of packs: `WritersAreTyped`, `ContentsIntended`, `NoEntryIsLost`.
`WritersKept` follows each draft (of the script, the cart, a save, a load, the
screen) from the revision it was read at: if the pack is still at that revision,
the draft covers its entries except those that were taken out. The screen's part
holds only while the editor is *settled* and no load is under way, and says that
whatever is loading, saving or being added (while its list is *attached*) belongs
to the pack it will be saved to; the links between route, selection and target are
the argument. What the API adds to a draft only makes it larger, and what it
refuses it does not write. A mod that was removed and added again counts as
removed until its details are in the list that is saved. Proving it showed that
`EntriesSurvive` was stated too strongly: `upsertPlatformPack` also drops plugins
of the platform that were not built, which the run's instance does not have
(there, all plugins are built; the theorem covers both).

**`LauncherProofs`**: `LauncherIsTyped`, `RingCorrect`, `WholeCorrect`. `RingInv`
adds to the property that every key in use (in memory, in a published channel or
pack) is in the ring and that the ring can be read back from `keyring.json` and
the environment unless it is just being saved, so that a rotation or a restart
cannot leave a client without any key of it. `WholeInv` follows one update at a
time: what is staged, how far the helper has copied, and that nobody else has
started meanwhile.

For delivery: `DeliveryIsTyped`, `FeedsCorrect`, `RightStaysRight`. `Apart` says
of every number that is stored, copied, on its way or held that it was given
out, and to that feed; it needs that numbers not yet given out belong to no pack,
for a rollback names any number. `RightStaysRight` is the part of `EdgeConverges`
and `ServersConverge` that is no liveness: once the copies agree and what the edge
(or a server) holds and what is on its way to it are what the store says, only an
operator can change that. What is on its way is needed: a purge does not stop a
fetch that was answered before it.

Only model-checked: all liveness (`SyncEnds`, `JoinDecided`, `CallsEnd`,
`ServerComesBack`, `UploadSucceeds`, `EdgeConverges`, `ServersConverge`,
`JoinEnds`, `ServerRuns`, `QueueDrains`, `DeployFinishes`), which rests on
fairness and `ENABLED` and is out of the prover's reach; and, of `ArchivesHold`,
damage to archives that contain archives: there the end record that is found may
be the inner one's, and whether its numbers lead to a readable directory of the
outer file is a matter of the very offsets, so that it cannot hold of every
content; TLC checks that it does of the ones a packer makes.

## 5. Plan

Done, in this order: `Installer` (what can destroy a player's files), `JoinGate`
with `Handshakes` (what lets players in), `StateStore` implementing `Store` (what
every handler of the API rests on), `ServerPack` (what the dedicated server
runs); then what stands on the store (`Uploads`, `Catalog` and `Releases`,
`Delivery`, `Accounts`), the other programs on players' and operators' machines
(`Launcher`, `Guardian`), the writers at the other side of the API
(`PackEditing`, `ModEditing`), and the pure formats (`Archives`, `Wire`).

What would come next:

1. A refinement of `JoinGate` to an abstract gate (a player is admitted on a
   hello for a release in force), once the deviations above are settled and leave
   one worth stating.
2. A revision number in `POST packs` and `PUT slots`, modelled first: with it
   `EntriesSurvive` and `ContentsSurvive` need no *stale*.

## 6. Not modelled

Wiring and pure I/O (HTTP server, configuration, logging, webhooks, maintenance
mode, the audit log), SQL text and migrations, redaction and classification of
diagnostics, TOTP arithmetic, DLL inspection, imports from GitHub, translations,
console pages that send a single request, the rate limiter outside logins,
migration and export of objects, the one-shot migration from JSON to PostgreSQL,
and the deployment's launcher step. In modelled parts: sizes and limits, manifest
expiry, the texts and actors of confirmations, addresses of servers, addresses
and diagnostics of the server plugin, the progress of syncs. `PROJECT.json` gives
the reason for each component.
