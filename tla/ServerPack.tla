----------------------------- MODULE ServerPack -----------------------------
(***************************************************************************)
(* How a dedicated server follows the release its assignment names: the    *)
(* polling loop of ServerPlugin.cs, PackSync.SyncAsync, and restarts.      *)
(*                                                                         *)
(* A mod is what one folder under Mods holds.  state.json is written when  *)
(* a sync ends, so a sync that fails leaves folders it does not know.  The *)
(* folder of a loaded DLL can be locked: deleting it may fail half way,    *)
(* and what was to replace it then waits in "pending" for the next start.  *)
(***************************************************************************)
EXTENDS Naturals

CONSTANTS
  Roots,        \* folders under Mods
  Mods,         \* what a folder may hold
  Dlls,         \* the mods with a DLL
  Versions,     \* releases of the pack
  Pack,         \* what each release puts in each root
  None,         \* no folder, file, release or assignment
  Broken,       \* a folder that was deleted in part
  Events,       \* what may go wrong: see EventNames
  MaxMishaps,   \* bound: how often
  MaxChanges    \* bound: changes of the assignment

\* download: an artifact cannot be fetched; lock: a folder is in use; crash: the
\* process ends at any point.
EventNames == {"download", "lock", "crash"}

Folder == Mods \cup {None, Broken}
Managed == [Roots -> Mods \cup {None}]
State == [version : Versions, roots : Managed]
Assignment == [version : Versions \cup {None}, paused : BOOLEAN]

ASSUME ServerPackAssumption ==
  /\ Dlls \subseteq Mods
  /\ None \notin Mods \cup Versions \cup State \cup Assignment
  /\ Broken \notin Mods \cup {None}
  /\ Pack \in [Versions -> [Roots -> Mods \cup {None}]]
  /\ Events \subseteq EventNames
  /\ MaxMishaps \in Nat /\ MaxChanges \in Nat

VARIABLES
  served,         \* the assignment the API gives
  disk,           \* the folders
  pending,        \* the folders that wait for a start
  saved,          \* state.json
  cached,         \* current-assignment.json
  pc,             \* where PollAsync is
  loaded,         \* what the process found in the folders when it started
  policy,         \* the assignment in force
  accepting,      \* acceptingPlayers
  packReady,
  pendingRestart,
  job,            \* the assignment being synced
  mem,            \* state.ManagedRoots in memory
  todo,           \* roots not looked at yet
  needs,          \* result.RequiresRestart
  before,         \* history: what state.json named when the sync began
  auto,           \* config.AutoRestart
  mishaps, changes

files == <<disk, pending, saved, cached>>
flags == <<policy, accepting, packReady, pendingRestart>>
work == <<job, mem, todo, needs, before>>
vars == <<served, files, pc, loaded, flags, work, mishaps, changes, auto>>

Places == {"down", "idle", "start", "roots", "moving", "apply"}

TypeOK ==
  /\ served \in Assignment
  /\ disk \in [Roots -> Folder] /\ pending \in Managed
  /\ saved \in State \cup {None} /\ cached \in Assignment \cup {None}
  /\ pc \in Places /\ loaded \in [Roots -> Folder]
  /\ policy \in Assignment \cup {None}
  /\ accepting \in BOOLEAN /\ packReady \in BOOLEAN
  /\ pendingRestart \in BOOLEAN
  /\ job \in Assignment \cup {None} /\ mem \in Managed
  /\ todo \subseteq Roots /\ needs \in BOOLEAN
  /\ before \in Versions \cup {None} /\ auto \in BOOLEAN
  /\ mishaps \in 0 .. MaxMishaps /\ changes \in 0 .. MaxChanges

Nothing == [r \in Roots |-> None]
NoWork ==
  /\ job' = None /\ mem' = Nothing /\ todo' = {} /\ needs' = FALSE
  /\ before' = None

\* A server that was just set up, and is not started yet; AutoRestart is off
\* unless the operator turns it on.
Init ==
  /\ served \in [version : Versions, paused : {FALSE}]
  /\ disk = Nothing /\ pending = Nothing /\ saved = None /\ cached = None
  /\ pc = "down" /\ loaded = Nothing
  /\ policy = None /\ accepting = FALSE /\ packReady = FALSE /\ pendingRestart = FALSE
  /\ job = None /\ mem = Nothing /\ todo = {} /\ needs = FALSE /\ before = None
  /\ auto \in BOOLEAN
  /\ mishaps = 0 /\ changes = 0

Mishap(kind) ==
  /\ kind \in Events /\ mishaps < MaxMishaps
  /\ mishaps' = mishaps + 1

\* A release is published, rolled back to, revoked or paused.
Serve(a) ==
  /\ a # served /\ changes < MaxChanges
  /\ served' = a /\ changes' = changes + 1
  /\ UNCHANGED <<files, pc, loaded, flags, work, mishaps, auto>>

-----------------------------------------------------------------------------
(* Whether players are let in.                                             *)

\* Only the version is compared.
LocalPackMatches(a) == saved # None /\ a.version = saved.version

CanAccept(a, ready, restart) ==
  /\ a # None /\ ~restart /\ ~a.paused /\ a.version # None
  /\ (ready \/ LocalPackMatches(a))

ApplyAssignment(a) ==
  /\ cached' = a /\ policy' = a
  /\ accepting' = CanAccept(a, packReady, pendingRestart)
  /\ UNCHANGED <<packReady, pendingRestart>>

\* Faulty: a ready pack is enough for the early call.
EarlyWhenReady(a) == packReady \/ LocalPackMatches(a)

Early(a) == LocalPackMatches(a)

\* GetAssignmentAsync answers; a current pack is put in force before the sync.
Poll ==
  /\ pc = "idle"
  /\ job' = served
  /\ pc' = IF served.version = None THEN "apply" ELSE "start"
  /\ IF Early(served) THEN ApplyAssignment(served) ELSE UNCHANGED <<cached, flags>>
  /\ UNCHANGED <<served, disk, pending, saved, loaded, mem, todo, needs, before,
                 mishaps, changes, auto>>

Apply ==
  /\ pc = "apply" /\ pc' = "idle"
  /\ ApplyAssignment(job)
  /\ NoWork
  /\ UNCHANGED <<served, disk, pending, saved, loaded, mishaps, changes, auto>>

-----------------------------------------------------------------------------
(* PackSync.SyncAsync.                                                     *)

MayLock(folder) == folder \in Dlls \cup {Broken}

\* Moves what is pending into place; the roots in stuck stay.
ApplyPending(stuck) ==
  LET placed == {r \in Roots : pending[r] # None} \ stuck
  IN  /\ disk' = [r \in Roots |-> IF r \in placed THEN pending[r] ELSE disk[r]]
      /\ pending' = [r \in Roots |-> IF r \in placed THEN None ELSE pending[r]]

Stuck(stuck, held) ==
  /\ \A r \in stuck : pending[r] # None /\ disk[r] # None /\ MayLock(held[r])
  /\ \/ stuck # {} /\ Mishap("lock")
     \/ stuck = {} /\ UNCHANGED mishaps

Want == Pack[job.version]

\* The release that state.json names.
OnRecord == IF saved = None THEN None ELSE saved.version

StartSync(stuck) ==
  /\ pc = "start" /\ pc' = "roots"
  /\ Stuck(stuck, loaded) /\ ApplyPending(stuck)
  /\ mem' = IF saved = None THEN Nothing ELSE saved.roots
  /\ before' = OnRecord
  /\ todo' = {r \in Roots : Want[r] # None}
  /\ needs' = FALSE
  /\ UNCHANGED <<served, saved, cached, loaded, flags, job, changes, auto>>

Unchanged(r) == mem[r] = Want[r] /\ disk[r] # None

\* Faulty: a mod with a DLL asks for a restart at every sync.
KeepAndRestart(r) ==
  /\ pc = "roots" /\ r \in todo /\ Unchanged(r)
  /\ todo' = todo \ {r} /\ needs' = (needs \/ Want[r] \in Dlls)
  /\ UNCHANGED <<served, files, pc, loaded, flags, job, mem, before, mishaps,
                 changes, auto>>

KeepRoot(r) ==
  /\ pc = "roots" /\ r \in todo /\ Unchanged(r)
  /\ todo' = todo \ {r}
  /\ UNCHANGED <<served, files, pc, loaded, flags, job, mem, before, needs,
                 mishaps, changes, auto>>

Records(r, mod) ==
  /\ mem' = [mem EXCEPT ![r] = mod]
  /\ todo' = todo \ {r}

\* Faulty: a new DLL asks for no restart.
InstallSilently(r) ==
  /\ pc = "roots" /\ r \in todo /\ ~Unchanged(r)
  /\ disk' = [disk EXCEPT ![r] = Want[r]]
  /\ Records(r, Want[r])
  /\ UNCHANGED <<served, pending, saved, cached, pc, loaded, flags, job, before,
                 needs, mishaps, changes, auto>>

\* InstallRoot replaces the folder.
Install(r) ==
  /\ pc = "roots" /\ r \in todo /\ ~Unchanged(r)
  /\ disk' = [disk EXCEPT ![r] = Want[r]]
  /\ Records(r, Want[r])
  /\ needs' = (needs \/ Want[r] \in Dlls)
  /\ UNCHANGED <<served, pending, saved, cached, pc, loaded, flags, job, before,
                 mishaps, changes, auto>>

\* Deleting a locked folder leaves all of it, or part.
DeleteFails(r) ==
  /\ disk[r] # None /\ MayLock(loaded[r]) /\ Mishap("lock")
  /\ \E left \in {disk[r], Broken} : disk' = [disk EXCEPT ![r] = left]

\* InstallRoot cannot, and leaves the new folder in pending.
Postpone(r) ==
  /\ pc = "roots" /\ r \in todo /\ ~Unchanged(r)
  /\ DeleteFails(r)
  /\ pending' = [pending EXCEPT ![r] = Want[r]]
  /\ Records(r, Want[r])
  /\ needs' = TRUE
  /\ UNCHANGED <<served, saved, cached, pc, loaded, flags, job, before, changes,
                 auto>>

\* An artifact cannot be fetched: nothing is put in force.
SyncFails ==
  /\ pc = "roots" /\ \E r \in todo : ~Unchanged(r)
  /\ Mishap("download")
  /\ pc' = "idle" /\ NoWork
  /\ UNCHANGED <<served, files, loaded, flags, changes, auto>>

Surplus(r) == pc = "roots" /\ todo = {} /\ mem[r] # None /\ Want[r] = None

\* Faulty: surplus folders are forgotten, not deleted.
ForgetRoot(r) ==
  /\ Surplus(r) /\ Records(r, None)
  /\ UNCHANGED <<served, files, pc, loaded, flags, job, before, needs, mishaps,
                 changes, auto>>

RemoveRoot(r) ==
  /\ Surplus(r) /\ Records(r, None)
  /\ disk' = [disk EXCEPT ![r] = None]
  /\ UNCHANGED <<served, pending, saved, cached, pc, loaded, flags, job, before,
                 needs, mishaps, changes, auto>>

\* The folder is locked; the state forgets it all the same.
RemoveFails(r) ==
  /\ Surplus(r) /\ Records(r, None)
  /\ DeleteFails(r)
  /\ needs' = TRUE
  /\ UNCHANGED <<served, pending, saved, cached, pc, loaded, flags, job, before,
                 changes, auto>>

\* WriteState deletes the old file ...
DeleteState ==
  /\ pc = "roots" /\ todo = {} /\ \A r \in Roots : ~Surplus(r)
  /\ pc' = "moving"
  /\ saved' = None
  /\ UNCHANGED <<served, disk, pending, cached, loaded, flags, work, mishaps,
                 changes, auto>>

\* ... and moves the new one in its place; SyncPackAsync takes note.
WriteState ==
  /\ pc = "moving" /\ pc' = "apply"
  /\ saved' = [version |-> job.version, roots |-> mem]
  /\ packReady' = ~needs
  /\ pendingRestart' = (pendingRestart \/ needs)
  /\ UNCHANGED <<served, disk, pending, cached, loaded, policy, accepting, work,
                 mishaps, changes, auto>>

-----------------------------------------------------------------------------
(* The process.                                                            *)

Ends ==
  /\ pc' = "down"
  /\ policy' = None /\ accepting' = FALSE
  /\ packReady' = FALSE /\ pendingRestart' = FALSE
  /\ NoWork

\* AutoRestart, or the operator, ends a process that asks for it.
Quit ==
  /\ pendingRestart /\ pc \in {"idle", "apply"}
  /\ Ends
  /\ UNCHANGED <<served, files, loaded, mishaps, changes, auto>>

Crash ==
  /\ pc # "down" /\ Mishap("crash")
  /\ Ends
  /\ UNCHANGED <<served, files, loaded, changes, auto>>

\* It ends when ApplyAssignment has deleted current-assignment.json.
CrashApplying ==
  /\ \/ pc = "apply"
     \/ pc = "idle" /\ LocalPackMatches(served)
  /\ Mishap("crash")
  /\ Ends /\ cached' = None
  /\ UNCHANGED <<served, disk, pending, saved, loaded, changes, auto>>

\* InitMod, and the game loads what is there.
Boot(stuck) ==
  /\ pc = "down" /\ pc' = "idle"
  /\ Stuck(stuck, disk) /\ ApplyPending(stuck)
  /\ loaded' = disk'
  /\ policy' = cached
  /\ accepting' = CanAccept(cached, FALSE, FALSE)
  /\ UNCHANGED <<served, saved, cached, packReady, pendingRestart, work,
                 changes, auto>>

Syncs ==
  \/ \E stuck \in SUBSET Roots : StartSync(stuck)
  \/ \E r \in Roots : KeepRoot(r) \/ Install(r) \/ RemoveRoot(r)
  \/ DeleteState \/ WriteState

Next ==
  \/ \E a \in Assignment : Serve(a)
  \/ Poll \/ Apply \/ Syncs \/ SyncFails
  \/ \E r \in Roots : Postpone(r) \/ RemoveFails(r)
  \/ Quit \/ Crash \/ CrashApplying
  \/ \E stuck \in SUBSET Roots : Boot(stuck)

Spec == Init /\ [][Next]_vars

\* The loop goes on and a process that ended is started again.  With AutoRestart
\* one that is to restart ends in the sleep between two polls; without, nobody is
\* bound to end it.
FairSpec ==
  /\ Spec
  /\ WF_vars(Poll) /\ WF_vars(Apply) /\ WF_vars(Syncs)
  /\ WF_vars(\E stuck \in SUBSET Roots : Boot(stuck))
  /\ SF_vars(auto /\ Quit)

-----------------------------------------------------------------------------
(* Properties.                                                             *)

\* A sync has replaced state.json, or is doing so, and ApplyAssignment has not
\* run yet: SendSyncStatusAsync is awaited in between.
Reporting == pc \in {"moving", "apply"} /\ job.version # None

\* Players are let in under a release that a sync of this server has finished,
\* never under a paused or revoked one: the one state.json names, or while a sync
\* reports what it did, the one that state.json named before it.  Only then may a
\* restart be due, the one that sync asks for, and players still come in under
\* the old policy; through failed syncs, locked folders, crashes and any changes
\* of the assignment.
AcceptsWhatIsSynced ==
  accepting =>
    /\ policy # None /\ ~policy.paused /\ policy.version # None
    /\ policy.version = IF Reporting THEN before ELSE OnRecord
    /\ pendingRestart => Reporting /\ needs

\* Every folder is the one the release in force puts there.
FilesMatch == \A r \in Roots : disk[r] = Pack[policy.version][r]

\* Every DLL of the release in force is the one the process loaded.
DllsLoaded ==
  \A r \in Roots :
    Pack[policy.version][r] \in Dlls => loaded[r] = Pack[policy.version][r]

\* If nothing goes wrong, then whenever players are let in and no sync is under
\* way, the folders and the loaded DLLs are those of the release in force: for
\* any updates, rollbacks, pauses and restarts.
CleanSyncInstalls ==
  mishaps = 0 /\ accepting /\ pc = "idle" => FilesMatch /\ DllsLoaded

\* When the API goes on serving one release and does not pause it, the server
\* comes to let players in under it and goes on doing so, whatever failed before
\* and without restarting again and again; only with AutoRestart off it may
\* instead wait, with its doors closed, for somebody to restart it.
ServerComesBack ==
  \A v \in Versions :
    <>[](served.version = v /\ ~served.paused)
      => \/ <>[](accepting /\ policy.version = v)
         \/ ~auto /\ <>[](pendingRestart /\ ~accepting)

=============================================================================
