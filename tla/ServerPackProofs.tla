-------------------------- MODULE ServerPackProofs --------------------------
(***************************************************************************)
(* Theorems about the pack sync of a dedicated server, for any roots, mods *)
(* and releases, any number of changes and any number of mishaps; and      *)
(* about the guardians that start it, for any number of them and of        *)
(* diagnostics.                                                            *)
(***************************************************************************)
EXTENDS ServerPack, Diagnosis, SequenceTheorems, TLAPS

(***************************************************************************)
(* Types.                                                                  *)
(***************************************************************************)
\* What a mishap, or its absence, does to the count.
LEMMA MishapTyped ==
  ASSUME TypeOK, NEW mishap, Mishap(mishap)
  PROVE  mishaps' \in 0 .. MaxMishaps /\ mishaps' # 0
BY ServerPackAssumption DEF TypeOK, Mishap

\* The count while some roots may be stuck.
LEMMA StuckTyped ==
  ASSUME TypeOK, NEW stuck \in SUBSET Roots, NEW held, Stuck(stuck, held)
  PROVE  mishaps' \in 0 .. MaxMishaps
BY MishapTyped DEF Stuck, TypeOK

\* Folders and pending folders keep their types when the latter are placed.
LEMMA PendingTyped ==
  ASSUME TypeOK, NEW stuck \in SUBSET Roots, ApplyPending(stuck)
  PROVE  disk' \in [Roots -> Folder] /\ pending' \in Managed
BY DEF TypeOK, ApplyPending, Managed, Folder

\* The process ends with nothing in memory.
LEMMA EndsTyped ==
  ASSUME Ends
  PROVE  /\ pc' \in Places /\ policy' \in Assignment \cup {None}
         /\ accepting' \in BOOLEAN /\ packReady' \in BOOLEAN
         /\ pendingRestart' \in BOOLEAN
         /\ job' \in Assignment \cup {None} /\ mem' \in Managed
         /\ todo' \subseteq Roots /\ needs' \in BOOLEAN
         /\ before' \in Versions \cup {None}
BY DEF Ends, NoWork, Nothing, Managed, Places

\* An assignment comes into force.
LEMMA ApplyTyped ==
  ASSUME TypeOK, NEW a \in Assignment \cup {None}, ApplyAssignment(a)
  PROVE  /\ cached' \in Assignment \cup {None}
         /\ policy' \in Assignment \cup {None}
         /\ accepting' \in BOOLEAN
         /\ packReady' \in BOOLEAN /\ pendingRestart' \in BOOLEAN
<1>1. CanAccept(a, packReady, pendingRestart) \in BOOLEAN
  BY DEF CanAccept
<1> QED
  BY <1>1 DEF TypeOK, ApplyAssignment

\* A sync is under way for a release.
Syncing ==
  pc \in {"start", "roots", "moving"} =>
    job \in [version : Versions, paused : BOOLEAN]

\* The server starts well typed.
LEMMA PackInit == Init => TypeOK /\ Syncing
<1> SUFFICES ASSUME Init PROVE TypeOK /\ Syncing
  OBVIOUS
<1>1. served \in Assignment
  BY DEF Init, Assignment
<1>2. Nothing \in Managed /\ Nothing \in [Roots -> Folder]
  BY DEF Nothing, Managed, Folder
<1>3. 0 \in 0 .. MaxMishaps /\ 0 \in 0 .. MaxChanges
  BY ServerPackAssumption
<1>4. pc = "down" /\ pc \in Places
  BY DEF Init, Places
<1>5. auto \in BOOLEAN
  BY Zenon DEF Init
<1> QED
  BY <1>1, <1>2, <1>3, <1>4, <1>5 DEF Init, TypeOK, Syncing

\* Every step keeps the types.
LEMMA PackStep == TypeOK /\ Syncing /\ [Next]_vars => TypeOK' /\ Syncing'
<1> SUFFICES ASSUME TypeOK, Syncing, [Next]_vars PROVE TypeOK' /\ Syncing'
  OBVIOUS
<1> USE DEF files, flags, work
<1>1. ASSUME NEW a \in Assignment, Serve(a)
      PROVE  TypeOK' /\ Syncing'
  <2>1. changes' \in 0 .. MaxChanges
    BY <1>1, ServerPackAssumption DEF Serve, TypeOK
  <2> QED
    BY <1>1, <2>1 DEF Serve, TypeOK, Syncing
<1>2. CASE Poll
  <2>1. served \in Assignment /\ served \in Assignment \cup {None}
    BY DEF TypeOK
  <2>2. /\ cached' \in Assignment \cup {None}
        /\ policy' \in Assignment \cup {None}
        /\ accepting' \in BOOLEAN
        /\ packReady' \in BOOLEAN /\ pendingRestart' \in BOOLEAN
    <3>1. CASE Early(served)
      BY <1>2, <2>1, <3>1, ApplyTyped DEF Poll
    <3>2. CASE ~Early(served)
      BY <1>2, <3>2 DEF Poll, TypeOK
    <3> QED
      BY <3>1, <3>2
  <2>3. pc' \in Places /\ Syncing'
    BY <1>2, <2>1 DEF Poll, Places, Syncing, Assignment
  <2>4. /\ job' = served
        /\ UNCHANGED <<served, disk, pending, saved, loaded, mem, todo, needs,
                        before, mishaps, changes, auto>>
    BY <1>2 DEF Poll
  <2> QED
    BY <2>1, <2>2, <2>3, <2>4 DEF TypeOK
<1>3. CASE Apply
  <2>1. /\ cached' \in Assignment \cup {None}
        /\ policy' \in Assignment \cup {None}
        /\ accepting' \in BOOLEAN
        /\ packReady' \in BOOLEAN /\ pendingRestart' \in BOOLEAN
    BY <1>3, ApplyTyped DEF Apply, TypeOK
  <2>2. pc' = "idle" /\ pc' \in Places /\ Syncing'
    BY <1>3 DEF Apply, Places, Syncing
  <2>3. /\ NoWork
        /\ UNCHANGED <<served, disk, pending, saved, loaded, mishaps, changes, auto>>
    BY <1>3 DEF Apply
  <2>4. /\ mem' \in Managed /\ needs' \in BOOLEAN /\ todo' = {} /\ job' = None
        /\ before' = None
    BY <2>3 DEF NoWork, Nothing, Managed
  <2> QED
    BY <2>1, <2>2, <2>3, <2>4 DEF TypeOK
<1>4. ASSUME NEW stuck \in SUBSET Roots, StartSync(stuck)
      PROVE  TypeOK' /\ Syncing'
  <2>1. /\ mishaps' \in 0 .. MaxMishaps
        /\ disk' \in [Roots -> Folder] /\ pending' \in Managed
    BY <1>4, StuckTyped, PendingTyped DEF StartSync
  <2>2. mem' \in Managed /\ before' \in Versions \cup {None}
    BY <1>4 DEF StartSync, TypeOK, State, Nothing, Managed, OnRecord
  <2>3. pc = "start" /\ pc' = "roots" /\ pc' \in Places
    BY <1>4 DEF StartSync, Places
  <2>4. /\ todo' \subseteq Roots /\ needs' = FALSE
        /\ UNCHANGED <<served, saved, cached, loaded, flags, job, changes, auto>>
    BY <1>4 DEF StartSync
  <2> QED
    BY <2>1, <2>2, <2>3, <2>4 DEF TypeOK, Syncing
<1>5. ASSUME NEW r \in Roots,
             \/ KeepRoot(r) \/ Install(r) \/ RemoveRoot(r)
             \/ Postpone(r) \/ RemoveFails(r)
      PROVE  TypeOK' /\ Syncing'
  <2>1. pc = "roots" /\ pc' = pc
        /\ UNCHANGED <<served, saved, cached, loaded, flags, job, before,
                       changes, auto>>
    BY <1>5 DEF KeepRoot, Install, RemoveRoot, Postpone, RemoveFails, Surplus
  <2>2. Want \in [Roots -> Mods \cup {None}]
    BY <2>1, ServerPackAssumption DEF Syncing, Want
  <2>3. Want[r] \in Mods \cup {None} /\ Want[r] \in Folder /\ None \in Folder
        /\ Broken \in Folder
    BY <2>2 DEF Folder
  <2>4. needs' \in BOOLEAN
    <3>1. (needs \/ Want[r] \in Dlls) \in BOOLEAN
      OBVIOUS
    <3> QED
      BY <1>5, <3>1 DEF KeepRoot, Install, RemoveRoot, Postpone, RemoveFails, TypeOK
  <2>5. todo' \subseteq Roots /\ mem' \in Managed
    BY <1>5, <2>3
    DEF KeepRoot, Install, RemoveRoot, Postpone, RemoveFails, Records, TypeOK,
        Managed
  <2>6. disk' \in [Roots -> Folder] /\ pending' \in Managed
    BY <1>5, <2>3
    DEF KeepRoot, Install, RemoveRoot, Postpone, RemoveFails, DeleteFails,
        TypeOK, Managed
  <2>7. mishaps' \in 0 .. MaxMishaps
    BY <1>5, MishapTyped
    DEF KeepRoot, Install, RemoveRoot, Postpone, RemoveFails, DeleteFails, TypeOK
  <2> QED
    BY <2>1, <2>4, <2>5, <2>6, <2>7 DEF TypeOK, Syncing
<1>6. CASE SyncFails
  <2>1. mishaps' \in 0 .. MaxMishaps
    BY <1>6, MishapTyped DEF SyncFails
  <2>2. /\ mem' \in Managed /\ needs' \in BOOLEAN /\ todo' = {} /\ job' = None
        /\ before' = None
    BY <1>6 DEF SyncFails, NoWork, Nothing, Managed
  <2>3. /\ pc' = "idle" /\ pc' \in Places
        /\ UNCHANGED <<served, files, loaded, flags, changes, auto>>
    BY <1>6 DEF SyncFails, Places
  <2> QED
    BY <2>1, <2>2, <2>3 DEF TypeOK, Syncing
<1>7. CASE DeleteState
  BY <1>7 DEF DeleteState, TypeOK, Syncing, Places
<1>8. CASE WriteState
  <2>1. saved' \in State
    BY <1>8 DEF WriteState, State, Syncing, TypeOK
  <2>2. packReady' \in BOOLEAN /\ pendingRestart' \in BOOLEAN
    BY <1>8 DEF WriteState, TypeOK
  <2>3. /\ pc' = "apply" /\ pc' \in Places
        /\ UNCHANGED <<served, disk, pending, cached, loaded, policy, accepting,
                        work, mishaps, changes, auto>>
    BY <1>8 DEF WriteState, Places
  <2> QED
    BY <2>1, <2>2, <2>3 DEF TypeOK, Syncing
<1>9. CASE Quit \/ Crash \/ CrashApplying
  <2>1. Ends
    BY <1>9 DEF Quit, Crash, CrashApplying
  <2>2. mishaps' \in 0 .. MaxMishaps
    BY <1>9, MishapTyped DEF Quit, Crash, CrashApplying, TypeOK
  <2>3. /\ cached' \in Assignment \cup {None}
        /\ UNCHANGED <<served, disk, pending, saved, loaded, changes, auto>>
    BY <1>9 DEF Quit, Crash, CrashApplying, TypeOK
  <2>4. pc' = "down"
    BY <2>1 DEF Ends
  <2> QED
    BY <2>1, <2>2, <2>3, <2>4, EndsTyped DEF TypeOK, Syncing
<1>10. ASSUME NEW stuck \in SUBSET Roots, Boot(stuck)
       PROVE  TypeOK' /\ Syncing'
  <2>1. /\ mishaps' \in 0 .. MaxMishaps
        /\ disk' \in [Roots -> Folder] /\ pending' \in Managed
    BY <1>10, StuckTyped, PendingTyped DEF Boot
  <2>2. accepting' \in BOOLEAN
    <3>1. CanAccept(cached, FALSE, FALSE) \in BOOLEAN
      BY DEF CanAccept
    <3> QED
      BY <1>10, <3>1 DEF Boot
  <2>3. /\ pc' = "idle" /\ pc' \in Places /\ loaded' = disk' /\ policy' = cached
        /\ UNCHANGED <<served, saved, cached, packReady, pendingRestart, work,
                        changes, auto>>
    BY <1>10 DEF Boot, Places
  <2> QED
    BY <2>1, <2>2, <2>3 DEF TypeOK, Syncing
<1>11. CASE UNCHANGED vars
  BY <1>11 DEF vars, TypeOK, Syncing
<1> QED
  BY <1>1, <1>2, <1>3, <1>4, <1>5, <1>6, <1>7, <1>8, <1>9, <1>10, <1>11
  DEF Next, Syncs

\* The variables of the server keep their types.
THEOREM PackTyped == Spec => []TypeOK
BY PackInit, PackStep, PTL DEF Spec

(***************************************************************************)
(* Players are let in under a release that was synced.                     *)
(***************************************************************************)
\* What accepting means outside of a report: state.json names the release.
Admits ==
  accepting =>
    /\ policy # None /\ ~policy.paused /\ policy.version # None
    /\ ~pendingRestart /\ policy.version = OnRecord

\* What it means while a sync reports: state.json named the release before.
AdmitsStill ==
  accepting =>
    /\ policy # None /\ ~policy.paused /\ policy.version # None
    /\ policy.version = before
    /\ pendingRestart => pc = "apply" /\ needs

\* AcceptsWhatIsSynced is inductive with this: a process that is down remembers
\* nothing, and what Apply is about to put in force is in state.json.
AcceptsInv ==
  /\ pc = "down" => ~accepting /\ ~packReady /\ ~pendingRestart
  /\ pc = "apply" => job # None /\ (job.version = None \/ LocalPackMatches(job))
  /\ pc = "roots" => before = OnRecord
  /\ IF Reporting THEN AdmitsStill ELSE Admits

\* An assignment is not None.
LEMMA ServedIsNot ==
  ASSUME NEW a \in Assignment PROVE a # None
BY ServerPackAssumption DEF Assignment

\* An assignment the state file agrees with is put in force soundly.
LEMMA ApplyAdmits ==
  ASSUME NEW a, ApplyAssignment(a), UNCHANGED saved,
         a # None => a.version = None \/ LocalPackMatches(a)
  PROVE  Admits'
<1> SUFFICES ASSUME accepting' PROVE Admits'
  BY DEF Admits
<1>1. CanAccept(a, packReady, pendingRestart)
  BY DEF ApplyAssignment
<1>2. policy' = a /\ pendingRestart' = pendingRestart
  BY DEF ApplyAssignment
<1> QED
  BY <1>1, <1>2 DEF CanAccept, LocalPackMatches, Admits, OnRecord

\* Every step keeps AcceptsInv.
LEMMA AcceptsStep ==
  TypeOK /\ Syncing /\ AcceptsInv /\ [Next]_vars => AcceptsInv'
<1> SUFFICES ASSUME TypeOK, Syncing, AcceptsInv, [Next]_vars PROVE AcceptsInv'
  OBVIOUS
<1> USE DEF files, flags, work
<1>1. ASSUME pc = "roots", pc' = "roots", UNCHANGED <<saved, flags, before, job>>
      PROVE  AcceptsInv'
  BY <1>1 DEF AcceptsInv, Admits, Reporting, OnRecord
<1>2. ASSUME NEW a \in Assignment, Serve(a)
      PROVE  AcceptsInv'
  BY <1>2
  DEF Serve, AcceptsInv, Admits, AdmitsStill, Reporting, LocalPackMatches, OnRecord
<1>3. CASE Poll
  <2>1. Admits'
    <3>1. CASE Early(served)
      BY <1>3, <3>1, ApplyAdmits DEF Poll, Early
    <3>2. CASE ~Early(served)
      BY <1>3, <3>2 DEF Poll, AcceptsInv, Admits, Reporting, OnRecord
    <3> QED
      BY <3>1, <3>2
  <2>2. job' = served /\ UNCHANGED saved
    BY <1>3 DEF Poll
  <2>3. pc' = "apply" => job' # None /\ job'.version = None
    <3>1. CASE served.version = None
      BY <2>2, <3>1, ServedIsNot DEF TypeOK
    <3>2. CASE served.version # None
      BY <1>3, <3>2 DEF Poll
    <3> QED
      BY <3>1, <3>2
  <2>4. pc' \in {"start", "apply"}
    BY <1>3 DEF Poll
  <2> QED
    BY <2>1, <2>3, <2>4 DEF AcceptsInv, Reporting
<1>4. CASE Apply
  <2>1. Admits'
    BY <1>4, ApplyAdmits DEF Apply, AcceptsInv
  <2> QED
    BY <1>4, <2>1 DEF Apply, AcceptsInv, Reporting
<1>5. CASE Syncs \/ \E r \in Roots : Postpone(r) \/ RemoveFails(r)
  <2>1. ASSUME NEW stuck \in SUBSET Roots, StartSync(stuck)
        PROVE  AcceptsInv'
    BY <2>1 DEF StartSync, AcceptsInv, Admits, Reporting, OnRecord
  <2>2. CASE \E r \in Roots : \/ KeepRoot(r) \/ Install(r) \/ RemoveRoot(r)
                             \/ Postpone(r) \/ RemoveFails(r)
    BY <1>1, <2>2
    DEF KeepRoot, Install, RemoveRoot, Postpone, RemoveFails, Surplus
  <2>3. CASE DeleteState
    <3>1. /\ pc = "roots" /\ pc' = "moving" /\ job' = job /\ before' = before
          /\ UNCHANGED flags
      BY <2>3 DEF DeleteState
    <3>2. job.version \in Versions /\ job.version # None
      BY <3>1, ServerPackAssumption DEF Syncing
    <3>3. Admits /\ before = OnRecord
      BY <3>1 DEF AcceptsInv, Reporting
    <3>4. AdmitsStill'
      BY <3>1, <3>3 DEF Admits, AdmitsStill
    <3>5. Reporting'
      BY <3>1, <3>2 DEF Reporting
    <3> QED
      BY <3>1, <3>4, <3>5 DEF AcceptsInv
  <2>4. CASE WriteState
    <3>1. job \in [version : Versions, paused : BOOLEAN] /\ mem \in Managed
      BY <2>4 DEF WriteState, Syncing, TypeOK
    <3>2. saved' \in State /\ saved'.version = job.version /\ saved' # None
      BY <2>4, <3>1, ServerPackAssumption DEF WriteState, State
    <3>3. job' = job /\ job # None /\ pc = "moving" /\ pc' = "apply"
      BY <2>4, <3>1, ServedIsNot DEF WriteState, Assignment
    <3>4. job.version # None
      BY <3>1, ServerPackAssumption
    <3>5. Reporting /\ Reporting'
      BY <3>3, <3>4 DEF Reporting
    <3>6. AdmitsStill
      BY <3>5 DEF AcceptsInv
    <3>7. pendingRestart' => pendingRestart \/ needs
      BY <2>4 DEF WriteState
    <3>8. UNCHANGED <<policy, accepting, before, needs>>
      BY <2>4 DEF WriteState
    <3>9. AdmitsStill'
      BY <3>3, <3>6, <3>7, <3>8 DEF AdmitsStill
    <3>10. LocalPackMatches(job)'
      BY <3>2, <3>3 DEF LocalPackMatches
    <3> QED
      BY <3>3, <3>5, <3>9, <3>10 DEF AcceptsInv
  <2> QED
    BY <1>5, <2>1, <2>2, <2>3, <2>4 DEF Syncs
<1>6. CASE SyncFails
  BY <1>6 DEF SyncFails, AcceptsInv, Admits, Reporting, OnRecord
<1>7. CASE Quit \/ Crash \/ CrashApplying
  BY <1>7 DEF Quit, Crash, CrashApplying, Ends, AcceptsInv, Admits, Reporting
<1>8. ASSUME NEW stuck \in SUBSET Roots, Boot(stuck)
      PROVE  AcceptsInv'
  <2>1. ~packReady /\ ~pendingRestart /\ UNCHANGED <<saved, pendingRestart>>
    BY <1>8 DEF Boot, AcceptsInv
  <2>2. accepting' => CanAccept(cached, FALSE, FALSE) /\ policy' = cached
    BY <1>8 DEF Boot
  <2>3. Admits'
    BY <2>1, <2>2 DEF CanAccept, Admits, LocalPackMatches, OnRecord
  <2> QED
    BY <1>8, <2>3 DEF Boot, AcceptsInv, Reporting
<1>9. CASE UNCHANGED vars
  BY <1>9
  DEF vars, AcceptsInv, Admits, AdmitsStill, Reporting, LocalPackMatches, OnRecord
<1> QED
  BY <1>2, <1>3, <1>4, <1>5, <1>6, <1>7, <1>8, <1>9 DEF Next

\* Through failed syncs, locked folders, crashes and any changes of the
\* assignment, players are let in only under the release that state.json names,
\* or named until the sync that is reporting; and only that report may find them
\* let in while a restart is due.
THEOREM AcceptsCorrect == Spec => []AcceptsWhatIsSynced
<1>1. Init => AcceptsInv
  BY DEF Init, AcceptsInv, Admits, Reporting
<1>2. AcceptsInv => AcceptsWhatIsSynced
  BY DEF AcceptsInv, AcceptsWhatIsSynced, Admits, AdmitsStill
<1>3. Spec => [](TypeOK /\ Syncing)
  BY PackInit, PackStep, PTL DEF Spec
<1> QED
  BY <1>1, <1>2, <1>3, AcceptsStep, PTL DEF Spec

(***************************************************************************)
(* As long as nothing goes wrong, the folders are those of the release.    *)
(***************************************************************************)
\* What state.json says of the folders.
Recorded == IF saved = None THEN Nothing ELSE saved.roots

\* Between syncs state.json describes the folders; during one the state in memory
\* does, and every root that was looked at is as the release wants it.
Described ==
  /\ pending = Nothing
  /\ saved # None => saved.roots = Pack[saved.version]
  /\ pc \in {"down", "idle", "start", "apply"} => disk = Recorded
  /\ pc \in {"roots", "moving"} => disk = mem
  /\ pc = "roots" => \A r \in Roots \ todo : Want[r] # None => mem[r] = Want[r]
  /\ pc = "roots" => todo \subseteq {r \in Roots : Want[r] # None}
  /\ pc = "moving" => mem = Want

\* A process that asks for no restart has loaded every DLL in the folders.
Loaded ==
  pc # "down" /\ ~pendingRestart /\ ~(pc \in {"roots", "moving"} /\ needs) =>
    \A r \in Roots : disk[r] \in Dlls => loaded[r] = disk[r]

CleanInv == mishaps = 0 => Described /\ Loaded

\* While nothing went wrong, placing what is pending changes nothing.
LEMMA NothingPending ==
  ASSUME TypeOK, pending = Nothing, NEW stuck \in SUBSET Roots, ApplyPending(stuck)
  PROVE  disk' = disk /\ pending' = pending
BY DEF TypeOK, Nothing, ApplyPending, Managed

\* Every step keeps CleanInv: a mishap makes it hold trivially.
LEMMA CleanStep ==
  TypeOK /\ Syncing /\ CleanInv /\ [Next]_vars => CleanInv'
<1> SUFFICES ASSUME TypeOK, Syncing, CleanInv, [Next]_vars, mishaps' = 0
             PROVE  Described' /\ Loaded'
  BY DEF CleanInv
<1> USE DEF files, flags, work
<1>1. ASSUME NEW mishap, Mishap(mishap) PROVE FALSE
  BY <1>1, MishapTyped
<1>2. ASSUME mishaps' = mishaps PROVE Described /\ Loaded
  BY <1>2 DEF CleanInv
<1>3. ASSUME NEW stuck \in SUBSET Roots, NEW held, Stuck(stuck, held)
      PROVE  mishaps' = mishaps
  BY <1>1, <1>3 DEF Stuck
<1>4. ASSUME NEW a \in Assignment, Serve(a)
      PROVE  Described' /\ Loaded'
  BY <1>2, <1>4 DEF Serve, Described, Loaded, Recorded, Want
<1>5. CASE Poll
  <2>1. /\ pc = "idle" /\ pc' \in {"start", "apply"}
        /\ pendingRestart' = pendingRestart
        /\ UNCHANGED <<disk, pending, saved, loaded, mem, todo, needs, mishaps>>
    BY <1>5 DEF Poll, ApplyAssignment
  <2> QED
    BY <1>2, <2>1 DEF Described, Loaded, Recorded
<1>6. CASE Apply
  <2>1. /\ pc = "apply" /\ pc' = "idle"
        /\ pendingRestart' = pendingRestart
        /\ UNCHANGED <<disk, pending, saved, loaded, mishaps>>
    BY <1>6 DEF Apply, ApplyAssignment
  <2> QED
    BY <1>2, <2>1 DEF Described, Loaded, Recorded
<1>7. ASSUME NEW stuck \in SUBSET Roots, StartSync(stuck)
      PROVE  Described' /\ Loaded'
  <2>1. Described /\ Loaded
    BY <1>2, <1>3, <1>7 DEF StartSync
  <2>2. disk' = disk /\ pending' = pending
    BY <1>7, <2>1, NothingPending DEF StartSync, Described
  <2>3. /\ pc = "start" /\ pc' = "roots" /\ mem' = Recorded
        /\ todo' = {r \in Roots : Want[r] # None}
        /\ UNCHANGED <<saved, loaded, job, pendingRestart>>
    BY <1>7 DEF StartSync, Recorded
  <2> QED
    BY <2>1, <2>2, <2>3 DEF Described, Loaded, Recorded, Want
<1>8. ASSUME NEW r \in Roots, KeepRoot(r)
      PROVE  Described' /\ Loaded'
  BY <1>2, <1>8 DEF KeepRoot, Described, Loaded, Recorded, Want, Unchanged
<1>9. ASSUME NEW r \in Roots, Install(r)
      PROVE  Described' /\ Loaded'
  <2>1. Described /\ Loaded
    BY <1>2, <1>9 DEF Install
  <2>2. /\ pc = "roots" /\ pc' = "roots" /\ r \in todo
        /\ disk' = [disk EXCEPT ![r] = Want[r]]
        /\ mem' = [mem EXCEPT ![r] = Want[r]]
        /\ todo' = todo \ {r}
        /\ needs' = (needs \/ Want[r] \in Dlls)
        /\ UNCHANGED <<pending, saved, loaded, job, pendingRestart>>
    BY <1>9 DEF Install, Records
  <2>3. disk \in [Roots -> Folder] /\ mem \in [Roots -> Mods \cup {None}]
    BY DEF TypeOK, Managed
  <2>4. Described'
    BY <2>1, <2>2, <2>3 DEF Described, Recorded, Want
  <2>5. needs' => needs \/ Want[r] \in Dlls
    BY <2>2
  <2>6. ~needs' => ~needs /\ Want[r] \notin Dlls
    BY <2>2
  <2>7. Loaded'
    BY <2>1, <2>2, <2>3, <2>6 DEF Loaded
  <2> QED
    BY <2>4, <2>7
<1>10. ASSUME NEW r \in Roots, RemoveRoot(r)
       PROVE  Described' /\ Loaded'
  <2>1. Described /\ Loaded
    BY <1>2, <1>10 DEF RemoveRoot
  <2>2. /\ pc = "roots" /\ pc' = "roots" /\ todo = {} /\ Want[r] = None
        /\ disk' = [disk EXCEPT ![r] = None]
        /\ mem' = [mem EXCEPT ![r] = None]
        /\ todo' = todo \ {r}
        /\ UNCHANGED <<pending, saved, loaded, job, needs, pendingRestart>>
    BY <1>10 DEF RemoveRoot, Records, Surplus
  <2>3. disk \in [Roots -> Folder] /\ mem \in [Roots -> Mods \cup {None}]
    BY DEF TypeOK, Managed
  <2>4. None \notin Dlls
    BY ServerPackAssumption
  <2>5. Described'
    BY <2>1, <2>2, <2>3 DEF Described, Recorded, Want
  <2>6. Loaded'
    BY <2>1, <2>2, <2>3, <2>4 DEF Loaded
  <2> QED
    BY <2>5, <2>6
<1>11. ASSUME NEW r \in Roots, Postpone(r) \/ RemoveFails(r)
       PROVE  FALSE
  BY <1>1, <1>11 DEF Postpone, RemoveFails, DeleteFails
<1>12. CASE DeleteState
  <2>1. Described /\ Loaded
    BY <1>2, <1>12 DEF DeleteState
  <2>2. /\ pc = "roots" /\ pc' = "moving" /\ todo = {} /\ saved' = None
        /\ \A r \in Roots : ~Surplus(r)
        /\ UNCHANGED <<disk, pending, loaded, job, mem, todo, needs, pendingRestart>>
    BY <1>12 DEF DeleteState
  <2>3. Want \in [Roots -> Mods \cup {None}]
    BY <2>2, ServerPackAssumption DEF Syncing, Want
  <2>4. \A r \in Roots : mem[r] = Want[r]
    BY <2>1, <2>2 DEF Described, Surplus
  <2>5. mem = Want
    BY <2>3, <2>4 DEF TypeOK, Managed
  <2> QED
    BY <2>1, <2>2, <2>5 DEF Described, Loaded, Want
<1>13. CASE WriteState
  <2>1. Described /\ Loaded
    BY <1>2, <1>13 DEF WriteState
  <2>2. /\ pc = "moving" /\ pc' = "apply"
        /\ saved' = [version |-> job.version, roots |-> mem]
        /\ pendingRestart' = (pendingRestart \/ needs)
        /\ UNCHANGED <<disk, pending, loaded, job, mem, needs>>
    BY <1>13 DEF WriteState
  <2>3. job.version \in Versions
    BY <2>2 DEF Syncing
  <2>4. saved' \in State /\ saved' # None
    BY <2>2, <2>3, ServerPackAssumption DEF State, TypeOK
  <2>5. saved'.roots = mem /\ saved'.version = job.version
    BY <2>2
  <2>6. Described'
    BY <2>1, <2>2, <2>4, <2>5 DEF Described, Recorded, Want
  <2>7. ~pendingRestart' => ~pendingRestart /\ ~needs
    BY <2>2
  <2>8. Loaded'
    BY <2>1, <2>2, <2>7 DEF Loaded
  <2> QED
    BY <2>6, <2>8
<1>14. CASE Quit
  BY <1>2, <1>14 DEF Quit, Ends, Described, Loaded, Recorded
<1>15. CASE SyncFails \/ Crash \/ CrashApplying
  BY <1>1, <1>15 DEF SyncFails, Crash, CrashApplying
<1>16. ASSUME NEW stuck \in SUBSET Roots, Boot(stuck)
       PROVE  Described' /\ Loaded'
  <2>1. Described /\ Loaded
    BY <1>2, <1>3, <1>16 DEF Boot
  <2>2. disk' = disk /\ pending' = pending
    BY <1>16, <2>1, NothingPending DEF Boot, Described
  <2>3. /\ pc = "down" /\ pc' = "idle" /\ loaded' = disk'
        /\ UNCHANGED <<saved, job, mem, todo, needs>>
    BY <1>16 DEF Boot
  <2> QED
    BY <2>1, <2>2, <2>3 DEF Described, Loaded, Recorded
<1>17. CASE UNCHANGED vars
  BY <1>2, <1>17 DEF vars, Described, Loaded, Recorded, Want
<1> QED
  BY <1>4, <1>5, <1>6, <1>7, <1>8, <1>9, <1>10, <1>11, <1>12, <1>13, <1>14, <1>15,
     <1>16, <1>17 DEF Next, Syncs

\* If nothing goes wrong, the folders and the loaded DLLs are those of the release
\* players are let in under, whatever the releases and however often they change.
THEOREM CleanCorrect == Spec => []CleanSyncInstalls
<1>1. Init => CleanInv /\ AcceptsInv
  BY DEF Init, CleanInv, Described, Loaded, Recorded, AcceptsInv, Admits, Reporting
<1>2. TypeOK /\ CleanInv /\ AcceptsInv => CleanSyncInstalls
  <2> SUFFICES ASSUME TypeOK, CleanInv, AcceptsInv,
                      mishaps = 0, accepting, pc = "idle"
               PROVE  FilesMatch /\ DllsLoaded
    BY DEF CleanSyncInstalls
  <2>1. Described /\ Loaded /\ Admits
    BY DEF CleanInv, AcceptsInv, Reporting
  <2>2. disk = Pack[policy.version] /\ ~pendingRestart
    BY <2>1 DEF Described, Recorded, Admits, OnRecord
  <2> QED
    BY <2>1, <2>2 DEF Loaded, FilesMatch, DllsLoaded
<1>3. Spec => [](TypeOK /\ Syncing)
  BY PackInit, PackStep, PTL DEF Spec
<1> QED
  BY <1>1, <1>2, <1>3, CleanStep, AcceptsStep, PTL DEF Spec

(***************************************************************************)
(* The guardian of the server, and its diagnostics.                        *)
(***************************************************************************)
CONSTANTS StartsAnyway, MaxFailures, CoolDown, FlushLimit, MaxPoison, MaxOutages, MaxTrouble
VARIABLES up, outages, breaker, at, failures, names, ends, trouble

Guard == INSTANCE Guardian

\* What is left of a queue when a file is removed.
LEMMA LeftInQueue ==
  ASSUME NEW S, NEW s \in Seq(S), NEW e
  PROVE  /\ Guard!Without(s, e) \in Seq(S)
         /\ Guard!ToSet(Guard!Without(s, e)) \subseteq Guard!ToSet(s)
         /\ Guard!ToSet(s) \subseteq Guard!ToSet(Guard!Without(s, e)) \cup {e}
<1>1. CASE e \notin Guard!ToSet(s)
  BY <1>1 DEF Guard!Without
<1>2. CASE e \in Guard!ToSet(s)
  <2> DEFINE i == CHOOSE k \in DOMAIN s : s[k] = e
             front == SubSeq(s, 1, i - 1)
             back == SubSeq(s, i + 1, Len(s))
             t == front \o back
  <2>1. i \in 1..Len(s) /\ s[i] = e /\ Len(s) \in Nat
    BY <1>2 DEF Guard!ToSet
  <2>2. Guard!Without(s, e) = t
    BY <1>2, Zenon DEF Guard!Without, Guard!RemoveAt
  <2> HIDE DEF i
  <2>3. /\ front \in Seq(S) /\ Len(front) = i - 1
        /\ \A k \in 1..(i - 1) : front[k] = s[k]
    BY <2>1, SubSeqProperties
  <2>4. /\ back \in Seq(S) /\ Len(back) = Len(s) - i
        /\ \A k \in 1..(Len(s) - i) : back[k] = s[i + k]
    BY <2>1, SubSeqProperties
  <2> HIDE DEF front, back
  <2>5. /\ t \in Seq(S) /\ Len(t) = Len(s) - 1
        /\ \A k \in 1..(i - 1) : t[k] = s[k]
        /\ \A k \in i..(Len(s) - 1) : t[k] = s[k + 1]
    <3>1. /\ t \in Seq(S) /\ Len(t) = (i - 1) + (Len(s) - i)
          /\ \A k \in 1..(i - 1) : t[k] = front[k]
          /\ \A k \in i..(Len(s) - 1) : t[k] = back[k - (i - 1)]
      <4>1. /\ t \in Seq(S) /\ Len(t) = Len(front) + Len(back)
            /\ \A k \in 1..(Len(front) + Len(back)) :
                 t[k] = IF k <= Len(front) THEN front[k] ELSE back[k - Len(front)]
        BY <2>3, <2>4, ConcatProperties
      <4> HIDE DEF t
      <4>2. Len(front) + Len(back) = Len(s) - 1 /\ (i - 1) + (Len(s) - i) = Len(s) - 1
        BY <2>1, <2>3, <2>4
      <4>3. ASSUME NEW k \in 1..(i - 1) PROVE t[k] = front[k]
        <5>1. k \in 1..(Len(front) + Len(back)) /\ k <= Len(front)
          BY <2>1, <2>3, <4>2
        <5> QED
          BY <4>1, <5>1
      <4>4. ASSUME NEW k \in i..(Len(s) - 1) PROVE t[k] = back[k - (i - 1)]
        <5>1. k \in 1..(Len(front) + Len(back)) /\ ~(k <= Len(front)) /\ Len(front) = i - 1
          BY <2>1, <2>3, <4>2
        <5> QED
          BY <4>1, <5>1
      <4> QED
        BY <4>1, <4>2, <4>3, <4>4
    <3>2. ASSUME NEW k \in i..(Len(s) - 1) PROVE t[k] = s[k + 1]
      <4>1. k - (i - 1) \in 1..(Len(s) - i) /\ i + (k - (i - 1)) = k + 1
        BY <2>1
      <4> QED
        BY <2>4, <3>1, <4>1
    <3>3. ASSUME NEW k \in 1..(i - 1) PROVE t[k] = s[k]
      BY <2>3, <3>1, <3>3
    <3> HIDE DEF t
    <3> QED
      BY <2>1, <3>1, <3>2, <3>3
  <2> HIDE DEF t
  <2>6. Guard!ToSet(t) \subseteq Guard!ToSet(s)
    BY <2>1, <2>5 DEF Guard!ToSet
  <2>7. ASSUME NEW k \in 1..Len(s), k # i PROVE s[k] \in Guard!ToSet(t)
    <3>1. CASE k < i
      BY <2>1, <2>5, <3>1 DEF Guard!ToSet
    <3>2. CASE k > i
      <4>1. k - 1 \in DOMAIN t /\ t[k - 1] = s[k]
        BY <2>1, <2>5, <3>2
      <4> QED
        BY <4>1 DEF Guard!ToSet
    <3> QED
      BY <2>1, <2>7, <3>1, <3>2
  <2>8. Guard!ToSet(s) \subseteq Guard!ToSet(t) \cup {e}
    <3> SUFFICES ASSUME NEW k \in DOMAIN s PROVE s[k] \in Guard!ToSet(t) \cup {e}
      BY DEF Guard!ToSet
    <3> QED
      BY <2>1, <2>7
  <2> QED
    BY <2>2, <2>5, <2>6, <2>8
<1> QED
  BY <1>1, <1>2

\* The first of a queue are diagnostics of it.
LEMMA FirstOfQueue ==
  ASSUME NEW S, NEW s \in Seq(S), NEW n \in Nat
  PROVE  Guard!FirstOf(n, s) \in Seq(S) /\ Guard!ToSet(Guard!FirstOf(n, s)) \subseteq Guard!ToSet(s)
<1> DEFINE m == IF n < Len(s) THEN n ELSE Len(s)
<1>1. m \in 0..Len(s) /\ Len(s) \in Nat
  OBVIOUS
<1>2. Guard!FirstOf(n, s) = SubSeq(s, 1, m)
  BY DEF Guard!FirstOf
<1> HIDE DEF m
<1>3. \A i \in 1..m : s[i] \in S
  BY <1>1
<1>4. /\ SubSeq(s, 1, m) \in Seq(S) /\ Len(SubSeq(s, 1, m)) = m
      /\ \A i \in 1..m : SubSeq(s, 1, m)[i] = s[i]
  BY <1>1, <1>3, SubSeqProperties
<1> QED
  BY <1>1, <1>2, <1>4 DEF Guard!ToSet

\* What is appended, and what stays when the first is taken off.
LEMMA QueueEnds ==
  ASSUME NEW S, NEW s \in Seq(S), NEW e \in S
  PROVE  /\ Guard!ToSet(Append(s, e)) = Guard!ToSet(s) \cup {e}
         /\ s # <<>> => /\ Head(s) \in Guard!ToSet(s) /\ Head(s) \in S
                        /\ Tail(s) \in Seq(S) /\ Guard!ToSet(Tail(s)) \subseteq Guard!ToSet(s)
<1>1. Guard!ToSet(Append(s, e)) = Guard!ToSet(s) \cup {e}
  <2>1. /\ Len(Append(s, e)) = Len(s) + 1 /\ Append(s, e)[Len(s) + 1] = e
        /\ \A i \in 1..Len(s) : Append(s, e)[i] = s[i]
    OBVIOUS
  <2>2. DOMAIN Append(s, e) = DOMAIN s \cup {Len(s) + 1} /\ DOMAIN s = 1..Len(s)
    OBVIOUS
  <2> QED
    BY <2>1, <2>2 DEF Guard!ToSet
<1>2. ASSUME s # <<>>
      PROVE  /\ Head(s) \in Guard!ToSet(s) /\ Head(s) \in S
             /\ Tail(s) \in Seq(S) /\ Guard!ToSet(Tail(s)) \subseteq Guard!ToSet(s)
  <2>1. /\ 1 \in DOMAIN s /\ Head(s) = s[1] /\ Tail(s) \in Seq(S)
        /\ DOMAIN Tail(s) = 1..(Len(s) - 1) /\ DOMAIN s = 1..Len(s) /\ Len(s) \in Nat
        /\ \A i \in 1..(Len(s) - 1) : Tail(s)[i] = s[i + 1]
    BY <1>2
  <2> QED
    BY <2>1 DEF Guard!ToSet
<1> QED
  BY <1>1, <1>2

\* The parameters and types, and that a guardian only removes what it has sent.
GuardianSound ==
  /\ Guard!GuardianAssumption /\ Guard!TypeOK
  /\ \A g \in Guardians : at[g] = "remove" => names[g] # <<>>

\* A report is of a diagnostic that is free, or of none that is followed.
LEMMA ReportsTyped ==
  ASSUME GuardianSound, NEW g \in Guardians, NEW last \in BOOLEAN, Guard!Reports(g, last)
  PROVE  /\ at' \in [Guardians -> Guard!Steps] /\ ends' \in [Guardians -> BOOLEAN]
         /\ event' \in [Guardians -> Diagnostics \cup {NoEvent}]
         /\ kind' \in [Diagnostics -> {"unused", "plain", "poison"}] /\ arrived' \subseteq Diagnostics
<1>1. at' \in [Guardians -> Guard!Steps] /\ ends' \in [Guardians -> BOOLEAN]
  BY DEF GuardianSound, Guard!TypeOK, Guard!Reports, Guard!Goes, Guard!Steps
<1>2. CASE event' = [event EXCEPT ![g] = NoEvent] /\ UNCHANGED <<kind, arrived>>
  BY <1>1, <1>2 DEF GuardianSound, Guard!TypeOK
<1>3. ASSUME NEW e \in Diagnostics, NEW k \in {"plain", "poison"},
             event' = [event EXCEPT ![g] = e], kind' = [kind EXCEPT ![e] = k],
             arrived' = arrived \ {e}
      PROVE  /\ event' \in [Guardians -> Diagnostics \cup {NoEvent}]
             /\ kind' \in [Diagnostics -> {"unused", "plain", "poison"}] /\ arrived' \subseteq Diagnostics
  BY <1>3 DEF GuardianSound, Guard!TypeOK
<1> QED
  BY <1>1, <1>2, <1>3, Zenon DEF Guard!Reports, Guard!diagnostics

\* A guardian that has reported has nothing in hand.
LEMMA ReportedTyped ==
  ASSUME GuardianSound, NEW g \in Guardians, Guard!Reported(g)
  PROVE  /\ at' \in [Guardians -> Guard!Steps] /\ ends' \in [Guardians -> BOOLEAN]
         /\ event' \in [Guardians -> Diagnostics \cup {NoEvent}]
         /\ names' \in [Guardians -> Seq(Diagnostics)] /\ failures' \in [Guardians -> 0..MaxFailures]
<1>1. <<>> \in Seq(Diagnostics)
  OBVIOUS
<1> QED
  BY <1>1 DEF GuardianSound, Guard!TypeOK, Guard!Reported, Guard!Goes, Guard!Steps

\* A failure more, or as many as count.
LEMMA FailedTyped ==
  ASSUME Guard!GuardianAssumption, NEW n \in 0..MaxFailures
  PROVE  Guard!Failed(n) \in [failures : 0..MaxFailures, age : 0..CoolDown]
BY DEF Guard!GuardianAssumption, Guard!Failed, Guard!Least

\* Every guardian starts well typed.
LEMMA GuardianInit == Guard!GuardianAssumption /\ Guard!Init => Guard!TypeOK
<1> SUFFICES ASSUME Guard!GuardianAssumption, Guard!Init PROVE Guard!TypeOK
  OBVIOUS
<1>1. 0 \in 0..MaxOutages /\ 0 \in 0..MaxTrouble /\ 0 \in 0..MaxFailures /\ CoolDown \in 0..CoolDown
  BY DEF Guard!GuardianAssumption
<1>2. <<>> \in Seq(Diagnostics)
  OBVIOUS
<1> QED
  BY <1>1, <1>2 DEF Guard!Init, Guard!TypeOK, Guard!Steps

\* Every step of guardians, reports and the environment keeps the types.
LEMMA GuardianTyped ==
  ASSUME GuardianSound, [Guard!Next]_(Guard!vars)
  PROVE  Guard!TypeOK'
<1> USE DEF Guard!platform, Guard!diagnostics, Guard!process
<1>1. ASSUME NEW g \in Guardians, NEW last \in BOOLEAN, Guard!Reports(g, last),
             UNCHANGED <<up, outages, queue, names>>,
             breaker' \in [failures : 0..MaxFailures, age : 0..CoolDown],
             failures' \in [Guardians -> 0..MaxFailures], trouble' \in 0..MaxTrouble
      PROVE  Guard!TypeOK'
  <2>1. /\ at' \in [Guardians -> Guard!Steps] /\ ends' \in [Guardians -> BOOLEAN]
        /\ event' \in [Guardians -> Diagnostics \cup {NoEvent}]
        /\ kind' \in [Diagnostics -> {"unused", "plain", "poison"}] /\ arrived' \subseteq Diagnostics
    BY <1>1, ReportsTyped
  <2> QED
    BY <1>1, <2>1 DEF GuardianSound, Guard!TypeOK
<1>2. ASSUME NEW g \in Guardians, Guard!Reported(g), UNCHANGED <<up, outages, breaker, kind>>,
             trouble' \in 0..MaxTrouble, queue' \in Seq(Diagnostics), arrived' \subseteq Diagnostics
      PROVE  Guard!TypeOK'
  BY <1>2, ReportedTyped DEF GuardianSound, Guard!TypeOK
<1>3. ASSUME Guard!Trouble PROVE trouble' \in 0..MaxTrouble
  BY <1>3 DEF GuardianSound, Guard!GuardianAssumption, Guard!TypeOK, Guard!Trouble
<1>4. ASSUME NEW g \in Guardians, Guard!Ingest(event[g]) PROVE arrived' \subseteq Diagnostics
  BY <1>4 DEF GuardianSound, Guard!TypeOK, Guard!Ingest
<1>5. ASSUME NEW g \in Guardians, names[g] # <<>>, Guard!Ingest(Head(names[g]))
      PROVE  arrived' \subseteq Diagnostics
  <2>1. names[g] \in Seq(Diagnostics)
    BY DEF GuardianSound, Guard!TypeOK
  <2>2. Head(names[g]) \in Diagnostics
    BY <1>5, <2>1
  <2> QED
    BY <1>5, <2>2 DEF GuardianSound, Guard!TypeOK, Guard!Ingest
<1>6. ASSUME NEW g \in Guardians, Guard!Post(g) \/ Guard!PostUnanswered(g) PROVE Guard!TypeOK'
  <2>1. arrived' \subseteq Diagnostics /\ trouble' \in 0..MaxTrouble
    BY <1>3, <1>4, <1>6 DEF Guard!Post, Guard!PostUnanswered, GuardianSound, Guard!TypeOK
  <2> QED
    BY <1>6, <2>1 DEF Guard!Post, Guard!PostUnanswered, GuardianSound, Guard!TypeOK, Guard!Goes, Guard!Steps
<1>7. ASSUME NEW g \in Guardians, Guard!Enqueue(g) PROVE Guard!TypeOK'
  <2>1. queue' \in Seq(Diagnostics)
    BY <1>7 DEF Guard!Enqueue, GuardianSound, Guard!TypeOK
  <2> QED
    BY <1>2, <1>7, <2>1 DEF Guard!Enqueue, GuardianSound, Guard!TypeOK
<1>8. ASSUME NEW g \in Guardians, Guard!ListQueue(g) PROVE Guard!TypeOK'
  <2>1. Guard!FirstOf(FlushLimit, queue) \in Seq(Diagnostics)
    BY FirstOfQueue DEF GuardianSound, Guard!GuardianAssumption, Guard!TypeOK
  <2> QED
    BY <1>8, <2>1 DEF Guard!ListQueue, GuardianSound, Guard!TypeOK, Guard!Goes, Guard!Steps
<1>9. ASSUME NEW g \in Guardians, Guard!FlushPost(g) PROVE Guard!TypeOK'
  <2>1. CASE names[g] # <<>> /\ Guard!Ingest(Head(names[g])) /\ Guard!Goes(g, "remove")
             /\ UNCHANGED <<failures, event, names, ends>>
    <3>1. arrived' \subseteq Diagnostics
      BY <1>5, <2>1
    <3> QED
      BY <1>9, <2>1, <3>1 DEF Guard!FlushPost, GuardianSound, Guard!TypeOK, Guard!Goes, Guard!Steps
  <2>2. CASE Guard!Reported(g) /\ UNCHANGED arrived
    BY <1>2, <1>9, <2>2 DEF Guard!FlushPost, GuardianSound, Guard!TypeOK
  <2> QED
    BY <1>9, <2>1, <2>2 DEF Guard!FlushPost
<1>10. ASSUME NEW g \in Guardians, Guard!FlushUnanswered(g) PROVE Guard!TypeOK'
  <2>1. arrived' \subseteq Diagnostics /\ trouble' \in 0..MaxTrouble
    BY <1>3, <1>5, <1>10 DEF Guard!FlushUnanswered
  <2> QED
    BY <1>2, <1>10, <2>1 DEF Guard!FlushUnanswered, GuardianSound, Guard!TypeOK
<1>11. ASSUME NEW g \in Guardians, Guard!FlushRemove(g), names[g] # <<>> PROVE Guard!TypeOK'
  <2>1. names[g] \in Seq(Diagnostics) /\ queue \in Seq(Diagnostics)
    BY DEF GuardianSound, Guard!TypeOK
  <2>2. Tail(names[g]) \in Seq(Diagnostics) /\ Guard!Without(queue, Head(names[g])) \in Seq(Diagnostics)
    BY <1>11, <2>1, LeftInQueue
  <2> QED
    BY <1>11, <2>2 DEF Guard!FlushRemove, GuardianSound, Guard!TypeOK, Guard!Goes, Guard!Steps
<1>12. ASSUME NEW g \in Guardians, Guard!StartOpen(g) \/ Guard!SyncFails(g) \/ Guard!LaunchFails(g) \/ Guard!GameExits(g)
       PROVE  Guard!TypeOK'
  <2>1. breaker \in [failures : 0..MaxFailures, age : 0..CoolDown] /\ failures \in [Guardians -> 0..MaxFailures]
        /\ trouble \in 0..MaxTrouble /\ 0 \in 0..MaxFailures
    BY DEF GuardianSound, Guard!TypeOK, Guard!GuardianAssumption
  <2>2. CASE Guard!StartOpen(g)
    BY <1>1, <2>1, <2>2, Zenon DEF Guard!StartOpen, Guard!SyncThrows
  <2>3. CASE Guard!SyncFails(g)
    <3>1. trouble' \in 0..MaxTrouble
      BY <1>3, <2>1, <2>3 DEF Guard!SyncFails
    <3>2. Guard!Failed(failures[g]) \in [failures : 0..MaxFailures, age : 0..CoolDown]
      BY <2>1, FailedTyped DEF GuardianSound
    <3>3. failures' \in [Guardians -> 0..MaxFailures] /\ breaker' = Guard!Failed(failures[g])
      BY <2>1, <2>3 DEF Guard!SyncFails
    <3>4. /\ (g \notin StartsAnyway) \in BOOLEAN /\ Guard!Reports(g, g \notin StartsAnyway)
          /\ UNCHANGED <<up, outages, queue, names>>
      BY <2>3 DEF Guard!SyncFails, Guard!SyncThrows
    <3> QED
      BY <1>1, <3>1, <3>2, <3>3, <3>4
  <2>4. CASE Guard!LaunchFails(g)
    <3>1. trouble' \in 0..MaxTrouble
      BY <1>3, <2>4 DEF Guard!LaunchFails
    <3> QED
      BY <1>1, <2>1, <2>4, <3>1 DEF Guard!LaunchFails
  <2>5. CASE Guard!GameExits(g)
    BY <1>1, <2>1, <2>5 DEF Guard!GameExits
  <2> QED
    BY <1>12, <2>2, <2>3, <2>4, <2>5
<1>13. ASSUME NEW g \in Guardians, Guard!StartSync(g) \/ Guard!SyncSucceeds(g) \/ Guard!Launch(g)
       PROVE  Guard!TypeOK'
  <2>1. 0 \in 0..MaxFailures
    BY DEF GuardianSound, Guard!GuardianAssumption
  <2>2. CASE Guard!StartSync(g)
    BY <2>2 DEF Guard!StartSync, GuardianSound, Guard!TypeOK, Guard!Goes, Guard!Steps
  <2>3. CASE Guard!SyncSucceeds(g)
    BY <2>1, <2>3 DEF Guard!SyncSucceeds, GuardianSound, Guard!TypeOK, Guard!Goes, Guard!Steps
  <2>4. CASE Guard!Launch(g)
    BY <2>4 DEF Guard!Launch, GuardianSound, Guard!TypeOK, Guard!Goes, Guard!Steps
  <2> QED
    BY <1>13, <2>2, <2>3, <2>4
<1>14. ASSUME NEW g \in Guardians, Guard!Killed(g) PROVE Guard!TypeOK'
  <2>1. 0 \in 0..MaxFailures /\ <<>> \in Seq(Diagnostics) /\ trouble' \in 0..MaxTrouble
    BY <1>3, <1>14 DEF GuardianSound, Guard!GuardianAssumption, Guard!Killed
  <2>2. kind' \in [Diagnostics -> {"unused", "plain", "poison"}]
    BY <1>14 DEF Guard!Killed, GuardianSound, Guard!TypeOK
  <2> QED
    BY <1>14, <2>1, <2>2 DEF Guard!Killed, GuardianSound, Guard!TypeOK, Guard!Goes, Guard!Steps
<1>15. CASE Guard!Outage \/ Guard!Recovery \/ Guard!Tick
  <2>1. CASE Guard!Outage
    <3>1. MaxOutages \in Nat /\ outages \in 0..MaxOutages
      BY DEF GuardianSound, Guard!GuardianAssumption, Guard!TypeOK
    <3>2. up' = FALSE /\ outages < MaxOutages /\ outages' = outages + 1
      BY <2>1 DEF Guard!Outage
    <3>3. outages' \in 0..MaxOutages
      BY <3>1, <3>2
    <3>4. up' \in BOOLEAN
      BY <3>2, Zenon
    <3> QED
      BY <2>1, <3>3, <3>4 DEF Guard!Outage, GuardianSound, Guard!TypeOK
  <2>2. CASE Guard!Recovery
    BY <2>2 DEF Guard!Recovery, GuardianSound, Guard!TypeOK
  <2>3. CASE Guard!Tick
    <3>1. CoolDown \in Nat /\ breaker \in [failures : 0..MaxFailures, age : 0..CoolDown]
      BY DEF GuardianSound, Guard!GuardianAssumption, Guard!TypeOK
    <3>2. breaker.age < CoolDown /\ breaker' = [breaker EXCEPT !.age = @ + 1]
      BY <2>3 DEF Guard!Tick
    <3>3. breaker.age + 1 \in 0..CoolDown
      BY <3>1, <3>2
    <3>4. breaker' \in [failures : 0..MaxFailures, age : 0..CoolDown]
      BY <3>1, <3>2, <3>3
    <3> QED
      BY <2>3, <3>4 DEF Guard!Tick, GuardianSound, Guard!TypeOK
  <2> QED
    BY <1>15, <2>1, <2>2, <2>3
<1>16. CASE UNCHANGED Guard!vars
  BY <1>16 DEF Guard!vars, GuardianSound, Guard!TypeOK
<1>17. ASSUME NEW g \in Guardians, Guard!FlushRemove(g) PROVE names[g] # <<>>
  BY <1>17 DEF Guard!FlushRemove, GuardianSound
<1> QED
  BY <1>6, <1>7, <1>8, <1>9, <1>10, <1>11, <1>12, <1>13, <1>14, <1>15, <1>16, <1>17, Zenon
     DEF Guard!Next, Guard!GuardianStep, Guard!Start, Guard!Reporting

\* What a guardian removes has been sent, and stays in its list until then.
LEMMA GuardianStep ==
  ASSUME GuardianSound, [Guard!Next]_(Guard!vars)
  PROVE  GuardianSound'
<1>1. Guard!TypeOK'
  BY GuardianTyped
<1>2. ASSUME NEW h \in Guardians, at'[h] = "remove" PROVE names'[h] # <<>>
  <2>1. ASSUME NEW g \in Guardians, NEW step, step # "remove", Guard!Goes(g, step),
               \A k \in Guardians \ {g} : names'[k] = names[k]
        PROVE  names'[h] # <<>>
    BY <1>2, <2>1 DEF GuardianSound, Guard!TypeOK, Guard!Goes
  <2>2. ASSUME NEW g \in Guardians, Guard!Reported(g) PROVE names'[h] # <<>>
    BY <2>1, <2>2 DEF GuardianSound, Guard!TypeOK, Guard!Reported
  <2>3. ASSUME NEW g \in Guardians, NEW last, Guard!Reports(g, last), UNCHANGED names PROVE names'[h] # <<>>
    BY <2>1, <2>3 DEF Guard!Reports
  <2>4. ASSUME NEW g \in Guardians, Guard!Reporting(g) \/ Guard!PostUnanswered(g) \/ Guard!FlushUnanswered(g)
        PROVE  names'[h] # <<>>
    <3>1. CASE Guard!Post(g) \/ Guard!PostUnanswered(g)
      BY <2>1, <3>1 DEF Guard!Post, Guard!PostUnanswered
    <3>2. CASE Guard!Enqueue(g) \/ Guard!FlushUnanswered(g)
      BY <2>2, <3>2 DEF Guard!Enqueue, Guard!FlushUnanswered
    <3>3. CASE Guard!ListQueue(g) \/ Guard!FlushRemove(g)
      BY <2>1, <3>3 DEF Guard!ListQueue, Guard!FlushRemove, GuardianSound, Guard!TypeOK
    <3>4. CASE Guard!FlushPost(g)
      <4>1. CASE Guard!Reported(g)
        BY <2>2, <4>1
      <4>2. CASE names[g] # <<>> /\ Guard!Goes(g, "remove") /\ UNCHANGED names
        BY <1>2, <4>2 DEF GuardianSound, Guard!TypeOK, Guard!Goes
      <4> QED
        BY <3>4, <4>1, <4>2 DEF Guard!FlushPost
    <3> QED
      BY <2>4, <3>1, <3>2, <3>3, <3>4 DEF Guard!Reporting
  <2>5. ASSUME NEW g \in Guardians,
               \/ Guard!StartOpen(g) \/ Guard!SyncFails(g) \/ Guard!LaunchFails(g) \/ Guard!GameExits(g)
        PROVE  names'[h] # <<>>
    BY <2>3, <2>5 DEF Guard!StartOpen, Guard!SyncFails, Guard!SyncThrows, Guard!LaunchFails, Guard!GameExits
  <2>6. ASSUME NEW g \in Guardians,
               Guard!StartSync(g) \/ Guard!SyncSucceeds(g) \/ Guard!Launch(g) \/ Guard!Killed(g)
        PROVE  names'[h] # <<>>
    BY <2>1, <2>6 DEF Guard!StartSync, Guard!SyncSucceeds, Guard!Launch, Guard!Killed, GuardianSound, Guard!TypeOK
  <2>7. CASE Guard!Outage \/ Guard!Recovery \/ Guard!Tick \/ UNCHANGED Guard!vars
    BY <1>2, <2>7 DEF GuardianSound, Guard!Outage, Guard!Recovery, Guard!Tick, Guard!vars, Guard!process
  <2> QED
    BY <2>4, <2>5, <2>6, <2>7, Zenon DEF Guard!Next, Guard!GuardianStep, Guard!Start
<1> QED
  BY <1>1, <1>2 DEF GuardianSound

(***************************************************************************)
(* Reports.  What makes the property inductive: a diagnostic is in one     *)
(* guardian's hand until it is queued, is forgotten only when it arrived   *)
(* or is queued, and a file is removed only after it arrived.              *)
(***************************************************************************)
Queued == Guard!ToSet(queue)
Listed(g) == Guard!ToSet(names[g])

Fresh ==
  \A e \in Diagnostics : kind[e] = "unused" => e \notin arrived /\ e \notin Queued /\ ~Guard!InHand(e)

OneHand ==
  \A g, h \in Guardians : event[g] # NoEvent =>
    event[g] \notin Queued /\ event[g] \notin Listed(h) /\ (g # h => event[g] # event[h])

Answered ==
  \A g \in Guardians :
    /\ at[g] \in {"off", "sync", "start", "running"} => event[g] = NoEvent
    /\ at[g] \in {"list", "flush", "remove"} => event[g] \in arrived \cup {NoEvent}
    /\ at[g] = "remove" => Head(names[g]) \in arrived

\* EventsKept, of what is queued.
ReportKept ==
  \A e \in Diagnostics : kind[e] # "unused" => e \in arrived \/ e \in Queued \/ \E g \in Guardians : event[g] = e

Followed == ReportKept /\ Fresh /\ OneHand /\ Answered

\* What guardians have is diagnostics.
LEMMA ReportsOf ==
  ASSUME GuardianSound, NEW g \in Guardians
  PROVE  /\ names[g] \in Seq(Diagnostics) /\ Listed(g) \subseteq Diagnostics /\ Queued \subseteq Diagnostics
         /\ event[g] \in Diagnostics \cup {NoEvent} /\ NoEvent \notin Diagnostics
         /\ names[g] # <<>> => Head(names[g]) \in Listed(g) /\ Head(names[g]) \in Diagnostics
<1>1. /\ names[g] \in Seq(Diagnostics) /\ queue \in Seq(Diagnostics) /\ NoEvent \notin Diagnostics
      /\ event[g] \in Diagnostics \cup {NoEvent}
  BY DEF GuardianSound, Guard!TypeOK, Guard!GuardianAssumption
<1>2. ASSUME NEW s \in Seq(Diagnostics) PROVE Guard!ToSet(s) \subseteq Diagnostics
  BY DEF Guard!ToSet
<1>3. ASSUME names[g] # <<>> PROVE Head(names[g]) \in Listed(g) /\ Head(names[g]) \in Diagnostics
  <2>1. Head(names[g]) \in Diagnostics
    BY <1>1, <1>3
  <2> QED
    BY <1>1, <1>3, <2>1, QueueEnds DEF Listed
<1> QED
  BY <1>1, <1>2, <1>3 DEF Listed, Queued

\* A guardian that had nothing to report begins with a diagnostic that is free.
LEMMA ReportsFollowed ==
  ASSUME GuardianSound, Followed, NEW g \in Guardians, NEW last, Guard!Reports(g, last),
         at[g] \in {"off", "sync", "start", "running"}, UNCHANGED <<queue, names>>
  PROVE  Followed'
<1>1. /\ event[g] = NoEvent /\ NoEvent \notin Diagnostics /\ event \in [Guardians -> Diagnostics \cup {NoEvent}]
      /\ at' = [at EXCEPT ![g] = "post"] /\ at \in [Guardians -> Guard!Steps]
  BY DEF Followed, Answered, GuardianSound, Guard!TypeOK, Guard!GuardianAssumption, Guard!Reports, Guard!Goes
<1>2. Queued' = Queued /\ \A h \in Guardians : Listed(h)' = Listed(h)
  BY DEF Queued, Listed
<1>3. CASE event' = [event EXCEPT ![g] = NoEvent] /\ UNCHANGED <<kind, arrived>>
  <2>1. event' = event
    BY <1>1, <1>3
  <2>2. \A e : Guard!InHand(e)' = Guard!InHand(e)
    BY <2>1 DEF Guard!InHand
  <2>3. ReportKept' /\ Fresh' /\ OneHand'
    BY <1>2, <1>3, <2>1, <2>2 DEF Followed, ReportKept, Fresh, OneHand, Queued
  <2>4. Answered'
    BY <1>1, <1>3, <2>1 DEF Followed, Answered
  <2> QED
    BY <2>3, <2>4 DEF Followed
<1>4. ASSUME NEW e \in Diagnostics, NEW k \in {"plain", "poison"}, Guard!Free(e),
             event' = [event EXCEPT ![g] = e], kind' = [kind EXCEPT ![e] = k],
             arrived' = arrived \ {e}
      PROVE  Followed'
  <2>1. e \notin Queued /\ \A h \in Guardians : event[h] # e /\ e \notin Listed(h)
    BY <1>4 DEF Followed, Fresh, Guard!Free, Guard!InHand, Queued, Listed
  <2>2. /\ event'[g] = e /\ \A h \in Guardians : h # g => event'[h] = event[h]
        /\ kind'[e] = k /\ \A d \in Diagnostics : d # e => kind'[d] = kind[d]
        /\ at'[g] = "post" /\ \A h \in Guardians : h # g => at'[h] = at[h]
    BY <1>1, <1>4 DEF GuardianSound, Guard!TypeOK
  <2>3. ReportKept'
    <3> SUFFICES ASSUME NEW d \in Diagnostics, kind'[d] # "unused"
                 PROVE  d \in arrived' \/ d \in Queued' \/ \E h \in Guardians : event'[h] = d
      BY DEF ReportKept, Queued
    <3>1. CASE d = e
      BY <2>2, <3>1
    <3>2. CASE d # e
      BY <1>1, <1>2, <1>4, <2>2, <3>2 DEF Followed, ReportKept, Queued
    <3> QED
      BY <3>1, <3>2
  <2>4. Fresh'
    <3> SUFFICES ASSUME NEW d \in Diagnostics, kind'[d] = "unused"
                 PROVE  d \notin arrived' /\ d \notin Queued'
                        /\ \A h \in Guardians : event'[h] # d /\ d \notin Listed(h)'
      BY DEF Fresh, Guard!InHand, Listed
    <3>1. d # e /\ kind[d] = "unused"
      BY <1>4, <2>2
    <3> QED
      BY <1>2, <1>4, <2>2, <3>1 DEF Followed, Fresh, Guard!InHand, Listed
  <2>5. OneHand'
    BY <1>1, <1>2, <2>1, <2>2 DEF Followed, OneHand
  <2>6. Answered'
    <3> SUFFICES ASSUME NEW h \in Guardians, h # g
                 PROVE  /\ at[h] \in {"off", "sync", "start", "running"} => event[h] = NoEvent
                        /\ at[h] \in {"list", "flush", "remove"} => event[h] \in arrived' \cup {NoEvent}
                        /\ at[h] = "remove" => Head(names[h]) \in arrived'
      BY <2>2 DEF Answered
    <3>1. at[h] = "remove" => Head(names[h]) \in Listed(h)
      BY ReportsOf DEF GuardianSound
    <3> QED
      BY <1>4, <2>1, <3>1 DEF Followed, Answered
  <2> QED
    BY <2>3, <2>4, <2>5, <2>6 DEF Followed
<1> QED
  BY <1>3, <1>4, Zenon DEF Guard!Reports, Guard!diagnostics

\* A guardian has reported, and its diagnostic is in the queue or arrived.
LEMMA ReportedFollowed ==
  ASSUME GuardianSound, Followed, NEW g \in Guardians, Guard!Reported(g), UNCHANGED kind,
         arrived \subseteq arrived', \A e \in arrived' : kind[e] # "unused",
         Queued \subseteq Queued', Queued' \subseteq Queued \cup ({event[g]} \ {NoEvent}),
         event[g] \in arrived' \cup Queued' \cup {NoEvent}
  PROVE  Followed'
<1>1. /\ event'[g] = NoEvent /\ \A h \in Guardians : h # g => event'[h] = event[h]
      /\ at'[g] \in {"off", "start"} /\ \A h \in Guardians : h # g => at'[h] = at[h]
      /\ names'[g] = <<>> /\ \A h \in Guardians : h # g => names'[h] = names[h]
      /\ NoEvent \notin Diagnostics
  BY DEF Guard!Reported, Guard!Goes, GuardianSound, Guard!TypeOK, Guard!GuardianAssumption
<1>2. Listed(g)' = {} /\ \A h \in Guardians : h # g => Listed(h)' = Listed(h)
  BY <1>1 DEF Listed, Guard!ToSet
<1>3. ReportKept'
  <2> SUFFICES ASSUME NEW d \in Diagnostics, kind[d] # "unused"
               PROVE  d \in arrived' \/ d \in Queued' \/ \E h \in Guardians : event'[h] = d
    BY DEF ReportKept, Queued
  <2>1. d \in arrived \/ d \in Queued \/ \E h \in Guardians : event[h] = d
    BY DEF Followed, ReportKept, Queued
  <2> QED
    BY <1>1, <2>1
<1>4. Fresh'
  <2> SUFFICES ASSUME NEW d \in Diagnostics, kind[d] = "unused"
               PROVE  d \notin arrived' /\ d \notin Queued'
                      /\ \A h \in Guardians : event'[h] # d /\ d \notin Listed(h)'
    BY DEF Fresh, Guard!InHand, Listed
  <2>1. d \notin arrived' /\ d \notin Queued /\ \A h \in Guardians : event[h] # d /\ d \notin Listed(h)
    BY DEF Followed, Fresh, Guard!InHand, Listed
  <2> QED
    BY <1>1, <1>2, <2>1
<1>5. OneHand'
  BY <1>1, <1>2 DEF Followed, OneHand
<1>6. Answered'
  <2> SUFFICES ASSUME NEW h \in Guardians
               PROVE  /\ at'[h] \in {"off", "sync", "start", "running"} => event'[h] = NoEvent
                      /\ at'[h] \in {"list", "flush", "remove"} => event'[h] \in arrived' \cup {NoEvent}
                      /\ at'[h] = "remove" => Head(names'[h]) \in arrived'
    BY DEF Answered
  <2> QED
    BY <1>1 DEF Followed, Answered
<1> QED
  BY <1>3, <1>4, <1>5, <1>6 DEF Followed

\* A guardian goes on with the same diagnostic and the same files.
LEMMA GoesFollowed ==
  ASSUME GuardianSound, Followed, NEW g \in Guardians, NEW step, Guard!Goes(g, step),
         UNCHANGED <<kind, queue, event, names>>,
         arrived \subseteq arrived', \A e \in arrived' : kind[e] # "unused",
         step \in {"off", "sync", "start", "running"} => event[g] = NoEvent,
         step \in {"list", "flush", "remove"} => event[g] \in arrived' \cup {NoEvent},
         step = "remove" => Head(names[g]) \in arrived'
  PROVE  Followed'
<1>1. at'[g] = step /\ \A h \in Guardians : h # g => at'[h] = at[h]
  BY DEF Guard!Goes, GuardianSound, Guard!TypeOK
<1>2. /\ Queued' = Queued /\ \A h \in Guardians : Listed(h)' = Listed(h)
      /\ \A e : Guard!InHand(e)' = Guard!InHand(e)
  BY DEF Queued, Listed, Guard!InHand
<1>3. ReportKept' /\ Fresh' /\ OneHand'
  BY <1>2 DEF Followed, ReportKept, Fresh, OneHand, Queued
<1>4. Answered'
  BY <1>1 DEF Followed, Answered
<1> QED
  BY <1>3, <1>4 DEF Followed

\* What arrives was reported.
LEMMA IngestKnown ==
  ASSUME GuardianSound, Followed, NEW g \in Guardians, NEW e, Guard!Ingest(e),
         \/ e = event[g]
         \/ names[g] # <<>> /\ e = Head(names[g])
  PROVE  /\ arrived \subseteq arrived' /\ arrived' = arrived \cup ({e} \ {NoEvent})
         /\ \A d \in arrived' : kind[d] # "unused"
<1>1. e \in Diagnostics => kind[e] # "unused"
  BY ReportsOf DEF Followed, Fresh, Guard!InHand, Listed
<1>2. e \in Diagnostics \cup {NoEvent}
  BY ReportsOf
<1>3. \A d \in arrived : kind[d] # "unused"
  BY DEF Followed, Fresh, GuardianSound, Guard!TypeOK
<1> QED
  BY <1>1, <1>2, <1>3 DEF Guard!Ingest

\* The report itself, and a report that is queued.
LEMMA PostFollowed ==
  ASSUME GuardianSound, Followed, NEW g \in Guardians,
         Guard!Post(g) \/ Guard!PostUnanswered(g) \/ Guard!Enqueue(g)
  PROVE  Followed'
<1>1. \A d \in arrived : kind[d] # "unused"
  BY DEF Followed, Fresh, GuardianSound, Guard!TypeOK
<1>2. ASSUME Guard!Ingest(event[g]), NEW step \in {"list", "enqueue"}, Guard!Goes(g, step),
             UNCHANGED <<kind, queue, event, names>>
      PROVE  Followed'
  <2>1. /\ arrived \subseteq arrived' /\ arrived' = arrived \cup ({event[g]} \ {NoEvent})
        /\ \A d \in arrived' : kind[d] # "unused"
    BY <1>2, IngestKnown
  <2> QED
    BY <1>2, <2>1, GoesFollowed
<1>3. CASE Guard!Post(g)
  <2>1. CASE UNCHANGED arrived /\ Guard!Goes(g, "enqueue")
    BY <1>1, <1>3, <2>1, GoesFollowed DEF Guard!Post
  <2>2. CASE Guard!Ingest(event[g]) /\ Guard!Goes(g, "list")
    BY <1>2, <1>3, <2>2 DEF Guard!Post
  <2> QED
    BY <1>3, <2>1, <2>2 DEF Guard!Post
<1>4. CASE Guard!PostUnanswered(g)
  BY <1>2, <1>4 DEF Guard!PostUnanswered
<1>5. CASE Guard!Enqueue(g)
  <2>1. Guard!Reported(g) /\ UNCHANGED kind /\ arrived' = arrived
    BY <1>5 DEF Guard!Enqueue, Guard!diagnostics
  <2>2. Queued \subseteq Queued' /\ Queued' = Queued \cup ({event[g]} \ {NoEvent})
    <3>1. CASE event[g] = NoEvent
      BY <1>5, <3>1 DEF Guard!Enqueue, Queued
    <3>2. CASE event[g] # NoEvent
      <4>1. event[g] \in Diagnostics /\ queue \in Seq(Diagnostics) /\ queue' = Append(queue, event[g])
        BY <1>5, <3>2, ReportsOf DEF Guard!Enqueue, GuardianSound, Guard!TypeOK
      <4> QED
        BY <3>2, <4>1, QueueEnds DEF Queued
    <3> QED
      BY <3>1, <3>2
  <2> QED
    BY <1>1, <2>1, <2>2, ReportedFollowed
<1> QED
  BY <1>3, <1>4, <1>5

\* The list of a flush has queued diagnostics only.
LEMMA ListFollowed ==
  ASSUME GuardianSound, Followed, NEW g \in Guardians, Guard!ListQueue(g)
  PROVE  Followed'
<1>1. /\ at[g] = "list" /\ at'[g] = "flush" /\ \A h \in Guardians : h # g => at'[h] = at[h]
      /\ names'[g] = Guard!FirstOf(FlushLimit, queue)
      /\ \A h \in Guardians : h # g => names'[h] = names[h]
      /\ UNCHANGED <<queue, event, kind, arrived>>
  BY DEF Guard!ListQueue, Guard!Goes, Guard!diagnostics, GuardianSound, Guard!TypeOK
<1>2. Listed(g)' \subseteq Queued /\ Queued' = Queued /\ \A h \in Guardians : h # g => Listed(h)' = Listed(h)
  <2>1. queue \in Seq(Diagnostics) /\ FlushLimit \in Nat
    BY DEF GuardianSound, Guard!TypeOK, Guard!GuardianAssumption
  <2> QED
    BY <1>1, <2>1, FirstOfQueue DEF Queued, Listed
<1>3. ReportKept'
  BY <1>1, <1>2 DEF Followed, ReportKept
<1>4. Fresh'
  <2> SUFFICES ASSUME NEW d \in Diagnostics, kind[d] = "unused"
               PROVE  d \notin arrived /\ d \notin Queued
                      /\ \A h \in Guardians : event[h] # d /\ d \notin Listed(h)'
    BY <1>1, <1>2 DEF Fresh, Guard!InHand, Listed
  <2> QED
    BY <1>2 DEF Followed, Fresh, Guard!InHand, Listed
<1>5. OneHand' /\ Answered'
  BY <1>1, <1>2 DEF Followed, OneHand, Answered
<1> QED
  BY <1>3, <1>4, <1>5 DEF Followed

\* A queued diagnostic is sent, and the flush goes on or ends.
LEMMA FlushFollowed ==
  ASSUME GuardianSound, Followed, NEW g \in Guardians, Guard!FlushPost(g) \/ Guard!FlushUnanswered(g)
  PROVE  Followed'
<1>1. /\ at[g] = "flush" /\ event[g] \in arrived \cup {NoEvent} /\ UNCHANGED <<queue, kind>>
      /\ \A d \in arrived : kind[d] # "unused"
  BY DEF Guard!FlushPost, Guard!FlushUnanswered, Followed, Answered, Fresh, GuardianSound, Guard!TypeOK
<1>2. Queued' = Queued
  BY <1>1 DEF Queued
<1>3. ASSUME names[g] # <<>>, Guard!Ingest(Head(names[g]))
      PROVE  /\ arrived \subseteq arrived' /\ Head(names[g]) \in arrived'
             /\ \A d \in arrived' : kind[d] # "unused"
  <2>1. Head(names[g]) \in Diagnostics /\ NoEvent \notin Diagnostics
    BY <1>3, ReportsOf
  <2> QED
    BY <1>3, <2>1, IngestKnown
<1>4. CASE Guard!Reported(g) /\ UNCHANGED arrived
  BY <1>1, <1>2, <1>4, ReportedFollowed
<1>5. CASE Guard!Reported(g) /\ names[g] # <<>> /\ Guard!Ingest(Head(names[g]))
  BY <1>1, <1>2, <1>3, <1>5, ReportedFollowed
<1>6. CASE /\ names[g] # <<>> /\ Guard!Ingest(Head(names[g])) /\ Guard!Goes(g, "remove")
           /\ UNCHANGED <<failures, event, names, ends>>
  BY <1>1, <1>3, <1>6, GoesFollowed
<1> QED
  BY <1>4, <1>5, <1>6 DEF Guard!FlushPost, Guard!FlushUnanswered

\* The file goes of what arrived.
LEMMA RemoveFollowed ==
  ASSUME GuardianSound, Followed, NEW g \in Guardians, Guard!FlushRemove(g)
  PROVE  Followed'
<1> DEFINE e == Head(names[g])
<1>1. /\ at[g] = "remove" /\ at'[g] = "flush" /\ \A h \in Guardians : h # g => at'[h] = at[h]
      /\ names'[g] = Tail(names[g]) /\ \A h \in Guardians : h # g => names'[h] = names[h]
      /\ queue' = Guard!Without(queue, e) /\ UNCHANGED <<event, kind, arrived>>
  BY DEF Guard!FlushRemove, Guard!Goes, Guard!diagnostics, GuardianSound, Guard!TypeOK
<1>2. names[g] # <<>> /\ names[g] \in Seq(Diagnostics) /\ queue \in Seq(Diagnostics) /\ e \in arrived /\ e \in Diagnostics
  BY <1>1, ReportsOf DEF GuardianSound, Guard!TypeOK, Followed, Answered
<1> HIDE DEF e
<1>3. Queued' \subseteq Queued /\ Queued \subseteq Queued' \cup {e}
  BY <1>1, <1>2, LeftInQueue DEF Queued
<1>4. \A h \in Guardians : Listed(h)' \subseteq Listed(h)
  <2>1. Listed(g)' \subseteq Listed(g)
    BY <1>1, <1>2, QueueEnds DEF Listed
  <2> QED
    BY <1>1, <2>1 DEF Listed
<1>5. ReportKept'
  BY <1>1, <1>2, <1>3 DEF Followed, ReportKept, Queued
<1>6. Fresh'
  <2> SUFFICES ASSUME NEW d \in Diagnostics, kind[d] = "unused"
               PROVE  d \notin arrived /\ d \notin Queued'
                      /\ \A h \in Guardians : event[h] # d /\ d \notin Listed(h)'
    BY <1>1 DEF Fresh, Guard!InHand, Listed
  <2> QED
    BY <1>3, <1>4 DEF Followed, Fresh, Guard!InHand, Listed
<1>7. OneHand' /\ Answered'
  BY <1>1, <1>3, <1>4 DEF Followed, OneHand, Answered
<1> QED
  BY <1>5, <1>6, <1>7 DEF Followed

\* With the process goes what it had in hand, if it had neither arrived nor
\* been queued.
LEMMA KilledFollowed ==
  ASSUME GuardianSound, Followed, NEW g \in Guardians, Guard!Killed(g)
  PROVE  Followed'
<1>1. /\ at'[g] = "off" /\ \A h \in Guardians : h # g => at'[h] = at[h]
      /\ event'[g] = NoEvent /\ \A h \in Guardians : h # g => event'[h] = event[h]
      /\ names'[g] = <<>> /\ \A h \in Guardians : h # g => names'[h] = names[h]
      /\ \A d \in Diagnostics : kind'[d] = IF d = event[g] /\ d \notin arrived THEN "unused" ELSE kind[d]
      /\ UNCHANGED <<queue, arrived>> /\ NoEvent \notin Diagnostics
  BY DEF Guard!Killed, Guard!Goes, GuardianSound, Guard!TypeOK, Guard!GuardianAssumption
<1>2. /\ Queued' = Queued /\ Listed(g)' = {}
      /\ \A h \in Guardians : h # g => Listed(h)' = Listed(h)
  BY <1>1 DEF Queued, Listed, Guard!ToSet
<1>3. ReportKept'
  <2> SUFFICES ASSUME NEW d \in Diagnostics, kind'[d] # "unused"
               PROVE  d \in arrived \/ d \in Queued \/ \E h \in Guardians : event'[h] = d
    BY <1>1 DEF ReportKept, Queued
  <2>1. kind[d] # "unused" /\ (d # event[g] \/ d \in arrived)
    BY <1>1
  <2>2. d \in arrived \/ d \in Queued \/ \E h \in Guardians : event[h] = d
    BY <2>1 DEF Followed, ReportKept, Queued
  <2> QED
    BY <1>1, <2>1, <2>2
<1>4. Fresh'
  <2> SUFFICES ASSUME NEW d \in Diagnostics, kind'[d] = "unused"
               PROVE  d \notin arrived /\ d \notin Queued
                      /\ \A h \in Guardians : event'[h] # d /\ d \notin Listed(h)'
    BY <1>1 DEF Fresh, Guard!InHand, Listed, Queued
  <2>1. CASE kind[d] = "unused"
    BY <1>1, <1>2, <2>1 DEF Followed, Fresh, Guard!InHand, Listed
  <2>2. CASE d = event[g] /\ d \notin arrived
    BY <1>1, <1>2, <2>2 DEF Followed, OneHand
  <2> QED
    BY <1>1, <2>1, <2>2
<1>5. OneHand' /\ Answered'
  BY <1>1, <1>2 DEF Followed, OneHand, Answered
<1> QED
  BY <1>3, <1>4, <1>5 DEF Followed

\* Every step follows what was reported.
LEMMA GuardianFollows ==
  ASSUME GuardianSound, Followed, [Guard!Next]_(Guard!vars)
  PROVE  Followed'
<1>1. \A d \in arrived : kind[d] # "unused"
  BY DEF Followed, Fresh, GuardianSound, Guard!TypeOK
<1>2. ASSUME NEW g \in Guardians,
             \/ Guard!StartOpen(g) \/ Guard!SyncFails(g) \/ Guard!LaunchFails(g) \/ Guard!GameExits(g)
      PROVE  Followed'
  BY <1>2, ReportsFollowed
     DEF Guard!StartOpen, Guard!SyncFails, Guard!SyncThrows, Guard!LaunchFails, Guard!GameExits
<1>3. ASSUME NEW g \in Guardians, Guard!StartSync(g) \/ Guard!SyncSucceeds(g) \/ Guard!Launch(g)
      PROVE  Followed'
  <2>1. event[g] = NoEvent /\ UNCHANGED <<kind, arrived, queue, event, names>>
        /\ \E step \in {"sync", "start", "running"} : Guard!Goes(g, step)
    BY <1>3 DEF Guard!StartSync, Guard!SyncSucceeds, Guard!Launch, Guard!diagnostics, Followed, Answered
  <2> QED
    BY <1>1, <2>1, GoesFollowed
<1>4. CASE Guard!Outage \/ Guard!Recovery \/ Guard!Tick \/ UNCHANGED Guard!vars
  <2>1. UNCHANGED <<at, event, names, queue, kind, arrived>>
    BY <1>4 DEF Guard!Outage, Guard!Recovery, Guard!Tick, Guard!vars, Guard!process, Guard!diagnostics
  <2>2. /\ Queued' = Queued /\ \A h : Listed(h)' = Listed(h)
        /\ \A d : Guard!InHand(d)' = Guard!InHand(d)
    BY <2>1 DEF Queued, Listed, Guard!InHand
  <2> QED
    BY <2>1, <2>2 DEF Followed, ReportKept, Fresh, OneHand, Answered, Queued
<1> QED
  BY <1>2, <1>3, <1>4, PostFollowed, ListFollowed, FlushFollowed, RemoveFollowed, KilledFollowed, Zenon
     DEF Guard!Next, Guard!GuardianStep, Guard!Start, Guard!Reporting

\* At first nothing was reported.
LEMMA FollowedInit ==
  ASSUME Guard!GuardianAssumption, Guard!Init
  PROVE  GuardianSound /\ Followed
<1>1. GuardianSound
  BY GuardianInit DEF GuardianSound, Guard!Init
<1>2. Queued = {} /\ \A g \in Guardians : Listed(g) = {} /\ event[g] = NoEvent /\ at[g] = "off"
  BY DEF Guard!Init, Queued, Listed, Guard!ToSet
<1>3. NoEvent \notin Diagnostics /\ arrived = {} /\ \A e \in Diagnostics : kind[e] = "unused"
  BY DEF Guard!Init, Guard!GuardianAssumption
<1>4. ReportKept /\ Fresh
  BY <1>2, <1>3 DEF ReportKept, Fresh, Guard!InHand, Listed
<1>5. OneHand /\ Answered
  BY <1>2 DEF OneHand, Answered
<1> QED
  BY <1>1, <1>4, <1>5 DEF Followed

\* The guardians of a server are well typed at every step.
THEOREM GuardianIsTyped ==
  ASSUME Guard!GuardianAssumption
  PROVE  Guard!Spec => []Guard!TypeOK
<1>1. Guard!Init => GuardianSound
  BY FollowedInit
<1>2. GuardianSound /\ [Guard!Next]_(Guard!vars) => GuardianSound'
  BY GuardianStep
<1>3. GuardianSound => Guard!TypeOK
  BY DEF GuardianSound
<1> QED
  BY <1>1, <1>2, <1>3, PTL DEF Guard!Spec

\* No diagnostic is lost between requests, the queue and flushes
\* (diagnostics-queue.js), for any guardians of one folder.
THEOREM ReportsCorrect ==
  ASSUME Guard!GuardianAssumption
  PROVE  Guard!Spec => []EventsKept
<1>1. Guard!Init => GuardianSound /\ Followed
  BY FollowedInit
<1>2. GuardianSound /\ Followed /\ [Guard!Next]_(Guard!vars) => GuardianSound' /\ Followed'
  BY GuardianStep, GuardianFollows
<1>3. GuardianSound /\ Followed => EventsKept
  BY ZenonT(60) DEF GuardianSound, Guard!TypeOK, Followed, ReportKept, EventsKept, Queued, Guard!ToSet
<1> QED
  BY <1>1, <1>2, <1>3, PTL DEF Guard!Spec

=============================================================================
