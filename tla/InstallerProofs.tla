-------------------------- MODULE InstallerProofs --------------------------
(***************************************************************************)
(* Theorems about the install transaction, for every set of roots,         *)
(* contents and releases and any number of interruptions.  Each invariant  *)
(* rests on the ones before it.  And theorems about the archives that it   *)
(* unpacks: for every folder, in whatever order its files are written.     *)
(***************************************************************************)
EXTENDS Installer, Archives, TLAPS, SequenceTheorems, FiniteSetTheorems, WellFoundedInduction

(***************************************************************************)
(* Types.                                                                  *)
(***************************************************************************)
\* The empty directory, state file and transaction have the right types.
LEMMA NothingTyped ==
  /\ Nothing \in [Roots -> Folder] /\ Nothing \in [Roots -> Entry]
  /\ NoItems \in Items
BY DEF Nothing, NoItems, Items, Folder, Entry

\* A fresh machine is well typed.
LEMMA TypeInit == Init => TypeOK
<1>1. Init => force \in BOOLEAN /\ forced \in BOOLEAN
  BY Zenon DEF Init
<1>2. Init => staged \subseteq Roots /\ todo \subseteq Roots
              /\ moved \subseteq Roots /\ touched \subseteq Roots
  BY DEF Init
<1> QED
  BY <1>1, <1>2, NothingTyped DEF Init, TypeOK, Phases, Outcomes

\* Every step of updater and environment keeps the types.
LEMMA TypeStep == TypeOK /\ [Next]_vars => TypeOK'
<1> SUFFICES ASSUME TypeOK, [Next]_vars PROVE TypeOK'
  OBVIOUS
<1> USE InstallerAssumption DEF TypeOK, Phases, Outcomes, files, records, volatile, history
<1>1. CASE StartClean
  BY <1>1 DEF StartClean
<1>2. CASE StartRecovery
  BY <1>2 DEF StartRecovery, Journal, Items
<1>3. CASE SyncRefused
  BY <1>3 DEF SyncRefused
<1>4. ASSUME NEW m \in Manifests, NEW f \in ForceFlags, Plan(m, f) PROVE TypeOK'
  BY <1>4, NothingTyped DEF Plan, ForceFlags
<1>5. CASE Stage
  BY <1>5 DEF Stage, Desired
<1>6. CASE WriteJournal
  <2>1. items' \in Items /\ txnFile' \in Journal /\ todo' \subseteq Roots
    BY <1>6 DEF WriteJournal, Items, Journal, Unwanted
  <2> QED
    BY <1>6, <2>1 DEF WriteJournal
<1>7. CASE SaveState
  BY <1>7 DEF SaveState
<1>8. CASE Commit
  BY <1>8 DEF Commit, Journal
<1>9. CASE RemoveJournal
  BY <1>9 DEF RemoveJournal
<1>10. CASE Prune
  BY <1>10 DEF Prune
<1>11. ASSUME NEW r \in Roots, KeepRoot(r) PROVE TypeOK'
  BY <1>11 DEF KeepRoot
<1>12. ASSUME NEW r \in Roots, QueueInstall(r) PROVE TypeOK'
  BY <1>12 DEF QueueInstall, Items
<1>13. ASSUME NEW r \in Roots, RefuseRoot(r) PROVE TypeOK'
  BY <1>13 DEF RefuseRoot, Items
<1>14. ASSUME NEW r \in Roots, MoveOut(r) PROVE TypeOK'
  BY <1>14 DEF MoveOut, Folder
<1>15. ASSUME NEW r \in Roots, MoveIn(r) PROVE TypeOK'
  BY <1>15 DEF MoveIn, Folder, Entry
<1>16. ASSUME NEW r \in Roots, MoveRemoved(r) PROVE TypeOK'
  BY <1>16 DEF MoveRemoved, Folder, Entry
<1>17. ASSUME NEW r \in Roots, UndoRemove(r) PROVE TypeOK'
  BY <1>17 DEF UndoRemove, Folder
<1>18. ASSUME NEW r \in Roots, UndoRestore(r) PROVE TypeOK'
  BY <1>18 DEF UndoRestore, Folder
<1>19. CASE RollbackDone
  BY <1>19 DEF RollbackDone
<1>20. CASE RecoverDone
  BY <1>20 DEF RecoverDone
<1>21. CASE Fail
  BY <1>21 DEF Fail, Items
<1>22. CASE Crash
  <2>1. force' \in BOOLEAN
    BY <1>22, Zenon DEF Crash
  <2> QED
    BY <1>22, <2>1, NothingTyped DEF Crash
<1>23. ASSUME NEW r \in Roots, PlayerAdds(r) PROVE TypeOK'
  BY <1>23 DEF PlayerAdds, Folder
<1>24. ASSUME NEW r \in Roots, PlayerDeletes(r) PROVE TypeOK'
  BY <1>24 DEF PlayerDeletes, Folder
<1>25. CASE UNCHANGED vars
  BY <1>25 DEF vars
<1> QED
  BY <1>1, <1>2, <1>3, <1>4, <1>5, <1>6, <1>7, <1>8, <1>9, <1>10, <1>11, <1>12,
     <1>13, <1>14, <1>15, <1>16, <1>17, <1>18, <1>19, <1>20, <1>21, <1>22, <1>23,
     <1>24, <1>25
     DEF Next, Installs

\* The variables keep their types.
THEOREM TypeCorrect == Spec => []TypeOK
BY TypeInit, TypeStep, PTL DEF Spec

(***************************************************************************)
(* Where the process is, and what the journal holds there.                 *)
(***************************************************************************)
PhaseInv ==
  /\ outcome = "running" <=> pc \in {"stage", "queue", "apply", "commit", "clean"}
  /\ pc \in {"fetch", "stage", "queue", "prune"} => txnFile = None
  /\ pc = "stage" => items = NoItems
  /\ pc \in {"apply", "commit", "clean", "recover"} =>
       txnFile # None /\ txnFile.items = items
  /\ pc = "rollback" => outcome = "failed"
  /\ pc \in {"apply", "rollback", "recover"} => todo \subseteq items.roots
  /\ cur # None => pc \in {"apply", "rollback", "recover"} /\ cur \in todo

\* A transaction record is never the absent file, and its fields read back.
LEMMA JournalRecord ==
  ASSUME NEW i \in Items, NEW c \in BOOLEAN
  PROVE  LET j == [items |-> i, committed |-> c] IN j # None /\ j.items = i
<1> DEFINE j == [items |-> i, committed |-> c]
<1>1. j \in Journal
  BY DEF Journal
<1>2. j.items = i
  OBVIOUS
<1> QED
  BY <1>1, <1>2, InstallerAssumption

\* Every step keeps phase, loop position and journal in agreement.
LEMMA PhaseStep == TypeOK /\ PhaseInv /\ [Next]_vars => PhaseInv'
<1> SUFFICES ASSUME TypeOK, PhaseInv, [Next]_vars PROVE PhaseInv'
  OBVIOUS
<1> USE InstallerAssumption
    DEF TypeOK, PhaseInv, Phases, Journal, Items, files, records, volatile, history
<1>1. CASE StartClean
  BY <1>1 DEF StartClean
<1>2. CASE StartRecovery
  BY <1>2 DEF StartRecovery
<1>3. CASE SyncRefused
  BY <1>3 DEF SyncRefused
<1>4. ASSUME NEW m \in Manifests, NEW f \in ForceFlags, Plan(m, f) PROVE PhaseInv'
  BY <1>4 DEF Plan
<1>5. CASE Stage
  BY <1>5 DEF Stage
<1>6. CASE WriteJournal
  <2>1. PICK all \in Items : items' = all /\ txnFile' = [items |-> all, committed |-> FALSE]
                             /\ todo' = all.roots
    BY <1>6 DEF WriteJournal, Unwanted
  <2> QED
    BY <1>6, <2>1, JournalRecord DEF WriteJournal
<1>7. CASE SaveState
  BY <1>7 DEF SaveState
<1>8. CASE Commit
  <2>1. txnFile' # None /\ txnFile'.items = items
    BY <1>8, JournalRecord DEF Commit
  <2> QED
    BY <1>8, <2>1 DEF Commit
<1>9. CASE RemoveJournal
  BY <1>9 DEF RemoveJournal
<1>10. CASE Prune
  BY <1>10 DEF Prune
<1>11. ASSUME NEW r \in Roots, KeepRoot(r) PROVE PhaseInv'
  BY <1>11 DEF KeepRoot
<1>12. ASSUME NEW r \in Roots, QueueInstall(r) PROVE PhaseInv'
  BY <1>12 DEF QueueInstall
<1>13. ASSUME NEW r \in Roots, RefuseRoot(r) PROVE PhaseInv'
  BY <1>13 DEF RefuseRoot
<1>14. ASSUME NEW r \in Roots, MoveOut(r) PROVE PhaseInv'
  BY <1>14 DEF MoveOut
<1>15. ASSUME NEW r \in Roots, MoveIn(r) PROVE PhaseInv'
  BY <1>15 DEF MoveIn
<1>16. ASSUME NEW r \in Roots, MoveRemoved(r) PROVE PhaseInv'
  BY <1>16 DEF MoveRemoved
<1>17. ASSUME NEW r \in Roots, UndoRemove(r) PROVE PhaseInv'
  BY <1>17 DEF UndoRemove
<1>18. ASSUME NEW r \in Roots, UndoRestore(r) PROVE PhaseInv'
  BY <1>18 DEF UndoRestore
<1>19. CASE RollbackDone
  BY <1>19 DEF RollbackDone
<1>20. CASE RecoverDone
  BY <1>20 DEF RecoverDone
<1>21. CASE Fail
  BY <1>21 DEF Fail
<1>22. CASE Crash
  BY <1>22 DEF Crash
<1>23. ASSUME NEW r \in Roots, PlayerAdds(r) PROVE PhaseInv'
  BY <1>23 DEF PlayerAdds
<1>24. ASSUME NEW r \in Roots, PlayerDeletes(r) PROVE PhaseInv'
  BY <1>24 DEF PlayerDeletes
<1>25. CASE UNCHANGED vars
  BY <1>25 DEF vars
<1> QED
  BY <1>1, <1>2, <1>3, <1>4, <1>5, <1>6, <1>7, <1>8, <1>9, <1>10, <1>11,
     <1>12, <1>13, <1>14, <1>15, <1>16, <1>17, <1>18, <1>19, <1>20, <1>21,
     <1>22, <1>23, <1>24, <1>25
     DEF Next, Installs

\* Where the process stands always agrees with its loop variables and with the
\* transaction file it has written.
THEOREM PhaseCorrect == Spec => []PhaseInv
<1>1. Init => PhaseInv
  BY DEF Init, PhaseInv
<1> QED
  BY <1>1, PhaseStep, TypeCorrect, PTL DEF Spec

(***************************************************************************)
(* What has moved is in the journal.  The middle conjuncts say that an     *)
(* item, once queued, is marked hadTarget if its root held something.      *)
(***************************************************************************)
MovesInv ==
  /\ pc \in {"stage", "queue"} => disk = orig
  /\ pc = "queue" => \A r \in items.roots : orig[r] # None => r \in items.had
  /\ outcome \in {"running", "crashed"} /\ txnFile # None =>
       \A r \in txnFile.items.roots : orig[r] # None => r \in txnFile.items.had
  /\ JournalCoversMoves

\* A step may change the folder of a root that is in the journal.
LEMMA JournaledMove ==
  ASSUME TypeOK, MovesInv, NEW r \in Roots,
         txnFile # None, r \in txnFile.items.roots,
         UNCHANGED <<txnFile, orig, outcome>>, pc' \notin {"stage", "queue"},
         \A q \in Roots \ {r} : disk'[q] = disk[q]
  PROVE  MovesInv'
BY DEF MovesInv, JournalCoversMoves

\* Every step keeps the write-ahead invariant, if nobody edits a folder while
\* an interrupted transaction is pending.
LEMMA MovesStep ==
  ASSUME "late" \notin Events
  PROVE  TypeOK /\ PhaseInv /\ MovesInv /\ [Next]_vars => MovesInv'
<1> SUFFICES ASSUME "late" \notin Events, TypeOK, PhaseInv, MovesInv, [Next]_vars
             PROVE  MovesInv'
  OBVIOUS
<1> USE InstallerAssumption
    DEF TypeOK, PhaseInv, MovesInv, JournalCoversMoves, Journal, Items, Phases,
        files, records, volatile, history
<1>1. CASE StartClean
  BY <1>1 DEF StartClean
<1>2. CASE StartRecovery
  BY <1>2 DEF StartRecovery
<1>3. CASE SyncRefused
  BY <1>3 DEF SyncRefused
<1>4. ASSUME NEW m \in Manifests, NEW f \in ForceFlags, Plan(m, f) PROVE MovesInv'
  BY <1>4 DEF Plan, NoItems
<1>5. CASE Stage
  BY <1>5 DEF Stage, NoItems
<1>6. CASE WriteJournal
  BY <1>6 DEF WriteJournal, HadTarget, Unwanted
<1>7. CASE SaveState
  BY <1>7 DEF SaveState
<1>8. CASE Commit
  <2>1. txnFile # None /\ txnFile.items = items
    BY <1>8 DEF Commit
  <2>2. txnFile' # None /\ txnFile'.items = txnFile.items
    BY <1>8, <2>1, JournalRecord DEF Commit
  <2>3. UNCHANGED <<disk, orig, outcome>> /\ pc' = "clean"
    BY <1>8 DEF Commit
  <2> HIDE DEF PhaseInv, TypeOK
  <2> QED
    BY <2>1, <2>2, <2>3
<1>9. CASE RemoveJournal
  BY <1>9 DEF RemoveJournal
<1>10. CASE Prune
  BY <1>10 DEF Prune
<1>11. ASSUME NEW r \in Roots, KeepRoot(r) PROVE MovesInv'
  BY <1>11 DEF KeepRoot
<1>12. ASSUME NEW r \in Roots, QueueInstall(r) PROVE MovesInv'
  BY <1>12 DEF QueueInstall, HadTarget
<1>13. ASSUME NEW r \in Roots, RefuseRoot(r) PROVE MovesInv'
  BY <1>13 DEF RefuseRoot
<1>14. ASSUME NEW r \in Roots, MoveOut(r) PROVE MovesInv'
  <2>1. txnFile # None /\ r \in txnFile.items.roots
    BY <1>14 DEF MoveOut
  <2>2. \A q \in Roots \ {r} : disk'[q] = disk[q]
    BY <1>14 DEF MoveOut
  <2>3. UNCHANGED <<txnFile, orig, outcome>> /\ pc' \notin {"stage", "queue"}
    BY <1>14 DEF MoveOut
  <2> QED
    BY <2>1, <2>2, <2>3, JournaledMove
<1>15. ASSUME NEW r \in Roots, MoveIn(r) PROVE MovesInv'
  <2>1. txnFile # None /\ r \in txnFile.items.roots
    BY <1>15 DEF MoveIn
  <2>2. \A q \in Roots \ {r} : disk'[q] = disk[q]
    BY <1>15 DEF MoveIn
  <2>3. UNCHANGED <<txnFile, orig, outcome>> /\ pc' \notin {"stage", "queue"}
    BY <1>15 DEF MoveIn
  <2> QED
    BY <2>1, <2>2, <2>3, JournaledMove
<1>16. ASSUME NEW r \in Roots, MoveRemoved(r) PROVE MovesInv'
  <2>1. txnFile # None /\ r \in txnFile.items.roots
    BY <1>16 DEF MoveRemoved
  <2>2. \A q \in Roots \ {r} : disk'[q] = disk[q]
    BY <1>16 DEF MoveRemoved
  <2>3. UNCHANGED <<txnFile, orig, outcome>> /\ pc' \notin {"stage", "queue"}
    BY <1>16 DEF MoveRemoved
  <2> QED
    BY <2>1, <2>2, <2>3, JournaledMove
<1>17. ASSUME NEW r \in Roots, UndoRemove(r) PROVE MovesInv'
  <2>1. \A q \in Roots \ {r} : disk'[q] = disk[q]
    BY <1>17 DEF UndoRemove
  <2>2. UNCHANGED <<txnFile, orig, outcome>> /\ pc' \notin {"stage", "queue"}
    BY <1>17 DEF UndoRemove
  <2>3. CASE pc = "rollback"
    BY <2>2, <2>3
  <2>4. CASE pc = "recover"
    <3>1. txnFile # None /\ r \in txnFile.items.roots
      BY <1>17, <2>4 DEF UndoRemove
    <3> QED
      BY <3>1, <2>1, <2>2, JournaledMove
  <2> QED
    BY <1>17, <2>3, <2>4 DEF UndoRemove
<1>18. ASSUME NEW r \in Roots, UndoRestore(r) PROVE MovesInv'
  <2>1. \A q \in Roots \ {r} : disk'[q] = disk[q]
    BY <1>18 DEF UndoRestore
  <2>2. UNCHANGED <<txnFile, orig, outcome>> /\ pc' \notin {"stage", "queue"}
    BY <1>18 DEF UndoRestore
  <2>3. CASE pc = "rollback"
    BY <2>2, <2>3
  <2>4. CASE pc = "recover"
    <3>1. txnFile # None /\ r \in txnFile.items.roots
      BY <1>18, <2>4 DEF UndoRestore
    <3> QED
      BY <3>1, <2>1, <2>2, JournaledMove
  <2> QED
    BY <1>18, <2>3, <2>4 DEF UndoRestore
<1>19. CASE RollbackDone
  BY <1>19 DEF RollbackDone
<1>20. CASE RecoverDone
  BY <1>20 DEF RecoverDone
<1>21. CASE Fail
  BY <1>21 DEF Fail
<1>22. CASE Crash
  BY <1>22 DEF Crash, NoItems
<1>23. ASSUME NEW r \in Roots, PlayerAdds(r) PROVE MovesInv'
  BY <1>23 DEF PlayerAdds, PlayerMayEdit
<1>24. ASSUME NEW r \in Roots, PlayerDeletes(r) PROVE MovesInv'
  BY <1>24 DEF PlayerDeletes, PlayerMayEdit
<1>25. CASE UNCHANGED vars
  BY <1>25 DEF vars
<1> QED
  BY <1>1, <1>2, <1>3, <1>4, <1>5, <1>6, <1>7, <1>8, <1>9, <1>10, <1>11,
     <1>12, <1>13, <1>14, <1>15, <1>16, <1>17, <1>18, <1>19, <1>20, <1>21,
     <1>22, <1>23, <1>24, <1>25
     DEF Next, Installs

\* Recovery knows all it has to undo, if nobody edits a folder while an
\* interrupted transaction is pending.
THEOREM JournalCorrect ==
  ASSUME "late" \notin Events
  PROVE  Spec => []JournalCoversMoves
<1>1. Init => MovesInv
  BY DEF Init, MovesInv, JournalCoversMoves
<1>2. MovesInv => JournalCoversMoves
  BY DEF MovesInv
<1> QED
  BY <1>1, <1>2, MovesStep, TypeCorrect, PhaseCorrect, PTL DEF Spec

(***************************************************************************)
(* Without force no item, no backup and no record concerns a private       *)
(* folder.                                                                 *)
(***************************************************************************)
PrivateInv ==
  ~forced =>
    /\ ~force
    /\ \A r \in Roots : backup[r] # Private
    /\ \A r \in Roots : stateFile[r] # None => disk[r] # Private
    /\ pc \notin {"idle", "fetch"} => \A r \in items.roots : disk[r] # Private
    /\ pc \in {"stage", "queue", "apply", "commit"} =>
         \A r \in Roots : mem[r] # None => disk[r] # Private
    /\ txnFile # None => \A r \in txnFile.items.roots : disk[r] # Private

\* Every step keeps private folders out of the journal and out of state.json.
LEMMA PrivateStep ==
  ASSUME "late" \notin Events
  PROVE  TypeOK /\ PhaseInv /\ PrivateInv /\ [Next]_vars => PrivateInv'
<1> SUFFICES ASSUME "late" \notin Events, TypeOK, PhaseInv, PrivateInv, [Next]_vars
             PROVE  PrivateInv'
  OBVIOUS
<1>0. Private \notin Entry
  BY InstallerAssumption DEF Entry
<1> USE <1>0, InstallerAssumption
    DEF TypeOK, PhaseInv, PrivateInv, Journal, Items, Phases,
        files, records, volatile, history
<1>1. CASE StartClean
  BY <1>1 DEF StartClean
<1>2. CASE StartRecovery
  BY <1>2 DEF StartRecovery
<1>3. CASE SyncRefused
  BY <1>3 DEF SyncRefused
<1>4. ASSUME NEW m \in Manifests, NEW f \in ForceFlags, Plan(m, f) PROVE PrivateInv'
  BY <1>4 DEF Plan, NoItems, Nothing
<1>5. CASE Stage
  BY <1>5 DEF Stage, NoItems
<1>6. CASE WriteJournal
  BY <1>6 DEF WriteJournal, Unwanted
<1>7. CASE SaveState
  BY <1>7 DEF SaveState
<1>8. CASE Commit
  BY <1>8 DEF Commit
<1>9. CASE RemoveJournal
  BY <1>9 DEF RemoveJournal
<1>10. CASE Prune
  BY <1>10 DEF Prune
<1>11. ASSUME NEW r \in Roots, KeepRoot(r) PROVE PrivateInv'
  BY <1>11 DEF KeepRoot
<1>12. ASSUME NEW r \in Roots, QueueInstall(r) PROVE PrivateInv'
  BY <1>12 DEF QueueInstall, Refused
<1>13. ASSUME NEW r \in Roots, RefuseRoot(r) PROVE PrivateInv'
  BY <1>13 DEF RefuseRoot
<1>14. ASSUME NEW r \in Roots, MoveOut(r) PROVE PrivateInv'
  BY <1>14 DEF MoveOut
<1>15. ASSUME NEW r \in Roots, MoveIn(r) PROVE PrivateInv'
  BY <1>15 DEF MoveIn
<1>16. ASSUME NEW r \in Roots, MoveRemoved(r) PROVE PrivateInv'
  BY <1>16 DEF MoveRemoved
<1>17. ASSUME NEW r \in Roots, UndoRemove(r) PROVE PrivateInv'
  BY <1>17 DEF UndoRemove
<1>18. ASSUME NEW r \in Roots, UndoRestore(r) PROVE PrivateInv'
  BY <1>18 DEF UndoRestore
<1>19. CASE RollbackDone
  BY <1>19 DEF RollbackDone
<1>20. CASE RecoverDone
  BY <1>20 DEF RecoverDone
<1>21. CASE Fail
  BY <1>21 DEF Fail
<1>22. CASE Crash
  BY <1>22 DEF Crash, NoItems, Nothing
<1>23. ASSUME NEW r \in Roots, PlayerAdds(r) PROVE PrivateInv'
  BY <1>23 DEF PlayerAdds, PlayerMayEdit
<1>24. ASSUME NEW r \in Roots, PlayerDeletes(r) PROVE PrivateInv'
  BY <1>24 DEF PlayerDeletes, PlayerMayEdit
<1>25. CASE UNCHANGED vars
  BY <1>25 DEF vars
<1> QED
  BY <1>1, <1>2, <1>3, <1>4, <1>5, <1>6, <1>7, <1>8, <1>9, <1>10, <1>11,
     <1>12, <1>13, <1>14, <1>15, <1>16, <1>17, <1>18, <1>19, <1>20, <1>21,
     <1>22, <1>23, <1>24, <1>25
     DEF Next, Installs

\* As long as no sync was forced, no transaction on disk or in memory and no
\* state.json names a root that holds a private folder.
THEOREM PrivateInvariant ==
  ASSUME "late" \notin Events
  PROVE  Spec => []PrivateInv
<1>1. Init => PrivateInv
  BY InstallerAssumption DEF Init, PrivateInv, Nothing
<1> QED
  BY <1>1, PrivateStep, TypeCorrect, PhaseCorrect, PTL DEF Spec

\* Without force the updater never takes a private folder from its place, if
\* nobody edits a folder while an interrupted transaction is pending.
THEOREM PrivateCorrect ==
  ASSUME "late" \notin Events
  PROVE  Spec => PrivateKept
<1>1. ASSUME TypeOK, PhaseInv, PrivateInv, [Next]_vars, NEW q \in Roots,
             disk[q] = Private, disk'[q] # Private, pc # "idle", ~forced
      PROVE  FALSE
  <2> USE <1>1, InstallerAssumption
      DEF TypeOK, PhaseInv, PrivateInv, Items, files, records, volatile, history
  <2>1. PICK r \in Roots : MoveOut(r) \/ MoveIn(r) \/ MoveRemoved(r)
                           \/ UndoRemove(r) \/ UndoRestore(r)
    BY DEF Next, Installs, vars, StartClean, StartRecovery, SyncRefused, Plan,
       Stage, WriteJournal, SaveState, Commit, RemoveJournal, Prune, KeepRoot,
       QueueInstall, RefuseRoot, RollbackDone, RecoverDone, Fail, Crash,
       PlayerAdds, PlayerDeletes, PlayerMayEdit
  <2>2. q = r
    BY <2>1 DEF MoveOut, MoveIn, MoveRemoved, UndoRemove, UndoRestore
  <2>3. r \in items.roots /\ pc \notin {"idle", "fetch"}
    BY <2>1 DEF MoveOut, MoveIn, MoveRemoved, UndoRemove, UndoRestore
  <2> QED
    BY <2>2, <2>3
<1>2. TypeOK /\ PhaseInv /\ PrivateInv /\ [Next]_vars
      => [\A r \in Roots : disk[r] = Private /\ disk'[r] # Private
                            => pc = "idle" \/ forced]_vars
  BY <1>1
<1> QED
  BY <1>2, TypeCorrect, PhaseCorrect, PrivateInvariant, PTL DEF Spec, PrivateKept

(***************************************************************************)
(* The loops: what is queued, what is left to do, what is done.            *)
(***************************************************************************)
Recorded(r) == mem[r] # None /\ mem[r].sha = man[r].sha

LoopInv ==
  /\ pc = "stage" => mem = stateFile
  /\ pc = "queue" =>
       /\ mem = stateFile
       /\ todo \subseteq Desired
       /\ items.roots = items.inst /\ items.inst \subseteq Desired
       /\ \A r \in Desired : r \in todo \/ r \in items.inst \/ Recorded(r)
       /\ \A r \in items.roots : disk[r] # None => r \in items.had
  /\ pc \in {"apply", "commit", "clean", "prune"} =>
       /\ items.inst \subseteq Desired /\ items.inst \subseteq items.roots
       /\ \A r \in items.roots \ items.inst : man[r] = None
       /\ \A r \in Desired \ items.inst : Recorded(r)
  /\ pc = "apply" =>
       /\ \A r \in todo : disk[r] # None => r \in items.had
       /\ \A r \in Roots : man[r] = None /\ mem[r] # None
                             => r \in todo /\ r \notin items.inst
       /\ \A r \in items.inst \ todo : disk[r] = man[r] /\ mem[r] = man[r]
       /\ \A r \in (items.roots \ items.inst) \ todo : disk[r] = None
  /\ pc \in {"commit", "clean", "prune"} =>
       /\ stateFile = mem
       /\ \A r \in Roots : man[r] = None => mem[r] = None
       /\ \A r \in items.inst : disk[r] = man[r] /\ mem[r] = man[r]
       /\ \A r \in items.roots \ items.inst : disk[r] = None

\* Every step keeps the account of what the loops have already done.
LEMMA LoopStep == TypeOK /\ PhaseInv /\ LoopInv /\ [Next]_vars => LoopInv'
<1> SUFFICES ASSUME TypeOK, PhaseInv, LoopInv, [Next]_vars PROVE LoopInv'
  OBVIOUS
<1> USE InstallerAssumption
    DEF TypeOK, PhaseInv, LoopInv, Recorded, Desired, Journal, Items, Phases,
        files, records, volatile, history
<1>1. CASE StartClean
  BY <1>1 DEF StartClean
<1>2. CASE StartRecovery
  BY <1>2 DEF StartRecovery
<1>3. CASE SyncRefused
  BY <1>3 DEF SyncRefused
<1>4. ASSUME NEW m \in Manifests, NEW f \in ForceFlags, Plan(m, f) PROVE LoopInv'
  BY <1>4 DEF Plan, NoItems
<1>5. CASE Stage
  <2>1. items.roots = {} /\ items.inst = {}
    BY <1>5 DEF Stage, NoItems
  <2> QED
    BY <1>5, <2>1 DEF Stage
<1>6. CASE WriteJournal
  BY <1>6 DEF WriteJournal, HadTarget, Unwanted
<1>7. CASE SaveState
  BY <1>7 DEF SaveState
<1>8. CASE Commit
  BY <1>8 DEF Commit
<1>9. CASE RemoveJournal
  BY <1>9 DEF RemoveJournal
<1>10. CASE Prune
  BY <1>10 DEF Prune
<1>11. ASSUME NEW r \in Roots, KeepRoot(r) PROVE LoopInv'
  BY <1>11 DEF KeepRoot, SameArtifact
<1>12. ASSUME NEW r \in Roots, QueueInstall(r) PROVE LoopInv'
  BY <1>12 DEF QueueInstall, HadTarget
<1>13. ASSUME NEW r \in Roots, RefuseRoot(r) PROVE LoopInv'
  BY <1>13 DEF RefuseRoot
<1>14. ASSUME NEW r \in Roots, MoveOut(r) PROVE LoopInv'
  BY <1>14 DEF MoveOut
<1>15. ASSUME NEW r \in Roots, MoveIn(r) PROVE LoopInv'
  BY <1>15 DEF MoveIn
<1>16. ASSUME NEW r \in Roots, MoveRemoved(r) PROVE LoopInv'
  BY <1>16 DEF MoveRemoved
<1>17. ASSUME NEW r \in Roots, UndoRemove(r) PROVE LoopInv'
  BY <1>17 DEF UndoRemove
<1>18. ASSUME NEW r \in Roots, UndoRestore(r) PROVE LoopInv'
  BY <1>18 DEF UndoRestore
<1>19. CASE RollbackDone
  BY <1>19 DEF RollbackDone
<1>20. CASE RecoverDone
  BY <1>20 DEF RecoverDone
<1>21. CASE Fail
  BY <1>21 DEF Fail
<1>22. CASE Crash
  BY <1>22 DEF Crash, NoItems
<1>23. ASSUME NEW r \in Roots, PlayerAdds(r) PROVE LoopInv'
  BY <1>23 DEF PlayerAdds, PlayerMayEdit
<1>24. ASSUME NEW r \in Roots, PlayerDeletes(r) PROVE LoopInv'
  BY <1>24 DEF PlayerDeletes, PlayerMayEdit
<1>25. CASE UNCHANGED vars
  BY <1>25 DEF vars
<1> QED
  BY <1>1, <1>2, <1>3, <1>4, <1>5, <1>6, <1>7, <1>8, <1>9, <1>10, <1>11,
     <1>12, <1>13, <1>14, <1>15, <1>16, <1>17, <1>18, <1>19, <1>20, <1>21,
     <1>22, <1>23, <1>24, <1>25
     DEF Next, Installs

\* The commit mark tells the truth about folders, records and release.
THEOREM CommitCorrect == Spec => []CommitIsTruthful
<1>1. Init => LoopInv
  BY DEF Init, LoopInv
<1>2. LoopInv => CommitIsTruthful
  BY DEF LoopInv, CommitIsTruthful, Recorded, Desired
<1> QED
  BY <1>1, <1>2, LoopStep, TypeCorrect, PhaseCorrect, PTL DEF Spec

(***************************************************************************)
(* state.json against the folders, while they differ: outside the items of *)
(* the journal it is right, and the loops restore the agreement item by    *)
(* item, by installing, removing or (touched) undoing it.                  *)
(***************************************************************************)
Matches(r) == stateFile[r] # None /\ r \notin touched => disk[r] = stateFile[r]

MatchInv ==
  /\ txnFile = None \/ txnFile.committed => \A r \in Roots : Matches(r)
  /\ txnFile # None => \A r \in Roots \ txnFile.items.roots : Matches(r)
  /\ pc \in {"rollback", "recover"} =>
       /\ \A r \in Roots \ todo : Matches(r)
       /\ cur # None => cur \in touched
  /\ pc = "apply" =>
       \A r \in Roots \ touched : mem[r] # None => disk[r] = mem[r] \/ cur = r
  /\ pc \in {"commit", "clean", "prune"} => \A r \in Roots : Matches(r)
  /\ pc \in {"apply", "commit", "recover"} => ~txnFile.committed

\* Every step keeps the account of where state.json may be wrong.
LEMMA MatchStep ==
  TypeOK /\ PhaseInv /\ LoopInv /\ MatchInv /\ [Next]_vars => MatchInv'
<1> SUFFICES ASSUME TypeOK, PhaseInv, LoopInv, MatchInv, [Next]_vars
             PROVE  MatchInv'
  OBVIOUS
<1> USE InstallerAssumption
    DEF TypeOK, PhaseInv, MatchInv, Matches, Journal, Items, Phases,
        files, records, volatile, history
<1>1. CASE StartClean
  BY <1>1 DEF StartClean
<1>2. CASE StartRecovery
  BY <1>2 DEF StartRecovery
<1>3. CASE SyncRefused
  BY <1>3 DEF SyncRefused
<1>4. ASSUME NEW m \in Manifests, NEW f \in ForceFlags, Plan(m, f) PROVE MatchInv'
  BY <1>4 DEF Plan
<1>5. CASE Stage
  BY <1>5 DEF Stage
<1>6. CASE WriteJournal
  BY <1>6, ZenonT(60) DEF WriteJournal, LoopInv, Unwanted
<1>7. CASE SaveState
  BY <1>7 DEF SaveState, LoopInv
<1>8. CASE Commit
  BY <1>8 DEF Commit
<1>9. CASE RemoveJournal
  BY <1>9 DEF RemoveJournal
<1>10. CASE Prune
  BY <1>10 DEF Prune
<1>11. ASSUME NEW r \in Roots, KeepRoot(r) PROVE MatchInv'
  BY <1>11 DEF KeepRoot
<1>12. ASSUME NEW r \in Roots, QueueInstall(r) PROVE MatchInv'
  BY <1>12 DEF QueueInstall
<1>13. ASSUME NEW r \in Roots, RefuseRoot(r) PROVE MatchInv'
  BY <1>13 DEF RefuseRoot
<1>14. ASSUME NEW r \in Roots, MoveOut(r) PROVE MatchInv'
  BY <1>14 DEF MoveOut
<1>15. ASSUME NEW r \in Roots, MoveIn(r) PROVE MatchInv'
  BY <1>15 DEF MoveIn, LoopInv
<1>16. ASSUME NEW r \in Roots, MoveRemoved(r) PROVE MatchInv'
  BY <1>16 DEF MoveRemoved
<1>17. ASSUME NEW r \in Roots, UndoRemove(r) PROVE MatchInv'
  BY <1>17 DEF UndoRemove
<1>18. ASSUME NEW r \in Roots, UndoRestore(r) PROVE MatchInv'
  BY <1>18 DEF UndoRestore
<1>19. CASE RollbackDone
  BY <1>19 DEF RollbackDone
<1>20. CASE RecoverDone
  BY <1>20 DEF RecoverDone
<1>21. CASE Fail
  BY <1>21 DEF Fail
<1>22. CASE Crash
  BY <1>22 DEF Crash
<1>23. ASSUME NEW r \in Roots, PlayerAdds(r) PROVE MatchInv'
  BY <1>23 DEF PlayerAdds
<1>24. ASSUME NEW r \in Roots, PlayerDeletes(r) PROVE MatchInv'
  BY <1>24 DEF PlayerDeletes
<1>25. CASE UNCHANGED vars
  BY <1>25 DEF vars
<1> QED
  BY <1>1, <1>2, <1>3, <1>4, <1>5, <1>6, <1>7, <1>8, <1>9, <1>10, <1>11,
     <1>12, <1>13, <1>14, <1>15, <1>16, <1>17, <1>18, <1>19, <1>20, <1>21,
     <1>22, <1>23, <1>24, <1>25
     DEF Next, Installs

\* Between syncs state.json describes every folder that no undo and no player
\* has touched.
THEOREM StateCorrect == Spec => []StateMatchesDisk
<1>1. Init => LoopInv /\ MatchInv
  BY DEF Init, LoopInv, MatchInv, Matches, Nothing
<1>2. MatchInv => StateMatchesDisk
  BY Zenon DEF MatchInv, Matches, StateMatchesDisk
<1> QED
  BY <1>1, <1>2, LoopStep, MatchStep, TypeCorrect, PhaseCorrect, PTL DEF Spec

(***************************************************************************)
(* What a root held when the apply loop reached it: in the backup until an *)
(* undo brings it back.  A second interruption may hit the undo itself, so *)
(* the claim is about the first.                                           *)
(***************************************************************************)
InBackup(r) == orig[r] \in {None, backup[r]}

Interrupted == pc \in {"rollback", "recover"} \/ (pc = "idle" /\ txnFile # None)

SurvivesInv ==
  /\ Interrupted => breaks # 0
  /\ breaks <= 1 =>
       /\ \A r \in moved : InBackup(r) \/ orig[r] = disk[r]
       /\ pc \in {"stage", "queue"} => moved = {}
       /\ pc = "apply" => \A r \in Roots :
            IF r \in moved THEN r \notin todo \/ cur = r ELSE disk[r] = orig[r]
       /\ pc = "apply" /\ cur # None => cur \in moved
       /\ pc \in {"apply", "commit", "clean", "prune"} => \A r \in moved : InBackup(r)
       /\ pc = "idle" /\ txnFile # None => \A r \in moved : InBackup(r)
       /\ pc \in {"rollback", "recover"} => \A r \in moved \cap todo : InBackup(r)

\* Every step keeps what was moved, if nobody edits a folder while an
\* interrupted transaction is pending.
LEMMA SurvivesStep ==
  ASSUME "late" \notin Events
  PROVE  TypeOK /\ PhaseInv /\ MovesInv /\ LoopInv /\ SurvivesInv /\ [Next]_vars
           => SurvivesInv'
<1> SUFFICES ASSUME "late" \notin Events, TypeOK, PhaseInv, MovesInv, LoopInv,
                    SurvivesInv, [Next]_vars
             PROVE  SurvivesInv'
  OBVIOUS
<1> USE InstallerAssumption
    DEF TypeOK, PhaseInv, SurvivesInv, Interrupted, InBackup, Journal, Items, Phases,
        files, records, volatile, history
<1>1. CASE StartClean
  BY <1>1 DEF StartClean
<1>2. CASE StartRecovery
  BY <1>2 DEF StartRecovery
<1>3. CASE SyncRefused
  BY <1>3 DEF SyncRefused
<1>4. ASSUME NEW m \in Manifests, NEW f \in ForceFlags, Plan(m, f) PROVE SurvivesInv'
  BY <1>4 DEF Plan
<1>5. CASE Stage
  BY <1>5 DEF Stage
<1>6. CASE WriteJournal
  BY <1>6 DEF WriteJournal, MovesInv, Unwanted
<1>7. CASE SaveState
  BY <1>7 DEF SaveState
<1>8. CASE Commit
  BY <1>8 DEF Commit
<1>9. CASE RemoveJournal
  BY <1>9 DEF RemoveJournal
<1>10. CASE Prune
  BY <1>10 DEF Prune
<1>11. ASSUME NEW r \in Roots, KeepRoot(r) PROVE SurvivesInv'
  BY <1>11 DEF KeepRoot
<1>12. ASSUME NEW r \in Roots, QueueInstall(r) PROVE SurvivesInv'
  BY <1>12 DEF QueueInstall
<1>13. ASSUME NEW r \in Roots, RefuseRoot(r) PROVE SurvivesInv'
  BY <1>13 DEF RefuseRoot
<1>14. ASSUME NEW r \in Roots, MoveOut(r) PROVE SurvivesInv'
  BY <1>14 DEF MoveOut, LoopInv
<1>15. ASSUME NEW r \in Roots, MoveIn(r) PROVE SurvivesInv'
  <2>1. breaks <= 1 => InBackup(r)
    <3>1. CASE cur = r
      BY <1>15, <3>1 DEF MoveIn
    <3>2. CASE cur = None /\ r \notin items.had
      <4>1. disk[r] = None
        BY <1>15, <3>2 DEF MoveIn, LoopInv
      <4>2. breaks <= 1 => disk[r] = orig[r]
        BY <1>15, <3>2 DEF MoveIn
      <4> QED
        BY <4>1, <4>2
    <3> QED
      BY <1>15, <3>1, <3>2 DEF MoveIn
  <2>2. /\ \A q \in Roots \ {r} : disk'[q] = disk[q]
        /\ moved' = moved \cup {r} /\ todo' = todo \ {r} /\ cur' = None
        /\ cur \in {None, r}
        /\ UNCHANGED <<backup, orig, breaks, pc, txnFile>> /\ pc = "apply"
    BY <1>15 DEF MoveIn
  <2> QED
    BY <2>1, <2>2
<1>16. ASSUME NEW r \in Roots, MoveRemoved(r) PROVE SurvivesInv'
  BY <1>16 DEF MoveRemoved, LoopInv
<1>17. ASSUME NEW r \in Roots, UndoRemove(r) PROVE SurvivesInv'
  BY <1>17 DEF UndoRemove
<1>18. ASSUME NEW r \in Roots, UndoRestore(r) PROVE SurvivesInv'
  BY <1>18 DEF UndoRestore
<1>19. CASE RollbackDone
  BY <1>19 DEF RollbackDone
<1>20. CASE RecoverDone
  BY <1>20 DEF RecoverDone
<1>21. CASE Fail
  BY <1>21 DEF Fail
<1>22. CASE Crash
  BY <1>22 DEF Crash
<1>23. ASSUME NEW r \in Roots, PlayerAdds(r) PROVE SurvivesInv'
  BY <1>23 DEF PlayerAdds, PlayerMayEdit
<1>24. ASSUME NEW r \in Roots, PlayerDeletes(r) PROVE SurvivesInv'
  BY <1>24 DEF PlayerDeletes, PlayerMayEdit
<1>25. CASE UNCHANGED vars
  BY <1>25 DEF vars
<1> QED
  BY <1>1, <1>2, <1>3, <1>4, <1>5, <1>6, <1>7, <1>8, <1>9, <1>10, <1>11,
     <1>12, <1>13, <1>14, <1>15, <1>16, <1>17, <1>18, <1>19, <1>20, <1>21,
     <1>22, <1>23, <1>24, <1>25
     DEF Next, Installs

\* Whatever the apply loop has moved is on the machine, live or in the backup,
\* unless a sync and its recovery were cut short more than once; nobody edits a
\* folder while an interrupted transaction is pending.
THEOREM SurvivesCorrect ==
  ASSUME "late" \notin Events
  PROVE  Spec => []MovedContentSurvives
<1>1. Init => MovesInv /\ LoopInv /\ SurvivesInv
  BY DEF Init, MovesInv, JournalCoversMoves, LoopInv, SurvivesInv, Interrupted
<1>2. SurvivesInv => MovedContentSurvives
  <2> SUFFICES ASSUME SurvivesInv, breaks <= 1, NEW r \in moved
               PROVE  orig[r] \in {None, disk[r], backup[r]}
    BY DEF MovedContentSurvives
  <2>1. InBackup(r) \/ orig[r] = disk[r]
    BY DEF SurvivesInv
  <2> QED
    BY <2>1 DEF InBackup
<1> QED
  BY <1>1, <1>2, MovesStep, LoopStep, SurvivesStep, TypeCorrect, PhaseCorrect,
     PTL DEF Spec

(***************************************************************************)
(* Numbers.                                                                *)
(***************************************************************************)
\* A set of numbers has a least one.
LEMMA LeastNat ==
  ASSUME NEW T \in SUBSET Nat, T # {}
  PROVE  \E x \in T : \A y \in T : x <= y
<1>1. IsWellFoundedOn(OpToRel(<, Nat), Nat)
  BY NatLessThanWellFounded
<1>2. PICK x \in T : \A y \in T : ~ (<<y, x>> \in OpToRel(<, Nat))
  BY <1>1, WFMin
<1>3. \A y \in T : ~ (y < x)
  BY <1>2 DEF OpToRel
<1> QED
  BY <1>3

\* What holds of 0 and of the successor of what it holds of.
LEMMA Upwards ==
  ASSUME NEW T \in SUBSET Nat, 0 \in T, \A n \in T : n + 1 \in T
  PROVE  T = Nat
<1>1. SUFFICES ASSUME Nat \ T # {} PROVE FALSE
  OBVIOUS
<1>2. PICK x \in Nat \ T : \A y \in Nat \ T : x <= y
  BY <1>1, LeastNat
<1>3. x # 0 /\ x - 1 \in Nat /\ x - 1 \in T
  BY <1>2
<1> QED
  BY <1>2, <1>3

(***************************************************************************)
(* The order in which the files of a folder are written.                   *)
(***************************************************************************)
\* Every name once.
Ordered(order, tree) ==
  /\ order \in Seq(DOMAIN tree)
  /\ \A i, j \in 1..Len(order) : i # j => order[i] # order[j]
  /\ \A p \in DOMAIN tree : \E i \in 1..Len(order) : order[i] = p

\* An enumeration of the names without repetition leaves none out.
LEMMA OrderIsComplete ==
  ASSUME NEW tree, IsFiniteSet(DOMAIN tree), NEW order \in SetToSeqs(DOMAIN tree)
  PROVE  Ordered(order, tree)
<1> DEFINE D == DOMAIN tree
           n == Cardinality(D)
<1>1. n \in Nat
  BY FS_CardinalityType
<1>2. order \in [1..n -> D] /\ \A i, j \in 1..n : i # j => order[i] # order[j]
  BY DEF SetToSeqs
<1> HIDE DEF D, n
<1>3. order \in Injection(1..n, D)
  BY <1>2 DEF Injection, IsInjective
<1>4. Cardinality(1..n) = n
  BY <1>1, FS_Interval
<1>5. IsFiniteSet(D) /\ n = Cardinality(D)
  BY DEF D, n
<1>6. order \in Surjection(1..n, D)
  BY <1>3, <1>4, <1>5, FS_Injection
<1>7. \A p \in D : \E i \in 1..n : order[i] = p
  BY <1>6 DEF Surjection
<1>8. order \in Seq(D) /\ Len(order) = n
  BY <1>1, <1>2
<1> QED
  BY <1>2, <1>7, <1>8 DEF Ordered, D

(***************************************************************************)
(* What Build has written.                                                 *)
(***************************************************************************)
\* All the cells there are.
Cells(tree) ==
  {Header(p) : p \in DOMAIN tree} \cup (UNION {Range(tree[p]) : p \in DOMAIN tree})
    \cup {Record(p, tree[p], k) : p \in DOMAIN tree, k \in Nat}
    \cup {End(i, j, k) : i \in Nat, j \in Nat, k \in Nat}

\* A file after those before it.
Adds(before, path, content) == before \o <<Header(path)>> \o content

\* Every record and every end record is among them.
LEMMA CellKinds ==
  ASSUME NEW tree
  PROVE  /\ \A p \in DOMAIN tree, k \in Nat : Record(p, tree[p], k) \in Cells(tree)
         /\ \A i, j, k \in Nat : End(i, j, k) \in Cells(tree)
<1> DEFINE headers == {Header(p) : p \in DOMAIN tree}
           contents == UNION {Range(tree[p]) : p \in DOMAIN tree}
           named == {Record(p, tree[p], k) : p \in DOMAIN tree, k \in Nat}
           ends == {End(i, j, k) : i \in Nat, j \in Nat, k \in Nat}
<1>c. Cells(tree) = headers \cup contents \cup named \cup ends
  BY DEF Cells
<1>1. ASSUME NEW p \in DOMAIN tree, NEW k \in Nat PROVE Record(p, tree[p], k) \in Cells(tree)
  <2>1. Record(p, tree[p], k) \in named
    OBVIOUS
  <2> HIDE DEF headers, contents, named, ends
  <2> QED
    BY <1>c, <2>1
<1>2. ASSUME NEW i \in Nat, NEW j \in Nat, NEW k \in Nat PROVE End(i, j, k) \in Cells(tree)
  <2>1. End(i, j, k) \in ends
    OBVIOUS
  <2> HIDE DEF headers, contents, named, ends
  <2> QED
    BY <1>c, <2>1
<1> QED
  BY Zenon, <1>1, <1>2

\* The files written so far.
Laid(local, tree, order) ==
  /\ local[0] = <<>>
  /\ \A k \in 1..Len(order) :
       local[k] = Adds(local[k - 1], order[k], tree[order[k]])

\* The directory.
Central(local, tree, order) ==
  [k \in DOMAIN order |-> Record(order[k], tree[order[k]], Len(local[k - 1]))]

\* The recursion of Build has a solution.
LEMMA BuildSteps ==
  ASSUME NEW tree, NEW order, Len(order) \in Nat
  PROVE  \E local : /\ Laid(local, tree, order)
                    /\ Build(tree, order) =
                         local[Len(order)] \o Central(local, tree, order)
                           \o <<End(Len(order), Len(order), Len(local[Len(order)]))>>
<1> DEFINE n == Len(order)
           body(f, k) == IF k = 0 THEN <<>> ELSE Adds(f[k - 1], order[k], tree[order[k]])
           T == {m \in Nat : \E f : f = [k \in 0..m |-> body(f, k)]}
           local == CHOOSE f : f = [k \in 0..n |-> body(f, k)]
<1>1. Build(tree, order) = local[n] \o Central(local, tree, order) \o <<End(n, n, Len(local[n]))>>
  BY Zenon DEF Build, Central, Adds
<1>n. n \in Nat
  OBVIOUS
<1> HIDE DEF local, n
<1>2. 0 \in T
  <2> DEFINE f == [k \in 0..0 |-> <<>>]
  <2>1. f = [k \in 0..0 |-> body(f, k)]
    OBVIOUS
  <2> HIDE DEF f
  <2> QED
    BY <2>1
<1>3. ASSUME NEW m \in T PROVE m + 1 \in T
  <2>1. PICK f : f = [k \in 0..m |-> body(f, k)]
    BY <1>3
  <2> DEFINE last == Adds(f[m], order[m + 1], tree[order[m + 1]])
             g == [k \in 0..m + 1 |-> IF k \in 0..m THEN f[k] ELSE last]
  <2>2. ASSUME NEW k \in 0..m + 1 PROVE g[k] = body(g, k)
    <3>1. CASE k = 0
      BY <2>1, <3>1
    <3>2. CASE k \in 1..m
      <4>1. k - 1 \in 0..m /\ k \in 0..m /\ k # 0
        BY <3>2
      <4> QED
        BY <2>1, <4>1
    <3>3. CASE k = m + 1
      <4>1. k - 1 = m /\ m \in 0..m /\ k \notin 0..m /\ k # 0
        BY <3>3
      <4>2. g[k] = last /\ g[k - 1] = f[m]
        BY <4>1
      <4> QED
        BY <4>1, <4>2, <3>3
    <3> QED
      BY <3>1, <3>2, <3>3
  <2>3. g = [k \in 0..m + 1 |-> body(g, k)]
    BY <2>2
  <2> HIDE DEF g
  <2> QED
    BY <2>3, SMTT(30)
<1>4. \E f : f = [k \in 0..n |-> body(f, k)]
  <2>1. T \in SUBSET Nat
    OBVIOUS
  <2> HIDE DEF T
  <2>2. n \in T
    BY <1>2, <1>3, <1>n, <2>1, Upwards
  <2> QED
    BY <2>2 DEF T
<1>5. local = [k \in 0..n |-> body(local, k)]
  BY <1>4 DEF local
<1>6. local[0] = <<>>
  BY <1>5, <1>n
<1>7. ASSUME NEW k \in 1..n
      PROVE  local[k] = Adds(local[k - 1], order[k], tree[order[k]])
  <2>1. k \in 0..n /\ k # 0
    BY <1>n
  <2> HIDE DEF body
  <2>2. local[k] = body(local, k)
    BY <1>5, <2>1
  <2> QED
    BY <2>1, <2>2 DEF body
<1>8. Laid(local, tree, order)
  BY <1>6, <1>7 DEF Laid, n
<1> QED
  BY <1>1, <1>8 DEF n

\* What is written so far is cells, and stays where it is.
LEMMA LaidGrows ==
  ASSUME NEW tree, IsFolder(tree), NEW order, Ordered(order, tree),
         NEW local, Laid(local, tree, order)
  PROVE  /\ \A m \in 0..Len(order) : local[m] \in Seq(Cells(tree))
         /\ \A m \in 0..Len(order) : \A k \in 0..m :
              /\ Len(local[k]) \in Nat /\ Len(local[k]) <= Len(local[m])
              /\ \A i \in 1..Len(local[k]) : local[m][i] = local[k][i]
<1> DEFINE n == Len(order)
           C == Cells(tree)
           keeps(k, m) == /\ Len(local[k]) \in Nat /\ Len(local[k]) <= Len(local[m])
                          /\ \A i \in 1..Len(local[k]) : local[m][i] = local[k][i]
           good(m) == local[m] \in Seq(C) /\ \A k \in 0..m : keeps(k, m)
           T == {m \in Nat : m <= n => good(m)}
<1>1. n \in Nat
  BY DEF Ordered
<1>2. 0 \in T
  <2>1. local[0] = <<>>
    BY DEF Laid
  <2>2. local[0] \in Seq(C)
    BY <2>1, EmptySeq
  <2>3. \A k \in 0..0 : keeps(k, 0)
    <3>1. Len(local[0]) = 0
      BY <2>1
    <3> QED
      BY <3>1
  <2> QED
    BY <2>2, <2>3
<1>3. ASSUME NEW m \in T PROVE m + 1 \in T
  <2> SUFFICES ASSUME m + 1 <= n PROVE good(m + 1)
    OBVIOUS
  <2> DEFINE h == <<Header(order[m + 1])>>
             c == tree[order[m + 1]]
  <2>1. m \in Nat /\ m + 1 \in 1..n /\ m + 1 - 1 = m
    BY <1>1
  <2>2. local[m + 1] = local[m] \o h \o c
    <3>1. local[m + 1] = Adds(local[m + 1 - 1], order[m + 1], tree[order[m + 1]])
      BY <2>1 DEF Laid
    <3> QED
      BY <2>1, <3>1 DEF Adds
  <2>3. local[m] \in Seq(C) /\ \A k \in 0..m : keeps(k, m)
    BY <1>1, <2>1
  <2>4. order[m + 1] \in DOMAIN tree
    BY <2>1, ElementOfSeq DEF Ordered
  <2>5. h \in Seq(C)
    BY <2>4 DEF Cells
  <2>6. c \in Seq(C)
    <3>1. c \in Seq(Range(c))
      BY <2>4 DEF IsFolder
    <3>2. Range(c) \subseteq C
      BY <2>4 DEF Cells
    <3> QED
      BY <3>1, <3>2, SeqMonotonic
  <2> HIDE DEF h, c, C
  <2>7. local[m] \o h \in Seq(C)
    BY <2>3, <2>5, ConcatProperties
  <2>8. local[m + 1] \in Seq(C)
    BY <2>2, <2>6, <2>7, ConcatProperties
  <2>9. keeps(m, m + 1)
    <3>1. /\ Len(local[m] \o h) = Len(local[m]) + Len(h)
          /\ \A i \in 1..Len(local[m]) + Len(h) :
               (local[m] \o h)[i] = IF i <= Len(local[m]) THEN local[m][i] ELSE h[i - Len(local[m])]
      BY <2>3, <2>5, ConcatProperties
    <3>2. /\ Len(local[m + 1]) = Len(local[m] \o h) + Len(c)
          /\ \A i \in 1..Len(local[m] \o h) + Len(c) :
               local[m + 1][i] = IF i <= Len(local[m] \o h) THEN (local[m] \o h)[i]
                                 ELSE c[i - Len(local[m] \o h)]
      BY <2>2, <2>6, <2>7, ConcatProperties
    <3>3. Len(local[m]) \in Nat /\ Len(h) \in Nat /\ Len(c) \in Nat
      BY <2>3, <2>5, <2>6, LenProperties
    <3> DEFINE a == Len(local[m])
               b == Len(h)
               d == Len(c)
               both == local[m] \o h
               e == Len(both)
               e2 == Len(local[m + 1])
    <3> HIDE DEF a, b, d, e, both, e2
    <3>4. e = a + b /\ e2 = e + d /\ a \in Nat /\ b \in Nat /\ d \in Nat
      BY <3>1, <3>2, <3>3 DEF a, b, d, e, both, e2
    <3>5. a <= e2 /\ e2 \in Nat
      BY <3>4
    <3>6. ASSUME NEW i \in 1..a PROVE local[m + 1][i] = local[m][i]
      <4>1. i \in 1..a + b /\ i <= a /\ i \in 1..e + d /\ i <= e
        BY <3>4
      <4>2. both[i] = local[m][i]
        BY <3>1, <4>1 DEF both, a, b
      <4>3. local[m + 1][i] = both[i]
        BY <3>2, <4>1 DEF both, d, e
      <4> QED
        BY <4>2, <4>3
    <3> QED
      BY <3>4, <3>5, <3>6 DEF a, e2
  <2>10. ASSUME NEW k \in 0..m + 1 PROVE keeps(k, m + 1)
    <3>1. CASE k = m + 1
      <4>1. Len(local[k]) \in Nat
        BY <3>1, <2>8, LenProperties
      <4> QED
        BY <3>1, <4>1
    <3>2. CASE k \in 0..m
      <4>1. keeps(k, m)
        BY <2>3, <3>2
      <4>2. Len(local[m]) \in Nat /\ Len(local[m + 1]) \in Nat
        BY <2>3, <2>8, LenProperties
      <4> QED
        <5>1. \A i \in 1..Len(local[k]) : i \in 1..Len(local[m])
          BY <4>1, <4>2
        <5> QED
          BY <4>1, <4>2, <5>1, <2>9
    <3> QED
      BY <2>1, <3>1, <3>2
  <2> QED
    BY <2>8, <2>10
<1>4. T = Nat
  <2>1. T \in SUBSET Nat
    OBVIOUS
  <2> HIDE DEF T
  <2> QED
    BY <1>2, <1>3, <2>1, Upwards
<1>5. \A m \in 0..n : good(m)
  <2>1. \A m \in 0..n : m \in Nat /\ m <= n
    BY <1>1
  <2> QED
    BY <1>4, <2>1
<1> QED
  BY <1>5

\* A header at that offset, and the content behind it.
StoredAt(cells, at, path, content) ==
  /\ at \in Nat /\ at < Len(cells) /\ cells[at + 1] = Header(path)
  /\ SubSeq(cells, at + 2, at + 1 + Len(content)) = content

\* The files, the directory, the end record; each record names the offset of
\* its file.
Archive(cells, tree, order, local) ==
  LET n == Len(order)
      start == Len(local[n])
      listed == Central(local, tree, order)
  IN /\ cells \in Seq(Cells(tree)) /\ start \in Nat /\ Len(cells) = start + n + 1
     /\ listed \in Seq(Cells(tree)) /\ Len(listed) = n
     /\ cells[Len(cells)] = End(n, n, start)
     /\ SubSeq(cells, start + 1, start + n) = listed
     /\ \A k \in 1..n : StoredAt(cells, Len(local[k - 1]), order[k], tree[order[k]])

\* A file stands where its record says.
LEMMA FileIsStored ==
  ASSUME NEW tree, IsFolder(tree), NEW order, Ordered(order, tree),
         NEW local, Laid(local, tree, order), NEW k \in 1..Len(order),
         NEW cells, Len(cells) \in Nat, Len(local[Len(order)]) < Len(cells),
         \A i \in 1..Len(local[Len(order)]) : cells[i] = local[Len(order)][i]
  PROVE  StoredAt(cells, Len(local[k - 1]), order[k], tree[order[k]])
<1> DEFINE n == Len(order)
           C == Cells(tree)
           h == <<Header(order[k])>>
           c == tree[order[k]]
           before == local[k - 1]
           both == before \o h
           whole == local[k]
           all == local[n]
<1>1. n \in Nat /\ k - 1 \in 0..n /\ k \in 0..n /\ n \in 0..n
  BY DEF Ordered
<1>2. before \in Seq(C) /\ whole \in Seq(C) /\ all \in Seq(C)
  BY <1>1, LaidGrows
<1>3. Len(whole) <= Len(all) /\ \A i \in 1..Len(whole) : all[i] = whole[i]
  BY <1>1, LaidGrows
<1>4. order[k] \in DOMAIN tree
  BY ElementOfSeq DEF Ordered
<1>5. h \in Seq(C) /\ Len(h) = 1 /\ h[1] = Header(order[k])
  BY <1>4 DEF Cells
<1>6. c \in Seq(C)
  <2>1. c \in Seq(Range(c))
    BY <1>4 DEF IsFolder
  <2>2. Range(c) \subseteq C
    BY <1>4 DEF Cells
  <2> QED
    BY <2>1, <2>2, SeqMonotonic
<1>7. whole = both \o c
  <2>1. whole = Adds(before, order[k], c)
    BY DEF Laid
  <2> QED
    BY <2>1 DEF Adds
<1>8. \A i \in 1..Len(all) : cells[i] = all[i]
  OBVIOUS
<1>9. Len(all) < Len(cells) /\ Len(cells) \in Nat
  OBVIOUS
<1> DEFINE path == order[k]
<1> HIDE DEF C, h, c, before, both, whole, all, n, path
<1>10. /\ both \in Seq(C) /\ Len(both) = Len(before) + Len(h)
       /\ \A i \in 1..Len(before) + Len(h) :
            both[i] = IF i <= Len(before) THEN before[i] ELSE h[i - Len(before)]
  BY <1>2, <1>5, ConcatProperties DEF both
<1>11. /\ Len(whole) = Len(both) + Len(c)
       /\ \A i \in 1..Len(both) + Len(c) :
            whole[i] = IF i <= Len(both) THEN both[i] ELSE c[i - Len(both)]
  <2>1. both \in Seq(C)
    BY <1>10
  <2>2. /\ Len(both \o c) = Len(both) + Len(c)
        /\ \A i \in 1..Len(both) + Len(c) :
             (both \o c)[i] = IF i <= Len(both) THEN both[i] ELSE c[i - Len(both)]
    BY <1>6, <2>1, ConcatProperties
  <2> QED
    BY <1>7, <2>2
<1> DEFINE at == Len(before)
           size == Len(c)
<1>12. at \in Nat /\ size \in Nat /\ Len(both) = at + 1 /\ Len(whole) = at + 1 + size
  BY <1>2, <1>5, <1>6, <1>10, <1>11, LenProperties
<1>13. Len(all) \in Nat
  BY <1>2, LenProperties
<1> HIDE DEF at, size
<1>14. at < Len(cells)
  BY <1>3, <1>9, <1>12, <1>13
<1>15. \A i \in 1..at + 1 + size : cells[i] = whole[i]
  <2>1. \A i \in 1..at + 1 + size : i \in 1..Len(whole) /\ i \in 1..Len(all)
    BY <1>3, <1>12, <1>13
  <2> QED
    BY <2>1, <1>3, <1>8
<1>16. cells[at + 1] = Header(path)
  <2>1. at + 1 \in 1..at + 1 + size /\ at + 1 \in 1..Len(both) + Len(c) /\ at + 1 <= Len(both)
    BY <1>12 DEF size
  <2>2. cells[at + 1] = both[at + 1]
    BY <2>1, <1>11, <1>15
  <2>3. at + 1 \in 1..Len(before) + Len(h) /\ ~(at + 1 <= Len(before)) /\ at + 1 - Len(before) = 1
    BY <1>5, <1>12 DEF at
  <2>4. both[at + 1] = h[1]
    <3> DEFINE j == at + 1
               a == Len(before)
    <3>1. j \in 1..a + Len(h) /\ ~(j <= a) /\ j - a = 1
      BY <2>3 DEF at
    <3> HIDE DEF j
    <3>2. both[j] = h[j - a]
      BY <3>1, <1>10
    <3>3. both[j] = h[1]
      BY <3>1, <3>2
    <3> QED
      BY Zenon, <3>3 DEF j
  <2> QED
    BY <2>2, <2>4, <1>5 DEF path
<1>17. \A i \in at + 2..at + 1 + size : cells[i] = c[i - (at + 1)] /\ i - (at + 1) \in 1..size
  <2> SUFFICES ASSUME NEW i \in at + 2..at + 1 + size
               PROVE  cells[i] = c[i - (at + 1)] /\ i - (at + 1) \in 1..size
    OBVIOUS
  <2>1. /\ i \in 1..at + 1 + size /\ i \in 1..Len(both) + Len(c) /\ ~(i <= Len(both))
        /\ i - Len(both) = i - (at + 1) /\ i - (at + 1) \in 1..size
    BY <1>12 DEF size
  <2>2. whole[i] = c[i - Len(both)]
    BY <2>1, <1>11
  <2> QED
    BY <2>1, <2>2, <1>15
<1>18. SubSeq(cells, at + 2, at + 1 + size) = c
  <2>1. \A i \in 1..size : c[i] \in C
    BY <1>6, ElementOfSeq DEF size
  <2> DEFINE lo == at + 2
             hi == at + 1 + size
             s == SubSeq(cells, lo, hi)
  <2>2. /\ lo \in Int /\ hi \in Int /\ hi - lo + 1 = size /\ lo - 1 = at + 1
        /\ IF lo <= hi THEN TRUE ELSE size = 0
    BY <1>12
  <2>3. \A i \in lo..hi : cells[i] = c[i - (at + 1)] /\ i - (at + 1) \in 1..size
    BY <1>17
  <2>4. at + 1 \in Int
    BY <1>12
  <2> DEFINE d == at + 1
  <2> HIDE DEF lo, hi, d
  <2>5. \A i \in lo..hi : cells[i] \in C
    BY <2>1, <2>3
  <2>6. /\ s \in Seq(C)
        /\ Len(s) = IF lo <= hi THEN hi - lo + 1 ELSE 0
        /\ \A i \in 1..hi - lo + 1 : s[i] = cells[lo + i - 1]
    BY <2>2, <2>5, SubSeqProperties
  <2> HIDE DEF s
  <2>7. Len(s) = size
    BY <2>2, <2>6
  <2>8. ASSUME NEW i \in 1..size PROVE s[i] = c[i]
    <3> DEFINE j == lo + i - 1
    <3>1. j \in lo..hi /\ j - d = i
      BY <1>12, <2>2, <2>4 DEF d
    <3>2. i \in 1..hi - lo + 1
      BY <2>2
    <3>3. s[i] = cells[j]
      BY <2>6, <3>2
    <3> HIDE DEF j
    <3>4. cells[j] = c[j - d]
      BY <2>3, <3>1 DEF d
    <3> QED
      BY <3>1, <3>3, <3>4
  <2>9. Len(c) = size
    BY DEF size
  <2>10. s = c
    BY <1>6, <2>6, <2>7, <2>8, <2>9, SeqEqual
  <2> QED
    BY <2>10 DEF s, lo, hi
<1> QED
  BY <1>12, <1>14, <1>16, <1>18 DEF StoredAt, at, size, before, c, path

\* The layout of what Build returns.
LEMMA BuildLayout ==
  ASSUME NEW tree, IsFolder(tree), NEW order, Ordered(order, tree)
  PROVE  \E local : Archive(Build(tree, order), tree, order, local)
<1> DEFINE n == Len(order)
           C == Cells(tree)
           cells == Build(tree, order)
<1>1. n \in Nat /\ n \in 0..n /\ DOMAIN order = 1..n
  BY LenProperties DEF Ordered
<1>2. PICK local : /\ Laid(local, tree, order)
                   /\ cells = local[n] \o Central(local, tree, order)
                                \o <<End(n, n, Len(local[n]))>>
  BY <1>1, BuildSteps
<1> DEFINE packed == local[n]
           listed == Central(local, tree, order)
           most == packed \o listed
           end == End(n, n, Len(packed))
           start == Len(packed)
<1>3. \A k \in 0..n : local[k] \in Seq(C)
  BY <1>2, LaidGrows
<1>4. \A k \in 0..n : Len(local[k]) \in Nat
  BY <1>3, LenProperties
<1>5. packed \in Seq(C) /\ start \in Nat
  BY <1>1, <1>3, <1>4
<1>6. \A k \in 1..n : Record(order[k], tree[order[k]], Len(local[k - 1])) \in C
  <2> SUFFICES ASSUME NEW k \in 1..n
               PROVE  Record(order[k], tree[order[k]], Len(local[k - 1])) \in C
    OBVIOUS
  <2>1. order[k] \in DOMAIN tree
    BY ElementOfSeq DEF Ordered
  <2>2. k - 1 \in 0..n
    BY <1>1
  <2>3. Len(local[k - 1]) \in Nat
    BY <1>4, <2>2
  <2> QED
    BY Zenon, <2>1, <2>3, CellKinds
<1>7. listed \in Seq(C) /\ Len(listed) = n
  <2>1. listed = [k \in 1..n |-> Record(order[k], tree[order[k]], Len(local[k - 1]))]
    BY Zenon, <1>1 DEF Central
  <2> HIDE DEF C, n
  <2>2. listed \in Seq(C)
    BY <1>1, <1>6, <2>1, IsASeq
  <2> QED
    BY <1>1, <2>1, <2>2
<1>8. <<end>> \in Seq(C) /\ Len(<<end>>) = 1 /\ <<end>>[1] = end
  <2>1. end \in C
    BY Zenon, <1>1, <1>5, CellKinds
  <2> HIDE DEF end, C
  <2> QED
    BY <2>1
<1>9. cells = most \o <<end>>
  BY <1>2
<1> HIDE DEF C, cells, packed, listed, most, end, start, n
<1>10. /\ most \in Seq(C) /\ Len(most) = Len(packed) + Len(listed)
       /\ \A i \in 1..Len(packed) + Len(listed) :
            most[i] = IF i <= Len(packed) THEN packed[i] ELSE listed[i - Len(packed)]
  BY <1>5, <1>7, ConcatProperties DEF most
<1>11. /\ cells \in Seq(C) /\ Len(cells) = Len(most) + Len(<<end>>)
       /\ \A i \in 1..Len(most) + Len(<<end>>) :
            cells[i] = IF i <= Len(most) THEN most[i] ELSE <<end>>[i - Len(most)]
  <2>1. most \in Seq(C)
    BY <1>10
  <2>2. /\ most \o <<end>> \in Seq(C) /\ Len(most \o <<end>>) = Len(most) + Len(<<end>>)
        /\ \A i \in 1..Len(most) + Len(<<end>>) :
             (most \o <<end>>)[i] = IF i <= Len(most) THEN most[i] ELSE <<end>>[i - Len(most)]
    BY <1>8, <2>1, ConcatProperties
  <2> QED
    BY <1>9, <2>2
<1>12. Len(packed) = start
  BY DEF start
<1>13. Len(most) = start + n /\ Len(cells) = start + n + 1
  BY <1>7, <1>8, <1>10, <1>11, <1>12
<1>14. cells[Len(cells)] = end
  <2> DEFINE m == Len(most)
             j == m + 1
  <2>1. m \in Nat /\ j = Len(cells) /\ j \in 1..Len(most) + Len(<<end>>) /\ ~(j <= m) /\ j - m = 1
    BY <1>1, <1>5, <1>8, <1>13
  <2> HIDE DEF j
  <2>2. cells[j] = <<end>>[j - m]
    BY <1>11, <2>1
  <2> QED
    BY <1>8, <2>1, <2>2
<1>15. \A i \in 1..start : cells[i] = packed[i]
  <2> SUFFICES ASSUME NEW i \in 1..start PROVE cells[i] = packed[i]
    OBVIOUS
  <2>1. /\ i \in 1..Len(most) + Len(<<end>>) /\ i <= Len(most)
        /\ i \in 1..Len(packed) + Len(listed) /\ i <= Len(packed)
    BY <1>1, <1>5, <1>7, <1>8, <1>12, <1>13
  <2> QED
    BY <1>10, <1>11, <2>1
<1>16. SubSeq(cells, start + 1, start + n) = listed
  <2> DEFINE lo == start + 1
             hi == start + n
             s == SubSeq(cells, lo, hi)
  <2>1. /\ lo \in Int /\ hi \in Int /\ hi - lo + 1 = n /\ lo - 1 = start
        /\ IF lo <= hi THEN TRUE ELSE n = 0
    BY <1>1, <1>5
  <2>2. \A i \in lo..hi : i \in 1..Len(cells)
    BY <1>1, <1>5, <1>13
  <2> HIDE DEF lo, hi
  <2>3. \A i \in lo..hi : cells[i] \in C
    BY <1>11, <2>2, ElementOfSeq
  <2>4. /\ s \in Seq(C)
        /\ Len(s) = IF lo <= hi THEN hi - lo + 1 ELSE 0
        /\ \A i \in 1..hi - lo + 1 : s[i] = cells[lo + i - 1]
    BY <2>1, <2>3, SubSeqProperties
  <2> HIDE DEF s
  <2>5. Len(s) = n
    BY <2>1, <2>4
  <2>6. ASSUME NEW i \in 1..n PROVE s[i] = listed[i]
    <3> DEFINE j == lo + i - 1
    <3>1. /\ j \in 1..Len(most) + Len(<<end>>) /\ j <= Len(most)
          /\ j \in 1..Len(packed) + Len(listed) /\ ~(j <= Len(packed)) /\ j - Len(packed) = i
      BY <1>1, <1>5, <1>7, <1>8, <1>12, <1>13, <2>1
    <3>2. i \in 1..hi - lo + 1
      BY <2>1
    <3>3. s[i] = cells[j]
      BY <2>4, <3>2
    <3> HIDE DEF j
    <3>4. cells[j] = most[j]
      BY <1>11, <3>1
    <3>5. most[j] = listed[j - Len(packed)]
      BY <1>10, <3>1
    <3> QED
      BY <3>1, <3>3, <3>4, <3>5
  <2>7. s = listed
    BY <1>7, <2>4, <2>5, <2>6, SeqEqual
  <2> QED
    BY <2>7 DEF s, lo, hi
<1>17. ASSUME NEW k \in 1..n PROVE StoredAt(cells, Len(local[k - 1]), order[k], tree[order[k]])
  <2>1. Len(cells) \in Nat /\ start < Len(cells)
    BY <1>1, <1>5, <1>13
  <2>2. Len(local[Len(order)]) < Len(cells) /\ \A i \in 1..Len(local[Len(order)]) : cells[i] = local[Len(order)][i]
    BY <1>15, <2>1 DEF start, packed, n
  <2>3. k \in 1..Len(order)
    BY DEF n
  <2> QED
    BY <1>2, <2>1, <2>2, <2>3, FileIsStored
<1> DEFINE all == \A k \in 1..n : StoredAt(cells, Len(local[k - 1]), order[k], tree[order[k]])
<1>18. all
  BY <1>17
<1> HIDE DEF all
<1>19. Archive(cells, tree, order, local)
  BY <1>5, <1>7, <1>11, <1>13, <1>14, <1>16, <1>18, Zenon
     DEF Archive, C, packed, listed, end, start, n, all
<1> QED
  BY <1>19 DEF cells

(***************************************************************************)
(* What the readers find in it.                                            *)
(***************************************************************************)
\* The end record that is searched from behind is the last cell, whatever the
\* files hold.
LEMMA EndIsLast ==
  ASSUME NEW tree, NEW order, NEW local, NEW cells, Len(order) \in Nat,
         Archive(cells, tree, order, local)
  PROVE  /\ EndsAt(cells) # {}
         /\ EndOf(cells) = End(Len(order), Len(order), Len(local[Len(order)]))
<1> DEFINE e == End(Len(order), Len(order), Len(local[Len(order)]))
           last == CHOOSE i \in EndsAt(cells) : \A j \in EndsAt(cells) : j <= i
           m == Len(cells)
<1>1. m \in Nat \ {0} /\ DOMAIN cells = 1..m /\ cells[m] = e
  BY LenProperties DEF Archive
<1>2. e.kind = "end"
  BY DEF End
<1> HIDE DEF m, e
<1>3. m \in EndsAt(cells) /\ EndsAt(cells) \subseteq 1..m
  BY <1>1, <1>2 DEF EndsAt
<1>4. \A i \in EndsAt(cells) : (\A j \in EndsAt(cells) : j <= i) => i = m
  BY <1>1, <1>3
<1>5. last = m
  <2>1. \E i \in EndsAt(cells) : \A j \in EndsAt(cells) : j <= i
    BY <1>1, <1>3
  <2>2. last \in EndsAt(cells) /\ \A j \in EndsAt(cells) : j <= last
    BY <2>1
  <2> HIDE DEF last
  <2> QED
    BY <1>4, <2>2
<1>6. EndOf(cells) = cells[m]
  BY Zenon, <1>5 DEF EndOf
<1> QED
  BY <1>1, <1>3, <1>6 DEF e

\* Whether the directory is accepted is a question about the names only.
LEMMA GoodWhenPackable ==
  ASSUME NEW tree, NEW order, Ordered(order, tree), NEW local
  PROVE  GoodRecords(Central(local, tree, order)) <=> Packable(tree)
<1> DEFINE n == Len(order)
           listed == Central(local, tree, order)
<1>1. n \in Nat /\ DOMAIN order = 1..n
  BY LenProperties DEF Ordered
<1>2. DOMAIN listed = 1..n /\ \A i \in 1..n : listed[i] = Record(order[i], tree[order[i]], Len(local[i - 1]))
  BY <1>1 DEF Central
<1> HIDE DEF n, listed
<1>3. \A i \in 1..n : listed[i].kind = "central" /\ listed[i].name = order[i]
  BY <1>2 DEF Record
<1>4. \A i \in 1..n : order[i] \in DOMAIN tree
  BY ElementOfSeq DEF Ordered, n
<1>5. \A i, j \in 1..n : i # j => order[i] # order[j]
  BY DEF Ordered, n
<1>6. \A p \in DOMAIN tree : \E i \in 1..n : order[i] = p
  BY DEF Ordered, n
<1>7. ASSUME Packable(tree) PROVE GoodRecords(listed)
  BY <1>2, <1>3, <1>4, <1>5, <1>7 DEF Packable, GoodRecords
<1>8. ASSUME GoodRecords(listed) PROVE Packable(tree)
  <2>1. ASSUME NEW p \in DOMAIN tree PROVE SafeEntryName(p)
    BY <1>2, <1>3, <1>6, <1>8 DEF GoodRecords
  <2>2. ASSUME NEW p \in DOMAIN tree, NEW q \in DOMAIN tree, p # q
        PROVE  Lower(p) # Lower(q)
    <3>1. PICK i \in 1..n : order[i] = p
      BY <1>6
    <3>2. PICK j \in 1..n : order[j] = q
      BY <1>6
    <3> QED
      BY <1>2, <1>3, <1>8, <2>2, <3>1, <3>2 DEF GoodRecords
  <2> QED
    BY <2>1, <2>2 DEF Packable
<1> QED
  BY <1>7, <1>8 DEF listed

\* listZipFile of what was built: its directory, or a refusal.
LEMMA ListedAsBuilt ==
  ASSUME NEW tree, NEW order, Ordered(order, tree), NEW local, NEW cells,
         Archive(cells, tree, order, local)
  PROVE  ListZipFile(cells) = IF Packable(tree) THEN Central(local, tree, order) ELSE Unreadable
<1> DEFINE n == Len(order)
           start == Len(local[n])
           listed == Central(local, tree, order)
           C == Cells(tree)
<1>1. n \in Nat /\ start \in Nat /\ Len(cells) = start + n + 1
      /\ listed \in Seq(C) /\ Len(listed) = n
      /\ SubSeq(cells, start + 1, start + n) = listed
  BY LenProperties DEF Ordered, Archive
<1>2. EndsAt(cells) # {} /\ EndOf(cells) = End(n, n, start)
  BY <1>1, EndIsLast
<1> HIDE DEF n, start, listed, C
<1>3. EndOf(cells).at = start /\ EndOf(cells).size = n /\ EndOf(cells).count = n
  BY <1>2 DEF End
<1>4. ListZipFile(cells) = Directory(listed, 0, n)
  <2>1. ~(start + n > Len(cells))
    BY <1>1
  <2> QED
    BY <1>1, <1>2, <1>3, <2>1 DEF ListZipFile
<1>5. SubSeq(listed, 1, n) = listed
  BY <1>1, SubSeqFull
<1>6. Directory(listed, 0, n) = IF GoodRecords(listed) THEN listed ELSE Unreadable
  <2>1. 0 + n <= Len(listed) /\ 0 + 1 = 1 /\ 0 + n = n
    BY <1>1
  <2> QED
    BY <1>5, <2>1 DEF Directory
<1> QED
  BY <1>4, <1>6, GoodWhenPackable DEF listed

\* What was listed is not a refusal.
LEMMA CentralIsReadable ==
  ASSUME NEW tree, NEW order, Ordered(order, tree), NEW local
  PROVE  Central(local, tree, order) # Unreadable
<1> SUFFICES ASSUME Central(local, tree, order) = Unreadable PROVE FALSE
  OBVIOUS
<1>1. DOMAIN Unreadable = 1..1 /\ Unreadable[1].kind = "unreadable"
  BY DEF Unreadable
<1>2. DOMAIN Central(local, tree, order) = DOMAIN order
  BY DEF Central
<1>3. 1 \in DOMAIN order
  BY <1>1, <1>2
<1>4. Central(local, tree, order)[1].kind = "central"
  BY <1>3 DEF Central, Record
<1> QED
  BY <1>1, <1>4

(***************************************************************************)
(* What comes out of it.                                                   *)
(***************************************************************************)
\* One entry: the loop's body in Extract.
ExtractEntry(cells, base, places, overwrite, to, r) ==
  LET path == base \o places[r.name] IN
  IF ~to.ok \/ places[r.name] = <<>> THEN to
  ELSE IF \/ ~Intact(cells, r) \/ Blocked(to.tree, path)
          \/ path \in DOMAIN to.tree /\ ~overwrite
  THEN [to EXCEPT !.ok = FALSE]
  ELSE [to EXCEPT !.tree = With(@, path, SubSeq(cells, r.at + 2, r.at + 1 + r.size))]

\* What there is after each of the records, and what Extract returns.
Unpacks(after, cells, listed, empty, base, places, overwrite) ==
  /\ after[0] = [ok |-> TRUE, tree |-> empty]
  /\ \A k \in 1..Len(listed) :
       after[k] = ExtractEntry(cells, base, places, overwrite, after[k - 1], listed[k])
  /\ Extract(cells, listed, empty, base, places, overwrite) = after[Len(listed)]

\* The recursion of Extract has a solution.
LEMMA ExtractSteps ==
  ASSUME NEW cells, NEW listed, NEW empty, NEW base, NEW places, NEW overwrite,
         Len(listed) \in Nat
  PROVE  \E after : Unpacks(after, cells, listed, empty, base, places, overwrite)
<1> DEFINE n == Len(listed)
           first == [ok |-> TRUE, tree |-> empty]
           body(f, k) == IF k = 0 THEN first ELSE ExtractEntry(cells, base, places, overwrite, f[k - 1], listed[k])
           T == {m \in Nat : \E f : f = [k \in 0..m |-> body(f, k)]}
           after == CHOOSE f : f = [k \in 0..n |-> body(f, k)]
<1>1. Extract(cells, listed, empty, base, places, overwrite) = after[n]
  BY Zenon DEF Extract, ExtractEntry
<1>n. n \in Nat
  OBVIOUS
<1> HIDE DEF after, n, first
<1>2. 0 \in T
  <2> DEFINE f == [k \in 0..0 |-> first]
  <2>1. f = [k \in 0..0 |-> body(f, k)]
    OBVIOUS
  <2> HIDE DEF f
  <2> QED
    BY <2>1
<1>3. ASSUME NEW m \in T PROVE m + 1 \in T
  <2>1. PICK f : f = [k \in 0..m |-> body(f, k)]
    BY <1>3
  <2> DEFINE last == ExtractEntry(cells, base, places, overwrite, f[m], listed[m + 1])
             g == [k \in 0..m + 1 |-> IF k \in 0..m THEN f[k] ELSE last]
  <2>2. ASSUME NEW k \in 0..m + 1 PROVE g[k] = body(g, k)
    <3>1. CASE k = 0
      BY <2>1, <3>1
    <3>2. CASE k \in 1..m
      <4>1. k - 1 \in 0..m /\ k \in 0..m /\ k # 0
        BY <3>2
      <4> QED
        BY <2>1, <4>1
    <3>3. CASE k = m + 1
      <4>1. k - 1 = m /\ m \in 0..m /\ k \notin 0..m /\ k # 0
        BY <3>3
      <4>2. g[k] = last /\ g[k - 1] = f[m]
        BY <4>1
      <4> QED
        BY <4>1, <4>2, <3>3
    <3> QED
      BY <3>1, <3>2, <3>3
  <2>3. g = [k \in 0..m + 1 |-> body(g, k)]
    BY <2>2
  <2> HIDE DEF g, body
  <2> QED
    BY <2>3
<1>4. \E f : f = [k \in 0..n |-> body(f, k)]
  <2>1. T \in SUBSET Nat
    OBVIOUS
  <2> HIDE DEF T
  <2>2. n \in T
    BY <1>2, <1>3, <1>n, <2>1, Upwards
  <2> QED
    BY <2>2 DEF T
<1>5. after = [k \in 0..n |-> body(after, k)]
  BY <1>4 DEF after
<1>6. after[0] = first
  BY <1>5, <1>n
<1>7. ASSUME NEW k \in 1..n PROVE after[k] = ExtractEntry(cells, base, places, overwrite, after[k - 1], listed[k])
  <2>1. k \in 0..n /\ k # 0
    BY <1>n
  <2> HIDE DEF body
  <2>2. after[k] = body(after, k)
    BY <1>5, <2>1
  <2> QED
    BY <2>1, <2>2 DEF body
<1>8. Unpacks(after, cells, listed, empty, base, places, overwrite)
  BY <1>1, <1>6, <1>7 DEF Unpacks, n, first
<1> QED
  BY <1>8

\* The first k files of a folder.
Firsts(tree, order, k) == [p \in {order[i] : i \in 1..k} |-> tree[p]]

\* What is unpacked so far, with another tree.
LEMMA SetTree ==
  ASSUME NEW o, NEW t, NEW u
  PROVE  [[ok |-> o, tree |-> t] EXCEPT !.tree = u] = [ok |-> o, tree |-> u]
OBVIOUS

\* A record of the directory gives back its file: its header is intact, and no
\* file is in the way.
LEMMA EntryComesOut ==
  ASSUME NEW tree, IsFolder(tree), Packable(tree), NEW order, Ordered(order, tree),
         NEW local, NEW cells, Archive(cells, tree, order, local),
         NEW m \in Nat, m + 1 <= Len(order),
         NEW places, places = [path \in Names(Central(local, tree, order)) |-> path]
  PROVE  ExtractEntry(cells, <<>>, places, FALSE, [ok |-> TRUE, tree |-> Firsts(tree, order, m)],
               Central(local, tree, order)[m + 1])
           = [ok |-> TRUE, tree |-> Firsts(tree, order, m + 1)]
<1> DEFINE n == Len(order)
           k == m + 1
           listed == Central(local, tree, order)
           r == listed[k]
           path == order[k]
           content == tree[path]
           at == Len(local[k - 1])
           to == [ok |-> TRUE, tree |-> Firsts(tree, order, m)]
<1>1. n \in Nat /\ DOMAIN order = 1..n
  BY LenProperties DEF Ordered
<1>2. k \in 1..n
  BY <1>1
<1>3. path \in DOMAIN tree
  BY <1>2, ElementOfSeq DEF Ordered
<1>4. r = Record(path, content, at)
  BY <1>1, <1>2 DEF Central
<1>5. StoredAt(cells, at, path, content)
  BY <1>2 DEF Archive
<1>6. /\ r.name = path /\ r.crc = content /\ r.at = at /\ r.size = Len(content)
  BY <1>4 DEF Record
<1>7. path \in Names(listed)
  <2>1. k \in DOMAIN listed
    BY <1>1, <1>2 DEF Central
  <2> QED
    BY <1>6, <2>1 DEF Names
<1> DEFINE inside == {order[i] : i \in 1..m}
<1>8. \A i \in 1..m : i \in 1..n /\ i # k
  BY <1>1, <1>2
<1>9. inside \subseteq DOMAIN tree /\ path \notin inside
  <2>1. \A i \in 1..n : order[i] \in DOMAIN tree
    BY ElementOfSeq DEF Ordered
  <2>2. \A i \in 1..m : order[i] # path
    BY <1>2, <1>8 DEF Ordered
  <2> QED
    BY <1>8, <2>1, <2>2
<1>10. inside \cup {path} = {order[i] : i \in 1..m + 1}
  <2>1. \A i : i \in 1..m + 1 <=> i \in 1..m \/ i = k
    OBVIOUS
  <2> QED
    BY <2>1
<1>11. places[r.name] = path /\ path # <<>> /\ <<>> \o path = path
  <2>1. places[path] = path
    BY <1>7
  <2>2. path # <<>>
    BY <1>3 DEF Packable, SafeEntryName
  <2>3. path \in Seq(Parts)
    BY <1>3 DEF IsFolder
  <2> QED
    BY <1>6, <2>1, <2>2, <2>3, ConcatEmptySeq
<1>12. Intact(cells, r)
  <2> HIDE DEF path, content, at, r
  <2>1. Header(path).kind = "local"
    BY DEF Header
  <2> QED
    BY <1>5, <1>6, <2>1 DEF Intact, StoredAt
<1>13. to.ok = TRUE /\ to.tree = Firsts(tree, order, m) /\ DOMAIN Firsts(tree, order, m) = inside
  BY DEF Firsts
<1>14. ~Blocked(to.tree, path)
  BY <1>3, <1>9, <1>13 DEF Blocked, IsFolder
<1>15. SubSeq(cells, r.at + 2, r.at + 1 + r.size) = content
  BY <1>5, <1>6 DEF StoredAt
<1>16. With(Firsts(tree, order, m), path, content) = Firsts(tree, order, m + 1)
  <2>1. With(Firsts(tree, order, m), path, content) = [p \in inside \cup {path} |-> tree[p]]
    <3>1. \A p \in inside \cup {path} : (IF p = path THEN content ELSE Firsts(tree, order, m)[p]) = tree[p]
      BY <1>9 DEF Firsts
    <3> HIDE DEF inside, path, content
    <3> QED
      BY <1>13, <3>1 DEF With
  <2> QED
    BY <1>10, <2>1 DEF Firsts
<1> HIDE DEF inside, path, content, at, r, listed
<1>17. ExtractEntry(cells, <<>>, places, FALSE, to, r) = [to EXCEPT !.tree = With(@, path, content)]
  BY <1>9, <1>11, <1>12, <1>13, <1>14, <1>15 DEF ExtractEntry
<1>18. [to EXCEPT !.tree = With(@, path, content)] = [ok |-> TRUE, tree |-> With(Firsts(tree, order, m), path, content)]
  <2> DEFINE t == Firsts(tree, order, m)
  <2>1. [to EXCEPT !.tree = With(@, path, content)] = [to EXCEPT !.tree = With(t, path, content)]
    BY Zenon, <1>13
  <2> DEFINE u == With(t, path, content)
  <2> HIDE DEF t, u
  <2>2. [[ok |-> TRUE, tree |-> t] EXCEPT !.tree = u] = [ok |-> TRUE, tree |-> u]
    BY SetTree
  <2> QED
    BY Zenon, <2>1, <2>2 DEF t, u
<1> QED
  BY <1>16, <1>17, <1>18 DEF r, listed

\* A folder with good names comes out as it was.
LEMMA GoodComesOut ==
  ASSUME NEW tree, IsFolder(tree), Packable(tree), NEW order, Ordered(order, tree)
  PROVE  Unpack(Build(tree, order), ListZipFile(Build(tree, order))) = [ok |-> TRUE, tree |-> tree]
<1> DEFINE cells == Build(tree, order)
           n == Len(order)
<1>1. PICK local : Archive(cells, tree, order, local)
  BY BuildLayout
<1> DEFINE listed == Central(local, tree, order)
           places == [path \in Names(listed) |-> path]
<1> HIDE DEF cells
<1>2. ListZipFile(cells) = listed
  BY <1>1, ListedAsBuilt
<1>3. Unpack(cells, listed) = Extract(cells, listed, NoFiles, <<>>, places, FALSE)
  BY CentralIsReadable DEF Unpack
<1>4. n \in Nat /\ Len(listed) = n
  BY <1>1, LenProperties DEF Ordered, Archive
<1>5. PICK after : /\ after[0] = [ok |-> TRUE, tree |-> NoFiles]
                   /\ \A k \in 1..n : after[k] = ExtractEntry(cells, <<>>, places, FALSE, after[k - 1], listed[k])
                   /\ Extract(cells, listed, NoFiles, <<>>, places, FALSE) = after[n]
  <2> HIDE DEF listed, places, n
  <2>1. Len(listed) \in Nat
    BY <1>4
  <2> QED
    <3>1. \E after : Unpacks(after, cells, listed, NoFiles, <<>>, places, FALSE)
      BY <2>1, ExtractSteps
    <3> QED
      BY <1>4, <3>1 DEF Unpacks
<1> DEFINE T == {m \in Nat : m <= n => after[m] = [ok |-> TRUE, tree |-> Firsts(tree, order, m)]}
<1>6. 0 \in T
  <2>1. Firsts(tree, order, 0) = NoFiles
    <3>1. {order[i] : i \in 1..0} = {}
      OBVIOUS
    <3> QED
      BY <3>1 DEF Firsts, NoFiles
  <2>2. after[0] = [ok |-> TRUE, tree |-> Firsts(tree, order, 0)]
    BY Zenon, <1>5, <2>1
  <2> QED
    BY <2>2
<1>7. ASSUME NEW m \in T PROVE m + 1 \in T
  <2> SUFFICES ASSUME m + 1 <= n
               PROVE  after[m + 1] = [ok |-> TRUE, tree |-> Firsts(tree, order, m + 1)]
    OBVIOUS
  <2>1. m \in Nat /\ m <= n /\ m + 1 \in 1..n /\ m + 1 - 1 = m
    BY <1>4
  <2>2. after[m] = [ok |-> TRUE, tree |-> Firsts(tree, order, m)]
    BY Zenon, <2>1
  <2> HIDE DEF listed, places, T
  <2>3. after[m + 1] = ExtractEntry(cells, <<>>, places, FALSE, after[m], listed[m + 1])
    <3> DEFINE j == m + 1
    <3>1. j \in 1..n /\ j - 1 = m
      BY <2>1
    <3> HIDE DEF j
    <3>2. after[j] = ExtractEntry(cells, <<>>, places, FALSE, after[j - 1], listed[j])
      BY Zenon, <1>5, <3>1
    <3>3. after[j] = ExtractEntry(cells, <<>>, places, FALSE, after[m], listed[j])
      BY Zenon, <3>1, <3>2
    <3> QED
      BY Zenon, <3>3 DEF j
  <2>4. ExtractEntry(cells, <<>>, places, FALSE, [ok |-> TRUE, tree |-> Firsts(tree, order, m)], listed[m + 1])
          = [ok |-> TRUE, tree |-> Firsts(tree, order, m + 1)]
    BY <1>1, <2>1, EntryComesOut DEF listed, places
  <2> QED
    BY <2>2, <2>3, <2>4
<1>8. after[n] = [ok |-> TRUE, tree |-> Firsts(tree, order, n)]
  <2>1. T \in SUBSET Nat
    OBVIOUS
  <2> HIDE DEF T
  <2>2. n \in T
    BY <1>4, <1>6, <1>7, <2>1, Upwards
  <2> QED
    BY <1>4, <2>2 DEF T
<1>9. Firsts(tree, order, n) = tree
  <2>1. {order[i] : i \in 1..n} = DOMAIN tree
    <3>1. \A i \in 1..n : order[i] \in DOMAIN tree
      BY ElementOfSeq DEF Ordered
    <3>2. \A p \in DOMAIN tree : \E i \in 1..n : order[i] = p
      BY DEF Ordered
    <3> QED
      BY <3>1, <3>2
  <2> QED
    BY <2>1 DEF Firsts, IsFolder
<1> QED
  BY <1>2, <1>3, <1>5, <1>8, <1>9 DEF cells

\* Another one is refused.
LEMMA BadIsRefused ==
  ASSUME NEW tree, IsFolder(tree), ~Packable(tree), NEW order, Ordered(order, tree)
  PROVE  Unpack(Build(tree, order), ListZipFile(Build(tree, order))) = Failed
<1>1. PICK local : Archive(Build(tree, order), tree, order, local)
  BY BuildLayout
<1>2. ListZipFile(Build(tree, order)) = Unreadable
  BY <1>1, ListedAsBuilt
<1> QED
  BY <1>2 DEF Unpack

\* What buildStoredZip or writeStoredZipFromDir packed, listZipFile and
\* extractZipFile give back as it was: for every folder, in whatever order its
\* files were written, also when they are archives themselves.  A folder is
\* refused exactly when a name is unsafe or two names differ by case only.
THEOREM RoundTripCorrect == RoundTrip
<1> SUFFICES ASSUME NEW tree \in Trees, NEW cells \in Builds(tree)
             PROVE  LET result == Unpack(cells, ListZipFile(cells)) IN
                    IF Packable(tree) THEN result.ok /\ result.tree = tree ELSE ~result.ok
  BY DEF RoundTrip
<1>1. PICK order \in SetToSeqs(DOMAIN tree) : cells = Build(tree, order)
  BY DEF Builds
<1>2. IsFolder(tree)
  BY ArchivesAssumption
<1>3. Ordered(order, tree)
  BY <1>2, OrderIsComplete DEF IsFolder
<1>4. CASE Packable(tree)
  BY <1>1, <1>2, <1>3, <1>4, GoodComesOut
<1>5. CASE ~Packable(tree)
  BY <1>1, <1>2, <1>3, <1>5, BadIsRefused DEF Failed
<1> QED
  BY <1>4, <1>5

(***************************************************************************)
(* The two readers.                                                        *)
(***************************************************************************)
\* The end record holds numbers.
Numbered(cells) ==
  \A i \in DOMAIN cells :
    cells[i].kind = "end" => cells[i].at \in Nat /\ cells[i].size \in Nat /\ cells[i].count \in Nat

\* A set of positions has a last one.
LEMMA LastOf ==
  ASSUME NEW m \in Nat, NEW T \in SUBSET (1..m), T # {}
  PROVE  \E i \in T : \A j \in T : j <= i
<1> DEFINE U == {m - i : i \in T}
<1>1. U \in SUBSET Nat /\ U # {}
  <2>1. \A i \in T : m - i \in Nat
    OBVIOUS
  <2> QED
    BY <2>1
<1>2. PICK x \in U : \A y \in U : x <= y
  <2> HIDE DEF U
  <2> QED
    BY <1>1, LeastNat
<1>3. PICK i \in T : x = m - i
  OBVIOUS
<1>4. ASSUME NEW j \in T PROVE j <= i
  <2>1. m - j \in U
    OBVIOUS
  <2>2. x <= m - j
    BY <1>2, <2>1
  <2> QED
    BY <1>3, <2>2
<1> QED
  BY <1>4

\* The end record that is found is one of those.
LEMMA EndIsNumbered ==
  ASSUME NEW S, NEW cells \in Seq(S), Numbered(cells), EndsAt(cells) # {}
  PROVE  EndOf(cells).at \in Nat /\ EndOf(cells).size \in Nat /\ EndOf(cells).count \in Nat
<1> DEFINE last == CHOOSE i \in EndsAt(cells) : \A j \in EndsAt(cells) : j <= i
           m == Len(cells)
<1>1. m \in Nat /\ DOMAIN cells = 1..m
  BY LenProperties
<1>2. \E i \in EndsAt(cells) : \A j \in EndsAt(cells) : j <= i
  BY <1>1, LastOf DEF EndsAt
<1>3. last \in EndsAt(cells)
  BY <1>2
<1> HIDE DEF last
<1>4. EndOf(cells) = cells[last]
  BY Zenon DEF EndOf, last
<1> QED
  BY <1>3, <1>4 DEF EndsAt, Numbered

\* Whatever the cells are, damaged or not an archive at all: what the updater's
\* listZipFile accepts, the API's listZip has seen in the same way.
THEOREM ReadersAgree ==
  ASSUME NEW S, NEW cells \in Seq(S), Numbered(cells)
  PROVE  ListZipFile(cells) \in {Unreadable, ListZip(cells)}
<1> DEFINE e == EndOf(cells)
           m == Len(cells)
<1>1. CASE EndsAt(cells) = {} \/ e.at + e.size > m
  BY <1>1 DEF ListZipFile
<1>2. CASE ~(EndsAt(cells) = {} \/ e.at + e.size > m)
  <2>1. e.at \in Nat /\ e.size \in Nat /\ e.count \in Nat
    BY <1>2, EndIsNumbered
  <2> DEFINE a == e.at
             s == e.size
             c == e.count
             sub == SubSeq(cells, a + 1, a + s)
  <2>2. m \in Nat /\ \A i \in 1..m : cells[i] \in S
    BY LenProperties, ElementOfSeq
  <2>3. ListZipFile(cells) = Directory(sub, 0, c) /\ ListZip(cells) = Directory(cells, a, c)
    BY <1>2 DEF ListZipFile, ListZip
  <2>4. a \in Nat /\ s \in Nat /\ c \in Nat /\ a + s <= m
    BY <1>2, <2>1, <2>2
  <2> HIDE DEF a, s, c, m, e
  <2>5. sub \in Seq(S) /\ Len(sub) = s
    <3> DEFINE lo == a + 1
               hi == a + s
    <3>1. lo \in Int /\ hi \in Int /\ (\A i \in lo..hi : i \in 1..m)
          /\ IF lo <= hi THEN hi - lo + 1 = s ELSE s = 0
      BY <2>2, <2>4
    <3> HIDE DEF lo, hi
    <3>2. \A i \in lo..hi : cells[i] \in S
      BY <2>2, <3>1
    <3>3. SubSeq(cells, lo, hi) \in Seq(S)
          /\ Len(SubSeq(cells, lo, hi)) = IF lo <= hi THEN hi - lo + 1 ELSE 0
      BY <3>1, <3>2, SubSeqProperties
    <3>4. SubSeq(cells, lo, hi) \in Seq(S) /\ Len(SubSeq(cells, lo, hi)) = s
      BY <3>1, <3>3
    <3> QED
      BY <3>4 DEF lo, hi
  <2>6. CASE c > s
    <3>1. ~(0 + c <= Len(sub))
      BY <2>4, <2>5, <2>6
    <3> QED
      BY <2>3, <3>1 DEF Directory
  <2>7. CASE c <= s
    <3>1. SubSeq(sub, 1, c) = SubSeq(cells, a + 1, a + c)
      <4>1. CASE c = 0
        <5>1. SubSeq(sub, 1, c) = <<>>
          BY <4>1, SubSeqEmpty
        <5>2. a + 1 \in Int /\ a + c \in Int /\ a + c < a + 1
          BY <2>4, <4>1
        <5>3. SubSeq(cells, a + 1, a + c) = <<>>
          BY <5>2, SubSeqEmpty
        <5> QED
          BY <5>1, <5>3
      <4>2. CASE c # 0
        <5> DEFINE i == a + 1
                   j == a + s
        <5>1. i \in 1..m /\ j \in 1..m /\ 1 \in 1..j - i + 1 /\ c \in 1..j - i + 1
              /\ i + 1 - 1 = a + 1 /\ i + c - 1 = a + c
          BY <2>2, <2>4, <2>7, <4>2
        <5>2. sub = SubSeq(cells, i, j)
          OBVIOUS
        <5> HIDE DEF i, j, sub
        <5>3. SubSeq(SubSeq(cells, i, j), 1, c) = SubSeq(cells, i + 1 - 1, i + c - 1)
          BY <5>1, SubSeqOfSubSeq DEF m
        <5> QED
          BY <5>1, <5>2, <5>3
      <4> QED
        BY <4>1, <4>2
    <3>2. 0 + c <= Len(sub) /\ a + c <= Len(cells) /\ 0 + 1 = 1 /\ 0 + c = c
      BY <2>2, <2>4, <2>5, <2>7 DEF m
    <3>3. Directory(sub, 0, c) = Directory(cells, a, c)
      <4> HIDE DEF sub
      <4> QED
        BY <3>1, <3>2 DEF Directory
    <3> QED
      BY <2>3, <3>3
  <2> QED
    BY <2>4, <2>6, <2>7
<1> QED
  BY <1>1, <1>2

(***************************************************************************)
(* Overlays: paths.                                                        *)
(***************************************************************************)
\* What a prefix is.
LEMMA PrefixOfLonger ==
  ASSUME NEW S, NEW s \in Seq(S), NEW t \in Seq(S), IsStrictPrefix(s, t)
  PROVE  Len(s) < Len(t) /\ \A i \in 1..Len(s) : t[i] = s[i]
<1> DEFINE n == Len(s)
           m == Len(t)
<1>1. n \in Nat /\ m \in Nat /\ n <= m /\ s # t
  BY LenProperties DEF IsStrictPrefix, IsPrefix
<1>2. \A i \in 1..n : t[i] = s[i]
  <2>1. SubSeq(s, 1, n) = SubSeq(t, 1, n)
    BY DEF IsStrictPrefix, IsPrefix
  <2>2. SubSeq(s, 1, n) = s
    BY SubSeqFull
  <2> HIDE DEF n, m
  <2>3. \A i \in 1..n : t[i] \in S
    <3>1. \A i \in 1..n : i \in 1..m
      BY <1>1
    <3> QED
      BY <3>1, ElementOfSeq DEF m
  <2>4. \A i \in 1..n - 1 + 1 : SubSeq(t, 1, n)[i] = t[1 + i - 1]
    <3>1. 1 \in Int /\ n \in Int
      BY <1>1
    <3> QED
      BY <2>3, <3>1, SubSeqProperties
  <2>5. ASSUME NEW i \in 1..n PROVE t[i] = s[i]
    <3>1. i \in 1..n - 1 + 1 /\ 1 + i - 1 = i
      BY <1>1
    <3> QED
      BY <2>1, <2>2, <2>4, <3>1
  <2> QED
    BY <2>5
<1>3. n # m
  <2> SUFFICES ASSUME n = m PROVE FALSE
    OBVIOUS
  <2>1. s = t
    BY <1>2, SeqEqual
  <2> QED
    BY <1>1, <2>1
<1> QED
  BY <1>1, <1>2, <1>3

\* The folder of a slot, as a prefix.
LEMMA PrefixOfTwo ==
  ASSUME NEW S, NEW p \in Seq(S), NEW r, NEW d
  PROVE  IsPrefix(<<r, d>>, p) <=> Len(p) >= 2 /\ p[1] = r /\ p[2] = d
<1> DEFINE f == <<r, d>>
           n == Len(p)
<1>1. Len(f) = 2 /\ n \in Nat /\ f[1] = r /\ f[2] = d
  BY LenProperties
<1>2. f \in Seq({r, d})
  OBVIOUS
<1>3. SubSeq(f, 1, 2) = f
  BY <1>1, <1>2, SubSeqFull
<1> HIDE DEF f, n
<1>4. CASE n >= 2
  <2> DEFINE t == SubSeq(p, 1, 2)
  <2>1. \A i \in 1..2 : p[i] \in S
    <3>1. \A i \in 1..2 : i \in 1..n
      BY <1>1, <1>4
    <3> QED
      BY <3>1, ElementOfSeq DEF n
  <2>2. t \in Seq(S) /\ Len(t) = (IF 1 <= 2 THEN 2 - 1 + 1 ELSE 0)
        /\ \A i \in 1..2 - 1 + 1 : t[i] = p[1 + i - 1]
    BY <2>1, SubSeqProperties
  <2> HIDE DEF t
  <2>3. Len(t) = 2 /\ t[1] = p[1] /\ t[2] = p[2]
    BY <2>2
  <2>4. ASSUME p[1] = r, p[2] = d PROVE f = t
    <3>1. f \in Seq({r, d} \cup S) /\ t \in Seq({r, d} \cup S)
      BY <1>2, <2>2, SeqMonotonic
    <3>2. \A i \in 1..Len(f) : f[i] = t[i]
      BY <1>1, <2>3, <2>4
    <3> QED
      BY <1>1, <2>3, <3>1, <3>2, SeqEqual
  <2>5. ASSUME f = t PROVE p[1] = r /\ p[2] = d
    BY <1>1, <2>3, <2>5
  <2>6. IsPrefix(f, p) <=> f = t
    <3>1. IsPrefix(f, p) <=> Len(f) <= n /\ SubSeq(f, 1, Len(f)) = SubSeq(p, 1, Len(f))
      BY DEF IsPrefix, n
    <3> QED
      BY <1>1, <1>3, <1>4, <3>1 DEF t
  <2> QED
    BY <1>4, <2>4, <2>5, <2>6 DEF f, n
<1>5. CASE ~(n >= 2)
  <2>1. ~IsPrefix(f, p)
    BY <1>1, <1>5 DEF IsPrefix, n
  <2> QED
    BY <1>5, <2>1 DEF f, n
<1> QED
  BY <1>4, <1>5

\* A place in the folder of a slot.
LEMMA InSlot ==
  ASSUME NEW r, NEW d, NEW c
  PROVE  <<r, d>> \o <<c>> = <<r, d, c>>
<1> DEFINE S == {r, d, c}
           f == <<r, d>>
           g == <<c>>
           h == <<r, d, c>>
<1>1. f \in Seq(S) /\ g \in Seq(S) /\ h \in Seq(S) /\ Len(f) = 2 /\ Len(g) = 1 /\ Len(h) = 3
      /\ f[1] = r /\ f[2] = d /\ g[1] = c /\ h[1] = r /\ h[2] = d /\ h[3] = c
  OBVIOUS
<1> HIDE DEF S, f, g, h
<1>2. /\ f \o g \in Seq(S) /\ Len(f \o g) = Len(f) + Len(g)
      /\ \A i \in 1..Len(f) + Len(g) : (f \o g)[i] = IF i <= Len(f) THEN f[i] ELSE g[i - Len(f)]
  BY <1>1, ConcatProperties
<1>3. \A i \in 1..3 : (f \o g)[i] = h[i]
  <2>1. (f \o g)[1] = r /\ (f \o g)[2] = d /\ (f \o g)[3] = c
    BY <1>1, <1>2
  <2>2. ASSUME NEW i \in 1..3 PROVE (f \o g)[i] = h[i]
    <3>1. i = 1 \/ i = 2 \/ i = 3
      OBVIOUS
    <3> QED
      BY <1>1, <2>1, <3>1
  <2> QED
    BY <2>2
<1>4. f \o g = h
  BY <1>1, <1>2, <1>3, SeqEqual
<1> QED
  BY <1>4 DEF f, g, h

\* remapOverlayEntry leaves the name of the file of what is laid out like the
\* mod.
LEMMA RemapKeepsName ==
  ASSUME NEW S, NEW p \in Seq(S), Len(p) = 3, NEW roots, p[1] \in roots, NEW slot,
         LowerCase[p[2]] = LowerCase[slot]
  PROVE  Remap(p, slot, roots) = <<p[3]>>
<1> DEFINE rest == Tail(p)
           name == Tail(rest)
<1>1. p # <<>> /\ rest \in Seq(S) /\ Len(rest) = 2 /\ rest[1] = p[2] /\ rest[2] = p[3]
  <2>1. p # <<>>
    OBVIOUS
  <2> QED
    BY <2>1, HeadTailProperties
<1> HIDE DEF rest
<1>2. rest # <<>> /\ name \in Seq(S) /\ Len(name) = 1 /\ name[1] = p[3]
  <2>1. rest # <<>>
    BY <1>1
  <2>2. name \in Seq(S) /\ Len(name) = Len(rest) - 1
        /\ \A i \in 1..Len(name) : name[i] = rest[i + 1]
    BY <1>1, <2>1, HeadTailProperties
  <2> HIDE DEF name
  <2> QED
    BY <1>1, <2>1, <2>2
<1>3. name = <<p[3]>>
  <2>1. <<p[3]>> \in Seq(S)
    BY <1>1, ElementOfSeq, SMTT(30)
  <2> HIDE DEF name
  <2> QED
    BY <1>2, <2>1, SeqEqual
<1>4. DropFirst(p, {LowerCase[r] : r \in roots}) = rest
  <2>1. LowerCase[p[1]] \in {LowerCase[r] : r \in roots}
    OBVIOUS
  <2> QED
    BY <1>1, <2>1 DEF DropFirst, rest
<1>5. DropFirst(rest, {LowerCase[slot]}) = name
  BY <1>1, <1>2 DEF DropFirst
<1>6. Len(p) > 1
  OBVIOUS
<1> QED
  BY <1>3, <1>4, <1>5, <1>6 DEF Remap

(***************************************************************************)
(* Overlays: one folder.                                                   *)
(***************************************************************************)
\* Where a file of the overlay goes.
Target(base, places, p) == base \o places[p]

\* Nothing is in the way of it, neither what was there nor another file.
FreeFor(over, base, places, before) ==
  \A p \in DOMAIN over :
    /\ places[p] # <<>>
    /\ \A q \in before \cup {Target(base, places, s) : s \in DOMAIN over} :
         ~IsStrictPrefix(q, Target(base, places, p)) /\ ~IsStrictPrefix(Target(base, places, p), q)

\* The first k files of the overlay are laid over a tree.
LaidOver(result, tree, over, order, base, places, k) ==
  /\ result = [ok |-> TRUE, tree |-> result.tree]
  /\ DOMAIN result.tree = DOMAIN tree \cup {Target(base, places, order[i]) : i \in 1..k}
  /\ \A q \in DOMAIN tree :
       (\A i \in 1..k : q # Target(base, places, order[i])) => result.tree[q] = tree[q]
  /\ \A i \in 1..k : \E j \in 1..k :
       /\ Target(base, places, order[j]) = Target(base, places, order[i])
       /\ result.tree[Target(base, places, order[i])] = over[order[j]]

\* One more.
LEMMA EntryIsLaid ==
  ASSUME NEW over, NEW order, Ordered(order, over),
         NEW local, NEW cells, Archive(cells, over, order, local),
         NEW m \in Nat, m + 1 <= Len(order), NEW tree, NEW base, NEW places,
         FreeFor(over, base, places, DOMAIN tree),
         NEW to, LaidOver(to, tree, over, order, base, places, m)
  PROVE  LaidOver(ExtractEntry(cells, base, places, TRUE, to, Central(local, over, order)[m + 1]),
                  tree, over, order, base, places, m + 1)
<1> DEFINE n == Len(order)
           k == m + 1
           listed == Central(local, over, order)
           r == listed[k]
           path == order[k]
           content == over[path]
           at == Len(local[k - 1])
           goal == Target(base, places, path)
           t(i) == Target(base, places, order[i])
           next == [ok |-> TRUE, tree |-> With(to.tree, goal, content)]
<1>1. n \in Nat /\ DOMAIN order = 1..n /\ k \in 1..n
  BY LenProperties DEF Ordered
<1>2. \A i \in 1..n : order[i] \in DOMAIN over
  BY ElementOfSeq DEF Ordered
<1>3. path \in DOMAIN over
  BY <1>1, <1>2
<1>4. r = Record(path, content, at)
  BY <1>1 DEF Central
<1>5. StoredAt(cells, at, path, content)
  BY <1>1 DEF Archive
<1>6. /\ r.name = path /\ r.crc = content /\ r.at = at /\ r.size = Len(content)
  BY <1>4 DEF Record
<1>7. Intact(cells, r)
  <2> HIDE DEF path, content, at, r
  <2>1. Header(path).kind = "local"
    BY DEF Header
  <2> QED
    BY <1>5, <1>6, <2>1 DEF Intact, StoredAt
<1>8. SubSeq(cells, r.at + 2, r.at + 1 + r.size) = content
  BY <1>5, <1>6 DEF StoredAt
<1>9. \A i \in 1..m : i \in 1..n
  BY <1>1
<1>10. to = [ok |-> TRUE, tree |-> to.tree] /\ DOMAIN to.tree = DOMAIN tree \cup {t(i) : i \in 1..m}
  BY DEF LaidOver
<1>11. places[path] # <<>> /\ ~Blocked(to.tree, goal)
  <2>1. \A q \in DOMAIN tree \cup {Target(base, places, s) : s \in DOMAIN over} :
          ~IsStrictPrefix(q, goal) /\ ~IsStrictPrefix(goal, q)
    BY <1>3 DEF FreeFor
  <2>2. \A i \in 1..m : t(i) \in {Target(base, places, s) : s \in DOMAIN over}
    BY <1>2, <1>9
  <2>3. places[path] # <<>>
    BY <1>3 DEF FreeFor
  <2> HIDE DEF path, goal
  <2>4. \A q \in DOMAIN to.tree : ~IsStrictPrefix(q, goal) /\ ~IsStrictPrefix(goal, q)
    BY <1>10, <2>1, <2>2
  <2> QED
    BY <2>3, <2>4 DEF Blocked
<1>12. goal = base \o places[path]
  BY DEF Target
<1> HIDE DEF path, content, at, r, listed, goal
<1>13. ExtractEntry(cells, base, places, TRUE, to, r) = next
  <2>1. to.ok = TRUE
    BY <1>10
  <2>2. ExtractEntry(cells, base, places, TRUE, to, r) = [to EXCEPT !.tree = With(@, goal, content)]
    BY <1>6, <1>7, <1>8, <1>11, <1>12, <2>1 DEF ExtractEntry
  <2> DEFINE old == to.tree
             new == With(old, goal, content)
  <2>3. [to EXCEPT !.tree = With(@, goal, content)] = [to EXCEPT !.tree = new]
    BY Zenon
  <2>4. to = [ok |-> TRUE, tree |-> old]
    BY <1>10
  <2> HIDE DEF old, new
  <2>5. [[ok |-> TRUE, tree |-> old] EXCEPT !.tree = new] = [ok |-> TRUE, tree |-> new]
    BY SetTree
  <2>6. [to EXCEPT !.tree = new] = [ok |-> TRUE, tree |-> new]
    BY Zenon, <2>4, <2>5
  <2> QED
    BY Zenon, <2>2, <2>3, <2>6 DEF new, old
<1>14. next.tree = With(to.tree, goal, content) /\ next = [ok |-> TRUE, tree |-> next.tree]
  OBVIOUS
<1> DEFINE old == to.tree
           new == next.tree
<1>15. /\ DOMAIN new = DOMAIN old \cup {goal} /\ new[goal] = content
       /\ \A q \in DOMAIN old : q # goal => new[q] = old[q]
  BY <1>14 DEF With
<1>16. goal = t(k)
  BY DEF goal, path
<1>17. \A i : i \in 1..k <=> i \in 1..m \/ i = k
  OBVIOUS
<1>18. DOMAIN old = DOMAIN tree \cup {t(i) : i \in 1..m}
  BY <1>10
<1>19. \A q \in DOMAIN tree : (\A i \in 1..m : q # t(i)) => old[q] = tree[q]
  BY DEF LaidOver
<1>20. \A i \in 1..m : \E j \in 1..m : t(j) = t(i) /\ old[t(i)] = over[order[j]]
  BY DEF LaidOver
<1>21. content = over[order[k]]
  BY DEF content, path
<1> HIDE DEF old, new, t, k, next
<1>22. DOMAIN new = DOMAIN tree \cup {t(i) : i \in 1..k}
  BY <1>15, <1>16, <1>17, <1>18
<1>23. \A q \in DOMAIN tree : (\A i \in 1..k : q # t(i)) => new[q] = tree[q]
  BY <1>15, <1>16, <1>17, <1>18, <1>19
<1>24. ASSUME NEW i \in 1..k PROVE \E j \in 1..k : t(j) = t(i) /\ new[t(i)] = over[order[j]]
  <2>1. CASE t(i) = goal
    BY <1>15, <1>16, <1>17, <1>21, <2>1
  <2>2. CASE t(i) # goal
    <3>1. i \in 1..m
      BY <1>16, <1>17, <2>2
    <3>2. new[t(i)] = old[t(i)]
      BY <1>15, <1>18, <2>2, <3>1
    <3> QED
      BY <1>17, <1>20, <3>1, <3>2
  <2> QED
    BY <2>1, <2>2
<1>25. LaidOver(next, tree, over, order, base, places, k)
  <2>1. next = [ok |-> TRUE, tree |-> next.tree]
    BY <1>14
  <2> QED
    BY <1>22, <1>23, <1>24, <2>1 DEF LaidOver, new, t
<1> QED
  BY <1>13, <1>25 DEF k, r, listed

\* The whole overlay.
LEMMA OverlayIsLaid ==
  ASSUME NEW over, NEW order, Ordered(order, over),
         NEW local, NEW cells, Archive(cells, over, order, local),
         NEW tree, NEW base, NEW places, FreeFor(over, base, places, DOMAIN tree)
  PROVE  LaidOver(Extract(cells, Central(local, over, order), tree, base, places, TRUE),
                  tree, over, order, base, places, Len(order))
<1> DEFINE n == Len(order)
           listed == Central(local, over, order)
<1>1. n \in Nat /\ Len(listed) = n
  BY LenProperties DEF Ordered, Archive
<1>2. PICK after : /\ after[0] = [ok |-> TRUE, tree |-> tree]
                   /\ \A k \in 1..n : after[k] = ExtractEntry(cells, base, places, TRUE, after[k - 1], listed[k])
                   /\ Extract(cells, listed, tree, base, places, TRUE) = after[n]
  <2> HIDE DEF listed, n
  <2>1. Len(listed) \in Nat
    BY <1>1
  <2>2. \E after : Unpacks(after, cells, listed, tree, base, places, TRUE)
    BY <2>1, ExtractSteps
  <2> QED
    BY <1>1, <2>2 DEF Unpacks
<1> DEFINE good(m) == LaidOver(after[m], tree, over, order, base, places, m)
           T == {m \in Nat : m <= n => good(m)}
<1>3. 0 \in T
  <2>1. after[0].tree = tree /\ after[0] = [ok |-> TRUE, tree |-> after[0].tree]
    BY <1>2
  <2> DEFINE first == after[0]
  <2> HIDE DEF first
  <2>2. good(0)
    <3>1. 1..0 = {}
      OBVIOUS
    <3> QED
      BY <2>1, <3>1 DEF LaidOver
  <2> HIDE DEF good
  <2> QED
    BY <2>2
<1>4. ASSUME NEW m \in T PROVE m + 1 \in T
  <2> SUFFICES ASSUME m + 1 <= n PROVE good(m + 1)
    OBVIOUS
  <2>1. m \in Nat /\ m <= n /\ m + 1 \in 1..n /\ m + 1 - 1 = m /\ m + 1 <= n
    BY <1>1
  <2>2. good(m)
    BY Zenon, <2>1
  <2> HIDE DEF listed, T
  <2>3. after[m + 1] = ExtractEntry(cells, base, places, TRUE, after[m], listed[m + 1])
    <3> DEFINE j == m + 1
    <3>1. j \in 1..n /\ j - 1 = m
      BY <2>1
    <3> HIDE DEF j
    <3>2. after[j] = ExtractEntry(cells, base, places, TRUE, after[j - 1], listed[j])
      BY Zenon, <1>2, <3>1
    <3>3. after[j] = ExtractEntry(cells, base, places, TRUE, after[m], listed[j])
      BY Zenon, <3>1, <3>2
    <3> QED
      BY Zenon, <3>3 DEF j
  <2>4. LaidOver(ExtractEntry(cells, base, places, TRUE, after[m], listed[m + 1]),
                 tree, over, order, base, places, m + 1)
    BY <2>1, <2>2, EntryIsLaid DEF listed
  <2> QED
    BY <2>3, <2>4
<1>5. n \in T
  <2>1. T \in SUBSET Nat
    OBVIOUS
  <2> HIDE DEF T
  <2> QED
    BY <1>1, <1>3, <1>4, <2>1, Upwards
<1>6. good(n)
  <2> HIDE DEF good
  <2> QED
    BY <1>1, <1>5
<1> QED
  BY Zenon, <1>2, <1>6

(***************************************************************************)
(* Overlays: every folder.                                                 *)
(***************************************************************************)
\* What the mod keeps when these roots are done.
KeptOf(mod, slot, done) == {p \in DOMAIN mod : p[1] \in done => ~IsPrefix(<<p[1], slot>>, p)}

\* What is staged then.
StagedFor(to, mod, over, slot, done) ==
  /\ to = [ok |-> TRUE, tree |-> to.tree]
  /\ DOMAIN to.tree = KeptOf(mod, slot, done) \cup LaidFiles(over, slot, done)
  /\ \A p \in KeptOf(mod, slot, done) : to.tree[p] = mod[p]
  /\ \A p \in LaidFiles(over, slot, done) :
       \E q \in DOMAIN over : q[3] = p[3] /\ to.tree[p] = over[q]

\* The overlay is laid out like the mod, whose files are all in a folder.
Fits(mod, over, slot, roots) ==
  /\ IsFolder(mod) /\ Packable(mod) /\ IsFolder(over) /\ Packable(over)
  /\ slot \in Parts /\ roots = RootsOf(mod)
  /\ \A p \in DOMAIN mod : Len(p) >= 2
  /\ \A p \in DOMAIN over :
       Len(p) = 3 /\ p[1] \in roots /\ LowerCase[p[2]] = LowerCase[slot]

\* The roots are parts of paths.
LEMMA RootsAreParts ==
  ASSUME NEW mod, NEW over, NEW slot, NEW roots, Fits(mod, over, slot, roots)
  PROVE  roots \subseteq Parts
<1> SUFFICES ASSUME NEW p \in DOMAIN mod PROVE p[1] \in Parts
  BY DEF Fits, RootsOf
<1>1. p \in Seq(Parts) /\ Len(p) >= 2
  BY DEF Fits, IsFolder
<1>2. 1 \in 1..Len(p)
  BY <1>1, LenProperties
<1> QED
  BY <1>1, <1>2, ElementOfSeq

\* Where a file of the overlay goes in a root.
LEMMA GoesTo ==
  ASSUME NEW mod, NEW over, NEW slot, NEW roots, Fits(mod, over, slot, roots),
         NEW order, Ordered(order, over), NEW local,
         NEW p \in DOMAIN over, NEW root
  PROVE  LET places == [path \in Names(Central(local, over, order)) |-> Remap(path, slot, roots)]
         IN  /\ places[p] = <<p[3]>>
             /\ Target(<<root, slot>>, places, p) = <<root, slot, p[3]>>
<1> DEFINE listed == Central(local, over, order)
           places == [path \in Names(listed) |-> Remap(path, slot, roots)]
<1>1. p \in Names(listed)
  <2>1. DOMAIN listed = 1..Len(order) /\ DOMAIN order = 1..Len(order)
    BY LenProperties DEF Ordered, Central
  <2>2. PICK i \in 1..Len(order) : order[i] = p
    BY DEF Ordered
  <2>3. listed[i].name = p
    BY <2>1, <2>2 DEF Central, Record
  <2> QED
    BY <2>1, <2>3 DEF Names
<1>2. places[p] = Remap(p, slot, roots)
  BY <1>1
<1>3. Remap(p, slot, roots) = <<p[3]>>
  BY RemapKeepsName DEF Fits, IsFolder
<1> QED
  BY <1>2, <1>3, InSlot DEF Target

\* Nothing is in the way of it there.
LEMMA SlotIsFree ==
  ASSUME NEW mod, NEW over, NEW slot, NEW roots, Fits(mod, over, slot, roots),
         NEW root \in roots, NEW c \in Parts, NEW q,
         \/ q \in DOMAIN mod /\ ~IsPrefix(<<root, slot>>, q)
         \/ \E r \in Parts, e \in Parts : q = <<r, slot, e>>
  PROVE  ~IsStrictPrefix(q, <<root, slot, c>>) /\ ~IsStrictPrefix(<<root, slot, c>>, q)
<1> DEFINE goal == <<root, slot, c>>
<1>1. goal \in Seq(Parts) /\ Len(goal) = 3 /\ goal[1] = root /\ goal[2] = slot
  BY RootsAreParts DEF Fits
<1> HIDE DEF goal
<1>2. CASE q \in DOMAIN mod /\ ~IsPrefix(<<root, slot>>, q)
  <2>1. q \in Seq(Parts) /\ Len(q) \in Nat /\ Len(q) >= 2
    BY <1>2, LenProperties DEF Fits, IsFolder
  <2>2. ~(q[1] = root /\ q[2] = slot)
    BY <1>2, <2>1, PrefixOfTwo
  <2>3. ASSUME IsStrictPrefix(q, goal) PROVE FALSE
    <3>1. \A i \in 1..Len(q) : goal[i] = q[i]
      BY <1>1, <2>1, <2>3, PrefixOfLonger
    <3>2. 1 \in 1..Len(q) /\ 2 \in 1..Len(q)
      BY <2>1
    <3> QED
      BY <1>1, <2>2, <3>1, <3>2
  <2>4. ASSUME IsStrictPrefix(goal, q) PROVE FALSE
    <3>1. \A i \in 1..Len(goal) : q[i] = goal[i]
      BY <1>1, <2>1, <2>4, PrefixOfLonger
    <3> QED
      BY <1>1, <2>2, <3>1
  <2> QED
    BY <2>3, <2>4 DEF goal
<1>3. CASE \E r \in Parts, e \in Parts : q = <<r, slot, e>>
  <2>1. q \in Seq(Parts) /\ Len(q) = 3
    BY <1>3 DEF Fits
  <2>2. ASSUME IsStrictPrefix(q, goal) PROVE FALSE
    <3>1. Len(q) < Len(goal)
      BY <1>1, <2>1, <2>2, PrefixOfLonger
    <3> QED
      BY <1>1, <2>1, <3>1
  <2>3. ASSUME IsStrictPrefix(goal, q) PROVE FALSE
    <3>1. Len(goal) < Len(q)
      BY <1>1, <2>1, <2>3, PrefixOfLonger
    <3> QED
      BY <1>1, <2>1, <3>1
  <2> QED
    BY <2>2, <2>3 DEF goal
<1> QED
  BY <1>2, <1>3

\* One root after the others: the loop's body in StagedTree.
Lay(cells, listed, slot, roots, to, root) ==
  IF ~to.ok THEN to
  ELSE Extract(cells, listed, Without(to.tree, <<root, slot>>), <<root, slot>>,
               [path \in Names(listed) |-> Remap(path, slot, roots)], TRUE)

\* The next root is cleared and laid over.
LEMMA RootIsLaid ==
  ASSUME NEW mod, NEW over, NEW slot, NEW roots, Fits(mod, over, slot, roots),
         NEW order, Ordered(order, over), NEW local, NEW cells, Archive(cells, over, order, local),
         NEW done \in SUBSET roots, NEW root \in roots \ done,
         NEW to, StagedFor(to, mod, over, slot, done)
  PROVE  StagedFor(Lay(cells, Central(local, over, order), slot, roots, to, root),
                   mod, over, slot, done \cup {root})
<1> DEFINE n == Len(order)
           listed == Central(local, over, order)
           base == <<root, slot>>
           places == [path \in Names(listed) |-> Remap(path, slot, roots)]
           tree == Without(to.tree, base)
           new == Extract(cells, listed, tree, base, places, TRUE)
           all == done \cup {root}
           kept == KeptOf(mod, slot, done)
           put == LaidFiles(over, slot, done)
           aim(p) == <<root, slot, p[3]>>
<1>1. \A p \in DOMAIN over : places[p] = <<p[3]>> /\ Target(base, places, p) = aim(p)
  BY GoesTo
<1>2. n \in Nat /\ (\A i \in 1..n : order[i] \in DOMAIN over)
      /\ \A p \in DOMAIN over : \E i \in 1..n : order[i] = p
  BY LenProperties, ElementOfSeq DEF Ordered
<1>3. roots \subseteq Parts /\ slot \in Parts
  BY RootsAreParts DEF Fits
<1>4. \A p \in DOMAIN over : p[3] \in Parts
  <2> SUFFICES ASSUME NEW p \in DOMAIN over PROVE p[3] \in Parts
    OBVIOUS
  <2>1. p \in Seq(Parts) /\ Len(p) = 3
    BY DEF Fits, IsFolder
  <2>2. 3 \in 1..Len(p)
    BY <2>1
  <2> QED
    BY <2>1, <2>2, ElementOfSeq
<1>5. \A p \in DOMAIN mod : IsPrefix(base, p) <=> p[1] = root /\ p[2] = slot
  <2> SUFFICES ASSUME NEW p \in DOMAIN mod
               PROVE  IsPrefix(base, p) <=> p[1] = root /\ p[2] = slot
    OBVIOUS
  <2>1. p \in Seq(Parts) /\ Len(p) >= 2
    BY DEF Fits, IsFolder
  <2> QED
    BY <2>1, PrefixOfTwo
<1>6. \A r \in Parts, c \in Parts : IsPrefix(base, <<r, slot, c>>) <=> r = root
  <2> SUFFICES ASSUME NEW r \in Parts, NEW c \in Parts
               PROVE  IsPrefix(base, <<r, slot, c>>) <=> r = root
    OBVIOUS
  <2> DEFINE q == <<r, slot, c>>
  <2>1. q \in Seq(Parts) /\ Len(q) >= 2 /\ q[1] = r /\ q[2] = slot
    BY <1>3
  <2> HIDE DEF q
  <2>2. IsPrefix(base, q) <=> q[1] = root /\ q[2] = slot
    BY <2>1, PrefixOfTwo
  <2>3. IsPrefix(base, q) <=> r = root
    BY <2>1, <2>2
  <2> QED
    BY <2>3 DEF q
<1>7. /\ to = [ok |-> TRUE, tree |-> to.tree]
      /\ DOMAIN to.tree = kept \cup put
      /\ \A p \in kept : to.tree[p] = mod[p]
      /\ \A p \in put : \E q \in DOMAIN over : q[3] = p[3] /\ to.tree[p] = over[q]
  BY DEF StagedFor
<1>8. DOMAIN tree = {p \in kept \cup put : ~IsPrefix(base, p)} /\ \A p \in DOMAIN tree : tree[p] = to.tree[p]
  BY <1>7 DEF Without, Restrict
<1> HIDE DEF tree, base, places
<1>9. {p \in kept : ~IsPrefix(base, p)} = KeptOf(mod, slot, all)
  <2>1. ASSUME NEW p \in DOMAIN mod
        PROVE  (p[1] \in done => ~IsPrefix(<<p[1], slot>>, p)) /\ ~IsPrefix(base, p)
                 <=> (p[1] \in all => ~IsPrefix(<<p[1], slot>>, p))
    <3>1. CASE p[1] = root
      BY <3>1 DEF base
    <3>2. CASE p[1] # root
      BY <1>5, <3>2
    <3> QED
      BY <3>1, <3>2
  <2> QED
    BY <2>1 DEF KeptOf
<1>10. \A p \in put : ~IsPrefix(base, p) /\ \E r \in done, c \in Parts : p = <<r, slot, c>>
  <2> SUFFICES ASSUME NEW r \in done, NEW s \in DOMAIN over
               PROVE  LET p == <<r, slot, s[3]>> IN
                      ~IsPrefix(base, p) /\ \E e \in done, c \in Parts : p = <<e, slot, c>>
    BY DEF LaidFiles
  <2>1. r \in Parts /\ r # root /\ s[3] \in Parts
    BY <1>3, <1>4
  <2> QED
    BY <1>6, <2>1
<1>11. DOMAIN tree = KeptOf(mod, slot, all) \cup put
  BY <1>8, <1>9, <1>10
<1>12. FreeFor(over, base, places, DOMAIN tree)
  <2> SUFFICES ASSUME NEW p \in DOMAIN over,
                      NEW q \in DOMAIN tree \cup {Target(base, places, s) : s \in DOMAIN over}
               PROVE  /\ places[p] # <<>>
                      /\ ~IsStrictPrefix(q, Target(base, places, p))
                      /\ ~IsStrictPrefix(Target(base, places, p), q)
    <3>1. \A p \in DOMAIN over : places[p] # <<>>
      <4>1. \A c : <<c>> # <<>>
        OBVIOUS
      <4> QED
        BY <1>1, <4>1
    <3> QED
      BY <3>1 DEF FreeFor
  <2>1. places[p] # <<>>
    <3>1. \A c : <<c>> # <<>>
      OBVIOUS
    <3> QED
      BY <1>1, <3>1
  <2>2. \/ q \in DOMAIN mod /\ ~IsPrefix(base, q)
        \/ \E r \in Parts, e \in Parts : q = <<r, slot, e>>
    <3>1. CASE q \in DOMAIN tree
      <4>1. CASE q \in kept
        BY <1>8, <3>1, <4>1 DEF KeptOf
      <4>2. CASE q \in put
        BY <1>3, <1>10, <4>2
      <4> QED
        BY <1>8, <3>1, <4>1, <4>2
    <3>2. CASE \E s \in DOMAIN over : q = Target(base, places, s)
      BY <1>1, <1>3, <1>4, <3>2
    <3> QED
      BY <3>1, <3>2
  <2>3. p[3] \in Parts /\ root \in roots
    BY <1>4
  <2>4. ~IsStrictPrefix(q, <<root, slot, p[3]>>) /\ ~IsStrictPrefix(<<root, slot, p[3]>>, q)
    BY <2>2, <2>3, SlotIsFree DEF base
  <2> QED
    BY <1>1, <2>1, <2>4
<1>13. LaidOver(new, tree, over, order, base, places, n)
  BY <1>12, OverlayIsLaid
<1>14. Lay(cells, listed, slot, roots, to, root) = new
  <2>1. to.ok = TRUE
    BY <1>7
  <2> QED
    BY <2>1 DEF Lay, base, places, tree
<1> HIDE DEF new, listed, kept, put, all, n
<1>15. \A i \in 1..n : Target(base, places, order[i]) = aim(order[i])
  BY <1>1, <1>2
<1>16. /\ new = [ok |-> TRUE, tree |-> new.tree]
       /\ DOMAIN new.tree = DOMAIN tree \cup {aim(order[i]) : i \in 1..n}
       /\ \A q \in DOMAIN tree : (\A i \in 1..n : q # aim(order[i])) => new.tree[q] = tree[q]
       /\ \A i \in 1..n : \E j \in 1..n :
            aim(order[j]) = aim(order[i]) /\ new.tree[aim(order[i])] = over[order[j]]
  <2>1. DOMAIN new.tree = DOMAIN tree \cup {Target(base, places, order[i]) : i \in 1..n}
    BY <1>13 DEF LaidOver
  <2>2. {Target(base, places, order[i]) : i \in 1..n} = {aim(order[i]) : i \in 1..n}
    BY <1>15
  <2>3. \A q \in DOMAIN tree : (\A i \in 1..n : q # Target(base, places, order[i])) => new.tree[q] = tree[q]
    BY <1>13 DEF LaidOver
  <2>4. \A i \in 1..n : \E j \in 1..n :
          /\ Target(base, places, order[j]) = Target(base, places, order[i])
          /\ new.tree[Target(base, places, order[i])] = over[order[j]]
    BY <1>13 DEF LaidOver
  <2>5. new = [ok |-> TRUE, tree |-> new.tree]
    BY <1>13 DEF LaidOver
  <2>6. \A q \in DOMAIN tree : (\A i \in 1..n : q # aim(order[i])) => new.tree[q] = tree[q]
    BY <1>15, <2>3
  <2>7. ASSUME NEW i \in 1..n
        PROVE  \E j \in 1..n : aim(order[j]) = aim(order[i]) /\ new.tree[aim(order[i])] = over[order[j]]
    BY <1>15, <2>4
  <2> QED
    BY <2>1, <2>2, <2>5, <2>6, <2>7
<1>17. LaidFiles(over, slot, all) = put \cup {aim(order[i]) : i \in 1..n}
  <2>1. {aim(order[i]) : i \in 1..n} = {aim(p) : p \in DOMAIN over}
    BY <1>2
  <2>2. LaidFiles(over, slot, all) = put \cup {aim(p) : p \in DOMAIN over}
    BY DEF LaidFiles, put, all
  <2> QED
    BY <2>1, <2>2
<1>18. DOMAIN new.tree = KeptOf(mod, slot, all) \cup LaidFiles(over, slot, all)
  BY <1>11, <1>16, <1>17
<1>19. \A i \in 1..n : IsPrefix(base, aim(order[i]))
  <2> SUFFICES ASSUME NEW i \in 1..n PROVE IsPrefix(base, aim(order[i]))
    OBVIOUS
  <2>1. root \in Parts /\ order[i][3] \in Parts
    BY <1>2, <1>3, <1>4
  <2> QED
    BY <1>6, <2>1
<1>20. \A q \in DOMAIN tree : ~IsPrefix(base, q)
  BY <1>8
<1>21. \A q \in DOMAIN tree : new.tree[q] = to.tree[q]
  BY <1>8, <1>16, <1>19, <1>20
<1>22. \A p \in KeptOf(mod, slot, all) : new.tree[p] = mod[p]
  <2>1. \A p \in KeptOf(mod, slot, all) : p \in kept /\ p \in DOMAIN tree
    BY <1>9, <1>11
  <2> QED
    BY <1>7, <1>21, <2>1 DEF kept
<1>23. ASSUME NEW p \in LaidFiles(over, slot, all)
       PROVE  \E q \in DOMAIN over : q[3] = p[3] /\ new.tree[p] = over[q]
  <2>1. CASE p \in put
    <3>1. p \in DOMAIN tree
      BY <1>11, <2>1
    <3> QED
      BY <1>7, <1>21, <2>1, <3>1 DEF put
  <2>2. CASE \E i \in 1..n : p = aim(order[i])
    <3>1. PICK i \in 1..n : p = aim(order[i])
      BY <2>2
    <3>2. PICK j \in 1..n : aim(order[j]) = p /\ new.tree[p] = over[order[j]]
      BY <1>16, <3>1
    <3>3. order[j][3] = p[3]
      <4>1. aim(order[j])[3] = order[j][3]
        OBVIOUS
      <4> HIDE DEF aim
      <4> QED
        BY <3>2, <4>1
    <3> QED
      BY <1>2, <3>2, <3>3
  <2> QED
    BY <1>17, <2>1, <2>2
<1>24. StagedFor(new, mod, over, slot, all)
  BY <1>16, <1>18, <1>22, <1>23 DEF StagedFor
<1> QED
  BY <1>14, <1>24 DEF all, listed

\* The roots in the order in which they are done.
LEMMA SequenceOfRoots ==
  ASSUME NEW roots, IsFiniteSet(roots)
  PROVE  LET order == SetToSeq(roots) IN
         /\ Len(order) \in Nat /\ \A i \in 1..Len(order) : order[i] \in roots
         /\ \A i, j \in 1..Len(order) : i # j => order[i] # order[j]
         /\ \A r \in roots : \E i \in 1..Len(order) : order[i] = r
<1> DEFINE n == Cardinality(roots)
           order == SetToSeq(roots)
<1>1. n \in Nat /\ ExistsBijection(1..n, roots)
  BY FS_CardinalityType
<1>2. \E f \in [1..n -> roots] : IsInjective(f)
  BY <1>1 DEF ExistsBijection, Bijection, Injection
<1>3. order \in [1..n -> roots] /\ IsInjective(order)
  BY <1>2, Zenon DEF SetToSeq
<1> HIDE DEF order
<1>4. order \in Injection(1..n, roots)
  BY <1>3 DEF Injection
<1>5. Cardinality(1..n) = n
  BY <1>1, FS_Interval
<1>6. order \in Surjection(1..n, roots)
  <2> DEFINE m == Cardinality(roots)
  <2>1. Cardinality(1..n) = Cardinality(roots)
    BY <1>5
  <2> QED
    BY <1>4, <2>1, FS_Injection
<1> HIDE DEF n
<1>7. Len(order) = n
  BY <1>1, <1>3
<1>8. \A i, j \in 1..n : i # j => order[i] # order[j]
  BY <1>3 DEF IsInjective
<1>9. \A r \in roots : \E i \in 1..n : order[i] = r
  BY <1>6 DEF Surjection
<1> QED
  BY <1>1, <1>3, <1>7, <1>8, <1>9 DEF order

\* What there is after each of the roots, and what StagedTree returns.
Stages(after, cells, slot, overlay, roots) ==
  LET order == SetToSeq(roots) IN
  /\ after[0] = Unpack(cells, ListZipFile(cells))
  /\ \A k \in 1..Len(order) :
       after[k] = Lay(overlay, ListZipFile(overlay), slot, roots, after[k - 1], order[k])
  /\ StagedTree(cells, slot, overlay, roots) = after[Len(order)]

\* The recursion of StagedTree has a solution.
LEMMA StagedTreeSteps ==
  ASSUME NEW cells, NEW slot, NEW overlay, NEW roots, Len(SetToSeq(roots)) \in Nat
  PROVE  \E after : Stages(after, cells, slot, overlay, roots)
<1> DEFINE order == SetToSeq(roots)
           n == Len(order)
           listed == ListZipFile(overlay)
           first == Unpack(cells, ListZipFile(cells))
           body(f, k) == IF k = 0 THEN first ELSE Lay(overlay, listed, slot, roots, f[k - 1], order[k])
           T == {m \in Nat : \E f : f = [k \in 0..m |-> body(f, k)]}
           after == CHOOSE f : f = [k \in 0..n |-> body(f, k)]
<1>1. StagedTree(cells, slot, overlay, roots) = after[n]
  BY Zenon DEF StagedTree, Lay
<1>n. n \in Nat
  OBVIOUS
<1> HIDE DEF after, n, first, order, listed
<1>2. 0 \in T
  <2> DEFINE f == [k \in 0..0 |-> first]
  <2>1. f = [k \in 0..0 |-> body(f, k)]
    OBVIOUS
  <2> HIDE DEF f
  <2> QED
    BY <2>1
<1>3. ASSUME NEW m \in T PROVE m + 1 \in T
  <2>1. PICK f : f = [k \in 0..m |-> body(f, k)]
    BY <1>3
  <2> DEFINE last == Lay(overlay, listed, slot, roots, f[m], order[m + 1])
             g == [k \in 0..m + 1 |-> IF k \in 0..m THEN f[k] ELSE last]
  <2>2. ASSUME NEW k \in 0..m + 1 PROVE g[k] = body(g, k)
    <3>1. CASE k = 0
      BY <2>1, <3>1
    <3>2. CASE k \in 1..m
      <4>1. k - 1 \in 0..m /\ k \in 0..m /\ k # 0
        BY <3>2
      <4> QED
        BY <2>1, <4>1
    <3>3. CASE k = m + 1
      <4>1. k - 1 = m /\ m \in 0..m /\ k \notin 0..m /\ k # 0
        BY <3>3
      <4>2. g[k] = last /\ g[k - 1] = f[m]
        BY <4>1
      <4> QED
        BY <4>1, <4>2, <3>3
    <3> QED
      BY <3>1, <3>2, <3>3
  <2>3. g = [k \in 0..m + 1 |-> body(g, k)]
    BY <2>2
  <2> HIDE DEF g, body
  <2> QED
    BY <2>3
<1>4. \E f : f = [k \in 0..n |-> body(f, k)]
  <2>1. T \in SUBSET Nat
    OBVIOUS
  <2> HIDE DEF T
  <2>2. n \in T
    BY <1>2, <1>3, <1>n, <2>1, Upwards
  <2> QED
    BY <2>2 DEF T
<1>5. after = [k \in 0..n |-> body(after, k)]
  BY <1>4 DEF after
<1>6. after[0] = first
  BY <1>5, <1>n
<1>7. ASSUME NEW k \in 1..n
      PROVE  after[k] = Lay(overlay, listed, slot, roots, after[k - 1], order[k])
  <2>1. k \in 0..n /\ k # 0
    BY <1>n
  <2> HIDE DEF body
  <2>2. after[k] = body(after, k)
    BY <1>5, <2>1
  <2> QED
    BY <2>1, <2>2 DEF body
<1>8. Stages(after, cells, slot, overlay, roots)
  BY <1>1, <1>6, <1>7 DEF Stages, n, first, order, listed
<1> QED
  BY <1>8

\* Every root is done once.
LEMMA AllRootsAreLaid ==
  ASSUME NEW mod, NEW over, NEW slot, NEW roots, Fits(mod, over, slot, roots),
         NEW order \in SetToSeqs(DOMAIN mod), NEW above \in SetToSeqs(DOMAIN over)
  PROVE  StagedFor(StagedTree(Build(mod, order), slot, Build(over, above), roots),
                   mod, over, slot, roots)
<1> DEFINE cells == Build(mod, order)
           overlay == Build(over, above)
           turns == SetToSeq(roots)
           n == Len(turns)
<1>1. IsFolder(mod) /\ Packable(mod) /\ IsFolder(over) /\ Packable(over)
  BY DEF Fits
<1>2. Ordered(order, mod) /\ Ordered(above, over)
  BY <1>1, OrderIsComplete DEF IsFolder
<1>3. PICK local : Archive(overlay, over, above, local)
  BY <1>1, <1>2, BuildLayout
<1>4. ListZipFile(overlay) = Central(local, over, above)
  BY <1>1, <1>2, <1>3, ListedAsBuilt
<1>5. Unpack(cells, ListZipFile(cells)) = [ok |-> TRUE, tree |-> mod]
  BY <1>1, <1>2, GoodComesOut
<1>6. IsFiniteSet(roots)
  <2> DEFINE f == [p \in DOMAIN mod |-> p[1]]
  <2>1. f \in Surjection(DOMAIN mod, roots)
    BY DEF Surjection, Fits, RootsOf
  <2>2. IsFiniteSet(DOMAIN mod)
    BY <1>1 DEF IsFolder
  <2> HIDE DEF f
  <2> QED
    BY <2>1, <2>2, FS_Surjection
<1>7. /\ n \in Nat /\ \A i \in 1..n : turns[i] \in roots
      /\ \A i, j \in 1..n : i # j => turns[i] # turns[j]
      /\ \A r \in roots : \E i \in 1..n : turns[i] = r
  BY <1>6, SequenceOfRoots
<1> HIDE DEF cells, overlay
<1>8. PICK after : /\ after[0] = Unpack(cells, ListZipFile(cells))
                   /\ \A k \in 1..n :
                        after[k] = Lay(overlay, ListZipFile(overlay), slot, roots, after[k - 1], turns[k])
                   /\ StagedTree(cells, slot, overlay, roots) = after[n]
  <2>1. \E after : Stages(after, cells, slot, overlay, roots)
    BY <1>7, StagedTreeSteps
  <2> QED
    BY <2>1 DEF Stages
<1> HIDE DEF turns, n
<1> DEFINE done(m) == {turns[i] : i \in 1..m}
           good(m) == StagedFor(after[m], mod, over, slot, done(m))
           T == {m \in Nat : m <= n => good(m)}
<1>9. 0 \in T
  <2>1. done(0) = {}
    OBVIOUS
  <2>2. KeptOf(mod, slot, {}) = DOMAIN mod /\ LaidFiles(over, slot, {}) = {}
    BY DEF KeptOf, LaidFiles
  <2> DEFINE first == [ok |-> TRUE, tree |-> mod]
  <2>3. first.tree = mod /\ first = [ok |-> TRUE, tree |-> first.tree]
    OBVIOUS
  <2>4. StagedFor(first, mod, over, slot, {})
    <3> HIDE DEF first
    <3> QED
      BY <2>2, <2>3 DEF StagedFor
  <2>5. after[0] = first
    BY <1>5, <1>8
  <2> HIDE DEF first, done
  <2> QED
    BY <2>1, <2>4, <2>5
<1>10. ASSUME NEW m \in T PROVE m + 1 \in T
  <2> SUFFICES ASSUME m + 1 <= n PROVE good(m + 1)
    OBVIOUS
  <2>1. m \in Nat /\ m <= n /\ m + 1 \in 1..n /\ m + 1 - 1 = m /\ \A i \in 1..m : i \in 1..n /\ i # m + 1
    BY <1>7
  <2>2. good(m)
    BY Zenon, <2>1
  <2> DEFINE root == turns[m + 1]
             listed == Central(local, over, above)
  <2>3. done(m) \in SUBSET roots /\ root \in roots \ done(m)
    <3>1. \A i \in 1..m : turns[i] \in roots /\ turns[i] # root
      BY <1>7, <2>1
    <3>2. root \in roots
      BY <1>7, <2>1
    <3> HIDE DEF root
    <3> QED
      BY <3>1, <3>2
  <2>4. done(m + 1) = done(m) \cup {root}
    <3>1. \A i : i \in 1..m + 1 <=> i \in 1..m \/ i = m + 1
      BY <2>1
    <3> QED
      BY <3>1
  <2> HIDE DEF T, done
  <2>5. after[m + 1] = Lay(overlay, listed, slot, roots, after[m], root)
    <3> DEFINE j == m + 1
    <3>1. j \in 1..n /\ j - 1 = m
      BY <2>1
    <3> HIDE DEF j, listed
    <3>2. after[j] = Lay(overlay, ListZipFile(overlay), slot, roots, after[j - 1], turns[j])
      BY Zenon, <1>8, <3>1
    <3>3. after[j] = Lay(overlay, ListZipFile(overlay), slot, roots, after[m], turns[j])
      BY Zenon, <3>1, <3>2
    <3>4. ListZipFile(overlay) = listed
      BY <1>4 DEF listed
    <3> QED
      BY Zenon, <3>3, <3>4 DEF j
  <2> DEFINE before == done(m)
             to == after[m]
  <2>6. StagedFor(to, mod, over, slot, before)
    BY <2>2
  <2>7. before \in SUBSET roots /\ root \in roots \ before
    BY <2>3
  <2> HIDE DEF before, to, root
  <2>8. StagedFor(Lay(overlay, listed, slot, roots, to, root), mod, over, slot, before \cup {root})
    BY <1>2, <1>3, <2>6, <2>7, RootIsLaid
  <2> HIDE DEF listed
  <2>9. after[m + 1] = Lay(overlay, listed, slot, roots, to, root) /\ done(m + 1) = before \cup {root}
    BY Zenon, <2>4, <2>5 DEF to, before
  <2> QED
    BY Zenon, <2>8, <2>9
<1>11. n \in T
  <2>1. T \in SUBSET Nat
    OBVIOUS
  <2> HIDE DEF T
  <2> QED
    BY <1>7, <1>9, <1>10, <2>1, Upwards
<1>12. good(n)
  <2> HIDE DEF good
  <2> QED
    BY <1>7, <1>11
<1>13. done(n) = roots
  BY <1>7
<1> HIDE DEF done
<1> QED
  BY <1>8, <1>12, <1>13 DEF cells, overlay

\* The tree that is staged is what OverlayFillsSlot says.
LEMMA Filled ==
  ASSUME NEW pair \in Layers, NEW slot \in SlotsOf(pair.mod),
         \A p \in DOMAIN pair.mod : Len(p) >= 2,
         Packable(pair.mod), Packable(pair.over),
         \A p \in DOMAIN pair.over :
           Len(p) = 3 /\ p[1] \in RootsOf(pair.mod) /\ LowerCase[p[2]] = LowerCase[slot],
         NEW mod \in Builds(pair.mod), NEW over \in Builds(pair.over)
  PROVE  LET roots == RootsOf(pair.mod)
             kept == KeptFiles(pair.mod, slot)
             laid == LaidFiles(pair.over, slot, roots)
             result == StagedTree(mod, slot, over, roots)
         IN /\ result.ok /\ DOMAIN result.tree = kept \cup laid
            /\ \A p \in kept : result.tree[p] = pair.mod[p]
            /\ \A p \in laid : \E q \in DOMAIN pair.over :
                 q[3] = p[3] /\ result.tree[p] = pair.over[q]
<1> DEFINE roots == RootsOf(pair.mod)
           kept == KeptFiles(pair.mod, slot)
           laid == LaidFiles(pair.over, slot, roots)
           result == StagedTree(mod, slot, over, roots)
<1>1. IsFolder(pair.mod) /\ IsFolder(pair.over)
  BY ArchivesAssumption
<1>2. slot \in Parts
  <2>1. PICK p \in DOMAIN pair.mod : Len(p) >= 2 /\ slot = p[2]
    BY DEF SlotsOf
  <2>2. p \in Seq(Parts) /\ 2 \in 1..Len(p)
    BY <1>1, <2>1, LenProperties DEF IsFolder
  <2> QED
    BY <2>1, <2>2, ElementOfSeq
<1>3. Fits(pair.mod, pair.over, slot, roots)
  BY <1>1, <1>2 DEF Fits
<1>4. PICK order \in SetToSeqs(DOMAIN pair.mod) : mod = Build(pair.mod, order)
  BY DEF Builds
<1>5. PICK above \in SetToSeqs(DOMAIN pair.over) : over = Build(pair.over, above)
  BY DEF Builds
<1>6. StagedFor(result, pair.mod, pair.over, slot, roots)
  BY <1>3, <1>4, <1>5, AllRootsAreLaid
<1>7. kept = KeptOf(pair.mod, slot, roots)
  BY DEF KeptOf, KeptFiles, RootsOf
<1>8. laid = LaidFiles(pair.over, slot, roots)
  OBVIOUS
<1> HIDE DEF result, kept, laid, roots
<1>9. result.ok /\ DOMAIN result.tree = kept \cup laid
  BY <1>6, <1>7, <1>8 DEF StagedFor
<1>10. \A p \in kept : result.tree[p] = pair.mod[p]
  BY <1>6, <1>7 DEF StagedFor
<1>11. \A p \in laid : \E q \in DOMAIN pair.over : q[3] = p[3] /\ result.tree[p] = pair.over[q]
  BY <1>6, <1>8 DEF StagedFor
<1> QED
  BY <1>9, <1>10, <1>11 DEF result, kept, laid, roots

\* An archive that is laid out like the mod, and the mod, in folders: in the
\* tree that the updater installs and the server bundle ships
\* (assembleServerModTree), every folder of the mod has in its slot what was
\* submitted, and elsewhere what the mod has.  For every mod, overlay and slot
\* that suggestContentSlots finds.
THEOREM OverlayFillsSlotCorrect ==
  ASSUME \A pair \in Layers : \A p \in DOMAIN pair.mod : Len(p) >= 2
  PROVE  OverlayFillsSlot
<1>1. ASSUME NEW pair \in Layers, NEW slot \in SlotsOf(pair.mod),
             Packable(pair.mod), Packable(pair.over),
             \A p \in DOMAIN pair.over :
               Len(p) = 3 /\ p[1] \in RootsOf(pair.mod) /\ LowerCase[p[2]] = LowerCase[slot]
      PROVE  \A mod \in Builds(pair.mod), over \in Builds(pair.over) :
               LET roots == RootsOf(pair.mod)
                   kept == KeptFiles(pair.mod, slot)
                   laid == LaidFiles(pair.over, slot, roots)
                   result == StagedTree(mod, slot, over, roots)
               IN /\ result.ok /\ DOMAIN result.tree = kept \cup laid
                  /\ \A p \in kept : result.tree[p] = pair.mod[p]
                  /\ \A p \in laid : \E q \in DOMAIN pair.over :
                       q[3] = p[3] /\ result.tree[p] = pair.over[q]
  <2>1. \A p \in DOMAIN pair.mod : Len(p) >= 2
    OBVIOUS
  <2> QED
    BY Zenon, <1>1, <2>1, Filled
<1> QED
  BY Zenon, <1>1 DEF OverlayFillsSlot

(***************************************************************************)
(* Damage.                                                                 *)
(***************************************************************************)
\* Whatever is among the cells, the records are records of the folder.
RecordsOf(cells, tree) ==
  \A i \in DOMAIN cells :
    cells[i].kind = "central" =>
      cells[i].name \in DOMAIN tree /\ cells[i].crc = tree[cells[i].name]

\* What a reader lists, it has found among the cells.
LEMMA ListedIsThere ==
  ASSUME NEW S, NEW cells \in Seq(S), Numbered(cells), ListZipFile(cells) # Unreadable
  PROVE  /\ Len(ListZipFile(cells)) \in Nat
         /\ DOMAIN ListZipFile(cells) = 1..Len(ListZipFile(cells))
         /\ \A i \in 1..Len(ListZipFile(cells)) :
              /\ ListZipFile(cells)[i].kind = "central"
              /\ \E j \in DOMAIN cells : ListZipFile(cells)[i] = cells[j]
<1> DEFINE e == EndOf(cells)
           m == Len(cells)
           a == e.at
           s == e.size
           c == e.count
           sub == SubSeq(cells, a + 1, a + s)
           listed == SubSeq(sub, 1, c)
<1>1. EndsAt(cells) # {} /\ ~(a + s > m)
  BY Zenon DEF ListZipFile
<1>2. m \in Nat /\ DOMAIN cells = 1..m /\ \A i \in 1..m : cells[i] \in S
  BY LenProperties, ElementOfSeq
<1>3. a \in Nat /\ s \in Nat /\ c \in Nat
  BY <1>1, EndIsNumbered
<1>4. ListZipFile(cells) = Directory(sub, 0, c)
  BY <1>1 DEF ListZipFile
<1> HIDE DEF e, m, a, s, c, sub, listed
<1>5. sub \in Seq(S) /\ Len(sub) = s /\ \A i \in 1..s : \E j \in DOMAIN cells : sub[i] = cells[j]
  <2> DEFINE lo == a + 1
             hi == a + s
  <2>1. lo \in Int /\ hi \in Int /\ (\A i \in lo..hi : i \in 1..m)
        /\ (IF lo <= hi THEN hi - lo + 1 = s ELSE s = 0)
        /\ \A i \in 1..s : lo + i - 1 \in 1..m /\ i \in 1..hi - lo + 1
    BY <1>1, <1>2, <1>3
  <2> HIDE DEF lo, hi
  <2>2. \A i \in lo..hi : cells[i] \in S
    BY <1>2, <2>1
  <2>3. /\ SubSeq(cells, lo, hi) \in Seq(S)
        /\ Len(SubSeq(cells, lo, hi)) = IF lo <= hi THEN hi - lo + 1 ELSE 0
        /\ \A i \in 1..hi - lo + 1 : SubSeq(cells, lo, hi)[i] = cells[lo + i - 1]
    BY <2>1, <2>2, SubSeqProperties
  <2>4. sub = SubSeq(cells, lo, hi)
    BY DEF sub, lo, hi
  <2>5. ASSUME NEW i \in 1..s PROVE \E j \in DOMAIN cells : sub[i] = cells[j]
    BY <1>2, <2>1, <2>3, <2>4
  <2> QED
    BY <2>1, <2>3, <2>4, <2>5
<1>6. c <= s /\ listed = ListZipFile(cells) /\ GoodRecords(listed)
  <2>1. 0 + c = c /\ 0 + 1 = 1
    BY <1>3
  <2> QED
    BY <1>3, <1>4, <1>5, <2>1 DEF Directory, listed
<1>7. listed \in Seq(S) /\ Len(listed) = c /\ \A i \in 1..c : listed[i] = sub[i]
  <2>1. \A i \in 1..c : i \in 1..s
    BY <1>3, <1>6
  <2>2. \A i \in 1..c : sub[i] \in S
    BY <1>5, <2>1, ElementOfSeq
  <2>3. /\ listed \in Seq(S)
        /\ Len(listed) = IF 1 <= c THEN c - 1 + 1 ELSE 0
        /\ \A i \in 1..c - 1 + 1 : listed[i] = sub[1 + i - 1]
    BY <1>3, <2>2, SubSeqProperties DEF listed
  <2>4. Len(listed) = c
    BY <1>3, <2>3
  <2>5. ASSUME NEW i \in 1..c PROVE listed[i] = sub[i]
    <3>1. i \in 1..c - 1 + 1 /\ 1 + i - 1 = i
      BY <1>3
    <3> QED
      BY <2>3, <3>1
  <2> QED
    BY <2>3, <2>4, <2>5
<1>8. DOMAIN listed = 1..Len(listed)
  BY <1>7, LenProperties
<1>9. \A i \in 1..c : listed[i].kind = "central"
  BY <1>6, <1>7, <1>8 DEF GoodRecords
<1>10. \A i \in 1..c : \E j \in DOMAIN cells : listed[i] = cells[j]
  <2>1. \A i \in 1..c : i \in 1..s
    BY <1>3, <1>6
  <2> QED
    BY <1>5, <1>7, <2>1
<1> QED
  BY <1>3, <1>6, <1>7, <1>8, <1>9, <1>10

\* Only what the folder has is on the disk.
OnlyOf(to, tree) ==
  /\ to = [ok |-> to.ok, tree |-> to.tree]
  /\ \A p \in DOMAIN to.tree : p \in DOMAIN tree /\ to.tree[p] = tree[p]

\* A record of the folder writes the file it names, or nothing: the content is
\* compared with what the record says of it.
LEMMA EntryKeepsOnly ==
  ASSUME NEW tree, IsFolder(tree), NEW cells, NEW r,
         r.name \in DOMAIN tree, r.crc = tree[r.name],
         NEW places, places[r.name] = r.name, NEW to, OnlyOf(to, tree)
  PROVE  OnlyOf(ExtractEntry(cells, <<>>, places, FALSE, to, r), tree)
<1> DEFINE path == r.name
           goal == <<>> \o places[path]
           content == SubSeq(cells, r.at + 2, r.at + 1 + r.size)
           old == to.tree
           o == to.ok
           new == With(old, goal, content)
           result == ExtractEntry(cells, <<>>, places, FALSE, to, r)
<1>1. goal = path
  <2>1. path \in Seq(Parts)
    BY DEF IsFolder
  <2> QED
    BY <2>1, ConcatEmptySeq
<1>2. to = [ok |-> o, tree |-> old] /\ \A p \in DOMAIN old : p \in DOMAIN tree /\ old[p] = tree[p]
  BY Zenon DEF OnlyOf
<1>3. CASE ~to.ok \/ places[r.name] = <<>>
  <2>1. result = to
    BY Zenon, <1>3 DEF ExtractEntry
  <2> QED
    BY Zenon, <2>1
<1> DEFINE stops == \/ ~Intact(cells, r) \/ Blocked(to.tree, goal)
                    \/ goal \in DOMAIN to.tree /\ ~FALSE
<1>4. CASE ~(~to.ok \/ places[r.name] = <<>>) /\ stops
  <2>1. result = [to EXCEPT !.ok = FALSE]
    BY Zenon, <1>4 DEF ExtractEntry
  <2> DEFINE no == FALSE
  <2> HIDE DEF old, o, no
  <2>2. [[ok |-> o, tree |-> old] EXCEPT !.ok = no] = [ok |-> no, tree |-> old]
    OBVIOUS
  <2>3. [to EXCEPT !.ok = FALSE] = [ok |-> no, tree |-> old]
    BY Zenon, <1>2, <2>2 DEF no
  <2>4. [ok |-> no, tree |-> old].ok = no /\ [ok |-> no, tree |-> old].tree = old
    OBVIOUS
  <2> DEFINE next == [ok |-> no, tree |-> old]
  <2>5. next = [ok |-> next.ok, tree |-> next.tree]
    BY Zenon, <2>4
  <2>6. \A p \in DOMAIN next.tree : p \in DOMAIN tree /\ next.tree[p] = tree[p]
    BY Zenon, <1>2, <2>4
  <2> HIDE DEF next
  <2>7. OnlyOf(next, tree)
    BY Zenon, <2>5, <2>6 DEF OnlyOf
  <2> QED
    BY Zenon, <2>1, <2>3, <2>7 DEF next
<1>5. CASE ~(~to.ok \/ places[r.name] = <<>>) /\ ~stops
  <2>1. result = [to EXCEPT !.tree = With(@, goal, content)]
    BY Zenon, <1>5 DEF ExtractEntry
  <2>2. [to EXCEPT !.tree = With(@, goal, content)] = [to EXCEPT !.tree = new]
    BY Zenon
  <2>3. content = tree[path]
    BY Zenon, <1>5 DEF Intact
  <2>4. DOMAIN new = DOMAIN old \cup {goal} /\ new[goal] = content
        /\ \A q \in DOMAIN old : q # goal => new[q] = old[q]
    <3> HIDE DEF goal, content, old
    <3> QED
      BY DEF With
  <2> HIDE DEF old, o, new, goal, content, path
  <2>5. \A p \in DOMAIN new : p \in DOMAIN tree /\ new[p] = tree[p]
    <3>1. path \in DOMAIN tree
      BY DEF path
    <3> QED
      BY <1>1, <1>2, <2>3, <2>4, <3>1
  <2>6. [[ok |-> o, tree |-> old] EXCEPT !.tree = new] = [ok |-> o, tree |-> new]
    BY SetTree
  <2>7. [to EXCEPT !.tree = new] = [ok |-> o, tree |-> new]
    BY Zenon, <1>2, <2>6
  <2> DEFINE next == [ok |-> o, tree |-> new]
  <2>8. next.ok = o /\ next.tree = new
    OBVIOUS
  <2>9. next = [ok |-> next.ok, tree |-> next.tree]
    BY Zenon, <2>8
  <2>10. \A p \in DOMAIN next.tree : p \in DOMAIN tree /\ next.tree[p] = tree[p]
    BY Zenon, <2>5, <2>8
  <2> HIDE DEF next
  <2>11. OnlyOf(next, tree)
    BY Zenon, <2>9, <2>10 DEF OnlyOf
  <2> QED
    BY Zenon, <2>1, <2>2, <2>7, <2>11 DEF next
<1> QED
  BY Zenon, <1>3, <1>4, <1>5

\* Whatever has become of an archive: as long as the records among its cells
\* are the folder's, extractZipFile writes nothing but the folder's files, each
\* with its own content.
THEOREM NothingElseComesOut ==
  ASSUME NEW S, NEW tree, IsFolder(tree),
         NEW cells \in Seq(S), Numbered(cells), RecordsOf(cells, tree)
  PROVE  LET found == Unpack(cells, ListZipFile(cells)).tree
         IN  \A p \in DOMAIN found : p \in DOMAIN tree /\ found[p] = tree[p]
<1> DEFINE listed == ListZipFile(cells)
           found == Unpack(cells, listed).tree
           n == Len(listed)
           places == [path \in Names(listed) |-> path]
<1>1. CASE listed = Unreadable
  <2>1. found = NoFiles
    BY <1>1 DEF Unpack, Failed
  <2> QED
    BY <2>1 DEF NoFiles
<1>2. CASE listed # Unreadable
  <2>1. n \in Nat /\ DOMAIN listed = 1..n
    BY <1>2, ListedIsThere
  <2>2. \A i \in 1..n : listed[i].name \in DOMAIN tree /\ listed[i].crc = tree[listed[i].name]
    <3>1. \A i \in 1..n : listed[i].kind = "central" /\ \E j \in DOMAIN cells : listed[i] = cells[j]
      BY <1>2, ListedIsThere
    <3> HIDE DEF listed, n
    <3> QED
      BY <3>1 DEF RecordsOf
  <2>3. \A i \in 1..n : places[listed[i].name] = listed[i].name
    BY <2>1 DEF Names
  <2>4. Unpack(cells, listed) = Extract(cells, listed, NoFiles, <<>>, places, FALSE)
    BY <1>2 DEF Unpack
  <2> HIDE DEF listed, places, n
  <2>5. PICK after : /\ after[0] = [ok |-> TRUE, tree |-> NoFiles]
                     /\ \A k \in 1..n : after[k] = ExtractEntry(cells, <<>>, places, FALSE, after[k - 1], listed[k])
                     /\ Extract(cells, listed, NoFiles, <<>>, places, FALSE) = after[n]
    <3>1. Len(listed) \in Nat
      BY <2>1 DEF n
    <3>2. \E after : Unpacks(after, cells, listed, NoFiles, <<>>, places, FALSE)
      BY <3>1, ExtractSteps
    <3> QED
      BY <3>2 DEF Unpacks, n
  <2> DEFINE T == {m \in Nat : m <= n => OnlyOf(after[m], tree)}
  <2>6. 0 \in T
    <3> DEFINE first == [ok |-> TRUE, tree |-> NoFiles]
    <3>1. first = [ok |-> first.ok, tree |-> first.tree] /\ first.tree = NoFiles
      OBVIOUS
    <3>2. DOMAIN NoFiles = {}
      BY DEF NoFiles
    <3> HIDE DEF first
    <3>3. OnlyOf(first, tree)
      BY <3>1, <3>2 DEF OnlyOf
    <3>4. OnlyOf(after[0], tree)
      BY Zenon, <2>5, <3>3 DEF first
    <3> QED
      BY <3>4
  <2>7. ASSUME NEW m \in T PROVE m + 1 \in T
    <3> SUFFICES ASSUME m + 1 <= n PROVE OnlyOf(after[m + 1], tree)
      OBVIOUS
    <3> DEFINE j == m + 1
               r == listed[j]
    <3>1. m \in Nat /\ m <= n /\ j \in 1..n /\ j - 1 = m
      BY <2>1
    <3>2. OnlyOf(after[m], tree)
      BY Zenon, <3>1
    <3> HIDE DEF j, T
    <3>3. after[j] = ExtractEntry(cells, <<>>, places, FALSE, after[j - 1], r)
      BY Zenon, <2>5, <3>1
    <3>4. after[j] = ExtractEntry(cells, <<>>, places, FALSE, after[m], r)
      BY Zenon, <3>1, <3>3
    <3>5. r.name \in DOMAIN tree /\ r.crc = tree[r.name] /\ places[r.name] = r.name
      BY <2>2, <2>3, <3>1
    <3> HIDE DEF r
    <3>6. OnlyOf(ExtractEntry(cells, <<>>, places, FALSE, after[m], r), tree)
      BY <3>2, <3>5, EntryKeepsOnly
    <3> QED
      BY Zenon, <3>4, <3>6 DEF j
  <2>8. n \in T
    <3>1. T \in SUBSET Nat
      OBVIOUS
    <3> HIDE DEF T
    <3> QED
      BY <2>1, <2>6, <2>7, <3>1, Upwards
  <2>9. OnlyOf(after[n], tree)
    BY <2>1, <2>8
  <2>10. found = after[n].tree
    BY Zenon, <2>4, <2>5 DEF listed
  <2> HIDE DEF found
  <2>11. \A p \in DOMAIN found : p \in DOMAIN tree /\ found[p] = tree[p]
    BY Zenon, <2>9, <2>10 DEF OnlyOf
  <2> QED
    BY <2>11 DEF found, listed
<1> QED
  BY <1>1, <1>2

\* Files that are no archives.
Plain(tree) ==
  \A p \in DOMAIN tree : \A i \in DOMAIN tree[p] : tree[p][i].kind \notin {"central", "end"}

\* What may be among the cells of a damaged archive.
Harmless(cell, tree) ==
  /\ cell.kind = "central" => cell.name \in DOMAIN tree /\ cell.crc = tree[cell.name]
  /\ cell.kind = "end" => cell.at \in Nat /\ cell.size \in Nat /\ cell.count \in Nat

\* Nothing else is in an archive of such files.
LEMMA CellsAreHarmless ==
  ASSUME NEW tree, Plain(tree), NEW cell \in Cells(tree)
  PROVE  Harmless(cell, tree)
<1> DEFINE headers == {Header(p) : p \in DOMAIN tree}
           contents == UNION {Range(tree[p]) : p \in DOMAIN tree}
           named == {Record(p, tree[p], k) : p \in DOMAIN tree, k \in Nat}
           ends == {End(i, j, k) : i \in Nat, j \in Nat, k \in Nat}
<1>c. Cells(tree) = headers \cup contents \cup named \cup ends
  BY DEF Cells
<1>1. CASE cell \in headers
  BY <1>1 DEF Harmless, Header
<1>2. CASE cell \in contents
  <2>1. PICK p \in DOMAIN tree : cell \in Range(tree[p])
    BY <1>2
  <2>2. PICK i \in DOMAIN tree[p] : cell = tree[p][i]
    BY <2>1 DEF Range
  <2> QED
    BY <2>2 DEF Plain, Harmless
<1>3. CASE cell \in named
  <2>1. PICK p \in DOMAIN tree, k \in Nat : cell = Record(p, tree[p], k)
    BY <1>3
  <2> QED
    BY <2>1 DEF Harmless, Record
<1>4. CASE cell \in ends
  <2>1. PICK i \in Nat, j \in Nat, k \in Nat : cell = End(i, j, k)
    BY <1>4
  <2> QED
    BY <2>1 DEF Harmless, End
<1> HIDE DEF headers, contents, named, ends
<1> QED
  BY <1>c, <1>1, <1>2, <1>3, <1>4

\* A wrong number in the end record is a number.
LEMMA EndStaysHarmless ==
  ASSUME NEW tree, NEW i \in Nat, NEW j \in Nat, NEW k \in Nat, NEW m \in Nat,
         NEW f \in {"count", "size", "at"}
  PROVE  Harmless([End(i, j, k) EXCEPT ![f] = m], tree)
<1>1. CASE f = "count"
  <2>1. [End(i, j, k) EXCEPT ![f] = m] = End(m, j, k)
    BY <1>1 DEF End
  <2> QED
    BY <2>1 DEF Harmless, End
<1>2. CASE f = "size"
  <2>1. [End(i, j, k) EXCEPT ![f] = m] = End(i, m, k)
    BY <1>2 DEF End
  <2> QED
    BY <2>1 DEF Harmless, End
<1>3. CASE f = "at"
  <2>1. [End(i, j, k) EXCEPT ![f] = m] = End(i, j, m)
    BY <1>3 DEF End
  <2> QED
    BY <2>1 DEF Harmless, End
<1> QED
  BY <1>1, <1>2, <1>3

\* What is said of the readers follows for them.
LEMMA HarmlessIsNoticed ==
  ASSUME NEW tree, IsFolder(tree), NEW S, \A c \in S : Harmless(c, tree), NEW bad \in Seq(S)
  PROVE  LET listed == ListZipFile(bad)
             found == Unpack(bad, listed).tree
         IN /\ listed \in {Unreadable, ListZip(bad)}
            /\ \A p \in DOMAIN found : p \in DOMAIN tree /\ found[p] = tree[p]
<1>1. \A i \in DOMAIN bad : Harmless(bad[i], tree)
  BY LenProperties, ElementOfSeq
<1>2. Numbered(bad) /\ RecordsOf(bad, tree)
  BY <1>1 DEF Harmless, Numbered, RecordsOf
<1> QED
  BY <1>2, ReadersAgree, NothingElseComesOut

\* Damage leaves a sequence of harmless cells.
LEMMA DamagedIsHarmless ==
  ASSUME NEW tree, IsFolder(tree), Plain(tree), NEW cells \in Builds(tree), NEW bad \in Damaged(cells)
  PROVE  \E S : bad \in Seq(S) /\ \A c \in S : Harmless(c, tree)
<1>1. PICK order \in SetToSeqs(DOMAIN tree) : cells = Build(tree, order)
  BY DEF Builds
<1>2. Ordered(order, tree)
  BY OrderIsComplete DEF IsFolder
<1>3. PICK local : Archive(cells, tree, order, local)
  BY <1>1, <1>2, BuildLayout
<1> DEFINE n == Len(cells)
           u == Len(order)
           v == Len(local[u])
           other == [kind |-> "bytes", of |-> "noise"]
           last(f, k) == [cells[n] EXCEPT ![f] = k]
           ends == {last(f, k) : f \in {"count", "size", "at"}, k \in 0..n}
           S == Cells(tree) \cup {other} \cup ends
<1>4. u \in Nat /\ v \in Nat /\ n \in Nat \ {0} /\ cells \in Seq(Cells(tree)) /\ cells[n] = End(u, u, v)
  BY <1>2, <1>3, LenProperties DEF Ordered, Archive
<1>5. \A c \in S : Harmless(c, tree)
  <2>1. \A c \in Cells(tree) : Harmless(c, tree)
    BY CellsAreHarmless
  <2>2. Harmless(other, tree)
    BY DEF Harmless
  <2>3. ASSUME NEW f \in {"count", "size", "at"}, NEW k \in 0..n PROVE Harmless(last(f, k), tree)
    <3>1. k \in Nat
      BY <1>4
    <3>2. Harmless([End(u, u, v) EXCEPT ![f] = k], tree)
      BY <1>4, <3>1, EndStaysHarmless
    <3> QED
      BY Zenon, <1>4, <3>2
  <2> HIDE DEF other, last
  <2> QED
    BY <2>1, <2>2, <2>3
<1>6. cells \in Seq(S) /\ other \in S /\ Cells(tree) \subseteq S /\ ends \subseteq S
  <2> HIDE DEF other, ends
  <2>1. Cells(tree) \subseteq S /\ other \in S /\ ends \subseteq S
    OBVIOUS
  <2> HIDE DEF S
  <2> QED
    BY <1>4, <2>1, SeqMonotonic
<1>7. \A i \in 1..n : cells[i] \in S
  <2> HIDE DEF S
  <2> QED
    BY <1>6, ElementOfSeq
<1> HIDE DEF other, ends, S, u, v, last
<1>8. ASSUME NEW i \in Int, NEW j \in Int, 1 <= i, j <= n PROVE SubSeq(cells, i, j) \in Seq(S)
  <2>1. \A k \in i..j : k \in 1..n
    BY <1>4, <1>8
  <2> HIDE DEF n
  <2>2. \A k \in i..j : cells[k] \in S
    BY <1>7, <2>1
  <2> QED
    BY <2>2, SubSeqProperties
<1>9. CASE \E k \in 0..n : bad = SubSeq(cells, 1, k)
  <2>1. bad \in Seq(S)
    BY <1>4, <1>8, <1>9
  <2> QED
    BY <1>5, <2>1
<1>10. CASE \E i \in 1..n : bad = [cells EXCEPT ![i] = other]
  <2>1. bad \in Seq(S)
    BY <1>6, <1>10, ExceptSeq
  <2> QED
    BY <1>5, <2>1
<1>11. CASE \E i \in 1..n : bad = SubSeq(cells, 1, i - 1) \o SubSeq(cells, i + 1, n)
  <2>1. PICK i \in 1..n : bad = SubSeq(cells, 1, i - 1) \o SubSeq(cells, i + 1, n)
    BY <1>11
  <2>2. i - 1 \in Int /\ 1 \in Int /\ i + 1 \in Int /\ n \in Int /\ i - 1 <= n /\ 1 <= i + 1 /\ n <= n /\ 1 <= 1
    BY <1>4
  <2>3. SubSeq(cells, 1, i - 1) \in Seq(S)
    BY <1>8, <2>2
  <2>4. SubSeq(cells, i + 1, n) \in Seq(S)
    BY <1>8, <2>2
  <2>5. bad \in Seq(S)
    BY <2>1, <2>3, <2>4, ConcatProperties
  <2> QED
    BY <1>5, <2>5
<1>12. CASE \E f \in {"count", "size", "at"}, k \in 0..n : bad = SubSeq(cells, 1, n - 1) \o <<last(f, k)>>
  <2>1. PICK f \in {"count", "size", "at"}, k \in 0..n : bad = SubSeq(cells, 1, n - 1) \o <<last(f, k)>>
    BY <1>12
  <2>2. last(f, k) \in S
    <3>1. last(f, k) \in ends
      BY DEF ends
    <3> QED
      BY <1>6, <3>1
  <2>3. n - 1 \in Int /\ 1 \in Int /\ n - 1 <= n /\ 1 <= 1
    BY <1>4
  <2>4. SubSeq(cells, 1, n - 1) \in Seq(S)
    BY <1>8, <2>3
  <2>5. <<last(f, k)>> \in Seq(S)
    BY <2>2
  <2>6. bad \in Seq(S)
    BY <2>1, <2>4, <2>5, ConcatProperties
  <2> QED
    BY <1>5, <2>6
<1>13. \/ \E k \in 0..n : bad = SubSeq(cells, 1, k)
       \/ \E i \in 1..n : bad = [cells EXCEPT ![i] = other]
       \/ \E i \in 1..n : bad = SubSeq(cells, 1, i - 1) \o SubSeq(cells, i + 1, n)
       \/ \E f \in {"count", "size", "at"}, k \in 0..n : bad = SubSeq(cells, 1, n - 1) \o <<last(f, k)>>
  <2> DEFINE cut == {SubSeq(cells, 1, k) : k \in 0..n}
             replaced == {[cells EXCEPT ![i] = other] : i \in 1..n}
             missing == {SubSeq(cells, 1, i - 1) \o SubSeq(cells, i + 1, n) : i \in 1..n}
             wrong == {SubSeq(cells, 1, n - 1) \o <<last(f, k)>> : f \in {"count", "size", "at"}, k \in 0..n}
  <2>1. Damaged(cells) = cut \cup replaced \cup missing \cup wrong
    BY DEF Damaged, other, last
  <2>2. bad \in cut \/ bad \in replaced \/ bad \in missing \/ bad \in wrong
    <3> HIDE DEF cut, replaced, missing, wrong
    <3> QED
      BY <2>1
  <2>3. bad \in wrong => \E f \in {"count", "size", "at"}, k \in 0..n : bad = SubSeq(cells, 1, n - 1) \o <<last(f, k)>>
    OBVIOUS
  <2> HIDE DEF wrong
  <2> QED
    BY <2>2, <2>3
<1> QED
  BY <1>9, <1>10, <1>11, <1>12, <1>13

\* A damaged archive of files that are no archives themselves gives nothing
\* that was not packed under that name, and both readers see it in the same
\* way.  (Where a file is an archive, its records are among the cells, and TLC
\* checks the ones of the run.)
THEOREM DamageIsNoticedInPlain ==
  ASSUME \A tree \in Trees : Plain(tree)
  PROVE  DamageIsNoticed
<1>1. ASSUME NEW tree \in Trees, NEW cells \in Builds(tree), NEW bad \in Damaged(cells)
      PROVE  LET listed == ListZipFile(bad)
                 found == Unpack(bad, listed).tree
             IN /\ listed \in {Unreadable, ListZip(bad)}
                /\ \A p \in DOMAIN found : p \in DOMAIN tree /\ found[p] = tree[p]
  <2>1. IsFolder(tree) /\ Plain(tree)
    BY ArchivesAssumption
  <2>2. PICK S : bad \in Seq(S) /\ \A c \in S : Harmless(c, tree)
    BY <2>1, DamagedIsHarmless
  <2> QED
    BY <2>1, <2>2, HarmlessIsNoticed
<1> QED
  BY Zenon, <1>1 DEF DamageIsNoticed

=============================================================================
