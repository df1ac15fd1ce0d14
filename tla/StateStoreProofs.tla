-------------------------- MODULE StateStoreProofs --------------------------
(***************************************************************************)
(* Theorems about the state store, for every finite set of calls, every    *)
(* set of instances, pool size and number of failures: its types, and that *)
(* both drivers implement Store.  And about one connection to PostgreSQL,  *)
(* for everything a server may send: each query gets its own reply.        *)
(***************************************************************************)
EXTENDS StateStore, FiniteSetTheorems, SequenceTheorems,
        WellFoundedInduction, TLAPS

(***************************************************************************)
(* Types.                                                                  *)
(***************************************************************************)
\* A sequence less its last element is a sequence.
LEMMA PopTyped ==
  ASSUME NEW s \in Seq(BOOLEAN), s # <<>>
  PROVE  /\ SubSeq(s, 1, Len(s) - 1) \in Seq(BOOLEAN)
         /\ s[Len(s)] \in BOOLEAN
<1>1. Len(s) \in Nat /\ Len(s) # 0 /\ \A k \in 1 .. Len(s) : s[k] \in BOOLEAN
  OBVIOUS
<1>2. Len(s) - 1 \in Int /\ \A k \in 1 .. Len(s) - 1 : s[k] \in BOOLEAN
  BY <1>1
<1> QED
  BY <1>1, <1>2, SubSeqProperties

\* So many dead connections are a sequence.
LEMMA DeadSeq ==
  ASSUME NEW n \in Nat
  PROVE  [k \in 1 .. n |-> FALSE] \in Seq(BOOLEAN)
<1>1. [k \in 1 .. n |-> FALSE] \in [1 .. n -> BOOLEAN]
  OBVIOUS
<1> QED
  BY <1>1, SeqDef

\* Connections that lost the server, and those given back, form a pool.
LEMMA DeadTyped ==
  ASSUME NEW s \in Seq(BOOLEAN), NEW cs \in SUBSET Calls
  PROVE  Dead(s) \o [k \in 1 .. Cardinality(cs) |-> FALSE] \in Seq(BOOLEAN)
<1>1. IsFiniteSet(cs)
  BY StateStoreAssumption, FS_Subset
<1>2. Cardinality(cs) \in Nat
  BY <1>1, FS_CardinalityType
<1>3. [k \in 1 .. Cardinality(cs) |-> FALSE] \in Seq(BOOLEAN)
  BY <1>2, DeadSeq
<1>4. Dead(s) \in Seq(BOOLEAN)
  <2>1. DOMAIN s = 1 .. Len(s) /\ Len(s) \in Nat
    BY LenProperties
  <2>2. [k \in 1 .. Len(s) |-> FALSE] \in Seq(BOOLEAN)
    BY <2>1, DeadSeq
  <2> QED
    BY <2>1, <2>2 DEF Dead
<1> QED
  BY <1>3, <1>4, ConcatProperties

\* A step from one stage of a call to another keeps step well typed.
LEMMA MovesTyped ==
  ASSUME NEW c \in Calls, NEW from, NEW to \in Steps, Moves(c, from, to),
         step \in [Calls -> Steps]
  PROVE  step' \in [Calls -> Steps]
BY DEF Moves

\* A connection given back keeps the pool well typed.
LEMMA GivesBackTyped ==
  ASSUME TypeOK, NEW i \in Instances, NEW alive \in BOOLEAN, GivesBack(i, alive)
  PROVE  /\ idle' \in [Instances -> Seq(BOOLEAN)]
         /\ size' \in [Instances -> 0 .. MaxPool]
<1>1. Append(idle[i], alive) \in Seq(BOOLEAN)
  BY AppendProperties DEF TypeOK
<1> QED
  BY <1>1 DEF TypeOK, GivesBack

\* The store starts well typed.
LEMMA TypeInit == Init => TypeOK
<1> SUFFICES ASSUME Init PROVE TypeOK
  OBVIOUS
<1>1. <<>> \in Seq(BOOLEAN)
  OBVIOUS
<1>2. idle \in [Instances -> Seq(BOOLEAN)]
  BY <1>1 DEF Init
<1> QED
  BY <1>2, StateStoreAssumption DEF Init, TypeOK, Steps

\* Every step keeps the types.
LEMMA TypeStep == TypeOK /\ [Next]_vars => TypeOK'
<1> SUFFICES ASSUME TypeOK, [Next]_vars PROVE TypeOK'
  OBVIOUS
<1> USE StateStoreAssumption
<1>1. ASSUME NEW c \in Calls,
             \/ Call(c) \/ RunThrows(c) \/ PersistFails(c) \/ Persist(c)
             \/ Run(c) \/ Lock(c) \/ Assign(c) \/ Commit(c)
      PROVE  TypeOK'
  <2>1. step' \in [Calls -> Steps]
    BY <1>1, MovesTyped DEF TypeOK, Steps, Call, RunThrows, PersistFails,
      Persist, Run, Lock, Assign, Commit
  <2>2. /\ stored' \subseteq Calls /\ data' \in [Instances -> SUBSET Calls]
        /\ draft' \in [Calls -> SUBSET Calls] /\ breaks' \in 0 .. MaxBreaks
    <3>1. where[c] \in Instances /\ At(c) \subseteq Calls /\ draft[c] \subseteq Calls
      BY DEF TypeOK, At
    <3>2. CASE Call(c) \/ RunThrows(c)
      BY <3>2 DEF TypeOK, Call, RunThrows
    <3>3. CASE PersistFails(c)
      BY <3>3 DEF TypeOK, PersistFails, Break
    <3>4. CASE Persist(c) \/ Commit(c) \/ Assign(c)
      BY <3>1, <3>4 DEF TypeOK, Persist, Commit, Assign
    <3>5. CASE Run(c)
      BY <3>1, <3>5 DEF TypeOK, Run
    <3>6. CASE Lock(c)
      BY <3>1, <3>6 DEF TypeOK, Lock, FromRow
    <3> QED
      BY <1>1, <3>2, <3>3, <3>4, <3>5, <3>6
  <2>3. UNCHANGED <<driver, where, idle, size>>
    BY <1>1 DEF pool, Call, RunThrows, PersistFails, Persist, Run, Lock,
      Assign, Commit
  <2> QED
    BY <2>1, <2>2, <2>3 DEF TypeOK
<1>2. ASSUME NEW c \in Calls, Acquire(c) PROVE TypeOK'
  <2>1. where[c] \in Instances /\ idle[where[c]] \in Seq(BOOLEAN)
    BY DEF TypeOK
  <2>2. idle' \in [Instances -> Seq(BOOLEAN)]
    BY <1>2, <2>1, PopTyped DEF Acquire, TypeOK
  <2>3. step' \in [Calls -> Steps]
    BY <1>2 DEF TypeOK, Steps, Acquire, Moves
  <2>4. UNCHANGED <<driver, where, stored, data, draft, size, breaks>>
    BY <1>2 DEF Acquire
  <2> QED
    BY <2>2, <2>3, <2>4 DEF TypeOK
<1>3. ASSUME NEW c \in Calls, Connect(c) \/ ConnectFails(c) PROVE TypeOK'
  <2>1. step' \in [Calls -> Steps]
    BY <1>3, MovesTyped DEF TypeOK, Steps, Connect, ConnectFails
  <2>2. size' \in [Instances -> 0 .. MaxPool] /\ breaks' \in 0 .. MaxBreaks
    <3>1. where[c] \in Instances /\ size[where[c]] \in 0 .. MaxPool
      BY DEF TypeOK
    <3>2. size[where[c]] + 1 \in 0 .. MaxPool
      BY <1>3, <3>1 DEF Connect, ConnectFails, MayConnect
    <3>3. breaks' \in 0 .. MaxBreaks
      BY <1>3 DEF TypeOK, Connect, ConnectFails, Break
    <3>4. size' = [size EXCEPT ![where[c]] = @ + 1]
      BY <1>3 DEF Connect, ConnectFails
    <3> QED
      BY <3>1, <3>2, <3>3, <3>4 DEF TypeOK
  <2>3. UNCHANGED <<driver, where, stored, data, draft, idle>>
    BY <1>3 DEF Connect, ConnectFails
  <2> QED
    BY <2>1, <2>2, <2>3 DEF TypeOK
<1>4. ASSUME NEW c \in Calls, Throws(c) PROVE TypeOK'
  <2>1. step' \in [Calls -> Steps]
    BY <1>4, MovesTyped DEF TypeOK, Steps, Throws
  <2>2. where[c] \in Instances /\ GivesBack(where[c], TRUE)
    BY <1>4 DEF TypeOK, Throws
  <2>3. UNCHANGED <<driver, where, stored, data, draft, breaks>>
    BY <1>4 DEF Throws
  <2> QED
    BY <2>1, <2>2, <2>3, GivesBackTyped DEF TypeOK
<1>5. ASSUME NEW c \in Calls, Answer(c) PROVE TypeOK'
  <2>1. step' \in [Calls -> Steps]
    BY <1>5, MovesTyped DEF TypeOK, Steps, Answer
  <2>2. where[c] \in Instances
    BY DEF TypeOK
  <2>3. GivesBack(where[c], TRUE) \/ UNCHANGED pool
    BY <1>5 DEF Answer
  <2>4. UNCHANGED <<driver, where, stored, data, draft, breaks>>
    BY <1>5 DEF Answer
  <2> QED
    BY <2>1, <2>2, <2>3, <2>4, GivesBackTyped DEF TypeOK, pool
<1>6. ASSUME NEW failing \in SUBSET Served, Drop(failing) PROVE TypeOK'
  <2>1. step' \in [Calls -> Steps]
    BY <1>6 DEF TypeOK, Drop, Steps
  <2>2. ASSUME NEW i \in Instances
        PROVE  idle'[i] \in Seq(BOOLEAN)
    <3>1. {c \in failing : where[c] = i} \in SUBSET Calls
      BY DEF Served
    <3>2. idle[i] \in Seq(BOOLEAN)
      BY DEF TypeOK
    <3> QED
      BY <1>6, <3>1, <3>2, DeadTyped DEF Drop
  <2>3. idle' \in [Instances -> Seq(BOOLEAN)]
    BY <1>6, <2>2 DEF Drop
  <2>4. breaks' \in 0 .. MaxBreaks
    BY <1>6 DEF TypeOK, Drop, Break
  <2>5. UNCHANGED <<driver, where, stored, data, draft, size>>
    BY <1>6 DEF Drop
  <2> QED
    BY <2>1, <2>3, <2>4, <2>5 DEF TypeOK
<1>7. ASSUME NEW i \in Instances, Restart(i) PROVE TypeOK'
  <2>1. step' \in [Calls -> Steps]
    BY <1>7 DEF TypeOK, Restart, Steps
  <2>2. <<>> \in Seq(BOOLEAN) /\ 0 \in 0 .. MaxPool
    OBVIOUS
  <2>3. /\ idle' \in [Instances -> Seq(BOOLEAN)]
        /\ size' \in [Instances -> 0 .. MaxPool]
    BY <1>7, <2>2 DEF TypeOK, Restart
  <2>4. data' \in [Instances -> SUBSET Calls] /\ breaks' \in 0 .. MaxBreaks
    BY <1>7 DEF TypeOK, Restart, Break
  <2>5. UNCHANGED <<driver, where, stored, draft>>
    BY <1>7 DEF Restart
  <2> QED
    BY <2>1, <2>3, <2>4, <2>5 DEF TypeOK
<1>8. CASE UNCHANGED vars
  BY <1>8 DEF vars, pool, TypeOK
<1> QED
  BY <1>1, <1>2, <1>3, <1>4, <1>5, <1>6, <1>7, <1>8 DEF Next, Advances

\* The variables keep their types for every finite set of calls; in particular
\* no instance counts more connections than PgPool allows.
THEOREM StoreTyped == Spec => []TypeOK
BY TypeInit, TypeStep, PTL DEF Spec

(***************************************************************************)
(* What holds between the drafts, the copies and the stored state.         *)
(***************************************************************************)
\* Calls whose write reached the file or the row
Kept == {c \in Calls : step[c] \in {"kept", "ok"}}

\* The lock of the row, or the queue of the file, lets one call in.
OneWriter == \A c, d \in Locking : c = d

\* What is written was stored before, or is the call's own change.
DraftsFresh ==
  driver = "pg" => \A c \in Locking : draft[c] = stored \cup {c}

\* A call that wrote has its change stored, and its instance has it.
WroteItsChange ==
  /\ Kept \subseteq stored
  /\ \A c \in Kept \cup Writing : c \in At(c)

\* The one instance over a file has all of it, and besides only changes of a
\* call that writes or has failed.
OwnsTheFile ==
  driver = "json" =>
    /\ \A c, d \in Calls : where[c] = where[d]
    /\ \A c \in Calls : step[c] \notin {"connected", "locked", "hung"}
    /\ \A c \in Calls : stored \subseteq At(c)
    /\ \A c \in Writing : draft[c] = At(c)
    /\ \A c, d \in Calls : d \in At(c) \ stored => step[d] \in {"assigned", "failed"}

\* The four together are inductive.
KeepsInv == OneWriter /\ DraftsFresh /\ WroteItsChange /\ OwnsTheFile

\* The four hold of an empty store.
LEMMA KeepsInit == Init => KeepsInv
BY DEF Init, KeepsInv, OneWriter, DraftsFresh, WroteItsChange, OwnsTheFile,
  Kept, Writing, Locking, At

\* Every step keeps the four.
LEMMA KeepsStep == TypeOK /\ KeepsInv /\ [Next]_vars => KeepsInv'
<1> SUFFICES ASSUME TypeOK, KeepsInv, [Next]_vars PROVE KeepsInv'
  OBVIOUS
<1> USE DEF KeepsInv, OneWriter, DraftsFresh, WroteItsChange, OwnsTheFile,
  Kept, Writing, Locking, At
<1>1. ASSUME NEW c \in Calls, Call(c) PROVE KeepsInv'
  BY <1>1 DEF TypeOK, Call, Moves
<1>2. ASSUME NEW c \in Calls, Run(c) PROVE KeepsInv'
  BY <1>2 DEF TypeOK, Run, Moves
<1>3. ASSUME NEW c \in Calls, RunThrows(c) PROVE KeepsInv'
  BY <1>3 DEF TypeOK, RunThrows, Moves
<1>4. ASSUME NEW c \in Calls, Persist(c) PROVE KeepsInv'
  BY <1>4 DEF TypeOK, Persist, Moves
<1>5. ASSUME NEW c \in Calls, PersistFails(c) PROVE KeepsInv'
  BY <1>5 DEF TypeOK, PersistFails, Moves
<1>6. ASSUME NEW c \in Calls, Acquire(c) PROVE KeepsInv'
  BY <1>6 DEF TypeOK, Acquire, Moves
<1>7. ASSUME NEW c \in Calls, Connect(c) PROVE KeepsInv'
  BY <1>7 DEF TypeOK, Connect, Moves
<1>8. ASSUME NEW c \in Calls, ConnectFails(c) PROVE KeepsInv'
  BY <1>8 DEF TypeOK, ConnectFails, Moves
<1>9. ASSUME NEW c \in Calls, Lock(c) PROVE KeepsInv'
  BY <1>9 DEF TypeOK, Lock, Moves, FromRow
<1>10. ASSUME NEW c \in Calls, Throws(c) PROVE KeepsInv'
  BY <1>10 DEF TypeOK, Throws, Moves
<1>11. ASSUME NEW c \in Calls, Assign(c) PROVE KeepsInv'
  BY <1>11 DEF TypeOK, Assign, Moves
<1>12. ASSUME NEW c \in Calls, Commit(c) PROVE KeepsInv'
  BY <1>12 DEF TypeOK, Commit, Moves
<1>13. ASSUME NEW c \in Calls, Answer(c) PROVE KeepsInv'
  BY <1>13 DEF TypeOK, Answer, Moves
<1>14. ASSUME NEW failing \in SUBSET Served, Drop(failing) PROVE KeepsInv'
  BY <1>14 DEF TypeOK, Drop, Served
<1>15. ASSUME NEW i \in Instances, Restart(i) PROVE KeepsInv'
  BY <1>15 DEF TypeOK, Restart, Unanswered
<1>16. CASE UNCHANGED vars
  BY <1>16 DEF vars
<1> QED
  BY <1>1, <1>2, <1>3, <1>4, <1>5, <1>6, <1>7, <1>8, <1>9, <1>10, <1>11,
     <1>12, <1>13, <1>14, <1>15, <1>16 DEF Next, Advances

\* Calls are let in one at a time, write what was stored plus their own
\* change, and leave it in their instance's copy: under either driver.
THEOREM KeepsCorrect == Spec => []KeepsInv
BY KeepsInit, KeepsStep, StoreTyped, PTL DEF Spec

\* A snapshot at the instance that answered a call has the call's change.
THEOREM ReadsCorrect == Spec => []ReadYourWrites
<1>1. KeepsInv => ReadYourWrites
  BY DEF KeepsInv, WroteItsChange, Kept, ReadYourWrites
<1> QED
  BY <1>1, KeepsCorrect, PTL

(***************************************************************************)
(* The pool: a connection is idle, or one call holds it.                   *)
(***************************************************************************)
Holding == {"connected", "locked", "assigned", "kept", "hung"}

\* The holders at an instance, by the stage of their calls.
LEMMA HoldersAre ==
  ASSUME NEW i \in Instances
  PROVE  /\ Holders(i) = {c \in Calls : where[c] = i /\ step[c] \in Holding}
         /\ IsFiniteSet(Holders(i)) /\ Cardinality(Holders(i)) \in Nat
<1>1. Holders(i) = {c \in Calls : where[c] = i /\ step[c] \in Holding}
  BY DEF Holders, Served, Holding
<1>2. Holders(i) \in SUBSET Calls
  BY <1>1
<1> QED
  BY <1>1, <1>2, StateStoreAssumption, FS_Subset, FS_CardinalityType

\* A call that moves between two stages that hold, or two that do not, leaves
\* the holders as they are.
LEMMA SameHolders ==
  ASSUME TypeOK, NEW i \in Instances, NEW c \in Calls, NEW from, NEW to,
         Moves(c, from, to), from \in Holding <=> to \in Holding, UNCHANGED where
  PROVE  Holders(i)' = Holders(i)
<1>1. Holders(i)' = {d \in Calls : where'[d] = i /\ step'[d] \in Holding}
  BY DEF Holders, Served, Holding
<1>2. \A d \in Calls : step'[d] \in Holding <=> step[d] \in Holding
  BY DEF Moves, TypeOK
<1> QED
  BY <1>1, <1>2, HoldersAre

\* A call that takes a connection adds itself to the holders of its instance.
LEMMA MoreHolders ==
  ASSUME TypeOK, NEW i \in Instances, NEW c \in Calls, NEW to \in Holding,
         Moves(c, "waiting", to), UNCHANGED where
  PROVE  /\ where[c] = i => Cardinality(Holders(i)') = Cardinality(Holders(i)) + 1
         /\ where[c] # i => Holders(i)' = Holders(i)
<1>1. Holders(i)' = {d \in Calls : where'[d] = i /\ step'[d] \in Holding}
  BY DEF Holders, Served, Holding
<1>2. /\ c \notin Holders(i)
      /\ \A d \in Calls : step'[d] \in Holding <=> d = c \/ step[d] \in Holding
  BY HoldersAre DEF Moves, TypeOK, Holding
<1>3. where[c] = i => Holders(i)' = Holders(i) \cup {c}
  BY <1>1, <1>2, HoldersAre
<1>4. where[c] # i => Holders(i)' = Holders(i)
  BY <1>1, <1>2, HoldersAre
<1> QED
  BY <1>2, <1>3, <1>4, HoldersAre, FS_AddElement

\* Calls that end no longer hold a connection.
LEMMA FewerHolders ==
  ASSUME TypeOK, NEW i \in Instances, NEW cs \in SUBSET Calls,
         \A d \in cs : step[d] \in Holding,
         \A d \in Calls : step'[d] \in Holding <=> step[d] \in Holding /\ d \notin cs,
         UNCHANGED where
  PROVE  LET back == {d \in cs : where[d] = i} IN
         /\ IsFiniteSet(back) /\ Cardinality(back) \in Nat
         /\ Cardinality(Holders(i)') + Cardinality(back) = Cardinality(Holders(i))
<1> DEFINE back == {d \in cs : where[d] = i}
           left == Holders(i)'
<1>1. left = {d \in Calls : where'[d] = i /\ step'[d] \in Holding}
  BY DEF Holders, Served, Holding
<1>2. left \cup back = Holders(i) /\ left \cap back = {}
  BY <1>1, HoldersAre
<1>3. /\ IsFiniteSet(left) /\ IsFiniteSet(back)
      /\ Cardinality(left) \in Nat /\ Cardinality(back) \in Nat
  <2>1. left \in SUBSET Holders(i) /\ back \in SUBSET Holders(i)
    BY <1>2
  <2> QED
    BY <2>1, HoldersAre, FS_Subset, FS_CardinalityType
<1>4. Cardinality(left \cup back)
        = Cardinality(left) + Cardinality(back) - Cardinality(left \cap back)
  BY <1>3, FS_Union
<1>5. Cardinality(left \cap back) = 0
  BY <1>2, FS_EmptySet
<1> HIDE DEF left, back
<1>6. Cardinality(left) + Cardinality(back) = Cardinality(Holders(i))
  <2>1. Cardinality(Holders(i)) = Cardinality(left) + Cardinality(back) - Cardinality(left \cap back)
    BY <1>2, <1>4, Zenon
  <2> QED
    BY <1>3, <1>5, <2>1
<1> QED
  BY <1>3, <1>6, Zenon DEF left, back

\* So long are a pool less its last connection, and a pool after a restart of
\* the database that also gets the connections of failed calls.
LEMMA PoolLengths ==
  ASSUME NEW s \in Seq(BOOLEAN), NEW n \in Nat
  PROVE  /\ Len(s) \in Nat
         /\ s # <<>> => Len(SubSeq(s, 1, Len(s) - 1)) = Len(s) - 1
         /\ \A b \in BOOLEAN : Len(Append(s, b)) = Len(s) + 1
         /\ Len(Dead(s) \o [k \in 1 .. n |-> FALSE]) = Len(s) + n
<1>1. Len(s) \in Nat /\ DOMAIN s = 1 .. Len(s)
  BY LenProperties
<1>2. s # <<>> => Len(SubSeq(s, 1, Len(s) - 1)) = Len(s) - 1
  BY <1>1
<1>3. \A b \in BOOLEAN : Len(Append(s, b)) = Len(s) + 1
  OBVIOUS
<1>4. /\ Dead(s) \in Seq(BOOLEAN) /\ Len(Dead(s)) = Len(s)
      /\ [k \in 1 .. n |-> FALSE] \in Seq(BOOLEAN) /\ Len([k \in 1 .. n |-> FALSE]) = n
  <2>1. Dead(s) = [k \in 1 .. Len(s) |-> FALSE]
    BY <1>1 DEF Dead
  <2>2. \A m \in Nat : /\ [k \in 1 .. m |-> FALSE] \in Seq(BOOLEAN)
                       /\ Len([k \in 1 .. m |-> FALSE]) = m
    <3> TAKE m \in Nat
    <3>1. [k \in 1 .. m |-> FALSE] \in Seq(BOOLEAN)
      BY DeadSeq
    <3>2. DOMAIN [k \in 1 .. m |-> FALSE] = 1 .. m
      OBVIOUS
    <3> QED
      BY <3>1, <3>2, LenProperties
  <2> QED
    BY <1>1, <2>1, <2>2
<1>5. Len(Dead(s) \o [k \in 1 .. n |-> FALSE]) = Len(s) + n
  BY <1>4, ConcatProperties
<1> QED
  BY <1>1, <1>2, <1>3, <1>5

\* Every step keeps the count, of whatever instance.
LEMMA PoolStep ==
  ASSUME TypeOK, PoolCounts, [Next]_vars
  PROVE  PoolCounts'
<1> SUFFICES ASSUME driver' = "pg", NEW i \in Instances
             PROVE  (Len(idle[i]) + Cardinality(Holders(i)) <= size[i])'
  BY DEF PoolCounts
<1> DEFINE n == Len(idle[i])
           h == Cardinality(Holders(i))
<1>0. driver = "pg"
  BY DEF Next, Advances, vars, Call, Run, Persist, Acquire, Connect, Lock, Assign, Commit, Answer,
     RunThrows, PersistFails, ConnectFails, Throws, Drop, Restart
<1>1. /\ n \in Nat /\ h \in Nat /\ size[i] \in Nat /\ n + h <= size[i]
      /\ idle[i] \in Seq(BOOLEAN) /\ DOMAIN idle = Instances /\ DOMAIN size = Instances
  <2>1. idle[i] \in Seq(BOOLEAN) /\ size[i] \in 0 .. MaxPool
    BY DEF TypeOK
  <2> QED
    BY <1>0, <2>1, HoldersAre, PoolLengths, StateStoreAssumption DEF TypeOK, PoolCounts
<1>2. ASSUME UNCHANGED <<idle, size>>, Holders(i)' = Holders(i)
      PROVE  (n + h <= size[i])'
  BY <1>1, <1>2
<1>3. ASSUME NEW c \in Calls, Call(c) \/ Lock(c) \/ Assign(c) \/ Commit(c)
      PROVE  (n + h <= size[i])'
  <2>1. UNCHANGED <<where, idle, size>>
    BY <1>3 DEF Call, Lock, Assign, Commit, pool
  <2>2. Holders(i)' = Holders(i)
    <3>1. CASE Call(c)
      BY <2>1, <3>1, SameHolders DEF Call, Holding
    <3>2. CASE Lock(c)
      BY <2>1, <3>2, SameHolders DEF Lock, Holding
    <3>3. CASE Assign(c)
      BY <2>1, <3>3, SameHolders DEF Assign, Holding
    <3>4. CASE Commit(c)
      BY <2>1, <3>4, SameHolders DEF Commit, Holding
    <3> QED
      BY <1>3, <3>1, <3>2, <3>3, <3>4
  <2> QED
    BY <1>2, <2>1, <2>2
<1>4. ASSUME NEW c \in Calls, Acquire(c) PROVE (n + h <= size[i])'
  <2> DEFINE to == IF idle[where[c]][Len(idle[where[c]])] THEN "connected" ELSE "hung"
  <2>1. /\ Moves(c, "waiting", to) /\ UNCHANGED <<where, size>>
        /\ idle[where[c]] # <<>>
        /\ idle' = [idle EXCEPT ![where[c]] = SubSeq(@, 1, Len(@) - 1)]
    BY <1>4 DEF Acquire
  <2>2. to \in Holding
    BY DEF Holding
  <2> HIDE DEF to
  <2>3. /\ where[c] = i => h' = h + 1
        /\ where[c] # i => h' = h
    BY <2>1, <2>2, MoreHolders
  <2>4. /\ where[c] = i => n' = n - 1
        /\ where[c] # i => n' = n
    <3>1. CASE where[c] = i
      <4>1. idle[i] # <<>> /\ idle'[i] = SubSeq(idle[i], 1, Len(idle[i]) - 1)
        BY <1>1, <2>1, <3>1
      <4> QED
        BY <1>1, <3>1, <4>1, PoolLengths
    <3>2. CASE where[c] # i
      BY <1>1, <2>1, <3>2
    <3> QED
      BY <3>1, <3>2
  <2> HIDE DEF n, h
  <2> QED
    BY <1>1, <2>1, <2>3, <2>4
<1>5. ASSUME NEW c \in Calls, Connect(c) PROVE (n + h <= size[i])'
  <2>1. /\ Moves(c, "waiting", "connected") /\ UNCHANGED <<where, idle>>
        /\ size' = [size EXCEPT ![where[c]] = @ + 1]
    BY <1>5 DEF Connect
  <2>2. /\ where[c] = i => h' = h + 1
        /\ where[c] # i => h' = h
    BY <2>1, MoreHolders DEF Holding
  <2> QED
    BY <1>1, <2>1, <2>2
<1>6. ASSUME NEW c \in Calls, ConnectFails(c) PROVE (n + h <= size[i])'
  <2>1. /\ Moves(c, "waiting", "failed") /\ UNCHANGED <<where, idle>>
        /\ size' = [size EXCEPT ![where[c]] = @ + 1]
    BY <1>6 DEF ConnectFails
  <2>2. h' = h
    BY <2>1, SameHolders DEF Holding
  <2> QED
    BY <1>1, <2>1, <2>2
<1>7. ASSUME NEW c \in Calls, Throws(c) \/ Answer(c) PROVE (n + h <= size[i])'
  <2>1. /\ step[c] \in {"locked", "kept"} /\ GivesBack(where[c], TRUE) /\ UNCHANGED where
        /\ step' = [step EXCEPT ![c] = IF step[c] = "locked" THEN "failed" ELSE "ok"]
    BY <1>0, <1>7 DEF Throws, Answer, Moves
  <2>2. /\ \A d \in {c} : step[d] \in Holding
        /\ \A d \in Calls : step'[d] \in Holding <=> step[d] \in Holding /\ d \notin {c}
    BY <2>1 DEF TypeOK, Holding
  <2> DEFINE back == {d \in {c} : where[d] = i}
  <2>3. Cardinality(back) \in Nat /\ h' + Cardinality(back) = h
    BY <2>1, <2>2, FewerHolders
  <2>4. Cardinality(back) = IF where[c] = i THEN 1 ELSE 0
    <3>1. back = IF where[c] = i THEN {c} ELSE {}
      OBVIOUS
    <3> QED
      BY <3>1, FS_EmptySet, FS_Singleton
  <2>5. size' = size /\ n' = IF where[c] = i THEN n + 1 ELSE n
    BY <1>1, <2>1, PoolLengths DEF GivesBack
  <2>6. h' \in Nat
    <3>1. Holders(i)' \in SUBSET Calls
      BY DEF Holders
    <3> QED
      BY <3>1, StateStoreAssumption, FS_Subset, FS_CardinalityType
  <2> HIDE DEF back, n, h
  <2> QED
    BY <1>1, <2>3, <2>4, <2>5, <2>6 DEF n, h
<1>8. ASSUME NEW failing \in SUBSET Served, Drop(failing) PROVE (n + h <= size[i])'
  <2> DEFINE back == {d \in failing : where[d] = i}
  <2>1. /\ failing \in SUBSET Calls /\ UNCHANGED <<where, size>>
        /\ \A d \in failing : step[d] \in Holding
        /\ \A d \in Calls : step'[d] \in Holding <=> step[d] \in Holding /\ d \notin failing
    BY <1>8 DEF Drop, Served, Holding
  <2>2. Cardinality(back) \in Nat /\ h' + Cardinality(back) = h
    BY <2>1, FewerHolders
  <2>3. n' = n + Cardinality(back)
    <3>1. idle'[i] = Dead(idle[i]) \o [k \in 1 .. Cardinality(back) |-> FALSE]
      BY <1>8 DEF Drop
    <3> QED
      BY <1>1, <2>2, <3>1, PoolLengths
  <2>4. h' \in Nat
    <3>1. Holders(i)' \in SUBSET Calls
      BY DEF Holders
    <3> QED
      BY <3>1, StateStoreAssumption, FS_Subset, FS_CardinalityType
  <2> HIDE DEF back, n, h
  <2>5. (n + h)' = n + h
    <3> DEFINE b == Cardinality(back)
    <3>1. n \in Nat /\ b \in Nat /\ h' \in Nat /\ h' + b = h /\ n' = n + b
      BY <1>1, <2>2, <2>3, <2>4
    <3> HIDE DEF b
    <3>2. n' + h' = n + h
      BY <3>1
    <3> QED
      BY <3>2
  <2> QED
    BY <1>1, <2>1, <2>5
<1>9. ASSUME NEW j \in Instances, Restart(j) PROVE (n + h <= size[i])'
  <2>1. CASE j = i
    <3>1. Holders(i)' = {}
      BY <1>9, <2>1 DEF Restart, Unanswered, Holders, Served, TypeOK
    <3>2. idle'[i] = <<>> /\ size'[i] = 0
      BY <1>1, <1>9, <2>1 DEF Restart
    <3> QED
      BY <3>1, <3>2, FS_EmptySet
  <2>2. CASE j # i
    <3>1. Holders(i)' = Holders(i)
      BY <1>9, <2>2 DEF Restart, Unanswered, Holders, Served, TypeOK
    <3>2. idle'[i] = idle[i] /\ size'[i] = size[i]
      BY <1>1, <1>9, <2>2 DEF Restart
    <3> QED
      BY <1>1, <3>1, <3>2
  <2> QED
    BY <2>1, <2>2
<1>10. ASSUME UNCHANGED vars PROVE (n + h <= size[i])'
  <2>1. UNCHANGED <<idle, size>> /\ Holders(i)' = Holders(i)
    BY <1>10 DEF vars, pool, Holders, Served
  <2> QED
    BY <1>2, <2>1
<1>11. ASSUME NEW c \in Calls, Run(c) \/ RunThrows(c) \/ Persist(c) \/ PersistFails(c)
       PROVE  FALSE
  BY <1>0, <1>11 DEF Run, RunThrows, Persist, PersistFails
<1> HIDE DEF n, h
<1>12. (n + h <= size[i])'
  BY <1>3, <1>4, <1>5, <1>6, <1>7, <1>8, <1>9, <1>10, <1>11 DEF Next, Advances
<1> QED
  BY <1>12, Zenon DEF n, h

\* No connection of a pool is in two hands, whatever is dropped, refused or
\* restarted: PgPool never lends more than it counts, nor counts more than it
\* may (StoreTyped).
THEOREM PoolCorrect == Spec => []PoolCounts
<1>1. Init => PoolCounts
  <2> SUFFICES ASSUME Init, NEW i \in Instances
               PROVE  Len(idle[i]) + Cardinality(Holders(i)) <= size[i]
    BY DEF PoolCounts
  <2>1. Holders(i) = {}
    BY DEF Init, Holders, Served
  <2> QED
    BY <2>1, FS_EmptySet DEF Init
<1>2. TypeOK /\ PoolCounts /\ [Next]_vars => PoolCounts'
  BY PoolStep
<1> QED
  BY <1>1, <1>2, StoreTyped, PTL DEF Spec

(***************************************************************************)
(* The drivers implement Store.                                            *)
(***************************************************************************)
Asked == {c \in Calls : step[c] # "idle"}
Replied == [c \in Calls |-> Reply(c)]

\* A step that ends no call and stores nothing is a stutter.
LEMMA StutterMaps ==
  ASSUME NEW c \in Calls, NEW from \in Steps, NEW to \in Steps, TypeOK,
         from \notin {"idle", "ok", "failed", "lost"},
         to \notin {"idle", "ok", "failed", "lost"},
         Moves(c, from, to), UNCHANGED stored
  PROVE  UNCHANGED <<Asked, Replied, stored>>
<1>1. Asked' = Asked
  BY DEF TypeOK, Moves, Asked
<1>2. \A d \in Calls : Reply(d)' = Reply(d)
  BY DEF TypeOK, Moves, Reply
<1> QED
  BY <1>1, <1>2 DEF Replied

\* A call that fails maps to Break.
LEMMA FailMaps ==
  ASSUME NEW c \in Calls, NEW from \in Steps, TypeOK,
         from \notin {"idle", "ok", "failed", "lost"},
         Moves(c, from, "failed"), UNCHANGED stored
  PROVE  Abstract!Next
<1>1. Asked' = Asked
  BY DEF TypeOK, Moves, Asked
<1>2. \A d \in Calls : Reply(d)' = IF d \in {c} THEN "failed"
                                   ELSE IF d \in {} THEN "lost" ELSE Reply(d)
  BY DEF TypeOK, Moves, Reply
<1>3. Reply(c) = "none"
  BY DEF TypeOK, Moves, Reply
<1>4. Abstract!Break({c}, {})
  BY <1>1, <1>2, <1>3 DEF Abstract!Break, Asked
<1> QED
  BY <1>4 DEF Abstract!Next

\* A write that reaches the file or the row maps to Keep.
LEMMA WriteMaps ==
  ASSUME NEW c \in Calls, TypeOK, KeepsInv, Moves(c, "assigned", "kept"),
         stored' = draft[c]
  PROVE  Abstract!Next
<1>1. Asked' = Asked
  BY DEF TypeOK, Moves, Asked
<1>2. \A d \in Calls : Reply(d)' = Reply(d)
  BY DEF TypeOK, Moves, Reply
<1>3. draft[c] \subseteq Calls /\ stored \subseteq draft[c]
  BY StateStoreAssumption DEF TypeOK, Moves, KeepsInv, DraftsFresh, OwnsTheFile, Writing, Locking
<1>4. \A d \in draft[c] \ stored : step[d] \in {"assigned", "failed"}
  BY <1>3, StateStoreAssumption
  DEF TypeOK, Moves, KeepsInv, DraftsFresh, OwnsTheFile, Writing, Locking
<1>5. \A d \in draft[c] \ stored : d \in Asked /\ Reply(d) \in {"none", "failed"}
  BY <1>3, <1>4 DEF Asked, Reply
<1>6. Abstract!Keep(draft[c] \ stored)
  BY <1>1, <1>2, <1>3, <1>5 DEF Abstract!Keep, Asked
<1> QED
  BY <1>3, <1>6 DEF Abstract!Next

\* The initial states of the drivers map to the one of Store.
LEMMA InitMaps == Init => Abstract!Init
BY DEF Init, Abstract!Init, Reply

\* Every step of the drivers maps to a step of Store, or to a stutter.
LEMMA StepMaps ==
  TypeOK /\ KeepsInv /\ [Next]_vars
    => Abstract!Next \/ UNCHANGED <<Asked, Replied, stored>>
<1> SUFFICES ASSUME TypeOK, KeepsInv, [Next]_vars
             PROVE  Abstract!Next \/ UNCHANGED <<Asked, Replied, stored>>
  OBVIOUS
<1>1. ASSUME NEW c \in Calls, Call(c) PROVE Abstract!Next
  <2>1. Asked' = Asked \cup {c}
    BY <1>1 DEF TypeOK, Call, Moves, Asked
  <2>2. \A d \in Calls : Reply(d)' = Reply(d)
    BY <1>1 DEF TypeOK, Call, Moves, Reply
  <2>3. Abstract!Ask(c)
    BY <1>1, <2>1, <2>2 DEF Abstract!Ask, Asked, Call
  <2> QED
    BY <2>3 DEF Abstract!Next
<1>2. ASSUME NEW c \in Calls,
             Run(c) \/ Acquire(c) \/ Connect(c) \/ Lock(c) \/ Assign(c)
      PROVE  UNCHANGED <<Asked, Replied, stored>>
  <2>1. CASE Run(c)
    BY <2>1, StutterMaps DEF Run, Steps
  <2>2. CASE Acquire(c)
    BY <2>2, StutterMaps DEF Acquire, Steps
  <2>3. CASE Connect(c)
    BY <2>3, StutterMaps DEF Connect, Steps
  <2>4. CASE Lock(c)
    BY <2>4, StutterMaps DEF Lock, Steps
  <2>5. CASE Assign(c)
    BY <2>5, StutterMaps DEF Assign, Steps
  <2> QED
    BY <1>2, <2>1, <2>2, <2>3, <2>4, <2>5
<1>3. ASSUME NEW c \in Calls, Persist(c) \/ Commit(c) PROVE Abstract!Next
  BY <1>3, WriteMaps DEF Persist, Commit
<1>4. ASSUME NEW c \in Calls,
             RunThrows(c) \/ PersistFails(c) \/ ConnectFails(c) \/ Throws(c)
      PROVE  Abstract!Next
  BY <1>4, FailMaps DEF RunThrows, PersistFails, ConnectFails, Throws, Steps
<1>5. ASSUME NEW c \in Calls, Answer(c) PROVE Abstract!Next
  <2>1. Asked' = Asked /\ c \in stored /\ Reply(c) = "none"
    BY <1>5 DEF TypeOK, KeepsInv, WroteItsChange, Kept, Answer, Moves, Asked, Reply
  <2>2. \A d \in Calls : Reply(d)' = IF d = c THEN "ok" ELSE Reply(d)
    BY <1>5 DEF TypeOK, Answer, Moves, Reply
  <2>3. Abstract!Acknowledge(c)
    BY <1>5, <2>1, <2>2 DEF Abstract!Acknowledge, Asked, Answer
  <2> QED
    BY <2>3 DEF Abstract!Next
<1>6. ASSUME NEW failing \in SUBSET Served, Drop(failing) PROVE Abstract!Next
  <2>1. Asked' = Asked /\ stored' = stored
    BY <1>6 DEF TypeOK, Drop, Served, Asked
  <2>2. \A d \in Calls : Reply(d)' = IF d \in failing THEN "failed"
                                     ELSE IF d \in {} THEN "lost" ELSE Reply(d)
    BY <1>6 DEF TypeOK, Drop, Served, Reply
  <2>3. \A d \in failing : Reply(d) = "none"
    BY DEF Served, Reply
  <2>4. failing \in SUBSET Calls
    BY DEF Served
  <2>5. Abstract!Break(failing, {})
    BY <2>1, <2>2, <2>3, <2>4 DEF Abstract!Break, Asked
  <2> QED
    BY <2>4, <2>5 DEF Abstract!Next
<1>7. ASSUME NEW i \in Instances, Restart(i) PROVE Abstract!Next
  <2>1. Asked' = Asked /\ stored' = stored
    BY <1>7 DEF TypeOK, Restart, Unanswered, Asked
  <2>2. \A d \in Calls : Reply(d)' = IF d \in {} THEN "failed"
                           ELSE IF d \in Unanswered(i) THEN "lost" ELSE Reply(d)
    BY <1>7 DEF TypeOK, Restart, Unanswered, Reply
  <2>3. \A d \in Unanswered(i) : Reply(d) = "none"
    BY DEF Unanswered, Reply
  <2>4. Unanswered(i) \in SUBSET Calls
    BY DEF Unanswered
  <2>5. Abstract!Break({}, Unanswered(i))
    BY <2>1, <2>2, <2>3, <2>4 DEF Abstract!Break, Asked
  <2> QED
    BY <2>4, <2>5 DEF Abstract!Next
<1>8. CASE UNCHANGED vars
  BY <1>8 DEF vars, Asked, Replied, Reply
<1> QED
  BY <1>1, <1>2, <1>3, <1>4, <1>5, <1>6, <1>7, <1>8 DEF Next, Advances

\* Either driver, over any instances and through any failures, does what
\* store.mutate promises: an acknowledged change stays stored.
THEOREM KeepsPromiseCorrect == Spec => KeepsPromise
<1>1. TypeOK /\ KeepsInv /\ [Next]_vars
        => [Abstract!Next]_<<Asked, Replied, stored>>
  BY StepMaps
<1>2. [Abstract!Next]_<<Asked, Replied, stored>> <=> [Abstract!Next]_(Abstract!vars)
  BY DEF Asked, Replied, Abstract!vars
<1> QED
  BY <1>1, <1>2, InitMaps, StoreTyped, KeepsCorrect, PTL
  DEF Spec, KeepsPromise, Abstract!Spec

(***************************************************************************)
(* One connection: a query gets its own reply, for every login and reply a *)
(* server may send and every way to cut them into chunks.                  *)
(***************************************************************************)
\* Natural numbers are well ordered.
LEMMA LeastNat ==
  ASSUME NEW T \in SUBSET Nat, T # {}
  PROVE  \E x \in T : \A y \in T : x <= y
<1>1. IsWellFoundedOn(OpToRel(<, Nat), Nat)
  BY NatLessThanWellFounded
<1>2. PICK x \in T : \A y \in T : ~ (<<y, x>> \in OpToRel(<, Nat))
  BY <1>1, WFMin
<1>3. \A y \in T : ~ (y < x)
  BY <1>2 DEF OpToRel
<1> QED
  BY <1>3

\* What holds of 0 and of the successor of what it holds of.
LEMMA Upwards ==
  ASSUME NEW T \in SUBSET Nat, 0 \in T, \A n \in T : n + 1 \in T
  PROVE  T = Nat
<1>1. SUFFICES ASSUME Nat \ T # {} PROVE FALSE
  OBVIOUS
<1>2. PICK x \in Nat \ T : \A y \in Nat \ T : x <= y
  BY <1>1, LeastNat
<1>3. x # 0 /\ x - 1 \in Nat /\ x - 1 \in T
  BY <1>2
<1> QED
  BY <1>2, <1>3

(***************************************************************************)
(* The loops of the connection, step by step.                              *)
(***************************************************************************)
\* onData: a message after another.
Heard(c, pieces, after, n) ==
  /\ after[0] = [c EXCEPT !.buffer = Incomplete(pieces)]
  /\ \A k \in 1..n : after[k] = Dispatch(after[k - 1], pieces[2 * k])

\* The recursion of onData has a solution.
LEMMA OnDataSteps ==
  ASSUME NEW c, NEW chunk, NEW n \in Nat, n = Complete(c.buffer \o chunk)
  PROVE  \E after : Heard(c, c.buffer \o chunk, after, n) /\ OnData(c, chunk) = after[n]
<1> DEFINE pieces == c.buffer \o chunk
           first == [c EXCEPT !.buffer = Incomplete(pieces)]
           body(f, k) == IF k = 0 THEN first ELSE Dispatch(f[k - 1], pieces[2 * k])
           T == {m \in Nat : \E f : f = [k \in 0..m |-> body(f, k)]}
           after == CHOOSE f : f = [k \in 0..n |-> body(f, k)]
<1>1. OnData(c, chunk) = after[n]
  BY Zenon DEF OnData
<1> HIDE DEF pieces, first, after
<1>2. 0 \in T
  <2> DEFINE f == [k \in 0..0 |-> first]
  <2>1. f = [k \in 0..0 |-> body(f, k)]
    OBVIOUS
  <2> HIDE DEF f
  <2> QED
    BY <2>1
<1>3. ASSUME NEW m \in T PROVE m + 1 \in T
  <2>1. PICK f : f = [k \in 0..m |-> body(f, k)]
    BY <1>3
  <2> DEFINE last == Dispatch(f[m], pieces[2 * (m + 1)])
             g == [k \in 0..m + 1 |-> IF k \in 0..m THEN f[k] ELSE last]
  <2>2. ASSUME NEW k \in 0..m + 1 PROVE g[k] = body(g, k)
    <3>1. CASE k = 0
      BY <2>1, <3>1
    <3>2. CASE k \in 1..m
      <4>1. k - 1 \in 0..m /\ k \in 0..m /\ k # 0
        BY <3>2
      <4> QED
        BY <2>1, <4>1
    <3>3. CASE k = m + 1
      <4>1. k - 1 = m /\ m \in 0..m /\ k \notin 0..m /\ k # 0
        BY <3>3
      <4>2. g[k] = last /\ g[k - 1] = f[m]
        BY <4>1
      <4> QED
        BY <4>1, <4>2, <3>3
    <3> QED
      BY <3>1, <3>2, <3>3
  <2>3. g = [k \in 0..m + 1 |-> body(g, k)]
    BY <2>2
  <2> HIDE DEF g
  <2> QED
    BY <2>3
<1>4. \E f : f = [k \in 0..n |-> body(f, k)]
  <2>1. T \in SUBSET Nat
    OBVIOUS
  <2> HIDE DEF T
  <2>2. n \in T
    BY <1>2, <1>3, <2>1, Upwards
  <2> QED
    BY <2>2 DEF T
<1>5. after = [k \in 0..n |-> body(after, k)]
  BY <1>4 DEF after
<1>6. Heard(c, pieces, after, n)
  <2>1. after[0] = first
    BY <1>5
  <2>2. ASSUME NEW k \in 1..n PROVE after[k] = Dispatch(after[k - 1], pieces[2 * k])
    <3>1. k \in 0..n /\ k # 0
      OBVIOUS
    <3> QED
      BY <1>5, <3>1
  <2> QED
    BY <2>1, <2>2 DEF Heard, first
<1> QED
  BY <1>1, <1>6 DEF pieces

\* A burst: a chunk after another.
Hears(c, burst, at, queries, after) ==
  /\ after[0] = c
  /\ \A k \in 1..Chunks :
       after[k] = IF at[k] = at[k - 1] THEN after[k - 1]
                  ELSE Take(after[k - 1], SubSeq(Pieces(burst), at[k - 1] + 1, at[k]), queries)

\* So has that of a burst.
LEMMA HearSteps ==
  ASSUME NEW c, NEW burst, NEW at, NEW queries
  PROVE  \E after : Hears(c, burst, at, queries, after) /\ Hear(c, burst, at, queries) = after[Chunks]
<1> DEFINE chunk(k) == SubSeq(Pieces(burst), at[k - 1] + 1, at[k])
           body(f, k) == IF k = 0 THEN c ELSE IF at[k] = at[k - 1] THEN f[k - 1]
                         ELSE Take(f[k - 1], chunk(k), queries)
           T == {m \in Nat : \E f : f = [k \in 0..m |-> body(f, k)]}
           after == CHOOSE f : f = [k \in 0..Chunks |-> body(f, k)]
<1>1. Hear(c, burst, at, queries) = after[Chunks]
  BY Zenon DEF Hear
<1> HIDE DEF chunk, after
<1>2. 0 \in T
  <2> DEFINE f == [k \in 0..0 |-> c]
  <2>1. f = [k \in 0..0 |-> body(f, k)]
    OBVIOUS
  <2> HIDE DEF f
  <2> QED
    BY <2>1
<1>3. ASSUME NEW m \in T PROVE m + 1 \in T
  <2>1. PICK f : f = [k \in 0..m |-> body(f, k)]
    BY <1>3
  <2> DEFINE last == IF at[m + 1] = at[(m + 1) - 1] THEN f[m]
                     ELSE Take(f[m], chunk(m + 1), queries)
             g == [k \in 0..m + 1 |-> IF k \in 0..m THEN f[k] ELSE last]
  <2>2. ASSUME NEW k \in 0..m + 1 PROVE g[k] = body(g, k)
    <3>1. CASE k = 0
      BY <2>1, <3>1
    <3>2. CASE k \in 1..m
      <4>1. k - 1 \in 0..m /\ k \in 0..m /\ k # 0
        BY <3>2
      <4> QED
        BY <2>1, <4>1
    <3>3. CASE k = m + 1
      <4>1. k - 1 = m /\ m \in 0..m /\ k \notin 0..m /\ k # 0
        BY <3>3
      <4>2. g[k] = last /\ g[k - 1] = f[m]
        BY <4>1
      <4> QED
        BY <4>1, <4>2, <3>3
    <3> QED
      BY <3>1, <3>2, <3>3
  <2>3. g = [k \in 0..m + 1 |-> body(g, k)]
    BY <2>2
  <2> HIDE DEF g
  <2> QED
    BY <2>3
<1>4. \E f : f = [k \in 0..Chunks |-> body(f, k)]
  <2>1. T \in SUBSET Nat
    OBVIOUS
  <2> HIDE DEF T
  <2>2. Chunks \in T
    BY <1>2, <1>3, <2>1, Upwards, WireAssumption
  <2> QED
    BY <2>2 DEF T
<1>5. after = [k \in 0..Chunks |-> body(after, k)]
  BY <1>4 DEF after
<1>6. Hears(c, burst, at, queries, after)
  <2>1. after[0] = c
    BY <1>5, WireAssumption
  <2>2. ASSUME NEW k \in 1..Chunks PROVE after[k] = body(after, k)
    <3>1. k \in 0..Chunks
      BY WireAssumption
    <3> QED
      BY <1>5, <3>1
  <2>3. ASSUME NEW k \in 1..Chunks
        PROVE  after[k] = IF at[k] = at[k - 1] THEN after[k - 1] ELSE Take(after[k - 1], chunk(k), queries)
    <3>1. k # 0
      BY WireAssumption
    <3> QED
      BY <2>2, <3>1
  <2> QED
    BY <2>1, <2>3, Zenon DEF Hears, chunk
<1> QED
  BY <1>1, <1>6

\* A conversation: a burst after another.
Plays(c, bursts, cuts, queries, after, n) ==
  /\ after[0] = c
  /\ \A k \in 1..n : after[k] = Hear(after[k - 1], bursts[k], cuts[k], queries)

\* So has that of a conversation.
LEMMA PlaySteps ==
  ASSUME NEW c, NEW bursts, NEW cuts, NEW queries, NEW n \in Nat, n = Len(bursts)
  PROVE  \E after : Plays(c, bursts, cuts, queries, after, n) /\ Play(c, bursts, cuts, queries) = after[n]
<1> DEFINE body(f, k) == IF k = 0 THEN c ELSE Hear(f[k - 1], bursts[k], cuts[k], queries)
           T == {m \in Nat : \E f : f = [k \in 0..m |-> body(f, k)]}
           after == CHOOSE f : f = [k \in 0..n |-> body(f, k)]
<1>1. Play(c, bursts, cuts, queries) = after[n]
  BY Zenon DEF Play
<1> HIDE DEF after
<1>2. 0 \in T
  <2> DEFINE f == [k \in 0..0 |-> c]
  <2>1. f = [k \in 0..0 |-> body(f, k)]
    OBVIOUS
  <2> HIDE DEF f
  <2> QED
    BY <2>1
<1>3. ASSUME NEW m \in T PROVE m + 1 \in T
  <2>1. PICK f : f = [k \in 0..m |-> body(f, k)]
    BY <1>3
  <2> DEFINE last == Hear(f[m], bursts[m + 1], cuts[m + 1], queries)
             g == [k \in 0..m + 1 |-> IF k \in 0..m THEN f[k] ELSE last]
  <2>2. ASSUME NEW k \in 0..m + 1 PROVE g[k] = body(g, k)
    <3>1. CASE k = 0
      BY <2>1, <3>1
    <3>2. CASE k \in 1..m
      <4>1. k - 1 \in 0..m /\ k \in 0..m /\ k # 0
        BY <3>2
      <4> QED
        BY <2>1, <4>1
    <3>3. CASE k = m + 1
      <4>1. k - 1 = m /\ m \in 0..m /\ k \notin 0..m /\ k # 0
        BY <3>3
      <4>2. g[k] = last /\ g[k - 1] = f[m]
        BY <4>1
      <4> QED
        BY <4>1, <4>2, <3>3
    <3> QED
      BY <3>1, <3>2, <3>3
  <2>3. g = [k \in 0..m + 1 |-> body(g, k)]
    BY <2>2
  <2> HIDE DEF g
  <2> QED
    BY <2>3
<1>4. \E f : f = [k \in 0..n |-> body(f, k)]
  <2>1. T \in SUBSET Nat
    OBVIOUS
  <2> HIDE DEF T
  <2>2. n \in T
    BY <1>2, <1>3, <2>1, Upwards
  <2> QED
    BY <2>2 DEF T
<1>5. after = [k \in 0..n |-> body(after, k)]
  BY <1>4 DEF after
<1>6. Plays(c, bursts, cuts, queries, after, n)
  <2>1. after[0] = c
    BY <1>5
  <2>2. ASSUME NEW k \in 1..n PROVE after[k] = Hear(after[k - 1], bursts[k], cuts[k], queries)
    <3>1. k \in 0..n /\ k # 0
      OBVIOUS
    <3> QED
      BY <1>5, <3>1
  <2> QED
    BY <2>1, <2>2 DEF Plays
<1> QED
  BY <1>1, <1>6

(***************************************************************************)
(* What the socket brings.                                                 *)
(***************************************************************************)
\* How many messages are complete after j pieces, and the piece that is over.
Half(j) == j \div 2
Rest(burst, j) == SubSeq(Pieces(burst), 2 * Half(j) + 1, j)

\* Two pieces make a message.
LEMMA HalfOf ==
  ASSUME NEW j \in Nat
  PROVE  Half(j) \in Nat /\ 2 * Half(j) <= j /\ j <= 2 * Half(j) + 1
BY DEF Half

\* There is one such number.
LEMMA HalfUnique ==
  ASSUME NEW j \in Nat, NEW h \in Nat, 2 * h <= j, j <= 2 * h + 1
  PROVE  Half(j) = h
<1> DEFINE e == Half(j)
<1>1. e \in Nat /\ 2 * e <= j /\ j <= 2 * e + 1
  BY HalfOf
<1> HIDE DEF e
<1>2. e = h
  BY <1>1
<1> QED
  BY <1>2 DEF e

\* A message is complete with its second piece.
LEMMA PiecesOf ==
  ASSUME NEW burst \in Seq(Messages)
  PROVE  /\ Pieces(burst) \in Seq(Messages)
         /\ Len(Pieces(burst)) = 2 * Len(burst)
         /\ \A i \in 1..Len(burst) : Pieces(burst)[2 * i] = burst[i]
<1> DEFINE n == 2 * Len(burst)
<1>1. Len(burst) \in Nat /\ n \in Nat
  OBVIOUS
<1>2. ASSUME NEW j \in 1..n PROVE (j + 1) \div 2 \in 1..Len(burst)
  <2> DEFINE i == j + 1
             e == Half(i)
  <2>1. i \in Nat
    BY <1>1
  <2>2. e \in Nat /\ 2 * e <= i /\ i <= 2 * e + 1
    BY HalfOf, <2>1
  <2> HIDE DEF e
  <2>3. e \in 1..Len(burst)
    BY <2>2, <1>1
  <2> QED
    BY <2>3 DEF e, Half
<1>3. Pieces(burst) = [j \in 1..n |-> burst[(j + 1) \div 2]]
  BY Zenon DEF Pieces
<1>4. \A j \in 1..n : burst[(j + 1) \div 2] \in Messages
  BY <1>2, ElementOfSeq
<1>5. Pieces(burst) \in [1..n -> Messages]
  BY <1>3, <1>4
<1>6. Pieces(burst) \in Seq(Messages)
  BY <1>1, <1>5, SeqDef
<1>7. Len(Pieces(burst)) = n
  <2>1. DOMAIN Pieces(burst) = 1..n
    BY <1>5
  <2>2. DOMAIN Pieces(burst) = 1..Len(Pieces(burst)) /\ Len(Pieces(burst)) \in Nat
    BY <1>6, LenProperties
  <2> QED
    BY <2>1, <2>2, <1>1
<1>8. ASSUME NEW i \in 1..Len(burst) PROVE Pieces(burst)[2 * i] = burst[i]
  <2>1. 2 * i \in 1..n /\ 2 * i + 1 \in Nat /\ i \in Nat
    BY <1>1
  <2>2. Half(2 * i + 1) = i
    BY <2>1, HalfUnique
  <2>3. Pieces(burst)[2 * i] = burst[(2 * i + 1) \div 2]
    BY <1>3, <2>1
  <2> QED
    BY <2>2, <2>3 DEF Half
<1> QED
  BY <1>6, <1>7, <1>8

\* With the chunk from piece j to piece k, the messages from one half to the
\* other are complete.
LEMMA ChunkOf ==
  ASSUME NEW burst \in Seq(Messages), NEW j \in 0..2 * Len(burst), NEW k \in 0..2 * Len(burst), j <= k
  PROVE  LET pieces == Rest(burst, j) \o SubSeq(Pieces(burst), j + 1, k) IN
         /\ Complete(pieces) = Half(k) - Half(j) /\ Incomplete(pieces) = Rest(burst, k)
         /\ \A t \in 1..Half(k) - Half(j) : pieces[2 * t] = burst[Half(j) + t]
<1> DEFINE all == Pieces(burst)
           h == Half(j)
           e == Half(k)
           pieces == SubSeq(all, 2 * h + 1, k)
           n == Len(burst)
<1>1. /\ h \in Nat /\ 2 * h <= j /\ j <= 2 * h + 1 /\ e \in Nat /\ 2 * e <= k /\ k <= 2 * e + 1
      /\ n \in Nat /\ j \in Nat /\ k \in Nat /\ k <= 2 * n
  BY HalfOf
<1>2. all \in Seq(Messages) /\ Len(all) = 2 * n /\ \A i \in 1..n : all[2 * i] = burst[i]
  BY PiecesOf
<1> HIDE DEF all, h, e, n
<1>3. SubSeq(all, 2 * h + 1, j) \o SubSeq(all, j + 1, k) = pieces
  <2>1. 2 * h + 1 \in 1..Len(all) + 1 /\ j \in (2 * h + 1) - 1..Len(all) /\ k \in j..Len(all)
    BY <1>1, <1>2
  <2> QED
    BY <1>2, <2>1, ConcatAdjacentSubSeq
<1>4. /\ pieces \in Seq(Messages) /\ Len(pieces) = k - 2 * h
      /\ \A i \in 1..k - 2 * h : pieces[i] = all[2 * h + i]
  <2>1. \A i \in 2 * h + 1..k : i \in 1..Len(all)
    BY <1>1, <1>2
  <2>2. \A i \in 2 * h + 1..k : all[i] \in Messages
    BY <1>2, <2>1, ElementOfSeq
  <2>3. 2 * h + 1 \in Int /\ k \in Int
    BY <1>1
  <2>4. /\ pieces \in Seq(Messages)
        /\ Len(pieces) = IF 2 * h + 1 <= k THEN k - (2 * h + 1) + 1 ELSE 0
        /\ \A i \in 1..k - (2 * h + 1) + 1 : pieces[i] = all[(2 * h + 1) + i - 1]
    BY <2>2, <2>3, SubSeqProperties
  <2>5. k - (2 * h + 1) + 1 = k - 2 * h /\ \A i \in Int : (2 * h + 1) + i - 1 = 2 * h + i
    BY <1>1
  <2>6. 2 * h <= k
    BY <1>1
  <2> HIDE DEF pieces
  <2> QED
    BY <2>4, <2>5, <2>6, <1>1
<1>5. h <= e
  BY <1>1
<1>6. Complete(pieces) = e - h
  <2>1. k - 2 * h \in Nat /\ e - h \in Nat /\ 2 * (e - h) <= k - 2 * h /\ k - 2 * h <= 2 * (e - h) + 1
    BY <1>1, <1>5
  <2>2. Half(k - 2 * h) = e - h
    BY <2>1, HalfUnique
  <2> QED
    BY <1>4, <2>2, Zenon DEF Complete, Half
<1>7. \A t \in 1..e - h : pieces[2 * t] = burst[h + t]
  <2> SUFFICES ASSUME NEW t \in 1..e - h PROVE pieces[2 * t] = burst[h + t]
    OBVIOUS
  <2> HIDE DEF pieces
  <2>1. 2 * t \in 1..k - 2 * h /\ h + t \in 1..n /\ 2 * h + 2 * t = 2 * (h + t)
    BY <1>1, <1>5
  <2> QED
    BY <1>2, <1>4, <2>1
<1>8. Incomplete(pieces) = SubSeq(all, 2 * e + 1, k)
  <2> DEFINE rest == SubSeq(all, 2 * e + 1, k)
             left == SubSeq(pieces, 2 * (e - h) + 1, k - 2 * h)
  <2>1. Incomplete(pieces) = left
    BY <1>4, <1>6, Zenon DEF Incomplete
  <2> HIDE DEF pieces
  <2>2. CASE k = 2 * e
    <3>1. k < 2 * e + 1 /\ 2 * e + 1 \in Int /\ k \in Int
      BY <1>1, <2>2
    <3>2. k - 2 * h < 2 * (e - h) + 1 /\ 2 * (e - h) + 1 \in Int /\ k - 2 * h \in Int
      BY <1>1, <2>2
    <3>3. rest = <<>>
      BY <3>1, SubSeqEmpty
    <3>4. left = <<>>
      BY <3>2, SubSeqEmpty
    <3> QED
      BY <2>1, <3>3, <3>4
  <2>3. CASE k = 2 * e + 1
    <3>1. k \in 1..Len(all)
      BY <1>1, <1>2, <2>3
    <3>2. /\ k - 2 * h \in 1..Len(pieces) /\ 2 * (e - h) + 1 = k - 2 * h
      BY <1>1, <1>4, <1>5, <2>3
    <3>3. pieces[k - 2 * h] = all[k]
      <4>1. k - 2 * h \in 1..k - 2 * h /\ 2 * h + (k - 2 * h) = k
        BY <1>1, <3>2, <1>4
      <4> QED
        BY <1>4, <4>1
    <3>4. ASSUME NEW s \in Seq(Messages), NEW i \in 1..Len(s) PROVE SubSeq(s, i, i) = <<s[i]>>
      <4>1. i \in i..Len(s) /\ i + 1 \in Int /\ i \in Int /\ i < i + 1
        OBVIOUS
      <4>2. SubSeq(s, i, i) = <<s[i]>> \o SubSeq(s, i + 1, i)
        BY <4>1, SubSeqRecursiveFirst
      <4>3. SubSeq(s, i + 1, i) = <<>>
        BY <4>1, SubSeqEmpty
      <4>4. <<s[i]>> \in Seq(Messages)
        BY ElementOfSeq
      <4> QED
        BY <4>2, <4>3, <4>4, ConcatEmptySeq
    <3>5. left = <<all[k]>>
      BY <1>4, <3>2, <3>3, <3>4
    <3>6. rest = <<all[k]>>
      BY <1>2, <2>3, <3>1, <3>4
    <3> QED
      BY <2>1, <3>5, <3>6
  <2> QED
    BY <1>1, <2>2, <2>3
<1> QED
  BY <1>3, <1>6, <1>7, <1>8, Zenon DEF Rest, all, h, e

(***************************************************************************)
(* What the loops keep: S is the states that a connection may be in, after *)
(* so many messages, pieces or bursts.                                     *)
(***************************************************************************)
\* A chunk: each message leads from one set of states to the next.
LEMMA OnDataKeeps ==
  ASSUME NEW burst \in Seq(Messages), NEW j \in 0..2 * Len(burst), NEW k \in 0..2 * Len(burst), j <= k,
         NEW c, c.buffer = Rest(burst, j), NEW S,
         [c EXCEPT !.buffer = Rest(burst, k)] \in S[Half(j)],
         \A i \in Half(j) + 1..Half(k) : \A d \in S[i - 1] : Dispatch(d, burst[i]) \in S[i]
  PROVE  OnData(c, SubSeq(Pieces(burst), j + 1, k)) \in S[Half(k)]
<1> DEFINE chunk == SubSeq(Pieces(burst), j + 1, k)
           pieces == c.buffer \o chunk
           first == [c EXCEPT !.buffer = Rest(burst, k)]
           h == Half(j)
           e == Half(k)
           n == e - h
<1>1. /\ Complete(pieces) = n /\ Incomplete(pieces) = Rest(burst, k)
      /\ \A t \in 1..n : pieces[2 * t] = burst[h + t]
  BY ChunkOf, Zenon
<1>2. h \in Nat /\ e \in Nat /\ n \in Nat
  <2>1. j \in Nat /\ k \in Nat
    OBVIOUS
  <2>2. h \in Nat /\ 2 * h <= j /\ j <= 2 * h + 1 /\ e \in Nat /\ 2 * e <= k /\ k <= 2 * e + 1
    BY <2>1, HalfOf
  <2> HIDE DEF h, e
  <2> QED
    BY <2>1, <2>2
<1>3. PICK after : Heard(c, pieces, after, n) /\ OnData(c, chunk) = after[n]
  <2> HIDE DEF pieces, n, chunk
  <2>1. n \in Nat /\ n = Complete(c.buffer \o chunk)
    BY <1>1, <1>2 DEF pieces
  <2> QED
    BY <2>1, OnDataSteps, Zenon DEF pieces
<1>4. after[0] = first /\ \A t \in 1..n : after[t] = Dispatch(after[t - 1], pieces[2 * t])
  BY <1>1, <1>3, Zenon DEF Heard
<1>5. first \in S[h] /\ \A i \in h + 1..e : \A d \in S[i - 1] : Dispatch(d, burst[i]) \in S[i]
  OBVIOUS
<1> HIDE DEF pieces, first, h, e, chunk
<1> DEFINE T == {t \in Nat : t <= n => after[t] \in S[h + t]}
<1>6. 0 \in T
  BY <1>2, <1>4, <1>5
<1>7. ASSUME NEW t \in T PROVE t + 1 \in T
  <2> SUFFICES ASSUME t + 1 <= n PROVE after[t + 1] \in S[h + (t + 1)]
    OBVIOUS
  <2> HIDE DEF T
  <2>0. t \in Nat
    BY <1>7 DEF T
  <2>1. t + 1 \in 1..n /\ (t + 1) - 1 = t /\ h + (t + 1) \in h + 1..e /\ (h + (t + 1)) - 1 = h + t /\ t <= n
    BY <1>2, <2>0, SMTT(30)
  <2>2. after[t + 1] = Dispatch(after[t], burst[h + (t + 1)])
    BY <1>1, <1>4, <2>1
  <2>3. after[t] \in S[h + t]
    <3>1. t <= n => after[t] \in S[h + t]
      BY <1>7, Zenon DEF T
    <3> QED
      BY <2>1, <3>1
  <2> QED
    BY <1>5, <2>1, <2>2, <2>3
<1>8. n \in T
  <2>1. T \in SUBSET Nat
    OBVIOUS
  <2> HIDE DEF T, n
  <2> QED
    BY <1>2, <1>6, <1>7, <2>1, Upwards
<1>9. after[n] \in S[e]
  BY <1>2, <1>8
<1> QED
  BY <1>3, <1>9 DEF chunk, e

\* A burst: each chunk does, wherever it begins and ends.
LEMMA HearKeeps ==
  ASSUME NEW burst \in Seq(Messages), NEW at \in Cuts(burst), NEW queries, NEW S, NEW c \in S[0],
         \A j, k \in 0..2 * Len(burst) : \A d \in S[j] :
           j < k /\ ~Apart(burst, j) /\ ~Apart(burst, k) =>
             Take(d, SubSeq(Pieces(burst), j + 1, k), queries) \in S[k]
  PROVE  Hear(c, burst, at, queries) \in S[2 * Len(burst)]
<1>1. PICK after : Hears(c, burst, at, queries, after) /\ Hear(c, burst, at, queries) = after[Chunks]
  BY HearSteps
<1>2. /\ at \in [0..Chunks -> 0..2 * Len(burst)] /\ at[0] = 0 /\ at[Chunks] = 2 * Len(burst)
      /\ \A i \in 1..Chunks : at[i - 1] <= at[i] /\ ~Apart(burst, at[i])
  BY DEF Cuts
<1>3. /\ after[0] = c
      /\ \A k \in 1..Chunks :
           after[k] = IF at[k] = at[k - 1] THEN after[k - 1]
                      ELSE Take(after[k - 1], SubSeq(Pieces(burst), at[k - 1] + 1, at[k]), queries)
  BY <1>1, Zenon DEF Hears
<1>4. Chunks \in Nat /\ Len(burst) \in Nat
  BY WireAssumption
<1>5. ~Apart(burst, 0)
  BY <1>4 DEF Apart
<1> DEFINE T == {k \in Nat : k <= Chunks => after[k] \in S[at[k]] /\ ~Apart(burst, at[k])}
<1>6. 0 \in T
  BY <1>2, <1>3, <1>5
<1>7. ASSUME NEW k \in T PROVE k + 1 \in T
  <2> SUFFICES ASSUME k + 1 <= Chunks PROVE after[k + 1] \in S[at[k + 1]] /\ ~Apart(burst, at[k + 1])
    OBVIOUS
  <2>1. k + 1 \in 1..Chunks /\ (k + 1) - 1 = k /\ k \in 0..Chunks /\ k + 1 \in 0..Chunks /\ k <= Chunks
    BY <1>4
  <2>2. after[k] \in S[at[k]] /\ ~Apart(burst, at[k]) /\ ~Apart(burst, at[k + 1]) /\ at[k] <= at[k + 1]
    BY <1>2, <1>7, <2>1
  <2>3. at[k] \in 0..2 * Len(burst) /\ at[k + 1] \in 0..2 * Len(burst)
    BY <1>2, <2>1
  <2>4. CASE at[k + 1] = at[k]
    BY <1>3, <2>1, <2>2, <2>4
  <2>5. CASE at[k + 1] # at[k]
    <3>1. at[k] < at[k + 1]
      BY <2>2, <2>3, <2>5, <1>4
    <3>2. after[k + 1] = Take(after[k], SubSeq(Pieces(burst), at[k] + 1, at[k + 1]), queries)
      BY <1>3, <2>1, <2>5
    <3>3. Take(after[k], SubSeq(Pieces(burst), at[k] + 1, at[k + 1]), queries) \in S[at[k + 1]]
      BY <2>2, <2>3, <3>1
    <3> QED
      BY <2>2, <3>2, <3>3
  <2> QED
    BY <2>4, <2>5
<1>8. Chunks \in T
  <2>1. T \in SUBSET Nat
    OBVIOUS
  <2> HIDE DEF T
  <2> QED
    BY <1>4, <1>6, <1>7, <2>1, Upwards
<1> QED
  BY <1>1, <1>2, <1>4, <1>8

\* A conversation: each burst does.
LEMMA PlayKeeps ==
  ASSUME NEW bursts, NEW n \in Nat, n = Len(bursts), NEW cuts, NEW queries, NEW S, NEW c \in S[0],
         \A k \in 1..n : \A d \in S[k - 1] : Hear(d, bursts[k], cuts[k], queries) \in S[k]
  PROVE  Play(c, bursts, cuts, queries) \in S[n]
<1>1. PICK after : Plays(c, bursts, cuts, queries, after, n) /\ Play(c, bursts, cuts, queries) = after[n]
  BY PlaySteps
<1>2. after[0] = c /\ \A k \in 1..n : after[k] = Hear(after[k - 1], bursts[k], cuts[k], queries)
  BY <1>1, Zenon DEF Plays
<1> DEFINE T == {k \in Nat : k <= n => after[k] \in S[k]}
<1>3. 0 \in T
  BY <1>2
<1>4. ASSUME NEW k \in T PROVE k + 1 \in T
  <2> SUFFICES ASSUME k + 1 <= n PROVE after[k + 1] \in S[k + 1]
    OBVIOUS
  <2>1. k + 1 \in 1..n /\ (k + 1) - 1 = k /\ k <= n
    OBVIOUS
  <2>2. after[k] \in S[k]
    BY <1>4, <2>1
  <2> QED
    BY <1>2, <2>1, <2>2
<1>5. n \in T
  <2>1. T \in SUBSET Nat
    OBVIOUS
  <2> HIDE DEF T
  <2> QED
    BY <1>3, <1>4, <2>1, Upwards
<1> QED
  BY <1>1, <1>5

(***************************************************************************)
(* States of the connection.                                               *)
(***************************************************************************)
Outcomes == {"connected", "refused", "error"} \cup Nat
Conn == [auth : {"asked", "refused", "done"}, ready : BOOLEAN, buffer : Seq(Messages),
         waits : BOOLEAN, messages : Seq(Messages), answers : Seq(Outcomes)]

\* Rows can be counted.
LEMMA RowsTyped ==
  ASSUME NEW messages \in Seq(Messages)
  PROVE  Rows(messages) \in Nat
<1> DEFINE those == {i \in DOMAIN messages : messages[i] = "row"}
<1>1. DOMAIN messages = 1..Len(messages) /\ Len(messages) \in Nat
  BY LenProperties
<1>2. IsFiniteSet(1..Len(messages)) /\ those \subseteq 1..Len(messages)
  BY <1>1, FS_Interval
<1>3. IsFiniteSet(those)
  BY <1>2, FS_Subset
<1>4. Rows(messages) = Cardinality(those)
  BY Zenon DEF Rows
<1> HIDE DEF those
<1> QED
  BY <1>3, <1>4, FS_CardinalityType, Zenon

\* The caller's answer is one more.
LEMMA ResolveIs ==
  ASSUME NEW d \in Conn
  PROVE  LET e == Resolve(d) IN
         /\ e \in Conn /\ e.auth = d.auth /\ e.ready = d.ready /\ e.buffer = d.buffer
         /\ ~e.waits /\ e.messages = <<>>
         /\ e.answers = Append(d.answers, IF d.answers = <<>> THEN "connected" ELSE Rows(d.messages))
<1> DEFINE one == IF d.answers = <<>> THEN "connected" ELSE Rows(d.messages)
<1>1. one \in Outcomes
  BY RowsTyped DEF Conn, Outcomes
<1>2. Append(d.answers, one) \in Seq(Outcomes)
  BY <1>1, AppendProperties DEF Conn
<1>3. Resolve(d) = [d EXCEPT !.waits = FALSE, !.messages = <<>>, !.answers = Append(d.answers, one)]
  BY Zenon DEF Resolve, Connecting
<1>4. <<>> \in Seq(Messages) /\ FALSE \in BOOLEAN
  OBVIOUS
<1> DEFINE more == Append(d.answers, one)
           e == Resolve(d)
<1>5. /\ e \in Conn /\ e.auth = d.auth /\ e.ready = d.ready /\ e.buffer = d.buffer
      /\ ~e.waits /\ e.messages = <<>> /\ e.answers = more
  <2>1. e = [d EXCEPT !.waits = FALSE, !.messages = <<>>, !.answers = more]
    BY <1>3
  <2>2. more \in Seq(Outcomes)
    BY <1>2
  <2> HIDE DEF more, e
  <2> QED
    BY <1>4, <2>1, <2>2 DEF Conn
<1> QED
  BY <1>5, Zenon DEF more, one, e

\* So is an error.
LEMMA RejectIs ==
  ASSUME NEW d \in Conn
  PROVE  LET e == Reject(d) IN
         /\ e \in Conn /\ e.auth = d.auth /\ e.ready = d.ready /\ e.buffer = d.buffer
         /\ ~e.waits /\ e.messages = <<>>
         /\ e.answers = Append(d.answers, IF d.answers = <<>> THEN "refused" ELSE "error")
<1> DEFINE one == IF d.answers = <<>> THEN "refused" ELSE "error"
<1>1. one \in Outcomes
  BY DEF Outcomes
<1>2. Append(d.answers, one) \in Seq(Outcomes)
  BY <1>1, AppendProperties DEF Conn
<1>3. Reject(d) = [d EXCEPT !.waits = FALSE, !.messages = <<>>, !.answers = Append(d.answers, one)]
  BY Zenon DEF Reject, Connecting
<1>4. <<>> \in Seq(Messages) /\ FALSE \in BOOLEAN
  OBVIOUS
<1> DEFINE more == Append(d.answers, one)
           e == Reject(d)
<1>5. /\ e \in Conn /\ e.auth = d.auth /\ e.ready = d.ready /\ e.buffer = d.buffer
      /\ ~e.waits /\ e.messages = <<>> /\ e.answers = more
  <2>1. e = [d EXCEPT !.waits = FALSE, !.messages = <<>>, !.answers = more]
    BY <1>3
  <2>2. more \in Seq(Outcomes)
    BY <1>2
  <2> HIDE DEF more, e
  <2> QED
    BY <1>4, <2>1, <2>2 DEF Conn
<1> QED
  BY <1>5, Zenon DEF more, one, e

\* A message of the login.
LEMMA DispatchLogin ==
  ASSUME NEW d \in Conn, NEW m \in Requests \cup {"error"}, d.auth = "asked"
  PROVE  LET e == Dispatch(d, m) IN
         /\ e \in Conn /\ e.ready = d.ready /\ e.buffer = d.buffer /\ e.waits = d.waits
         /\ e.messages = d.messages /\ e.answers = d.answers
         /\ e.auth = IF m \in {"error", "forged"} THEN "refused"
                     ELSE IF m \in {"ok", "final"} THEN "done" ELSE "asked"
<1>1. Dispatch(d, m) = Authenticate(d, m)
  BY Zenon DEF Dispatch
<1>2. CASE m \in {"error", "forged"}
  BY <1>1, <1>2 DEF Authenticate, Conn
<1>3. CASE m \in {"ok", "final"}
  BY <1>1, <1>3 DEF Authenticate, Conn
<1>4. CASE m \notin {"error", "forged", "ok", "final"}
  BY <1>1, <1>4 DEF Authenticate, Conn
<1> QED
  BY <1>2, <1>3, <1>4

\* A message that is not one of the login.
Later(d, m) == ~(d.auth = "asked" /\ m \in Requests \cup {"error"})

\* Nobody waits for it.
LEMMA DispatchUnasked ==
  ASSUME NEW d \in Conn, NEW m \in Messages, Later(d, m), ~d.waits
  PROVE  LET e == Dispatch(d, m) IN
         /\ e \in Conn /\ e.auth = d.auth /\ e.buffer = d.buffer /\ ~e.waits
         /\ e.messages = d.messages /\ e.answers = d.answers
         /\ (e.ready <=> d.ready \/ m = "ready")
<1>1. Dispatch(d, m) = IF m = "ready" THEN [d EXCEPT !.ready = TRUE] ELSE d
  BY Zenon DEF Dispatch, Later
<1>2. CASE m = "ready"
  BY <1>1, <1>2 DEF Conn
<1>3. CASE m # "ready"
  BY <1>1, <1>3 DEF Conn
<1> QED
  BY <1>2, <1>3

\* A query, or connect, waits for it.
LEMMA DispatchAwaited ==
  ASSUME NEW d \in Conn, NEW m \in Messages, Later(d, m), d.waits
  PROVE  LET e == Dispatch(d, m) IN
         /\ e \in Conn /\ e.auth = d.auth /\ e.buffer = d.buffer
         /\ (e.ready <=> d.ready \/ m = "ready")
         /\ m = "ready" =>
              /\ ~e.waits /\ e.messages = <<>>
              /\ e.answers = Append(d.answers, IF d.answers = <<>> THEN "connected" ELSE Rows(d.messages))
         /\ m = "error" =>
              /\ ~e.waits /\ e.messages = <<>>
              /\ e.answers = Append(d.answers, IF d.answers = <<>> THEN "refused" ELSE "error")
         /\ m \notin {"ready", "error"} =>
              e.waits /\ e.messages = Append(d.messages, m) /\ e.answers = d.answers
<1>1. CASE m = "ready"
  <2> DEFINE r == [d EXCEPT !.ready = TRUE]
  <2>1. Dispatch(d, m) = Resolve(r)
    BY <1>1, Zenon DEF Dispatch, Later
  <2>2. /\ r \in Conn /\ r.auth = d.auth /\ r.ready = TRUE /\ r.buffer = d.buffer
        /\ r.messages = d.messages /\ r.answers = d.answers
    BY DEF Conn
  <2> HIDE DEF r
  <2> QED
    BY <1>1, <2>1, <2>2, ResolveIs
<1>2. CASE m = "error"
  <2>1. Dispatch(d, m) = Reject(d)
    BY <1>2, Zenon DEF Dispatch, Later
  <2> QED
    BY <1>2, <2>1, RejectIs
<1>3. CASE m \notin {"ready", "error"}
  <2> DEFINE more == Append(d.messages, m)
  <2>1. Dispatch(d, m) = [d EXCEPT !.messages = more]
    BY <1>3, Zenon DEF Dispatch, Later
  <2>2. more \in Seq(Messages)
    BY AppendProperties DEF Conn
  <2> HIDE DEF more
  <2>3. /\ [d EXCEPT !.messages = more] \in Conn
        /\ \A f \in {"auth", "ready", "buffer", "waits", "answers"} : [d EXCEPT !.messages = more][f] = d[f]
        /\ [d EXCEPT !.messages = more].messages = more
    BY <2>2 DEF Conn
  <2> QED
    BY <1>3, <2>1, <2>3 DEF more
<1> QED
  BY <1>1, <1>2, <1>3

\* What connect does after a chunk, for each outcome of the authentication.
LEMMA StartupIs ==
  ASSUME NEW d \in Conn
  PROVE  LET e == Startup(d) IN
         /\ e \in Conn /\ e.auth = d.auth /\ e.ready = d.ready /\ e.buffer = d.buffer
         /\ d.answers # <<>> \/ d.auth = "asked" => e = d
         /\ d.answers = <<>> /\ d.auth = "refused" => ~e.waits /\ e.answers = <<"refused">>
         /\ d.answers = <<>> /\ d.auth = "done" /\ d.ready =>
              ~e.waits /\ e.messages = <<>> /\ e.answers = <<"connected">>
         /\ d.answers = <<>> /\ d.auth = "done" /\ ~d.ready =>
              e.waits /\ e.messages = d.messages /\ e.answers = <<>>
<1>0. \A x : Append(<<>>, x) = <<x>>
  OBVIOUS
<1>1. CASE d.answers # <<>> \/ d.auth = "asked"
  <2>1. Startup(d) = d
    BY <1>1, Zenon DEF Startup, Connecting
  <2> QED
    BY <1>1, <2>1
<1>2. CASE d.answers = <<>> /\ d.auth = "refused"
  <2>1. Startup(d) = Reject(d)
    BY <1>2, Zenon DEF Startup, Connecting
  <2> QED
    BY <1>0, <1>2, <2>1, RejectIs
<1>3. CASE d.answers = <<>> /\ d.auth = "done" /\ d.ready
  <2>1. Startup(d) = Resolve(d)
    BY <1>3, Zenon DEF Startup, Connecting
  <2> DEFINE e == Resolve(d)
             more == Append(d.answers, IF d.answers = <<>> THEN "connected" ELSE Rows(d.messages))
  <2>2. /\ e \in Conn /\ e.auth = d.auth /\ e.ready = d.ready /\ e.buffer = d.buffer
        /\ ~e.waits /\ e.messages = <<>> /\ e.answers = more
    BY ResolveIs, Zenon
  <2>3. more = <<"connected">>
    BY <1>0, <1>3
  <2> HIDE DEF e, more
  <2> QED
    BY <1>3, <2>1, <2>2, <2>3 DEF e
<1>4. CASE d.answers = <<>> /\ d.auth = "done" /\ ~d.ready
  <2>1. Startup(d) = [d EXCEPT !.waits = TRUE]
    BY <1>4, Zenon DEF Startup, Connecting
  <2> QED
    BY <1>4, <2>1 DEF Conn
<1> QED
  BY <1>1, <1>2, <1>3, <1>4 DEF Conn

\* What the next query does after a chunk.
LEMMA QueryIs ==
  ASSUME NEW d \in Conn, NEW queries \in Nat
  PROVE  LET e == Query(d, queries) IN
         /\ e \in Conn /\ e.auth = d.auth /\ e.ready = d.ready /\ e.buffer = d.buffer
         /\ e.messages = d.messages /\ e.answers = d.answers
         /\ (e.waits <=> \/ d.waits
                         \/ d.answers # <<>> /\ d.answers[1] = "connected" /\ Len(d.answers) <= queries)
<1> DEFINE w == \/ d.waits
                \/ d.answers # <<>> /\ d.answers[1] = "connected" /\ Len(d.answers) <= queries
<1>1. Query(d, queries) = [d EXCEPT !.waits = w]
  BY Zenon DEF Query
<1>2. w \in BOOLEAN
  OBVIOUS
<1>3. CASE w
  <2>1. w = TRUE
    BY <1>2, <1>3, Zenon
  <2>2. Query(d, queries) = [d EXCEPT !.waits = TRUE]
    BY <1>1, <2>1, Zenon
  <2> HIDE DEF w
  <2> QED
    BY <1>3, <2>2 DEF Conn, w
<1>4. CASE ~w
  <2>1. w = FALSE
    BY <1>2, <1>4, Zenon
  <2>2. Query(d, queries) = [d EXCEPT !.waits = FALSE]
    BY <1>1, <2>1, Zenon
  <2> HIDE DEF w
  <2> QED
    BY <1>4, <2>2 DEF Conn, w
<1> QED
  BY <1>3, <1>4

(***************************************************************************)
(* The socket brings a chunk.                                              *)
(***************************************************************************)
\* What is over of a burst is a sequence of messages, and nothing before its
\* first piece and after its last.
LEMMA RestOf ==
  ASSUME NEW burst \in Seq(Messages), NEW j \in 0..2 * Len(burst)
  PROVE  /\ Rest(burst, j) \in Seq(Messages) /\ Half(j) \in 0..Len(burst)
         /\ j = 0 => Rest(burst, j) = <<>> /\ Half(j) = 0
         /\ j = 2 * Len(burst) => Rest(burst, j) = <<>> /\ Half(j) = Len(burst)
         /\ j < 2 * Len(burst) => Half(j) < Len(burst)
<1> DEFINE all == Pieces(burst)
           h == Half(j)
           n == Len(burst)
<1>1. h \in Nat /\ 2 * h <= j /\ j <= 2 * h + 1 /\ n \in Nat /\ j \in 0..2 * n
  BY HalfOf
<1>2. all \in Seq(Messages) /\ Len(all) = 2 * n
  BY PiecesOf
<1>3. Rest(burst, j) = SubSeq(all, 2 * h + 1, j)
  BY Zenon DEF Rest
<1> HIDE DEF all, h, n
<1>4. \A i \in 2 * h + 1..j : all[i] \in Messages
  <2>1. \A i \in 2 * h + 1..j : i \in 1..Len(all)
    BY <1>1, <1>2
  <2> QED
    BY <1>2, <2>1, ElementOfSeq
<1>5. SubSeq(all, 2 * h + 1, j) \in Seq(Messages)
  <2>1. 2 * h + 1 \in Int /\ j \in Int
    BY <1>1
  <2> QED
    BY <1>4, <2>1, SubSeqProperties
<1>6. h \in 0..n /\ (j = 0 => h = 0) /\ (j = 2 * n => h = n) /\ (j < 2 * n => h < n)
  BY <1>1
<1>7. j = 0 \/ j = 2 * n => SubSeq(all, 2 * h + 1, j) = <<>>
  <2> SUFFICES ASSUME j = 0 \/ j = 2 * n PROVE SubSeq(all, 2 * h + 1, j) = <<>>
    OBVIOUS
  <2>1. 2 * h + 1 \in Int /\ j \in Int /\ j < 2 * h + 1
    BY <1>1, <1>6
  <2> QED
    BY <2>1, SubSeqEmpty
<1> QED
  BY <1>3, <1>5, <1>6, <1>7 DEF h, n

\* A chunk is heard, then connect and the next query go on.
LEMMA TakeKeeps ==
  ASSUME NEW burst \in Seq(Messages), NEW j \in 0..2 * Len(burst), NEW k \in 0..2 * Len(burst), j < k,
         NEW d \in Conn, d.buffer = Rest(burst, j), NEW queries, NEW R, NEW Z,
         \A e \in Conn :
           /\ e.auth = d.auth /\ e.ready = d.ready /\ e.buffer = Rest(burst, k)
           /\ e.waits = d.waits /\ e.messages = d.messages /\ e.answers = d.answers
           => e \in R[Half(j)],
         \A i \in Half(j) + 1..Half(k) : \A e \in R[i - 1] : Dispatch(e, burst[i]) \in R[i],
         \A e \in R[Half(k)] : Query(Startup(e), queries) \in Z
  PROVE  Take(d, SubSeq(Pieces(burst), j + 1, k), queries) \in Z
<1> DEFINE buf == Rest(burst, k)
           first == [d EXCEPT !.buffer = buf]
           heard == OnData(d, SubSeq(Pieces(burst), j + 1, k))
<1>1. Rest(burst, k) \in Seq(Messages) /\ j <= k
  BY RestOf
<1>2. first \in R[Half(j)]
  <2>1. buf \in Seq(Messages)
    BY <1>1
  <2>2. first = [d EXCEPT !.buffer = buf]
    OBVIOUS
  <2> HIDE DEF first, buf
  <2>3. /\ first \in Conn /\ first.auth = d.auth /\ first.ready = d.ready /\ first.buffer = buf
        /\ first.waits = d.waits /\ first.messages = d.messages /\ first.answers = d.answers
    BY <2>1, <2>2 DEF Conn
  <2> QED
    BY <2>3 DEF buf
<1>3. heard \in R[Half(k)]
  BY <1>1, <1>2, OnDataKeeps, Zenon
<1>4. Query(Startup(heard), queries) \in Z
  BY <1>3, Zenon
<1> QED
  BY <1>4, Zenon DEF Take

(***************************************************************************)
(* The login.                                                              *)
(***************************************************************************)
\* Connect awaits the authentication, or was just told of its end.
Login(auth, ready, buf) ==
  {c \in Conn : /\ c.auth = auth /\ (c.ready <=> ready) /\ c.buffer = buf
                /\ ~c.waits /\ c.messages = <<>> /\ c.answers = <<>>}
Challenged(buf) == Login("asked", FALSE, buf)
\* It waits for a "ready".
Granted(buf) ==
  {c \in Conn : /\ c.auth = "done" /\ ~c.ready /\ c.buffer = buf /\ c.waits /\ c.answers = <<>>}
\* It was refused.
Refused(buf, answers) ==
  {c \in Conn : c.auth = "refused" /\ c.buffer = buf /\ ~c.waits /\ c.answers = answers}
\* It is not ready.
Broken(buf) ==
  {c \in Conn : /\ ~c.ready /\ c.buffer = buf
                /\ c.answers = <<>> \/ (c.answers = <<"refused">> /\ ~c.waits)}
\* Nobody waits, or the query that is next.
Done(buf, answers) ==
  {c \in Conn : /\ c.auth = "done" /\ c.ready /\ c.buffer = buf
                /\ ~c.waits /\ c.messages = <<>> /\ c.answers = answers}
Free(answers, queries) ==
  {c \in Conn : /\ c.auth = "done" /\ c.ready /\ c.buffer = <<>>
                /\ (c.waits <=> Len(answers) <= queries) /\ c.messages = <<>> /\ c.answers = answers}

\* What is awaited after a chunk.
LEMMA SettleIs ==
  ASSUME NEW d \in Conn, NEW queries \in Nat
  PROVE  LET e == Query(Startup(d), queries) IN
         /\ e \in Conn /\ e.auth = d.auth /\ e.ready = d.ready /\ e.buffer = d.buffer
         /\ d.answers # <<>> =>
              /\ e.answers = d.answers /\ e.messages = d.messages
              /\ e.waits <=> d.waits \/ (d.answers[1] = "connected" /\ Len(d.answers) <= queries)
         /\ d.answers = <<>> /\ d.auth = "asked" =>
              (e.waits <=> d.waits) /\ e.messages = d.messages /\ e.answers = <<>>
         /\ d.answers = <<>> /\ d.auth = "refused" => ~e.waits /\ e.answers = <<"refused">>
         /\ d.answers = <<>> /\ d.auth = "done" /\ d.ready =>
              (e.waits <=> 1 <= queries) /\ e.messages = <<>> /\ e.answers = <<"connected">>
         /\ d.answers = <<>> /\ d.auth = "done" /\ ~d.ready =>
              e.waits /\ e.messages = d.messages /\ e.answers = <<>>
<1> DEFINE s == Startup(d)
           e == Query(s, queries)
<1>1. /\ s \in Conn /\ s.auth = d.auth /\ s.ready = d.ready /\ s.buffer = d.buffer
      /\ d.answers # <<>> \/ d.auth = "asked" => s = d
      /\ d.answers = <<>> /\ d.auth = "refused" => ~s.waits /\ s.answers = <<"refused">>
      /\ d.answers = <<>> /\ d.auth = "done" /\ d.ready =>
           ~s.waits /\ s.messages = <<>> /\ s.answers = <<"connected">>
      /\ d.answers = <<>> /\ d.auth = "done" /\ ~d.ready =>
           s.waits /\ s.messages = d.messages /\ s.answers = <<>>
  BY StartupIs, Zenon
<1> HIDE DEF s
<1>2. /\ e \in Conn /\ e.auth = s.auth /\ e.ready = s.ready /\ e.buffer = s.buffer
      /\ e.messages = s.messages /\ e.answers = s.answers
      /\ (e.waits <=> \/ s.waits
                      \/ s.answers # <<>> /\ s.answers[1] = "connected" /\ Len(s.answers) <= queries)
  BY <1>1, QueryIs, Zenon
<1> HIDE DEF e
<1>3. e \in Conn /\ e.auth = d.auth /\ e.ready = d.ready /\ e.buffer = d.buffer
  BY <1>1, <1>2
<1>4. d.answers # <<>> =>
        /\ e.answers = d.answers /\ e.messages = d.messages
        /\ e.waits <=> d.waits \/ (d.answers[1] = "connected" /\ Len(d.answers) <= queries)
  BY <1>1, <1>2
<1>5. d.answers = <<>> /\ d.auth = "asked" =>
        (e.waits <=> d.waits) /\ e.messages = d.messages /\ e.answers = <<>>
  BY <1>1, <1>2
<1>6. d.answers = <<>> /\ d.auth = "refused" => ~e.waits /\ e.answers = <<"refused">>
  BY <1>1, <1>2
<1>7. d.answers = <<>> /\ d.auth = "done" /\ d.ready =>
        (e.waits <=> 1 <= queries) /\ e.messages = <<>> /\ e.answers = <<"connected">>
  <2> SUFFICES ASSUME d.answers = <<>>, d.auth = "done", d.ready
      PROVE  (e.waits <=> 1 <= queries) /\ e.messages = <<>> /\ e.answers = <<"connected">>
    BY Zenon
  <2> DEFINE one == <<"connected">>
  <2>1. Len(one) = 1 /\ one[1] = "connected" /\ one # <<>>
    OBVIOUS
  <2>2. ~s.waits /\ s.messages = <<>> /\ s.answers = one
    BY <1>1
  <2> HIDE DEF one
  <2>3. e.waits <=> 1 <= queries
    BY <1>2, <2>1, <2>2
  <2> QED
    BY <1>2, <2>2, <2>3 DEF one
<1>8. d.answers = <<>> /\ d.auth = "done" /\ ~d.ready =>
        e.waits /\ e.messages = d.messages /\ e.answers = <<>>
  BY <1>1, <1>2
<1> QED
  BY <1>3, <1>4, <1>5, <1>6, <1>7, <1>8, Zenon DEF e, s

\* While nothing is decided, the connection is asked.
LEMMA DispatchUndecided ==
  ASSUME NEW buf, NEW d \in Challenged(buf), NEW m \in Undecided
  PROVE  Dispatch(d, m) \in Challenged(buf)
<1> DEFINE e == Dispatch(d, m)
<1>0. d \in Conn /\ d.auth = "asked" /\ ~d.ready /\ d.buffer = buf /\ ~d.waits /\ d.messages = <<>> /\ d.answers = <<>>
  BY DEF Challenged, Login
<1>1. CASE m = "info"
  <2>1. m \in Messages /\ Later(d, m) /\ m # "ready"
    BY <1>1 DEF Messages, Later, Requests
  <2>2. /\ e \in Conn /\ e.auth = d.auth /\ e.buffer = d.buffer /\ ~e.waits
        /\ e.messages = d.messages /\ e.answers = d.answers
        /\ (e.ready <=> d.ready \/ m = "ready")
    BY <1>0, <2>1, DispatchUnasked, Zenon
  <2> HIDE DEF e
  <2>3. e \in Challenged(buf)
    BY <1>0, <2>1, <2>2 DEF Challenged, Login
  <2> QED
    BY <2>3 DEF e
<1>2. CASE m # "info"
  <2>1. m \in Requests \cup {"error"} /\ m \notin {"error", "forged"} /\ m \notin {"ok", "final"}
    BY <1>2 DEF Undecided, Requests
  <2>2. /\ e \in Conn /\ e.ready = d.ready /\ e.buffer = d.buffer /\ e.waits = d.waits
        /\ e.messages = d.messages /\ e.answers = d.answers
        /\ e.auth = IF m \in {"error", "forged"} THEN "refused"
                    ELSE IF m \in {"ok", "final"} THEN "done" ELSE "asked"
    BY <1>0, <2>1, DispatchLogin, Zenon
  <2> HIDE DEF e
  <2>3. e \in Challenged(buf)
    BY <1>0, <2>1, <2>2 DEF Challenged, Login
  <2> QED
    BY <2>3 DEF e
<1> QED
  BY <1>1, <1>2

\* Connect still awaits the authentication.
LEMMA SettleAsked ==
  ASSUME NEW buf, NEW d \in Challenged(buf), NEW queries \in Nat
  PROVE  Query(Startup(d), queries) \in Challenged(buf)
<1> DEFINE e == Query(Startup(d), queries)
<1>0. d \in Conn /\ d.auth = "asked" /\ ~d.ready /\ d.buffer = buf /\ ~d.waits /\ d.messages = <<>> /\ d.answers = <<>>
  BY DEF Challenged, Login
<1>1. /\ e \in Conn /\ e.auth = d.auth /\ e.ready = d.ready /\ e.buffer = d.buffer
      /\ (e.waits <=> d.waits) /\ e.messages = d.messages /\ e.answers = <<>>
  BY <1>0, SettleIs, Zenon
<1> HIDE DEF e
<1>2. e \in Challenged(buf)
  BY <1>0, <1>1 DEF Challenged, Login
<1> QED
  BY <1>2 DEF e

\* A burst before the last of a login.
LEMMA HearUndecided ==
  ASSUME NEW burst \in Seq(Messages), \A i \in DOMAIN burst : burst[i] \in Undecided,
         NEW at \in Cuts(burst), NEW queries \in Nat, NEW c \in Challenged(<<>>)
  PROVE  Hear(c, burst, at, queries) \in Challenged(<<>>)
<1> DEFINE n == Len(burst)
           S == [j \in 0..2 * n |-> Challenged(Rest(burst, j))]
<1>1. n \in Nat /\ 0 \in 0..2 * n /\ 2 * n \in 0..2 * n /\ DOMAIN burst = 1..n
  OBVIOUS
<1>2. Rest(burst, 0) = <<>> /\ Rest(burst, 2 * n) = <<>>
  BY <1>1, RestOf, Zenon
<1>3. S[0] = Challenged(<<>>) /\ S[2 * n] = Challenged(<<>>) /\ \A j \in 0..2 * n : S[j] = Challenged(Rest(burst, j))
  BY <1>1, <1>2
<1> HIDE DEF S
<1>4. ASSUME NEW j \in 0..2 * n, NEW k \in 0..2 * n, j < k, NEW d \in S[j]
      PROVE  Take(d, SubSeq(Pieces(burst), j + 1, k), queries) \in S[k]
  <2> DEFINE R == [i \in 0..n |-> Challenged(Rest(burst, k))]
  <2>1. Half(j) \in 0..n /\ Half(k) \in 0..n
    BY <1>4, RestOf
  <2>2. \A i \in 0..n : R[i] = Challenged(Rest(burst, k))
    OBVIOUS
  <2> HIDE DEF R
  <2>3. d \in Conn /\ d.auth = "asked" /\ ~d.ready /\ d.buffer = Rest(burst, j)
        /\ ~d.waits /\ d.messages = <<>> /\ d.answers = <<>>
    BY <1>3 DEF Challenged, Login
  <2>4. ASSUME NEW e \in Conn, e.auth = d.auth /\ e.ready = d.ready /\ e.buffer = Rest(burst, k),
               e.waits = d.waits /\ e.messages = d.messages /\ e.answers = d.answers
        PROVE  e \in R[Half(j)]
    <3>1. e \in Challenged(Rest(burst, k))
      BY <2>3, <2>4 DEF Challenged, Login
    <3> QED
      BY <2>1, <2>2, <3>1
  <2>5. ASSUME NEW i \in Half(j) + 1..Half(k), NEW e \in R[i - 1]
        PROVE  Dispatch(e, burst[i]) \in R[i]
    <3>1. i \in 1..n /\ i - 1 \in 0..n /\ i \in 0..n
      BY <2>1, <1>1
    <3>2. e \in Challenged(Rest(burst, k)) /\ burst[i] \in Undecided
      BY <2>2, <3>1, <1>1
    <3> QED
      BY <2>2, <3>1, <3>2, DispatchUndecided
  <2>6. \A e \in R[Half(k)] : Query(Startup(e), queries) \in S[k]
    BY <2>1, <2>2, <1>3, SettleAsked
  <2> QED
    BY <1>4, <2>3, <2>4, <2>5, <2>6, TakeKeeps, ZenonT(60)
<1>5. \A j, k \in 0..2 * n : \A d \in S[j] :
        j < k /\ ~Apart(burst, j) /\ ~Apart(burst, k) =>
          Take(d, SubSeq(Pieces(burst), j + 1, k), queries) \in S[k]
  BY <1>4
<1>6. Hear(c, burst, at, queries) \in S[2 * n]
  BY <1>3, <1>5, HearKeeps, Zenon
<1> QED
  BY <1>3, <1>6

\* The server is content with the proof.
LEMMA DispatchContent ==
  ASSUME NEW buf, NEW d \in Challenged(buf), NEW m \in {"ok", "final"}
  PROVE  Dispatch(d, m) \in Login("done", FALSE, buf)
<1> DEFINE e == Dispatch(d, m)
<1>0. d \in Conn /\ d.auth = "asked" /\ ~d.ready /\ d.buffer = buf /\ ~d.waits /\ d.messages = <<>> /\ d.answers = <<>>
  BY DEF Challenged, Login
<1>1. m \in Requests \cup {"error"} /\ m \notin {"error", "forged"}
  BY DEF Requests
<1>2. /\ e \in Conn /\ e.ready = d.ready /\ e.buffer = d.buffer /\ e.waits = d.waits
      /\ e.messages = d.messages /\ e.answers = d.answers
      /\ e.auth = IF m \in {"error", "forged"} THEN "refused"
                  ELSE IF m \in {"ok", "final"} THEN "done" ELSE "asked"
  BY <1>0, <1>1, DispatchLogin, Zenon
<1> HIDE DEF e
<1>3. e \in Login("done", FALSE, buf)
  BY <1>0, <1>1, <1>2 DEF Login
<1> QED
  BY <1>3 DEF e

\* Until connect goes on, the connection notes that it is ready.
LEMMA DispatchNoted ==
  ASSUME NEW buf, NEW ready \in BOOLEAN, NEW d \in Login("done", ready, buf),
         NEW m \in {"ok", "info", "ready"}
  PROVE  Dispatch(d, m) \in Login("done", ready \/ m = "ready", buf)
<1> DEFINE e == Dispatch(d, m)
<1>0. /\ d \in Conn /\ d.auth = "done" /\ (d.ready <=> ready) /\ d.buffer = buf
      /\ ~d.waits /\ d.messages = <<>> /\ d.answers = <<>>
  BY DEF Login
<1>1. m \in Messages /\ Later(d, m)
  BY <1>0 DEF Messages, Requests, Later
<1>2. /\ e \in Conn /\ e.auth = d.auth /\ e.buffer = d.buffer /\ ~e.waits
      /\ e.messages = d.messages /\ e.answers = d.answers
      /\ (e.ready <=> d.ready \/ m = "ready")
  BY <1>0, <1>1, DispatchUnasked, Zenon
<1> HIDE DEF e
<1>3. e \in Login("done", ready \/ m = "ready", buf)
  BY <1>0, <1>2 DEF Login
<1> QED
  BY <1>3 DEF e

\* Then it waits for that.
LEMMA DispatchGranted ==
  ASSUME NEW buf, NEW d \in Granted(buf), NEW m \in {"ok", "info", "ready"}
  PROVE  /\ m # "ready" => Dispatch(d, m) \in Granted(buf)
         /\ m = "ready" => Dispatch(d, m) \in Done(buf, <<"connected">>)
<1> DEFINE e == Dispatch(d, m)
<1>0. d \in Conn /\ d.auth = "done" /\ ~d.ready /\ d.buffer = buf /\ d.waits /\ d.answers = <<>>
  BY DEF Granted
<1>1. m \in Messages /\ Later(d, m) /\ m # "error"
  BY <1>0 DEF Messages, Requests, Later
<1>2. /\ e \in Conn /\ e.auth = d.auth /\ e.buffer = d.buffer
      /\ (e.ready <=> d.ready \/ m = "ready")
      /\ m = "ready" =>
           /\ ~e.waits /\ e.messages = <<>>
           /\ e.answers = Append(d.answers, IF d.answers = <<>> THEN "connected" ELSE Rows(d.messages))
      /\ m = "error" =>
           /\ ~e.waits /\ e.messages = <<>>
           /\ e.answers = Append(d.answers, IF d.answers = <<>> THEN "refused" ELSE "error")
      /\ m \notin {"ready", "error"} =>
           e.waits /\ e.messages = Append(d.messages, m) /\ e.answers = d.answers
  BY <1>0, <1>1, DispatchAwaited, Zenon
<1> HIDE DEF e
<1>3. m # "ready" => e \in Granted(buf)
  BY <1>0, <1>1, <1>2 DEF Granted
<1>4. m = "ready" => e \in Done(buf, <<"connected">>)
  <2> SUFFICES ASSUME m = "ready" PROVE e \in Done(buf, <<"connected">>)
    OBVIOUS
  <2> DEFINE more == Append(d.answers, IF d.answers = <<>> THEN "connected" ELSE Rows(d.messages))
  <2>1. more = <<"connected">>
    BY <1>0
  <2>2. ~e.waits /\ e.messages = <<>> /\ e.answers = more /\ e.ready
    BY <1>2
  <2> HIDE DEF more
  <2> QED
    BY <1>0, <1>2, <2>1, <2>2 DEF Done
<1> QED
  BY <1>3, <1>4 DEF e

\* Connect goes on to wait for the "ready".
LEMMA SettleGranted ==
  ASSUME NEW buf, NEW queries \in Nat, NEW d \in Login("done", FALSE, buf) \cup Granted(buf)
  PROVE  Query(Startup(d), queries) \in Granted(buf)
<1> DEFINE e == Query(Startup(d), queries)
<1>0. d \in Conn /\ d.auth = "done" /\ ~d.ready /\ d.buffer = buf /\ d.answers = <<>>
  BY DEF Login, Granted
<1>1. /\ e \in Conn /\ e.auth = d.auth /\ e.ready = d.ready /\ e.buffer = d.buffer
      /\ e.waits /\ e.messages = d.messages /\ e.answers = <<>>
  BY <1>0, SettleIs, Zenon
<1> HIDE DEF e
<1>2. e \in Granted(buf)
  BY <1>0, <1>1 DEF Granted
<1> QED
  BY <1>2 DEF e

\* The "ready" came with the end of the login.
LEMMA SettleConnected ==
  ASSUME NEW queries \in Nat, NEW d \in Login("done", TRUE, <<>>)
  PROVE  Query(Startup(d), queries) \in Free(<<"connected">>, queries)
<1> DEFINE e == Query(Startup(d), queries)
           one == <<"connected">>
<1>0. d \in Conn /\ d.auth = "done" /\ d.ready /\ d.buffer = <<>> /\ d.answers = <<>>
  BY DEF Login
<1>1. /\ e \in Conn /\ e.auth = d.auth /\ e.ready = d.ready /\ e.buffer = d.buffer
      /\ (e.waits <=> 1 <= queries) /\ e.messages = <<>> /\ e.answers = one
  BY <1>0, SettleIs, Zenon
<1>2. Len(one) = 1
  OBVIOUS
<1> HIDE DEF e, one
<1>3. e \in Free(one, queries)
  BY <1>0, <1>1, <1>2 DEF Free
<1> QED
  BY <1>3 DEF e, one

\* The next query is sent.
LEMMA SettleDone ==
  ASSUME NEW queries \in Nat, NEW answers, NEW d \in Done(<<>>, answers),
         answers # <<>>, answers[1] = "connected"
  PROVE  Query(Startup(d), queries) \in Free(answers, queries)
<1> DEFINE e == Query(Startup(d), queries)
<1>0. d \in Conn /\ d.auth = "done" /\ d.ready /\ d.buffer = <<>> /\ ~d.waits /\ d.messages = <<>> /\ d.answers = answers
  BY DEF Done
<1>1. /\ e \in Conn /\ e.auth = d.auth /\ e.ready = d.ready /\ e.buffer = d.buffer
      /\ e.answers = d.answers /\ e.messages = d.messages
      /\ e.waits <=> d.waits \/ (d.answers[1] = "connected" /\ Len(d.answers) <= queries)
  BY <1>0, SettleIs, Zenon
<1> HIDE DEF e
<1>2. e \in Free(answers, queries)
  BY <1>0, <1>1 DEF Free
<1> QED
  BY <1>2 DEF e

\* A state that differs in its buffer.
LEMMA SameBut ==
  ASSUME NEW d \in Conn, NEW e \in Conn, NEW buf, NEW other,
         e.auth = d.auth, e.ready = d.ready, e.buffer = other,
         e.waits = d.waits, e.messages = d.messages, e.answers = d.answers
  PROVE  /\ d \in Challenged(buf) => e \in Challenged(other)
         /\ d \in Granted(buf) => e \in Granted(other)
         /\ \A answers : d \in Refused(buf, answers) => e \in Refused(other, answers)
         /\ d \in Broken(buf) => e \in Broken(other)
<1>1. d \in Challenged(buf) => e \in Challenged(other)
  BY DEF Challenged, Login
<1>2. d \in Granted(buf) => e \in Granted(other)
  BY DEF Granted
<1>3. \A answers : d \in Refused(buf, answers) => e \in Refused(other, answers)
  BY DEF Refused
<1>4. d \in Broken(buf) => e \in Broken(other)
  BY DEF Broken
<1> QED
  BY <1>1, <1>2, <1>3, <1>4

\* The burst that lets the connection in.
LEMMA HearGrants ==
  ASSUME NEW burst \in Seq(Messages), Grants(burst),
         NEW at \in Cuts(burst), NEW queries \in Nat, NEW c \in Challenged(<<>>)
  PROVE  Hear(c, burst, at, queries) \in Free(<<"connected">>, queries)
<1> DEFINE n == Len(burst)
<1>1. n \in Nat /\ 0 \in 0..2 * n /\ 2 * n \in 0..2 * n /\ DOMAIN burst = 1..n
  OBVIOUS
<1>0. n = Len(burst)
  OBVIOUS
<1> HIDE DEF n
<1>2. PICK p \in 1..n - 1 :
        /\ Decides(burst, p, {"ok", "final"}) /\ burst[n] = "ready"
        /\ \A i \in p + 1..n - 1 : burst[i] \in {"ok", "info"}
  BY <1>0 DEF Grants
<1>3. burst[p] \in {"ok", "final"} /\ \A i \in 1..p - 1 : burst[i] \in Undecided
  BY <1>2 DEF Decides
<1> DEFINE S == [j \in 0..2 * n |-> IF j = 2 * n THEN Free(<<"connected">>, queries)
                                    ELSE IF Half(j) < p THEN Challenged(Rest(burst, j))
                                    ELSE Granted(Rest(burst, j))]
<1>4. Rest(burst, 0) = <<>> /\ Half(0) = 0 /\ Rest(burst, 2 * n) = <<>>
  BY <1>0, <1>1, RestOf, Zenon
<1>5. /\ S[0] = Challenged(<<>>) /\ S[2 * n] = Free(<<"connected">>, queries)
      /\ \A j \in 0..2 * n : j # 2 * n =>
           S[j] = IF Half(j) < p THEN Challenged(Rest(burst, j)) ELSE Granted(Rest(burst, j))
  BY <1>1, <1>2, <1>4
<1> HIDE DEF S
<1>6. ASSUME NEW j \in 0..2 * n, NEW k \in 0..2 * n, j < k, NEW d \in S[j]
      PROVE  Take(d, SubSeq(Pieces(burst), j + 1, k), queries) \in S[k]
  <2> DEFINE buf == Rest(burst, k)
             h == Half(j)
             e == Half(k)
  <2>1. h \in 0..n /\ e \in 0..n /\ h < n /\ j # 2 * n /\ (k = 2 * n => e = n) /\ (k # 2 * n => e < n)
    <3>1. h \in 0..n /\ e \in 0..n /\ (k = 2 * n => e = n) /\ (j < 2 * n => h < n) /\ (k < 2 * n => e < n)
      BY <1>0, <1>6, RestOf, Zenon
    <3> HIDE DEF h, e
    <3> QED
      BY <1>1, <1>6, <3>1
  <2>2. k = 2 * n => buf = <<>>
    BY <1>4
  <2>3. S[j] = IF h < p THEN Challenged(Rest(burst, j)) ELSE Granted(Rest(burst, j))
    BY <1>5, <2>1
  <2>4. d \in Conn /\ d.buffer = Rest(burst, j)
    BY <1>6, <2>3 DEF Challenged, Login, Granted
  <2>5. k # 2 * n => S[k] = IF e < p THEN Challenged(buf) ELSE Granted(buf)
    BY <1>5
  <2> HIDE DEF buf, h, e
  <2>6. CASE h < p
    <3> DEFINE R == [i \in 0..n |-> IF i < p THEN Challenged(buf) ELSE Login("done", i = n, buf)]
    <3>1. \A i \in 0..n : R[i] = IF i < p THEN Challenged(buf) ELSE Login("done", i = n, buf)
      OBVIOUS
    <3> HIDE DEF R
    <3>2. ASSUME NEW x \in Conn, x.auth = d.auth /\ x.ready = d.ready /\ x.buffer = buf,
                 x.waits = d.waits /\ x.messages = d.messages /\ x.answers = d.answers
          PROVE  x \in R[h]
      <4>1. d \in Challenged(Rest(burst, j)) /\ R[h] = Challenged(buf)
        BY <1>6, <2>1, <2>3, <2>6, <3>1
      <4>2. x \in Challenged(buf)
        BY <2>4, <3>2, <4>1, SameBut
      <4> QED
        BY <4>1, <4>2
    <3>3. ASSUME NEW i \in h + 1..e, NEW x \in R[i - 1] PROVE Dispatch(x, burst[i]) \in R[i]
      <4>1. i \in 1..n /\ i - 1 \in 0..n /\ i \in 0..n /\ i - 1 # n
        BY <1>1, <2>1, SMTT(30)
      <4>2. CASE i < p
        <5>1. x \in Challenged(buf) /\ burst[i] \in Undecided /\ R[i] = Challenged(buf)
          BY <1>2, <1>3, <3>1, <3>3, <4>1, <4>2
        <5> QED
          BY <5>1, DispatchUndecided
      <4>3. CASE i = p
        <5>1. x \in Challenged(buf) /\ burst[i] \in {"ok", "final"} /\ R[i] = Login("done", i = n, buf)
          BY <1>2, <1>3, <3>1, <3>3, <4>1, <4>3
        <5>2. i # n
          BY <1>2, <4>3, <1>1
        <5>3. Dispatch(x, burst[i]) \in Login("done", FALSE, buf)
          BY <5>1, DispatchContent
        <5>4. (i = n) = FALSE
          BY <5>2, Zenon
        <5> QED
          BY <5>1, <5>3, <5>4, Zenon
      <4>4. CASE i > p
        <5>1. R[i - 1] = Login("done", i - 1 = n, buf) /\ R[i] = Login("done", i = n, buf)
          BY <1>2, <3>1, <4>1, <4>4
        <5>2. (i - 1 = n) = FALSE
          BY <4>1
        <5>3. x \in Login("done", FALSE, buf)
          BY <3>3, <5>1, <5>2, Zenon
        <5>4. burst[i] \in {"ok", "info", "ready"} /\ (burst[i] = "ready" <=> i = n)
          <6>1. CASE i = n
            BY <1>2, <6>1
          <6>2. CASE i # n
            <7>1. i \in p + 1..n - 1
              BY <1>1, <1>2, <4>1, <4>4, <6>2
            <7> QED
              BY <1>2, <6>2, <7>1
          <6> QED
            BY <6>1, <6>2
        <5>5. Dispatch(x, burst[i]) \in Login("done", FALSE \/ burst[i] = "ready", buf)
          BY <5>3, <5>4, DispatchNoted, Zenon
        <5>6. (FALSE \/ burst[i] = "ready") = (i = n)
          BY <5>4, Zenon
        <5> QED
          BY <5>1, <5>5, <5>6, Zenon
      <4> QED
        BY <1>2, <4>1, <4>2, <4>3, <4>4
    <3>4. ASSUME NEW x \in R[e] PROVE Query(Startup(x), queries) \in S[k]
      <4>1. CASE e < p
        <5>1. x \in Challenged(buf) /\ S[k] = Challenged(buf)
          BY <1>2, <2>1, <2>5, <3>1, <3>4, <4>1
        <5> QED
          BY <5>1, SettleAsked
      <4>2. CASE e >= p /\ e < n
        <5>1. R[e] = Login("done", e = n, buf) /\ S[k] = Granted(buf)
          BY <1>2, <2>1, <2>5, <3>1, <4>2
        <5>2. (e = n) = FALSE
          BY <2>1, <4>2
        <5>3. x \in Login("done", FALSE, buf)
          BY <3>4, <5>1, <5>2, Zenon
        <5> QED
          BY <5>1, <5>3, SettleGranted
      <4>3. CASE e = n
        <5>1. R[e] = Login("done", e = n, buf) /\ S[k] = Free(<<"connected">>, queries) /\ buf = <<>>
          BY <1>2, <1>5, <2>1, <2>2, <3>1, <4>3
        <5>2. (e = n) = TRUE
          BY <4>3
        <5>3. x \in Login("done", TRUE, <<>>)
          BY <3>4, <5>1, <5>2, Zenon
        <5> QED
          BY <5>1, <5>3, SettleConnected
      <4>4. e < p \/ (e >= p /\ e < n) \/ e = n
        BY <1>1, <1>2, <2>1
      <4> QED
        BY <4>1, <4>2, <4>3, <4>4, Zenon
    <3>5. /\ \A x \in Conn :
               /\ x.auth = d.auth /\ x.ready = d.ready /\ x.buffer = Rest(burst, k)
               /\ x.waits = d.waits /\ x.messages = d.messages /\ x.answers = d.answers
               => x \in R[Half(j)]
          /\ \A i \in Half(j) + 1..Half(k) : \A x \in R[i - 1] : Dispatch(x, burst[i]) \in R[i]
          /\ \A x \in R[Half(k)] : Query(Startup(x), queries) \in S[k]
      BY <3>2, <3>3, <3>4, Zenon DEF buf, h, e
    <3> QED
      BY <1>0, <1>6, <2>4, <3>5, TakeKeeps, ZenonT(60)
  <2>7. CASE ~(h < p)
    <3> DEFINE R == [i \in 0..n |-> IF i = n THEN Done(buf, <<"connected">>) ELSE Granted(buf)]
    <3>1. \A i \in 0..n : R[i] = IF i = n THEN Done(buf, <<"connected">>) ELSE Granted(buf)
      OBVIOUS
    <3> HIDE DEF R
    <3>2. ASSUME NEW x \in Conn, x.auth = d.auth /\ x.ready = d.ready /\ x.buffer = buf,
                 x.waits = d.waits /\ x.messages = d.messages /\ x.answers = d.answers
          PROVE  x \in R[h]
      <4>1. d \in Granted(Rest(burst, j)) /\ R[h] = Granted(buf)
        BY <1>6, <2>1, <2>3, <2>7, <3>1
      <4>2. x \in Granted(buf)
        BY <2>4, <3>2, <4>1, SameBut
      <4> QED
        BY <4>1, <4>2
    <3>3. ASSUME NEW i \in h + 1..e, NEW x \in R[i - 1] PROVE Dispatch(x, burst[i]) \in R[i]
      <4>1. i \in 1..n /\ i - 1 \in 0..n /\ i \in 0..n /\ i - 1 # n
        BY <1>1, <2>1, SMTT(30)
      <4>2. x \in Granted(buf)
        BY <3>1, <3>3, <4>1
      <4>3. CASE i = n
        <5>1. burst[i] = "ready" /\ R[i] = Done(buf, <<"connected">>)
          BY <1>2, <3>1, <4>1, <4>3
        <5> QED
          BY <4>2, <5>1, DispatchGranted
      <4>4. CASE i # n
        <5>1. i \in p + 1..n - 1 /\ R[i] = Granted(buf)
          BY <1>1, <1>2, <2>1, <2>7, <3>1, <4>1, <4>4
        <5>2. burst[i] \in {"ok", "info"}
          BY <1>2, <5>1
        <5> QED
          BY <4>2, <5>1, <5>2, DispatchGranted
      <4> QED
        BY <4>3, <4>4
    <3>4. ASSUME NEW x \in R[e] PROVE Query(Startup(x), queries) \in S[k]
      <4>1. CASE e = n
        <5>1. x \in Done(<<>>, <<"connected">>) /\ S[k] = Free(<<"connected">>, queries)
          BY <1>5, <2>1, <2>2, <3>1, <3>4, <4>1
        <5>2. <<"connected">> # <<>> /\ <<"connected">>[1] = "connected"
          OBVIOUS
        <5> QED
          BY <5>1, <5>2, SettleDone, Zenon
      <4>2. CASE e # n
        <5>1. h <= e
          <6>1. e >= h \/ e < h
            BY <2>1
          <6>2. 2 * h <= j /\ j <= 2 * h + 1 /\ 2 * e <= k /\ k <= 2 * e + 1
            <7>1. j \in Nat /\ k \in Nat
              BY <1>6, <1>1
            <7> QED
              BY <7>1, HalfOf, Zenon DEF h, e
          <6> QED
            BY <1>1, <1>6, <2>1, <6>2
        <5>2. x \in Granted(buf) /\ S[k] = Granted(buf)
          BY <1>2, <2>1, <2>5, <2>7, <3>1, <3>4, <4>2, <5>1
        <5> QED
          BY <5>2, SettleGranted
      <4> QED
        BY <4>1, <4>2
    <3>5. /\ \A x \in Conn :
               /\ x.auth = d.auth /\ x.ready = d.ready /\ x.buffer = Rest(burst, k)
               /\ x.waits = d.waits /\ x.messages = d.messages /\ x.answers = d.answers
               => x \in R[Half(j)]
          /\ \A i \in Half(j) + 1..Half(k) : \A x \in R[i - 1] : Dispatch(x, burst[i]) \in R[i]
          /\ \A x \in R[Half(k)] : Query(Startup(x), queries) \in S[k]
      BY <3>2, <3>3, <3>4, Zenon DEF buf, h, e
    <3> QED
      BY <1>0, <1>6, <2>4, <3>5, TakeKeeps, ZenonT(60)
  <2> QED
    BY <2>6, <2>7
<1>7. \A j, k \in 0..2 * n : \A d \in S[j] :
        j < k /\ ~Apart(burst, j) /\ ~Apart(burst, k) =>
          Take(d, SubSeq(Pieces(burst), j + 1, k), queries) \in S[k]
  BY <1>6
<1>8. Hear(c, burst, at, queries) \in S[2 * n]
  BY <1>0, <1>5, <1>7, HearKeeps, Zenon
<1> QED
  BY <1>5, <1>8

\* The server refuses, or is not the one expected.
LEMMA DispatchRefused ==
  ASSUME NEW buf, NEW d \in Challenged(buf), NEW m \in {"error", "forged"}
  PROVE  Dispatch(d, m) \in Refused(buf, <<>>)
<1> DEFINE e == Dispatch(d, m)
<1>0. d \in Conn /\ d.auth = "asked" /\ ~d.ready /\ d.buffer = buf /\ ~d.waits /\ d.messages = <<>> /\ d.answers = <<>>
  BY DEF Challenged, Login
<1>1. m \in Requests \cup {"error"}
  BY DEF Requests
<1>2. /\ e \in Conn /\ e.ready = d.ready /\ e.buffer = d.buffer /\ e.waits = d.waits
      /\ e.messages = d.messages /\ e.answers = d.answers
      /\ e.auth = IF m \in {"error", "forged"} THEN "refused"
                  ELSE IF m \in {"ok", "final"} THEN "done" ELSE "asked"
  BY <1>0, <1>1, DispatchLogin, Zenon
<1> HIDE DEF e
<1>3. e \in Refused(buf, <<>>)
  BY <1>0, <1>2 DEF Refused
<1> QED
  BY <1>3 DEF e

\* Nothing that comes after that matters.
LEMMA DispatchIgnored ==
  ASSUME NEW buf, NEW answers, NEW d \in Refused(buf, answers), NEW m \in Messages
  PROVE  Dispatch(d, m) \in Refused(buf, answers)
<1> DEFINE e == Dispatch(d, m)
<1>0. d \in Conn /\ d.auth = "refused" /\ d.buffer = buf /\ ~d.waits /\ d.answers = answers
  BY DEF Refused
<1>1. Later(d, m)
  BY <1>0 DEF Later
<1>2. /\ e \in Conn /\ e.auth = d.auth /\ e.buffer = d.buffer /\ ~e.waits
      /\ e.messages = d.messages /\ e.answers = d.answers
      /\ (e.ready <=> d.ready \/ m = "ready")
  BY <1>0, <1>1, DispatchUnasked, Zenon
<1> HIDE DEF e
<1>3. e \in Refused(buf, answers)
  BY <1>0, <1>2 DEF Refused
<1> QED
  BY <1>3 DEF e

\* Connect is told of the refusal once.
LEMMA SettleRefused ==
  ASSUME NEW buf, NEW queries \in Nat, NEW d \in Refused(buf, <<>>) \cup Refused(buf, <<"refused">>)
  PROVE  Query(Startup(d), queries) \in Refused(buf, <<"refused">>)
<1> DEFINE e == Query(Startup(d), queries)
<1>0. /\ d \in Conn /\ d.auth = "refused" /\ d.buffer = buf /\ ~d.waits
      /\ d.answers = <<>> \/ d.answers = <<"refused">>
  BY DEF Refused
<1>1. CASE d.answers = <<>>
  <2>1. /\ e \in Conn /\ e.auth = d.auth /\ e.ready = d.ready /\ e.buffer = d.buffer
        /\ ~e.waits /\ e.answers = <<"refused">>
    BY <1>0, <1>1, SettleIs, Zenon
  <2> HIDE DEF e
  <2>2. e \in Refused(buf, <<"refused">>)
    BY <1>0, <2>1 DEF Refused
  <2> QED
    BY <2>2 DEF e
<1>2. CASE d.answers = <<"refused">>
  <2>1. d.answers # <<>> /\ d.answers[1] # "connected"
    BY <1>2
  <2>2. /\ e \in Conn /\ e.auth = d.auth /\ e.ready = d.ready /\ e.buffer = d.buffer
        /\ e.answers = d.answers /\ e.messages = d.messages
        /\ e.waits <=> d.waits \/ (d.answers[1] = "connected" /\ Len(d.answers) <= queries)
    BY <1>0, <2>1, SettleIs, Zenon
  <2> HIDE DEF e
  <2>3. ~e.waits
    BY <1>0, <2>1, <2>2, Zenon
  <2>4. e \in Refused(buf, <<"refused">>)
    BY <1>0, <1>2, <2>2, <2>3 DEF Refused
  <2> QED
    BY <2>4 DEF e
<1> QED
  BY <1>0, <1>1, <1>2

\* The burst that refuses the connection.
LEMMA HearRefuses ==
  ASSUME NEW burst \in Seq(Messages), Refuses(burst),
         NEW at \in Cuts(burst), NEW queries \in Nat, NEW c \in Challenged(<<>>)
  PROVE  Hear(c, burst, at, queries) \in Refused(<<>>, <<"refused">>)
<1> DEFINE n == Len(burst)
<1>1. n \in Nat /\ 0 \in 0..2 * n /\ 2 * n \in 0..2 * n /\ DOMAIN burst = 1..n /\ \A i \in 1..n : burst[i] \in Messages
  BY ElementOfSeq
<1>0. n = Len(burst)
  OBVIOUS
<1> HIDE DEF n
<1>2. PICK p \in 1..n : Decides(burst, p, {"error", "forged"})
  BY <1>1 DEF Refuses
<1>3. burst[p] \in {"error", "forged"} /\ \A i \in 1..p - 1 : burst[i] \in Undecided
  BY <1>2 DEF Decides
<1> DEFINE S == [j \in 0..2 * n |-> IF Half(j) < p THEN Challenged(Rest(burst, j))
                                    ELSE Refused(Rest(burst, j), <<"refused">>)]
<1>4. Rest(burst, 0) = <<>> /\ Half(0) = 0 /\ Rest(burst, 2 * n) = <<>> /\ Half(2 * n) = n
  BY <1>0, <1>1, RestOf, Zenon
<1>5. /\ S[0] = Challenged(<<>>) /\ S[2 * n] = Refused(<<>>, <<"refused">>)
      /\ \A j \in 0..2 * n :
           S[j] = IF Half(j) < p THEN Challenged(Rest(burst, j)) ELSE Refused(Rest(burst, j), <<"refused">>)
  BY <1>1, <1>2, <1>4
<1> HIDE DEF S
<1>6. ASSUME NEW j \in 0..2 * n, NEW k \in 0..2 * n, j < k, NEW d \in S[j]
      PROVE  Take(d, SubSeq(Pieces(burst), j + 1, k), queries) \in S[k]
  <2> DEFINE buf == Rest(burst, k)
             h == Half(j)
             e == Half(k)
  <2>1. h \in 0..n /\ e \in 0..n /\ h <= e
    <3>1. h \in 0..n /\ e \in 0..n
      BY <1>0, <1>6, RestOf, Zenon
    <3>2. j \in Nat /\ k \in Nat
      BY <1>6, <1>1
    <3>3. 2 * h <= j /\ j <= 2 * h + 1 /\ 2 * e <= k /\ k <= 2 * e + 1
      BY <3>2, HalfOf, Zenon
    <3> HIDE DEF h, e
    <3> QED
      BY <1>1, <1>6, <3>1, <3>2, <3>3
  <2>3. S[j] = IF h < p THEN Challenged(Rest(burst, j)) ELSE Refused(Rest(burst, j), <<"refused">>)
    BY <1>5
  <2>4. d \in Conn /\ d.buffer = Rest(burst, j)
    BY <1>6, <2>3 DEF Challenged, Login, Refused
  <2>5. S[k] = IF e < p THEN Challenged(buf) ELSE Refused(buf, <<"refused">>)
    BY <1>5
  <2> DEFINE then == IF h < p THEN <<>> ELSE <<"refused">>
             R == [i \in 0..n |-> IF i < p THEN Challenged(buf) ELSE Refused(buf, then)]
  <2>6. \A i \in 0..n : R[i] = IF i < p THEN Challenged(buf) ELSE Refused(buf, then)
    OBVIOUS
  <2>7. (h < p => then = <<>>) /\ (~(h < p) => then = <<"refused">>)
    OBVIOUS
  <2> HIDE DEF buf, h, e, R, then
  <2>8. ASSUME NEW x \in Conn, x.auth = d.auth /\ x.ready = d.ready /\ x.buffer = buf,
               x.waits = d.waits /\ x.messages = d.messages /\ x.answers = d.answers
        PROVE  x \in R[h]
    <3>1. CASE h < p
      <4>1. d \in Challenged(Rest(burst, j)) /\ R[h] = Challenged(buf)
        BY <1>6, <2>1, <2>3, <2>6, <3>1
      <4>2. x \in Challenged(buf)
        BY <2>4, <2>8, <4>1, SameBut
      <4> QED
        BY <4>1, <4>2
    <3>2. CASE ~(h < p)
      <4>1. d \in Refused(Rest(burst, j), then) /\ R[h] = Refused(buf, then)
        BY <1>6, <2>1, <2>3, <2>6, <2>7, <3>2
      <4>2. x \in Refused(buf, then)
        BY <2>4, <2>8, <4>1, SameBut
      <4> QED
        BY <4>1, <4>2
    <3> QED
      BY <3>1, <3>2
  <2>9. ASSUME NEW i \in h + 1..e, NEW x \in R[i - 1] PROVE Dispatch(x, burst[i]) \in R[i]
    <3>1. i \in 1..n /\ i - 1 \in 0..n /\ i \in 0..n
      BY <1>1, <2>1
    <3>2. CASE i < p
      <4>1. x \in Challenged(buf) /\ burst[i] \in Undecided /\ R[i] = Challenged(buf)
        BY <1>1, <1>2, <1>3, <2>6, <2>9, <3>1, <3>2
      <4> QED
        BY <4>1, DispatchUndecided
    <3>3. CASE i = p
      <4>1. x \in Challenged(buf) /\ burst[i] \in {"error", "forged"} /\ R[i] = Refused(buf, then) /\ h < p
        BY <1>1, <1>2, <1>3, <2>1, <2>6, <2>9, <3>1, <3>3
      <4>2. Dispatch(x, burst[i]) \in Refused(buf, <<>>)
        BY <4>1, DispatchRefused
      <4> QED
        BY <2>7, <4>1, <4>2
    <3>4. CASE i > p
      <4>1. x \in Refused(buf, then) /\ burst[i] \in Messages /\ R[i] = Refused(buf, then)
        BY <1>1, <1>2, <2>6, <2>9, <3>1, <3>4
      <4> QED
        BY <4>1, DispatchIgnored
    <3>5. i < p \/ i = p \/ i > p
      BY <1>1, <1>2, <3>1
    <3> QED
      BY <3>2, <3>3, <3>4, <3>5, Zenon
  <2>10. ASSUME NEW x \in R[e] PROVE Query(Startup(x), queries) \in S[k]
    <3>1. CASE e < p
      <4>1. x \in Challenged(buf) /\ S[k] = Challenged(buf)
        BY <2>1, <2>5, <2>6, <2>10, <3>1
      <4> QED
        BY <4>1, SettleAsked
    <3>2. CASE ~(e < p)
      <4>1. x \in Refused(buf, then) /\ S[k] = Refused(buf, <<"refused">>)
        BY <2>1, <2>5, <2>6, <2>10, <3>2
      <4>2. then = <<>> \/ then = <<"refused">>
        BY <2>7
      <4>3. x \in Refused(buf, <<>>) \cup Refused(buf, <<"refused">>)
        BY <4>1, <4>2
      <4> QED
        BY <4>1, <4>3, SettleRefused
    <3> QED
      BY <3>1, <3>2
  <2>11. /\ \A x \in Conn :
               /\ x.auth = d.auth /\ x.ready = d.ready /\ x.buffer = Rest(burst, k)
               /\ x.waits = d.waits /\ x.messages = d.messages /\ x.answers = d.answers
               => x \in R[Half(j)]
         /\ \A i \in Half(j) + 1..Half(k) : \A x \in R[i - 1] : Dispatch(x, burst[i]) \in R[i]
         /\ \A x \in R[Half(k)] : Query(Startup(x), queries) \in S[k]
    BY <2>8, <2>9, <2>10, Zenon DEF buf, h, e
  <2> QED
    BY <1>0, <1>6, <2>4, <2>11, TakeKeeps, ZenonT(60)
<1>7. \A j, k \in 0..2 * n : \A d \in S[j] :
        j < k /\ ~Apart(burst, j) /\ ~Apart(burst, k) =>
          Take(d, SubSeq(Pieces(burst), j + 1, k), queries) \in S[k]
  BY <1>6
<1>8. Hear(c, burst, at, queries) \in S[2 * n]
  BY <1>0, <1>5, <1>7, HearKeeps, Zenon
<1> QED
  BY <1>5, <1>8

\* The server does not get ready.
LEMMA DispatchBroken ==
  ASSUME NEW buf, NEW d \in Broken(buf), NEW m \in Messages \ {"ready"}
  PROVE  Dispatch(d, m) \in Broken(buf)
<1> DEFINE e == Dispatch(d, m)
<1>0. d \in Conn /\ ~d.ready /\ d.buffer = buf /\ (d.answers = <<>> \/ (d.answers = <<"refused">> /\ ~d.waits))
  BY DEF Broken
<1>1. CASE ~Later(d, m)
  <2>1. m \in Requests \cup {"error"} /\ d.auth = "asked"
    BY <1>1 DEF Later
  <2>2. /\ e \in Conn /\ e.ready = d.ready /\ e.buffer = d.buffer /\ e.waits = d.waits
        /\ e.messages = d.messages /\ e.answers = d.answers
        /\ e.auth = IF m \in {"error", "forged"} THEN "refused"
                    ELSE IF m \in {"ok", "final"} THEN "done" ELSE "asked"
    BY <1>0, <2>1, DispatchLogin, Zenon
  <2> HIDE DEF e
  <2>3. e \in Broken(buf)
    BY <1>0, <2>2 DEF Broken
  <2> QED
    BY <2>3 DEF e
<1>2. CASE Later(d, m) /\ ~d.waits
  <2>1. /\ e \in Conn /\ e.auth = d.auth /\ e.buffer = d.buffer /\ ~e.waits
        /\ e.messages = d.messages /\ e.answers = d.answers
        /\ (e.ready <=> d.ready \/ m = "ready")
    BY <1>0, <1>2, DispatchUnasked, Zenon
  <2> HIDE DEF e
  <2>2. e \in Broken(buf)
    BY <1>0, <2>1 DEF Broken
  <2> QED
    BY <2>2 DEF e
<1>3. CASE Later(d, m) /\ d.waits
  <2>1. /\ e \in Conn /\ e.auth = d.auth /\ e.buffer = d.buffer
        /\ (e.ready <=> d.ready \/ m = "ready")
        /\ m = "ready" =>
             /\ ~e.waits /\ e.messages = <<>>
             /\ e.answers = Append(d.answers, IF d.answers = <<>> THEN "connected" ELSE Rows(d.messages))
        /\ m = "error" =>
             /\ ~e.waits /\ e.messages = <<>>
             /\ e.answers = Append(d.answers, IF d.answers = <<>> THEN "refused" ELSE "error")
        /\ m \notin {"ready", "error"} =>
             e.waits /\ e.messages = Append(d.messages, m) /\ e.answers = d.answers
    BY <1>0, <1>3, DispatchAwaited, Zenon
  <2> HIDE DEF e
  <2>2. d.answers = <<>> /\ ~e.ready /\ e.buffer = buf /\ e \in Conn
    BY <1>0, <1>3, <2>1
  <2>3. CASE m = "error"
    <3>1. ~e.waits /\ e.answers = <<"refused">>
      BY <2>1, <2>2, <2>3
    <3>2. e \in Broken(buf)
      BY <2>2, <3>1 DEF Broken
    <3> QED
      BY <3>2 DEF e
  <2>4. CASE m # "error"
    <3>1. e \in Broken(buf)
      BY <2>1, <2>2, <2>4 DEF Broken
    <3> QED
      BY <3>1 DEF e
  <2> QED
    BY <2>3, <2>4
<1> QED
  BY <1>1, <1>2, <1>3

\* Without a "ready", connect is at most refused.
LEMMA SettleBroken ==
  ASSUME NEW buf, NEW queries \in Nat, NEW d \in Broken(buf)
  PROVE  Query(Startup(d), queries) \in Broken(buf)
<1> DEFINE e == Query(Startup(d), queries)
<1>0. d \in Conn /\ ~d.ready /\ d.buffer = buf /\ (d.answers = <<>> \/ (d.answers = <<"refused">> /\ ~d.waits))
  BY DEF Broken
<1>1. /\ e \in Conn /\ e.auth = d.auth /\ e.ready = d.ready /\ e.buffer = d.buffer
      /\ d.answers # <<>> =>
           /\ e.answers = d.answers /\ e.messages = d.messages
           /\ e.waits <=> d.waits \/ (d.answers[1] = "connected" /\ Len(d.answers) <= queries)
      /\ d.answers = <<>> /\ d.auth = "asked" =>
           (e.waits <=> d.waits) /\ e.messages = d.messages /\ e.answers = <<>>
      /\ d.answers = <<>> /\ d.auth = "refused" => ~e.waits /\ e.answers = <<"refused">>
      /\ d.answers = <<>> /\ d.auth = "done" /\ d.ready =>
           (e.waits <=> 1 <= queries) /\ e.messages = <<>> /\ e.answers = <<"connected">>
      /\ d.answers = <<>> /\ d.auth = "done" /\ ~d.ready =>
           e.waits /\ e.messages = d.messages /\ e.answers = <<>>
  BY <1>0, SettleIs, Zenon
<1> HIDE DEF e
<1>2. CASE d.answers = <<>>
  <2>1. d.auth = "asked" \/ d.auth = "refused" \/ d.auth = "done"
    BY <1>0 DEF Conn
  <2>2. e.answers = <<>> \/ (e.answers = <<"refused">> /\ ~e.waits)
    BY <1>0, <1>1, <1>2, <2>1
  <2>3. e \in Broken(buf)
    BY <1>0, <1>1, <2>2 DEF Broken
  <2> QED
    BY <2>3 DEF e
<1>3. CASE d.answers = <<"refused">> /\ ~d.waits
  <2>1. d.answers # <<>> /\ d.answers[1] # "connected"
    BY <1>3
  <2>2. e.answers = <<"refused">> /\ ~e.waits
    BY <1>1, <1>3, <2>1
  <2>3. e \in Broken(buf)
    BY <1>0, <1>1, <2>2 DEF Broken
  <2> QED
    BY <2>3 DEF e
<1> QED
  BY <1>0, <1>2, <1>3

\* A burst of a server that does not get ready.
LEMMA HearBreaks ==
  ASSUME NEW burst \in Seq(Messages), Breaks(burst),
         NEW at \in Cuts(burst), NEW queries \in Nat, NEW c \in Broken(<<>>)
  PROVE  Hear(c, burst, at, queries) \in Broken(<<>>)
<1> DEFINE n == Len(burst)
           S == [j \in 0..2 * n |-> Broken(Rest(burst, j))]
<1>1. /\ n \in Nat /\ 0 \in 0..2 * n /\ 2 * n \in 0..2 * n /\ DOMAIN burst = 1..n
      /\ \A i \in 1..n : burst[i] \in Messages \ {"ready"}
  BY ElementOfSeq DEF Breaks
<1>2. Rest(burst, 0) = <<>> /\ Rest(burst, 2 * n) = <<>>
  BY <1>1, RestOf, Zenon
<1>3. S[0] = Broken(<<>>) /\ S[2 * n] = Broken(<<>>) /\ \A j \in 0..2 * n : S[j] = Broken(Rest(burst, j))
  BY <1>1, <1>2
<1> HIDE DEF S
<1>4. ASSUME NEW j \in 0..2 * n, NEW k \in 0..2 * n, j < k, NEW d \in S[j]
      PROVE  Take(d, SubSeq(Pieces(burst), j + 1, k), queries) \in S[k]
  <2> DEFINE R == [i \in 0..n |-> Broken(Rest(burst, k))]
  <2>1. Half(j) \in 0..n /\ Half(k) \in 0..n
    BY <1>4, RestOf
  <2>2. \A i \in 0..n : R[i] = Broken(Rest(burst, k))
    OBVIOUS
  <2> HIDE DEF R
  <2>3. d \in Conn /\ d.buffer = Rest(burst, j)
    BY <1>3 DEF Broken
  <2>4. ASSUME NEW e \in Conn, e.auth = d.auth /\ e.ready = d.ready /\ e.buffer = Rest(burst, k),
               e.waits = d.waits /\ e.messages = d.messages /\ e.answers = d.answers
        PROVE  e \in R[Half(j)]
    <3>1. e \in Broken(Rest(burst, k))
      BY <1>3, <2>3, <2>4, SameBut
    <3> QED
      BY <2>1, <2>2, <3>1
  <2>5. ASSUME NEW i \in Half(j) + 1..Half(k), NEW e \in R[i - 1]
        PROVE  Dispatch(e, burst[i]) \in R[i]
    <3>1. i \in 1..n /\ i - 1 \in 0..n /\ i \in 0..n
      BY <2>1, <1>1
    <3>2. e \in Broken(Rest(burst, k)) /\ burst[i] \in Messages \ {"ready"}
      BY <2>2, <3>1, <1>1
    <3> QED
      BY <2>2, <3>1, <3>2, DispatchBroken
  <2>6. \A e \in R[Half(k)] : Query(Startup(e), queries) \in S[k]
    BY <2>1, <2>2, <1>3, SettleBroken
  <2>7. /\ \A e \in Conn :
              /\ e.auth = d.auth /\ e.ready = d.ready /\ e.buffer = Rest(burst, k)
              /\ e.waits = d.waits /\ e.messages = d.messages /\ e.answers = d.answers
              => e \in R[Half(j)]
        /\ \A i \in Half(j) + 1..Half(k) : \A e \in R[i - 1] : Dispatch(e, burst[i]) \in R[i]
        /\ \A e \in R[Half(k)] : Query(Startup(e), queries) \in S[k]
    BY <2>4, <2>5, <2>6, Zenon
  <2> QED
    BY <1>4, <2>3, <2>7, TakeKeeps, ZenonT(60)
<1>5. \A j, k \in 0..2 * n : \A d \in S[j] :
        j < k /\ ~Apart(burst, j) /\ ~Apart(burst, k) =>
          Take(d, SubSeq(Pieces(burst), j + 1, k), queries) \in S[k]
  BY <1>4
<1>6. Hear(c, burst, at, queries) \in S[2 * n]
  BY <1>3, <1>5, HearKeeps, Zenon
<1> QED
  BY <1>3, <1>6

(***************************************************************************)
(* The replies.                                                            *)
(***************************************************************************)
\* A query waits, and messages have come for it.
Busy(buf, answers, messages) ==
  {c \in Conn : /\ c.auth = "done" /\ c.ready /\ c.buffer = buf
                /\ c.waits /\ c.messages = messages /\ c.answers = answers}

\* Whether a reply ends with an error.
Failed(reply) == Len(reply) > 1 /\ reply[Len(reply) - 1] = "error"

\* What a reply says: an error right before its end, or its rows.
LEMMA MeantIs ==
  ASSUME NEW reply \in Seq(Messages), IsReply(reply)
  PROVE  /\ Meant(reply) \in Outcomes /\ Len(reply) \in Nat \ {0} /\ reply[Len(reply)] = "ready"
         /\ \A i \in 1..Len(reply) - 1 :
              /\ reply[i] \in {"info", "row", "error"}
              /\ reply[i] = "error" <=> i = Len(reply) - 1 /\ Failed(reply)
         /\ Failed(reply) => Meant(reply) = "error"
         /\ ~Failed(reply) => Meant(reply) = Rows(SubSeq(reply, 1, Len(reply) - 1))
<1> DEFINE n == Len(reply)
           before == SubSeq(reply, 1, n - 1)
<1>1. n \in Nat /\ n # 0 /\ DOMAIN reply = 1..n
  BY EmptySeq DEF IsReply
<1>2. /\ reply[n] = "ready"
      /\ \A i \in 1..n - 1 : reply[i] \in {"info", "row", "error"} /\ (reply[i] = "error" => i = n - 1)
  BY Zenon DEF IsReply
<1>3. Failed(reply) <=> n > 1 /\ reply[n - 1] = "error"
  BY Zenon DEF Failed
<1>4. \A i \in 1..n : reply[i] \in Messages
  BY <1>1, ElementOfSeq
<1> HIDE DEF n
<1>5. \A i \in 1..n - 1 : reply[i] = "error" <=> i = n - 1 /\ Failed(reply)
  <2> TAKE i \in 1..n - 1
  <2>1. i = n - 1 => n > 1
    BY <1>1
  <2> QED
    BY <1>2, <1>3, <2>1, Zenon
<1>6. (\E i \in DOMAIN reply : reply[i] = "error") <=> Failed(reply)
  <2>1. ASSUME NEW i \in 1..n, reply[i] = "error" PROVE Failed(reply)
    <3>1. i # n
      BY <1>2, <2>1
    <3>2. i \in 1..n - 1
      BY <1>1, <3>1
    <3> QED
      BY <1>5, <2>1, <3>2
  <2>2. ASSUME Failed(reply) PROVE n - 1 \in 1..n /\ reply[n - 1] = "error"
    BY <1>1, <1>3, <2>2
  <2> QED
    BY <1>1, <2>1, <2>2, Zenon
<1>7. Rows(reply) = Rows(before)
  <2>1. /\ before \in Seq(Messages) /\ Len(before) = n - 1
        /\ \A i \in 1..n - 1 : before[i] = reply[i]
    <3>1. /\ before \in Seq(Messages)
          /\ Len(before) = IF 1 <= n - 1 THEN n - 1 - 1 + 1 ELSE 0
          /\ \A i \in 1..n - 1 - 1 + 1 : before[i] = reply[1 + i - 1]
      <4>1. 1 \in Int /\ n - 1 \in Int /\ \A i \in 1..n - 1 : reply[i] \in Messages
        BY <1>1, <1>4
      <4> QED
        BY <4>1, SubSeqProperties
    <3>2. n - 1 - 1 + 1 = n - 1 /\ \A i \in 1..n - 1 : 1 + i - 1 = i
      BY <1>1
    <3> HIDE DEF before
    <3> QED
      BY <1>1, <3>1, <3>2
  <2> HIDE DEF before
  <2>2. DOMAIN before = 1..n - 1
    BY <2>1, LenProperties
  <2>3. {i \in DOMAIN reply : reply[i] = "row"} = {i \in DOMAIN before : before[i] = "row"}
    <3>1. ASSUME NEW i PROVE i \in 1..n /\ reply[i] = "row" <=> i \in 1..n - 1 /\ before[i] = "row"
      <4>1. i \in 1..n <=> i \in 1..n - 1 \/ i = n
        BY <1>1
      <4> QED
        BY <1>2, <2>1, <4>1
    <3> QED
      BY <1>1, <2>2, <3>1
  <2> QED
    BY <2>3, Zenon DEF Rows
<1>8. Failed(reply) => Meant(reply) = "error"
  BY <1>6, Zenon DEF Meant
<1>9. ~Failed(reply) => Meant(reply) = Rows(before)
  BY <1>6, <1>7, Zenon DEF Meant
<1>10. Meant(reply) \in Outcomes
  <2>1. Rows(reply) \in Nat
    BY RowsTyped
  <2>2. Meant(reply) = "error" \/ Meant(reply) = Rows(reply)
    BY <1>6, Zenon DEF Meant
  <2> QED
    BY <2>1, <2>2 DEF Outcomes
<1> QED
  BY <1>1, <1>2, <1>5, <1>8, <1>9, <1>10 DEF n

\* A message for the query that waits.
LEMMA DispatchBusy ==
  ASSUME NEW buf, NEW answers, answers # <<>>, NEW messages, NEW d \in Busy(buf, answers, messages),
         NEW m \in {"info", "row", "error", "ready"}
  PROVE  /\ m \in {"info", "row"} => Dispatch(d, m) \in Busy(buf, answers, Append(messages, m))
         /\ m = "error" => Dispatch(d, m) \in Done(buf, Append(answers, "error"))
         /\ m = "ready" => Dispatch(d, m) \in Done(buf, Append(answers, Rows(messages)))
<1> DEFINE e == Dispatch(d, m)
<1>0. /\ d \in Conn /\ d.auth = "done" /\ d.ready /\ d.buffer = buf /\ d.waits
      /\ d.messages = messages /\ d.answers = answers
  BY DEF Busy
<1>1. m \in Messages /\ Later(d, m)
  BY <1>0 DEF Messages, Requests, Later
<1>2. /\ e \in Conn /\ e.auth = d.auth /\ e.buffer = d.buffer
      /\ (e.ready <=> d.ready \/ m = "ready")
      /\ m = "ready" =>
           /\ ~e.waits /\ e.messages = <<>>
           /\ e.answers = Append(d.answers, IF d.answers = <<>> THEN "connected" ELSE Rows(d.messages))
      /\ m = "error" =>
           /\ ~e.waits /\ e.messages = <<>>
           /\ e.answers = Append(d.answers, IF d.answers = <<>> THEN "refused" ELSE "error")
      /\ m \notin {"ready", "error"} =>
           e.waits /\ e.messages = Append(d.messages, m) /\ e.answers = d.answers
  BY <1>0, <1>1, DispatchAwaited, Zenon
<1>3. /\ (IF d.answers = <<>> THEN "connected" ELSE Rows(d.messages)) = Rows(messages)
      /\ (IF d.answers = <<>> THEN "refused" ELSE "error") = "error"
  BY <1>0, Zenon
<1>4. /\ m = "ready" => ~e.waits /\ e.messages = <<>> /\ e.answers = Append(answers, Rows(messages))
      /\ m = "error" => ~e.waits /\ e.messages = <<>> /\ e.answers = Append(answers, "error")
      /\ m \notin {"ready", "error"} => e.waits /\ e.messages = Append(messages, m) /\ e.answers = answers
  BY <1>0, <1>2, <1>3, Zenon
<1> DEFINE more == Append(messages, m)
           bad == Append(answers, "error")
           good == Append(answers, Rows(messages))
<1>5. /\ e \in Conn /\ e.auth = "done" /\ e.buffer = buf /\ e.ready
      /\ m = "ready" => ~e.waits /\ e.messages = <<>> /\ e.answers = good
      /\ m = "error" => ~e.waits /\ e.messages = <<>> /\ e.answers = bad
      /\ m \notin {"ready", "error"} => e.waits /\ e.messages = more /\ e.answers = answers
  BY <1>0, <1>2, <1>4, Zenon
<1> HIDE DEF e, more, bad, good
<1>6. m \in {"info", "row"} => e \in Busy(buf, answers, more)
  BY <1>5 DEF Busy
<1>7. m = "error" => e \in Done(buf, bad)
  BY <1>5 DEF Done
<1>8. m = "ready" => e \in Done(buf, good)
  BY <1>5 DEF Done
<1> QED
  BY <1>6, <1>7, <1>8, Zenon DEF e, more, bad, good

\* The "ready" after an error.
LEMMA DispatchDone ==
  ASSUME NEW buf, NEW answers, NEW d \in Done(buf, answers)
  PROVE  Dispatch(d, "ready") \in Done(buf, answers)
<1> DEFINE e == Dispatch(d, "ready")
<1>0. d \in Conn /\ d.auth = "done" /\ d.ready /\ d.buffer = buf /\ ~d.waits /\ d.messages = <<>> /\ d.answers = answers
  BY DEF Done
<1>1. "ready" \in Messages /\ Later(d, "ready")
  BY <1>0 DEF Messages, Later
<1>2. /\ e \in Conn /\ e.auth = d.auth /\ e.buffer = d.buffer /\ ~e.waits
      /\ e.messages = d.messages /\ e.answers = d.answers
      /\ (e.ready <=> d.ready \/ "ready" = "ready")
  BY <1>0, <1>1, DispatchUnasked, Zenon
<1> HIDE DEF e
<1>3. e \in Done(buf, answers)
  BY <1>0, <1>2 DEF Done
<1> QED
  BY <1>3 DEF e

\* A query that waits goes on waiting.
LEMMA SettleBusy ==
  ASSUME NEW queries \in Nat, NEW buf, NEW answers, answers # <<>>, NEW messages,
         NEW d \in Busy(buf, answers, messages)
  PROVE  Query(Startup(d), queries) \in Busy(buf, answers, messages)
<1> DEFINE e == Query(Startup(d), queries)
<1>0. /\ d \in Conn /\ d.auth = "done" /\ d.ready /\ d.buffer = buf /\ d.waits
      /\ d.messages = messages /\ d.answers = answers
  BY DEF Busy
<1>1. /\ e \in Conn /\ e.auth = d.auth /\ e.ready = d.ready /\ e.buffer = d.buffer
      /\ e.answers = d.answers /\ e.messages = d.messages
      /\ e.waits <=> d.waits \/ (d.answers[1] = "connected" /\ Len(d.answers) <= queries)
  BY <1>0, SettleIs, Zenon
<1> HIDE DEF e
<1>2. e.waits
  BY <1>0, <1>1, Zenon
<1>3. e \in Busy(buf, answers, messages)
  BY <1>0, <1>1, <1>2 DEF Busy
<1> QED
  BY <1>3 DEF e

\* The messages of a reply, one more.
LEMMA OneMore ==
  ASSUME NEW reply \in Seq(Messages), NEW i \in 1..Len(reply)
  PROVE  SubSeq(reply, 1, i) = Append(SubSeq(reply, 1, i - 1), reply[i])
<1>1. 1 \in 1..Len(reply) /\ i \in 1..Len(reply)
  OBVIOUS
<1>2. SubSeq(reply, 1, i) = SubSeq(reply, 1, i - 1) \o <<reply[i]>>
  BY <1>1, SubSeqRecursiveSecond
<1>3. \A k \in 1..i - 1 : reply[k] \in Messages
  BY ElementOfSeq
<1>4. 1 \in Int /\ i - 1 \in Int
  OBVIOUS
<1>5. SubSeq(reply, 1, i - 1) \in Seq(Messages)
  BY <1>3, <1>4, SubSeqProperties
<1>6. reply[i] \in Messages
  BY ElementOfSeq
<1> QED
  BY <1>2, <1>5, <1>6, AppendIsConcat

\* The reply to a query, cut in any way but between an error and its end.
LEMMA HearReply ==
  ASSUME NEW reply \in Seq(Messages), IsReply(reply), NEW at \in Cuts(reply), NEW queries \in Nat,
         NEW answers \in Seq(Outcomes), answers # <<>>, answers[1] = "connected", Len(answers) <= queries,
         NEW c \in Free(answers, queries)
  PROVE  Hear(c, reply, at, queries) \in Free(Append(answers, Meant(reply)), queries)
<1> DEFINE n == Len(reply)
           next == Append(answers, Meant(reply))
           failed == Failed(reply)
           sofar(i) == SubSeq(reply, 1, i)
<1>1. /\ Meant(reply) \in Outcomes /\ n \in Nat \ {0} /\ reply[n] = "ready"
      /\ \A i \in 1..n - 1 :
           /\ reply[i] \in {"info", "row", "error"}
           /\ reply[i] = "error" <=> i = n - 1 /\ failed
      /\ failed => Meant(reply) = "error"
      /\ ~failed => Meant(reply) = Rows(sofar(n - 1))
  BY MeantIs
<1>2. next # <<>> /\ next[1] = "connected"
  <2>1. Len(answers) \in Nat \ {0}
    BY EmptySeq
  <2>2. 1 \in 1..Len(answers)
    BY <2>1
  <2> QED
    BY <1>1, <2>2, AppendProperties
<1>3. /\ failed => next = Append(answers, "error")
      /\ ~failed => next = Append(answers, Rows(sofar(n - 1)))
  BY <1>1, Zenon
<1>4. \A i \in 1..n : sofar(i) = Append(sofar(i - 1), reply[i])
  BY OneMore
<1>5. sofar(0) = <<>>
  BY SubSeqEmpty
<1>6. n = Len(reply) /\ 0 \in 0..2 * n /\ 2 * n \in 0..2 * n
  BY <1>1
<1>7. \A j \in 0..2 * n : (\E i \in 1..n - 1 : reply[i] = "error" /\ j \in {2 * i, 2 * i + 1}) => Apart(reply, j)
  BY Zenon DEF Apart
<1>8. failed <=> n > 1 /\ reply[n - 1] = "error"
  BY Zenon DEF Failed
<1> HIDE DEF n, next, failed, sofar
<1> DEFINE S == [j \in 0..2 * n |-> IF j = 2 * n THEN Free(next, queries)
                                    ELSE Busy(Rest(reply, j), answers, sofar(Half(j)))]
<1>9. Rest(reply, 0) = <<>> /\ Half(0) = 0 /\ Rest(reply, 2 * n) = <<>>
  BY <1>6, RestOf, Zenon
<1>10. /\ S[0] = Busy(<<>>, answers, <<>>) /\ S[2 * n] = Free(next, queries)
       /\ \A j \in 0..2 * n : j # 2 * n => S[j] = Busy(Rest(reply, j), answers, sofar(Half(j)))
  BY <1>1, <1>5, <1>6, <1>9
<1> HIDE DEF S
<1>11. c \in S[0]
  BY <1>10 DEF Free, Busy
<1>12. ASSUME NEW j \in 0..2 * n, NEW k \in 0..2 * n, j < k, ~Apart(reply, j), ~Apart(reply, k), NEW d \in S[j]
       PROVE  Take(d, SubSeq(Pieces(reply), j + 1, k), queries) \in S[k]
  <2> DEFINE buf == Rest(reply, k)
             h == Half(j)
             e == Half(k)
  <2>1. j \in Nat /\ k \in Nat
    BY <1>1, <1>12
  <2>2. /\ h \in 0..n /\ e \in 0..n /\ (k = 2 * n => e = n) /\ (j < 2 * n => h < n) /\ (k < 2 * n => e < n)
        /\ 2 * h <= j /\ j <= 2 * h + 1 /\ 2 * e <= k /\ k <= 2 * e + 1
    BY <1>6, <1>12, <2>1, RestOf, HalfOf, Zenon
  <2> HIDE DEF h, e
  <2>3. h < n /\ j # 2 * n /\ (k # 2 * n => e < n) /\ h <= e
    BY <1>1, <1>12, <2>1, <2>2
  <2>4. \A x \in 0..2 * n, y \in 0..n : 2 * y <= x /\ x <= 2 * y + 1 /\ y = n - 1 /\ failed => Apart(reply, x)
    <3> SUFFICES ASSUME NEW x \in 0..2 * n, NEW y \in 0..n, 2 * y <= x, x <= 2 * y + 1, y = n - 1, failed
        PROVE  Apart(reply, x)
      BY Zenon
    <3>1. y \in 1..n - 1 /\ x \in {2 * y, 2 * y + 1} /\ reply[y] = "error"
      <4>1. n > 1 /\ reply[n - 1] = "error"
        BY <1>8, Zenon
      <4>2. n \in Nat
        BY <1>1
      <4>3. x \in Nat /\ y \in Nat /\ 2 * y <= x /\ x <= 2 * y + 1 /\ y = n - 1
        BY <4>2
      <4>4. y \in 1..n - 1
        BY <4>1, <4>2, <4>3
      <4>5. x = 2 * y \/ x = 2 * y + 1
        BY <4>3, SMTT(30)
      <4> QED
        BY <4>1, <4>3, <4>4, <4>5, Zenon
    <3> QED
      BY <1>7, <3>1, Zenon
  <2>5. (h = n - 1 => ~failed) /\ (e = n - 1 => ~failed)
    BY <1>12, <2>2, <2>4, Zenon
  <2>6. S[j] = Busy(Rest(reply, j), answers, sofar(h)) /\ (k # 2 * n => S[k] = Busy(buf, answers, sofar(e)))
    BY <1>10, <2>3 DEF h, e
  <2>7. k = 2 * n => buf = <<>>
    BY <1>9
  <2>8. d \in Conn /\ d.buffer = Rest(reply, j)
    BY <1>12, <2>6 DEF Busy
  <2> DEFINE R == [i \in 0..n |-> IF i = n \/ (i = n - 1 /\ failed) THEN Done(buf, next)
                                  ELSE Busy(buf, answers, sofar(i))]
  <2>9. \A i \in 0..n : R[i] = IF i = n \/ (i = n - 1 /\ failed) THEN Done(buf, next)
                               ELSE Busy(buf, answers, sofar(i))
    OBVIOUS
  <2> HIDE DEF R, buf
  <2>10. ASSUME NEW x \in Conn, x.auth = d.auth /\ x.ready = d.ready /\ x.buffer = buf,
                x.waits = d.waits /\ x.messages = d.messages /\ x.answers = d.answers
         PROVE  x \in R[h]
    <3>1. R[h] = Busy(buf, answers, sofar(h))
      BY <2>2, <2>3, <2>5, <2>9, SMTT(30)
    <3>2. d \in Busy(Rest(reply, j), answers, sofar(h))
      BY <1>12, <2>6
    <3>3. x \in Busy(buf, answers, sofar(h))
      BY <2>10, <3>2 DEF Busy
    <3> QED
      BY <3>1, <3>3
  <2>11. ASSUME NEW i \in h + 1..e, NEW x \in R[i - 1] PROVE Dispatch(x, reply[i]) \in R[i]
    <3>1. i \in 1..n /\ i - 1 \in 0..n /\ i \in 0..n
      BY <1>1, <2>2
    <3>2. CASE i \in 1..n - 1 /\ ~(i = n - 1 /\ failed)
      <4>1. x \in Busy(buf, answers, sofar(i - 1)) /\ R[i] = Busy(buf, answers, sofar(i))
        <5>1. i - 1 # n /\ i - 1 # n - 1 /\ i # n
          BY <1>1, <3>1, <3>2
        <5> QED
          BY <2>9, <2>11, <3>1, <3>2, <5>1
      <4>2. reply[i] \in {"info", "row"} /\ reply[i] \in {"info", "row", "error", "ready"}
        BY <1>1, <3>2
      <4>3. Dispatch(x, reply[i]) \in Busy(buf, answers, Append(sofar(i - 1), reply[i]))
        BY <4>1, <4>2, DispatchBusy
      <4> QED
        BY <1>4, <3>1, <4>1, <4>3
    <3>3. CASE i \in 1..n - 1 /\ i = n - 1 /\ failed
      <4>1. x \in Busy(buf, answers, sofar(i - 1)) /\ R[i] = Done(buf, next)
        <5>1. i - 1 # n /\ i - 1 # n - 1 /\ i # n
          BY <1>1, <3>1, <3>3
        <5> QED
          BY <2>9, <2>11, <3>1, <3>3, <5>1
      <4>2. reply[i] = "error" /\ reply[i] \in {"info", "row", "error", "ready"}
        BY <1>1, <3>3
      <4>3. Dispatch(x, reply[i]) \in Done(buf, Append(answers, "error"))
        BY <4>1, <4>2, DispatchBusy
      <4> QED
        BY <1>3, <3>3, <4>1, <4>3
    <3>4. CASE i = n /\ failed
      <4>1. R[i - 1] = Done(buf, next) /\ R[i] = Done(buf, next)
        BY <2>9, <3>1, <3>4
      <4> QED
        BY <1>1, <2>11, <3>4, <4>1, DispatchDone
    <3>5. CASE i = n /\ ~failed
      <4>1. x \in Busy(buf, answers, sofar(n - 1)) /\ R[i] = Done(buf, next)
        <5>1. i - 1 # n /\ i - 1 = n - 1
          BY <1>1, <3>1, <3>5
        <5> QED
          BY <2>9, <2>11, <3>1, <3>5, <5>1
      <4>2. reply[i] = "ready" /\ reply[i] \in {"info", "row", "error", "ready"}
        BY <1>1, <3>5
      <4>3. Dispatch(x, reply[i]) \in Done(buf, Append(answers, Rows(sofar(n - 1))))
        BY <4>1, <4>2, DispatchBusy
      <4> QED
        BY <1>3, <3>5, <4>1, <4>3
    <3>6. i = n \/ i \in 1..n - 1
      BY <1>1, <3>1
    <3> QED
      BY <3>2, <3>3, <3>4, <3>5, <3>6, Zenon
  <2>12. ASSUME NEW x \in R[e] PROVE Query(Startup(x), queries) \in S[k]
    <3>1. CASE k = 2 * n
      <4>1. x \in Done(<<>>, next) /\ S[k] = Free(next, queries)
        BY <1>10, <2>2, <2>7, <2>9, <2>12, <3>1
      <4> QED
        BY <1>2, <4>1, SettleDone
    <3>2. CASE k # 2 * n
      <4>1. x \in Busy(buf, answers, sofar(e)) /\ S[k] = Busy(buf, answers, sofar(e))
        <5>1. e # n /\ ~(e = n - 1 /\ failed)
          BY <2>2, <2>3, <2>5, <3>2
        <5> QED
          BY <2>2, <2>6, <2>9, <2>12, <3>2, <5>1
      <4> QED
        BY <4>1, SettleBusy
    <3> QED
      BY <3>1, <3>2
  <2>13. /\ \A x \in Conn :
               /\ x.auth = d.auth /\ x.ready = d.ready /\ x.buffer = Rest(reply, k)
               /\ x.waits = d.waits /\ x.messages = d.messages /\ x.answers = d.answers
               => x \in R[Half(j)]
         /\ \A i \in Half(j) + 1..Half(k) : \A x \in R[i - 1] : Dispatch(x, reply[i]) \in R[i]
         /\ \A x \in R[Half(k)] : Query(Startup(x), queries) \in S[k]
    BY <2>10, <2>11, <2>12, Zenon DEF buf, h, e
  <2>14. j \in 0..2 * Len(reply) /\ k \in 0..2 * Len(reply) /\ j < k
    BY <1>6, <1>12, Zenon
  <2> QED
    BY <2>8, <2>13, <2>14, TakeKeeps, ZenonT(60)
<1>13. \A j, k \in 0..2 * n : \A d \in S[j] :
         j < k /\ ~Apart(reply, j) /\ ~Apart(reply, k) =>
           Take(d, SubSeq(Pieces(reply), j + 1, k), queries) \in S[k]
  BY <1>12
<1>14. Hear(c, reply, at, queries) \in S[2 * n]
  BY <1>6, <1>11, <1>13, HearKeeps, Zenon
<1> QED
  BY <1>10, <1>14 DEF next

(***************************************************************************)
(* Conversations.                                                          *)
(***************************************************************************)
\* The login, for as many queries as follow it.
LEMMA PlayLogin ==
  ASSUME NEW login \in Logins, NEW first \in Sent(login), NEW queries \in Nat
  PROVE  LET c == Play(Started, login, first, queries) IN
         IF Admitted(login) THEN c \in Free(<<"connected">>, queries)
         ELSE c \in Refused(<<>>, <<"refused">>) \cup Broken(<<>>)
<1> DEFINE n == Len(login)
           end == IF Admitted(login) THEN Free(<<"connected">>, queries)
                  ELSE Refused(<<>>, <<"refused">>) \cup Broken(<<>>)
           S == [k \in 0..n |-> IF k < n THEN Challenged(<<>>) ELSE end]
<1>1. /\ login \in Seq(Seq(Messages)) /\ login # <<>>
      /\ \A k \in 1..n - 1 : \A i \in DOMAIN login[k] : login[k][i] \in Undecided
      /\ Grants(login[n]) \/ Refuses(login[n]) \/ Breaks(login[n])
  BY Zenon, WireAssumption
<1>2. n \in Nat /\ n >= 1 /\ DOMAIN login = 1..n
  BY <1>1, EmptySeq
<1>3. \A k \in 1..n : login[k] \in Seq(Messages)
  BY <1>1, <1>2, ElementOfSeq
<1>4. \A k \in 1..n : first[k] \in Cuts(login[k])
  BY <1>2 DEF Sent
<1>5. Started \in Challenged(<<>>)
  BY DEF Started, Challenged, Login, Conn
<1>8. n = Len(login)
  OBVIOUS
<1> HIDE DEF n, end
<1>6. S[0] = Challenged(<<>>) /\ S[n] = end /\ \A k \in 1..n : S[k - 1] = Challenged(<<>>)
  BY <1>2
<1>7. \A k \in 1..n : k # n => S[k] = Challenged(<<>>)
  BY <1>2
<1>9. Admitted(login) <=> Grants(login[n])
  BY <1>8, Zenon DEF Admitted
<1> HIDE DEF S
<1>10. ASSUME NEW k \in 1..n, NEW d \in S[k - 1]
       PROVE  Hear(d, login[k], first[k], queries) \in S[k]
  <2>1. d \in Challenged(<<>>) /\ login[k] \in Seq(Messages) /\ first[k] \in Cuts(login[k])
    BY <1>3, <1>4, <1>6, <1>10
  <2>2. CASE k # n
    <3>1. \A i \in DOMAIN login[k] : login[k][i] \in Undecided
      <4>1. k \in 1..n - 1
        BY <1>2, <2>2
      <4> QED
        BY <1>1, <4>1
    <3>2. Hear(d, login[k], first[k], queries) \in Challenged(<<>>)
      BY <2>1, <3>1, HearUndecided
    <3> QED
      BY <1>7, <2>2, <3>2
  <2>3. CASE k = n /\ Grants(login[k])
    <3>1. Hear(d, login[k], first[k], queries) \in Free(<<"connected">>, queries)
      BY <2>1, <2>3, HearGrants
    <3>2. S[k] = Free(<<"connected">>, queries)
      BY <1>6, <1>9, <2>3, Zenon DEF end
    <3> QED
      BY <3>1, <3>2
  <2>4. CASE k = n /\ ~Grants(login[k])
    <3>1. S[k] = Refused(<<>>, <<"refused">>) \cup Broken(<<>>)
      BY <1>6, <1>9, <2>4, Zenon DEF end
    <3>2. CASE Refuses(login[k])
      <4>1. Hear(d, login[k], first[k], queries) \in Refused(<<>>, <<"refused">>)
        BY <2>1, <3>2, HearRefuses
      <4> QED
        BY <3>1, <4>1
    <3>3. CASE Breaks(login[k])
      <4>1. d \in Broken(<<>>)
        BY <2>1 DEF Challenged, Login, Broken
      <4>2. Hear(d, login[k], first[k], queries) \in Broken(<<>>)
        BY <2>1, <3>3, <4>1, HearBreaks
      <4> QED
        BY <3>1, <4>2
    <3> QED
      BY <1>1, <2>4, <3>2, <3>3
  <2> QED
    BY <2>2, <2>3, <2>4
<1>11. Play(Started, login, first, queries) \in S[n]
  BY <1>2, <1>5, <1>6, <1>8, <1>10, PlayKeeps
<1> QED
  BY <1>6, <1>11, Zenon DEF end

\* What the callers were told after so many replies.
Told(replies, k) == <<"connected">> \o [i \in 1..k |-> Meant(replies[i])]

\* Each reply adds an answer.
LEMMA ToldIs ==
  ASSUME NEW n \in Nat, NEW replies \in [1..n -> Answers]
  PROVE  /\ Told(replies, 0) = <<"connected">>
         /\ \A k \in 0..n : /\ Told(replies, k) \in Seq(Outcomes) /\ Len(Told(replies, k)) = k + 1
                            /\ Told(replies, k) # <<>> /\ Told(replies, k)[1] = "connected"
         /\ \A k \in 1..n : Told(replies, k) = Append(Told(replies, k - 1), Meant(replies[k]))
<1> DEFINE one == <<"connected">>
           meant(k) == [i \in 1..k |-> Meant(replies[i])]
<1>1. one \in Seq(Outcomes) /\ Len(one) = 1 /\ one[1] = "connected"
  BY ElementOfSeq DEF Outcomes
<1>2. \A i \in 1..n : Meant(replies[i]) \in Outcomes
  <2> TAKE i \in 1..n
  <2>1. replies[i] \in Seq(Messages) /\ IsReply(replies[i])
    BY WireAssumption
  <2> QED
    BY <2>1, MeantIs
<1>3. ASSUME NEW k \in 0..n
      PROVE  /\ meant(k) \in Seq(Outcomes) /\ Len(meant(k)) = k
             /\ \A i \in 1..k : meant(k)[i] = Meant(replies[i])
  <2>1. meant(k) \in [1..k -> Outcomes]
    BY <1>2
  <2>2. k \in Nat
    OBVIOUS
  <2> QED
    BY <2>1, <2>2, SeqDef
<1>4. \A k \in 0..n : Told(replies, k) = one \o meant(k)
  BY Zenon DEF Told
<1> HIDE DEF one
<1>5. Told(replies, 0) = one
  <2>1. meant(0) \in Seq(Outcomes) /\ Len(meant(0)) = 0
    BY <1>3
  <2> HIDE DEF meant
  <2>2. meant(0) = <<>>
    BY <2>1, EmptySeq
  <2>3. 0 \in 0..n
    OBVIOUS
  <2> QED
    BY <1>1, <1>4, <2>2, <2>3, ConcatEmptySeq
<1>6. ASSUME NEW k \in 0..n
      PROVE  /\ Told(replies, k) \in Seq(Outcomes) /\ Len(Told(replies, k)) = k + 1
             /\ Told(replies, k) # <<>> /\ Told(replies, k)[1] = "connected"
             /\ \A i \in 2..k + 1 : Told(replies, k)[i] = Meant(replies[i - 1])
  <2>1. meant(k) \in Seq(Outcomes) /\ Len(meant(k)) = k /\ \A i \in 1..k : meant(k)[i] = Meant(replies[i])
    BY <1>3
  <2> HIDE DEF meant
  <2> DEFINE all == one \o meant(k)
             m == meant(k)
  <2>2. /\ all \in Seq(Outcomes) /\ Len(all) = Len(one) + Len(m)
        /\ \A i \in 1..Len(one) + Len(m) : all[i] = IF i <= Len(one) THEN one[i] ELSE m[i - Len(one)]
    BY <1>1, <2>1, ConcatProperties
  <2>4. Told(replies, k) = all /\ k \in Nat
    BY <1>4
  <2> HIDE DEF all, m
  <2>3. Len(m) = k /\ m \in Seq(Outcomes) /\ \A i \in 1..k : m[i] = Meant(replies[i])
    BY <2>1 DEF m
  <2>5. all \in Seq(Outcomes) /\ Len(all) = k + 1
    BY <1>1, <2>2, <2>3, <2>4
  <2>6. all[1] = "connected" /\ \A i \in 2..k + 1 : all[i] = Meant(replies[i - 1])
    <3>1. 1 \in 1..Len(one) + Len(m)
      BY <1>1, <2>3, <2>4
    <3>2. all[1] = one[1]
      BY <1>1, <2>2, <3>1
    <3>3. ASSUME NEW i \in 2..k + 1 PROVE all[i] = Meant(replies[i - 1])
      <4>1. i \in 1..Len(one) + Len(m) /\ i - 1 \in 1..k /\ ~(i <= Len(one)) /\ i - Len(one) = i - 1
        BY <1>1, <2>3, <2>4
      <4> QED
        BY <2>2, <2>3, <4>1
    <3> QED
      BY <1>1, <3>2, <3>3
  <2>7. all # <<>>
    BY <2>4, <2>5, EmptySeq
  <2> QED
    BY <2>4, <2>5, <2>6, <2>7
<1>7. ASSUME NEW k \in 1..n
      PROVE  Told(replies, k) = Append(Told(replies, k - 1), Meant(replies[k]))
  <2> DEFINE s == Told(replies, k - 1)
             t == Told(replies, k)
             m == Meant(replies[k])
             u == Append(s, m)
  <2>1. k \in 0..n /\ k - 1 \in 0..n /\ k \in Nat
    OBVIOUS
  <2>2. /\ s \in Seq(Outcomes) /\ Len(s) = k /\ s[1] = "connected"
        /\ \A i \in 2..k : s[i] = Meant(replies[i - 1])
    <3>1. (k - 1) + 1 = k
      OBVIOUS
    <3> QED
      BY <1>6, <2>1, <3>1
  <2>3. /\ t \in Seq(Outcomes) /\ Len(t) = k + 1 /\ t[1] = "connected"
        /\ \A i \in 2..k + 1 : t[i] = Meant(replies[i - 1])
    BY <1>6, <2>1
  <2>4. m \in Outcomes /\ m = Meant(replies[(k + 1) - 1])
    <3>1. (k + 1) - 1 = k
      OBVIOUS
    <3> QED
      BY <1>2, <3>1
  <2> HIDE DEF s, t, m
  <2>5. /\ u \in Seq(Outcomes) /\ Len(u) = k + 1 /\ \A i \in 1..k : u[i] = s[i]
        /\ u[k + 1] = m
    BY <2>2, <2>4, AppendProperties
  <2> HIDE DEF u
  <2>6. ASSUME NEW i \in 1..k + 1 PROVE t[i] = u[i]
    <3>1. CASE i = 1
      BY <2>1, <2>2, <2>3, <2>5, <3>1
    <3>2. CASE i \in 2..k
      <4>1. i \in 1..k /\ i \in 2..k + 1
        BY <2>1, <3>2
      <4> QED
        BY <2>2, <2>3, <2>5, <3>2, <4>1
    <3>3. CASE i = k + 1
      <4>1. k + 1 \in 2..k + 1
        BY <2>1
      <4> QED
        BY <2>3, <2>4, <2>5, <3>3, <4>1
    <3> QED
      BY <2>1, <3>1, <3>2, <3>3
  <2>7. t = u
    BY <2>3, <2>5, <2>6, SeqEqual
  <2> QED
    BY <2>7 DEF s, t, m, u
<1> QED
  BY <1>5, <1>6, <1>7, Zenon DEF one

\* The replies.
LEMMA PlayReplies ==
  ASSUME NEW n \in Nat, NEW replies \in [1..n -> Answers], NEW rest \in Sent(replies),
         NEW c \in Free(<<"connected">>, n)
  PROVE  Play(c, replies, rest, n).answers = Told(replies, n)
<1> DEFINE S == [k \in 0..n |-> Free(Told(replies, k), n)]
<1>1. \A k \in 1..n : replies[k] \in Seq(Messages) /\ IsReply(replies[k])
  BY WireAssumption
<1>2. Len(replies) = n /\ DOMAIN replies = 1..n
  <2>1. replies \in Seq(Answers)
    BY SeqDef
  <2> QED
    BY <2>1, LenProperties
<1>3. \A k \in 1..n : rest[k] \in Cuts(replies[k])
  BY <1>2 DEF Sent
<1>4. /\ Told(replies, 0) = <<"connected">>
      /\ \A k \in 0..n : /\ Told(replies, k) \in Seq(Outcomes) /\ Len(Told(replies, k)) = k + 1
                         /\ Told(replies, k) # <<>> /\ Told(replies, k)[1] = "connected"
      /\ \A k \in 1..n : Told(replies, k) = Append(Told(replies, k - 1), Meant(replies[k]))
  BY ToldIs, Zenon
<1>5. \A k \in 0..n : S[k] = Free(Told(replies, k), n)
  OBVIOUS
<1> HIDE DEF S
<1>6. c \in S[0]
  BY <1>4, <1>5
<1>7. ASSUME NEW k \in 1..n, NEW d \in S[k - 1] PROVE Hear(d, replies[k], rest[k], n) \in S[k]
  <2> DEFINE told == Told(replies, k - 1)
  <2>1. k - 1 \in 0..n /\ k \in 0..n
    OBVIOUS
  <2>2. told \in Seq(Outcomes) /\ Len(told) <= n /\ told # <<>> /\ told[1] = "connected"
    <3>1. (k - 1) + 1 <= n
      OBVIOUS
    <3> QED
      BY <1>4, <2>1, <3>1
  <2>3. d \in Free(told, n)
    BY <1>5, <1>7, <2>1
  <2>4. Told(replies, k) = Append(told, Meant(replies[k]))
    BY <1>4
  <2> HIDE DEF told
  <2>5. Hear(d, replies[k], rest[k], n) \in Free(Append(told, Meant(replies[k])), n)
    BY <1>1, <1>3, <2>2, <2>3, HearReply
  <2> QED
    BY <1>5, <2>1, <2>4, <2>5
<1>8. Play(c, replies, rest, n) \in S[n]
  BY <1>2, <1>6, <1>7, PlayKeeps
<1>9. Play(c, replies, rest, n) \in Free(Told(replies, n), n)
  BY <1>5, <1>8
<1> QED
  BY <1>9 DEF Free

\* The socket was closed on a connection that was not let in.
LEMMA FailIs ==
  ASSUME NEW c \in Refused(<<>>, <<"refused">>) \cup Broken(<<>>)
  PROVE  Fail(c).answers = <<"refused">>
<1>1. c \in Conn /\ ((c.answers = <<"refused">> /\ ~c.waits) \/ c.answers = <<>>)
  BY DEF Refused, Broken
<1>2. CASE c.answers = <<"refused">> /\ ~c.waits
  <2>1. c.answers # <<>>
    BY <1>2
  <2>2. Fail(c) = c
    BY <1>2, <2>1, Zenon DEF Fail, Connecting
  <2> QED
    BY <1>2, <2>2
<1>3. CASE c.answers = <<>>
  <2>1. Fail(c) = Reject(c)
    BY <1>3, Zenon DEF Fail, Connecting
  <2>2. Reject(c).answers = Append(c.answers, IF c.answers = <<>> THEN "refused" ELSE "error")
    BY <1>1, RejectIs, Zenon
  <2>3. Append(c.answers, IF c.answers = <<>> THEN "refused" ELSE "error") = <<"refused">>
    BY <1>3
  <2> QED
    BY <2>1, <2>2, <2>3
<1> QED
  BY <1>1, <1>2, <1>3

\* The login, then the replies.
LEMMA RepliesCorrect == RepliesMatch
<1>1. ASSUME NEW login \in Logins, NEW first \in Sent(login), ~Admitted(login)
      PROVE  Fail(Play(Started, login, first, 0)).answers = <<"refused">>
  <2>1. Play(Started, login, first, 0) \in Refused(<<>>, <<"refused">>) \cup Broken(<<>>)
    <3>1. 0 \in Nat
      OBVIOUS
    <3> QED
      BY <1>1, <3>1, PlayLogin, Zenon
  <2> QED
    BY <2>1, FailIs
<1>2. ASSUME NEW login \in Logins, NEW first \in Sent(login), Admitted(login), NEW n \in 0..Queries,
             NEW replies \in [1..n -> Answers], NEW rest \in Sent(replies)
      PROVE  Play(Play(Started, login, first, n), replies, rest, n).answers =
               <<"connected">> \o [i \in 1..n |-> Meant(replies[i])]
  <2>1. n \in Nat
    BY WireAssumption
  <2>2. Play(Started, login, first, n) \in Free(<<"connected">>, n)
    BY <1>2, <2>1, PlayLogin, Zenon
  <2>3. Play(Play(Started, login, first, n), replies, rest, n).answers = Told(replies, n)
    BY <2>1, <2>2, PlayReplies, Zenon
  <2> QED
    BY <2>3, Zenon DEF Told
<1> QED
  BY <1>1, <1>2, Zenon DEF RepliesMatch

\* However the server logs a connection in, whatever it replies to however many
\* queries, and however the socket cuts that: connect ends as the server
\* decided, and each query gets its own reply (PgConnection, postgres.js).
THEOREM WireCorrect == Spec => []WireHolds
<1>1. WireHolds
  BY RepliesCorrect DEF WireHolds
<1> QED
  BY <1>1, PTL

=============================================================================
