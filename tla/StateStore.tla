----------------------------- MODULE StateStore -----------------------------
(***************************************************************************)
(* The two drivers behind store.mutate: a JSON file written by one API     *)
(* process (store.js), and a row of a PostgreSQL table locked by one       *)
(* transaction at a time, over a small pool of connections per instance    *)
(* (store-pg.js, PgPool in postgres.js).                                   *)
(*                                                                         *)
(* A state is the set of calls whose change it has.  The pool hands out    *)
(* the connection that came back last; one that lost its server is never   *)
(* taken out of it, and a query on it is never answered.  What one query   *)
(* takes on its connection is Wire.                                        *)
(***************************************************************************)
EXTENDS Naturals, Sequences, FiniteSets, Wire

CONSTANTS
  Calls,        \* calls of mutate
  Instances,    \* processes of the API
  Drivers,      \* the drivers to consider, of "json" and "pg"
  MaxPool,      \* connections in the pool of an instance (4 in the code)
  Events,       \* what may go wrong: see EventNames
  MaxBreaks     \* bound: how often

\* persist: a write of the file fails; drop: the database closes every
\* connection; connect: a new connection fails; restart: an instance restarts.
EventNames == {"persist", "drop", "connect", "restart"}

ASSUME StateStoreAssumption ==
  /\ IsFiniteSet(Calls)
  /\ Drivers \subseteq {"json", "pg"}
  /\ MaxPool \in Nat \ {0}
  /\ Events \subseteq EventNames
  /\ MaxBreaks \in Nat

VARIABLES
  driver,   \* what createStore chose
  where,    \* the instance each call is made at
  stored,   \* the file, or the committed row
  data,     \* this.data of each instance: what snapshot returns
  step,     \* how far each call has got
  draft,    \* what fn made of the state
  idle,     \* the pool's idle connections, per instance: TRUE if alive
  size,     \* the connections the pool counts
  breaks    \* history: how many of the Events have happened

pool == <<idle, size>>
vars == <<driver, where, stored, data, step, draft, pool, breaks>>

\* connected, locked: only "pg".  assigned: this.data is the draft, the write is
\* under way.  kept: written, not answered.  hung: it waits for a dead
\* connection and holds it.
Steps == {"idle", "waiting", "connected", "locked", "assigned", "kept",
          "ok", "failed", "lost", "hung"}

TypeOK ==
  /\ driver \in Drivers
  /\ where \in [Calls -> Instances]
  /\ stored \subseteq Calls
  /\ data \in [Instances -> SUBSET Calls]
  /\ step \in [Calls -> Steps]
  /\ draft \in [Calls -> SUBSET Calls]
  /\ idle \in [Instances -> Seq(BOOLEAN)]
  /\ size \in [Instances -> 0 .. MaxPool]
  /\ breaks \in 0 .. MaxBreaks

\* Several instances never write one JSON file (RUNBOOK.md).
Init ==
  /\ driver \in Drivers
  /\ where \in [Calls -> Instances]
  /\ driver = "json" => \A c, d \in Calls : where[c] = where[d]
  /\ stored = {} /\ data = [i \in Instances |-> {}]
  /\ step = [c \in Calls |-> "idle"]
  /\ draft = [c \in Calls |-> {}]
  /\ idle = [i \in Instances |-> <<>>] /\ size = [i \in Instances |-> 0]
  /\ breaks = 0

Break(kind) ==
  /\ kind \in Events /\ breaks < MaxBreaks
  /\ breaks' = breaks + 1

At(c) == data[where[c]]

Moves(c, from, to) ==
  /\ step[c] = from
  /\ step' = [step EXCEPT ![c] = to]

Call(c) ==
  /\ Moves(c, "idle", "waiting")
  /\ UNCHANGED <<driver, where, stored, data, draft, pool, breaks>>

-----------------------------------------------------------------------------
(* The JSON file: mutate runs the calls one after another.                 *)

Writing == {c \in Calls : step[c] = "assigned"}

\* structuredClone, fn and this.data = draft
Run(c) ==
  /\ driver = "json" /\ Writing = {}
  /\ Moves(c, "waiting", "assigned")
  /\ draft' = [draft EXCEPT ![c] = At(c) \cup {c}]
  /\ data' = [data EXCEPT ![where[c]] = At(c) \cup {c}]
  /\ UNCHANGED <<driver, where, stored, pool, breaks>>

\* fn refuses the call.
RunThrows(c) ==
  /\ driver = "json" /\ Writing = {}
  /\ Moves(c, "waiting", "failed")
  /\ UNCHANGED <<driver, where, stored, data, draft, pool, breaks>>

\* The rename of persist
Persist(c) ==
  /\ driver = "json"
  /\ Moves(c, "assigned", "kept")
  /\ stored' = draft[c]
  /\ UNCHANGED <<driver, where, data, draft, pool, breaks>>

\* Faulty: the error of the write is swallowed.
PersistSwallowed(c) ==
  /\ driver = "json" /\ Break("persist")
  /\ Moves(c, "assigned", "ok")
  /\ UNCHANGED <<driver, where, stored, data, draft, pool>>

\* The disk is full, or the file is locked: this.data keeps the change.
PersistFails(c) ==
  /\ driver = "json" /\ Break("persist")
  /\ Moves(c, "assigned", "failed")
  /\ UNCHANGED <<driver, where, stored, data, draft, pool>>

-----------------------------------------------------------------------------
(* The row: PgPool.transaction.                                            *)

\* idle.pop(): a dead connection is taken like any other.
Acquire(c) ==
  LET i == where[c] IN
  /\ driver = "pg" /\ idle[i] # <<>>
  /\ Moves(c, "waiting", IF idle[i][Len(idle[i])] THEN "connected" ELSE "hung")
  /\ idle' = [idle EXCEPT ![i] = SubSeq(@, 1, Len(@) - 1)]
  /\ UNCHANGED <<driver, where, stored, data, draft, size, breaks>>

\* Otherwise acquire waits 25 ms and tries again.
MayConnect(i) == idle[i] = <<>> /\ size[i] < MaxPool

Connect(c) ==
  /\ driver = "pg" /\ MayConnect(where[c])
  /\ Moves(c, "waiting", "connected")
  /\ size' = [size EXCEPT ![where[c]] = @ + 1]
  /\ UNCHANGED <<driver, where, stored, data, draft, idle, breaks>>

\* The pool counts a connection that was never made.
ConnectFails(c) ==
  /\ driver = "pg" /\ MayConnect(where[c]) /\ Break("connect")
  /\ Moves(c, "waiting", "failed")
  /\ size' = [size EXCEPT ![where[c]] = @ + 1]
  /\ UNCHANGED <<driver, where, stored, data, draft, idle>>

Locking == {c \in Calls : step[c] \in {"locked", "assigned"}}

\* Faulty: the draft starts from the instance's own copy.
FromCache(c) == At(c) \cup {c}

FromRow(c) == stored \cup {c}

\* SELECT ... FOR UPDATE answers, and fn works on the row it returned.
Lock(c) ==
  /\ driver = "pg" /\ Locking = {}
  /\ Moves(c, "connected", "locked")
  /\ draft' = [draft EXCEPT ![c] = FromRow(c)]
  /\ UNCHANGED <<driver, where, stored, data, pool, breaks>>

\* The finally of transaction and of query
GivesBack(i, alive) ==
  /\ idle' = [idle EXCEPT ![i] = Append(@, alive)]
  /\ size' = size

\* Faulty: without the finally.
ThrowsKeeping(c) ==
  /\ driver = "pg"
  /\ Moves(c, "locked", "failed")
  /\ UNCHANGED <<driver, where, stored, data, draft, pool, breaks>>

\* fn refuses the call, and the transaction is rolled back.
Throws(c) ==
  /\ driver = "pg"
  /\ Moves(c, "locked", "failed")
  /\ GivesBack(where[c], TRUE)
  /\ UNCHANGED <<driver, where, stored, data, draft, breaks>>

\* Faulty: this.data is left as it was.
AssignNothing(c) ==
  /\ driver = "pg"
  /\ Moves(c, "locked", "assigned")
  /\ UNCHANGED <<driver, where, stored, data, draft, pool, breaks>>

\* UPDATE, then this.data = draft, before the commit
Assign(c) ==
  /\ driver = "pg"
  /\ Moves(c, "locked", "assigned")
  /\ data' = [data EXCEPT ![where[c]] = draft[c]]
  /\ UNCHANGED <<driver, where, stored, draft, pool, breaks>>

Commit(c) ==
  /\ driver = "pg"
  /\ Moves(c, "assigned", "kept")
  /\ stored' = draft[c]
  /\ UNCHANGED <<driver, where, data, draft, pool, breaks>>

-----------------------------------------------------------------------------

\* Faulty: the connection is given back twice.
AnswerTwice(c) ==
  /\ Moves(c, "kept", "ok")
  /\ idle' = IF driver = "pg" THEN [idle EXCEPT ![where[c]] = @ \o <<TRUE, TRUE>>]
                              ELSE idle
  /\ UNCHANGED <<driver, where, stored, data, draft, size, breaks>>

Answer(c) ==
  /\ Moves(c, "kept", "ok")
  /\ IF driver = "pg" THEN GivesBack(where[c], TRUE) ELSE UNCHANGED pool
  /\ UNCHANGED <<driver, where, stored, data, draft, breaks>>

\* Calls that hold a connection which answers
Served == {c \in Calls : step[c] \in {"connected", "locked", "assigned", "kept"}}

Dead(s) == [k \in DOMAIN s |-> FALSE]

\* The database restarts.  A transaction hangs in its ROLLBACK, or fails (in
\* failing) and gives its dead connection back.
Drop(failing) ==
  /\ driver = "pg" /\ Break("drop")
  /\ step' = [c \in Calls |-> IF c \in failing THEN "failed"
                              ELSE IF c \in Served THEN "hung" ELSE step[c]]
  /\ idle' = [i \in Instances |->
                LET back == Cardinality({c \in failing : where[c] = i})
                IN  Dead(idle[i]) \o [k \in 1 .. back |-> FALSE]]
  /\ UNCHANGED <<driver, where, stored, data, draft, size>>

Unanswered(i) ==
  {c \in Calls : where[c] = i /\ step[c] \notin {"idle", "ok", "failed", "lost"}}

\* The process ends and init reads the stored state.
Restart(i) ==
  /\ Break("restart")
  /\ driver = "json" => \A c \in Calls : where[c] = i
  /\ step' = [c \in Calls |-> IF c \in Unanswered(i) THEN "lost" ELSE step[c]]
  /\ data' = [data EXCEPT ![i] = stored]
  /\ idle' = [idle EXCEPT ![i] = <<>>] /\ size' = [size EXCEPT ![i] = 0]
  /\ UNCHANGED <<driver, where, stored, draft>>

Advances(c) ==
  \/ Run(c) \/ Persist(c)
  \/ Acquire(c) \/ Connect(c) \/ Lock(c) \/ Assign(c) \/ Commit(c)
  \/ Answer(c)

Next ==
  \/ \E c \in Calls : Call(c) \/ Advances(c)
  \/ \E c \in Calls : RunThrows(c) \/ PersistFails(c)
  \/ \E c \in Calls : ConnectFails(c) \/ Throws(c)
  \/ \E failing \in SUBSET Served : Drop(failing)
  \/ \E i \in Instances : Restart(i)

Spec == Init /\ [][Next]_vars

\* Every call takes its steps.
FairSpec == Spec /\ \A c \in Calls : WF_vars(Advances(c))

-----------------------------------------------------------------------------
(* Properties.                                                             *)

Reply(c) == IF step[c] \in {"ok", "failed", "lost"} THEN step[c] ELSE "none"

Abstract == INSTANCE Store WITH
  asked <- {c \in Calls : step[c] # "idle"},
  reply <- [c \in Calls |-> Reply(c)],
  kept  <- stored

\* Both drivers do what Store promises: an acknowledged change is stored, and
\* stays, through failed writes, dropped connections and restarts, and no call
\* takes back what another has stored ("the API can run multiple instances
\* without lost writes", PRODUCTION-TODO.md).
KeepsPromise == Abstract!Spec

\* A snapshot at the instance that answered a call has the call's change, in
\* spite of other instances, failed commits and restarts.
ReadYourWrites ==
  \A c \in Calls : step[c] = "ok" => c \in At(c)

Holders(i) ==
  {c \in Calls : where[c] = i /\ (c \in Served \/ step[c] = "hung")}

\* No connection is in two hands: those in the pool and those that calls hold
\* are no more than the pool counts.
PoolCounts ==
  driver = "pg" =>
    \A i \in Instances : Len(idle[i]) + Cardinality(Holders(i)) <= size[i]

\* RepliesMatch is about no state: TLC evaluates it once, where the run begins.
\* Every query of PgConnection (postgres.js) gets its own reply.
WireHolds == Init => RepliesMatch

\* Unless a connection was lost, every call is answered or its process ends.
CallsEnd ==
  \A c \in Calls :
    step[c] = "waiting" ~>
      \/ step[c] \in {"ok", "failed", "lost"}
      \/ driver = "pg" /\ breaks > 0

=============================================================================
