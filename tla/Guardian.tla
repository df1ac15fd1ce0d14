------------------------------ MODULE Guardian ------------------------------
(***************************************************************************)
(* The crash guardian of a game server (apps/agent/src/guardian.js): it    *)
(* synchronizes the mods behind a circuit breaker (server-sync.js), starts *)
(* the game, and reports how that went through a queue on disk             *)
(* (apps/updater/src/diagnostics-queue.js) to the API's diagnostics.       *)
(*                                                                         *)
(* Guardians of one mods folder share the breaker file and the queue.      *)
(* Where diagnostics are, and what is promised of them, is in Diagnosis.   *)
(* What a sync installs is in Installer; here it succeeds or fails.        *)
(***************************************************************************)
EXTENDS Naturals, SequencesExt, Diagnosis

CONSTANTS
  StartsAnyway,  \* those with allowStartOnSyncFailure
  MaxFailures,   \* maxRestartFailures
  CoolDown,      \* ticks that keep the breaker open: 30 minutes
  FlushLimit,
  MaxPoison, MaxOutages, MaxTrouble

ASSUME GuardianAssumption ==
  /\ StartsAnyway \subseteq Guardians
  /\ NoEvent \notin Diagnostics
  /\ {MaxFailures, CoolDown, FlushLimit} \subseteq Nat \ {0}
  /\ {MaxPoison, MaxOutages, MaxTrouble} \subseteq Nat

VARIABLES
  up,        \* the platform answers
  outages,
  \* the folder
  breaker,   \* restart-breaker.json: failures, and how long ago the last one was
  \* the processes
  at,        \* of each guardian: the step it is at
  failures,  \* that it read from the breaker file
  names,     \* that it flushes
  ends,      \* after the report the process ends, otherwise it starts the game
  trouble

platform == <<up, outages>>
diagnostics == <<kind, arrived>>
process == <<at, failures, event, names, ends>>
vars == <<platform, breaker, queue, process, trouble, diagnostics>>

Steps == {"off", "sync", "start", "running", "post", "enqueue", "list", "flush", "remove"}

TypeOK ==
  /\ up \in BOOLEAN /\ outages \in 0..MaxOutages /\ trouble \in 0..MaxTrouble
  /\ breaker \in [failures : 0..MaxFailures, age : 0..CoolDown]
  /\ queue \in Seq(Diagnostics)
  /\ at \in [Guardians -> Steps] /\ failures \in [Guardians -> 0..MaxFailures]
  /\ event \in [Guardians -> Diagnostics \cup {NoEvent}]
  /\ names \in [Guardians -> Seq(Diagnostics)] /\ ends \in [Guardians -> BOOLEAN]
  /\ kind \in [Diagnostics -> {"unused", "plain", "poison"}] /\ arrived \subseteq Diagnostics

Init ==
  /\ up = TRUE /\ outages = 0 /\ trouble = 0
  /\ breaker = [failures |-> 0, age |-> CoolDown]
  /\ queue = <<>>
  /\ at = [g \in Guardians |-> "off"] /\ failures = [g \in Guardians |-> 0]
  /\ event = [g \in Guardians |-> NoEvent] /\ names = [g \in Guardians |-> <<>>]
  /\ ends = [g \in Guardians |-> TRUE]
  /\ kind = [e \in Diagnostics |-> "unused"] /\ arrived = {}

Trouble == trouble < MaxTrouble /\ trouble' = trouble + 1

Goes(g, step) == at' = [at EXCEPT ![g] = step]

------------------------------------------------------------------------------
(* Reports.                                                                *)

InHand(e) == \E g \in Guardians : event[g] = e \/ e \in ToSet(names[g])

\* A diagnostic that has arrived and is nowhere any more makes room for another.
Free(e) ==
  \/ kind[e] = "unused"
  \/ e \in arrived /\ e \notin ToSet(queue) /\ ~InHand(e)

\* report: NoEvent is one of those that are not followed.
Reports(g, last) ==
  /\ Goes(g, "post") /\ ends' = [ends EXCEPT ![g] = last]
  /\ \/ /\ \A e \in Diagnostics : ~Free(e)
        /\ event' = [event EXCEPT ![g] = NoEvent] /\ UNCHANGED diagnostics
     \/ \E e \in Diagnostics, k \in {"plain", "poison"} :
          /\ Free(e)
          /\ k = "poison" => Cardinality({d \in Diagnostics : kind[d] = "poison"}) < MaxPoison
          /\ event' = [event EXCEPT ![g] = e]
          /\ kind' = [kind EXCEPT ![e] = k]
          /\ arrived' = arrived \ {e}

\* reportDiagnostic has returned: the process ends or starts the game.
Reported(g) ==
  /\ Goes(g, IF ends[g] THEN "off" ELSE "start")
  /\ event' = [event EXCEPT ![g] = NoEvent] /\ names' = [names EXCEPT ![g] = <<>>]
  /\ ends' = [ends EXCEPT ![g] = TRUE]
  /\ UNCHANGED failures

\* POST /diagnostics: ingestDiagnostic, in one mutation of the store.
Accepts(e) == up /\ (e # NoEvent => kind[e] # "poison")
Ingest(e) == arrived' = arrived \cup ({e} \ {NoEvent})

Post(g) ==
  /\ at[g] = "post"
  /\ \/ Accepts(event[g]) /\ Ingest(event[g]) /\ Goes(g, "list")
     \/ ~Accepts(event[g]) /\ UNCHANGED arrived /\ Goes(g, "enqueue")
  /\ UNCHANGED <<platform, breaker, queue, failures, event, names, ends, trouble, kind>>

\* The answer is lost, after fifteen seconds or with the connection.
PostUnanswered(g) ==
  /\ at[g] = "post" /\ Trouble
  /\ Accepts(event[g]) /\ Ingest(event[g]) /\ Goes(g, "enqueue")
  /\ UNCHANGED <<platform, breaker, queue, failures, event, names, ends, kind>>

Enqueue(g) ==
  /\ at[g] = "enqueue"
  /\ queue' = IF event[g] = NoEvent THEN queue ELSE Append(queue, event[g])
  /\ Reported(g)
  /\ UNCHANGED <<platform, breaker, trouble, diagnostics>>

------------------------------------------------------------------------------
(* flushDiagnostics.                                                       *)

FirstOf(n, s) == SubSeq(s, 1, IF n < Len(s) THEN n ELSE Len(s))

\* Faulty: off by one, the oldest file is passed over.
ListNext(g) ==
  /\ at[g] = "list"
  /\ names' = [names EXCEPT ![g] = FirstOf(FlushLimit, IF queue = <<>> THEN queue ELSE Tail(queue))]
  /\ Goes(g, "flush")
  /\ UNCHANGED <<platform, breaker, queue, failures, event, ends, trouble, diagnostics>>

ListQueue(g) ==
  /\ at[g] = "list"
  /\ names' = [names EXCEPT ![g] = FirstOf(FlushLimit, queue)]
  /\ Goes(g, "flush")
  /\ UNCHANGED <<platform, breaker, queue, failures, event, ends, trouble, diagnostics>>

\* Faulty: a refused diagnostic is removed too.
FlushRefused(g) ==
  /\ at[g] = "flush"
  /\ \/ /\ names[g] # <<>> /\ up
        /\ IF kind[Head(names[g])] = "poison" THEN UNCHANGED arrived ELSE Ingest(Head(names[g]))
        /\ Goes(g, "remove") /\ UNCHANGED <<failures, event, names, ends>>
     \/ (names[g] = <<>> \/ ~up) /\ Reported(g) /\ UNCHANGED arrived
  /\ UNCHANGED <<platform, breaker, queue, trouble, kind>>

\* It ends at a file that another guardian removed, and at a refusal.
FlushPost(g) ==
  LET e == Head(names[g])
      sends == names[g] # <<>> /\ e \in ToSet(queue) /\ Accepts(e) IN
  /\ at[g] = "flush"
  /\ \/ sends /\ Ingest(e) /\ Goes(g, "remove") /\ UNCHANGED <<failures, event, names, ends>>
     \/ ~sends /\ Reported(g) /\ UNCHANGED arrived
  /\ UNCHANGED <<platform, breaker, queue, trouble, kind>>

FlushUnanswered(g) ==
  /\ at[g] = "flush" /\ Trouble
  /\ names[g] # <<>> /\ Head(names[g]) \in ToSet(queue) /\ Accepts(Head(names[g]))
  /\ Ingest(Head(names[g])) /\ Reported(g)
  /\ UNCHANGED <<platform, breaker, queue, kind>>

\* The file of a diagnostic is removed, if it is still there.
Without(s, e) ==
  IF e \in ToSet(s) THEN RemoveAt(s, CHOOSE i \in DOMAIN s : s[i] = e) ELSE s

FlushRemove(g) ==
  /\ at[g] = "remove"
  /\ queue' = Without(queue, Head(names[g]))
  /\ names' = [names EXCEPT ![g] = Tail(@)]
  /\ Goes(g, "flush")
  /\ UNCHANGED <<platform, breaker, failures, event, ends, trouble, diagnostics>>

------------------------------------------------------------------------------
(* The sync, and the game.                                                 *)

IsOpen == breaker.failures >= MaxFailures /\ breaker.age < CoolDown

Least(m, n) == IF m < n THEN m ELSE n
Failed(count) == [failures |-> Least(count + 1, MaxFailures), age |-> 0]

\* What the guardian does when the sync throws.
SyncThrows(g) == Reports(g, g \notin StartsAnyway) /\ UNCHANGED names

\* Faulty: an open breaker counts as a failure of the sync.
OpenAgain(g) ==
  /\ at[g] = "off" /\ IsOpen
  /\ SyncThrows(g) /\ breaker' = Failed(breaker.failures)
  /\ UNCHANGED <<platform, queue, failures, trouble>>

\* The breaker is open: nothing is tried and nothing is written.
StartOpen(g) ==
  /\ at[g] = "off" /\ IsOpen
  /\ SyncThrows(g)
  /\ UNCHANGED <<platform, breaker, queue, failures, trouble>>

StartSync(g) ==
  /\ at[g] = "off" /\ ~IsOpen
  /\ failures' = [failures EXCEPT ![g] = breaker.failures]
  /\ Goes(g, "sync")
  /\ UNCHANGED <<platform, breaker, queue, event, names, ends, trouble, diagnostics>>

SyncSucceeds(g) ==
  /\ at[g] = "sync" /\ up
  /\ breaker' = [breaker EXCEPT !.failures = 0]
  /\ failures' = [failures EXCEPT ![g] = 0]
  /\ Goes(g, "start")
  /\ UNCHANGED <<platform, queue, event, names, ends, trouble, diagnostics>>

\* The failures are those that were read before the sync.
SyncFails(g) ==
  /\ at[g] = "sync"
  /\ \/ ~up /\ UNCHANGED trouble
     \/ up /\ Trouble
  /\ breaker' = Failed(failures[g])
  /\ failures' = [failures EXCEPT ![g] = 0]
  /\ SyncThrows(g)
  /\ UNCHANGED <<platform, queue>>

Launch(g) ==
  /\ at[g] = "start" /\ Goes(g, "running")
  /\ UNCHANGED <<platform, breaker, queue, failures, event, names, ends, trouble, diagnostics>>

\* spawn reports an error and no exit: the process ends with the report.
LaunchFails(g) ==
  /\ at[g] = "start" /\ Trouble
  /\ Reports(g, TRUE)
  /\ UNCHANGED <<platform, breaker, queue, failures, names>>

GameExits(g) ==
  /\ at[g] = "running"
  /\ Reports(g, TRUE)
  /\ UNCHANGED <<platform, breaker, queue, failures, names, trouble>>

------------------------------------------------------------------------------
(* The environment.                                                        *)

Outage ==
  /\ up /\ outages < MaxOutages
  /\ up' = FALSE /\ outages' = outages + 1
  /\ UNCHANGED <<breaker, queue, process, trouble, diagnostics>>

Recovery ==
  /\ ~up /\ up' = TRUE
  /\ UNCHANGED <<outages, breaker, queue, process, trouble, diagnostics>>

Tick ==
  /\ breaker.age < CoolDown
  /\ breaker' = [breaker EXCEPT !.age = @ + 1]
  /\ UNCHANGED <<platform, queue, process, trouble, diagnostics>>

\* The guardian is killed: a diagnostic it had not queued is lost.
Killed(g) ==
  /\ at[g] # "off" /\ Trouble
  /\ Goes(g, "off")
  /\ event' = [event EXCEPT ![g] = NoEvent] /\ names' = [names EXCEPT ![g] = <<>>]
  /\ failures' = [failures EXCEPT ![g] = 0] /\ ends' = [ends EXCEPT ![g] = TRUE]
  /\ kind' = [e \in Diagnostics |-> IF e = event[g] /\ e \notin arrived THEN "unused" ELSE kind[e]]
  /\ UNCHANGED <<platform, breaker, queue, arrived>>

\* A guardian that is off is started again, by whoever runs it.
Start(g) == StartOpen(g) \/ StartSync(g)

Reporting(g) == Post(g) \/ Enqueue(g) \/ ListQueue(g) \/ FlushPost(g) \/ FlushRemove(g)

GuardianStep(g) == Start(g) \/ SyncSucceeds(g) \/ SyncFails(g) \/ Launch(g) \/ Reporting(g)

Next ==
  \/ Outage \/ Recovery \/ Tick
  \/ \E g \in Guardians :
       \/ GuardianStep(g) \/ GameExits(g)
       \/ LaunchFails(g) \/ PostUnanswered(g) \/ FlushUnanswered(g) \/ Killed(g)

\* Time passes, an outage ends, and a guardian goes on; games need not exit.
Spec ==
  /\ Init /\ [][Next]_vars
  /\ WF_vars(Tick) /\ WF_vars(Recovery)
  /\ \A g \in Guardians : WF_vars(GuardianStep(g))

------------------------------------------------------------------------------
(* Properties.                                                             *)

\* The breaker (server-sync.js) keeps no server down: once the platform is
\* back, whatever was counted, a guardian that is started starts the game.
ServerRuns == \A g \in Guardians : at[g] = "off" ~> at[g] = "running"

\* As long as reports arrive, what was queued arrives in the end, unless a
\* diagnostic that is refused whenever it is sent keeps the queue waiting.
QueueDrains ==
  []<>(\E g \in Guardians : at[g] = "list") =>
    \A e \in Diagnostics :
      e \in ToSet(queue) ~> (e \notin ToSet(queue) \/ \E d \in ToSet(queue) : kind[d] = "poison")

=============================================================================
