----------------------------- MODULE Diagnosis -----------------------------
(***************************************************************************)
(* Where a diagnostic is on its way from a guardian to the API             *)
(* (apps/updater/src/diagnostics-queue.js), and what is promised of it.    *)
(* How it gets there is in Guardian.                                       *)
(***************************************************************************)
CONSTANTS
  Guardians,
  Diagnostics,   \* those that are followed
  NoEvent

VARIABLES
  queue,     \* diagnostics-queue, in the order of the file names
  event,     \* that each guardian reports
  kind,      \* "poison": the API refuses it whenever it is sent
  arrived    \* those the API took, once or more

\* No diagnostic is lost between a refused or unanswered request, the queue
\* and the flushes of two guardians (diagnostics-queue.js): it has arrived, or
\* a file or a process still has it.
EventsKept ==
  \A e \in Diagnostics : kind[e] # "unused" =>
    \/ e \in arrived
    \/ \E i \in DOMAIN queue : queue[i] = e
    \/ \E g \in Guardians : event[g] = e

=============================================================================
