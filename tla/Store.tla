------------------------------- MODULE Store -------------------------------
(***************************************************************************)
(* What store.mutate promises its callers (apps/api), whichever driver     *)
(* holds the platform state and however many instances of the API run.     *)
(*                                                                         *)
(* A call stands for the change it makes, so the state is the set of calls *)
(* it has.  A change that was acknowledged is kept for good.  A call that  *)
(* failed promises nothing: its change may be kept, and even later.        *)
(***************************************************************************)
CONSTANTS Calls

VARIABLES
  asked,    \* calls that were made
  reply,    \* [Calls -> Replies]
  kept      \* calls whose change is in the stored state

vars == <<asked, reply, kept>>

\* lost: the process that made the call is gone.
Replies == {"none", "ok", "failed", "lost"}

Init ==
  /\ asked = {} /\ kept = {}
  /\ reply = [c \in Calls |-> "none"]

Ask(c) ==
  /\ asked' = asked \cup {c}
  /\ UNCHANGED <<reply, kept>>

Keep(cs) ==
  /\ \A c \in cs : c \in asked /\ reply[c] \in {"none", "failed"}
  /\ kept' = kept \cup cs
  /\ UNCHANGED <<asked, reply>>

Acknowledge(c) ==
  /\ reply[c] = "none" /\ c \in kept
  /\ reply' = [reply EXCEPT ![c] = "ok"]
  /\ UNCHANGED <<asked, kept>>

\* Some calls fail, or lose their process, in one step.
Break(failed, lost) ==
  /\ \A c \in failed \cup lost : reply[c] = "none"
  /\ reply' = [c \in Calls |-> IF c \in failed THEN "failed"
                               ELSE IF c \in lost THEN "lost" ELSE reply[c]]
  /\ UNCHANGED <<asked, kept>>

Next ==
  \/ \E c \in Calls : Ask(c) \/ Acknowledge(c)
  \/ \E cs \in SUBSET Calls : Keep(cs)
  \/ \E failed, lost \in SUBSET Calls : Break(failed, lost)

Spec == Init /\ [][Next]_vars

=============================================================================
