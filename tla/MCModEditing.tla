----------------------------- MODULE MCModEditing -----------------------------
(***************************************************************************)
(* One mod with a slot and one that is not registered yet, each with an    *)
(* archive of its own.                                                     *)
(***************************************************************************)
EXTENDS ModEditing

MCMeant == [m \in Mods |-> IF m = NewMod THEN {"y"} ELSE {"x"}]

=============================================================================
