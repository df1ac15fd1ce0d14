------------------------------- MODULE Names -------------------------------
(***************************************************************************)
(* What the API keeps by its id.                                           *)
(***************************************************************************)
CONSTANTS
  Mods,  \* mod ids
  Packs

=============================================================================
