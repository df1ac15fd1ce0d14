----------------------------- MODULE MCGuardian -----------------------------
(***************************************************************************)
(* Two guardians of one folder, one of which starts the game without a     *)
(* sync when it must.                                                      *)
(***************************************************************************)
EXTENDS Guardian

=============================================================================
