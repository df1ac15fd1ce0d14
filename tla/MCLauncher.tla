----------------------------- MODULE MCLauncher -----------------------------
(***************************************************************************)
(* A player who joins while someone updates the launcher of the same       *)
(* folder, and a third release whose archive says it is the second.        *)
(***************************************************************************)
EXTENDS Launcher

MCCommand == [l \in Launchers |-> IF l = "join" THEN "join" ELSE "update"]
MCInside == [v \in Versions |-> IF v = 3 THEN 2 ELSE v]

=============================================================================
