---------------------------- MODULE MCJoinGate ----------------------------
(***************************************************************************)
(* One player, known by a platform id and a display name.                  *)
(***************************************************************************)
EXTENDS JoinGate, TLC

CONSTANTS ann, annId, sam

MCPlayers == {ann}
MCIds == {annId, sam}
MCClientIds == ann :> {annId, sam}
MCServerIds == ann :> <<annId, sam>>

=============================================================================
