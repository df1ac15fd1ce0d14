----------------------------- MODULE MCDelivery ----------------------------
(***************************************************************************)
(* One pack, one launcher channel, one server of the pack.                 *)
(***************************************************************************)
EXTENDS Delivery, TLC

CONSTANTS pack, win32, server

MCFirstServers == server :> pack

=============================================================================
