---------------------------- MODULE MCServerPack ----------------------------
(***************************************************************************)
(* Two releases of a server pack over three folders: an update of a mod    *)
(* with a DLL, a DLL only the first has, a plain mod only the second has.  *)
(***************************************************************************)
EXTENDS ServerPack, TLC

CONSTANTS a, b, c, v1, v2, dll1, dll2, dll3, xml

MCPack ==
  v1 :> (a :> dll1 @@ b :> dll3 @@ c :> None)
    @@ v2 :> (a :> dll2 @@ b :> None @@ c :> xml)

=============================================================================
