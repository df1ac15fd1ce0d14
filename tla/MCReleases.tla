----------------------------- MODULE MCReleases ----------------------------
(***************************************************************************)
(* A pack of a mod and its prerequisite, saved when the mod had none.  The *)
(* prerequisite may get a newer version that needs the mod (a circle, by   *)
(* way of a newer version of the mod that has no prerequisites), the mod   *)
(* may be registered again without prerequisites.                          *)
(***************************************************************************)
EXTENDS Releases, TLC

CONSTANTS core, lib, old, new, h1, h2, h3, h4, survival

MCGames == {<<3, 0>>, <<3, 2>>}
Offer(m, v, needs, games, range, sha) ==
  [mod |-> m, version |-> v, dependsOn |-> needs, games |-> games, range |-> range, sha |-> sha]
Lib1 == Offer(lib, old, <<>>, {<<3, 0>>}, "major", h1)
Lib2 == Offer(lib, new, <<core>>, {<<3, 2>>}, "exact", h2)
Core1 == Offer(core, old, <<lib>>, {}, "exact", h3)
Core1Alone == Offer(core, old, <<>>, {}, "exact", h3)
Core2 == Offer(core, new, <<>>, {}, "exact", h3)
MCOffers == {Lib1, Lib2, Core1, Core1Alone, Core2}

MCSlots == {[mod |-> core, id |-> "skins"]}
Skin == [slot |-> [mod |-> core, id |-> "skins"], sha |-> h4]
MCContents == {Skin}

Asks(m, v, contents) == [mod |-> m, version |-> v, contents |-> contents]
MCRequests == {[game |-> <<3, 2>>, entries |-> <<Asks(core, old, {Skin}), Asks(lib, old, {})>>]}

Same == Permutations(Instances) \cup Permutations(Operators)

MCFirst ==
  [EmptyRow EXCEPT
    !.versions = <<Lib1, Core1, Core2>>, !.slots = MCSlots, !.contents = MCContents,
    !.licensed = {h1, h2, h3, h4},
    !.packs = survival :> [game |-> <<3, 2>>, latest |-> 0,
                       entries |-> <<Asks(core, old, {Skin}), Asks(lib, old, {})>>]]

=============================================================================
