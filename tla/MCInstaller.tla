---------------------------- MODULE MCInstaller ----------------------------
(***************************************************************************)
(* Two roots, two ZIPs, two overlay lists, three releases: one mod; the    *)
(* same mod with other overlays next to a second one; and one mod that     *)
(* owns both roots.  Archives of up to two files, one of which may be an   *)
(* archive itself.                                                         *)
(***************************************************************************)
EXTENDS Installer, Archives, TLC, FiniteSets

CONSTANTS a, b, z1, z2, o1, o2

Of(z, o) == [sha |-> z, ov |-> o]

First  == (a :> Of(z1, o1)) @@ (b :> None)
Second == (a :> Of(z1, o2)) @@ (b :> Of(z2, o1))
Third  == (a :> Of(z2, o1)) @@ (b :> Of(z2, o1))

MCRoots == {a, b}
MCShas == {z1, z2}
MCOverlays == {o1, o2}
MCManifests == {First, Second, Third}

MCLowerCase == [p \in Parts |-> IF p = "Skins" THEN "skins" ELSE p]

MCPaths == {<<"m", "f">>, <<"m", "Skins", "f">>, <<"m", "skins", "f">>, <<"..", "f">>, <<"f">>}
MCText(t) == <<[kind |-> "bytes", of |-> t]>>
MCInner == Build([p \in {<<"f">>} |-> MCText("inner")], <<<<"f">>>>)
MCContents == {MCText("text"), <<>>, MCInner, <<End(0, 0, 0)>>}
MCFolders(paths, contents, size) ==
  UNION {[chosen -> contents] : chosen \in {c \in SUBSET paths : Cardinality(c) <= size}}

MCTrees == MCFolders(MCPaths, MCContents, 2)
MCModPaths == {<<"m", "Skins", "f">>, <<"m", "Skins", "look">>, <<"n", "skins", "f">>, <<"n", "look">>,
               <<"m", "config", "look">>, <<"n", "f", "look">>}
MCOverPaths == {<<"m", "Skins", "f">>, <<"m", "skins", "look">>, <<"n", "skins", "f">>, <<"n", "f", "look">>}
MCLayers == [mod : MCFolders(MCModPaths, {MCText("mod")}, 2),
             over : MCFolders(MCOverPaths, {MCText("one"), MCText("two")}, 2)]

\* What is said of the archives is about no state: TLC evaluates it once, where
\* the run begins.

\* RoundTrip, DamageIsNoticed, OverlayFillsSlot: zip.js gives back what was
\* packed, and of a damaged archive nothing else; a submitted archive replaces
\* what the mod has in the slot that catalog.js found.
ArchivesHold == Init => RoundTrip /\ DamageIsNoticed /\ OverlayFillsSlot

=============================================================================
