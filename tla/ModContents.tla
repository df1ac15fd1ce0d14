---------------------------- MODULE ModContents ----------------------------
(***************************************************************************)
(* What the API has of mods: the archive of the latest version, the slots  *)
(* for contents and what players submitted for them; and what is promised  *)
(* of it to those who edit mods.  How they do it is in ModEditing.         *)
(***************************************************************************)
CONSTANTS
  Mods,
  NoArchive,
  Meant        \* of each mod: the archives that are versions of it

VARIABLES
  artifact,   \* of each mod: what its latest version consists of
  slots, contents,
  unwanted,   \* history: what the last write was to remove
  overlooked, \* history: what it left out although its form listed the slot
  stale,      \* history: it was made from a list that was not the latest
  crossed     \* history: a write was for a mod that was not the listed one

Registered == {m \in Mods : artifact[m] # NoArchive}

\* A mod is never given the archive of another: unless an upload ended when
\* the form was already about another mod.
RightArchive ==
  crossed \/ \A m \in Registered : artifact[m] \in Meant[m]

\* What is submitted for a slot of its mod. What has no slot any more is shown
\* to nobody, and goes with the next list that is written.
Submitted == {k \in contents : k.slot \in slots[k.mod]}
Lost == Submitted \ Submitted'

\* What players submitted is lost only when it, or its slot, was to be removed.
\* It is lost otherwise in three ways. PUT slots and POST /mods replace the
\* whole list: with one that another administrator's change has made old, or
\* that was read from another mod, they leave out what nobody removed. And a
\* registration leaves out slots that its form lists, when the analysis of an
\* archive that was uploaded meanwhile suggests others (ModsView.vue:161, :64).
ContentsSurvive ==
  [][Lost \subseteq unwanted' \cup overlooked' \/ stale' \/ crossed']_<<contents, slots>>

=============================================================================
