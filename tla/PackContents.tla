--------------------------- MODULE PackContents ---------------------------
(***************************************************************************)
(* What is in the packs of the API, and what is promised of it to those    *)
(* who write packs.  How they do it is in PackEditing.                     *)
(*                                                                         *)
(* An entry of a pack is a number: 0 when the mod is not in it, otherwise  *)
(* the version of the mod.                                                 *)
(***************************************************************************)
EXTENDS Names

CONSTANTS
  Theme,         \* of each pack: the mods people mean to put into it
  Plugins,       \* of the platform
  Built          \* those the script found and packed

VARIABLES
  stored,     \* the entries of each pack
  save,       \* what the editor sends
  crossed,    \* history: the editor saved what was not settled
  stale       \* history: what was written last was put together from an older
              \* revision of the pack

In(e) == {m \in Mods : e[m] # 0}

\* A pack never gets the entries of another (PacksView.vue): unless the editor
\* saved after loads that overlapped or failed, each pack has only what
\* somebody meant to put into it.
IntendedContents == ~crossed => \A p \in Packs : In(stored[p]) \subseteq Theme[p]

\* An entry does not get lost: it leaves a pack only when the editor removed
\* it or the script did not find the plugin it is, unless what was written was put
\* together from an older revision of the pack or from what was not settled.  A mod
\* that the editor removed and added again counts as removed until its details are
\* in the list that is saved (PacksView.vue pushes them onto the list it had when
\* it asked for them, and that one may have been replaced).
EntriesSurvive ==
  [][\A p \in Packs :
       In(stored[p]) \ In(stored'[p]) \subseteq save.removed \cup (Plugins \ Built) \/ stale' \/ crossed']_stored

=============================================================================
