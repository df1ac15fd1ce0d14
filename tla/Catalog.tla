------------------------------ MODULE Catalog ------------------------------
(***************************************************************************)
(* The catalogue of mods as pure operators (apps/api/src/catalog.js,       *)
(* game-version.js and protocol.js): which version of a mod fits a game,   *)
(* the prerequisites of a pack, the contents of its entries and what may   *)
(* be redistributed.                                                       *)
(*                                                                         *)
(* A catalogue c is a record with at least these fields:                   *)
(*   versions  the registered mod versions, oldest first                   *)
(*   slots     the content slots of mods                                   *)
(*   contents  what was submitted for a slot                               *)
(*   licensed  hashes whose review is approved, with a confirmed licence   *)
(*   banned    banned hashes                                               *)
(***************************************************************************)
EXTENDS Naturals, Sequences, FiniteSets, SequencesExt, Names

CONSTANTS
  Games,      \* game versions, <<major, minor>>
  Offers,     \* mod versions that may be registered
  Slots,      \* content slots: [mod, id]
  Contents,   \* contents that may be submitted: [slot, sha]
  None

ASSUME CatalogAssumption ==
  /\ IsFiniteSet(Mods) /\ None \notin Mods /\ None \notin Seq(Offers)
  /\ \A o \in Offers : /\ o.mod \in Mods /\ o.games \subseteq Games /\ o.dependsOn \in Seq(Mods)
                        /\ None # o /\ None # o.version

Manifests == Seq(Offers)

------------------------------------------------------------------------------

\* gameVersionMatches: declared exactly, or from a version of the same major
\* on when the mod declares a range.
GameVersionMatches(o, g) ==
  \/ o.games = {}
  \/ g \in o.games
  \/ o.range = "major" /\ \E d \in o.games : d[1] = g[1] /\ d[2] <= g[2]

Versions(c) == {c.versions[k] : k \in DOMAIN c.versions}

KnownMods(c) == {o.mod : o \in Versions(c)}

\* mod.versions[version], None when there is none.
Registered(c, m, v) ==
  LET same == {o \in Versions(c) : o.mod = m /\ o.version = v} IN
  IF same = {} THEN None ELSE CHOOSE o \in same : TRUE

\* pickCompatibleVersion: the newest that fits.
PickCompatibleVersion(c, m, g) ==
  LET fits == {k \in DOMAIN c.versions : c.versions[k].mod = m /\ GameVersionMatches(c.versions[k], g)} IN
  IF fits = {} THEN None ELSE c.versions[Max(fits)]

\* artifactApproved, and contentApproved of a content's hash.
Approved(c, sha) == sha \notin c.banned /\ sha \in c.licensed

------------------------------------------------------------------------------
(* expandPackEntries.                                                      *)

ModsOf(manifest) == {manifest[k].mod : k \in DOMAIN manifest}

\* A call of ensure: the mods being visited, the mod, the version asked for
\* and what is ordered so far, None once it is refused.
Calls == [visiting : SUBSET Mods, mod : Mods, version : {o.version : o \in Offers} \cup {None},
          ordered : Manifests \cup {None}]

\* What is asked of the prerequisites of a version: any version.
Required(version) == [k \in DOMAIN version.dependsOn |-> [mod |-> version.dependsOn[k], version |-> None]]

\* The loop that calls ensure for one after the other.
EnsureAll(ensure, visiting, asked, ordered) ==
  LET after[k \in 0..Len(asked)] ==
        IF k = 0 THEN ordered
        ELSE ensure[[visiting |-> visiting, mod |-> asked[k].mod, version |-> asked[k].version,
                     ordered |-> after[k - 1]]]
  IN after[Len(asked)]

\* The version of a call: the one asked for, or the newest that fits.
VersionFor(c, call, g) ==
  LET asked == Registered(c, call.mod, call.version) IN
  IF asked # None THEN asked ELSE PickCompatibleVersion(c, call.mod, g)

\* Faulty: a mod may be visited again inside its own call.
EnsureRevisiting(c, g) ==
  LET ensure[call \in Calls] ==
        LET version == VersionFor(c, call, g)
            before == EnsureAll(ensure, call.visiting \cup {call.mod}, Required(version), call.ordered)
        IN  IF call.ordered = None THEN None
            ELSE IF call.mod \in ModsOf(call.ordered) THEN call.ordered
            ELSE IF version = None THEN None
            ELSE IF before = None THEN None ELSE Append(before, version)
  IN ensure

\* ensure: prerequisites first, each mod once; a circle is refused.
Ensure(c, g) ==
  LET ensure[call \in Calls] ==
        LET version == VersionFor(c, call, g)
            before == EnsureAll(ensure, call.visiting \cup {call.mod}, Required(version), call.ordered)
        IN  IF call.ordered = None THEN None
            ELSE IF call.mod \in ModsOf(call.ordered) THEN call.ordered
            ELSE IF call.mod \in call.visiting \/ version = None THEN None
            ELSE IF before = None THEN None ELSE Append(before, version)
  IN ensure

ExpandPackEntries(c, entries, g) == EnsureAll(Ensure(c, g), {}, entries, <<>>)

\* The contents that the last of the entries of a mod asks for.
ContentsAsked(entries, m) ==
  LET asking == SelectSeq(entries, LAMBDA e : e.mod = m /\ e.contents # {}) IN
  IF asking = <<>> THEN {} ELSE Last(asking).contents

\* normalizeEntryContents throws nothing.
ContentsFit(c, m, asked) ==
  \A k \in asked : /\ k \in c.contents /\ k.slot.mod = m /\ k.slot \in c.slots
                   /\ Approved(c, k.sha)

\* overlaysForPackEntry: what cannot be found is left out.
Overlays(c, asked) == {k \in asked : k.slot \in c.slots /\ k \in c.contents}

\* purgeContentRefs, on the entries of one pack.
WithoutContents(entries, gone) ==
  [k \in DOMAIN entries |-> [entries[k] EXCEPT !.contents = @ \ gone]]

------------------------------------------------------------------------------
(* What a list of prerequisites has to be.                                 *)

\* Every mod once, prerequisites before the mods that need them, and each
\* mod that was asked for.
Closed(entries, manifest) ==
  /\ \A j, k \in DOMAIN manifest : manifest[j].mod = manifest[k].mod => j = k
  /\ \A k \in DOMAIN manifest, d \in Mods :
       d \in {manifest[k].dependsOn[n] : n \in DOMAIN manifest[k].dependsOn}
         => \E j \in 1..(k - 1) : manifest[j].mod = d
  /\ \A k \in DOMAIN entries : entries[k].mod \in ModsOf(manifest)

=============================================================================
