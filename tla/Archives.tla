------------------------------ MODULE Archives ------------------------------
(***************************************************************************)
(* The ZIP archives of the platform: how they are built, listed and        *)
(* unpacked (apps/updater/src/zip.js), how the content slots of a mod are  *)
(* found in its archive (apps/api/src/catalog.js, analyze.js), and how a   *)
(* submitted archive is laid over the mod (apps/updater/src/overlay.js).   *)
(*                                                                         *)
(* A file is a sequence of cells: a header, a piece of content, a record   *)
(* of the directory or the end record.  Content may itself be an archive,  *)
(* so the records of the inner one are among the cells of the outer.       *)
(* Offsets and sizes are counted in cells.  Entries that only name a       *)
(* directory, compression and the configured limits are left out.          *)
(***************************************************************************)
EXTENDS Naturals, FiniteSets, Sequences, SequencesExt, Functions

CONSTANTS
  Parts,      \* what a path consists of
  LowerCase,  \* of each part
  Unsafe,     \* those that safeEntryName refuses: "..", a drive
  Hinted,     \* folders whose name makes them a slot
  Skipped,    \* folders that never are one
  Media,      \* files that make their folder a slot
  Trees,      \* folders to pack: from paths to contents
  Layers      \* of two such folders: a mod's, and what is laid over it

\* Paths to files; no file stands where another needs a folder.
IsFolder(tree) ==
  /\ IsFiniteSet(DOMAIN tree) /\ tree = [p \in DOMAIN tree |-> tree[p]]
  /\ \A p \in DOMAIN tree : p \in Seq(Parts) /\ tree[p] \in Seq(Range(tree[p]))
  /\ \A p, q \in DOMAIN tree : ~IsStrictPrefix(p, q)

ASSUME ArchivesAssumption ==
  /\ \A tree \in Trees : IsFolder(tree)
  /\ \A pair \in Layers : IsFolder(pair.mod) /\ IsFolder(pair.over)
  /\ LowerCase \in [Parts -> Parts] /\ \A p \in Parts : LowerCase[LowerCase[p]] = LowerCase[p]
  /\ Unsafe \cup Hinted \cup Skipped \cup Media \subseteq Parts

Unreadable == <<[kind |-> "unreadable"]>>

Lower(path) == [i \in DOMAIN path |-> LowerCase[path[i]]]

Header(path) == [kind |-> "local", name |-> path]
Record(path, content, at) ==
  [kind |-> "central", name |-> path, crc |-> content, size |-> Len(content), at |-> at]
End(count, size, at) == [kind |-> "end", count |-> count, size |-> size, at |-> at]

------------------------------------------------------------------------------
(* Building.                                                               *)

\* The files of a folder in the given order: buildStoredZip,
\* writeStoredZipFromDir
Build(tree, order) ==
  LET local[k \in 0..Len(order)] ==
        IF k = 0 THEN <<>> ELSE local[k - 1] \o <<Header(order[k])>> \o tree[order[k]]
      central == [k \in DOMAIN order |-> Record(order[k], tree[order[k]], Len(local[k - 1]))]
  IN local[Len(order)] \o central \o <<End(Len(order), Len(order), Len(local[Len(order)]))>>

\* Any order: that of the object's keys, or of the names.
Builds(tree) == {Build(tree, order) : order \in SetToSeqs(DOMAIN tree)}

------------------------------------------------------------------------------
(* Listing.                                                                *)

\* safeEntryName
SafeEntryName(path) == path # <<>> /\ Unsafe \cap Range(path) = {}

\* Faulty: the names are compared as they are written.
ExactRecords(records) ==
  /\ \A i \in DOMAIN records : records[i].kind = "central" /\ SafeEntryName(records[i].name)
  /\ \A i, j \in DOMAIN records : i # j => records[i].name # records[j].name

\* What each record of the directory is checked for.
GoodRecords(records) ==
  /\ \A i \in DOMAIN records : records[i].kind = "central" /\ SafeEntryName(records[i].name)
  /\ \A i, j \in DOMAIN records : i # j => Lower(records[i].name) # Lower(records[j].name)

\* The last end record, searched from behind.
EndsAt(cells) == {i \in DOMAIN cells : cells[i].kind = "end"}
EndOf(cells) == cells[CHOOSE i \in EndsAt(cells) : \A j \in EndsAt(cells) : j <= i]

\* The directory that the end record names, with its first count records.
Directory(cells, from, count) ==
  IF from + count <= Len(cells) /\ GoodRecords(SubSeq(cells, from + 1, from + count))
  THEN SubSeq(cells, from + 1, from + count)
  ELSE Unreadable

\* listZip reads the records in the whole buffer,
ListZip(cells) ==
  IF EndsAt(cells) = {} \/ EndOf(cells).at + EndOf(cells).size > Len(cells) THEN Unreadable
  ELSE Directory(cells, EndOf(cells).at, EndOf(cells).count)

\* listZipFile only in the part that the end record gives to the directory.
ListZipFile(cells) ==
  IF EndsAt(cells) = {} \/ EndOf(cells).at + EndOf(cells).size > Len(cells) THEN Unreadable
  ELSE Directory(SubSeq(cells, EndOf(cells).at + 1, EndOf(cells).at + EndOf(cells).size),
                 0, EndOf(cells).count)

------------------------------------------------------------------------------
(* Unpacking.                                                              *)

NoFiles == [path \in {} |-> <<>>]
With(tree, path, content) ==
  [p \in DOMAIN tree \cup {path} |-> IF p = path THEN content ELSE tree[p]]
Without(tree, folder) == Restrict(tree, {p \in DOMAIN tree : ~IsPrefix(folder, p)})

\* A file stands where a folder is needed, or a folder where the file goes.
Blocked(tree, path) ==
  \E p \in DOMAIN tree : IsStrictPrefix(p, path) \/ IsStrictPrefix(path, p)

\* The header and the content a record points to.
Intact(cells, r) ==
  /\ r.at < Len(cells) /\ cells[r.at + 1].kind = "local"
  /\ SubSeq(cells, r.at + 2, r.at + 1 + r.size) = r.crc

Names(records) == {records[i].name : i \in DOMAIN records}

\* The entries that the records list, below base, under the paths that places
\* gives to their names; the first that fails ends it.
Extract(cells, records, disk, base, places, overwrite) ==
  LET write(to, r) ==
        LET path == base \o places[r.name] IN
        IF ~to.ok \/ places[r.name] = <<>> THEN to
        ELSE IF \/ ~Intact(cells, r) \/ Blocked(to.tree, path)
                \/ path \in DOMAIN to.tree /\ ~overwrite
        THEN [to EXCEPT !.ok = FALSE]
        ELSE [to EXCEPT !.tree = With(@, path, SubSeq(cells, r.at + 2, r.at + 1 + r.size))]
      after[k \in 0..Len(records)] ==
        IF k = 0 THEN [ok |-> TRUE, tree |-> disk] ELSE write(after[k - 1], records[k])
  IN after[Len(records)]

Failed == [ok |-> FALSE, tree |-> NoFiles]

\* extractZip and extractZipFile into an empty folder
Unpack(cells, records) ==
  IF records = Unreadable THEN Failed
  ELSE Extract(cells, records, NoFiles, <<>>, [path \in Names(records) |-> path], FALSE)

------------------------------------------------------------------------------
(* Slots and overlays.                                                     *)

RootsOf(tree) == {p[1] : p \in DOMAIN tree}

\* suggestContentSlots, where analyzeZipBuffer has taken whatever a path begins
\* with for a root; normalizeContentSlots keeps one of those that differ by case.
SlotsOf(tree) ==
  LET dirs == {p[2] : p \in {q \in DOMAIN tree : Len(q) >= 2}}
      media(d) == \E p \in DOMAIN tree : Len(p) >= 2 /\ p[2] = d /\ p[Len(p)] \in Media
      found == {d \in dirs : LowerCase[d] \notin Skipped /\ (d \in Hinted \/ media(d))}
  IN {d \in found : d = CHOOSE e \in found : LowerCase[e] = LowerCase[d]}

DropFirst(path, heads) ==
  IF path # <<>> /\ LowerCase[path[1]] \in heads THEN Tail(path) ELSE path

\* Faulty: the name of the mod's folder stays.
RemapInRoot(path, slot, roots) == DropFirst(path, {LowerCase[slot]})

\* remapOverlayEntry
Remap(path, slot, roots) ==
  DropFirst(IF Len(path) > 1 THEN DropFirst(path, {LowerCase[r] : r \in roots}) ELSE path,
            {LowerCase[slot]})

\* The mod is unpacked; in each of its folders the slot is cleared, and what
\* was submitted goes there: syncPack, assembleServerModTree.
StagedTree(cells, slot, overlay, roots) ==
  LET records == ListZipFile(overlay)
      order == SetToSeq(roots)
      lay(to, root) ==
        IF ~to.ok THEN to
        ELSE Extract(overlay, records, Without(to.tree, <<root, slot>>), <<root, slot>>,
                     [path \in Names(records) |-> Remap(path, slot, roots)], TRUE)
      after[k \in 0..Len(order)] ==
        IF k = 0 THEN Unpack(cells, ListZipFile(cells)) ELSE lay(after[k - 1], order[k])
  IN after[Len(order)]

------------------------------------------------------------------------------
(* Properties.                                                             *)

Packable(tree) ==
  /\ \A p \in DOMAIN tree : SafeEntryName(p)
  /\ \A p, q \in DOMAIN tree : p # q => Lower(p) # Lower(q)

\* Cut short, with a cell replaced or missing, or with a wrong number at its end.
Damaged(cells) ==
  LET n == Len(cells)
      other == [kind |-> "bytes", of |-> "noise"]
      ends(d) == SubSeq(cells, 1, n - 1) \o <<d>>
  IN {SubSeq(cells, 1, k) : k \in 0..n} \cup {[cells EXCEPT ![i] = other] : i \in 1..n}
       \cup {SubSeq(cells, 1, i - 1) \o SubSeq(cells, i + 1, n) : i \in 1..n}
       \cup {ends([cells[n] EXCEPT ![f] = k]) : f \in {"count", "size", "at"}, k \in 0..n}

\* What was packed comes out as it was, in whatever order it was written and
\* whether or not a file is an archive itself; a folder is refused exactly when
\* a name is unsafe or two differ by case only.
RoundTrip ==
  \A tree \in Trees : \A cells \in Builds(tree) :
    LET result == Unpack(cells, ListZipFile(cells)) IN
    IF Packable(tree) THEN result.ok /\ result.tree = tree ELSE ~result.ok

\* Nothing comes out of a damaged archive that was not packed under that name,
\* even when it ends in the middle of another archive; and what a player's
\* updater can open, the API has seen in the same way when it was uploaded: the
\* two readers were written twice.
DamageIsNoticed ==
  \A tree \in Trees : \A cells \in Builds(tree) : \A bad \in Damaged(cells) :
    LET listed == ListZipFile(bad)
        found == Unpack(bad, listed).tree
    IN /\ listed \in {Unreadable, ListZip(bad)}
       /\ \A p \in DOMAIN found : p \in DOMAIN tree /\ found[p] = tree[p]

\* What the mod keeps when a slot is replaced, and where the overlay goes.
KeptFiles(mod, slot) == {p \in DOMAIN mod : ~IsPrefix(<<p[1], slot>>, p)}
LaidFiles(over, slot, roots) == {<<r, slot, p[3]>> : r \in roots, p \in DOMAIN over}

\* An archive laid out like the mod replaces what each folder of the mod has in
\* the slot, and nothing else: what the API took for a slot of the mod, the
\* updater and the server bundle find again.
OverlayFillsSlot ==
  \A pair \in Layers : \A slot \in SlotsOf(pair.mod) :
    LET roots == RootsOf(pair.mod)
        in(p) == Len(p) = 3 /\ p[1] \in roots /\ LowerCase[p[2]] = LowerCase[slot]
        kept == KeptFiles(pair.mod, slot)
        laid == LaidFiles(pair.over, slot, roots)
    IN (Packable(pair.mod) /\ Packable(pair.over) /\ \A p \in DOMAIN pair.over : in(p)) =>
         \A mod \in Builds(pair.mod), over \in Builds(pair.over) :
           LET staged == StagedTree(mod, slot, over, roots) IN
           /\ staged.ok /\ DOMAIN staged.tree = kept \cup laid
           /\ \A p \in kept : staged.tree[p] = pair.mod[p]
           /\ \A p \in laid : \E q \in DOMAIN pair.over :
                q[3] = p[3] /\ staged.tree[p] = pair.over[q]

=============================================================================
