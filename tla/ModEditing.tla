----------------------------- MODULE ModEditing -----------------------------
(***************************************************************************)
(* The page of the web console where mods, their content slots and what is *)
(* submitted for them are looked after (apps/web/src/views/ModsView.vue,   *)
(* lib/content-upload.ts, components/ContentFileList.vue), the routes it   *)
(* calls, and a second administrator who changes the same mods.            *)
(*                                                                         *)
(* The page reads a mod, lets a form and a list of slots be changed, and   *)
(* writes both back whole; its answers come when the administrator may     *)
(* already look at another mod.  What the API has of mods, and what is     *)
(* promised of it, is in ModContents.                                      *)
(***************************************************************************)
EXTENDS Naturals, FiniteSets, ModContents

CONSTANTS
  NoMod,
  NewMod,      \* the one that is not registered at first
  Slots, NoSlot,
  Old,         \* the slot that the others have at first
  Archives,
  Files,       \* what may be submitted for a slot
  MaxEdits,    \* clicks of the two administrators
  MaxTrouble   \* requests that fail

ASSUME ModEditingAssumption ==
  /\ NewMod \in Mods /\ NoMod \notin Mods
  /\ Old \in Slots /\ NoSlot \notin Slots /\ NoArchive \notin Archives
  /\ Meant \in [Mods -> SUBSET Archives] /\ \A m \in Mods : Meant[m] # {}
  /\ {MaxEdits, MaxTrouble} \subseteq Nat

VARIABLES
  \* the API
  revision,   \* of each mod: how often its slots were written
  \* the page
  route, creating,
  shown,      \* the mod whose slots are listed
  list, base, \* its slots as they were read, and in which revision
  loads,      \* the mods that were asked for
  form,
  upload,     \* the archive under way, and the mod it was chosen for
  asking,     \* the slot whose removal is to be confirmed, and its mod
  answer,     \* what a change of slots returned, for which mod
  batch,
  \* bounds and history
  edits, trouble,
  mixed       \* the archive of the form was chosen for another mod

api == <<artifact, slots, contents, revision>>
page == <<route, creating, shown, list, base, loads, form, upload, asking, answer, batch>>
history == <<unwanted, overlooked, stale, crossed, mixed>>
vars == <<api, page, edits, trouble, history>>

Content == [mod : Mods, slot : Slots, file : Files]
\* The slots that are ticked, of those that are suggested, and those that the
\* administrator unticked.
Form == [id : Mods \cup {NoMod}, archive : Archives \cup {NoArchive},
         slots : SUBSET Slots, suggested : SUBSET Slots, unticked : SUBSET Slots, base : Nat]
Blank == [id |-> NoMod, archive |-> NoArchive, slots |-> {}, suggested |-> {}, unticked |-> {}, base |-> 0]
NoUpload == [archive |-> NoArchive, mod |-> NoMod]
NotAsking == [slot |-> NoSlot, mod |-> NoMod]
NoAnswer == [mod |-> NoMod, slots |-> {}, revision |-> 0]
NoBatch == [mod |-> NoMod, slot |-> NoSlot, todo |-> {}, created |-> FALSE]

TypeOK ==
  /\ artifact \in [Mods -> Archives \cup {NoArchive}]
  /\ slots \in [Mods -> SUBSET Slots] /\ contents \subseteq Content /\ revision \in [Mods -> Nat]
  /\ {route, shown} \subseteq Mods \cup {NoMod} /\ creating \in BOOLEAN
  /\ list \subseteq Slots /\ base \in Nat /\ loads \subseteq Mods /\ form \in Form
  /\ upload \in [archive : Archives \cup {NoArchive}, mod : Mods \cup {NoMod}]
  /\ asking \in [slot : Slots \cup {NoSlot}, mod : Mods \cup {NoMod}]
  /\ answer \in [mod : Mods \cup {NoMod}, slots : SUBSET Slots, revision : Nat]
  /\ batch \in [mod : Mods \cup {NoMod}, slot : Slots \cup {NoSlot}, todo : SUBSET Files, created : BOOLEAN]
  /\ edits \in 0..MaxEdits /\ trouble \in 0..MaxTrouble
  /\ unwanted \subseteq Content /\ overlooked \subseteq Content /\ {stale, crossed, mixed} \subseteq BOOLEAN

\* Each mod but one has a version and a slot.
Init ==
  /\ artifact = [m \in Mods |-> IF m = NewMod THEN NoArchive ELSE CHOOSE a \in Meant[m] : TRUE]
  /\ slots = [m \in Mods |-> IF m = NewMod THEN {} ELSE {Old}]
  /\ contents = {} /\ revision = [m \in Mods |-> IF m = NewMod THEN 0 ELSE 1]
  /\ route = NoMod /\ creating = FALSE /\ shown = NoMod /\ list = {} /\ base = 0
  /\ loads = {} /\ form = Blank /\ upload = NoUpload /\ asking = NotAsking
  /\ answer = NoAnswer /\ batch = NoBatch
  /\ edits = 0 /\ trouble = 0
  /\ unwanted = {} /\ overlooked = {} /\ stale = FALSE /\ crossed = FALSE /\ mixed = FALSE

Edit == edits < MaxEdits /\ edits' = edits + 1
Trouble == trouble < MaxTrouble /\ trouble' = trouble + 1

------------------------------------------------------------------------------
(* The API.                                                                *)

In(m, s) == {k \in contents : k.mod = m /\ k.slot = s}

All(m, some) == [mod : {m}, slot : some, file : Files]

\* PUT slots: the contents of slots that are no longer there are deleted.
Puts(m, new, from) ==
  /\ slots' = [slots EXCEPT ![m] = new]
  /\ contents' = {k \in contents : k.mod = m => k.slot \in new}
  /\ revision' = [revision EXCEPT ![m] = @ + 1]
  /\ stale' = (from # revision[m]) /\ unwanted' = {} /\ overlooked' = {}
  /\ UNCHANGED artifact

\* DELETE of a slot
Deletes(m, s) ==
  /\ slots' = [slots EXCEPT ![m] = @ \ {s}]
  /\ contents' = contents \ In(m, s)
  /\ revision' = [revision EXCEPT ![m] = @ + 1]
  /\ stale' = FALSE /\ overlooked' = {}
  /\ UNCHANGED artifact

\* POST /mods: the slots are replaced, and what they had stays.
Registers(m, a, new, from) ==
  /\ artifact' = [artifact EXCEPT ![m] = a]
  /\ slots' = [slots EXCEPT ![m] = new]
  /\ revision' = [revision EXCEPT ![m] = @ + 1]
  /\ stale' = (from # revision[m])
  /\ UNCHANGED contents

\* POST contents: refused unless the slot is there.
Accepts(m, s) == m \in Registered /\ s \in slots[m]

------------------------------------------------------------------------------
(* Which mod is looked at.                                                 *)

\* currentId
Current == IF creating THEN NoMod ELSE route

Filled(m, a) == [id |-> m, archive |-> a, slots |-> slots[m], suggested |-> slots[m],
                 unticked |-> {}, base |-> revision[m]]

\* Faulty: the archive stays from the mod before.
FillsRest(m) == form' = Filled(m, IF form.archive = NoArchive THEN artifact[m] ELSE form.archive)

\* fillForm
Fills(m) == form' = Filled(m, artifact[m])

Select(m) ==
  /\ Edit /\ m \in Registered
  /\ route' = m /\ creating' = FALSE
  /\ loads' = loads \cup {m}
  /\ UNCHANGED <<api, shown, list, base, form, upload, asking, answer, batch, trouble, history>>

\* The page is left and comes back without a mod: what the form has stays.
Leave ==
  /\ Edit /\ route # NoMod
  /\ route' = NoMod /\ shown' = NoMod /\ list' = {} /\ base' = 0
  /\ UNCHANGED <<api, creating, loads, form, upload, asking, answer, batch, trouble, history>>

StartCreate ==
  /\ Edit
  /\ creating' = TRUE /\ route' = NoMod /\ shown' = NoMod /\ list' = {} /\ base' = 0
  /\ form' = Blank /\ mixed' = FALSE
  /\ UNCHANGED <<api, loads, upload, asking, answer, batch, trouble, unwanted, overlooked, stale, crossed>>

\* The answers of loadDetail: they replace what is shown, whatever the address.
LoadArrives(m) ==
  /\ m \in loads /\ m \in Registered
  /\ loads' = loads \ {m}
  /\ shown' = m /\ list' = slots[m] /\ base' = revision[m]
  /\ Fills(m) /\ mixed' = FALSE
  /\ UNCHANGED <<api, route, creating, upload, asking, answer, batch, edits, trouble,
                 unwanted, overlooked, stale, crossed>>

LoadFails(m) ==
  /\ m \in loads /\ Trouble
  /\ loads' = loads \ {m}
  /\ UNCHANGED <<api, route, creating, shown, list, base, form, upload, asking, answer, batch,
                 edits, history>>

\* loadDetail(currentId): nothing comes back without an id.
Reloads == loads' = loads \cup ({Current} \ {NoMod})

------------------------------------------------------------------------------
(* The form: a version of a mod is uploaded and registered.                *)

\* The id is written into the empty form.
Type ==
  /\ form.id = NoMod
  /\ form' = [form EXCEPT !.id = NewMod]
  /\ UNCHANGED <<api, route, creating, shown, list, base, loads, upload, asking, answer, batch,
                 edits, trouble, history>>

\* The boxes of the suggested slots; another one can be added to them.
Tick(s) ==
  /\ Edit /\ creating /\ s \notin form.slots
  /\ form' = [form EXCEPT !.slots = @ \cup {s}, !.suggested = @ \cup {s}, !.unticked = @ \ {s}]
  /\ UNCHANGED <<api, route, creating, shown, list, base, loads, upload, asking, answer, batch,
                 trouble, history>>

Untick(s) ==
  /\ Edit /\ creating /\ s \in form.slots \cap form.suggested
  /\ form' = [form EXCEPT !.slots = @ \ {s}, !.unticked = @ \cup {s}]
  /\ UNCHANGED <<api, route, creating, shown, list, base, loads, upload, asking, answer, batch,
                 trouble, history>>

\* An archive of the mod in the form, or of the new one, is chosen and uploaded.
Upload(a) ==
  LET m == IF form.id = NoMod THEN NewMod ELSE form.id IN
  /\ Edit /\ upload = NoUpload
  /\ a \in Meant[m]
  /\ upload' = [archive |-> a, mod |-> m]
  /\ UNCHANGED <<api, route, creating, shown, list, base, loads, form, asking, answer, batch,
                 trouble, history>>

\* Its hash goes into the form as it is by then, and so does its name when the
\* form has none. The slots that the analysis found replace the suggested ones.
UploadEnds ==
  /\ upload # NoUpload
  /\ \E found \in SUBSET Slots, id \in IF form.id = NoMod THEN {NoMod, upload.mod} ELSE {form.id} :
       /\ form' = [form EXCEPT !.id = id, !.archive = upload.archive,
                               !.slots = IF @ = {} THEN found ELSE @,
                               !.suggested = IF found = {} THEN @ ELSE found]
       /\ mixed' = (upload.mod # IF id = NoMod THEN NewMod ELSE id)
  /\ upload' = NoUpload
  /\ UNCHANGED <<api, route, creating, shown, list, base, loads, asking, answer, batch,
                 edits, trouble, unwanted, overlooked, stale, crossed>>

UploadFails ==
  /\ upload # NoUpload /\ Trouble
  /\ upload' = NoUpload
  /\ UNCHANGED <<api, route, creating, shown, list, base, loads, form, asking, answer, batch,
                 edits, history>>

\* selectedSlots: what is ticked, as far as it is suggested.
Selected == form.slots \cap form.suggested

\* They are written with the version, and the mod is selected.
RegisterMod ==
  /\ Edit /\ form.id # NoMod /\ form.archive # NoArchive
  /\ Registers(form.id, form.archive, Selected, form.base)
  /\ unwanted' = All(form.id, form.unticked)
  /\ overlooked' = All(form.id, form.slots \ form.suggested)
  /\ crossed' = (crossed \/ mixed)
  /\ creating' = FALSE /\ route' = form.id
  /\ loads' = loads \cup {form.id}
  /\ UNCHANGED <<shown, list, base, form, upload, asking, answer, batch, trouble, mixed>>

------------------------------------------------------------------------------
(* The slots.                                                              *)

\* Faulty: only the new slot is sent.
JustThe(s) == {s}

\* slots.value.concat
With(s) == list \cup {s}

Listed == ~creating /\ shown # NoMod

\* addSlot and saveSlots, up to the answer.
AddSlot(s) ==
  /\ Edit /\ Listed /\ answer = NoAnswer /\ s \notin list
  /\ Current \in Registered
  /\ Puts(Current, With(s), base)
  /\ crossed' = (crossed \/ Current # shown)
  /\ answer' = [mod |-> Current, slots |-> With(s), revision |-> revision[Current] + 1]
  /\ UNCHANGED <<route, creating, shown, list, base, loads, form, upload, asking, batch,
                 trouble, mixed>>

\* The list of the mod that is shown by then becomes the one that was sent.
AddAnswered ==
  /\ answer # NoAnswer
  /\ IF shown = NoMod THEN UNCHANGED <<list, base>> ELSE list' = answer.slots /\ base' = answer.revision
  /\ crossed' = (crossed \/ shown \notin {answer.mod, NoMod})
  /\ answer' = NoAnswer
  /\ Reloads
  /\ UNCHANGED <<api, route, creating, shown, form, upload, asking, batch, edits, trouble,
                 unwanted, overlooked, stale, mixed>>

\* removeSlot asks first.
RemoveSlot(s) ==
  /\ Edit /\ Listed /\ asking = NotAsking /\ s \in list
  /\ asking' = [slot |-> s, mod |-> shown]
  /\ UNCHANGED <<api, route, creating, shown, list, base, loads, form, upload, answer, batch,
                 trouble, history>>

\* The slot goes from the mod that is current by then, and what is left
\* becomes the list of the mod that is shown.
RemoveConfirmed ==
  LET s == asking.slot IN
  /\ asking # NotAsking
  /\ asking' = NotAsking
  /\ IF Current \in Registered
     THEN /\ Deletes(Current, s)
          /\ unwanted' = All(asking.mod, {s})
          /\ crossed' = (crossed \/ {Current, shown} # {asking.mod})
          /\ IF shown = NoMod THEN UNCHANGED <<list, base>>
                              ELSE list' = slots'[Current] /\ base' = revision'[Current]
          /\ Reloads
     ELSE UNCHANGED <<api, unwanted, overlooked, crossed, stale, list, base, loads>>
  /\ UNCHANGED <<route, creating, shown, form, upload, answer, batch, edits, trouble, mixed>>

RemoveRefused ==
  /\ asking # NotAsking
  /\ asking' = NotAsking
  /\ UNCHANGED <<api, route, creating, shown, list, base, loads, form, upload, answer, batch,
                 edits, trouble, history>>

------------------------------------------------------------------------------
(* What is submitted for the slots.                                        *)

\* submitContents
Submit(s, files) ==
  /\ Edit /\ Listed /\ batch = NoBatch /\ s \in list
  /\ Current # NoMod /\ files # {}
  /\ batch' = [mod |-> Current, slot |-> s, todo |-> files, created |-> FALSE]
  /\ UNCHANGED <<api, route, creating, shown, list, base, loads, form, upload, asking, answer,
                 trouble, history>>

\* uploadContentZips: a file that fails is noted, and the next one follows.
FileRefused(f) ==
  /\ f \in batch.todo
  /\ \/ ~Accepts(batch.mod, batch.slot) /\ UNCHANGED trouble
     \/ Trouble
  /\ batch' = [batch EXCEPT !.todo = @ \ {f}]
  /\ UNCHANGED <<api, route, creating, shown, list, base, loads, form, upload, asking, answer,
                 edits, history>>

FileCreated(f) ==
  LET k == [mod |-> batch.mod, slot |-> batch.slot, file |-> f] IN
  /\ f \in batch.todo /\ Accepts(batch.mod, batch.slot)
  /\ contents' = contents \cup {k}
  /\ batch' = [batch EXCEPT !.todo = @ \ {f}, !.created = TRUE]
  /\ UNCHANGED <<artifact, slots, revision, route, creating, shown, list, base, loads, form, upload,
                 asking, answer, edits, trouble, history>>

BatchEnds ==
  /\ batch # NoBatch /\ batch.todo = {}
  /\ batch' = NoBatch
  /\ IF batch.created THEN Reloads ELSE UNCHANGED loads
  /\ UNCHANGED <<api, route, creating, shown, list, base, form, upload, asking, answer,
                 edits, trouble, history>>

\* removeItem of the list of contents
DeleteContent(k) ==
  /\ Edit /\ Listed /\ k \in contents /\ k.mod = shown /\ k.slot \in list
  /\ contents' = contents \ {k}
  /\ unwanted' = {k}
  /\ Reloads
  /\ UNCHANGED <<artifact, slots, revision, route, creating, shown, list, base, form, upload,
                 asking, answer, batch, trouble, overlooked, stale, crossed, mixed>>

\* The other administrator adds a slot to a mod, with the page up to date.
OtherAdds(m, s) ==
  /\ Edit /\ m \in Registered /\ s \notin slots[m]
  /\ Puts(m, slots[m] \cup {s}, revision[m])
  /\ UNCHANGED <<page, trouble, crossed, mixed>>

------------------------------------------------------------------------------

Next ==
  \/ \E m \in Mods : Select(m) \/ LoadArrives(m) \/ LoadFails(m)
  \/ Leave \/ StartCreate \/ Type
  \/ \E a \in Archives : Upload(a)
  \/ UploadEnds \/ UploadFails \/ RegisterMod
  \/ \E s \in Slots : Tick(s) \/ Untick(s) \/ AddSlot(s) \/ RemoveSlot(s)
  \/ AddAnswered \/ RemoveConfirmed \/ RemoveRefused
  \/ \E s \in Slots, files \in SUBSET Files : Submit(s, files)
  \/ \E f \in Files : FileRefused(f) \/ FileCreated(f)
  \/ BatchEnds
  \/ \E k \in contents : DeleteContent(k)
  \/ \E m \in Mods, s \in Slots : OtherAdds(m, s)

Spec == Init /\ [][Next]_vars

=============================================================================
