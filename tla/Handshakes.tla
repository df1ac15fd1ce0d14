---------------------------- MODULE Handshakes ----------------------------
(***************************************************************************)
(* The hellos a server has pending at the API (apps/api/src/handshakes.js):*)
(* a map from player id to record.  One hello is stored under every id the *)
(* client knows of its player, as one group; a claim takes the first       *)
(* record found under the ids the game server knows and consumes the whole *)
(* group.  Both run inside store.mutate, so each is one step.              *)
(***************************************************************************)
EXTENDS Naturals, Sequences

CONSTANTS
  Ids,        \* player ids: platform ids and display names, lower case
  Groups,     \* groupIds that id('hs') may return
  Releases,   \* what a hello says of the installed pack
  Syncing,    \* instead: the assigned pack is still being downloaded
  None        \* no record, no release, no policy

Record == [group : Groups, hello : Releases \cup {Syncing}]

Mailbox == [Ids -> Record \cup {None}]

Empty == [i \in Ids |-> None]

GroupsIn(box) == {box[i].group : i \in {j \in Ids : box[j] # None}}

\* A later hello replaces an earlier one, id by id.
Stored(box, ids, record) == [i \in Ids |-> IF i \in ids THEN record ELSE box[i]]

\* Faulty: only the id that was found is consumed.
WithoutFirst(box, g) ==
  LET hits == {i \in Ids : box[i] # None /\ box[i].group = g}
  IN  [i \in Ids |-> IF i \in hits /\ i = CHOOSE j \in hits : TRUE THEN None ELSE box[i]]

\* What a claim that found group g leaves, and what its expiry leaves.
Without(box, g) ==
  [i \in Ids |-> IF box[i] # None /\ box[i].group = g THEN None ELSE box[i]]

\* k is the place of the first id of the list that has a record.
FirstHit(box, list, k) ==
  box[list[k]] # None /\ \A j \in DOMAIN list : j < k => box[list[j]] = None

Found(box, list) ==
  IF \E k \in DOMAIN list : FirstHit(box, list, k)
    THEN box[list[CHOOSE k \in DOMAIN list : FirstHit(box, list, k)]]
    ELSE None

=============================================================================
