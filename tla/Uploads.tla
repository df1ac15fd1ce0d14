------------------------------ MODULE Uploads ------------------------------
(***************************************************************************)
(* Artifact uploads (apps/api/src/artifact-upload.js and the artifact      *)
(* routes of app.js), the clients that upload (apps/web/src/api/client.ts  *)
(* and deploy/publish-platform.js), reviews and bans, the registration of  *)
(* an artifact as a mod version or a content, and the garbage collection   *)
(* of admin/gc (p1-routes.js).                                             *)
(*                                                                         *)
(* A request is several steps, one for each await that lets another        *)
(* request in.  Files are their names and whether they hold what the name  *)
(* says; bytes, sizes and times are not modelled.                          *)
(***************************************************************************)
EXTENDS Naturals, FiniteSets

CONSTANTS
  Shas,        \* artifact hashes
  Archive,     \* what the ZIP of a hash holds: a set of file kinds
  Clients,     \* browsers and deployment scripts that upload
  Browsers,    \* those that remember their session in localStorage
  Sessions,    \* upload session ids
  Chunks,      \* indexes of the chunks of an artifact
  None,
  Events,      \* the mishaps that may happen
  MaxMishaps,  \* how many of them
  MaxGc        \* how often the operator collects garbage

Kinds == {"plain", "dll", "risky", "duplicate", "unreadable"}

ASSUME UploadsAssumption ==
  /\ None \notin Shas \cup Sessions \cup Chunks
  /\ None \notin {"pending", "approved", "licensed"}
  /\ Archive \in [Shas -> SUBSET Kinds]
  /\ Browsers \subseteq Clients /\ Chunks \subseteq Nat
  /\ MaxMishaps \in Nat /\ MaxGc \in Nat

VARIABLES
  session,   \* uploads/<id>/: the hash of meta.json (None: none that can be read), whether it
             \* expired, the chunks
  object,    \* objects/<hash>: "absent", "whole" or "empty"
  review,    \* reviews: "licensed" is approved with a confirmed licence, "pending" any
             \* status that is not approved
  banned,    \* bannedHashes
  used,      \* hashes of mod versions and contents
  client,    \* each client and the request it waits for
  checking,  \* registrations between their checks and their mutate
  gc,        \* the collection under way
  parts,     \* the clients whose temporary file the collection has listed
  raced,     \* history: hashes that a collection removed, or may still remove, though reviewed
  tainted,   \* history: hashes a chunk with other bytes was sent for
  mishaps, collections

state == <<review, banned, used>>
vars == <<session, object, state, client, checking, gc, parts, raced, tainted, mishaps,
          collections>>

Files == {"absent", "whole", "empty"}
Chunk == {"none", "good", "bad"}
Session == [sha : Shas \cup {None}, expired : BOOLEAN, chunk : [Chunks -> Chunk]]
NoSession == [sha |-> None, expired |-> FALSE, chunk |-> [i \in Chunks |-> "none"]]
Verdicts == {"pending", "approved", "licensed"}
Serving == {"read", "touched", "assemble", "place", "analyse", "commit"}
Client == [pc : {"idle", "open", "chunks", "done", "failed"} \cup Serving,
           sha : Shas \cup {None}, sid : Sessions \cup {None}, saved : Sessions \cup {None},
           received : SUBSET Chunks, index : Chunks \cup {None}, wrong : BOOLEAN]
Gc == [pc : {"idle", "snapshot", "removing"}, known : SUBSET Shas, todo : SUBSET Shas]

TypeOK ==
  /\ session \in [Sessions -> Session]
  /\ object \in [Shas -> Files]
  /\ review \in [Shas -> Verdicts \cup {None}]
  /\ banned \in SUBSET Shas /\ used \in SUBSET Shas /\ checking \in SUBSET Shas
  /\ client \in [Clients -> Client]
  /\ gc \in Gc
  /\ parts \in SUBSET Clients
  /\ raced \in SUBSET Shas /\ tainted \in SUBSET Shas
  /\ mishaps \in 0..MaxMishaps /\ collections \in 0..MaxGc

Init ==
  /\ session = [s \in Sessions |-> NoSession]
  /\ object = [h \in Shas |-> "absent"]
  /\ review = [h \in Shas |-> None]
  /\ banned = {} /\ used = {} /\ checking = {}
  /\ client = [c \in Clients |-> [pc |-> "idle", sha |-> None, sid |-> None, saved |-> None,
                                  received |-> {}, index |-> None, wrong |-> FALSE]]
  /\ gc = [pc |-> "idle", known |-> {}, todo |-> {}]
  /\ parts = {} /\ raced = {} /\ tainted = {}
  /\ mishaps = 0 /\ collections = 0

Mishap(e) == e \in Events /\ mishaps < MaxMishaps /\ mishaps' = mishaps + 1

------------------------------------------------------------------------------
(* Upload sessions on the disk.                                            *)

\* requireSession: the session is there, has not expired and is of this hash.
Live(s, h) == s # None /\ session[s].sha = h /\ ~session[s].expired

\* The store after requireSession, which removes a session it finds expired.
Required(s) ==
  IF s # None /\ session[s].sha # None /\ session[s].expired
  THEN [session EXCEPT ![s] = NoSession]
  ELSE session

\* touch: meta.json is written anew from what was read, even when the session
\* was removed in between.  What writeFile leaves half-way is BeingTouched.
Touched(s, h) == [session EXCEPT ![s].sha = h, ![s].expired = FALSE]

\* A touch of this session is under way: its meta.json may be read half-written.
BeingTouched(s) ==
  s # None /\ \E c \in Clients : client[c].pc \in {"read", "assemble"} /\ client[c].sid = s

\* Faulty: the chunks that are expected, whether their file is there or not.
ReceivedExpected(s) == Chunks

\* listReceived: the chunks whose file has the expected length.
Received(s) == {i \in Chunks : session[s].chunk[i] # "none"}

\* findReusable: a session of the same hash, size and chunk size.
Reusable(h) == {s \in Sessions : Live(s, h)}

Expired == {s \in Sessions : session[s].sha # None /\ session[s].expired}

\* An id that was never given out, or that nobody holds any more.
FreshId(s) ==
  /\ session[s] = NoSession
  /\ \A c \in Clients : client[c].sid # s /\ client[c].saved # s

------------------------------------------------------------------------------
(* Analysis of an artifact.                                                *)

Unreadable(h) == object[h] # "whole" \/ "unreadable" \in Archive[h]

ContainsDll(h) == Archive[h] \cap {"dll", "risky", "duplicate"} # {}

HighRisk(h) == Archive[h] \cap {"risky", "duplicate"} # {}

NewReview(h) == IF HighRisk(h) \/ ContainsDll(h) THEN "pending" ELSE "approved"

\* Faulty: reviews do not count as references.
ReferencedByUse == used

\* referencedHashes: what mod versions, contents and reviews name.
Referenced == used \cup {h \in Shas : review[h] # None}

------------------------------------------------------------------------------
(* The clients and the requests they send.                                 *)

\* What is left of an upload that ended: its file and the remembered session.
Ended(c, pc, saved) ==
  client' = [client EXCEPT ![c] = [@ EXCEPT !.pc = pc, !.saved = saved, !.sid = None,
                                            !.received = {}, !.index = None, !.wrong = FALSE]]

Failed(c) == Ended(c, "failed", client[c].saved)

\* The complete request was refused and the browser forgets its session.
Forgotten(c) == Ended(c, "failed", None)

\* The user picks a file, or uploads the same one again.
Upload(c, h, wrong) ==
  /\ client[c].pc \in {"idle", "failed"} /\ client[c].sha \in {None, h}
  /\ client' = [client EXCEPT ![c].pc = "open", ![c].sha = h, ![c].wrong = wrong]
  /\ IF wrong THEN Mishap("edited") ELSE UNCHANGED mishaps
  /\ UNCHANGED <<session, object, state, checking, gc, parts, raced, tainted,
                 collections>>

\* loadSession asks for the remembered session (GET uploads/<id>, which
\* touches it) and forgets it when it is gone.
LoadSession(c) ==
  LET s == client[c].saved  h == client[c].sha IN
  /\ client[c].pc = "open" /\ s # None
  /\ IF Live(s, h)
     THEN /\ session' = Touched(s, h)
          /\ client' = [client EXCEPT ![c].pc = "chunks", ![c].sid = s, ![c].received = Received(s)]
     ELSE /\ session' = Required(s)
          /\ client' = [client EXCEPT ![c].saved = None]
  /\ UNCHANGED <<object, state, checking, gc, parts, raced, tainted, mishaps,
                 collections>>

\* POST uploads: a reusable session is touched, else a new one is written;
\* expired ones met on the way are removed, half-written ones not seen.
CreateSession(c) ==
  LET h == client[c].sha IN
  /\ client[c].pc = "open" /\ client[c].saved = None /\ h \notin banned
  /\ \E s \in Sessions, gone \in SUBSET Expired, torn \in BOOLEAN :
       /\ \/ s \in Reusable(h) /\ ~torn
          \/ /\ IF torn THEN Reusable(h) # {} /\ \A t \in Reusable(h) : BeingTouched(t)
                      ELSE Reusable(h) = {}
             /\ gone = Expired /\ FreshId(s) /\ s = CHOOSE t \in Sessions : FreshId(t)
       /\ IF torn THEN Mishap("torn") ELSE UNCHANGED mishaps
       /\ session' = [t \in Sessions |-> IF t \in gone THEN NoSession
                                         ELSE IF t = s THEN Touched(s, h)[s]
                                         ELSE session[t]]
       /\ client' = [client EXCEPT ![c].pc = "chunks", ![c].sid = s,
                                   ![c].saved = IF c \in Browsers THEN s ELSE None,
                                   ![c].received = Received(s)]
  /\ UNCHANGED <<object, state, checking, gc, parts, raced, tainted,
                 collections>>

\* HASH_BANNED: neither a session nor an assembly nor a whole file.
BannedRefused(c) ==
  /\ \/ client[c].pc = "open" /\ client[c].saved = None
     \/ client[c].pc = "chunks" /\ client[c].received = Chunks
  /\ client[c].sha \in banned
  /\ Failed(c)
  /\ UNCHANGED <<session, object, state, checking, gc, parts, raced, tainted,
                 mishaps, collections>>

\* PUT of a chunk, up to the read of meta.json.  The browser has several workers,
\* the script goes from the first to the last.
ChunkStart(c, i) ==
  LET s == client[c].sid IN
  /\ client[c].pc = "chunks" /\ i \in Chunks \ client[c].received
  /\ c \in Browsers \/ \A j \in Chunks \ client[c].received : i <= j
  /\ IF Live(s, client[c].sha)
     THEN client' = [client EXCEPT ![c].pc = "read", ![c].index = i]
     ELSE Failed(c)
  /\ session' = Required(s)
  /\ UNCHANGED <<object, state, checking, gc, parts, raced, tainted, mishaps,
                 collections>>

ChunkTouch(c) ==
  /\ client[c].pc = "read"
  /\ session' = Touched(client[c].sid, client[c].sha)
  /\ client' = [client EXCEPT ![c].pc = "touched"]
  /\ UNCHANGED <<object, state, checking, gc, parts, raced, tainted, mishaps,
                 collections>>

\* The body is discarded when the chunk is there, else received and renamed
\* into the folder, which is made when it is gone.  The answer may be lost:
\* the client sends the chunk again.
ChunkEnd(c, lost) ==
  LET s == client[c].sid  i == client[c].index
      skipped == session[s].chunk[i] # "none" IN
  /\ client[c].pc = "touched"
  /\ session' = IF skipped THEN session
                ELSE [session EXCEPT ![s].chunk[i] = IF client[c].wrong THEN "bad" ELSE "good"]
  /\ tainted' = IF ~skipped /\ client[c].wrong THEN tainted \cup {client[c].sha} ELSE tainted
  /\ client' = [client EXCEPT ![c].pc = "chunks", ![c].index = None,
                              ![c].received = IF lost THEN @ ELSE @ \cup {i}]
  /\ IF lost THEN Mishap("lost") ELSE UNCHANGED mishaps
  /\ UNCHANGED <<object, state, checking, gc, parts, raced, collections>>

\* POST complete, up to the read of meta.json.
CompleteStart(c) ==
  LET s == client[c].sid IN
  /\ client[c].pc = "chunks" /\ client[c].received = Chunks
  /\ client[c].sha \notin banned
  /\ IF Live(s, client[c].sha)
     THEN client' = [client EXCEPT ![c].pc = "assemble", ![c].received = {}]
     ELSE Forgotten(c)
  /\ session' = Required(s)
  /\ UNCHANGED <<object, state, checking, gc, parts, raced, tainted, mishaps,
                 collections>>

\* meta.json is read while another request touches it, and found half-written:
\* to this request the session is not there.
TornRead(c) ==
  /\ Mishap("torn")
  /\ \/ /\ client[c].pc = "open" /\ BeingTouched(client[c].saved)
        /\ client' = [client EXCEPT ![c].saved = None]
     \/ /\ client[c].pc = "chunks" /\ client[c].received # Chunks /\ BeingTouched(client[c].sid)
        /\ Failed(c)
     \/ /\ client[c].pc = "chunks" /\ client[c].received = Chunks /\ BeingTouched(client[c].sid)
        /\ client[c].sha \notin banned
        /\ Forgotten(c)
  /\ UNCHANGED <<session, object, state, checking, gc, parts, raced, tainted,
                 collections>>

\* A collection runs that has read the references before this one was there.
Overlooked(h) == gc.pc # "idle" /\ h \notin gc.known

\* A whole file is renamed over the object, and what happened to the one before
\* does not matter any more, unless a collection may still remove it.
Placed(h) ==
  /\ object' = [object EXCEPT ![h] = "whole"]
  /\ raced' = IF Overlooked(h) THEN raced ELSE raced \ {h}

\* The chunks of the session hash to the name the object will have.
Accepts(s) == \A i \in Chunks : session[s].chunk[i] = "good"

\* The chunks in order, hashed while they are copied to a temporary file,
\* which is renamed over the object when the hash is the expected one; then
\* the session is removed.
Assemble(c) ==
  LET s == client[c].sid  h == client[c].sha
      missing == \E i \in Chunks : session[s].chunk[i] = "none" IN
  /\ client[c].pc = "assemble"
  /\ parts' = parts \ {c}
  /\ \/ /\ missing
        /\ session' = Touched(s, h) /\ Failed(c) /\ UNCHANGED <<object, raced>>
     \/ /\ ~missing /\ ~Accepts(s)
        /\ session' = Touched(s, h) /\ Forgotten(c) /\ UNCHANGED <<object, raced>>
     \/ /\ Accepts(s)
        /\ session' = [session EXCEPT ![s] = NoSession]
        /\ Placed(h)
        /\ client' = [client EXCEPT ![c].pc = "place", ![c].sid = None]
  /\ UNCHANGED <<state, checking, gc, tainted, mishaps, collections>>

\* PUT artifacts/<hash>: a small file in one request (receiveArtifact), which
\* ends without an object when its temporary file was collected.
PutWhole(c) ==
  /\ client[c].pc = "open" /\ client[c].saved = None /\ client[c].sha \notin banned
  /\ \/ /\ client[c].wrong \/ gc.pc = "removing"
        /\ Failed(c) /\ UNCHANGED <<object, raced>>
     \/ /\ ~client[c].wrong
        /\ Placed(client[c].sha) /\ client' = [client EXCEPT ![c].pc = "place"]
  /\ UNCHANGED <<session, state, checking, gc, parts, tainted, mishaps, collections>>

\* objects.put copies the object onto itself with flag wx: EEXIST when it is
\* there.  When it was collected a moment ago, the copy opens an empty file,
\* before or after it fails to read.
Place(c) ==
  LET h == client[c].sha IN
  /\ client[c].pc = "place"
  /\ \/ /\ object[h] # "absent"
        /\ client' = [client EXCEPT ![c].pc = "analyse"]
        /\ UNCHANGED object
     \/ /\ object[h] = "absent"
        /\ object' = [object EXCEPT ![h] = "empty"]
        /\ \/ Forgotten(c)
           \/ client' = [client EXCEPT ![c].pc = "analyse"]
  /\ UNCHANGED <<session, state, checking, gc, parts, raced, tainted, mishaps,
                 collections>>

\* The copy to S3 fails: the request ends without a review.
S3Fails(c) ==
  /\ client[c].pc = "place" /\ object[client[c].sha] # "absent"
  /\ Mishap("s3") /\ Failed(c)
  /\ UNCHANGED <<session, object, state, checking, gc, parts, raced, tainted,
                 collections>>

\* The file is read and analysed.  (The virus scan that follows reads it too,
\* and takes a file that is gone for an infected one.)
Analyse(c) ==
  /\ client[c].pc = "analyse"
  /\ IF object[client[c].sha] = "absent" THEN Forgotten(c)
     ELSE IF Unreadable(client[c].sha) THEN Failed(c)
     ELSE client' = [client EXCEPT ![c].pc = "commit"]
  /\ UNCHANGED <<session, object, state, checking, gc, parts, raced, tainted,
                 mishaps, collections>>

\* The mutate that writes the review over any earlier one; what the scan objects
\* to is pending.
Commit(c) ==
  LET h == client[c].sha IN
  /\ client[c].pc = "commit"
  /\ \E verdict \in {NewReview(h), "pending"} : review' = [review EXCEPT ![h] = verdict]
  /\ raced' = IF Overlooked(h) THEN raced \cup {h} ELSE raced
  /\ Ended(c, "done", None)
  /\ UNCHANGED <<session, object, banned, used, checking, gc, parts, tainted,
                 mishaps, collections>>

------------------------------------------------------------------------------
(* Reviewers, bans, registrations.                                         *)

\* A reviewer approves and confirms the licence, or not.
Decide(h) ==
  /\ review[h] # None
  /\ \E verdict \in {"pending", "licensed"} : review' = [review EXCEPT ![h] = verdict]
  /\ UNCHANGED <<session, object, banned, used, client, checking, gc, parts,
                 raced, tainted, mishaps, collections>>

Ban(h) ==
  /\ Mishap("ban") /\ banned' = banned \cup {h}
  /\ UNCHANGED <<session, object, review, used, client, checking, gc, parts,
                 raced, tainted, collections>>

\* POST mods: the artifact's file, its ban and its review are looked up in
\* the snapshot, before the mutate.  (Registering it again changes nothing.)
RegisterCheck(h) ==
  /\ h \notin used /\ object[h] # "absent" /\ h \notin banned /\ review[h] = "licensed"
  /\ checking' = checking \cup {h}
  /\ UNCHANGED <<session, object, state, client, gc, parts, raced, tainted,
                 mishaps, collections>>

RegisterWrite(h) ==
  /\ h \in checking
  /\ used' = used \cup {h} /\ checking' = checking \ {h}
  /\ UNCHANGED <<session, object, review, banned, client, gc, parts, raced,
                 tainted, mishaps, collections>>

------------------------------------------------------------------------------
(* Garbage collection, and what goes wrong.                                *)

GcSnapshot ==
  /\ gc.pc = "idle" /\ collections < MaxGc
  /\ gc' = [pc |-> "snapshot", known |-> Referenced, todo |-> {}]
  /\ collections' = collections + 1
  /\ UNCHANGED <<session, object, state, client, checking, parts, raced,
                 tainted, mishaps>>

\* listLocal, after the references were read: the objects, and the temporary
\* files beside them, which no reference names.
GcList ==
  /\ gc.pc = "snapshot"
  /\ gc' = [gc EXCEPT !.pc = "removing", !.todo = {h \in Shas : object[h] # "absent"} \ gc.known]
  /\ parts' = {c \in Clients : client[c].pc = "assemble"}
  /\ UNCHANGED <<session, object, state, client, checking, raced, tainted,
                 mishaps, collections>>

\* An object is removed, also one that a request has analysed and not yet reviewed.
GcRemove(h) ==
  /\ gc.pc = "removing" /\ h \in gc.todo
  /\ object' = [object EXCEPT ![h] = "absent"]
  /\ gc' = [gc EXCEPT !.todo = @ \ {h}]
  /\ raced' = IF \E c \in Clients : client[c].pc = "commit" /\ client[c].sha = h
              THEN raced \cup {h} ELSE raced
  /\ UNCHANGED <<session, state, client, checking, parts, tainted, mishaps,
                 collections>>

\* A temporary file is removed: there is nothing to rename, and the request ends.
GcRemovePart(c) ==
  /\ gc.pc = "removing" /\ c \in parts
  /\ parts' = parts \ {c}
  /\ session' = Touched(client[c].sid, client[c].sha) /\ Forgotten(c)
  /\ UNCHANGED <<object, state, checking, gc, raced, tainted, mishaps,
                 collections>>

GcEnd ==
  /\ gc.pc = "removing" /\ gc.todo = {} /\ parts = {}
  /\ gc' = [pc |-> "idle", known |-> {}, todo |-> {}]
  /\ UNCHANGED <<session, object, state, client, checking, parts, raced,
                 tainted, mishaps, collections>>

\* The time to live of a session ends.
Expire(s) ==
  /\ session[s].sha # None /\ ~session[s].expired
  /\ Mishap("expire")
  /\ session' = [session EXCEPT ![s].expired = TRUE]
  /\ UNCHANGED <<object, state, client, checking, gc, parts, raced, tainted,
                 collections>>

\* The API restarts: requests and the collection under way end, and a meta.json
\* that was being written may stay half-written.
Restart ==
  /\ Mishap("restart")
  /\ client' = [c \in Clients |-> IF client[c].pc \notin Serving THEN client[c]
                                  ELSE [client[c] EXCEPT !.pc = "failed", !.sid = None,
                                          !.received = {}, !.index = None, !.wrong = FALSE]]
  /\ \E torn \in SUBSET {s \in Sessions : BeingTouched(s)} :
       session' = [s \in Sessions |-> IF s \notin torn THEN session[s]
                                      ELSE [session[s] EXCEPT !.sha = None]]
  /\ checking' = {} /\ gc' = [pc |-> "idle", known |-> {}, todo |-> {}] /\ parts' = {}
  /\ UNCHANGED <<object, state, raced, tainted, collections>>

\* uploadArtifact of the script: a new or reusable session, the chunks that
\* are not there, and complete - or the whole file when it is small.
UploadArtifact(c) ==
  \/ CreateSession(c) \/ BannedRefused(c) \/ PutWhole(c)
  \/ \E i \in Chunks : ChunkStart(c, i)
  \/ ChunkTouch(c) \/ ChunkEnd(c, FALSE)
  \/ CompleteStart(c) \/ Assemble(c) \/ Place(c) \/ Analyse(c) \/ Commit(c)

\* uploadZip of the browser remembers its session as well.
ClientStep(c) == LoadSession(c) \/ UploadArtifact(c)

GcStep == GcList \/ GcEnd \/ (\E h \in Shas : GcRemove(h)) \/ \E c \in Clients : GcRemovePart(c)

Next ==
  \/ \E c \in Clients, h \in Shas, wrong \in BOOLEAN : Upload(c, h, wrong)
  \/ \E c \in Clients : ClientStep(c) \/ ChunkEnd(c, TRUE) \/ S3Fails(c) \/ TornRead(c)
  \/ \E h \in Shas : Decide(h) \/ Ban(h) \/ RegisterCheck(h) \/ RegisterWrite(h)
  \/ GcSnapshot \/ GcStep
  \/ \E s \in Sessions : Expire(s)
  \/ Restart

Spec == Init /\ [][Next]_vars

------------------------------------------------------------------------------
(* Properties.                                                             *)

\* API.md: collect unreferenced objects.  What is registered, or about to be,
\* stays reviewed.  A reviewed artifact stays on the disk - unless a collection
\* that had read the references before its review was written removed the file
\* after the request analysed it, or had not ended when the review was written;
\* uploading it again, with no such collection under way, repairs even that.
ReferencedIsKept ==
  \A h \in Shas :
    /\ h \in used \cup checking => review[h] # None
    /\ review[h] # None => object[h] = "whole" \/ h \in raced

\* The browser and the script go on with what they do, requests are served,
\* and a user whose upload failed tries again.
FairSpec ==
  /\ Spec
  /\ \A c \in Clients : /\ WF_vars(ClientStep(c))
                        /\ WF_vars(client[c].pc = "failed" /\ Upload(c, client[c].sha, FALSE))
  /\ WF_vars(GcStep)

\* An upload that is tried again succeeds, whatever was lost, expired,
\* restarted or collected, and whoever shares its session - unless the hash
\* is banned, the ZIP cannot be read, or a chunk with other bytes was sent
\* for it: those stay in the session, which each attempt finds again.
UploadSucceeds ==
  \A c \in Clients, h \in Shas :
    client[c].pc = "open" /\ client[c].sha = h
      ~> \/ client[c].pc = "done"
         \/ h \in banned \cup tainted \/ "unreadable" \in Archive[h]

=============================================================================
