---------------------------- MODULE UploadsProofs ----------------------------
(***************************************************************************)
(* Theorems about uploads, for any number of clients, sessions, chunks,    *)
(* artifacts, mishaps and collections: their types, and that garbage       *)
(* collection spares what is reviewed or used.  And about the page of the  *)
(* console they come from, for any mods, slots, files and clicks: that no  *)
(* mod gets the archive of another, and what becomes of the submissions.   *)
(***************************************************************************)
EXTENDS Uploads, ModContents, TLAPS

(***************************************************************************)
(* Types.                                                                  *)
(***************************************************************************)
\* A client that uploads has a file, and one that sends a chunk has its index.
ClientInv ==
  \A c \in Clients :
    /\ client[c].pc # "idle" => client[c].sha \in Shas
    /\ client[c].pc \in {"read", "touched"} => client[c].index \in Chunks
    /\ c \in parts => client[c].pc = "assemble"

\* A session that is removed or touched stays a session.
LEMMA SessionTyped ==
  ASSUME session \in [Sessions -> Session], NEW s, NEW h \in Shas \cup {None}
  PROVE  /\ NoSession \in Session
         /\ Required(s) \in [Sessions -> Session]
         /\ Touched(s, h) \in [Sessions -> Session]
<1>1. NoSession \in Session
  BY DEF NoSession, Session, Chunk
<1>2. Required(s) \in [Sessions -> Session]
  BY <1>1 DEF Required
<1>3. Touched(s, h) \in [Sessions -> Session]
  BY DEF Touched, Session
<1> QED
  BY <1>1, <1>2, <1>3

\* A client that gets another record stays well typed.
LEMMA SetTyped ==
  ASSUME client \in [Clients -> Client], NEW c \in Clients, NEW r \in Client,
         client' = [client EXCEPT ![c] = r]
  PROVE  client' \in [Clients -> Client]
OBVIOUS

\* An upload that ended leaves a client well typed.
LEMMA EndedTyped ==
  ASSUME client \in [Clients -> Client], NEW c \in Clients,
         \/ Failed(c) \/ Forgotten(c) \/ Ended(c, "done", None)
  PROVE  client' \in [Clients -> Client]
<1>1. PICK pc \in {"failed", "done"}, saved \in Sessions \cup {None} : Ended(c, pc, saved)
  BY DEF Failed, Forgotten, Client
<1> DEFINE r == [client[c] EXCEPT !.pc = pc, !.saved = saved, !.sid = None,
                                  !.received = {}, !.index = None, !.wrong = FALSE]
<1>2. r \in Client
  BY DEF Client, Serving
<1>3. client' = [client EXCEPT ![c] = r]
  BY <1>1 DEF Ended
<1> QED
  BY <1>2, <1>3, SetTyped

\* Uploads start well typed.
LEMMA TypeInit == Init => TypeOK /\ ClientInv
<1> SUFFICES ASSUME Init PROVE TypeOK /\ ClientInv
  OBVIOUS
<1> USE UploadsAssumption
<1>1. session \in [Sessions -> Session]
  BY DEF Init, NoSession, Session, Chunk
<1>2. client \in [Clients -> Client]
  <2>1. [pc |-> "idle", sha |-> None, sid |-> None, saved |-> None,
         received |-> {}, index |-> None, wrong |-> FALSE] \in Client
    BY DEF Client, Serving
  <2> QED
    BY <2>1 DEF Init
<1>3. object \in [Shas -> Files] /\ parts \in SUBSET Clients /\ review \in [Shas -> Verdicts \cup {None}]
  BY DEF Init, Files
<1>4. gc \in Gc
  BY DEF Init, Gc
<1>5. 0 \in 0..MaxMishaps /\ 0 \in 0..MaxGc
  OBVIOUS
<1>6. ClientInv
  BY DEF Init, ClientInv
<1>7. /\ banned \in SUBSET Shas /\ used \in SUBSET Shas /\ checking \in SUBSET Shas
      /\ raced \in SUBSET Shas /\ tainted \in SUBSET Shas
      /\ mishaps \in 0..MaxMishaps /\ collections \in 0..MaxGc
  BY <1>5 DEF Init
<1> QED
  BY <1>1, <1>2, <1>3, <1>4, <1>6, <1>7 DEF TypeOK

\* The steps of the clients keep the types of sessions, clients and objects.
LEMMA ClientTyped ==
  ASSUME TypeOK, ClientInv, NEW c \in Clients,
         ClientStep(c) \/ ChunkEnd(c, TRUE) \/ S3Fails(c) \/ TornRead(c)
  PROVE  TypeOK'
<1> USE UploadsAssumption
<1> DEFINE h == client[c].sha
<1>0. /\ client[c] \in Client /\ h \in Shas \cup {None}
      /\ client[c].sid \in Sessions \cup {None} /\ client[c].saved \in Sessions \cup {None}
  BY DEF TypeOK, Client
<1>1. CASE LoadSession(c)
  <2> DEFINE s == client[c].saved
             found == [client[c] EXCEPT !.pc = "chunks", !.sid = s, !.received = Received(s)]
             lost == [client[c] EXCEPT !.saved = None]
  <2>1. client' \in [Clients -> Client]
    <3>1. found \in Client /\ lost \in Client
      BY <1>0 DEF Client, Received
    <3>2. client' = [client EXCEPT ![c] = found] \/ client' = [client EXCEPT ![c] = lost]
      BY <1>1 DEF LoadSession
    <3> QED
      BY <3>1, <3>2, SetTyped DEF TypeOK
  <2>2. session' \in [Sessions -> Session]
    <3>1. session' = Touched(s, h) \/ session' = Required(s)
      BY <1>1 DEF LoadSession
    <3>2. /\ Touched(s, h) \in [Sessions -> Session]
          /\ Required(s) \in [Sessions -> Session]
      BY <1>0, SessionTyped DEF TypeOK
    <3> QED
      BY <3>1, <3>2
  <2> QED
    BY <1>1, <2>1, <2>2 DEF LoadSession, TypeOK, state
<1>2. CASE CreateSession(c)
  <2>1. PICK s \in Sessions, gone \in SUBSET Expired, torn \in BOOLEAN :
          /\ IF torn THEN Mishap("torn") ELSE UNCHANGED mishaps
          /\ session' = [t \in Sessions |-> IF t \in gone THEN NoSession
                                            ELSE IF t = s THEN Touched(s, h)[s] ELSE session[t]]
          /\ client' = [client EXCEPT ![c].pc = "chunks", ![c].sid = s,
                                      ![c].saved = IF c \in Browsers THEN s ELSE None,
                                      ![c].received = Received(s)]
    BY <1>2 DEF CreateSession
  <2>2. Touched(s, h)[s] \in Session /\ NoSession \in Session
    <3>1. Touched(s, h) \in [Sessions -> Session] /\ NoSession \in Session
      BY <1>0, SessionTyped DEF TypeOK
    <3> QED
      BY <3>1
  <2>3. session' \in [Sessions -> Session]
    BY <2>1, <2>2 DEF TypeOK
  <2> DEFINE r == [client[c] EXCEPT !.pc = "chunks", !.sid = s,
                                    !.saved = IF c \in Browsers THEN s ELSE None,
                                    !.received = Received(s)]
  <2>4. client' \in [Clients -> Client]
    <3>1. r \in Client
      BY <1>0 DEF Client, Received
    <3>2. client' = [client EXCEPT ![c] = r]
      BY <2>1
    <3> QED
      BY <3>1, <3>2, SetTyped DEF TypeOK
  <2>5. mishaps' \in 0..MaxMishaps
    BY <2>1 DEF Mishap, TypeOK
  <2> QED
    BY <1>2, <2>3, <2>4, <2>5 DEF CreateSession, TypeOK, state
<1>3. CASE BannedRefused(c)
  BY <1>3, EndedTyped DEF BannedRefused, TypeOK, state
<1>4. CASE PutWhole(c)
  <2>1. client' \in [Clients -> Client]
    BY <1>4, EndedTyped DEF PutWhole, TypeOK, Client, Serving
  <2> QED
    BY <1>4, <2>1 DEF PutWhole, Placed, TypeOK, state, Files
<1>5. ASSUME NEW i \in Chunks, ChunkStart(c, i) PROVE TypeOK'
  <2>1. client' \in [Clients -> Client]
    BY <1>5, EndedTyped DEF ChunkStart, TypeOK, Client, Serving
  <2>2. session' \in [Sessions -> Session]
    BY <1>0, <1>5, SessionTyped DEF ChunkStart, TypeOK
  <2> QED
    BY <1>5, <2>1, <2>2 DEF ChunkStart, TypeOK, state
<1>6. CASE ChunkTouch(c)
  <2>1. client' \in [Clients -> Client]
    BY <1>6 DEF ChunkTouch, TypeOK, Client, Serving
  <2>2. session' \in [Sessions -> Session]
    BY <1>0, <1>6, SessionTyped DEF ChunkTouch, TypeOK
  <2> QED
    BY <1>6, <2>1, <2>2 DEF ChunkTouch, TypeOK, state
<1>7. ASSUME NEW lost \in BOOLEAN, ChunkEnd(c, lost) PROVE TypeOK'
  <2> DEFINE s == client[c].sid
             i == client[c].index
             r == [client[c] EXCEPT !.pc = "chunks", !.index = None,
                                    !.received = IF lost THEN @ ELSE @ \cup {i}]
             to == IF client[c].wrong THEN "bad" ELSE "good"
  <2>1. client' \in [Clients -> Client]
    <3>1. i \in Chunks
      BY <1>7 DEF ClientInv, ChunkEnd
    <3>2. r \in Client
      BY <1>0, <3>1 DEF Client
    <3>3. client' = [client EXCEPT ![c] = r]
      BY <1>7 DEF ChunkEnd
    <3> QED
      BY <3>2, <3>3, SetTyped DEF TypeOK
  <2>2. session' \in [Sessions -> Session]
    <3>1. session' = session \/ session' = [session EXCEPT ![s].chunk[i] = to]
      BY <1>7 DEF ChunkEnd
    <3>2. s \in Sessions => [session[s] EXCEPT !.chunk = [@ EXCEPT ![i] = to]] \in Session
      BY DEF TypeOK, Session, Chunk
    <3>3. [session EXCEPT ![s].chunk[i] = to]
            = [session EXCEPT ![s] = [session[s] EXCEPT !.chunk = [@ EXCEPT ![i] = to]]]
      OBVIOUS
    <3> QED
      BY <3>1, <3>2, <3>3 DEF TypeOK
  <2>3. tainted' \in SUBSET Shas
    BY <1>7 DEF ChunkEnd, TypeOK, ClientInv
  <2> QED
    BY <1>7, <2>1, <2>2, <2>3 DEF ChunkEnd, TypeOK, state, Mishap
<1>8. CASE CompleteStart(c)
  <2>1. client' \in [Clients -> Client]
    BY <1>8, EndedTyped DEF CompleteStart, TypeOK, Client, Serving
  <2>2. session' \in [Sessions -> Session]
    BY <1>0, <1>8, SessionTyped DEF CompleteStart, TypeOK
  <2> QED
    BY <1>8, <2>1, <2>2 DEF CompleteStart, TypeOK, state
<1>9. CASE Assemble(c)
  <2> DEFINE r == [client[c] EXCEPT !.pc = "place", !.sid = None]
  <2>1. client' \in [Clients -> Client]
    <3>1. r \in Client
      BY <1>0 DEF Client, Serving
    <3>2. Failed(c) \/ Forgotten(c) \/ client' = [client EXCEPT ![c] = r]
      BY <1>9 DEF Assemble
    <3> QED
      BY <3>1, <3>2, SetTyped, EndedTyped DEF TypeOK
  <2>2. session' \in [Sessions -> Session]
    BY <1>0, <1>9, SessionTyped DEF Assemble, TypeOK
  <2>3. object' \in [Shas -> Files]
    BY <1>9 DEF Assemble, Placed, TypeOK, Files
  <2>4. raced' \in SUBSET Shas /\ parts' \in SUBSET Clients
    BY <1>9 DEF Assemble, Placed, TypeOK
  <2> QED
    BY <1>9, <2>1, <2>2, <2>3, <2>4 DEF Assemble, TypeOK, state
<1>10. CASE Place(c)
  <2>1. client' \in [Clients -> Client]
    <3>1. Forgotten(c) \/ client' = [client EXCEPT ![c].pc = "analyse"]
      BY <1>10 DEF Place
    <3>2. [client EXCEPT ![c].pc = "analyse"] \in [Clients -> Client]
      BY DEF TypeOK, Client, Serving
    <3> QED
      BY <3>1, <3>2, EndedTyped DEF TypeOK
  <2> QED
    BY <1>10, <2>1 DEF Place, TypeOK, state, Files
<1>11. CASE S3Fails(c)
  BY <1>11, EndedTyped DEF S3Fails, TypeOK, state, Mishap
<1>12. CASE Commit(c)
  <2>1. client' \in [Clients -> Client]
    BY <1>12, EndedTyped DEF Commit, TypeOK
  <2>2. review' \in [Shas -> Verdicts \cup {None}] /\ raced' \in SUBSET Shas
    BY <1>12 DEF Commit, TypeOK, ClientInv, Verdicts, NewReview
  <2> QED
    BY <1>12, <2>1, <2>2 DEF Commit, TypeOK, state
<1>13. CASE Analyse(c)
  <2>1. client' \in [Clients -> Client]
    <3>1. Failed(c) \/ Forgotten(c) \/ client' = [client EXCEPT ![c].pc = "commit"]
      BY <1>13 DEF Analyse
    <3>2. [client EXCEPT ![c].pc = "commit"] \in [Clients -> Client]
      BY DEF TypeOK, Client, Serving
    <3> QED
      BY <3>1, <3>2, EndedTyped DEF TypeOK
  <2> QED
    BY <1>13, <2>1 DEF Analyse, TypeOK, state
<1>14. CASE TornRead(c)
  <2>1. client' \in [Clients -> Client]
    <3>1. Failed(c) \/ Forgotten(c) \/ client' = [client EXCEPT ![c].saved = None]
      BY <1>14 DEF TornRead
    <3>2. [client EXCEPT ![c].saved = None] \in [Clients -> Client]
      BY DEF TypeOK, Client, Serving
    <3> QED
      BY <3>1, <3>2, EndedTyped DEF TypeOK
  <2> QED
    BY <1>14, <2>1 DEF TornRead, Mishap, TypeOK, state
<1> QED
  BY <1>1, <1>2, <1>3, <1>4, <1>5, <1>6, <1>7, <1>8, <1>9, <1>10, <1>11, <1>12, <1>13, <1>14
  DEF ClientStep, UploadArtifact

\* Every client that uploads keeps its file, and its index while a chunk is on its way.
LEMMA ClientKept == TypeOK /\ ClientInv /\ [Next]_vars => ClientInv'
<1> SUFFICES ASSUME TypeOK, ClientInv, [Next]_vars PROVE ClientInv'
  OBVIOUS
<1> USE UploadsAssumption
<1>1. CASE UNCHANGED <<client, parts>>
  BY <1>1 DEF ClientInv
<1>2. ASSUME NEW c \in Clients, NEW h \in Shas, NEW wrong \in BOOLEAN, Upload(c, h, wrong)
      PROVE  ClientInv'
  BY <1>2 DEF Upload, ClientInv, TypeOK, Client
<1>3. ASSUME NEW c \in Clients, Failed(c) \/ Forgotten(c) \/ Ended(c, "done", None),
             client[c].pc # "idle", parts' = parts \ {c} \/ (parts' = parts /\ client[c].pc # "assemble")
      PROVE  ClientInv'
  <2>1. PICK pc \in {"failed", "done"}, saved \in Sessions \cup {None} : Ended(c, pc, saved)
    BY <1>3 DEF Failed, Forgotten, TypeOK, Client
  <2> DEFINE r == [client[c] EXCEPT !.pc = pc, !.saved = saved, !.sid = None,
                                    !.received = {}, !.index = None, !.wrong = FALSE]
  <2>2. client' = [client EXCEPT ![c] = r]
    BY <2>1 DEF Ended
  <2>3. r.pc = pc /\ r.sha = client[c].sha
    BY DEF TypeOK, Client
  <2>4. r.sha \in Shas
    BY <1>3, <2>3 DEF ClientInv
  <2>5. \A d \in Clients : client'[d] = IF d = c THEN r ELSE client[d]
    BY <2>2 DEF TypeOK
  <2> HIDE DEF r
  <2>6. c \notin parts'
    BY <1>3 DEF ClientInv
  <2>7. parts' \subseteq parts
    BY <1>3
  <2> QED
    BY <2>3, <2>4, <2>5, <2>6, <2>7 DEF ClientInv
<1>4. ASSUME NEW c \in Clients, ClientStep(c) \/ ChunkEnd(c, TRUE) \/ S3Fails(c) \/ TornRead(c)
      PROVE  ClientInv'
  <2>1. CASE LoadSession(c)
    BY <2>1 DEF LoadSession, ClientInv, TypeOK, Client
  <2>2. CASE CreateSession(c)
    BY <2>2 DEF CreateSession, ClientInv, TypeOK, Client
  <2>3. CASE BannedRefused(c)
    BY <2>3, <1>3 DEF BannedRefused
  <2>4. CASE PutWhole(c)
    BY <2>4, <1>3 DEF PutWhole, ClientInv, TypeOK, Client
  <2>5. ASSUME NEW i \in Chunks, ChunkStart(c, i) PROVE ClientInv'
    BY <2>5, <1>3 DEF ChunkStart, ClientInv, TypeOK, Client
  <2>6. CASE ChunkTouch(c)
    BY <2>6 DEF ChunkTouch, ClientInv, TypeOK, Client
  <2>7. ASSUME NEW lost \in BOOLEAN, ChunkEnd(c, lost) PROVE ClientInv'
    BY <2>7 DEF ChunkEnd, ClientInv, TypeOK, Client
  <2>8. CASE CompleteStart(c)
    BY <2>8, <1>3 DEF CompleteStart, ClientInv, TypeOK, Client
  <2>9. CASE Assemble(c)
    <3>1. CASE Failed(c) \/ Forgotten(c)
      BY <2>9, <3>1, <1>3 DEF Assemble
    <3>2. CASE client' = [client EXCEPT ![c].pc = "place", ![c].sid = None]
      <4>1. /\ client'[c].pc = "place" /\ client'[c].sha = client[c].sha
            /\ \A d \in Clients \ {c} : client'[d] = client[d]
        BY <3>2 DEF TypeOK, Client
      <4>2. parts' = parts \ {c} /\ client[c].pc = "assemble"
        BY <2>9 DEF Assemble
      <4> QED
        BY <4>1, <4>2 DEF ClientInv
    <3> QED
      BY <2>9, <3>1, <3>2 DEF Assemble
  <2>10. CASE Place(c)
    BY <2>10, <1>3 DEF Place, ClientInv, TypeOK, Client
  <2>11. CASE S3Fails(c)
    BY <2>11, <1>3 DEF S3Fails
  <2>12. CASE Commit(c)
    BY <2>12, <1>3 DEF Commit
  <2>13. CASE Analyse(c)
    BY <2>13, <1>3 DEF Analyse, ClientInv, TypeOK, Client
  <2>14. CASE TornRead(c)
    <3>1. parts' = parts
      BY <2>14 DEF TornRead
    <3>2. CASE (Failed(c) \/ Forgotten(c)) /\ client[c].pc = "chunks"
      BY <1>3, <3>1, <3>2
    <3>3. CASE client' = [client EXCEPT ![c].saved = None]
      BY <3>1, <3>3 DEF ClientInv, TypeOK, Client
    <3> QED
      BY <2>14, <3>2, <3>3 DEF TornRead
  <2> QED
    BY <1>4, <2>1, <2>2, <2>3, <2>4, <2>5, <2>6, <2>7, <2>8, <2>9, <2>10, <2>11, <2>12, <2>13, <2>14
    DEF ClientStep, UploadArtifact
<1>5. CASE Restart
  <2>1. ASSUME NEW d \in Clients
        PROVE  \/ client'[d] = client[d]
               \/ /\ client'[d].pc = "failed" /\ client'[d].sha = client[d].sha
                  /\ client[d].pc # "idle"
    <3>1. client[d] \in Client
      BY DEF TypeOK
    <3>2. CASE client[d].pc \in Serving
      <4> DEFINE r == [client[d] EXCEPT !.pc = "failed", !.sid = None, !.received = {},
                                        !.index = None, !.wrong = FALSE]
      <4>1. r.pc = "failed" /\ r.sha = client[d].sha
        BY <3>1 DEF Client
      <4>2. client'[d] = r
        BY <1>5, <3>2 DEF Restart
      <4> HIDE DEF r
      <4>3. client[d].pc # "idle"
        BY <3>2 DEF Serving
      <4> QED
        BY <4>1, <4>2, <4>3
    <3>3. CASE client[d].pc \notin Serving
      BY <1>5, <3>3 DEF Restart
    <3> QED
      BY <3>2, <3>3
  <2>2. parts' = {}
    BY <1>5 DEF Restart
  <2> QED
    BY <2>1, <2>2 DEF ClientInv
<1>6. CASE GcList
  BY <1>6 DEF GcList, ClientInv
<1>7. ASSUME NEW c \in Clients, GcRemovePart(c) PROVE ClientInv'
  <2>1. client[c].pc = "assemble"
    BY <1>7 DEF GcRemovePart, ClientInv
  <2> QED
    BY <1>3, <1>7, <2>1 DEF GcRemovePart
<1> QED
  BY <1>1, <1>2, <1>4, <1>5, <1>6, <1>7
  DEF Next, vars, state, Decide, Ban, RegisterCheck, RegisterWrite, GcSnapshot, GcStep,
      GcEnd, GcRemove, Expire

\* Every step keeps the types.
LEMMA TypeStep == TypeOK /\ ClientInv /\ [Next]_vars => TypeOK'
<1> SUFFICES ASSUME TypeOK, ClientInv, [Next]_vars PROVE TypeOK'
  OBVIOUS
<1> USE UploadsAssumption
<1>0. ASSUME NEW e, Mishap(e) PROVE mishaps' \in 0..MaxMishaps
  BY <1>0 DEF Mishap, TypeOK
<1>1. CASE UNCHANGED vars
  BY <1>1 DEF vars, state, TypeOK
<1>2. ASSUME NEW c \in Clients, NEW h \in Shas, NEW wrong \in BOOLEAN, Upload(c, h, wrong)
      PROVE  TypeOK'
  <2> DEFINE r == [client[c] EXCEPT !.pc = "open", !.sha = h, !.wrong = wrong]
  <2>1. r \in Client
    <3>1. client[c] \in Client
      BY DEF TypeOK
    <3> QED
      BY <3>1 DEF Client
  <2>2. client' = [client EXCEPT ![c] = r]
    BY <1>2 DEF Upload
  <2>3. client' \in [Clients -> Client]
    BY <2>1, <2>2, SetTyped DEF TypeOK
  <2>4. mishaps' \in 0..MaxMishaps
    BY <1>0, <1>2 DEF Upload, TypeOK
  <2> QED
    BY <1>2, <2>3, <2>4 DEF Upload, TypeOK, state
<1>3. ASSUME NEW c \in Clients, ClientStep(c) \/ ChunkEnd(c, TRUE) \/ S3Fails(c) \/ TornRead(c)
      PROVE  TypeOK'
  BY <1>3, ClientTyped
<1>4. ASSUME NEW h \in Shas, Decide(h) PROVE TypeOK'
  BY <1>4 DEF Decide, TypeOK, Verdicts
<1>5. ASSUME NEW h \in Shas, Ban(h) PROVE TypeOK'
  BY <1>0, <1>5 DEF Ban, TypeOK
<1>6. ASSUME NEW h \in Shas, RegisterCheck(h) PROVE TypeOK'
  BY <1>6 DEF RegisterCheck, TypeOK, state
<1>7. ASSUME NEW h \in Shas, RegisterWrite(h) PROVE TypeOK'
  BY <1>7 DEF RegisterWrite, TypeOK
<1>8. CASE GcSnapshot
  <2>1. gc' \in Gc
    BY <1>8 DEF GcSnapshot, TypeOK, Gc, Referenced
  <2> QED
    BY <1>8, <2>1 DEF GcSnapshot, TypeOK, state
<1>9. CASE GcStep
  <2>1. gc' \in Gc
    <3>1. /\ gc \in Gc
          /\ {h \in Shas : object[h] # "absent"} \ gc.known \in SUBSET Shas
          /\ \A h : gc.todo \ {h} \in SUBSET Shas
      BY DEF TypeOK, Gc
    <3>5. ASSUME NEW c \in Clients, GcRemovePart(c) PROVE gc' \in Gc
      BY <3>1, <3>5 DEF GcRemovePart
    <3>2. CASE GcList
      BY <3>1, <3>2 DEF GcList, Gc
    <3>3. CASE GcEnd
      BY <3>3 DEF GcEnd, Gc
    <3>4. ASSUME NEW h \in Shas, GcRemove(h) PROVE gc' \in Gc
      BY <3>1, <3>4 DEF GcRemove, Gc
    <3> QED
      BY <1>9, <3>2, <3>3, <3>4, <3>5 DEF GcStep
  <2>2. object' \in [Shas -> Files] /\ raced' \in SUBSET Shas /\ parts' \in SUBSET Clients
    BY <1>9 DEF GcStep, GcList, GcEnd, GcRemove, GcRemovePart, TypeOK, Files
  <2>3. client' \in [Clients -> Client] /\ session' \in [Sessions -> Session]
    <3>1. CASE UNCHANGED <<client, session>>
      BY <3>1 DEF TypeOK
    <3>2. ASSUME NEW c \in Clients, GcRemovePart(c)
          PROVE  client' \in [Clients -> Client] /\ session' \in [Sessions -> Session]
      <4>1. client[c].sha \in Shas \cup {None}
        BY DEF TypeOK, Client
      <4> QED
        BY <3>2, <4>1, EndedTyped, SessionTyped DEF GcRemovePart, TypeOK
    <3> QED
      BY <1>9, <3>1, <3>2 DEF GcStep, GcList, GcEnd, GcRemove
  <2>4. UNCHANGED <<review, banned, used, checking, tainted, mishaps, collections>>
    BY <1>9 DEF GcStep, GcList, GcEnd, GcRemove, GcRemovePart, state
  <2> QED
    BY <2>1, <2>2, <2>3, <2>4 DEF TypeOK
<1>10. ASSUME NEW s \in Sessions, Expire(s) PROVE TypeOK'
  <2>1. session' \in [Sessions -> Session]
    <3>1. session[s] \in Session
      BY DEF TypeOK
    <3>2. [session[s] EXCEPT !.expired = TRUE] \in Session
      BY <3>1 DEF Session
    <3>3. session' = [session EXCEPT ![s] = [session[s] EXCEPT !.expired = TRUE]]
      BY <1>10 DEF Expire
    <3> QED
      BY <3>2, <3>3 DEF TypeOK
  <2> QED
    BY <1>0, <1>10, <2>1 DEF Expire, TypeOK, state
<1>11. CASE Restart
  <2>1. ASSUME NEW c \in Clients
        PROVE  [client[c] EXCEPT !.pc = "failed", !.sid = None, !.received = {},
                                 !.index = None, !.wrong = FALSE] \in Client
    <3>1. client[c] \in Client
      BY DEF TypeOK
    <3> QED
      BY <3>1 DEF Client
  <2>2. client' \in [Clients -> Client]
    BY <1>11, <2>1 DEF Restart, TypeOK
  <2>3. gc' \in Gc /\ checking' \in SUBSET Shas /\ parts' \in SUBSET Clients
    BY <1>11 DEF Restart, Gc
  <2>4. session' \in [Sessions -> Session]
    <3>1. \A s \in Sessions : [session[s] EXCEPT !.sha = None] \in Session
      BY DEF TypeOK, Session
    <3>2. PICK torn \in SUBSET Sessions :
            session' = [s \in Sessions |-> IF s \notin torn THEN session[s]
                                           ELSE [session[s] EXCEPT !.sha = None]]
      BY <1>11 DEF Restart
    <3> QED
      BY <3>1, <3>2 DEF TypeOK
  <2> QED
    BY <1>0, <1>11, <2>2, <2>3, <2>4 DEF Restart, TypeOK, state
<1> QED
  BY <1>1, <1>2, <1>3, <1>4, <1>5, <1>6, <1>7, <1>8, <1>9, <1>10, <1>11 DEF Next

\* Sessions, objects, reviews, clients and collections keep their types, and a
\* client that sends a chunk knows its file and its index.
THEOREM UploadsTyped == Spec => [](TypeOK /\ ClientInv)
<1>1. Init => TypeOK /\ ClientInv
  BY TypeInit
<1>2. TypeOK /\ ClientInv /\ [Next]_vars => (TypeOK /\ ClientInv)'
  BY TypeStep, ClientKept
<1> QED
  BY <1>1, <1>2, PTL DEF Spec

(***************************************************************************)
(* Garbage collection.                                                     *)
(***************************************************************************)
\* A collection under way knows everything that was reviewed when it began, and
\* removes none of it; what was reviewed since is raced.
Known ==
  gc.pc # "idle" => /\ \A h \in Shas \ raced : review[h] # None => h \in gc.known
                    /\ gc.todo \cap gc.known = {}

\* What a request has analysed is whole until a collection removes it.
Analysed ==
  \A c \in Clients :
    client[c].pc = "commit" => object[client[c].sha] = "whole" \/ client[c].sha \in raced

\* What the argument needs.
KeptInv == Known /\ Analysed /\ ReferencedIsKept

\* How a step may change an object and the history of races: nothing happens to it, or
\* it is placed anew (and no longer raced only when no collection overlooks it), or found
\* absent and made empty, or collected (and raced if a request has analysed it).
LEMMA ObjectStep ==
  ASSUME TypeOK, [Next]_vars, NEW g \in Shas
  PROVE  \/ object'[g] = object[g] /\ (g \in raced => g \in raced')
         \/ object'[g] = "whole" /\ gc' = gc /\ (g \in raced => g \in raced' \/ ~Overlooked(g))
         \/ object[g] = "absent" /\ object'[g] = "empty" /\ (g \in raced => g \in raced')
         \/ /\ gc.pc = "removing" /\ g \in gc.todo /\ (g \in raced => g \in raced')
            /\ \A c \in Clients : client[c].pc = "commit" /\ client[c].sha = g => g \in raced'
<1> DEFINE P ==
      \/ object'[g] = object[g] /\ (g \in raced => g \in raced')
      \/ object'[g] = "whole" /\ gc' = gc /\ (g \in raced => g \in raced' \/ ~Overlooked(g))
      \/ object[g] = "absent" /\ object'[g] = "empty" /\ (g \in raced => g \in raced')
      \/ /\ gc.pc = "removing" /\ g \in gc.todo /\ (g \in raced => g \in raced')
         /\ \A c \in Clients : client[c].pc = "commit" /\ client[c].sha = g => g \in raced'
<1>1. CASE UNCHANGED <<object, raced>>
  BY <1>1
<1>2. ASSUME NEW c \in Clients, ClientStep(c) PROVE P
  <2>0. ASSUME Placed(client[c].sha), gc' = gc PROVE P
    BY <2>0 DEF Placed, TypeOK
  <2>1. CASE Assemble(c)
    BY <2>0, <2>1, <1>1 DEF Assemble
  <2>2. CASE PutWhole(c)
    BY <2>0, <2>2, <1>1 DEF PutWhole
  <2>3. CASE Place(c)
    BY <2>3 DEF Place, TypeOK
  <2>4. CASE Commit(c)
    BY <2>4 DEF Commit
  <2> QED
    BY <1>1, <1>2, <2>1, <2>2, <2>3, <2>4
    DEF ClientStep, UploadArtifact, LoadSession, CreateSession, BannedRefused, ChunkStart,
        ChunkTouch, ChunkEnd, CompleteStart, Analyse
<1>3. ASSUME NEW h \in Shas, GcRemove(h) PROVE P
  BY <1>3 DEF GcRemove, TypeOK
<1> QED
  BY <1>1, <1>2, <1>3, ZenonT(60)
  DEF Next, vars, state, Upload, ChunkEnd, S3Fails, TornRead, Decide, Ban, RegisterCheck,
      RegisterWrite, GcSnapshot, GcStep, GcList, GcRemovePart, GcEnd, Expire, Restart

\* How a step may change a review: it stays one, and a new one is of what a request
\* has analysed, and raced unless every collection under way knows it.
LEMMA ReviewStep ==
  ASSUME TypeOK, ClientInv, [Next]_vars, NEW g \in Shas
  PROVE  \/ review'[g] = review[g]
         \/ /\ review[g] # None /\ review'[g] # None
            /\ UNCHANGED <<object, gc, raced>>
         \/ /\ \E c \in Clients : client[c].pc = "commit" /\ client[c].sha = g
            /\ review'[g] # None
            /\ UNCHANGED <<object, gc>>
            /\ g \in raced' \/ (~Overlooked(g) /\ g \notin raced)
<1> USE UploadsAssumption
<1> DEFINE P == \/ review'[g] = review[g]
                \/ /\ review[g] # None /\ review'[g] # None
                   /\ UNCHANGED <<object, gc, raced>>
                \/ /\ \E c \in Clients : client[c].pc = "commit" /\ client[c].sha = g
                   /\ review'[g] # None
                   /\ UNCHANGED <<object, gc>>
                   /\ g \in raced' \/ (~Overlooked(g) /\ g \notin raced)
<1>1. CASE UNCHANGED review
  BY <1>1
<1>2. ASSUME NEW c \in Clients, Commit(c) PROVE P
  <2> DEFINE h == client[c].sha
  <2>1. PICK verdict \in {NewReview(h), "pending"} : review' = [review EXCEPT ![h] = verdict]
    BY <1>2 DEF Commit
  <2>2. verdict # None
    BY DEF NewReview
  <2>3. CASE h # g
    BY <2>1, <2>3 DEF TypeOK
  <2>4. CASE h = g
    <3>1. review'[g] # None
      BY <2>1, <2>2, <2>4 DEF TypeOK
    <3>2. g \in raced' \/ (~Overlooked(g) /\ g \notin raced)
      BY <1>2, <2>4 DEF Commit
    <3> QED
      BY <1>2, <2>4, <3>1, <3>2 DEF Commit
  <2> QED
    BY <2>3, <2>4
<1>3. ASSUME NEW h \in Shas, Decide(h) PROVE P
  <2>1. PICK verdict \in {"pending", "licensed"} : review' = [review EXCEPT ![h] = verdict]
    BY <1>3 DEF Decide
  <2>2. CASE h = g
    BY <1>3, <2>1, <2>2 DEF Decide, TypeOK
  <2>3. CASE h # g
    BY <2>1, <2>3 DEF TypeOK
  <2> QED
    BY <2>2, <2>3
<1> QED
  BY <1>1, <1>2, <1>3, ZenonT(60)
  DEF Next, vars, state, ClientStep, UploadArtifact, LoadSession, CreateSession, BannedRefused,
      PutWhole, ChunkStart, ChunkTouch, ChunkEnd, CompleteStart, Assemble, Place, Analyse, Upload,
      S3Fails, TornRead, Ban, RegisterCheck, RegisterWrite, GcSnapshot, GcStep, GcList, GcEnd,
      GcRemove, GcRemovePart, Expire, Restart

\* What is registered was reviewed when it was looked up.
LEMMA UseStep ==
  ASSUME TypeOK, [Next]_vars, NEW g \in Shas, g \in used' \cup checking'
  PROVE  g \in used \cup checking \/ review[g] # None
<1> USE UploadsAssumption
<1>1. ASSUME NEW h \in Shas, RegisterCheck(h) PROVE g \in used \cup checking \/ review[g] # None
  BY <1>1 DEF RegisterCheck, state
<1>2. ASSUME NEW h \in Shas, RegisterWrite(h) PROVE g \in used \cup checking
  BY <1>2 DEF RegisterWrite
<1>3. CASE Restart
  BY <1>3 DEF Restart, state
<1>4. ASSUME NEW c \in Clients, ClientStep(c) PROVE UNCHANGED <<used, checking>>
  BY <1>4
  DEF ClientStep, UploadArtifact, LoadSession, CreateSession, BannedRefused, PutWhole, ChunkStart,
      ChunkTouch, ChunkEnd, CompleteStart, Assemble, Place, Analyse, Commit, state
<1> QED
  BY <1>1, <1>2, <1>3, <1>4
  DEF Next, vars, state, Upload, ChunkEnd, S3Fails, TornRead, Decide, Ban, GcSnapshot, GcStep, GcList,
      GcEnd, GcRemove, GcRemovePart, Expire

\* Who commits after a step has committed before, or has just found the object whole.
LEMMA CommitStep ==
  ASSUME TypeOK, ClientInv, [Next]_vars, NEW c \in Clients, client'[c].pc = "commit"
  PROVE  \/ client[c].pc = "commit" /\ client'[c].sha = client[c].sha
         \/ UNCHANGED <<object, raced>> /\ object[client'[c].sha] = "whole"
<1> USE UploadsAssumption
<1> DEFINE P == \/ client[c].pc = "commit" /\ client'[c].sha = client[c].sha
                \/ UNCHANGED <<object, raced>> /\ object[client'[c].sha] = "whole"
<1>0. ASSUME client'[c] = client[c] PROVE P
  BY <1>0
<1>1. ASSUME NEW d \in Clients, NEW r, r \in Client, client' = [client EXCEPT ![d] = r],
             r.pc # "commit"
      PROVE  P
  BY <1>1, <1>0 DEF TypeOK
<1>2. ASSUME NEW d \in Clients, Failed(d) \/ Forgotten(d) \/ Ended(d, "done", None)
      PROVE  P
  <2>1. PICK pc \in {"failed", "done"}, saved \in Sessions \cup {None} : Ended(d, pc, saved)
    BY <1>2 DEF Failed, Forgotten, TypeOK, Client
  <2> DEFINE r == [client[d] EXCEPT !.pc = pc, !.saved = saved, !.sid = None,
                                    !.received = {}, !.index = None, !.wrong = FALSE]
  <2>2. r \in Client /\ r.pc # "commit"
    <3>1. client[d] \in Client
      BY DEF TypeOK
    <3> QED
      BY <3>1 DEF Client
  <2>3. client' = [client EXCEPT ![d] = r]
    BY <2>1 DEF Ended
  <2> HIDE DEF r
  <2> QED
    BY <1>1, <2>2, <2>3
<1>3. ASSUME NEW d \in Clients, Analyse(d) PROVE P
  <2>1. CASE client' = [client EXCEPT ![d].pc = "commit"]
    <3>1. CASE d = c
      <4>1. client'[c].sha = client[c].sha
        BY <2>1, <3>1 DEF TypeOK, Client
      <4>2. CASE Failed(d) \/ Forgotten(d)
        BY <1>2, <4>2
      <4>3. CASE object[client[d].sha] = "whole"
        BY <1>3, <3>1, <4>1, <4>3 DEF Analyse
      <4> QED
        BY <1>3, <4>2, <4>3 DEF Analyse, Unreadable
    <3>2. CASE d # c
      BY <2>1, <3>2, <1>0 DEF TypeOK
    <3> QED
      BY <3>1, <3>2
  <2> QED
    BY <1>2, <1>3, <2>1 DEF Analyse
<1>4. ASSUME NEW d \in Clients, LoadSession(d) PROVE P
  BY <1>4 DEF LoadSession, TypeOK, Client
<1>5. ASSUME NEW d \in Clients, CreateSession(d) PROVE P
  BY <1>5 DEF CreateSession, TypeOK, Client
<1>6. ASSUME NEW d \in Clients, NEW i \in Chunks, ChunkStart(d, i) PROVE P
  BY <1>2, <1>6 DEF ChunkStart, TypeOK, Client
<1>7. ASSUME NEW d \in Clients, NEW lost \in BOOLEAN, ChunkTouch(d) \/ ChunkEnd(d, lost) PROVE P
  BY <1>7 DEF ChunkTouch, ChunkEnd, TypeOK, Client
<1>8. ASSUME NEW d \in Clients, CompleteStart(d) \/ Assemble(d) \/ PutWhole(d) PROVE P
  BY <1>2, <1>8 DEF CompleteStart, Assemble, PutWhole, TypeOK, Client
<1>9. ASSUME NEW d \in Clients, Place(d) \/ TornRead(d) PROVE P
  BY <1>2, <1>9 DEF Place, TornRead, TypeOK, Client
<1>10. ASSUME NEW d \in Clients, BannedRefused(d) \/ S3Fails(d) \/ Commit(d) \/ GcRemovePart(d) PROVE P
  BY <1>2, <1>10 DEF BannedRefused, S3Fails, Commit, GcRemovePart
<1>11. ASSUME NEW d \in Clients, NEW h \in Shas, NEW wrong \in BOOLEAN, Upload(d, h, wrong) PROVE P
  BY <1>11 DEF Upload, TypeOK, Client
<1>12. CASE Restart
  <2>1. CASE client[c].pc \in Serving
    <3> DEFINE r == [client[c] EXCEPT !.pc = "failed", !.sid = None, !.received = {},
                                      !.index = None, !.wrong = FALSE]
    <3>1. r.pc = "failed"
      BY DEF TypeOK, Client
    <3>2. client'[c] = r
      BY <1>12, <2>1 DEF Restart
    <3> HIDE DEF r
    <3> QED
      BY <3>1, <3>2
  <2>2. CASE client[c].pc \notin Serving
    BY <1>0, <1>12, <2>2 DEF Restart
  <2> QED
    BY <2>1, <2>2
<1> QED
  BY <1>0, <1>3, <1>4, <1>5, <1>6, <1>7, <1>8, <1>9, <1>10, <1>11, <1>12, ZenonT(60)
  DEF Next, vars, ClientStep, UploadArtifact, Decide, Ban, RegisterCheck, RegisterWrite,
      GcSnapshot, GcStep, GcList, GcEnd, GcRemove, Expire

\* What is analysed stays whole, or is raced.
LEMMA AnalysedStep ==
  ASSUME TypeOK, ClientInv, Analysed, [Next]_vars
  PROVE  Analysed'
<1> SUFFICES ASSUME NEW c \in Clients, client'[c].pc = "commit"
             PROVE  object'[client'[c].sha] = "whole" \/ client'[c].sha \in raced'
  BY DEF Analysed
<1>1. CASE UNCHANGED <<object, raced>> /\ object[client'[c].sha] = "whole"
  BY <1>1
<1>2. CASE client[c].pc = "commit" /\ client'[c].sha = client[c].sha
  <2> DEFINE g == client[c].sha
  <2>1. g \in Shas
    BY <1>2 DEF ClientInv
  <2>2. object[g] = "whole" \/ g \in raced
    BY <1>2 DEF Analysed
  <2> QED
    BY <1>2, <2>1, <2>2, ObjectStep
<1> QED
  BY <1>1, <1>2, CommitStep

\* Reviewed artifacts are whole or raced, and what is used or about to be is reviewed.
LEMMA KeptStep ==
  ASSUME TypeOK, ClientInv, KeptInv, [Next]_vars
  PROVE  ReferencedIsKept'
<1> SUFFICES ASSUME NEW g \in Shas
             PROVE  /\ g \in used' \cup checking' => review'[g] # None
                    /\ review'[g] # None => object'[g] = "whole" \/ g \in raced'
  BY DEF ReferencedIsKept
<1>1. review[g] # None => review'[g] # None
  BY ReviewStep
<1>2. g \in used' \cup checking' => review'[g] # None
  BY <1>1, UseStep DEF KeptInv, ReferencedIsKept
<1>3. ASSUME review[g] # None
      PROVE  object'[g] = "whole" \/ g \in raced'
  <2>1. object[g] = "whole" \/ g \in raced
    BY <1>3 DEF KeptInv, ReferencedIsKept
  <2>2. gc.pc = "removing" /\ g \in gc.todo => g \in raced
    BY <1>3 DEF KeptInv, Known
  <2> QED
    BY <2>1, <2>2, ObjectStep
<1>4. ASSUME review[g] = None, review'[g] # None
      PROVE  object'[g] = "whole" \/ g \in raced'
  <2>1. PICK c \in Clients : client[c].pc = "commit" /\ client[c].sha = g
    BY <1>4, ReviewStep
  <2>2. object[g] = "whole" \/ g \in raced
    BY <2>1 DEF KeptInv, Analysed
  <2>3. object'[g] = object[g] /\ (g \in raced' \/ g \notin raced)
    BY <1>4, ReviewStep
  <2> QED
    BY <2>2, <2>3
<1> QED
  BY <1>2, <1>3, <1>4

\* A collection goes on knowing what is reviewed.
LEMMA KnownStep ==
  ASSUME TypeOK, ClientInv, Known, [Next]_vars
  PROVE  Known'
<1>1. CASE UNCHANGED gc
  <2> SUFFICES ASSUME gc.pc # "idle", NEW g \in Shas, g \notin raced', review'[g] # None
               PROVE  g \in gc.known
    BY <1>1 DEF Known
  <2>1. CASE review[g] = None
    BY <2>1, ReviewStep DEF Overlooked
  <2>2. CASE review[g] # None /\ g \notin raced
    BY <2>2 DEF Known
  <2>3. CASE g \in raced
    <3>1. ~Overlooked(g) \/ (gc.pc = "removing" /\ g \in gc.todo /\ (g \in raced => g \in raced'))
      BY <2>3, ObjectStep
    <3> QED
      BY <2>3, <3>1 DEF Overlooked
  <2> QED
    BY <2>1, <2>2, <2>3
<1>2. CASE GcSnapshot
  BY <1>2 DEF GcSnapshot, Known, Referenced, state
<1>3. CASE GcList
  BY <1>3 DEF GcList, Known, state, TypeOK, Gc
<1>4. CASE GcEnd
  BY <1>4 DEF GcEnd, Known
<1>5. ASSUME NEW h \in Shas, GcRemove(h) PROVE Known'
  BY <1>5 DEF GcRemove, Known, state, TypeOK, Gc
<1>6. CASE Restart
  BY <1>6 DEF Restart, Known
<1>7. ASSUME NEW c \in Clients, ClientStep(c) PROVE UNCHANGED gc
  BY <1>7
  DEF ClientStep, UploadArtifact, LoadSession, CreateSession, BannedRefused, PutWhole, ChunkStart,
      ChunkTouch, ChunkEnd, CompleteStart, Assemble, Place, Analyse, Commit
<1> QED
  BY <1>1, <1>2, <1>3, <1>4, <1>5, <1>6, <1>7
  DEF Next, vars, Upload, ChunkEnd, S3Fails, TornRead, Decide, Ban, RegisterCheck, RegisterWrite,
      GcStep, GcRemovePart, Expire

\* What a mod version or a content names, or is about to, stays reviewed, and a reviewed
\* artifact stays on the disk, unless a collection that had read the references before
\* its review was written removed the file after it was analysed, or had not ended by then.
THEOREM KeptCorrect == Spec => []ReferencedIsKept
<1>1. Init => KeptInv
  BY DEF Init, KeptInv, Known, Analysed, ReferencedIsKept
<1>2. TypeOK /\ ClientInv /\ KeptInv /\ [Next]_vars => KeptInv'
  BY KnownStep, KeptStep, AnalysedStep DEF KeptInv
<1>3. KeptInv => ReferencedIsKept
  BY DEF KeptInv
<1> QED
  BY <1>1, <1>2, <1>3, UploadsTyped, PTL DEF Spec

(***************************************************************************)
(* The page of the console where mods are looked after: what it uploads,   *)
(* the archive it registers, and the content slots whose lists it writes.  *)
(***************************************************************************)
CONSTANTS NoMod, NewMod, Slots, NoSlot, Old, Archives, Submissions, MaxEdits, MaxTrouble
VARIABLES revision, route, creating, shown, list, base, loads, form, upload, asking, answer, batch,
          edits, trouble, mixed

Page == INSTANCE ModEditing WITH Files <- Submissions

\* The types of each part, and what is under way has a mod.
RoutesTyped ==
  /\ artifact \in [Mods -> Archives \cup {NoArchive}]
  /\ slots \in [Mods -> SUBSET Slots] /\ contents \subseteq Page!Content /\ revision \in [Mods -> Nat]
LookTyped ==
  /\ route \in Mods \cup {NoMod} /\ shown \in Mods \cup {NoMod} /\ creating \in BOOLEAN
  /\ list \subseteq Slots /\ base \in Nat /\ loads \subseteq Mods
FormTyped ==
  /\ form \in Page!Form
  /\ upload \in [archive : Archives \cup {NoArchive}, mod : Mods \cup {NoMod}]
AskingTyped ==
  /\ asking \in [slot : Slots \cup {NoSlot}, mod : Mods \cup {NoMod}]
  /\ asking # Page!NotAsking => asking.mod \in Mods /\ asking.slot \in Slots
AnswerTyped ==
  /\ answer \in [mod : Mods \cup {NoMod}, slots : SUBSET Slots, revision : Nat]
  /\ answer # Page!NoAnswer => answer.mod \in Mods
BatchTyped ==
  /\ batch \in [mod : Mods \cup {NoMod}, slot : Slots \cup {NoSlot}, todo : SUBSET Submissions, created : BOOLEAN]
ClicksTyped == edits \in 0..MaxEdits /\ trouble \in 0..MaxTrouble
PastTyped ==
  /\ unwanted \subseteq Page!Content /\ overlooked \subseteq Page!Content
  /\ stale \in BOOLEAN /\ crossed \in BOOLEAN /\ mixed \in BOOLEAN

\* The parameters and all types.
PageSound ==
  /\ Page!ModEditingAssumption /\ RoutesTyped /\ LookTyped /\ FormTyped /\ AskingTyped /\ AnswerTyped
  /\ BatchTyped /\ ClicksTyped /\ PastTyped

\* Together they are the type invariant.
LEMMA PageTyped == PageSound => Page!TypeOK
BY Zenon DEF PageSound, Page!TypeOK, RoutesTyped, LookTyped, FormTyped, AskingTyped, AnswerTyped, BatchTyped,
             ClicksTyped, PastTyped

\* The parameters as the proofs use them.
LEMMA PageConstants ==
  ASSUME Page!ModEditingAssumption
  PROVE  /\ NewMod \in Mods /\ NoMod \notin Mods /\ Old \in Slots /\ NoSlot \notin Slots
         /\ NoArchive \notin Archives /\ MaxEdits \in Nat /\ MaxTrouble \in Nat
         /\ \A m \in Mods : Meant[m] \subseteq Archives /\ Meant[m] # {}
         /\ Page!Blank \in Page!Form
BY DEF Page!ModEditingAssumption, Page!Blank, Page!Form

\* What the page starts with.
LEMMA PageInit ==
  ASSUME Page!ModEditingAssumption, Page!Init
  PROVE  PageSound
<1>1. ASSUME NEW m \in Mods PROVE (CHOOSE a \in Meant[m] : TRUE) \in Archives
  <2>1. Meant[m] \subseteq Archives /\ Meant[m] # {}
    BY PageConstants
  <2> QED
    BY <2>1
<1>2. artifact \in [Mods -> Archives \cup {NoArchive}]
  <2> DEFINE a(m) == IF m = NewMod THEN NoArchive ELSE CHOOSE x \in Meant[m] : TRUE
  <2>1. \A m \in Mods : a(m) \in Archives \cup {NoArchive}
    BY <1>1
  <2>2. artifact = [m \in Mods |-> a(m)]
    BY DEF Page!Init
  <2> HIDE DEF a
  <2> QED
    BY <2>1, <2>2
<1>3. RoutesTyped
  BY <1>2, PageConstants DEF RoutesTyped, Page!Init
<1>4. LookTyped /\ ClicksTyped
  <2>1. MaxEdits \in Nat /\ MaxTrouble \in Nat
    BY PageConstants
  <2>2. LookTyped
    BY DEF LookTyped, Page!Init
  <2> QED
    BY <2>1, <2>2 DEF ClicksTyped, Page!Init
<1>5. FormTyped
  BY PageConstants DEF FormTyped, Page!Init, Page!NoUpload
<1>6. AskingTyped /\ AnswerTyped /\ BatchTyped /\ PastTyped
  BY DEF AskingTyped, AnswerTyped, BatchTyped, PastTyped, Page!Init, Page!NotAsking, Page!NoAnswer, Page!NoBatch
<1> QED
  BY <1>3, <1>4, <1>5, <1>6 DEF PageSound

\* The mod of the address is a mod, and so is what is asked for again.
LEMMA CurrentTyped ==
  ASSUME PageSound
  PROVE  /\ Page!Current \in Mods \cup {NoMod}
         /\ Page!Reloads => loads' \subseteq Mods
BY PageConstants DEF PageSound, LookTyped, Page!Current, Page!Reloads

\* A change of the slots of a mod keeps the types of what the routes keep.
LEMMA RoutesChange ==
  ASSUME RoutesTyped, NEW m \in Mods, NEW new \in SUBSET Slots,
         slots' = [slots EXCEPT ![m] = new], revision' = [revision EXCEPT ![m] = @ + 1],
         contents' \subseteq contents,
         artifact' = artifact \/ \E a \in Archives \cup {NoArchive} : artifact' = [artifact EXCEPT ![m] = a]
  PROVE  RoutesTyped'
BY DEF RoutesTyped, Page!Content

\* What is submitted for some slots of a mod is what can be submitted.
LEMMA AllTyped ==
  ASSUME NEW m \in Mods, NEW some \in SUBSET Slots
  PROVE  Page!All(m, some) \subseteq Page!Content
BY DEF Page!All, Page!Content

\* The page keeps the types.
LEMMA PageStep ==
  ASSUME PageSound, [Page!Next]_(Page!vars)
  PROVE  PageSound'
<1> USE DEF Page!api, Page!page, Page!history
<1>0. /\ RoutesTyped /\ LookTyped /\ FormTyped /\ AskingTyped /\ AnswerTyped /\ BatchTyped /\ ClicksTyped
      /\ PastTyped /\ Page!ModEditingAssumption
  BY DEF PageSound
<1>1. /\ NewMod \in Mods /\ NoMod \notin Mods /\ Old \in Slots /\ NoSlot \notin Slots
      /\ NoArchive \notin Archives /\ MaxEdits \in Nat /\ MaxTrouble \in Nat
      /\ (\A m \in Mods : Meant[m] \subseteq Archives) /\ Page!Blank \in Page!Form
      /\ Page!Current \in Mods \cup {NoMod} /\ (Page!Reloads => loads' \subseteq Mods)
  BY <1>0, PageConstants, CurrentTyped
<1>2. UNCHANGED Page!api => RoutesTyped'
  BY <1>0 DEF RoutesTyped, Page!Content
<1>3. UNCHANGED <<route, creating, shown, list, base>> /\ loads' \subseteq Mods => LookTyped'
  BY <1>0 DEF LookTyped
<1>4. UNCHANGED <<form, upload>> => FormTyped'
  BY <1>0 DEF FormTyped, Page!Form
<1>5. UNCHANGED asking => AskingTyped'
  BY <1>0 DEF AskingTyped, Page!NotAsking
<1>6. UNCHANGED answer => AnswerTyped'
  BY <1>0 DEF AnswerTyped, Page!NoAnswer
<1>7. UNCHANGED batch => BatchTyped'
  BY <1>0 DEF BatchTyped
<1>8. /\ Page!Edit /\ UNCHANGED trouble => ClicksTyped'
      /\ Page!Trouble /\ UNCHANGED edits => ClicksTyped'
      /\ UNCHANGED <<edits, trouble>> => ClicksTyped'
  BY <1>0, <1>1 DEF ClicksTyped, Page!Edit, Page!Trouble
<1>9. UNCHANGED Page!history => PastTyped'
  BY <1>0 DEF PastTyped, Page!Content
<1>10. loads \subseteq Mods /\ (UNCHANGED loads => loads' \subseteq Mods)
  BY <1>0 DEF LookTyped
<1> DEFINE Typed == RoutesTyped' /\ LookTyped' /\ FormTyped' /\ AskingTyped' /\ AnswerTyped' /\ BatchTyped'
                    /\ ClicksTyped' /\ PastTyped'
<1>11. ASSUME Typed PROVE PageSound'
  <2>1. Page!ModEditingAssumption'
    BY <1>0 DEF Page!ModEditingAssumption
  <2> QED
    BY <1>11, <2>1, Zenon DEF PageSound
<1> SUFFICES Typed
  BY <1>11
<1>20. ASSUME NEW m \in Mods, Page!Fills(m) PROVE form' \in Page!Form
  <2>1. artifact[m] \in Archives \cup {NoArchive} /\ slots[m] \in SUBSET Slots /\ revision[m] \in Nat
    BY <1>0 DEF RoutesTyped
  <2>2. form' = [id |-> m, archive |-> artifact[m], slots |-> slots[m], suggested |-> slots[m],
                 unticked |-> {}, base |-> revision[m]]
    BY <1>20 DEF Page!Fills, Page!Filled
  <2> QED
    BY <2>1, <2>2 DEF Page!Form
<1>21. ASSUME NEW m \in Mods, Page!Select(m) \/ Page!LoadFails(m) PROVE Typed
  <2>1. LookTyped'
    BY <1>0, <1>21 DEF LookTyped, Page!Select, Page!LoadFails
  <2> QED
    BY <1>2, <1>4, <1>5, <1>6, <1>7, <1>8, <1>9, <1>21, <2>1 DEF Page!Select, Page!LoadFails
<1>22. ASSUME NEW m \in Mods, Page!LoadArrives(m) PROVE Typed
  <2>1. LookTyped'
    <3>1. slots[m] \subseteq Slots /\ revision[m] \in Nat
      BY <1>0 DEF RoutesTyped
    <3> QED
      BY <1>0, <1>22, <3>1 DEF LookTyped, Page!LoadArrives
  <2>2. FormTyped'
    BY <1>0, <1>20, <1>22 DEF FormTyped, Page!LoadArrives, Page!Form
  <2>3. PastTyped'
    BY <1>0, <1>22 DEF PastTyped, Page!LoadArrives, Page!Content
  <2> QED
    BY <1>2, <1>5, <1>6, <1>7, <1>8, <1>22, <2>1, <2>2, <2>3 DEF Page!LoadArrives
<1>23. CASE Page!Leave
  <2>1. LookTyped'
    BY <1>0, <1>23 DEF LookTyped, Page!Leave
  <2> QED
    BY <1>2, <1>4, <1>5, <1>6, <1>7, <1>8, <1>9, <1>23, <2>1 DEF Page!Leave
<1>24. CASE Page!StartCreate
  <2>1. LookTyped' /\ FormTyped'
    BY <1>0, <1>1, <1>24 DEF LookTyped, FormTyped, Page!StartCreate, Page!Form
  <2>2. PastTyped'
    BY <1>0, <1>24 DEF PastTyped, Page!StartCreate, Page!Content
  <2> QED
    BY <1>2, <1>5, <1>6, <1>7, <1>8, <1>24, <2>1, <2>2 DEF Page!StartCreate
<1>25. CASE Page!Type
  <2>1. FormTyped'
    BY <1>0, <1>1, <1>25 DEF FormTyped, Page!Type, Page!Form
  <2> QED
    BY <1>2, <1>3, <1>5, <1>6, <1>7, <1>8, <1>9, <1>10, <1>25, <2>1 DEF Page!Type
<1>42. ASSUME NEW s \in Slots, Page!Tick(s) \/ Page!Untick(s) PROVE Typed
  <2>1. form.slots \subseteq Slots /\ form.suggested \subseteq Slots /\ form.unticked \subseteq Slots
    BY <1>0 DEF FormTyped, Page!Form
  <2>2. form' \in Page!Form
    <3>1. CASE Page!Tick(s)
      <4>1. /\ form.slots \cup {s} \subseteq Slots /\ form.suggested \cup {s} \subseteq Slots
            /\ form.unticked \ {s} \subseteq Slots
        BY <2>1
      <4> QED
        BY <1>0, <3>1, <4>1 DEF FormTyped, Page!Tick, Page!Form
    <3>2. CASE Page!Untick(s)
      <4>1. form.slots \ {s} \subseteq Slots /\ form.unticked \cup {s} \subseteq Slots
        BY <2>1
      <4> QED
        BY <1>0, <3>2, <4>1 DEF FormTyped, Page!Untick, Page!Form
    <3> QED
      BY <1>42, <3>1, <3>2
  <2>3. FormTyped'
    BY <1>0, <1>42, <2>2 DEF FormTyped, Page!Tick, Page!Untick
  <2> QED
    BY <1>2, <1>3, <1>5, <1>6, <1>7, <1>8, <1>9, <1>10, <1>42, <2>3 DEF Page!Tick, Page!Untick
<1>26. ASSUME NEW a \in Archives, Page!Upload(a) PROVE Typed
  <2>1. FormTyped'
    BY <1>0, <1>26 DEF FormTyped, Page!Upload, Page!Form
  <2> QED
    BY <1>2, <1>3, <1>5, <1>6, <1>7, <1>8, <1>9, <1>10, <1>26, <2>1 DEF Page!Upload
<1>27. CASE Page!UploadEnds
  <2>1. FormTyped'
    <3>1. PICK found \in SUBSET Slots, id \in IF form.id = NoMod THEN {NoMod, upload.mod} ELSE {form.id} :
            form' = [form EXCEPT !.id = id, !.archive = upload.archive,
                                 !.slots = IF form.slots = {} THEN found ELSE form.slots,
                                 !.suggested = IF found = {} THEN form.suggested ELSE found]
      BY <1>27 DEF Page!UploadEnds
    <3>2. /\ form.slots \subseteq Slots /\ form.suggested \subseteq Slots /\ id \in Mods \cup {NoMod}
          /\ upload.archive \in Archives \cup {NoArchive}
      BY <1>0, <1>1 DEF FormTyped, Page!Form
    <3>3. form' \in Page!Form
      BY <1>0, <3>1, <3>2 DEF FormTyped, Page!Form
    <3> QED
      BY <1>27, <3>3 DEF FormTyped, Page!UploadEnds, Page!NoUpload, Page!Form
  <2>2. PastTyped'
    <3>1. mixed' \in BOOLEAN
      BY <1>27, Zenon DEF Page!UploadEnds
    <3> QED
      BY <1>0, <1>27, <3>1 DEF PastTyped, Page!UploadEnds, Page!Content
  <2> QED
    BY <1>2, <1>3, <1>5, <1>6, <1>7, <1>8, <1>10, <1>27, <2>1, <2>2 DEF Page!UploadEnds
<1>28. CASE Page!UploadFails
  <2>1. FormTyped'
    BY <1>0, <1>28 DEF FormTyped, Page!UploadFails, Page!NoUpload, Page!Form
  <2> QED
    BY <1>2, <1>3, <1>5, <1>6, <1>7, <1>8, <1>9, <1>10, <1>28, <2>1 DEF Page!UploadFails
<1>29. CASE Page!RegisterMod
  <2>1. /\ form.id \in Mods /\ form.archive \in Archives \cup {NoArchive}
        /\ Page!Selected \subseteq Slots /\ form.unticked \subseteq Slots
        /\ form.slots \ form.suggested \subseteq Slots
    BY <1>0, <1>29 DEF FormTyped, Page!RegisterMod, Page!Form, Page!Selected
  <2>2. RoutesTyped'
    BY <1>0, <1>29, <2>1, RoutesChange DEF Page!RegisterMod, Page!Registers
  <2>3. LookTyped'
    BY <1>0, <1>29, <2>1 DEF LookTyped, Page!RegisterMod
  <2>4. PastTyped'
    <3>1. crossed' \in BOOLEAN /\ stale' \in BOOLEAN
      BY <1>29, Zenon DEF Page!RegisterMod, Page!Registers
    <3>2. unwanted' \subseteq Page!Content /\ overlooked' \subseteq Page!Content
      BY <1>29, <2>1, AllTyped DEF Page!RegisterMod
    <3>3. mixed' = mixed
      BY <1>29 DEF Page!RegisterMod
    <3> QED
      BY <1>0, <3>1, <3>2, <3>3 DEF PastTyped, Page!Content
  <2> QED
    BY <1>4, <1>5, <1>6, <1>7, <1>8, <1>29, <2>2, <2>3, <2>4 DEF Page!RegisterMod
<1>30. ASSUME NEW s \in Slots, Page!AddSlot(s) PROVE Typed
  <2>1. Page!Current \in Mods /\ Page!With(s) \subseteq Slots /\ revision[Page!Current] \in Nat
    BY <1>0, <1>30 DEF RoutesTyped, LookTyped, Page!AddSlot, Page!With, Page!Registered
  <2>2. RoutesTyped'
    BY <1>0, <1>30, <2>1, RoutesChange DEF Page!AddSlot, Page!Puts
  <2>3. AnswerTyped'
    BY <1>30, <2>1 DEF AnswerTyped, Page!AddSlot, Page!NoAnswer
  <2>4. PastTyped'
    <3>1. crossed' \in BOOLEAN /\ stale' \in BOOLEAN
      BY <1>30, Zenon DEF Page!AddSlot, Page!Puts
    <3> QED
      BY <1>0, <1>30, <3>1 DEF PastTyped, Page!AddSlot, Page!Puts, Page!Content
  <2> QED
    BY <1>3, <1>4, <1>5, <1>7, <1>8, <1>10, <1>30, <2>2, <2>3, <2>4 DEF Page!AddSlot
<1>31. CASE Page!AddAnswered
  <2>1. LookTyped'
    BY <1>0, <1>1, <1>31 DEF LookTyped, AnswerTyped, Page!AddAnswered
  <2>2. AnswerTyped'
    BY <1>31 DEF AnswerTyped, Page!AddAnswered, Page!NoAnswer
  <2>3. PastTyped'
    <3>1. crossed' \in BOOLEAN
      BY <1>31, Zenon DEF Page!AddAnswered
    <3> QED
      BY <1>0, <1>31, <3>1 DEF PastTyped, Page!AddAnswered, Page!Content
  <2> QED
    BY <1>2, <1>4, <1>5, <1>7, <1>8, <1>31, <2>1, <2>2, <2>3 DEF Page!AddAnswered
<1>32. ASSUME NEW s \in Slots, Page!RemoveSlot(s) PROVE Typed
  <2>1. AskingTyped'
    BY <1>0, <1>32 DEF AskingTyped, LookTyped, Page!RemoveSlot, Page!NotAsking, Page!Listed
  <2> QED
    BY <1>2, <1>3, <1>4, <1>6, <1>7, <1>8, <1>9, <1>10, <1>32, <2>1 DEF Page!RemoveSlot
<1>33. CASE Page!RemoveConfirmed
  <2>1. AskingTyped'
    BY <1>33 DEF AskingTyped, Page!RemoveConfirmed, Page!NotAsking
  <2>2. CASE Page!Current \in Page!Registered
    <3>1. Page!Current \in Mods /\ Page!Deletes(Page!Current, asking.slot) /\ Page!Reloads
      BY <1>33, <2>2 DEF Page!RemoveConfirmed, Page!Registered
    <3>2. slots[Page!Current] \ {asking.slot} \subseteq Slots
      BY <1>0, <3>1 DEF RoutesTyped
    <3>3. RoutesTyped'
      BY <1>0, <3>1, <3>2, RoutesChange DEF Page!Deletes
    <3>4. slots'[Page!Current] \subseteq Slots /\ revision'[Page!Current] \in Nat
      BY <3>1, <3>3 DEF RoutesTyped
    <3>5. LookTyped'
      BY <1>0, <1>1, <1>33, <2>2, <3>1, <3>4 DEF LookTyped, Page!RemoveConfirmed
    <3>6. PastTyped'
      <4>1. crossed' \in BOOLEAN
        BY <1>33, <2>2, Zenon DEF Page!RemoveConfirmed
      <4>2. stale' \in BOOLEAN /\ overlooked' = {}
        BY <3>1 DEF Page!Deletes
      <4>3. unwanted' = Page!All(asking.mod, {asking.slot}) /\ UNCHANGED mixed
            /\ asking.mod \in Mods /\ asking.slot \in Slots
        BY <1>0, <1>33, <2>2 DEF AskingTyped, Page!RemoveConfirmed
      <4>4. unwanted' \subseteq Page!Content
        BY <4>3, AllTyped
      <4> QED
        BY <1>0, <4>1, <4>2, <4>3, <4>4 DEF PastTyped, Page!Content
    <3> QED
      BY <1>4, <1>6, <1>7, <1>8, <1>33, <2>1, <3>3, <3>5, <3>6 DEF Page!RemoveConfirmed
  <2>3. CASE Page!Current \notin Page!Registered
    <3>1. UNCHANGED <<Page!api, route, creating, shown, list, base, loads, Page!history>>
      BY <1>33, <2>3 DEF Page!RemoveConfirmed
    <3> QED
      BY <1>2, <1>3, <1>4, <1>6, <1>7, <1>8, <1>9, <1>10, <1>33, <2>1, <3>1 DEF Page!RemoveConfirmed
  <2> QED
    BY <2>2, <2>3
<1>34. CASE Page!RemoveRefused
  <2>1. AskingTyped'
    BY <1>34 DEF AskingTyped, Page!RemoveRefused, Page!NotAsking
  <2> QED
    BY <1>2, <1>3, <1>4, <1>6, <1>7, <1>8, <1>9, <1>10, <1>34, <2>1 DEF Page!RemoveRefused
<1>35. ASSUME NEW s \in Slots, NEW files \in SUBSET Submissions, Page!Submit(s, files) PROVE Typed
  <2>1. BatchTyped'
    BY <1>1, <1>35 DEF BatchTyped, Page!Submit
  <2> QED
    BY <1>2, <1>3, <1>4, <1>5, <1>6, <1>8, <1>9, <1>10, <1>35, <2>1 DEF Page!Submit
<1>36. ASSUME NEW f \in Submissions, Page!FileRefused(f) PROVE Typed
  <2>1. BatchTyped'
    BY <1>0, <1>36 DEF BatchTyped, Page!FileRefused
  <2> QED
    BY <1>2, <1>3, <1>4, <1>5, <1>6, <1>8, <1>9, <1>10, <1>36, <2>1 DEF Page!FileRefused
<1>37. ASSUME NEW f \in Submissions, Page!FileCreated(f) PROVE Typed
  <2>1. BatchTyped'
    BY <1>0, <1>37 DEF BatchTyped, Page!FileCreated
  <2>2. RoutesTyped'
    <3>1. batch.mod \in Mods /\ batch.slot \in Slots
      BY <1>0, <1>37 DEF RoutesTyped, Page!FileCreated, Page!Accepts, Page!Registered
    <3> QED
      BY <1>0, <1>37, <3>1 DEF RoutesTyped, Page!FileCreated, Page!Content
  <2>3. PastTyped'
    BY <1>0, <1>37 DEF PastTyped, Page!FileCreated, Page!Content
  <2> QED
    BY <1>3, <1>4, <1>5, <1>6, <1>8, <1>10, <1>37, <2>1, <2>2, <2>3 DEF Page!FileCreated
<1>38. CASE Page!BatchEnds
  <2>1. BatchTyped' /\ loads' \subseteq Mods
    BY <1>1, <1>10, <1>38 DEF BatchTyped, Page!BatchEnds, Page!NoBatch
  <2> QED
    BY <1>2, <1>3, <1>4, <1>5, <1>6, <1>8, <1>9, <1>38, <2>1 DEF Page!BatchEnds
<1>39. ASSUME NEW k \in contents, Page!DeleteContent(k) PROVE Typed
  <2>1. RoutesTyped' /\ PastTyped'
    BY <1>0, <1>39 DEF RoutesTyped, PastTyped, Page!DeleteContent, Page!Content
  <2> QED
    BY <1>1, <1>3, <1>4, <1>5, <1>6, <1>7, <1>8, <1>39, <2>1 DEF Page!DeleteContent
<1>40. ASSUME NEW m \in Mods, NEW s \in Slots, Page!OtherAdds(m, s) PROVE Typed
  <2>1. slots[m] \cup {s} \subseteq Slots
    BY <1>0 DEF RoutesTyped
  <2>2. RoutesTyped'
    BY <1>0, <1>40, <2>1, RoutesChange DEF Page!OtherAdds, Page!Puts
  <2>3. PastTyped'
    <3>1. stale' \in BOOLEAN
      BY <1>40, Zenon DEF Page!OtherAdds, Page!Puts
    <3> QED
      BY <1>0, <1>40, <3>1 DEF PastTyped, Page!OtherAdds, Page!Puts, Page!Content
  <2> QED
    BY <1>3, <1>4, <1>5, <1>6, <1>7, <1>8, <1>10, <1>40, <2>2, <2>3 DEF Page!OtherAdds
<1>41. CASE UNCHANGED Page!vars
  BY <1>2, <1>3, <1>4, <1>5, <1>6, <1>7, <1>8, <1>9, <1>10, <1>41 DEF Page!vars
<1> QED
  BY <1>21, <1>22, <1>23, <1>24, <1>25, <1>26, <1>27, <1>28, <1>29, <1>30, <1>31, <1>32, <1>33, <1>34, <1>35,
     <1>36, <1>37, <1>38, <1>39, <1>40, <1>41, <1>42, Zenon DEF Page!Next

\* The page of the mods is well typed at every step.
THEOREM PageIsTyped ==
  ASSUME Page!ModEditingAssumption
  PROVE  Page!Spec => []Page!TypeOK
<1>1. Page!Init => PageSound
  BY PageInit
<1>2. PageSound /\ [Page!Next]_(Page!vars) => PageSound'
  BY PageStep
<1>3. PageSound => Page!TypeOK
  BY PageTyped
<1> QED
  BY <1>1, <1>2, <1>3, PTL DEF Page!Spec

(***************************************************************************)
(* Archives.  The one in the form, and the one under way, are those of     *)
(* their mods, until an upload ends in the form of another.                *)
(***************************************************************************)
Meaning ==
  /\ Page!RightArchive
  /\ ~crossed /\ ~mixed /\ form.archive # NoArchive =>
       form.archive \in Meant[IF form.id = NoMod THEN NewMod ELSE form.id]
  /\ upload # Page!NoUpload => upload.mod \in Mods /\ upload.archive \in Meant[upload.mod]

\* At first, each mod has an archive of its own.
LEMMA MeaningInit ==
  ASSUME Page!ModEditingAssumption, Page!Init
  PROVE  Meaning
<1>1. \A m \in Mods : (CHOOSE a \in Meant[m] : TRUE) \in Meant[m]
  BY PageConstants
<1>2. \A m \in Page!Registered : artifact[m] \in Meant[m]
  BY <1>1 DEF Page!Registered, Page!Init
<1> QED
  BY <1>2 DEF Meaning, Page!RightArchive, Page!Init, Page!Blank, Page!NoUpload

\* So it stays, unless that happened.
LEMMA MeaningStep ==
  ASSUME PageSound, Meaning, [Page!Next]_(Page!vars)
  PROVE  Meaning'
<1> USE DEF Page!api, Page!page, Page!history
<1>0. RoutesTyped /\ FormTyped /\ Page!ModEditingAssumption
  BY DEF PageSound
<1>1. UNCHANGED <<artifact, form, upload, mixed>> /\ (crossed => crossed') => Meaning'
  BY DEF Meaning, Page!RightArchive, Page!Registered, Page!NoUpload
<1>2. ASSUME UNCHANGED <<artifact, crossed>> PROVE Page!RightArchive'
  BY <1>2 DEF Meaning, Page!RightArchive, Page!Registered
<1>3. ASSUME NEW m \in Mods, Page!LoadArrives(m) PROVE Meaning'
  <2>1. ~crossed => artifact[m] \in Meant[m]
    BY <1>3 DEF Meaning, Page!RightArchive, Page!LoadArrives, Page!Registered
  <2>2. m # NoMod
    BY <1>0, PageConstants
  <2> QED
    BY <1>2, <1>3, <2>1, <2>2 DEF Meaning, Page!LoadArrives, Page!Fills, Page!Filled, Page!NoUpload
<1>4. CASE Page!StartCreate
  BY <1>2, <1>4 DEF Meaning, Page!StartCreate, Page!Blank, Page!NoUpload
<1>5. CASE Page!Type
  <2>1. form'.archive = form.archive /\ form.id = NoMod /\ form'.id = NewMod
    BY <1>0, <1>5 DEF FormTyped, Page!Form, Page!Type
  <2>2. UNCHANGED <<crossed, mixed, upload>> /\ NewMod # NoMod
    BY <1>0, <1>5, PageConstants DEF Page!Type
  <2> QED
    BY <1>2, <1>5, <2>1, <2>2 DEF Meaning, Page!Type, Page!NoUpload
<1>18. ASSUME NEW s \in Slots, Page!Tick(s) \/ Page!Untick(s) PROVE Meaning'
  <2>1. form'.archive = form.archive /\ form'.id = form.id
    BY <1>0, <1>18 DEF FormTyped, Page!Form, Page!Tick, Page!Untick
  <2>2. UNCHANGED <<artifact, crossed, mixed, upload>>
    BY <1>18 DEF Page!Tick, Page!Untick
  <2> QED
    BY <1>2, <2>1, <2>2 DEF Meaning, Page!NoUpload
<1>6. ASSUME NEW a \in Archives, Page!Upload(a) PROVE Meaning'
  <2> DEFINE m == IF form.id = NoMod THEN NewMod ELSE form.id
  <2>1. m \in Mods /\ a \in Meant[m] /\ upload' = [archive |-> a, mod |-> m]
    BY <1>0, <1>6, PageConstants DEF FormTyped, Page!Form, Page!Upload
  <2>2. UNCHANGED <<artifact, form, crossed, mixed>>
    BY <1>6 DEF Page!Upload
  <2> HIDE DEF m
  <2> QED
    BY <1>2, <2>1, <2>2 DEF Meaning
<1>7. CASE Page!UploadEnds
  <2>1. PICK found \in SUBSET Slots, id \in IF form.id = NoMod THEN {NoMod, upload.mod} ELSE {form.id} :
          /\ form' = [form EXCEPT !.id = id, !.archive = upload.archive,
                                  !.slots = IF form.slots = {} THEN found ELSE form.slots,
                                  !.suggested = IF found = {} THEN form.suggested ELSE found]
          /\ mixed' = (upload.mod # IF id = NoMod THEN NewMod ELSE id)
    BY <1>7 DEF Page!UploadEnds
  <2>2. form'.id = id /\ form'.archive = upload.archive
    BY <1>0, <2>1 DEF FormTyped, Page!Form
  <2>3. upload.mod \in Mods /\ upload.archive \in Meant[upload.mod]
    BY <1>7 DEF Meaning, Page!UploadEnds
  <2>4. ~mixed' => upload.mod = IF form'.id = NoMod THEN NewMod ELSE form'.id
    BY <2>1, <2>2
  <2>5. upload' = Page!NoUpload /\ UNCHANGED <<artifact, crossed>>
    BY <1>7 DEF Page!UploadEnds
  <2> QED
    BY <1>2, <2>2, <2>3, <2>4, <2>5 DEF Meaning
<1>8. CASE Page!UploadFails
  BY <1>2, <1>8 DEF Meaning, Page!UploadFails, Page!NoUpload
<1>9. CASE Page!RegisterMod
  <2>1. form.id \in Mods /\ artifact' = [artifact EXCEPT ![form.id] = form.archive] /\ form.archive # NoArchive
    BY <1>0, <1>9 DEF FormTyped, Page!Form, Page!RegisterMod, Page!Registers
  <2>2. crossed' = (crossed \/ mixed) /\ UNCHANGED <<form, upload, mixed>>
    BY <1>9 DEF Page!RegisterMod
  <2>3. ASSUME ~crossed', NEW m \in Page!Registered' PROVE artifact'[m] \in Meant[m]
    <3>1. ~crossed /\ ~mixed /\ m \in Mods
      BY <2>2, <2>3 DEF Page!Registered
    <3>2. CASE m = form.id
      BY <1>0, <2>1, <3>1, <3>2 DEF Meaning, RoutesTyped
    <3>3. CASE m # form.id
      <4>1. artifact'[m] = artifact[m] /\ m \in Page!Registered
        BY <1>0, <2>1, <2>3, <3>1, <3>3 DEF RoutesTyped, Page!Registered
      <4> QED
        BY <3>1, <4>1 DEF Meaning, Page!RightArchive
    <3> QED
      BY <3>2, <3>3
  <2> QED
    BY <2>2, <2>3 DEF Meaning, Page!RightArchive, Page!NoUpload
<1>10. ASSUME NEW s \in Slots, Page!AddSlot(s) \/ Page!RemoveSlot(s) PROVE Meaning'
  BY <1>1, <1>10 DEF Page!AddSlot, Page!RemoveSlot, Page!Puts
<1>11. CASE Page!RemoveConfirmed
  BY <1>1, <1>11 DEF Page!RemoveConfirmed, Page!Deletes
<1>12. CASE Page!AddAnswered \/ Page!RemoveRefused \/ Page!BatchEnds \/ Page!Leave \/ UNCHANGED Page!vars
  <2>1. CASE Page!AddAnswered
    BY <1>1, <2>1 DEF Page!AddAnswered
  <2>2. CASE Page!RemoveRefused \/ Page!BatchEnds \/ Page!Leave \/ UNCHANGED Page!vars
    BY <1>1, <2>2 DEF Page!RemoveRefused, Page!BatchEnds, Page!Leave, Page!vars
  <2> QED
    BY <1>12, <2>1, <2>2
<1>13. ASSUME NEW s \in Slots, NEW files \in SUBSET Submissions, Page!Submit(s, files) PROVE Meaning'
  BY <1>1, <1>13 DEF Page!Submit
<1>14. ASSUME NEW f \in Submissions, Page!FileRefused(f) \/ Page!FileCreated(f) PROVE Meaning'
  BY <1>1, <1>14 DEF Page!FileRefused, Page!FileCreated
<1>15. ASSUME NEW k \in contents, Page!DeleteContent(k) PROVE Meaning'
  BY <1>1, <1>15 DEF Page!DeleteContent
<1>16. ASSUME NEW m \in Mods, NEW s \in Slots, Page!OtherAdds(m, s) PROVE Meaning'
  BY <1>1, <1>16 DEF Page!OtherAdds, Page!Puts
<1>17. ASSUME NEW m \in Mods, Page!Select(m) \/ Page!LoadFails(m) PROVE Meaning'
  BY <1>1, <1>17 DEF Page!Select, Page!LoadFails
<1> QED
  BY <1>3, <1>4, <1>5, <1>6, <1>7, <1>8, <1>9, <1>10, <1>11, <1>12, <1>13, <1>14, <1>15, <1>16, <1>17, <1>18, Zenon
     DEF Page!Next

\* A mod is never given the archive of another (ModsView.vue), for any mods,
\* archives and clicks: unless an upload ended when the form was already about
\* another mod.
THEOREM ArchivesRight ==
  ASSUME Page!ModEditingAssumption
  PROVE  Page!Spec => []RightArchive
<1>1. Page!Init => PageSound /\ Meaning
  BY PageInit, MeaningInit
<1>2. PageSound /\ Meaning /\ [Page!Next]_(Page!vars) => PageSound' /\ Meaning'
  BY PageStep, MeaningStep
<1>3. Meaning => RightArchive
  BY DEF Meaning, Page!RightArchive, Page!Registered, RightArchive, Registered
<1> QED
  BY <1>1, <1>2, <1>3, PTL DEF Page!Spec

(***************************************************************************)
(* What players submitted.  Whatever list the page has was read from its   *)
(* mod: it is older than the mod's, or the same.                           *)
(***************************************************************************)
Reads(mods, rev, l, b, m) == b <= rev[m] /\ (b = rev[m] => l = mods[m])

ListsRead ==
  ~crossed =>
    /\ shown # NoMod => Reads(slots, revision, list, base, shown)
    /\ answer # Page!NoAnswer => Reads(slots, revision, answer.slots, answer.revision, answer.mod)

\* A list that the page keeps stays one that was read, whatever is written.
LEMMA ReadsKept ==
  ASSUME RoutesTyped, NEW m \in Mods, NEW new, NEW l, NEW b \in Nat, NEW n \in Mods,
         slots' = [slots EXCEPT ![m] = new], revision' = [revision EXCEPT ![m] = @ + 1],
         Reads(slots, revision, l, b, n)
  PROVE  Reads(slots', revision', l, b, n)
<1>1. CASE n = m
  <2>1. revision[m] \in Nat /\ revision'[m] = revision[m] + 1 /\ b <= revision[m]
    BY <1>1 DEF RoutesTyped, Reads
  <2>2. b <= revision'[m] /\ b # revision'[m]
    BY <2>1
  <2> QED
    BY <1>1, <2>2 DEF Reads
<1>2. CASE n # m
  BY <1>2 DEF RoutesTyped, Reads
<1> QED
  BY <1>1, <1>2

\* The page keeps reading lists so.
LEMMA ListsStep ==
  ASSUME PageSound, ListsRead, [Page!Next]_(Page!vars)
  PROVE  ListsRead'
<1> USE DEF Page!api, Page!page, Page!history
<1>0. RoutesTyped /\ LookTyped /\ AnswerTyped /\ FormTyped /\ AskingTyped /\ Page!ModEditingAssumption
  BY DEF PageSound
<1> DEFINE Shown == shown # NoMod => Reads(slots', revision', list, base, shown)
           Answered == answer # Page!NoAnswer => Reads(slots', revision', answer.slots, answer.revision, answer.mod)
<1>1. (crossed => crossed') /\ UNCHANGED <<shown, list, base, answer>> /\ (~crossed => Shown /\ Answered) => ListsRead'
  BY DEF ListsRead, Reads, Page!NoAnswer
<1>2. UNCHANGED <<slots, revision>> /\ ~crossed => Shown /\ Answered
  BY DEF ListsRead, Reads
<1>3. ASSUME NEW m \in Mods, NEW new, slots' = [slots EXCEPT ![m] = new], revision' = [revision EXCEPT ![m] = @ + 1],
             ~crossed
      PROVE  Shown /\ Answered
  <2>1. shown # NoMod => shown \in Mods /\ base \in Nat
    BY <1>0 DEF LookTyped
  <2>2. answer # Page!NoAnswer => answer.mod \in Mods /\ answer.revision \in Nat
    BY <1>0 DEF AnswerTyped
  <2>3. Shown
    BY <1>0, <1>3, <2>1, ReadsKept DEF ListsRead
  <2>4. Answered
    BY <1>0, <1>3, <2>2, ReadsKept DEF ListsRead
  <2> QED
    BY <2>3, <2>4
<1>4. ASSUME UNCHANGED answer, crossed => crossed', ~crossed => Answered,
             ~crossed' /\ shown' # NoMod => Reads(slots', revision', list', base', shown')
      PROVE  ListsRead'
  BY <1>4 DEF ListsRead, Reads, Page!NoAnswer
<1> HIDE DEF Shown, Answered
<1>5. ASSUME NEW m \in Mods, Page!LoadArrives(m) PROVE ListsRead'
  <2>1. slots[m] = slots'[m] /\ revision'[m] = revision[m] /\ revision[m] \in Nat
    BY <1>0, <1>5 DEF RoutesTyped, Page!LoadArrives
  <2>2. Reads(slots', revision', list', base', shown')
    BY <1>5, <2>1 DEF Reads, Page!LoadArrives
  <2> QED
    BY <1>2, <1>4, <1>5, <2>2 DEF Page!LoadArrives
<1>6. CASE Page!Leave \/ Page!StartCreate
  <2>1. shown' = NoMod /\ UNCHANGED <<slots, revision, answer, crossed>>
    BY <1>6 DEF Page!Leave, Page!StartCreate
  <2> QED
    BY <1>2, <1>4, <2>1
<1>7. CASE Page!RegisterMod
  <2>1. /\ slots' = [slots EXCEPT ![form.id] = Page!Selected] /\ revision' = [revision EXCEPT ![form.id] = @ + 1]
        /\ form.id \in Mods /\ (crossed => crossed') /\ UNCHANGED <<shown, list, base, answer>>
    BY <1>0, <1>7 DEF FormTyped, Page!Form, Page!RegisterMod, Page!Registers
  <2> QED
    BY <1>1, <1>3, <2>1
<1>8. ASSUME NEW s \in Slots, Page!AddSlot(s) PROVE ListsRead'
  <2>1. Page!Current \in Mods /\ answer = Page!NoAnswer /\ (crossed => crossed') /\ UNCHANGED <<shown, list, base>>
    BY <1>8 DEF Page!AddSlot, Page!Registered
  <2>2. /\ slots' = [slots EXCEPT ![Page!Current] = Page!With(s)]
        /\ revision' = [revision EXCEPT ![Page!Current] = @ + 1]
        /\ answer' = [mod |-> Page!Current, slots |-> Page!With(s), revision |-> revision[Page!Current] + 1]
    BY <1>8 DEF Page!AddSlot, Page!Puts
  <2>3. revision[Page!Current] + 1 \in Nat
    BY <1>0, <2>1 DEF RoutesTyped
  <2>4. Reads(slots', revision', answer'.slots, answer'.revision, answer'.mod)
    BY <1>0, <2>1, <2>2, <2>3 DEF RoutesTyped, Reads
  <2>5. ~crossed => Shown
    BY <1>3, <2>1, <2>2
  <2> QED
    BY <2>1, <2>4, <2>5 DEF ListsRead, Reads, Shown
<1>9. CASE Page!AddAnswered
  <2>1. /\ answer' = Page!NoAnswer /\ UNCHANGED <<slots, revision, shown>> /\ answer # Page!NoAnswer
        /\ crossed' = (crossed \/ shown \notin {answer.mod, NoMod})
        /\ (shown # NoMod => list' = answer.slots /\ base' = answer.revision)
    BY <1>9 DEF Page!AddAnswered
  <2>2. ~crossed' /\ shown' # NoMod => Reads(slots', revision', list', base', shown')
    BY <2>1 DEF ListsRead, Reads
  <2> QED
    BY <2>1, <2>2 DEF ListsRead, Reads
<1>10. CASE Page!RemoveConfirmed
  <2>1. CASE Page!Current \in Page!Registered
    <3>1. /\ Page!Current \in Mods /\ crossed' = (crossed \/ {Page!Current, shown} # {asking.mod})
          /\ slots' = [slots EXCEPT ![Page!Current] = @ \ {asking.slot}]
          /\ revision' = [revision EXCEPT ![Page!Current] = @ + 1]
          /\ (shown # NoMod => list' = slots'[Page!Current] /\ base' = revision'[Page!Current])
          /\ UNCHANGED <<shown, answer>>
      BY <1>10, <2>1 DEF Page!RemoveConfirmed, Page!Registered, Page!Deletes
    <3>2. revision'[Page!Current] \in Nat
      BY <1>0, <3>1 DEF RoutesTyped
    <3>3. ASSUME ~crossed' PROVE shown = Page!Current
      <4>1. {Page!Current, shown} = {asking.mod}
        BY <3>1, <3>3, Zenon
      <4> QED
        BY <4>1
    <3>4. ~crossed' /\ shown' # NoMod => Reads(slots', revision', list', base', shown')
      BY <3>1, <3>2, <3>3 DEF Reads
    <3> QED
      BY <1>3, <1>4, <3>1, <3>4
  <2>2. CASE Page!Current \notin Page!Registered
    <3>1. UNCHANGED <<slots, revision, shown, list, base, answer, crossed>>
      BY <1>10, <2>2 DEF Page!RemoveConfirmed
    <3> QED
      BY <1>1, <1>2, <3>1
  <2> QED
    BY <2>1, <2>2
<1>11. ASSUME NEW m \in Mods, NEW s \in Slots, Page!OtherAdds(m, s) PROVE ListsRead'
  <2>1. /\ slots' = [slots EXCEPT ![m] = slots[m] \cup {s}] /\ revision' = [revision EXCEPT ![m] = @ + 1]
        /\ UNCHANGED <<shown, list, base, answer, crossed>>
    BY <1>11 DEF Page!OtherAdds, Page!Puts
  <2> QED
    BY <1>1, <1>3, <2>1
<1>12. ASSUME UNCHANGED <<slots, revision, shown, list, base, answer, crossed>> PROVE ListsRead'
  BY <1>1, <1>2, <1>12
<1>13. ASSUME NEW m \in Mods, Page!Select(m) \/ Page!LoadFails(m) PROVE ListsRead'
  BY <1>12, <1>13 DEF Page!Select, Page!LoadFails
<1>14. CASE Page!Type \/ Page!UploadEnds \/ Page!UploadFails \/ Page!RemoveRefused \/ Page!BatchEnds \/ UNCHANGED Page!vars
  BY <1>12, <1>14 DEF Page!Type, Page!UploadEnds, Page!UploadFails, Page!RemoveRefused, Page!BatchEnds, Page!vars
<1>15. ASSUME NEW a \in Archives, Page!Upload(a) PROVE ListsRead'
  BY <1>12, <1>15 DEF Page!Upload
<1>16. ASSUME NEW s \in Slots, Page!RemoveSlot(s) \/ Page!Tick(s) \/ Page!Untick(s) PROVE ListsRead'
  BY <1>12, <1>16 DEF Page!RemoveSlot, Page!Tick, Page!Untick
<1>17. ASSUME NEW s \in Slots, NEW files \in SUBSET Submissions, Page!Submit(s, files) PROVE ListsRead'
  BY <1>12, <1>17 DEF Page!Submit
<1>18. ASSUME NEW f \in Submissions, Page!FileRefused(f) \/ Page!FileCreated(f) PROVE ListsRead'
  BY <1>12, <1>18 DEF Page!FileRefused, Page!FileCreated
<1>19. ASSUME NEW k \in contents, Page!DeleteContent(k) PROVE ListsRead'
  BY <1>12, <1>19 DEF Page!DeleteContent
<1> QED
  BY <1>5, <1>6, <1>7, <1>8, <1>9, <1>10, <1>11, <1>13, <1>14, <1>15, <1>16, <1>17, <1>18, <1>19, Zenon
     DEF Page!Next

\* Nothing is listed at first.
LEMMA ListsInit == Page!Init => ListsRead
BY DEF Page!Init, ListsRead

\* The form lists what its mod had when it was filled, but for what was
\* unticked; and a mod whose slots nobody wrote has none.
FormRead ==
  /\ form.id = NoMod => form.base = 0
  /\ \A m \in Mods : revision[m] = 0 => slots[m] = {}
  /\ form.id # NoMod =>
       /\ form.base <= revision[form.id]
       /\ form.base = revision[form.id] => slots[form.id] \subseteq form.slots \cup form.unticked

\* The form is empty at first.
LEMMA FormInit == Page!ModEditingAssumption /\ Page!Init => FormRead
BY DEF Page!ModEditingAssumption, Page!Init, Page!Blank, FormRead

\* It keeps listing that, whatever is written.
LEMMA FormStep ==
  ASSUME PageSound, FormRead, [Page!Next]_(Page!vars)
  PROVE  FormRead'
<1> USE DEF Page!api, Page!page, Page!history
<1>0. /\ RoutesTyped /\ FormTyped /\ Page!ModEditingAssumption
      /\ form.id \in Mods \cup {NoMod} /\ form.base \in Nat /\ NoMod \notin Mods /\ NewMod \in Mods
  BY PageConstants DEF PageSound, FormTyped, Page!Form
<1>1. UNCHANGED <<form, slots, revision>> => FormRead'
  BY DEF FormRead
<1>2. ASSUME NEW m \in Mods, NEW new, slots' = [slots EXCEPT ![m] = new],
             revision' = [revision EXCEPT ![m] = @ + 1], UNCHANGED form
      PROVE  FormRead'
  <2>1. \A n \in Mods : revision[n] \in Nat /\ revision'[n] = (IF n = m THEN revision[n] + 1 ELSE revision[n])
    BY <1>0, <1>2 DEF RoutesTyped
  <2>2. \A n \in Mods \ {m} : slots'[n] = slots[n]
    BY <1>0, <1>2 DEF RoutesTyped
  <2>3. \A n \in Mods : revision'[n] = 0 => slots'[n] = {}
    BY <2>1, <2>2 DEF FormRead
  <2>4. CASE form.id = m
    <3>1. form.base < revision'[form.id]
      BY <1>0, <2>1, <2>4 DEF FormRead
    <3> QED
      BY <1>0, <1>2, <2>1, <2>3, <2>4, <3>1 DEF FormRead
  <2>5. CASE form.id # m
    BY <1>0, <1>2, <2>1, <2>2, <2>3, <2>5 DEF FormRead
  <2> QED
    BY <2>4, <2>5
<1>3. ASSUME UNCHANGED <<slots, revision>>, form'.id = form.id, form'.base = form.base,
             form.slots \cup form.unticked \subseteq form'.slots \cup form'.unticked
      PROVE  FormRead'
  BY <1>3 DEF FormRead
<1>4. ASSUME NEW m \in Mods, Page!LoadArrives(m) PROVE FormRead'
  <2>1. form' = [id |-> m, archive |-> artifact[m], slots |-> slots[m], suggested |-> slots[m],
                 unticked |-> {}, base |-> revision[m]]
    BY <1>4 DEF Page!LoadArrives, Page!Fills, Page!Filled
  <2>2. UNCHANGED <<slots, revision>> /\ revision[m] \in Nat
    BY <1>0, <1>4 DEF RoutesTyped, Page!LoadArrives
  <2> QED
    BY <1>0, <2>1, <2>2 DEF FormRead
<1>5. CASE Page!StartCreate
  BY <1>5 DEF FormRead, Page!StartCreate, Page!Blank
<1>6. CASE Page!Type
  <2>1. form.id = NoMod /\ form'.id = NewMod /\ form'.base = form.base /\ UNCHANGED <<slots, revision>>
    BY <1>0, <1>6 DEF FormTyped, Page!Form, Page!Type
  <2>2. revision[NewMod] \in Nat
    BY <1>0 DEF RoutesTyped
  <2> QED
    BY <1>0, <2>1, <2>2 DEF FormRead
<1>7. ASSUME NEW s \in Slots, Page!Tick(s) \/ Page!Untick(s) PROVE FormRead'
  <2>1. CASE Page!Tick(s)
    <3>1. /\ form'.id = form.id /\ form'.base = form.base /\ form'.slots = form.slots \cup {s}
          /\ form'.unticked = form.unticked \ {s}
      BY <1>0, <2>1 DEF FormTyped, Page!Form, Page!Tick
    <3> QED
      BY <1>3, <2>1, <3>1 DEF Page!Tick
  <2>2. CASE Page!Untick(s)
    <3>1. /\ form'.id = form.id /\ form'.base = form.base /\ form'.slots = form.slots \ {s}
          /\ form'.unticked = form.unticked \cup {s}
      BY <1>0, <2>2 DEF FormTyped, Page!Form, Page!Untick
    <3> QED
      BY <1>3, <2>2, <3>1 DEF Page!Untick
  <2> QED
    BY <1>7, <2>1, <2>2
<1>8. CASE Page!UploadEnds
  <2>1. PICK found \in SUBSET Slots, id \in IF form.id = NoMod THEN {NoMod, upload.mod} ELSE {form.id} :
          form' = [form EXCEPT !.id = id, !.archive = upload.archive,
                               !.slots = IF form.slots = {} THEN found ELSE form.slots,
                               !.suggested = IF found = {} THEN form.suggested ELSE found]
    BY <1>8 DEF Page!UploadEnds
  <2>2. /\ form'.id = id /\ form'.base = form.base /\ form'.unticked = form.unticked
        /\ form.slots \subseteq form'.slots
    BY <1>0, <2>1 DEF FormTyped, Page!Form
  <2>3. UNCHANGED <<slots, revision>>
    BY <1>8 DEF Page!UploadEnds
  <2>4. CASE id = form.id
    BY <1>3, <2>2, <2>3, <2>4
  <2>5. CASE form.id = NoMod /\ id = upload.mod /\ id # NoMod
    <3>1. id \in Mods /\ form.base = 0
      BY <1>0, <2>5 DEF FormTyped, FormRead
    <3>2. revision[id] \in Nat
      BY <1>0, <3>1 DEF RoutesTyped
    <3> QED
      BY <2>2, <2>3, <2>5, <3>1, <3>2 DEF FormRead
  <2> QED
    BY <2>1, <2>4, <2>5
<1>9. CASE Page!RegisterMod
  <2>1. /\ slots' = [slots EXCEPT ![form.id] = Page!Selected] /\ revision' = [revision EXCEPT ![form.id] = @ + 1]
        /\ form.id \in Mods /\ UNCHANGED form
    BY <1>0, <1>9 DEF Page!RegisterMod, Page!Registers
  <2> QED
    BY <1>2, <2>1
<1>10. ASSUME NEW s \in Slots, Page!AddSlot(s) \/ Page!RemoveSlot(s) PROVE FormRead'
  <2>1. CASE Page!AddSlot(s)
    <3>1. /\ slots' = [slots EXCEPT ![Page!Current] = Page!With(s)]
          /\ revision' = [revision EXCEPT ![Page!Current] = @ + 1]
          /\ Page!Current \in Mods /\ UNCHANGED form
      BY <2>1 DEF Page!AddSlot, Page!Puts, Page!Registered
    <3> QED
      BY <1>2, <3>1
  <2>2. CASE Page!RemoveSlot(s)
    BY <1>1, <2>2 DEF Page!RemoveSlot
  <2> QED
    BY <1>10, <2>1, <2>2
<1>11. CASE Page!RemoveConfirmed
  <2>1. CASE Page!Current \in Page!Registered
    <3>1. /\ slots' = [slots EXCEPT ![Page!Current] = @ \ {asking.slot}]
          /\ revision' = [revision EXCEPT ![Page!Current] = @ + 1]
          /\ Page!Current \in Mods /\ UNCHANGED form
      BY <1>11, <2>1 DEF Page!RemoveConfirmed, Page!Registered, Page!Deletes
    <3> QED
      BY <1>2, <3>1
  <2>2. CASE Page!Current \notin Page!Registered
    BY <1>1, <1>11, <2>2 DEF Page!RemoveConfirmed
  <2> QED
    BY <2>1, <2>2
<1>12. ASSUME NEW m \in Mods, NEW s \in Slots, Page!OtherAdds(m, s) PROVE FormRead'
  <2>1. /\ slots' = [slots EXCEPT ![m] = slots[m] \cup {s}] /\ revision' = [revision EXCEPT ![m] = @ + 1]
        /\ UNCHANGED form
    BY <1>12 DEF Page!OtherAdds, Page!Puts
  <2> QED
    BY <1>2, <2>1
<1>13. ASSUME NEW m \in Mods, Page!Select(m) \/ Page!LoadFails(m) PROVE FormRead'
  BY <1>1, <1>13 DEF Page!Select, Page!LoadFails
<1>14. CASE \/ Page!Leave \/ Page!UploadFails \/ Page!AddAnswered \/ Page!RemoveRefused \/ Page!BatchEnds
            \/ UNCHANGED Page!vars
  BY <1>1, <1>14 DEF Page!Leave, Page!UploadFails, Page!AddAnswered, Page!RemoveRefused, Page!BatchEnds, Page!vars
<1>15. ASSUME NEW a \in Archives, Page!Upload(a) PROVE FormRead'
  BY <1>1, <1>15 DEF Page!Upload
<1>16. ASSUME NEW s \in Slots, NEW files \in SUBSET Submissions, Page!Submit(s, files) PROVE FormRead'
  BY <1>1, <1>16 DEF Page!Submit
<1>17. ASSUME NEW g \in Submissions, Page!FileRefused(g) \/ Page!FileCreated(g) PROVE FormRead'
  BY <1>1, <1>17 DEF Page!FileRefused, Page!FileCreated
<1>18. ASSUME NEW k \in contents, Page!DeleteContent(k) PROVE FormRead'
  BY <1>1, <1>18 DEF Page!DeleteContent
<1> QED
  BY <1>4, <1>5, <1>6, <1>7, <1>8, <1>9, <1>10, <1>11, <1>12, <1>13, <1>14, <1>15, <1>16, <1>17, <1>18, Zenon
     DEF Page!Next

\* What is lost was there with its slot.
LEMMA LostWas ==
  ASSUME RoutesTyped, NEW k \in Page!Lost
  PROVE  /\ k \in contents /\ k.mod \in Mods /\ k.slot \in slots[k.mod]
         /\ k \notin contents' \/ k.slot \notin slots'[k.mod]
         /\ k \in Page!All(k.mod, {k.slot})
BY DEF RoutesTyped, Page!Lost, Page!Submitted, Page!All, Page!Content

\* What a step loses was to be removed, or was left out although the form
\* listed its slot, or the list was not the latest of its mod.
LEMMA LostStep ==
  ASSUME PageSound, ListsRead, FormRead, [Page!Next]_(Page!vars)
  PROVE  Page!Lost \subseteq unwanted' \cup overlooked' \/ stale' \/ crossed'
<1> USE DEF Page!api, Page!page, Page!history
<1> SUFFICES ASSUME NEW k \in Page!Lost, ~stale', ~crossed'
             PROVE  k \in unwanted' \cup overlooked'
  OBVIOUS
<1>0. RoutesTyped /\ AskingTyped /\ FormTyped
  BY DEF PageSound
<1>1. /\ k \in contents /\ k.mod \in Mods /\ k.slot \in slots[k.mod]
      /\ k \notin contents' \/ k.slot \notin slots'[k.mod]
      /\ k \in Page!All(k.mod, {k.slot})
  BY <1>0, LostWas
<1>2. ASSUME contents \subseteq contents', UNCHANGED slots PROVE FALSE
  BY <1>1, <1>2
<1>3. ASSUME NEW m \in Mods, NEW new, slots[m] \subseteq new, slots' = [slots EXCEPT ![m] = new],
             contents' = {d \in contents : d.mod = m => d.slot \in new}
      PROVE  FALSE
  <2>1. k \in contents'
    BY <1>1, <1>3
  <2>2. k.slot \in slots'[k.mod]
    BY <1>0, <1>1, <1>3 DEF RoutesTyped
  <2> QED
    BY <1>1, <2>1, <2>2
<1>4. ASSUME NEW s \in Slots, Page!AddSlot(s) PROVE FALSE
  <2>1. /\ Page!Current \in Mods /\ Page!Current = shown /\ shown # NoMod /\ ~crossed
        /\ base = revision[Page!Current]
        /\ slots' = [slots EXCEPT ![Page!Current] = Page!With(s)]
        /\ contents' = {d \in contents : d.mod = Page!Current => d.slot \in Page!With(s)}
    BY <1>4 DEF Page!AddSlot, Page!Puts, Page!Registered, Page!Listed
  <2>2. slots[Page!Current] \subseteq Page!With(s)
    BY <2>1 DEF ListsRead, Reads, Page!With
  <2> QED
    BY <1>3, <2>1, <2>2
<1>5. CASE Page!RemoveConfirmed
  <2>1. CASE Page!Current \in Page!Registered
    <3>1. /\ contents' = contents \ Page!In(Page!Current, asking.slot)
          /\ slots' = [slots EXCEPT ![Page!Current] = @ \ {asking.slot}]
          /\ Page!Current \in Mods /\ Page!Current = asking.mod
          /\ unwanted' = Page!All(asking.mod, {asking.slot})
      BY <1>5, <2>1 DEF Page!RemoveConfirmed, Page!Deletes, Page!Registered
    <3>2. k.mod = asking.mod /\ k.slot = asking.slot
      BY <1>0, <1>1, <3>1 DEF RoutesTyped, Page!In
    <3> QED
      BY <1>1, <3>1, <3>2
  <2>2. CASE Page!Current \notin Page!Registered
    BY <1>2, <1>5, <2>2 DEF Page!RemoveConfirmed
  <2> QED
    BY <2>1, <2>2
<1>6. ASSUME NEW d \in contents, Page!DeleteContent(d) PROVE k \in unwanted'
  BY <1>1, <1>6 DEF Page!DeleteContent
<1>7. CASE Page!RegisterMod
  <2> DEFINE m == form.id
  <2>1. /\ m \in Mods /\ slots' = [slots EXCEPT ![m] = Page!Selected] /\ UNCHANGED contents
        /\ form.base = revision[m]
        /\ unwanted' = Page!All(m, form.unticked) /\ overlooked' = Page!All(m, form.slots \ form.suggested)
    BY <1>0, <1>7 DEF FormTyped, Page!Form, Page!RegisterMod, Page!Registers
  <2>2. k.mod = m /\ k.slot \notin Page!Selected
    BY <1>0, <1>1, <2>1 DEF RoutesTyped
  <2>3. k.slot \in form.slots \cup form.unticked
    BY <1>0, <1>1, <1>7, <2>1, <2>2 DEF FormRead, Page!RegisterMod
  <2>4. k.slot \in form.unticked \/ k.slot \in form.slots \ form.suggested
    BY <2>2, <2>3 DEF Page!Selected
  <2> QED
    BY <1>1, <2>1, <2>2, <2>4 DEF Page!All
<1>8. ASSUME NEW m \in Mods, NEW s \in Slots, Page!OtherAdds(m, s) PROVE FALSE
  BY <1>3, <1>8 DEF Page!OtherAdds, Page!Puts
<1>9. ASSUME NEW f \in Submissions, Page!FileRefused(f) \/ Page!FileCreated(f) PROVE FALSE
  BY <1>2, <1>9 DEF Page!FileRefused, Page!FileCreated
<1>10. CASE \/ Page!Leave \/ Page!StartCreate \/ Page!Type \/ Page!UploadEnds \/ Page!UploadFails
            \/ Page!AddAnswered \/ Page!RemoveRefused \/ Page!BatchEnds \/ UNCHANGED Page!vars
  <2>1. UNCHANGED <<contents, slots>>
    BY <1>10 DEF Page!Leave, Page!StartCreate, Page!Type, Page!UploadEnds, Page!UploadFails,
                 Page!AddAnswered, Page!RemoveRefused, Page!BatchEnds, Page!vars
  <2> QED
    BY <1>2, <2>1
<1>11. ASSUME NEW m \in Mods, Page!Select(m) \/ Page!LoadArrives(m) \/ Page!LoadFails(m) PROVE FALSE
  BY <1>2, <1>11 DEF Page!Select, Page!LoadArrives, Page!LoadFails
<1>12. ASSUME NEW a \in Archives, Page!Upload(a) PROVE FALSE
  BY <1>2, <1>12 DEF Page!Upload
<1>13. ASSUME NEW s \in Slots, Page!RemoveSlot(s) \/ Page!Tick(s) \/ Page!Untick(s) PROVE FALSE
  BY <1>2, <1>13 DEF Page!RemoveSlot, Page!Tick, Page!Untick
<1>14. ASSUME NEW s \in Slots, NEW files \in SUBSET Submissions, Page!Submit(s, files) PROVE FALSE
  BY <1>2, <1>14 DEF Page!Submit
<1> QED
  BY <1>4, <1>5, <1>6, <1>7, <1>8, <1>9, <1>10, <1>11, <1>12, <1>13, <1>14, Zenon DEF Page!Next

\* What players submitted is lost only when it, or its slot, was to be removed
\* (ModsView.vue, PUT slots and POST /mods), for any mods, slots, files and
\* clicks: unless the list that was written was not the latest of its mod, or
\* the registration left out slots that its form lists (ModsView.vue:161).
THEOREM SubmissionsSurvive ==
  ASSUME Page!ModEditingAssumption
  PROVE  Page!Spec => ContentsSurvive
<1>1. Page!Init => PageSound /\ ListsRead /\ FormRead
  BY PageInit, ListsInit, FormInit
<1>2. PageSound /\ ListsRead /\ FormRead /\ [Page!Next]_(Page!vars) => PageSound' /\ ListsRead' /\ FormRead'
  BY PageStep, ListsStep, FormStep
<1>3. PageSound /\ ListsRead /\ FormRead /\ [Page!Next]_(Page!vars)
        => [Lost \subseteq unwanted' \cup overlooked' \/ stale' \/ crossed']_<<contents, slots>>
  BY LostStep DEF Lost, Submitted, Page!Lost, Page!Submitted
<1> QED
  BY <1>1, <1>2, <1>3, PTL DEF Page!Spec, ContentsSurvive

=============================================================================
