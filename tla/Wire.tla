-------------------------------- MODULE Wire --------------------------------
(***************************************************************************)
(* One connection to PostgreSQL, PgConnection of                           *)
(* apps/api/src/postgres.js: how it logs in, cuts what the socket brings   *)
(* into messages, and gives them to the query that waits.  The server is   *)
(* played: a login, then a reply to each query, in chunks of any size.     *)
(*                                                                         *)
(* A message is what the connection tells it by: "ready" (Z), "error" (E), *)
(* "row" (D), an authentication request (R), or "info" (S, K, T, C, N).    *)
(* It comes in two pieces, each written as the message itself, so that a   *)
(* chunk may end inside it.  One query at a time, as the pool hands        *)
(* connections out; time limits are left out.                              *)
(***************************************************************************)
EXTENDS Naturals, Sequences, FiniteSets

CONSTANTS
  Logins,   \* bursts of messages, one for each that the connection sends
  Answers,  \* what a query may be answered with
  Queries,  \* how many of them
  Chunks    \* in how many pieces of its own the socket may bring a burst

Requests == {"ok", "password", "md5", "sasl", "continue", "final", "forged"}

\* What says nothing yet about the outcome of a login.
Undecided == {"password", "md5", "sasl", "continue", "info"}

\* The last burst of a login: the server lets the connection in, refuses it
\* (or is not the server it says it is), or never gets ready.
Decides(burst, p, with) ==
  p \in DOMAIN burst /\ burst[p] \in with /\ \A i \in 1..p - 1 : burst[i] \in Undecided
Grants(burst) ==
  \E p \in 1..Len(burst) - 1 :
    /\ Decides(burst, p, {"ok", "final"}) /\ burst[Len(burst)] = "ready"
    /\ \A i \in p + 1..Len(burst) - 1 : burst[i] \in {"ok", "info"}
Refuses(burst) == \E p \in DOMAIN burst : Decides(burst, p, {"error", "forged"})
Breaks(burst) == \A i \in DOMAIN burst : burst[i] # "ready"

\* A reply ends with its only "ready", and an error comes right before it.
IsReply(burst) ==
  /\ burst # <<>> /\ burst[Len(burst)] = "ready"
  /\ \A i \in 1..Len(burst) - 1 :
       /\ burst[i] \in {"info", "row", "error"}
       /\ burst[i] = "error" => i = Len(burst) - 1

Messages == Requests \cup {"info", "row", "error", "ready"}

ASSUME WireAssumption ==
  /\ Queries \in Nat /\ Chunks \in Nat \ {0}
  /\ Answers \subseteq Seq(Messages) /\ \A reply \in Answers : IsReply(reply)
  /\ Logins \subseteq Seq(Seq(Messages))
  /\ \A login \in Logins :
       /\ login # <<>>
       /\ \A k \in 1..Len(login) - 1 : \A i \in DOMAIN login[k] : login[k][i] \in Undecided
       /\ \/ Grants(login[Len(login)]) \/ Refuses(login[Len(login)]) \/ Breaks(login[Len(login)])

\* A connection that was made and sent its startup message.
Started == [auth |-> "asked", ready |-> FALSE, buffer |-> <<>>,
            waits |-> FALSE, messages |-> <<>>, answers |-> <<>>]

Pieces(burst) == [j \in 1..2 * Len(burst) |-> burst[(j + 1) \div 2]]

------------------------------------------------------------------------------
(* The connection.                                                         *)

\* connect is over when it was answered; every later answer is a query's.
Connecting(c) == c.answers = <<>>

Rows(messages) == Cardinality({i \in DOMAIN messages : messages[i] = "row"})

\* The caller gets what was collected for it: a number of rows, or an error.
Resolve(c) ==
  [c EXCEPT !.waits = FALSE, !.messages = <<>>,
            !.answers = Append(@, IF Connecting(c) THEN "connected" ELSE Rows(c.messages))]
Reject(c) ==
  [c EXCEPT !.waits = FALSE, !.messages = <<>>,
            !.answers = Append(@, IF Connecting(c) THEN "refused" ELSE "error")]

\* authHandler: proofs are sent until the server is content; its signature is
\* compared with the one expected.
Authenticate(c, m) ==
  IF m \in {"error", "forged"} THEN [c EXCEPT !.auth = "refused"]
  ELSE IF m \in {"ok", "final"} THEN [c EXCEPT !.auth = "done"]
  ELSE c

\* dispatch: an error answers the query at once, though a "ready" follows it.
Dispatch(c, m) ==
  LET d == IF m = "ready" THEN [c EXCEPT !.ready = TRUE] ELSE c IN
  IF c.auth = "asked" /\ m \in Requests \cup {"error"} THEN Authenticate(c, m)
  ELSE IF ~c.waits THEN d
  ELSE IF m = "ready" THEN Resolve(d)
  ELSE IF m = "error" THEN Reject(d)
  ELSE [d EXCEPT !.messages = Append(@, m)]

\* How many messages are complete.
Complete(pieces) == Len(pieces) \div 2

\* Faulty: a message that is not complete yet is thrown away.
NothingLeft(pieces) == <<>>

\* What is left of the buffer after its complete messages.
Incomplete(pieces) == SubSeq(pieces, 2 * Complete(pieces) + 1, Len(pieces))

\* onData
OnData(c, chunk) ==
  LET pieces == c.buffer \o chunk
      after[k \in 0..Complete(pieces)] ==
        IF k = 0 THEN [c EXCEPT !.buffer = Incomplete(pieces)]
        ELSE Dispatch(after[k - 1], pieces[2 * k])
  IN after[Complete(pieces)]

\* What connect awaits, when a chunk was taken in: it waits for a "ready" that
\* did not come together with the end of the login.
Startup(c) ==
  IF ~Connecting(c) \/ c.auth = "asked" THEN c
  ELSE IF c.auth = "refused" THEN Reject(c)
  ELSE IF c.ready THEN Resolve(c)
  ELSE [c EXCEPT !.waits = TRUE]

\* The next query is sent as soon as the last one was answered.
Query(c, queries) ==
  [c EXCEPT !.waits = @ \/ (c.answers # <<>> /\ c.answers[1] = "connected" /\ Len(c.answers) <= queries)]

\* The socket was closed: whoever waits is told.
Fail(c) == IF c.waits \/ Connecting(c) THEN Reject(c) ELSE c

------------------------------------------------------------------------------
(* Conversations.                                                          *)

\* The socket brings a chunk.
Take(c, chunk, queries) == Query(Startup(OnData(c, chunk)), queries)

\* Where a burst may be cut: anywhere but between an error and its "ready".
Apart(burst, k) == \E i \in 1..Len(burst) - 1 : burst[i] = "error" /\ k \in {2 * i, 2 * i + 1}
Cuts(burst) ==
  {at \in [0..Chunks -> 0..2 * Len(burst)] :
     /\ at[0] = 0 /\ at[Chunks] = 2 * Len(burst)
     /\ \A i \in 1..Chunks : at[i - 1] <= at[i] /\ ~Apart(burst, at[i])}

\* All ways to send some bursts, one after another.
Sent(bursts) ==
  {cuts \in [DOMAIN bursts -> UNION {Cuts(bursts[i]) : i \in DOMAIN bursts}] :
     \A i \in DOMAIN bursts : cuts[i] \in Cuts(bursts[i])}

Hear(c, burst, at, queries) ==
  LET after[k \in 0..Chunks] ==
        IF k = 0 THEN c
        ELSE IF at[k] = at[k - 1] THEN after[k - 1]
        ELSE Take(after[k - 1], SubSeq(Pieces(burst), at[k - 1] + 1, at[k]), queries)
  IN after[Chunks]

Play(c, bursts, cuts, queries) ==
  LET after[k \in 0..Len(bursts)] ==
        IF k = 0 THEN c ELSE Hear(after[k - 1], bursts[k], cuts[k], queries)
  IN after[Len(bursts)]

\* The server and the connection are content with each other.
Admitted(login) == Grants(login[Len(login)])

Meant(reply) ==
  IF \E i \in DOMAIN reply : reply[i] = "error" THEN "error" ELSE Rows(reply)

------------------------------------------------------------------------------
(* Property.                                                               *)

\* However the server logs the connection in and however the socket cuts what
\* it sends, connect ends as the server decided, and each query gets the
\* reply that was sent to it and not that of another - as long as the end of
\* an error comes together with the error.
RepliesMatch ==
  \A login \in Logins : \A first \in Sent(login) :
    IF ~Admitted(login) THEN Fail(Play(Started, login, first, 0)).answers = <<"refused">>
    ELSE \A n \in 0..Queries : \A replies \in [1..n -> Answers] :
           LET c == Play(Started, login, first, n) IN
           \A rest \in Sent(replies) :
             Play(c, replies, rest, n).answers =
               <<"connected">> \o [i \in 1..n |-> Meant(replies[i])]

=============================================================================
