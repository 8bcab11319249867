------------------------------ MODULE Request ------------------------------
(***************************************************************************)
(* One connection in a worker's buffer: the client's request arrives in    *)
(* pieces, the worker polls the socket (thread.c) and parseSocket() peeks  *)
(* at what has arrived, answers, or leaves it for a later round, until the *)
(* request is handled or the client has been polled MAX_RECV_ITER times.   *)
(* This is the detail behind Dispatch's WorkerSelect, WorkerKeep and       *)
(* WorkerClose.                                                            *)
(*                                                                         *)
(* A request is abstracted to its path and to what its query string holds; *)
(* what has arrived of it, to the part that parseSocket() can tell apart:  *)
(* the first five bytes, the word after "GET /", the blank after the query *)
(* string, and the 1023 bytes that fill the buffer.                        *)
(***************************************************************************)
EXTENDS Integers, Sequences

CONSTANTS
  MaxRecvIter,   \* MAX_RECV_ITER
  Resets         \* whether clients may reset the connection

ASSUME MaxRecvIterAssumption == MaxRecvIter \in Nat \ {0}
ASSUME ResetsAssumption == Resets \in BOOLEAN

\* query: is info_hash there and of the right length (and, for an announce,
\* peer_id and port too)?
Requests ==
  [path : {"announce", "scrape"}, query : {"good", "missing", "badlength"}]
    \cup [path : {"other", "nonhttp"}, query : {"missing"}]

\* nothing; not even "GET /"; an incomplete word; the word; the blank; too much.
Parts == <<"none", "method", "word", "query", "full", "over">>
Part == {Parts[k] : k \in 1..6}
Beyond(p, q) == \E j, k \in 1..6 : j < k /\ Parts[j] = p /\ Parts[k] = q

Status == {"200", "400", "405", "408", "501"}

VARIABLES
  request,     \* what the client sends
  arrived,     \* the part of it in the socket's receive buffer
  eof, reset,  \* the client has closed, has reset the connection
  pc,          \* worker: "poll", "handle" or "closed"
  ready,       \* worker: FD_ISSET(clients[i].socket,&readset)
  recv_iter,   \* clients[i].recv_iter
  answers,     \* history: status lines sent
  tracked,     \* history: calls of track()
  pieces       \* history: deliveries

clientVars == <<request, arrived, eof, reset, pieces>>
vars == <<clientVars, pc, ready, recv_iter, answers, tracked>>

Init ==
  /\ request \in Requests
  /\ arrived = "none" /\ eof = FALSE /\ reset = FALSE
  /\ pc = "poll" /\ ready = FALSE /\ recv_iter = 0
  /\ answers = <<>> /\ tracked = 0 /\ pieces = 0

-----------------------------------------------------------------------------
(***************************************************************************)
(* The client.                                                             *)
(***************************************************************************)

Deliver(p) ==
  /\ pc # "closed" /\ ~eof /\ ~reset /\ Beyond(arrived, p)
  /\ arrived' = p /\ pieces' = pieces + 1
  /\ UNCHANGED <<request, eof, reset, pc, ready, recv_iter, answers, tracked>>

ClientClose ==
  /\ pc # "closed" /\ ~eof /\ ~reset
  /\ eof' = TRUE
  /\ UNCHANGED <<request, arrived, reset, pieces, pc, ready, recv_iter, answers, tracked>>

ClientReset ==
  /\ Resets /\ pc # "closed" /\ ~reset
  /\ reset' = TRUE
  /\ UNCHANGED <<request, arrived, eof, pieces, pc, ready, recv_iter, answers, tracked>>

-----------------------------------------------------------------------------
(***************************************************************************)
(* The worker.                                                             *)
(***************************************************************************)

\* Mutant: the polls are not counted.
SelectUncounted ==
  /\ pc = "poll" /\ pc' = "handle"
  /\ ready' = (arrived # "none" \/ eof \/ reset)
  /\ UNCHANGED <<clientVars, recv_iter, answers, tracked>>

\* Mutant: the polls are counted down.
SelectDown ==
  /\ pc = "poll" /\ pc' = "handle"
  /\ recv_iter' = recv_iter - 1
  /\ ready' = (arrived # "none" \/ eof \/ reset)
  /\ UNCHANGED <<clientVars, answers, tracked>>

\* recv_iter++ and select().
Select ==
  /\ pc = "poll" /\ pc' = "handle"
  /\ recv_iter' = recv_iter + 1
  /\ ready' = (arrived # "none" \/ eof \/ reset)
  /\ UNCHANGED <<clientVars, answers, tracked>>

\* The connection stays for the next round.
Keep ==
  /\ pc' = "poll" /\ ready' = FALSE
  /\ UNCHANGED <<clientVars, recv_iter, answers, tracked>>

\* Mutant: what parseSocket() has answered is polled again.
CloseAndPoll(s) ==
  /\ pc' = "poll" /\ ready' = FALSE
  /\ answers' = answers \o s
  /\ UNCHANGED <<clientVars, recv_iter, tracked>>

\* sendHttpHeaders() with the status lines s, if any; then close().
Close(s) ==
  /\ pc' = "closed" /\ ready' = FALSE
  /\ answers' = answers \o s
  /\ UNCHANGED <<clientVars, recv_iter, tracked>>

\* Mutant: a silent client is never timed out.
IdleForever == pc = "handle" /\ ~ready /\ Keep

\* Mutant: recv_iter>=MAX_RECV_ITER.
IdleTooShort ==
  /\ pc = "handle" /\ ~ready
  /\ IF recv_iter < MaxRecvIter THEN Keep ELSE Close(<<"408">>)

\* Nothing to read: the client is kept or timed out.
Idle ==
  /\ pc = "handle" /\ ~ready
  /\ \/ recv_iter <= MaxRecvIter /\ Keep
     \/ recv_iter > MaxRecvIter /\ Close(<<"408">>)

\* recv(MSG_PEEK) finds part p of request q.  On a reset connection it returns
\* -1: the buffer holds whatever the stack held, such as an earlier request.
Peek(q, p) ==
  /\ pc = "handle" /\ ready
  /\ IF reset THEN q \in Requests /\ p \in Part ELSE q = request /\ p = arrived

\* The path of a request, as far as strncmp() can tell.
Word(q, p) ==
  IF p = "method" \/ q.path = "nonhttp" THEN "nonhttp"
  ELSE IF p = "word" THEN "other" ELSE q.path

\* "Erroneous link": end of file, or a buffer full of data.
DropErroneous(q, p) == Peek(q, p) /\ p \in {"none", "over"} /\ Close(<<>>)

\* Not "GET /": 405.  Neither announce nor scrape: 200 and a quotation.
AnswerOther(q, p) ==
  /\ Peek(q, p) /\ p \notin {"none", "over"}
  /\ \/ Word(q, p) = "nonhttp" /\ Close(<<"405">>)
     \/ Word(q, p) = "other" /\ Close(<<"200">>)

\* getpeername() fails.
DropUnnamed(q, p) ==
  /\ Peek(q, p) /\ p \in {"query", "full"} /\ q.path = "announce" /\ reset
  /\ Close(<<>>)

\* Mutant: the parameters are not validated.
AnswerAnnounceUnchecked(q, p) ==
  /\ Peek(q, p) /\ p \in {"query", "full"} /\ q.path = "announce" /\ ~reset
  /\ pc' = "closed" /\ ready' = FALSE /\ answers' = Append(answers, "200")
  /\ tracked' = tracked + 1
  /\ UNCHANGED <<clientVars, recv_iter>>

\* A complete announce: track() sends the headers and the reply.
AnswerAnnounce(q, p) ==
  /\ Peek(q, p) /\ p = "full" /\ q.path = "announce" /\ ~reset /\ q.query = "good"
  /\ pc' = "closed" /\ ready' = FALSE /\ answers' = Append(answers, "200")
  /\ tracked' = tracked + 1
  /\ UNCHANGED <<clientVars, recv_iter>>

\* A scrape of one torrent, or of all, which scrape() does not implement.
AnswerScrape(q, p) ==
  /\ Peek(q, p) /\ p = "full" /\ q.path = "scrape"
  /\ \/ q.query = "good" /\ Close(<<"200">>)
     \/ q.query = "missing" /\ Close(<<"501">>)

\* Mutant: no answer.
RefuseSilently(q, p) == <<>>

\* The status sent to a request that is still incomplete in the last round.
Refusal(q, p) ==
  IF p = "query" THEN <<"400">>
  ELSE IF q.path = "announce" THEN IF q.query = "missing" THEN <<"408">> ELSE <<"400">>
  ELSE <<>>

\* The blank or a parameter is missing, or one is of the wrong length: wait for
\* more, or give up in the last round.
Await(q, p) ==
  /\ Peek(q, p) /\ Word(q, p) \in {"announce", "scrape"}
  /\ q.path = "announce" => ~reset
  /\ \/ p = "query"
     \/ /\ p = "full"
        /\ \/ q.query = "badlength"
           \/ q.query = "missing" /\ q.path = "announce"
  /\ IF recv_iter >= MaxRecvIter THEN Close(Refusal(q, p)) ELSE Keep

ParseSocket ==
  \E q \in Requests, p \in Part :
    \/ DropErroneous(q, p) \/ AnswerOther(q, p) \/ DropUnnamed(q, p)
    \/ AnswerAnnounce(q, p) \/ AnswerScrape(q, p) \/ Await(q, p)

-----------------------------------------------------------------------------
Worker == Select \/ Idle \/ ParseSocket

Closed == pc = "closed" /\ UNCHANGED vars

Next ==
  \/ \E p \in Part : Deliver(p)
  \/ ClientClose \/ ClientReset
  \/ Worker
  \/ Closed

Spec == Init /\ [][Next]_vars

\* The worker keeps polling; the client owes nothing.
FairSpec == Spec /\ WF_vars(Worker)

-----------------------------------------------------------------------------
(***************************************************************************)
(* Properties.                                                             *)
(***************************************************************************)

\* Every variable has its type.
TypeOK ==
  /\ request \in Requests /\ arrived \in Part
  /\ eof \in BOOLEAN /\ reset \in BOOLEAN /\ ready \in BOOLEAN
  /\ pc \in {"poll", "handle", "closed"}
  /\ recv_iter \in Nat /\ tracked \in Nat /\ pieces \in Nat
  /\ answers \in Seq(Status)

\* A connection gets one status line at most: what parseSocket() refuses in the
\* last round is not timed out again by workerthread(), although both look at
\* recv_iter, and a request that stays in the receive buffer (MSG_PEEK) is not
\* answered twice.
OneAnswer == Len(answers) <= IF pc = "closed" THEN 1 ELSE 0

\* track() registers a peer once per connection, and only for a complete and
\* valid announce of that very client, never for an earlier request that is
\* still in the buffer when recv() fails.
TrackedOnce ==
  /\ tracked <= 1
  /\ tracked = 1 => request = [path |-> "announce", query |-> "good"] /\ answers = <<"200">>

\* The last round is the one after MAX_RECV_ITER.
PollsBounded ==
  /\ recv_iter <= MaxRecvIter + 1
  /\ pc = "poll" => recv_iter <= MaxRecvIter

\* A connection is closed without an answer only if the client is gone, has sent
\* 1023 bytes or more, or asks to scrape with a malformed hash until the end.
SilentOnlyWhenHopeless ==
  pc = "closed" /\ answers = <<>> =>
    \/ reset \/ arrived = "over"
    \/ eof /\ arrived = "none"
    \/ request = [path |-> "scrape", query |-> "badlength"] /\ arrived = "full"

\* Every connection is closed, whatever the client does.
ConnectionCloses == <>(pc = "closed")

\* A good announce that arrives whole before the last round is tracked.
WholeAnnounceTracked ==
  (/\ request = [path |-> "announce", query |-> "good"]
   /\ pc # "closed" /\ arrived = "full" /\ pieces = 1 /\ recv_iter <= MaxRecvIter)
    ~> (tracked = 1 \/ reset \/ pieces > 1)

\* 405 goes to non-HTTP clients and to methods other than GET.
RefusedAreNotHttp ==
  \A k \in 1..Len(answers) : answers[k] = "405" => request.path = "nonhttp"
=============================================================================
