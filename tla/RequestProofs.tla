--------------------------- MODULE RequestProofs ---------------------------
(***************************************************************************)
(* Request's safety properties, for every MAX_RECV_ITER.  The inductive    *)
(* invariant says what the properties leave out: nothing has been answered *)
(* on an open connection, and select() reports a socket as readable only   *)
(* if there is something to read, or the end of it.                        *)
(***************************************************************************)
EXTENDS Request, TLAPS

\* Nothing has been sent, and track() has not run, on an open connection.
OpenIsUnanswered == pc # "closed" => answers = <<>> /\ tracked = 0

\* What select() has reported stays true until the socket is read.
ReadyIsReadable == ready => arrived # "none" \/ eof \/ reset

RInv ==
  /\ TypeOK /\ OpenIsUnanswered /\ ReadyIsReadable
  /\ OneAnswer /\ TrackedOnce /\ PollsBounded /\ SilentOnlyWhenHopeless

\* More of the request arrives, never less.
LEMMA BeyondFacts ==
  ASSUME NEW p, NEW q, Beyond(p, q)
  PROVE  q \in Part /\ q # "none"
  BY DEF Beyond, Part, Parts

\* The sequences of at most one status line.
LEMMA StatusLines ==
  /\ <<>> \in Seq(Status) /\ Len(<<>>) = 0
  /\ \A c \in Status : <<c>> \in Seq(Status) /\ Len(<<c>>) = 1
<1>1. <<>> \in Seq(Status) /\ Len(<<>>) = 0
  OBVIOUS
<1>2. ASSUME NEW c \in Status PROVE <<c>> \in Seq(Status) /\ Len(<<c>>) = 1
  OBVIOUS
<1> QED
  BY <1>1, <1>2

\* Refusal is empty or one status line; it is empty only for a scrape.
LEMMA RefusalFacts ==
  ASSUME NEW q \in Requests, NEW p \in Part
  PROVE  /\ Refusal(q, p) \in Seq(Status) /\ Len(Refusal(q, p)) <= 1
         /\ Refusal(q, p) = <<>> => q.path # "announce" /\ p # "query"
  BY DEF Refusal, Status

\* Close() on an unanswered connection sends exactly s.
LEMMA CloseFacts ==
  ASSUME RInv, pc # "closed", NEW s \in Seq(Status), Len(s) <= 1, Close(s)
  PROVE  /\ TypeOK' /\ OpenIsUnanswered' /\ ReadyIsReadable' /\ OneAnswer'
         /\ TrackedOnce' /\ answers' = s /\ tracked' = 0 /\ pc' = "closed"
<1>1. answers = <<>> /\ tracked = 0
  BY DEF RInv, OpenIsUnanswered
<1>2. answers' = s
  BY <1>1 DEF Close
<1>3. TypeOK'
  BY <1>2 DEF RInv, TypeOK, Close, clientVars
<1>4. tracked' = 0 /\ pc' = "closed" /\ ready' = FALSE
  BY <1>1 DEF Close
<1> QED
  BY <1>2, <1>3, <1>4 DEF OpenIsUnanswered, ReadyIsReadable, OneAnswer, TrackedOnce

\* An open connection may be kept for another round before the last one.
LEMMA KeepFacts ==
  ASSUME RInv, pc = "handle", recv_iter <= MaxRecvIter, Keep
  PROVE  RInv'
<1>1. /\ pc' = "poll" /\ ready' = FALSE /\ answers = <<>> /\ tracked = 0
      /\ UNCHANGED <<request, arrived, eof, reset, pieces, recv_iter, answers, tracked>>
  BY DEF Keep, clientVars, RInv, OpenIsUnanswered
<1>2. TypeOK'
  BY <1>1 DEF RInv, TypeOK
<1>3. PollsBounded'
  BY <1>1, MaxRecvIterAssumption DEF PollsBounded, RInv, TypeOK
<1>4. OneAnswer' /\ TrackedOnce' /\ OpenIsUnanswered' /\ ReadyIsReadable'
  BY <1>1 DEF OneAnswer, TrackedOnce, OpenIsUnanswered, ReadyIsReadable
<1> QED
  BY <1>1, <1>2, <1>3, <1>4 DEF RInv, SilentOnlyWhenHopeless

\* A step that closes the connection in time keeps the bound on the polls.
LEMMA ClosePolls ==
  ASSUME RInv, pc # "closed", pc' = "closed", recv_iter' = recv_iter
  PROVE  PollsBounded'
  BY DEF RInv, PollsBounded

\* Every step of the client and of the worker preserves the invariant.
LEMMA StepRInv == RInv /\ [Next]_vars => RInv'
<1> SUFFICES ASSUME RInv, [Next]_vars PROVE RInv'
  OBVIOUS
<1>t. TypeOK /\ OpenIsUnanswered
  BY DEF RInv
<1>1. ASSUME NEW p \in Part, Deliver(p) PROVE RInv'
  <2>1. arrived' = p /\ arrived' \in Part /\ arrived' # "none"
    BY <1>1, BeyondFacts DEF Deliver
  <2>2. /\ UNCHANGED <<request, eof, reset, pc, ready, recv_iter, answers, tracked>>
        /\ pieces' = pieces + 1 /\ pc # "closed"
    BY <1>1 DEF Deliver
  <2>3. TypeOK'
    BY <1>t, <2>1, <2>2 DEF TypeOK
  <2>4. OpenIsUnanswered' /\ ReadyIsReadable' /\ OneAnswer' /\ TrackedOnce' /\ PollsBounded'
    BY <2>1, <2>2 DEF RInv, OpenIsUnanswered, ReadyIsReadable, OneAnswer, TrackedOnce, PollsBounded
  <2> QED
    BY <2>2, <2>3, <2>4 DEF RInv, SilentOnlyWhenHopeless
<1>2. ASSUME ClientClose \/ ClientReset PROVE RInv'
  <2>1. /\ UNCHANGED <<request, arrived, pieces, pc, ready, recv_iter, answers, tracked>>
        /\ pc # "closed"
    BY <1>2 DEF ClientClose, ClientReset
  <2>b. eof' \in BOOLEAN /\ reset' \in BOOLEAN /\ (eof' \/ reset')
    BY <1>2, <1>t DEF ClientClose, ClientReset, TypeOK
  <2>2. TypeOK'
    BY <1>t, <2>1, <2>b DEF TypeOK
  <2>3. OpenIsUnanswered' /\ ReadyIsReadable' /\ OneAnswer' /\ TrackedOnce' /\ PollsBounded'
    BY <2>1, <2>b DEF RInv, OpenIsUnanswered, ReadyIsReadable, OneAnswer, TrackedOnce, PollsBounded
  <2> QED
    BY <2>1, <2>2, <2>3 DEF RInv, SilentOnlyWhenHopeless
<1>3. ASSUME Select PROVE RInv'
  <2>1. /\ UNCHANGED <<request, arrived, eof, reset, pieces, answers, tracked>>
        /\ pc = "poll" /\ pc' = "handle" /\ recv_iter' = recv_iter + 1
        /\ ready' = (arrived # "none" \/ eof \/ reset)
    BY <1>3 DEF Select, clientVars
  <2>2. ready' \in BOOLEAN /\ ReadyIsReadable'
    BY <2>1, <1>t DEF ReadyIsReadable, TypeOK
  <2>3. TypeOK'
    BY <1>t, <2>1, <2>2 DEF TypeOK
  <2>4. PollsBounded'
    BY <1>t, <2>1, MaxRecvIterAssumption DEF RInv, TypeOK, PollsBounded
  <2>5. OpenIsUnanswered' /\ OneAnswer' /\ TrackedOnce'
    BY <2>1 DEF RInv, OpenIsUnanswered, OneAnswer, TrackedOnce
  <2> QED
    BY <2>1, <2>2, <2>3, <2>4, <2>5 DEF RInv, SilentOnlyWhenHopeless
<1>4. ASSUME NEW s \in Seq(Status), Len(s) <= 1, Close(s), pc # "closed",
             s = <<>> => SilentOnlyWhenHopeless'
      PROVE  RInv'
  <2>1. TypeOK' /\ OpenIsUnanswered' /\ ReadyIsReadable' /\ OneAnswer' /\ TrackedOnce'
        /\ answers' = s /\ pc' = "closed"
    BY <1>4, CloseFacts
  <2>2. recv_iter' = recv_iter
    BY <1>4 DEF Close
  <2>3. PollsBounded'
    BY <1>4, <2>1, <2>2, ClosePolls
  <2>4. SilentOnlyWhenHopeless'
    BY <1>4, <2>1 DEF SilentOnlyWhenHopeless
  <2> QED
    BY <2>1, <2>3, <2>4 DEF RInv
<1>5. ASSUME NEW c \in Status, Close(<<c>>), pc # "closed" PROVE RInv'
  <2>1. <<c>> \in Seq(Status) /\ Len(<<c>>) <= 1 /\ <<c>> # <<>>
    BY <1>5, StatusLines
  <2> QED
    BY <1>5, <2>1, <1>4
<1>e. ASSUME Close(<<>>), pc # "closed", SilentOnlyWhenHopeless' PROVE RInv'
  <2>1. <<>> \in Seq(Status) /\ Len(<<>>) <= 1
    BY StatusLines
  <2> QED
    BY <1>e, <2>1, <1>4
<1>6. ASSUME Idle PROVE RInv'
  <2>1. CASE recv_iter <= MaxRecvIter /\ Keep
    BY <1>6, <2>1, KeepFacts DEF Idle
  <2>2. CASE Close(<<"408">>)
    BY <1>6, <2>2, <1>5 DEF Idle, Status
  <2> QED
    BY <1>6, <2>1, <2>2 DEF Idle
<1>7. ASSUME ParseSocket PROVE RInv'
  <2> PICK q \in Requests, p \in Part :
        \/ DropErroneous(q, p) \/ AnswerOther(q, p) \/ DropUnnamed(q, p)
        \/ AnswerAnnounce(q, p) \/ AnswerScrape(q, p) \/ Await(q, p)
    BY <1>7 DEF ParseSocket
  <2>1. CASE DropErroneous(q, p)
    <3>1. /\ pc = "handle" /\ ready /\ Close(<<>>) /\ p \in {"none", "over"}
          /\ ~reset => p = arrived
      BY <2>1 DEF DropErroneous, Peek
    <3>2. UNCHANGED <<request, arrived, eof, reset>>
      BY <3>1 DEF Close, clientVars
    <3>3. reset \/ arrived = "over" \/ (eof /\ arrived = "none")
      BY <3>1 DEF RInv, ReadyIsReadable
    <3>4. SilentOnlyWhenHopeless'
      BY <3>2, <3>3 DEF SilentOnlyWhenHopeless
    <3> QED
      BY <3>1, <3>4, <1>e
  <2>2. CASE AnswerOther(q, p)
    BY <2>2, <1>5 DEF AnswerOther, Peek, Status
  <2>3. CASE DropUnnamed(q, p)
    <3>1. pc = "handle" /\ reset /\ Close(<<>>)
      BY <2>3 DEF DropUnnamed, Peek
    <3>2. SilentOnlyWhenHopeless'
      BY <3>1 DEF Close, clientVars, SilentOnlyWhenHopeless
    <3> QED
      BY <3>1, <3>2, <1>e
  <2>4. CASE AnswerAnnounce(q, p)
    <3>1. /\ pc = "handle" /\ q = request /\ q.path = "announce" /\ q.query = "good"
          /\ pc' = "closed" /\ ready' = FALSE
          /\ UNCHANGED <<request, arrived, eof, reset, pieces, recv_iter>>
      BY <2>4 DEF AnswerAnnounce, Peek, clientVars
    <3>2. answers' = <<"200">> /\ tracked' = 1
      <4>1. answers' = Append(answers, "200") /\ tracked' = tracked + 1
        BY <2>4 DEF AnswerAnnounce
      <4> QED
        BY <3>1, <4>1, <1>t DEF OpenIsUnanswered
    <3>s. <<"200">> \in Seq(Status) /\ Len(<<"200">>) = 1
      BY StatusLines DEF Status
    <3>3. request = [path |-> "announce", query |-> "good"]
      BY <3>1 DEF Requests
    <3>r. ready' \in BOOLEAN /\ answers' \in Seq(Status) /\ tracked' \in Nat
      <4>1. ready' \in BOOLEAN
        BY <3>1
      <4>2. answers' \in Seq(Status)
        BY <3>2, <3>s, Zenon
      <4>3. tracked' \in Nat
        BY <3>2
      <4> QED
        BY <4>1, <4>2, <4>3
    <3>4. TypeOK'
      BY <1>t, <3>1, <3>r DEF TypeOK
    <3>5. PollsBounded'
      BY <3>1, ClosePolls
    <3>6. OneAnswer' /\ TrackedOnce' /\ OpenIsUnanswered' /\ ReadyIsReadable'
      <4>1. OneAnswer'
        <5>1. Len(answers') = 1
          BY <3>2, <3>s, Zenon
        <5> QED
          BY <3>1, <5>1 DEF OneAnswer
      <4>2. TrackedOnce'
        <5>1. request' = [path |-> "announce", query |-> "good"]
          BY <3>1, <3>3
        <5>2. tracked' <= 1
          BY <3>2
        <5> QED
          BY <3>2, <5>1, <5>2, Zenon DEF TrackedOnce
      <4> QED
        BY <4>1, <4>2, <3>1 DEF OpenIsUnanswered, ReadyIsReadable
    <3>7. SilentOnlyWhenHopeless'
      BY <3>2 DEF SilentOnlyWhenHopeless
    <3> QED
      BY <3>4, <3>5, <3>6, <3>7 DEF RInv
  <2>5. CASE AnswerScrape(q, p)
    BY <2>5, <1>5 DEF AnswerScrape, Peek, Status
  <2>6. CASE Await(q, p)
    <3>1. pc = "handle" /\ (~reset => q = request /\ p = arrived)
      BY <2>6 DEF Await, Peek
    <3>2. CASE recv_iter >= MaxRecvIter
      <4>1. Close(Refusal(q, p))
        BY <2>6, <3>2 DEF Await
      <4>2. /\ Refusal(q, p) \in Seq(Status) /\ Len(Refusal(q, p)) <= 1
            /\ Refusal(q, p) = <<>> => q.path # "announce" /\ p # "query"
        BY RefusalFacts
      <4>3. Refusal(q, p) = <<>> =>
              reset \/ (request = [path |-> "scrape", query |-> "badlength"] /\ arrived = "full")
        BY <4>2, <3>1, <2>6 DEF Await, Word, Requests
      <4>4. Refusal(q, p) = <<>> => SilentOnlyWhenHopeless'
        BY <4>1, <4>3 DEF Close, clientVars, SilentOnlyWhenHopeless
      <4> QED
        BY <4>1, <4>2, <4>4, <3>1, <1>4
    <3>3. CASE ~(recv_iter >= MaxRecvIter)
      <4>1. Keep
        BY <2>6, <3>3 DEF Await
      <4>2. recv_iter <= MaxRecvIter
        BY <3>3, <1>t, MaxRecvIterAssumption DEF TypeOK
      <4> QED
        BY <3>1, <4>1, <4>2, KeepFacts
    <3> QED
      BY <3>2, <3>3
  <2> QED
    BY <2>1, <2>2, <2>3, <2>4, <2>5, <2>6
<1>8. ASSUME UNCHANGED vars PROVE RInv'
  BY <1>8 DEF vars, clientVars, RInv, TypeOK, OpenIsUnanswered, ReadyIsReadable,
      OneAnswer, TrackedOnce, PollsBounded, SilentOnlyWhenHopeless
<1> QED
  BY <1>1, <1>2, <1>3, <1>6, <1>7, <1>8 DEF Next, Worker, Closed

\* The inductive invariant holds in every reachable state.
LEMMA RequestInv == Spec => []RInv
<1>1. Init => RInv
  <2> SUFFICES ASSUME Init PROVE RInv
    OBVIOUS
  <2>1. TypeOK
    <3>1. "none" \in Part
      BY DEF Part, Parts
    <3> QED
      BY <3>1, StatusLines DEF Init, TypeOK
  <2>2. OpenIsUnanswered /\ ReadyIsReadable /\ OneAnswer /\ TrackedOnce
    BY DEF Init, OpenIsUnanswered, ReadyIsReadable, OneAnswer, TrackedOnce
  <2>3. PollsBounded /\ SilentOnlyWhenHopeless
    BY MaxRecvIterAssumption DEF Init, PollsBounded, SilentOnlyWhenHopeless
  <2> QED
    BY <2>1, <2>2, <2>3 DEF RInv
<1>2. RInv /\ [Next]_vars => RInv'
  BY StepRInv
<1> QED
  BY <1>1, <1>2, PTL DEF Spec

\* Type correctness, for every MAX_RECV_ITER: workerthread() and parseSocket() only
\* meet the parts of a request that the model can tell apart, and only send the
\* status lines of sendHttpHeaders().
THEOREM TypeCorrect == Spec => []TypeOK
<1>1. RInv => TypeOK
  BY DEF RInv
<1> QED
  BY <1>1, RequestInv, PTL

\* A connection is answered at most once, for every MAX_RECV_ITER.
THEOREM AnsweredOnce == Spec => []OneAnswer
<1>1. RInv => OneAnswer
  BY DEF RInv
<1> QED
  BY <1>1, RequestInv, PTL

\* track() runs at most once per connection, and only for its own good announce.
THEOREM TrackedAtMostOnce == Spec => []TrackedOnce
<1>1. RInv => TrackedOnce
  BY DEF RInv
<1> QED
  BY <1>1, RequestInv, PTL

\* No connection is polled more than MAX_RECV_ITER+1 times.
THEOREM PollsStayBounded == Spec => []PollsBounded
<1>1. RInv => PollsBounded
  BY DEF RInv
<1> QED
  BY <1>1, RequestInv, PTL

\* Only hopeless connections are closed without an answer.
THEOREM SilenceIsJustified == Spec => []SilentOnlyWhenHopeless
<1>1. RInv => SilentOnlyWhenHopeless
  BY DEF RInv
<1> QED
  BY <1>1, RequestInv, PTL
=============================================================================
