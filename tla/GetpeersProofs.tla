--------------------------- MODULE GetpeersProofs ---------------------------
(***************************************************************************)
(* Safety of getpeers and of the tracker's answer, for every size of the   *)
(* buffers, every table, every command line and every request: first the   *)
(* list, the counts and the client's buffer; then, from the codecs'        *)
(* lemmas, what is asked for, what is answered, and what is shown of it.   *)
(***************************************************************************)
EXTENDS Getpeers, CodecProofs

\* track() has not begun to read rows.
BeforeRows == {"idle", "headers", "lookup", "prepare"}
\* The list is complete.
AfterRows == {"str4", "str6", "close", "register"}

\* What is sent, and what is left of it.
Pieces == {"proto", "200", "400", "crlf", "extra", "blank", "failure", "open", "peer",
           "str4", "str6", "close", "counts", "cut"}

SendOK ==
  /\ due \in Seq(Pieces) /\ wire \in Seq(Pieces)
  /\ rpc \in {"idle", "headers"} => Len(due) <= 4

FreshOK ==
  rpc \in BeforeRows =>
    rows = <<>> /\ listed = <<>> /\ error = "ROW" /\ i = 0 /\ pos4 = 0 /\ pos6 = 0

BoundOK == numwant <= MAXPEERS_SENT /\ i <= numwant

\* The wanted rows among those that the loop has read.
Seen == {k \in Wanted : k <= i}

ListOK ==
  /\ error # "FAILED" =>
       /\ {listed[k] : k \in 1..Len(listed)} = Seen
       /\ IsFiniteSet(Seen) /\ Cardinality(Seen) = Len(listed)
  /\ error = "DONE" => i > Len(rows)
  /\ rpc \in AfterRows => error # "ROW" \/ i >= numwant

\* A query that has been run and has not failed.
Read(q) == counts[q] # Unread /\ q \notin failed

\* A count is off by no more than the rows changed since it was read.
CountsOK ==
  /\ Read("complete") => Near(counts["complete"], seeds + fresh)
  /\ Read("incomplete") => Near(counts["incomplete"], leeches)
  /\ Read("downloaded") => counts["downloaded"] \in (downloaded - moves)..downloaded
  /\ Read("complete") /\ Read("incomplete") =>
       Near(counts["complete"] + counts["incomplete"], seeds + fresh + leeches)

\* The tracker's invariant.
TrackerInv ==
  /\ ReplyTypeOK /\ SendOK /\ FreshOK /\ BoundOK /\ CompactFits /\ ListOK /\ CountsOK

-----------------------------------------------------------------------------
\* strtoul() into an int, clamped, is a number of peers the buffers can hold.
LEMMA ClampedFacts ==
  ASSUME NEW n \in NumwantArgs
  PROVE  Clamped(n) \in 0..MAXPEERS_SENT
<1>1. n \in Int /\ IntMod \in Nat /\ IntMod > 0 /\ MAXPEERS_SENT \in Nat
  BY NumwantAssumption, IntModAssumption, MaxPeersAssumption
<1>2. n % IntMod \in 0..(IntMod - 1)
  BY <1>1
<1>3. ToInt(n) \in Int
  <2> DEFINE u == n % IntMod
  <2>1. u \in Int
    BY <1>1, <1>2
  <2>2. ToInt(n) = IF u < IntMod \div 2 THEN u ELSE u - IntMod
    BY DEF ToInt
  <2> QED
    BY <2>1, <2>2, <1>1
<1> QED
  BY <1>1, <1>3 DEF Clamped

\* One send, whatever becomes of it.
LEMMA SendFacts ==
  ASSUME due \in Seq(Pieces), wire \in Seq(Pieces), conn \in {"up", "down"},
         cutoff \in BOOLEAN, NEW piece \in Pieces, reallySend(piece)
  PROVE  /\ due' \in Seq(Pieces) /\ Len(due') = Len(due) + 1
         /\ wire' \in Seq(Pieces) /\ Len(wire') >= Len(wire)
         /\ conn' \in {"up", "down"} /\ cutoff' \in BOOLEAN
<1>1. due' = Append(due, piece)
  BY DEF reallySend
<1>2. due' \in Seq(Pieces) /\ Len(due') = Len(due) + 1
  BY <1>1
<1>3. wire' = wire \/ wire' = Append(wire, piece) \/ wire' = Append(wire, "cut")
  BY DEF reallySend
<1>4. wire' \in Seq(Pieces) /\ Len(wire') >= Len(wire)
  <2>1. ASSUME NEW x \in Pieces PROVE Append(wire, x) \in Seq(Pieces) /\ Len(Append(wire, x)) >= Len(wire)
    OBVIOUS
  <2>2. CASE wire' = wire
    <3>1. Len(wire) \in Nat
      OBVIOUS
    <3> QED
      BY <2>2, <3>1
  <2>3. CASE wire' = Append(wire, piece)
    BY <2>1, <2>3
  <2>4. CASE wire' = Append(wire, "cut")
    <3>1. "cut" \in Pieces
      BY DEF Pieces
    <3> QED
      BY <2>1, <2>4, <3>1
  <2> QED
    BY <1>3, <2>2, <2>3, <2>4
<1>5. conn' \in {"up", "down"} /\ cutoff' \in BOOLEAN
  BY DEF reallySend
<1> QED
  BY <1>2, <1>4, <1>5

\* A step that neither reads rows nor goes back keeps what is known of the list.
LEMMA ListKept ==
  ASSUME TrackerInv,
         UNCHANGED <<numwant, compact, rows, error, i, listed, pos4, pos6>>,
         rpc' \in BeforeRows => rpc \in BeforeRows,
         rpc' \in AfterRows => rpc \in AfterRows \/ error # "ROW" \/ i >= numwant
  PROVE  FreshOK' /\ BoundOK' /\ CompactFits' /\ ListOK'
<1>1. FreshOK' /\ BoundOK' /\ CompactFits'
  BY DEF TrackerInv, FreshOK, BoundOK, CompactFits
<1>2. Seen' = Seen
  BY DEF Seen, Wanted
<1>3. ListOK'
  BY <1>2 DEF TrackerInv, ListOK
<1> QED
  BY <1>1, <1>3

\* The counts of a scrape depend on the table and on what has been read of it.
LEMMA CountsKept ==
  ASSUME CountsOK, UNCHANGED scrapeVars
  PROVE  CountsOK'
  BY DEF CountsOK, Read, Near, scrapeVars, tableVars

\* A step that only sends a piece and moves on.
LEMMA SendStep ==
  ASSUME TrackerInv, NEW piece \in Pieces, reallySend(piece),
         UNCHANGED <<path, numwant, compact, misread, listVars, scrapeVars>>,
         rpc' \in ReplyPCs,
         rpc' \in BeforeRows => rpc \in BeforeRows,
         rpc' \in AfterRows => rpc \in AfterRows,
         rpc' \in {"idle", "headers"} => Len(due) <= 3
  PROVE  TrackerInv' /\ Len(wire') >= Len(wire)
<1>1. /\ due' \in Seq(Pieces) /\ Len(due') = Len(due) + 1
      /\ wire' \in Seq(Pieces) /\ Len(wire') >= Len(wire)
      /\ conn' \in {"up", "down"} /\ cutoff' \in BOOLEAN
  BY SendFacts DEF TrackerInv, SendOK, ReplyTypeOK
<1>2. SendOK'
  BY <1>1 DEF TrackerInv, SendOK
<1>3. FreshOK' /\ BoundOK' /\ CompactFits' /\ ListOK'
  BY ListKept DEF listVars
<1>4. CountsOK'
  BY CountsKept DEF TrackerInv
<1>5. ReplyTypeOK'
  BY <1>1 DEF TrackerInv, ReplyTypeOK, listVars, scrapeVars, tableVars
<1> QED
  BY <1>1, <1>2, <1>3, <1>4, <1>5 DEF TrackerInv

\* A step that sends nothing and leaves list and counts alone.
LEMMA QuietTrackerStep ==
  ASSUME TrackerInv,
         UNCHANGED <<path, numwant, compact, listVars, scrapeVars, due, wire, cutoff>>,
         conn' \in {"up", "down"}, misread' \in BOOLEAN, rpc' \in ReplyPCs,
         rpc' \in BeforeRows => rpc \in BeforeRows,
         rpc' \in AfterRows => rpc \in AfterRows \/ error # "ROW" \/ i >= numwant,
         rpc' \in {"idle", "headers"} => rpc \in {"idle", "headers"}
  PROVE  TrackerInv'
<1>1. SendOK'
  BY DEF TrackerInv, SendOK
<1>2. FreshOK' /\ BoundOK' /\ CompactFits' /\ ListOK'
  BY ListKept DEF listVars
<1>3. CountsOK'
  BY CountsKept DEF TrackerInv
<1>4. ReplyTypeOK'
  BY DEF TrackerInv, ReplyTypeOK, listVars, scrapeVars, tableVars
<1> QED
  BY <1>1, <1>2, <1>3, <1>4 DEF TrackerInv

\* The loop over the rows: a row that is left out, or none because the query
\* has ended or failed.
LEMMA RowSkipped ==
  ASSUME TrackerInv, InLoop, i' = i + 1,
         error' = "FAILED" \/ i + 1 \notin Wanted,
         UNCHANGED <<rpc, requestVars, rows, listed, pos4, pos6>>,
         error' \in {"ROW", "DONE", "FAILED"}, error' = "DONE" => i' > Len(rows)
  PROVE  FreshOK' /\ BoundOK' /\ CompactFits' /\ ListOK'
<1>1. /\ i \in Nat /\ i < numwant /\ rpc = "rows" /\ numwant \in Nat
      /\ MAXPEERS_SENT \in Nat /\ pos4 \in Nat /\ pos6 \in Nat
  BY MaxPeersAssumption DEF TrackerInv, ReplyTypeOK, InLoop
<1>2. FreshOK'
  BY <1>1 DEF FreshOK, BeforeRows
<1>b. numwant <= MAXPEERS_SENT /\ pos4 + pos6 <= 18 * i /\ numwant' = numwant
  BY DEF TrackerInv, BoundOK, CompactFits, requestVars
<1>3. BoundOK' /\ CompactFits'
  BY <1>1, <1>b DEF BoundOK, CompactFits
<1>4. Wanted' = Wanted /\ Wanted \subseteq Int
  BY DEF Wanted, requestVars
<1>a. error' # "FAILED" => \A k \in Wanted : k <= i + 1 <=> k <= i
  BY <1>1, <1>4
<1>5. error' # "FAILED" => Seen' = Seen
  BY <1>1, <1>4, <1>a DEF Seen
<1>6. ListOK'
  <2>1. error = "ROW" /\ rpc' \notin AfterRows
    BY <1>1 DEF InLoop, AfterRows
  <2>2. /\ {listed[k] : k \in 1..Len(listed)} = Seen
        /\ IsFiniteSet(Seen) /\ Cardinality(Seen) = Len(listed)
    BY <2>1 DEF TrackerInv, ListOK
  <2> QED
    BY <1>5, <2>1, <2>2 DEF ListOK
<1> QED
  BY <1>2, <1>3, <1>6

\* A row that is put into the list.
LEMMA RowListed ==
  ASSUME TrackerInv, InLoop, i' = i + 1, listed' = Append(listed, i + 1),
         i + 1 \in Wanted,
         UNCHANGED <<rpc, requestVars, rows, error>>,
         pos4' \in Nat, pos6' \in Nat, pos4' + pos6' <= pos4 + pos6 + 18
  PROVE  FreshOK' /\ BoundOK' /\ CompactFits' /\ ListOK' /\ listed' \in Seq(Nat)
<1>1. /\ i \in Nat /\ i < numwant /\ rpc = "rows" /\ numwant \in Nat
      /\ MAXPEERS_SENT \in Nat /\ listed \in Seq(Nat) /\ pos4 \in Nat /\ pos6 \in Nat
  BY MaxPeersAssumption DEF TrackerInv, ReplyTypeOK, InLoop
<1>2. FreshOK'
  BY <1>1 DEF FreshOK, BeforeRows
<1>b. numwant <= MAXPEERS_SENT /\ pos4 + pos6 <= 18 * i /\ numwant' = numwant
  BY DEF TrackerInv, BoundOK, CompactFits, requestVars
<1>c. pos4' + pos6' <= 18 * i'
  <2> DEFINE p == pos4' + pos6'
             q == pos4 + pos6
  <2>1. p \in Int /\ p <= q + 18
    OBVIOUS
  <2>4. q \in Int /\ q <= 18 * i
    BY <1>1, <1>b
  <2>2. 18 * (i + 1) = 18 * i + 18
    BY <1>1
  <2> HIDE DEF p, q
  <2>3. p <= 18 * (i + 1)
    BY <1>1, <2>1, <2>2, <2>4
  <2> QED
    BY <2>3 DEF p
<1>d. i' <= numwant' /\ numwant' <= MAXPEERS_SENT /\ i' <= MAXPEERS_SENT
  BY <1>1, <1>b
<1>3. BoundOK' /\ CompactFits'
  BY <1>c, <1>d DEF BoundOK, CompactFits
<1>4. Wanted' = Wanted /\ Wanted \subseteq Int
  BY DEF Wanted, requestVars
<1>a. \A k \in Wanted : k <= i + 1 <=> k <= i \/ k = i + 1
  BY <1>1, <1>4
<1>5. Seen' = Seen \cup {i + 1} /\ i + 1 \notin Seen
  <2>1. Seen' = {k \in Wanted : k <= i + 1}
    BY <1>4 DEF Seen
  <2> QED
    BY <1>1, <1>a, <2>1 DEF Seen
<1>6. IsFiniteSet(Seen') /\ Cardinality(Seen') = Len(listed) + 1
  BY <1>5, FS_AddElement DEF TrackerInv, ListOK, InLoop
<1>7. /\ Len(listed') = Len(listed) + 1 /\ listed' \in Seq(Nat) /\ Len(listed) \in Nat
      /\ \A k \in 1..Len(listed) : listed'[k] = listed[k]
      /\ listed'[Len(listed) + 1] = i + 1
  BY <1>1
<1>8. {listed'[k] : k \in 1..Len(listed')} = {listed[k] : k \in 1..Len(listed)} \cup {i + 1}
  <2>1. 1..Len(listed') = (1..Len(listed)) \cup {Len(listed) + 1}
    BY <1>7
  <2> QED
    BY <1>7, <2>1
<1>9. ListOK'
  <2>1. {listed'[k] : k \in 1..Len(listed')} = Seen'
    BY <1>5, <1>8 DEF TrackerInv, ListOK, InLoop
  <2>2. error' # "DONE" /\ rpc' \notin AfterRows
    BY <1>1 DEF InLoop, AfterRows
  <2> QED
    BY <1>6, <1>7, <2>1, <2>2 DEF ListOK
<1> QED
  BY <1>2, <1>3, <1>7, <1>9
-----------------------------------------------------------------------------
\* The tracker's invariant holds initially.
LEMMA InitTrackerInv == ReplyInit => TrackerInv
<1> SUFFICES ASSUME ReplyInit PROVE TrackerInv
  OBVIOUS
<1>1. rows = <<>> /\ listed = <<>> /\ i = 0 /\ numwant = 0 /\ error = "ROW" /\ rpc = "idle"
  BY DEF ReplyInit
<1>a. due = <<>> /\ wire = <<>>
  BY DEF ReplyInit
<1>b. SendOK
  BY <1>a DEF SendOK
<1>c. rows \in Seq(RowKinds) /\ Len(rows) <= MAXPEERS_SENT /\ listed \in Seq(Nat)
  BY <1>1, MaxPeersAssumption
<1>d. counts \in [Queries -> Int] /\ failed \subseteq Queries
  BY DEF ReplyInit, Unread
<1>e. numwant \in 0..MAXPEERS_SENT
  BY <1>1, MaxPeersAssumption
<1>2. ReplyTypeOK
  BY <1>c, <1>d, <1>e DEF ReplyInit, ReplyTypeOK, ReplyPCs
<1>3. FreshOK /\ BoundOK /\ CompactFits
  BY MaxPeersAssumption DEF ReplyInit, FreshOK, BoundOK, CompactFits
<1>4. Wanted = {} /\ Seen = {}
  BY <1>1 DEF Wanted, Seen
<1>5. ListOK
  BY <1>1, <1>4, FS_EmptySet DEF ListOK, AfterRows
<1>6. CountsOK
  BY DEF ReplyInit, CountsOK, Read, Queries
<1> QED
  BY <1>b, <1>2, <1>3, <1>5, <1>6 DEF TrackerInv

\* parseSocket(): a request is taken up and classified.
LEMMA ReceiveStep ==
  ASSUME TrackerInv, NEW text, ReceiveRequest(text)
  PROVE  TrackerInv'
<1>1. /\ rpc = "idle" /\ rpc' \in {"headers", "done"} /\ path' \in {"announce", "scrape"}
      /\ numwant' \in 0..MAXPEERS_SENT /\ misread' = misread /\ compact' \in BOOLEAN
      /\ UNCHANGED <<listVars, scrapeVars, netVars>>
  BY ClampedFacts DEF ReceiveRequest, RGo
<1>2. rows = <<>> /\ listed = <<>> /\ error = "ROW" /\ i = 0 /\ pos4 = 0 /\ pos6 = 0
  BY <1>1 DEF TrackerInv, FreshOK, BeforeRows
<1>3. SendOK' /\ ReplyTypeOK'
  BY <1>1 DEF TrackerInv, SendOK, ReplyTypeOK, ReplyPCs, listVars, scrapeVars, tableVars, netVars
<1>4. FreshOK' /\ BoundOK' /\ CompactFits'
  BY <1>1, <1>2, MaxPeersAssumption DEF FreshOK, BoundOK, CompactFits, listVars
<1>5. Wanted' = {} /\ Seen' = {}
  BY <1>1, <1>2 DEF Wanted, Seen, listVars
<1>6. ListOK'
  BY <1>1, <1>2, <1>5, FS_EmptySet DEF ListOK, AfterRows, listVars
<1>7. CountsOK'
  BY <1>1, CountsKept DEF TrackerInv
<1> QED
  BY <1>3, <1>4, <1>6, <1>7 DEF TrackerInv

\* A database error ends the reply with a failure reason.
LEMMA FailStep ==
  ASSUME TrackerInv, Fail
  PROVE  TrackerInv' /\ Len(wire') >= Len(wire)
<1>1. /\ rpc' = "done" /\ reallySend("failure") /\ "failure" \in Pieces
      /\ UNCHANGED <<path, numwant, compact, misread, listVars, scrapeVars>>
  BY DEF Fail, Pieces, requestVars
<1> QED
  BY <1>1, SendStep DEF ReplyPCs, BeforeRows, AfterRows

\* sendHttpHeaders() sends what it is expected to.
LEMMA HeaderPieces ==
  ASSUME NEW code \in {"200", "400"}, NEW k \in 1..5
  PROVE  Headers(code)[k] \in Pieces
  BY DEF Headers, Pieces

\* The status line and the headers.
LEMMA HeadersStep ==
  ASSUME TrackerInv, SendHeaders
  PROVE  TrackerInv' /\ Len(wire') >= Len(wire)
<1>1. /\ rpc = "headers" /\ rpc' \in {"headers", "done", "lookup"}
      /\ rpc' = "headers" => Len(due) < 4
      /\ UNCHANGED <<path, numwant, compact, misread, listVars, scrapeVars>>
  BY DEF SendHeaders, requestVars
<1>2. Len(due) \in Nat /\ Len(due) <= 4
  BY <1>1 DEF TrackerInv, SendOK
<1>3. Len(due) + 1 \in 1..5
  BY <1>2
<1>4. PICK code \in {"200", "400"} : reallySend(Headers(code)[Len(due) + 1])
  BY DEF SendHeaders
<1>5. Headers(code)[Len(due) + 1] \in Pieces
  BY <1>3, HeaderPieces
<1> QED
  BY <1>1, <1>2, <1>4, <1>5, SendStep DEF ReplyPCs, BeforeRows, AfterRows

\* The compact strings and the end of the dictionary.
LEMMA SendRestStep ==
  ASSUME TrackerInv, SendRest
  PROVE  TrackerInv' /\ Len(wire') >= Len(wire)
<1>1. /\ rpc \in {"str4", "str6", "close"} /\ rpc' \in {"str6", "close", "register"}
      /\ reallySend(rpc) /\ UNCHANGED <<path, numwant, compact, misread, listVars, scrapeVars>>
  BY DEF SendRest, RGo, requestVars
<1>2. rpc \in Pieces
  BY <1>1 DEF Pieces
<1> QED
  BY <1>1, <1>2, SendStep DEF ReplyPCs, BeforeRows, AfterRows

\* The torrent is looked up, or the count of rows ends: nothing is sent.
LEMMA LookupStep ==
  ASSUME TrackerInv, Lookup
  PROVE  TrackerInv' /\ Len(wire') >= Len(wire)
<1>1. CASE rpc = "lookup" /\ Fail
  BY <1>1, FailStep
<1>2. ASSUME NEW n, Found(n), misread' \in {misread, TRUE}
      PROVE  TrackerInv' /\ Len(wire') >= Len(wire)
  <2>1. /\ rpc = "lookup" /\ rpc' \in {"prepare", "count"}
        /\ UNCHANGED <<path, numwant, compact, listVars, scrapeVars, due, wire, cutoff, conn>>
    BY <1>2 DEF Found, RGo, netVars
  <2>2. conn' \in {"up", "down"} /\ Len(wire) \in Nat
    BY <2>1 DEF TrackerInv, ReplyTypeOK, SendOK
  <2>3. misread \in BOOLEAN
    BY DEF TrackerInv, ReplyTypeOK
  <2>4. misread' \in BOOLEAN
    BY <1>2, <2>3
  <2> QED
    BY <2>1, <2>2, <2>4, QuietTrackerStep DEF ReplyPCs, BeforeRows, AfterRows
<1> QED
  BY <1>1, <1>2 DEF Lookup

\* The query for the peers is prepared: the rows are there to be read.
LEMMA PrepareStep ==
  ASSUME TrackerInv, Prepare
  PROVE  TrackerInv' /\ Len(wire') >= Len(wire)
<1>1. CASE rpc = "prepare" /\ Fail
  BY <1>1, FailStep
<1>2. ASSUME RGo("prepare", "rows"), reallySend("open"), rows' \in RowLists,
             UNCHANGED <<requestVars, error, i, listed, pos4, pos6, registered, scrapeVars>>
      PROVE  TrackerInv' /\ Len(wire') >= Len(wire)
  <2>1. /\ rpc = "prepare" /\ rpc' = "rows" /\ "open" \in Pieces
        /\ UNCHANGED <<path, numwant, compact, misread, scrapeVars>>
    BY <1>2 DEF RGo, Pieces, requestVars
  <2>2. /\ rows = <<>> /\ listed = <<>> /\ error = "ROW" /\ i = 0 /\ pos4 = 0 /\ pos6 = 0
    BY <2>1 DEF TrackerInv, FreshOK, BeforeRows
  <2>3. /\ due' \in Seq(Pieces) /\ wire' \in Seq(Pieces) /\ Len(wire') >= Len(wire)
        /\ conn' \in {"up", "down"} /\ cutoff' \in BOOLEAN
    BY <1>2, <2>1, SendFacts DEF TrackerInv, SendOK, ReplyTypeOK
  <2>4. rows' \in Seq(RowKinds) /\ Len(rows') <= MAXPEERS_SENT
    BY <1>2, RowListsAssumption
  <2>5. ReplyTypeOK'
    BY <1>2, <2>1, <2>3, <2>4 DEF TrackerInv, ReplyTypeOK, ReplyPCs, scrapeVars, tableVars
  <2>6. SendOK' /\ FreshOK' /\ BoundOK' /\ CompactFits'
    BY <1>2, <2>1, <2>2, <2>3 DEF TrackerInv, SendOK, FreshOK, BeforeRows, BoundOK, CompactFits
  <2>7. Seen' = {}
    BY <1>2, <2>2 DEF Seen, Wanted
  <2>8. ListOK'
    BY <1>2, <2>1, <2>2, <2>7, FS_EmptySet DEF ListOK, AfterRows
  <2>9. CountsOK'
    BY <2>1, CountsKept DEF TrackerInv
  <2> QED
    BY <2>3, <2>5, <2>6, <2>8, <2>9 DEF TrackerInv
<1> QED
  BY <1>1, <1>2 DEF Prepare

-----------------------------------------------------------------------------
\* The steps of the loop.
LEMMA EndOfRowsStep ==
  ASSUME TrackerInv, EndOfRows
  PROVE  TrackerInv' /\ Len(wire') >= Len(wire)
<1>1. /\ InLoop /\ i' = i + 1 /\ error' \in {"DONE", "FAILED"}
      /\ error' = "DONE" => i = Len(rows)
      /\ UNCHANGED <<rpc, requestVars, rows, listed, pos4, pos6, registered, scrapeVars, netVars>>
  BY DEF EndOfRows
<1>2. i \in Nat /\ Len(rows) \in Nat /\ i < numwant /\ rpc = "rows"
  BY <1>1 DEF TrackerInv, ReplyTypeOK, InLoop
<1>3. error' = "FAILED" \/ i + 1 \notin Wanted
  BY <1>1, <1>2 DEF Wanted
<1>4. error' = "DONE" => i' > Len(rows)
  BY <1>1, <1>2
<1>5. FreshOK' /\ BoundOK' /\ CompactFits' /\ ListOK'
  BY <1>1, <1>3, <1>4, RowSkipped
<1>6. ReplyTypeOK'
  BY <1>1, <1>2 DEF TrackerInv, ReplyTypeOK, requestVars, scrapeVars, tableVars, netVars
<1>7. SendOK' /\ Len(wire') >= Len(wire)
  BY <1>1 DEF TrackerInv, SendOK, netVars
<1>8. CountsOK'
  BY <1>1, CountsKept DEF TrackerInv
<1> QED
  BY <1>5, <1>6, <1>7, <1>8 DEF TrackerInv

\* The client's own row is skipped.
LEMMA SkipRowStep ==
  ASSUME TrackerInv, SkipRow
  PROVE  TrackerInv' /\ Len(wire') >= Len(wire)
<1>1. /\ InLoop /\ i' = i + 1 /\ i < Len(rows) /\ error' = error
      /\ rows[i + 1] = "self" \/ (compact /\ rows[i + 1] = "bad")
      /\ UNCHANGED <<rpc, requestVars, rows, listed, pos4, pos6, registered, scrapeVars, netVars>>
  BY DEF SkipRow
<1>2. i \in Nat /\ error = "ROW"
  BY <1>1 DEF TrackerInv, ReplyTypeOK, InLoop
<1>3. i + 1 \notin Wanted
  BY <1>1 DEF Wanted
<1>4. FreshOK' /\ BoundOK' /\ CompactFits' /\ ListOK'
  BY <1>1, <1>2, <1>3, RowSkipped
<1>5. ReplyTypeOK'
  BY <1>1, <1>2 DEF TrackerInv, ReplyTypeOK, requestVars, scrapeVars, tableVars, netVars
<1>6. SendOK' /\ Len(wire') >= Len(wire)
  BY <1>1 DEF TrackerInv, SendOK, netVars
<1>7. CountsOK'
  BY <1>1, CountsKept DEF TrackerInv
<1> QED
  BY <1>4, <1>5, <1>6, <1>7 DEF TrackerInv

\* A row is sent as a dictionary.
LEMMA PushRowStep ==
  ASSUME TrackerInv, PushRow
  PROVE  TrackerInv' /\ Len(wire') >= Len(wire)
<1>1. /\ InLoop /\ i' = i + 1 /\ i < Len(rows) /\ ~compact /\ rows[i + 1] # "self"
      /\ reallySend("peer") /\ "peer" \in Pieces /\ listed' = Append(listed, i + 1)
      /\ UNCHANGED <<rpc, requestVars, rows, error, pos4, pos6, registered, scrapeVars>>
  BY DEF PushRow, Pieces
<1>2. /\ i \in Nat /\ i < numwant /\ numwant \in Nat /\ rpc = "rows"
      /\ pos4 \in Nat /\ pos6 \in Nat /\ Len(rows) \in Nat
  BY <1>1 DEF TrackerInv, ReplyTypeOK, InLoop
<1>3. i + 1 \in Wanted
  BY <1>1, <1>2 DEF Wanted
<1>a. pos4' \in Nat /\ pos6' \in Nat /\ pos4' + pos6' <= pos4 + pos6 + 18
  BY <1>1, <1>2
<1>4. FreshOK' /\ BoundOK' /\ CompactFits' /\ ListOK' /\ listed' \in Seq(Nat)
  BY <1>1, <1>a, <1>3, RowListed
<1>5. /\ due' \in Seq(Pieces) /\ wire' \in Seq(Pieces) /\ Len(wire') >= Len(wire)
      /\ conn' \in {"up", "down"} /\ cutoff' \in BOOLEAN
  BY <1>1, SendFacts DEF TrackerInv, SendOK, ReplyTypeOK
<1>6. ReplyTypeOK'
  BY <1>1, <1>2, <1>4, <1>5 DEF TrackerInv, ReplyTypeOK, requestVars, scrapeVars, tableVars
<1>7. SendOK'
  BY <1>1, <1>2, <1>5 DEF SendOK
<1>8. CountsOK'
  BY <1>1, CountsKept DEF TrackerInv
<1> QED
  BY <1>4, <1>5, <1>6, <1>7, <1>8 DEF TrackerInv

\* A row is packed into a compact string.
LEMMA PackRowStep ==
  ASSUME TrackerInv, PackRow
  PROVE  TrackerInv' /\ Len(wire') >= Len(wire)
<1>1. /\ InLoop /\ i' = i + 1 /\ i < Len(rows) /\ rows[i + 1] \in {"v4", "v6"}
      /\ pos4' = IF rows[i + 1] = "v4" THEN pos4 + 6 ELSE pos4
      /\ pos6' = IF rows[i + 1] = "v6" THEN pos6 + 18 ELSE pos6
      /\ listed' = Append(listed, i + 1)
      /\ UNCHANGED <<rpc, requestVars, rows, error, registered, scrapeVars, netVars>>
  BY DEF PackRow
<1>2. /\ i \in Nat /\ i < numwant /\ numwant \in Nat /\ rpc = "rows"
      /\ pos4 \in Nat /\ pos6 \in Nat /\ Len(rows) \in Nat
  BY <1>1 DEF TrackerInv, ReplyTypeOK, InLoop
<1>3. i + 1 \in Wanted
  BY <1>1, <1>2 DEF Wanted
<1>a. pos4' \in Nat /\ pos6' \in Nat /\ pos4' + pos6' <= pos4 + pos6 + 18
  BY <1>1, <1>2
<1>4. FreshOK' /\ BoundOK' /\ CompactFits' /\ ListOK' /\ listed' \in Seq(Nat)
  BY <1>1, <1>a, <1>3, RowListed
<1>5. ReplyTypeOK'
  BY <1>1, <1>2, <1>4, <1>a DEF TrackerInv, ReplyTypeOK, requestVars, scrapeVars, tableVars, netVars
<1>6. SendOK' /\ Len(wire') >= Len(wire)
  BY <1>1 DEF TrackerInv, SendOK, netVars
<1>7. CountsOK'
  BY <1>1, CountsKept DEF TrackerInv
<1> QED
  BY <1>4, <1>5, <1>6, <1>7 DEF TrackerInv

\* The list is full, or its rows have ended.
LEMMA EndLoopStep ==
  ASSUME TrackerInv, EndLoop
  PROVE  TrackerInv' /\ Len(wire') >= Len(wire)
<1>1. /\ rpc = "rows" /\ rpc' \in {"str4", "close"} /\ ~InLoop
      /\ UNCHANGED <<path, numwant, compact, misread, listVars, scrapeVars, due, wire, cutoff, conn>>
  BY DEF EndLoop, RGo, requestVars, netVars
<1>2. error # "ROW" \/ i >= numwant
  BY <1>1 DEF InLoop, TrackerInv, ReplyTypeOK
<1>3. conn' \in {"up", "down"} /\ misread' \in BOOLEAN /\ Len(wire') >= Len(wire)
  BY <1>1 DEF TrackerInv, ReplyTypeOK, SendOK
<1> QED
  BY <1>1, <1>2, <1>3, QuietTrackerStep DEF ReplyPCs, BeforeRows, AfterRows

\* The announce is registered behind its reply.
LEMMA RegisterStep ==
  ASSUME TrackerInv, Register
  PROVE  TrackerInv' /\ Len(wire') >= Len(wire)
<1>1. /\ rpc = "register" /\ rpc' = "done" /\ registered' = TRUE
      /\ UNCHANGED <<requestVars, rows, error, i, listed, pos4, pos6, scrapeVars, netVars>>
  BY DEF Register, RGo
<1>2. FreshOK' /\ BoundOK' /\ CompactFits' /\ ListOK'
  BY <1>1, ListKept DEF requestVars, BeforeRows, AfterRows
<1>3. ReplyTypeOK'
  BY <1>1 DEF TrackerInv, ReplyTypeOK, ReplyPCs, requestVars, scrapeVars, tableVars, netVars
<1>4. SendOK' /\ Len(wire') >= Len(wire)
  BY <1>1 DEF TrackerInv, SendOK, netVars
<1>5. CountsOK'
  BY <1>1, CountsKept DEF TrackerInv
<1> QED
  BY <1>2, <1>3, <1>4, <1>5 DEF TrackerInv

\* The counts of a scrape are sent.
LEMMA SendCountsStep ==
  ASSUME TrackerInv, SendCounts
  PROVE  TrackerInv' /\ Len(wire') >= Len(wire)
<1>1. /\ rpc = "count" /\ rpc' = "done" /\ reallySend("counts") /\ "counts" \in Pieces
      /\ UNCHANGED <<path, numwant, compact, misread, listVars, scrapeVars>>
  BY DEF SendCounts, RGo, requestVars, Pieces
<1> QED
  BY <1>1, SendStep DEF ReplyPCs, BeforeRows, AfterRows

\* The connection is closed behind the reply.
LEMMA CloseReplyStep ==
  ASSUME TrackerInv, CloseReply
  PROVE  TrackerInv' /\ Len(wire') >= Len(wire)
<1>1. /\ rpc' = "closed"
      /\ UNCHANGED <<path, numwant, compact, misread, listVars, scrapeVars, due, wire, cutoff, conn>>
  BY DEF CloseReply, RGo, requestVars, netVars
<1>2. conn' \in {"up", "down"} /\ misread' \in BOOLEAN /\ Len(wire') >= Len(wire)
  BY <1>1 DEF TrackerInv, ReplyTypeOK, SendOK
<1> QED
  BY <1>1, <1>2, QuietTrackerStep DEF ReplyPCs, BeforeRows, AfterRows

\* A count is exact when it is read, or has failed and says nothing; with one read
\* before it, the sum is off by as much as that one was.
LEMMA CountStep ==
  ASSUME TrackerInv, NEW q \in Queries, Count(q)
  PROVE  TrackerInv' /\ Len(wire') >= Len(wire)
<1>1. /\ counts[q] = Unread
      /\ UNCHANGED <<rpc, requestVars, listVars, tableVars, moves, netVars>>
  BY DEF Count
<1>2. /\ counts \in [Queries -> Int] /\ seeds \in Nat /\ fresh \in Nat /\ leeches \in Nat
      /\ downloaded \in Nat /\ moves \in Nat /\ CountOf(q) \in Int /\ failed \subseteq Queries
  BY DEF TrackerInv, ReplyTypeOK, CountOf
<1>3. UNCHANGED <<seeds, fresh, leeches, downloaded, moves>>
  BY <1>1 DEF tableVars
<1>4. ASSUME NEW v \in Int, counts' = [counts EXCEPT ![q] = v], failed' \in {failed, failed \cup {q}}
      PROVE  /\ counts' \in [Queries -> Int] /\ failed' \subseteq Queries /\ counts'[q] = v
             /\ \A r \in Queries \ {q} : counts'[r] = counts[r] /\ (r \in failed' <=> r \in failed)
  BY <1>2, <1>4
<1>5. ASSUME counts' = [counts EXCEPT ![q] = CountOf(q)], failed' = failed
      PROVE  CountsOK' /\ counts' \in [Queries -> Int] /\ failed' \subseteq Queries
  <2>1. /\ counts' \in [Queries -> Int] /\ failed' \subseteq Queries /\ counts'[q] = CountOf(q)
        /\ \A r \in Queries \ {q} : counts'[r] = counts[r]
    BY <1>2, <1>4, <1>5
  <2>2. /\ counts["complete"] \in Int /\ counts["incomplete"] \in Int /\ CountsOK
        /\ counts["downloaded"] \in Int
    BY <1>2 DEF TrackerInv, Queries
  <2>3. CASE q = "complete"
    <3>1. /\ counts'["complete"] = seeds + fresh /\ counts'["incomplete"] = counts["incomplete"]
          /\ counts'["downloaded"] = counts["downloaded"]
      BY <2>1, <2>3 DEF CountOf, Queries
    <3> QED
      BY <1>2, <1>3, <1>5, <2>1, <2>2, <3>1 DEF CountsOK, Read, Near
  <2>4. CASE q = "incomplete"
    <3>1. /\ counts'["incomplete"] = leeches /\ counts'["complete"] = counts["complete"]
          /\ counts'["downloaded"] = counts["downloaded"]
      BY <2>1, <2>4 DEF CountOf, Queries
    <3> QED
      BY <1>2, <1>3, <1>5, <2>1, <2>2, <3>1 DEF CountsOK, Read, Near
  <2>5. CASE q = "downloaded"
    <3>1. /\ counts'["downloaded"] = downloaded /\ counts'["complete"] = counts["complete"]
          /\ counts'["incomplete"] = counts["incomplete"]
      BY <2>1, <2>5 DEF CountOf, Queries
    <3> QED
      BY <1>2, <1>3, <1>5, <2>1, <2>2, <3>1 DEF CountsOK, Read, Near
  <2> QED
    BY <2>3, <2>4, <2>5 DEF Queries
<1>6. ASSUME NEW v \in ErrorCodes \cup {-1}, counts' = [counts EXCEPT ![q] = v],
             failed' = failed \cup {q}
      PROVE  CountsOK' /\ counts' \in [Queries -> Int] /\ failed' \subseteq Queries
  <2>1. /\ counts' \in [Queries -> Int] /\ failed' \subseteq Queries
        /\ \A r \in Queries \ {q} : counts'[r] = counts[r] /\ (r \in failed' <=> r \in failed)
    <3>1. v \in Int
      BY <1>6, TorrentIdAssumption
    <3> QED
      BY <3>1, <1>4, <1>6
  <2>2. \A r \in Queries : Read(r)' => Read(r) /\ counts'[r] = counts[r]
    BY <1>6, <2>1 DEF Read
  <2>3. /\ Read("complete")' => Read("complete") /\ counts'["complete"] = counts["complete"]
        /\ Read("incomplete")' => Read("incomplete") /\ counts'["incomplete"] = counts["incomplete"]
        /\ Read("downloaded")' => Read("downloaded") /\ counts'["downloaded"] = counts["downloaded"]
    BY <2>2 DEF Queries
  <2>4. CountsOK'
    BY <1>3, <2>3 DEF TrackerInv, CountsOK, Near
  <2> QED
    BY <2>1, <2>4
<1>7. CountsOK' /\ counts' \in [Queries -> Int] /\ failed' \subseteq Queries
  BY <1>5, <1>6 DEF Count
<1>8. FreshOK' /\ BoundOK' /\ CompactFits' /\ ListOK'
  BY <1>1, ListKept DEF requestVars, listVars
<1>9. ReplyTypeOK' /\ SendOK' /\ Len(wire') >= Len(wire)
  BY <1>1, <1>3, <1>7 DEF TrackerInv, ReplyTypeOK, SendOK, requestVars, listVars, netVars
<1> QED
  BY <1>7, <1>8, <1>9 DEF TrackerInv

\* A commit that changes n rows moves every number by at most n.
LEMMA MoveFacts ==
  ASSUME seeds \in Nat, fresh \in Nat, leeches \in Nat, downloaded \in Nat, NEW n \in Nat \ {0},
         (n = 1 /\ (InsertMove \/ UpdateMove)) \/ PruneMove(n)
  PROVE  /\ seeds' \in Nat /\ fresh' \in Nat /\ leeches' \in Nat /\ downloaded' \in Nat
         /\ (seeds + fresh)' - (seeds + fresh) \in (-n)..n
         /\ leeches' - leeches \in (-n)..n
         /\ (seeds + fresh + leeches)' - (seeds + fresh + leeches) \in (-n)..n
         /\ downloaded' - downloaded \in 0..n
<1>1. CASE n = 1 /\ InsertMove
  BY <1>1 DEF InsertMove
<1>2. CASE n = 1 /\ UpdateMove
  BY <1>2 DEF UpdateMove
<1>3. CASE PruneMove(n)
  <2>1. /\ seeds' \in Nat /\ fresh' \in Nat /\ leeches' \in Nat /\ downloaded' = downloaded
        /\ seeds' <= seeds /\ fresh' <= fresh /\ leeches' <= leeches
    BY <1>3 DEF PruneMove
  <2>2. seeds' + fresh' + leeches' + n = seeds + fresh + leeches
    BY <1>3 DEF PruneMove
  <2>3. ASSUME NEW a \in Nat, NEW b \in Nat, NEW c \in Nat,
               NEW x \in Nat, NEW y \in Nat, NEW z \in Nat,
               x <= a, y <= b, z <= c, x + y + z + n = a + b + c
        PROVE  /\ (x + y) - (a + b) \in (-n)..n /\ z - c \in (-n)..n
               /\ (x + y + z) - (a + b + c) \in (-n)..n
    <3>1. /\ (x + y) - (a + b) = (c - z) - n /\ (x + y + z) - (a + b + c) = -n
          /\ (a + b) - (x + y) >= 0 /\ z - c = ((a + b) - (x + y)) - n
      BY <2>3
    <3> QED
      BY <2>3, <3>1
  <2>4. /\ (seeds' + fresh') - (seeds + fresh) \in (-n)..n /\ leeches' - leeches \in (-n)..n
        /\ (seeds' + fresh' + leeches') - (seeds + fresh + leeches) \in (-n)..n
    BY <2>1, <2>2, <2>3
  <2>5. downloaded' - downloaded = 0
    BY <2>1
  <2>6. downloaded' - downloaded \in 0..n
    BY <2>5
  <2>7. downloaded' \in Nat
    BY <2>1
  <2>8. (seeds + fresh)' - (seeds + fresh) \in (-n)..n
    BY <2>4
  <2>9. (seeds + fresh + leeches)' - (seeds + fresh + leeches) \in (-n)..n
    BY <2>4
  <2> QED
    BY <2>1, <2>4, <2>6, <2>7, <2>8, <2>9
<1> QED
  BY <1>1, <1>2, <1>3

\* A commit is counted with all its rows.
LEMMA TableMoveStep ==
  ASSUME TrackerInv, TableMove
  PROVE  TrackerInv'
<1>1. PICK n \in 1..(MaxMoves - moves) :
        /\ moves' = moves + n
        /\ (n = 1 /\ (InsertMove \/ UpdateMove)) \/ PruneMove(n)
        /\ UNCHANGED <<rpc, requestVars, listVars, counts, failed, netVars>>
  BY DEF TableMove
<1>2. /\ seeds \in Nat /\ fresh \in Nat /\ leeches \in Nat /\ downloaded \in Nat /\ moves \in Nat
      /\ n \in Nat \ {0} /\ moves' \in Nat
  BY <1>1, ReplyBoundsAssumption DEF TrackerInv, ReplyTypeOK
<1>3. /\ seeds' \in Nat /\ fresh' \in Nat /\ leeches' \in Nat /\ downloaded' \in Nat
      /\ (seeds + fresh)' - (seeds + fresh) \in (-n)..n
      /\ leeches' - leeches \in (-n)..n
      /\ (seeds + fresh + leeches)' - (seeds + fresh + leeches) \in (-n)..n
      /\ downloaded' - downloaded \in 0..n
  BY <1>1, <1>2, MoveFacts
<1>4. ReplyTypeOK' /\ SendOK'
  BY <1>1, <1>2, <1>3 DEF TrackerInv, ReplyTypeOK, SendOK, requestVars, listVars, netVars
<1>5. FreshOK' /\ BoundOK' /\ CompactFits' /\ ListOK'
  BY <1>1, ListKept DEF requestVars, listVars
<1>6. \A v \in Int :
        /\ Near(v, seeds + fresh) => Near(v, seeds + fresh)'
        /\ Near(v, leeches) => Near(v, leeches)'
        /\ Near(v, seeds + fresh + leeches) => Near(v, seeds + fresh + leeches)'
        /\ v \in (downloaded - moves)..downloaded => v \in ((downloaded - moves)..downloaded)'
  <2>1. ASSUME NEW v \in Int, NEW w \in Int, NEW x \in Int, x - w \in (-n)..n,
               v - w \in (-moves)..moves
        PROVE  v - x \in (-moves')..moves'
    BY <1>1, <1>2, <2>1
  <2>2. /\ seeds + fresh \in Int /\ seeds' + fresh' \in Int
        /\ seeds + fresh + leeches \in Int /\ seeds' + fresh' + leeches' \in Int
    BY <1>2, <1>3
  <2>3. ASSUME NEW v \in Int, NEW d \in Nat, NEW e \in Nat, e - d \in 0..n, v \in (d - moves)..d
        PROVE  v \in (e - moves')..e
    <3>1. d <= e /\ e <= d + n /\ d - moves <= v /\ v <= d /\ moves' = moves + n
      BY <1>1, <1>2, <2>3
    <3> QED
      BY <1>2, <3>1
  <2>5. ASSUME NEW v \in Int
        PROVE  v \in (downloaded - moves)..downloaded => v \in ((downloaded - moves)..downloaded)'
    BY <1>2, <1>3, <2>3
  <2>4. ASSUME NEW v \in Int
        PROVE  /\ Near(v, seeds + fresh) => Near(v, seeds + fresh)'
               /\ Near(v, leeches) => Near(v, leeches)'
               /\ Near(v, seeds + fresh + leeches) => Near(v, seeds + fresh + leeches)'
    <3>1. Near(v, seeds + fresh) => Near(v, seeds + fresh)'
      BY <1>3, <2>1, <2>2 DEF Near
    <3>2. Near(v, leeches) => Near(v, leeches)'
      <4>1. leeches \in Int /\ leeches' \in Int
        BY <1>2, <1>3
      <4> QED
        BY <1>3, <2>1, <4>1 DEF Near
    <3>3. Near(v, seeds + fresh + leeches) => Near(v, seeds + fresh + leeches)'
      BY <1>3, <2>1, <2>2 DEF Near
    <3> QED
      BY <3>1, <3>2, <3>3
  <2> QED
    BY <2>4, <2>5
<1>7. /\ UNCHANGED <<counts, failed>>
      /\ counts["complete"] \in Int /\ counts["incomplete"] \in Int /\ counts["downloaded"] \in Int
      /\ counts["complete"] + counts["incomplete"] \in Int
  BY <1>1 DEF TrackerInv, ReplyTypeOK, Queries
<1>8. CountsOK'
  BY <1>6, <1>7 DEF TrackerInv, CountsOK, Read
<1> QED
  BY <1>4, <1>5, <1>8 DEF TrackerInv

\* Every step of the tracker keeps its invariant and takes back nothing it sent.
LEMMA TrackerInvStep ==
  ASSUME TrackerInv, TrackerStep
  PROVE  TrackerInv' /\ Len(wire') >= Len(wire)
  BY HeadersStep, LookupStep, PrepareStep, EndOfRowsStep, SkipRowStep, PushRowStep, PackRowStep,
     EndLoopStep, SendRestStep, RegisterStep, SendCountsStep, CloseReplyStep, CountStep
     DEF TrackerStep

-----------------------------------------------------------------------------
(***************************************************************************)
(* The client, and both together.                                          *)
(***************************************************************************)

ClientTypeOK ==
  /\ gpc \in {"none", "args", "connect", "send", "recv", "parse", "exit"}
  /\ tried \in 0..Addresses /\ sock \in {"none", "open", "closed"}
  /\ sent \in 0..RequestLen /\ tries \in 0..MAX_SEND_RETRY_COUNT
  /\ got \in 0..Len(wire) /\ buflen \in Nat
  /\ outcome \in {"none", "usage", "error", "invalid", "notdict", "failure", "nopeers", "peers"}

\* Every recv() but the last fills its chunk, so the buffer is full before each
\* of them and has room for the terminator after the last.
ReadOK ==
  /\ gpc \in {"none", "args", "connect", "send"} => got = 0 /\ buflen = 0
  /\ gpc = "recv" => got = buflen
  /\ gpc = "parse" => got < buflen

SocketOK ==
  sock = "open" => gpc \in {"send", "recv"} \/ (gpc = "exit" /\ tries > 0 /\ buflen = 0)

ClientInv == ClientTypeOK /\ ReadOK /\ SocketOK

GpInv == TrackerInv /\ ClientInv

\* What leaves the client's variables alone and takes nothing off the wire.
LEMMA ClientKept ==
  ASSUME GpInv, UNCHANGED clientVars, Len(wire') >= Len(wire)
  PROVE  ClientInv'
<1>1. Len(wire) \in Nat
  BY DEF GpInv, TrackerInv, SendOK
<1>2. UNCHANGED <<gpc, tried, sock, sent, tries, got, buflen, outcome>>
  BY DEF clientVars
<1> QED
  BY <1>1, <1>2 DEF GpInv, ClientInv, ClientTypeOK, ReadOK, SocketOK

\* What leaves the tracker's variables alone keeps its invariant.
LEMMA TrackerKept ==
  ASSUME GpInv, UNCHANGED replyVars
  PROVE  TrackerInv' /\ wire' = wire /\ Len(wire) \in Nat
<1>1. UNCHANGED <<path, numwant, compact, misread, listVars, scrapeVars, due, wire, cutoff, conn, rpc>>
  BY DEF replyVars, requestVars, netVars
<1>2. conn' \in {"up", "down"} /\ misread' \in BOOLEAN /\ rpc' \in ReplyPCs
  BY <1>1 DEF GpInv, TrackerInv, ReplyTypeOK
<1>3. TrackerInv'
  BY <1>1, <1>2, QuietTrackerStep DEF GpInv
<1> QED
  BY <1>1, <1>3 DEF GpInv, TrackerInv, SendOK

\* The invariant holds initially.
LEMMA InitGpInv == GpInit => GpInv
<1> SUFFICES ASSUME GpInit PROVE GpInv
  OBVIOUS
<1>1. TrackerInv
  BY InitTrackerInv DEF GpInit
<1>2. wire = <<>>
  BY DEF GpInit, ReplyInit
<1>3. ClientInv
  BY <1>2, GetpeersAssumption DEF GpInit, ClientInv, ClientTypeOK, ReadOK, SocketOK
<1> QED
  BY <1>1, <1>3 DEF GpInv

\* The command line is read and the request written.
LEMMA ArgsStep ==
  ASSUME GpInv, NEW cmd \in Commands, Args(cmd)
  PROVE  GpInv'
<1>1. /\ gpc = "args" /\ gpc' \in {"connect", "exit"} /\ outcome' \in {outcome, "usage"}
      /\ UNCHANGED <<replyVars, tried, sock, sent, tries, got, buflen>>
  BY DEF Args, Exit
<1>2. TrackerInv' /\ wire' = wire
  BY <1>1, TrackerKept
<1>3. ClientInv'
  BY <1>1, <1>2 DEF GpInv, ClientInv, ClientTypeOK, ReadOK, SocketOK
<1> QED
  BY <1>2, <1>3 DEF GpInv

\* The next address is tried.
LEMMA ConnectStep ==
  ASSUME GpInv, Connect
  PROVE  GpInv'
<1>1. /\ gpc = "connect" /\ tried < Addresses
      /\ \/ sock' \in {"none", "closed"} /\ gpc' = gpc /\ tried' = tried + 1
         \/ sock' = "open" /\ gpc' = "send" /\ tried' = 0
      /\ UNCHANGED <<replyVars, sent, tries, got, buflen, outcome>>
  BY DEF Connect
<1>2. TrackerInv' /\ wire' = wire
  BY <1>1, TrackerKept
<1>3. tried' \in 0..Addresses
  BY <1>1, GetpeersAssumption DEF GpInv, ClientInv, ClientTypeOK
<1>4. ClientInv'
  BY <1>1, <1>2, <1>3 DEF GpInv, ClientInv, ClientTypeOK, ReadOK, SocketOK
<1> QED
  BY <1>2, <1>4 DEF GpInv

\* No address answers.
LEMMA NoConnectionStep ==
  ASSUME GpInv, NoConnection
  PROVE  GpInv'
<1>1. /\ gpc = "connect" /\ gpc' = "exit" /\ outcome' = "error"
      /\ UNCHANGED <<replyVars, tried, sock, sent, tries, got, buflen>>
  BY DEF NoConnection, Exit
<1>2. TrackerInv' /\ wire' = wire
  BY <1>1, TrackerKept
<1>3. ClientInv'
  BY <1>1, <1>2 DEF GpInv, ClientInv, ClientTypeOK, ReadOK, SocketOK
<1> QED
  BY <1>2, <1>3 DEF GpInv

\* One call of send(), whole, short or failed.
LEMMA SendCallStep ==
  ASSUME GpInv, Send \/ SendFails
  PROVE  GpInv'
<1>1. /\ gpc = "send" /\ sent < RequestLen /\ tries < MAX_SEND_RETRY_COUNT
      /\ tries' = tries + 1 /\ UNCHANGED <<replyVars, tried, sock, got, buflen>>
      /\ \/ /\ gpc' = gpc /\ outcome' = outcome
            /\ \E n \in 1..(RequestLen - sent) : sent' = sent + n
         \/ gpc' = "exit" /\ outcome' = "error" /\ sent' = sent
  BY DEF Send, SendFails, Sending, Exit
<1>2. TrackerInv' /\ wire' = wire
  BY <1>1, TrackerKept
<1>3. sent \in 0..RequestLen /\ tries \in 0..MAX_SEND_RETRY_COUNT
  BY DEF GpInv, ClientInv, ClientTypeOK
<1>4. sent' \in 0..RequestLen /\ tries' \in 0..MAX_SEND_RETRY_COUNT /\ tries' > 0
  BY <1>1, <1>3, GetpeersAssumption
<1>5. ClientInv'
  BY <1>1, <1>2, <1>4 DEF GpInv, ClientInv, ClientTypeOK, ReadOK, SocketOK
<1> QED
  BY <1>2, <1>5 DEF GpInv

\* The request is sent, or the calls for it are used up.
LEMMA EndOfSendStep ==
  ASSUME GpInv, EndOfSend
  PROVE  GpInv'
<1>1. /\ gpc = "send" /\ gpc' = "recv" /\ tries' = 0
      /\ UNCHANGED <<replyVars, tried, sock, sent, got, buflen, outcome>>
  BY DEF EndOfSend, GGo
<1>2. TrackerInv' /\ wire' = wire
  BY <1>1, TrackerKept
<1>3. tries' \in 0..MAX_SEND_RETRY_COUNT
  BY <1>1, GetpeersAssumption
<1>4. ClientInv'
  BY <1>1, <1>2, <1>3 DEF GpInv, ClientInv, ClientTypeOK, ReadOK, SocketOK
<1> QED
  BY <1>2, <1>4 DEF GpInv

\* The reply is looked into.
LEMMA ParseStep ==
  ASSUME GpInv, Parse
  PROVE  GpInv'
<1>1. /\ gpc = "parse" /\ gpc' = "exit"
      /\ outcome' \in {"error", "invalid", "notdict", "failure", "nopeers", "peers"}
      /\ UNCHANGED <<replyVars, tried, sock, sent, tries, got, buflen>>
  BY DEF Parse, Exit, ReplyOutcomes
<1>2. TrackerInv' /\ wire' = wire
  BY <1>1, TrackerKept
<1>3. ClientInv'
  BY <1>1, <1>2 DEF GpInv, ClientInv, ClientTypeOK, ReadOK, SocketOK
<1> QED
  BY <1>2, <1>3 DEF GpInv

\* One call of recv() into the next chunk of the buffer.
LEMMA RecvStep ==
  ASSUME GpInv, NEW n \in RecvResults \cup {-1}, Recv(n)
  PROVE  GpInv'
<1>1. /\ gpc = "recv" /\ buflen' = buflen + Chunk
      /\ got' = IF n = -1 THEN got ELSE got + n
      /\ IF n = Chunk THEN gpc' = "recv" /\ UNCHANGED <<sock, conn>>
                      ELSE gpc' = "parse" /\ sock' = "closed" /\ conn' = "down"
      /\ UNCHANGED <<rpc, requestVars, listVars, scrapeVars, due, wire, cutoff>>
      /\ UNCHANGED <<tried, sent, tries, outcome>>
  BY DEF Recv
<1>2. /\ Chunk \in Nat /\ Chunk > 0 /\ got \in Nat /\ got <= Len(wire) /\ Len(wire) \in Nat
      /\ buflen \in Nat /\ got = buflen
  BY <1>1, GetpeersAssumption DEF GpInv, ClientInv, ClientTypeOK, ReadOK, TrackerInv, SendOK
<1>3. n = -1 \/ (n \in Nat /\ n <= Chunk /\ got + n <= Len(wire))
  BY <1>2 DEF RecvResults
<1>4. got' \in 0..Len(wire) /\ buflen' \in Nat /\ got' <= buflen'
  BY <1>1, <1>2, <1>3
<1>5. IF n = Chunk THEN got' = buflen' ELSE got' < buflen'
  BY <1>1, <1>2, <1>3
<1>6. TrackerInv'
  <2>1. /\ UNCHANGED <<path, numwant, compact, misread, listVars, scrapeVars, due, wire, cutoff, rpc>>
        /\ conn' \in {conn, "down"}
    BY <1>1 DEF requestVars
  <2>2. conn' \in {"up", "down"} /\ misread' \in BOOLEAN /\ rpc' \in ReplyPCs
    BY <2>1 DEF GpInv, TrackerInv, ReplyTypeOK
  <2> QED
    BY <2>1, <2>2, QuietTrackerStep DEF GpInv
<1>7. ClientTypeOK'
  BY <1>1, <1>4 DEF GpInv, ClientInv, ClientTypeOK
<1>8. ReadOK' /\ SocketOK'
  BY <1>1, <1>5 DEF ReadOK, SocketOK
<1> QED
  BY <1>6, <1>7, <1>8 DEF GpInv, ClientInv

\* The request arrives, whole or not.
LEMMA RequestArrives ==
  ASSUME GpInv,
         TakeRequest \/ GiveUpRequest \/ (\E t \in Texts : OtherRequest(t))
  PROVE  GpInv'
<1>1. ASSUME NEW text, ReceiveRequest(text), UNCHANGED clientVars PROVE GpInv'
  <2>1. TrackerInv'
    BY <1>1, ReceiveStep DEF GpInv
  <2>2. wire' = wire /\ Len(wire) \in Nat
    BY <1>1 DEF ReceiveRequest, netVars, GpInv, TrackerInv, SendOK
  <2> QED
    BY <1>1, <2>1, <2>2, ClientKept DEF GpInv
<1>2. ASSUME GiveUpRequest PROVE GpInv'
  <2>1. /\ rpc = "idle" /\ rpc' \in {"done", "headers"} /\ UNCHANGED clientVars
        /\ UNCHANGED <<path, numwant, compact, misread, listVars, scrapeVars, due, wire, cutoff, conn>>
    BY <1>2 DEF GiveUpRequest, RGo, requestVars, netVars
  <2>2. conn' \in {"up", "down"} /\ misread' \in BOOLEAN /\ Len(wire') >= Len(wire)
    BY <2>1 DEF GpInv, TrackerInv, ReplyTypeOK, SendOK
  <2>3. TrackerInv'
    BY <2>1, <2>2, QuietTrackerStep DEF GpInv, ReplyPCs, BeforeRows, AfterRows
  <2> QED
    BY <2>1, <2>2, <2>3, ClientKept DEF GpInv
<1> QED
  BY <1>1, <1>2 DEF TakeRequest, OtherRequest

\* Every step of either program preserves the invariant.
LEMMA GpInvStep == GpInv /\ [GpNext]_gpVars => GpInv'
<1> SUFFICES ASSUME GpInv, [GpNext]_gpVars PROVE GpInv'
  OBVIOUS
<1>1. ASSUME ClientProgress PROVE GpInv'
  BY <1>1, ArgsStep, ConnectStep, NoConnectionStep, SendCallStep, EndOfSendStep, ParseStep, RecvStep
     DEF ClientProgress
<1>2. ASSUME Recv(-1) PROVE GpInv'
  BY <1>2, RecvStep
<1>3. ASSUME TrackerStep, UNCHANGED clientVars PROVE GpInv'
  BY <1>3, TrackerInvStep, ClientKept DEF GpInv
<1>4. ASSUME TableMove, UNCHANGED clientVars PROVE GpInv'
  <2>1. wire' = wire /\ Len(wire) \in Nat
    BY <1>4 DEF TableMove, netVars, GpInv, TrackerInv, SendOK
  <2> QED
    BY <1>4, <2>1, TableMoveStep, ClientKept DEF GpInv
<1>5. ASSUME UNCHANGED gpVars PROVE GpInv'
  BY <1>5, TrackerKept, ClientKept DEF gpVars, GpInv
<1> QED
  BY <1>1, <1>2, <1>3, <1>4, <1>5, RequestArrives DEF GpNext, Server, Ended

\* The invariant of getpeers talking to the tracker holds in every reachable state.
THEOREM GpInvariant == GpSpec => []GpInv
<1>1. GpInit => GpInv
  BY InitGpInv
<1>2. GpInv /\ [GpNext]_gpVars => GpInv'
  BY GpInvStep
<1> QED
  BY <1>1, <1>2, PTL DEF GpSpec

-----------------------------------------------------------------------------
\* Both programs keep their types: numwant= and the rows are within
\* MAXPEERS_SENT, and no more is read than has been sent.
THEOREM GpTypeCorrect == GpSpec => []GpTypeOK
<1>1. GpInv => GpTypeOK
  BY DEF GpInv, TrackerInv, ClientInv, ClientTypeOK, GpTypeOK
<1> QED
  BY <1>1, GpInvariant, PTL

\* The compact strings fit their buffers, for every numwant= and every width of
\* an int.
THEOREM CompactBounded == GpSpec => []CompactFits
<1>1. GpInv => CompactFits
  BY DEF GpInv, TrackerInv
<1> QED
  BY <1>1, GpInvariant, PTL

\* A peer list leaves out the client itself and nobody else who was asked for,
\* whatever the table held.
THEOREM ListIsComplete == GpSpec => []ListComplete
<1>1. GpInv => ListComplete
  <2> SUFFICES ASSUME GpInv, rpc \in AfterRows, error # "FAILED" PROVE
        /\ {listed[k] : k \in 1..Len(listed)} = Wanted
        /\ Len(listed) = Cardinality(Wanted)
    BY DEF ListComplete, AfterRows
  <2>1. \/ error = "DONE" /\ i > Len(rows)
        \/ i >= numwant
    BY DEF GpInv, TrackerInv, ListOK, ReplyTypeOK
  <2>2. i \in Nat /\ numwant \in Nat /\ Len(rows) \in Nat
    BY DEF GpInv, TrackerInv, ReplyTypeOK
  <2>3. \A k \in Wanted : k <= i
    BY <2>1, <2>2 DEF Wanted
  <2>4. Seen = Wanted
    BY <2>3 DEF Seen
  <2> QED
    BY <2>4 DEF GpInv, TrackerInv, ListOK
<1> QED
  BY <1>1, GpInvariant, PTL

\* The counts of a scrape are off by no more than what was committed while they
\* were read, in whichever order that happened.
THEOREM ScrapeDrift == GpSpec => []ScrapeOff
<1>1. GpInv => ScrapeOff
  BY DEF GpInv, TrackerInv, CountsOK, Read, ScrapeOff, Queries
<1> QED
  BY <1>1, GpInvariant, PTL

\* The reply's terminator is written within the buffer, for every chunk size and
\* every way the reply is cut into reads.
THEOREM TerminatorFits == GpSpec => []TerminatorInBuffer
<1>1. GpInv => TerminatorInBuffer
  BY DEF GpInv, ClientInv, ReadOK, TerminatorInBuffer
<1> QED
  BY <1>1, GpInvariant, PTL

\* http_get() leaves its socket open only if send() failed, however many
\* addresses were tried.
THEOREM SocketIsReleased == GpSpec => []SocketReleased
<1>1. GpInv => SocketReleased
  BY DEF GpInv, ClientInv, SocketOK, SocketReleased
<1> QED
  BY <1>1, GpInvariant, PTL

-----------------------------------------------------------------------------
(***************************************************************************)
(* Cutting a URL.                                                          *)
(***************************************************************************)

\* A text is cut at the first of a separator, here within the text's beginning.
LEMMA CutAt ==
  ASSUME NEW S, NEW pre \in Seq(S), NEW post \in Seq(S), NEW k \in 1..Len(pre),
         NEW t, pre[k] = t, \A j \in 1..(k - 1) : pre[j] # t
  PROVE  /\ Has(pre \o post, t) /\ Before(pre \o post, t) = SubSeq(pre, 1, k - 1)
         /\ After(pre \o post, t) = SubSeq(pre, k + 1, Len(pre)) \o post
<1> DEFINE s == pre \o post
<1>0. s = pre \o post
  OBVIOUS
<1> HIDE DEF s
<1> DEFINE m == Len(pre)
           n == Len(post)
           l == Len(s)
<1>1. m \in Nat /\ n \in Nat /\ k \in Nat /\ 1 <= k /\ k <= m
  BY LenProperties
<1>2. /\ s \in Seq(S) /\ l = m + n
      /\ \A j \in 1..m : j \in 1..l /\ s[j] = pre[j]
      /\ \A j \in 1..n : m + j \in 1..l /\ s[m + j] = post[j]
  BY <1>0, ConcatParts
<1>3. l = Len(s) /\ m = Len(pre) /\ n = Len(post)
  OBVIOUS
<1> HIDE DEF m, n, l
<1>4. s[k] = t /\ k \in 1..l
  BY <1>2, <1>3
<1>5. \A j \in 1..(k - 1) : s[j] # t /\ s[j] = pre[j]
  BY <1>1, <1>2
<1>6. FirstAt(s, t) = k
  <2> DEFINE First(x) == s[x] = t /\ \A j \in 1..(x - 1) : s[j] # t
  <2>1. First(k)
    BY <1>4, <1>5
  <2>2. ASSUME NEW x \in 1..l, First(x) PROVE x = k
    <3>1. ~(x < k)
      <4> SUFFICES ASSUME x < k PROVE FALSE
        OBVIOUS
      <4>1. x \in 1..(k - 1)
        BY <1>1
      <4> QED
        BY <1>5, <2>2, <4>1
    <3>2. ~(k < x)
      <4> SUFFICES ASSUME k < x PROVE FALSE
        OBVIOUS
      <4>1. k \in 1..(x - 1)
        BY <1>1
      <4> QED
        BY <1>4, <2>2, <4>1
    <3> QED
      BY <1>1, <3>1, <3>2
  <2>3. FirstAt(s, t) = CHOOSE x \in 1..l : First(x)
    BY <1>3 DEF FirstAt
  <2>4. (CHOOSE x \in 1..l : First(x)) \in 1..l /\ First(CHOOSE x \in 1..l : First(x))
    BY <1>4, <2>1
  <2> HIDE DEF First
  <2> QED
    BY <2>2, <2>3, <2>4
<1>7. Has(s, t)
  BY <1>3, <1>4 DEF Has
<1>8. SubSeq(s, 1, k - 1) = SubSeq(pre, 1, k - 1)
  <2> DEFINE x == SubSeq(s, 1, k - 1)
             y == SubSeq(pre, 1, k - 1)
  <2>1. 1 \in 1..(Len(s) + 1) /\ k - 1 \in 0..Len(s) /\ 1 <= (k - 1) + 1
    BY <1>1, <1>2, <1>3
  <2>2. 1 \in 1..(Len(pre) + 1) /\ k - 1 \in 0..Len(pre)
    BY <1>1, <1>3
  <2>3. s \in Seq(S)
    BY <1>2
  <2>4. /\ x \in Seq(S) /\ Len(x) = (k - 1) - 1 + 1
        /\ \A j \in 1..((k - 1) - 1 + 1) : x[j] = s[1 + j - 1]
    BY <2>1, <2>3, Slice
  <2>5. /\ y \in Seq(S) /\ Len(y) = (k - 1) - 1 + 1
        /\ \A j \in 1..((k - 1) - 1 + 1) : y[j] = pre[1 + j - 1]
    BY <2>1, <2>2, Slice
  <2>6. (k - 1) - 1 + 1 = k - 1 /\ \A j \in 1..(k - 1) : 1 + j - 1 = j
    BY <1>1
  <2> HIDE DEF x, y
  <2>7. Len(x) = Len(y) /\ \A j \in 1..Len(x) : x[j] = y[j]
    BY <1>5, <2>4, <2>5, <2>6
  <2>8. x = y
    BY <2>4, <2>5, <2>7, SeqEqual
  <2> QED
    BY <2>8 DEF x, y
<1>9. SubSeq(s, k + 1, Len(s)) = SubSeq(pre, k + 1, Len(pre)) \o post
  <2> DEFINE a == k + 1
             x == SubSeq(s, a, l)
             y == SubSeq(pre, a, Len(pre))
             z == y \o post
  <2>1. a \in 1..(Len(s) + 1) /\ l \in 0..Len(s) /\ a <= l + 1
    BY <1>1, <1>2, <1>3
  <2>2. a \in 1..(Len(pre) + 1) /\ Len(pre) \in 0..Len(pre) /\ a <= Len(pre) + 1
    BY <1>1, <1>3
  <2>3. s \in Seq(S)
    BY <1>2
  <2>a. a \in Nat /\ a <= m + 1 /\ a >= 1
    BY <1>1
  <2> HIDE DEF a
  <2>4. /\ x \in Seq(S) /\ Len(x) = l - a + 1
        /\ \A j \in 1..(l - a + 1) : x[j] = s[a + j - 1]
    BY <2>1, <2>3, Slice
  <2>5. /\ y \in Seq(S) /\ Len(y) = Len(pre) - a + 1
        /\ \A j \in 1..(Len(pre) - a + 1) : y[j] = pre[a + j - 1]
    BY <2>2, Slice
  <2> HIDE DEF x, y
  <2>6. /\ z \in Seq(S) /\ Len(z) = Len(y) + n
        /\ \A j \in 1..Len(y) : j \in 1..Len(z) /\ z[j] = y[j]
        /\ \A j \in 1..n : Len(y) + j \in 1..Len(z) /\ z[Len(y) + j] = post[j]
    <3>1. y \in Seq(S)
      BY <2>5
    <3> QED
      BY <3>1, <1>3, ConcatParts
  <2> HIDE DEF z
  <2>7. Len(z) = Len(x)
    <3>1. Len(z) = (m - a + 1) + n
      BY <1>3, <2>5, <2>6
    <3>2. Len(x) = (m + n) - a + 1
      BY <1>2, <2>4
    <3>3. (m - a + 1) + n = (m + n) - a + 1
      BY <1>1, <2>a
    <3> QED
      BY <3>1, <3>2, <3>3
  <2>8. ASSUME NEW j \in 1..Len(x) PROVE x[j] = z[j]
    <3>1. x[j] = s[a + j - 1]
      BY <2>4
    <3>2. CASE j <= Len(y)
      <4>1. j \in 1..Len(y) /\ j \in 1..(Len(pre) - a + 1) /\ a + j - 1 \in 1..m
        <5>1. Len(y) = m - a + 1 /\ Len(pre) = m /\ m - a + 1 \in Int
          BY <1>1, <1>3, <2>a, <2>5
        <5>2. j \in Nat /\ j >= 1
          BY <2>4
        <5>3. j <= m - a + 1
          BY <3>2, <5>1
        <5>4. j \in 1..(m - a + 1) /\ a + j - 1 \in 1..m
          BY <1>1, <2>a, <5>2, <5>3
        <5> QED
          BY <5>1, <5>4
      <4> QED
        BY <1>2, <2>5, <2>6, <3>1, <4>1
    <3>3. CASE ~(j <= Len(y))
      <4> DEFINE d == j - Len(y)
      <4>1. d \in 1..n /\ Len(y) + d = j /\ a + j - 1 = m + d
        BY <1>1, <1>2, <1>3, <2>a, <2>4, <2>5, <3>3
      <4> HIDE DEF d
      <4> QED
        BY <1>2, <2>6, <3>1, <4>1
    <3> QED
      BY <3>2, <3>3
  <2>9. x = z
    BY <2>4, <2>6, <2>7, <2>8, SeqEqual
  <2> QED
    BY <1>3, <2>9 DEF a, x, y, z
<1> QED
  BY <1>0, <1>6, <1>7, <1>8, <1>9 DEF Before, After

\* A separator is in a text that is put together if it is in one of its parts.
LEMMA HasConcat ==
  ASSUME NEW S, NEW u \in Seq(S), NEW v \in Seq(S), NEW t
  PROVE  Has(u \o v, t) <=> Has(u, t) \/ Has(v, t)
<1> DEFINE w == u \o v
           l == Len(u)
           m == Len(v)
<1>1. /\ Len(u) \in Nat /\ Len(v) \in Nat /\ Len(w) = Len(u) + Len(v)
      /\ \A j \in 1..Len(u) : j \in 1..Len(w) /\ w[j] = u[j]
      /\ \A j \in 1..Len(v) : Len(u) + j \in 1..Len(w) /\ w[Len(u) + j] = v[j]
  BY ConcatParts
<1>2. \A k \in 1..Len(w) : k \in 1..Len(u) \/ \E j \in 1..Len(v) : k = Len(u) + j
  <2>1. l \in Nat /\ m \in Nat /\ Len(w) = l + m
    BY <1>1
  <2> HIDE DEF l, m
  <2>2. ASSUME NEW k \in 1..(l + m) PROVE k \in 1..l \/ \E j \in 1..m : k = l + j
    <3> SUFFICES ASSUME ~(k <= l) PROVE \E j \in 1..m : k = l + j
      BY <2>1
    <3>1. k - l \in 1..m /\ k = l + (k - l)
      BY <2>1
    <3> QED
      BY <3>1
  <2> QED
    BY <2>1, <2>2 DEF l, m
<1> HIDE DEF w
<1>3. ASSUME NEW k \in 1..Len(w), w[k] = t
      PROVE  Has(u, t) \/ Has(v, t)
  <2>1. CASE k \in 1..Len(u)
    <3>1. u[k] = t
      BY <1>1, <1>3, <2>1
    <3> QED
      BY <2>1, <3>1 DEF Has
  <2>2. ASSUME NEW j \in 1..Len(v), k = Len(u) + j
        PROVE  Has(v, t)
    <3>1. v[j] = t
      BY <1>1, <1>3, <2>2
    <3> QED
      BY <3>1 DEF Has
  <2> QED
    BY <1>2, <2>1, <2>2
<1>4. ASSUME NEW k \in 1..Len(u), u[k] = t
      PROVE  Has(w, t)
  <2>1. k \in 1..Len(w) /\ w[k] = t
    BY <1>1, <1>4
  <2> QED
    BY <2>1 DEF Has
<1>5. ASSUME NEW j \in 1..Len(v), v[j] = t
      PROVE  Has(w, t)
  <2>1. Len(u) + j \in 1..Len(w) /\ w[Len(u) + j] = t
    BY <1>1, <1>5
  <2> QED
    BY <2>1 DEF Has
<1>6. Has(w, t) <=> Has(u, t) \/ Has(v, t)
  BY <1>3, <1>4, <1>5 DEF Has
<1> QED
  BY <1>6 DEF w

\* The names and separators that a URL is made of, besides those of its path.
UrlParts == STRING \cup {"http", "://", "user", ":", "pass", "@", "host", "6969", "/"}

\* The parts of a URL before its path, and what they are cut into.
LEMMA UrlLiterals ==
  /\ <<"http", "://", "user", ":", "pass", "@">> \in Seq(UrlParts)
  /\ <<"http", "://">> \in Seq(UrlParts) /\ <<"user", ":", "pass", "@">> \in Seq(UrlParts)
  /\ <<"host", ":", "6969", "/">> \in Seq(UrlParts) /\ <<"host", "/">> \in Seq(UrlParts)
  /\ <<"6969", "/">> \in Seq(UrlParts)
  /\ SubSeq(<<"http", "://", "user", ":", "pass", "@">>, 3, 6) = <<"user", ":", "pass", "@">>
  /\ SubSeq(<<"host", ":", "6969", "/">>, 1, 1) = <<"host">>
  /\ SubSeq(<<"host", ":", "6969", "/">>, 3, 4) = <<"6969", "/">>
  /\ SubSeq(<<"6969", "/">>, 1, 1) = <<"6969">> /\ SubSeq(<<"host", "/">>, 1, 1) = <<"host">>
  /\ \A s, k : k \in Nat => SubSeq(s, k + 1, k) = <<>>
<1>1. /\ "http" \in UrlParts /\ "://" \in UrlParts /\ "user" \in UrlParts /\ ":" \in UrlParts
      /\ "pass" \in UrlParts /\ "@" \in UrlParts /\ "host" \in UrlParts /\ "6969" \in UrlParts
      /\ "/" \in UrlParts
  BY DEF UrlParts
<1>2. /\ <<"http", "://", "user", ":", "pass", "@">> \in Seq(UrlParts)
      /\ <<"http", "://">> \in Seq(UrlParts) /\ <<"user", ":", "pass", "@">> \in Seq(UrlParts)
      /\ <<"host", ":", "6969", "/">> \in Seq(UrlParts) /\ <<"host", "/">> \in Seq(UrlParts)
      /\ <<"6969", "/">> \in Seq(UrlParts)
  BY <1>1
<1>3. SubSeq(<<"http", "://", "user", ":", "pass", "@">>, 3, 6) = <<"user", ":", "pass", "@">>
  <2> DEFINE s == <<"http", "://", "user", ":", "pass", "@">>
             u == <<"user", ":", "pass", "@">>
  <2>1. s \in Seq(UrlParts) /\ u \in Seq(UrlParts)
    BY <1>1
  <2>2. Len(s) = 6 /\ Len(u) = 4 /\ u[1] = s[3] /\ u[2] = s[4] /\ u[3] = s[5] /\ u[4] = s[6]
    OBVIOUS
  <2>3. \A k \in 1..4 : k = 1 \/ k = 2 \/ k = 3 \/ k = 4
    OBVIOUS
  <2> HIDE DEF s, u
  <2>4. \A k \in 1..Len(u) : u[k] = s[3 + k - 1]
    BY <2>2, <2>3
  <2>5. SubSeq(s, 3, 6) = u
    BY <2>1, <2>2, <2>4, SliceIs
  <2> QED
    BY <2>5 DEF s, u
<1>4. SubSeq(<<"host", ":", "6969", "/">>, 1, 1) = <<"host">>
  <2> DEFINE s == <<"host", ":", "6969", "/">>
             u == <<"host">>
  <2>1. s \in Seq(UrlParts) /\ u \in Seq(UrlParts)
    BY <1>1
  <2>2. Len(s) = 4 /\ Len(u) = 1 /\ u[1] = s[1]
    OBVIOUS
  <2>3. \A k \in 1..1 : k = 1
    OBVIOUS
  <2> HIDE DEF s, u
  <2>4. \A k \in 1..Len(u) : u[k] = s[1 + k - 1]
    BY <2>2, <2>3
  <2>5. SubSeq(s, 1, 1) = u
    BY <2>1, <2>2, <2>4, SliceIs
  <2> QED
    BY <2>5 DEF s, u
<1>5. SubSeq(<<"host", ":", "6969", "/">>, 3, 4) = <<"6969", "/">>
  <2> DEFINE s == <<"host", ":", "6969", "/">>
             u == <<"6969", "/">>
  <2>1. s \in Seq(UrlParts) /\ u \in Seq(UrlParts)
    BY <1>1
  <2>2. Len(s) = 4 /\ Len(u) = 2 /\ u[1] = s[3] /\ u[2] = s[4]
    OBVIOUS
  <2>3. \A k \in 1..2 : k = 1 \/ k = 2
    OBVIOUS
  <2> HIDE DEF s, u
  <2>4. \A k \in 1..Len(u) : u[k] = s[3 + k - 1]
    BY <2>2, <2>3
  <2>5. SubSeq(s, 3, 4) = u
    BY <2>1, <2>2, <2>4, SliceIs
  <2> QED
    BY <2>5 DEF s, u
<1>6a. SubSeq(<<"6969", "/">>, 1, 1) = <<"6969">>
  <2> DEFINE s == <<"6969", "/">>
             u == <<"6969">>
  <2>1. s \in Seq(UrlParts) /\ u \in Seq(UrlParts)
    BY <1>1
  <2>2. Len(s) = 2 /\ Len(u) = 1 /\ u[1] = s[1]
    OBVIOUS
  <2>3. \A k \in 1..1 : k = 1
    OBVIOUS
  <2> HIDE DEF s, u
  <2>4. \A k \in 1..Len(u) : u[k] = s[1 + k - 1]
    BY <2>2, <2>3
  <2>5. SubSeq(s, 1, 1) = u
    BY <2>1, <2>2, <2>4, SliceIs
  <2> QED
    BY <2>5 DEF s, u
<1>6b. SubSeq(<<"host", "/">>, 1, 1) = <<"host">>
  <2> DEFINE s == <<"host", "/">>
             u == <<"host">>
  <2>1. s \in Seq(UrlParts) /\ u \in Seq(UrlParts)
    BY <1>1
  <2>2. Len(s) = 2 /\ Len(u) = 1 /\ u[1] = s[1]
    OBVIOUS
  <2>3. \A k \in 1..1 : k = 1
    OBVIOUS
  <2> HIDE DEF s, u
  <2>4. \A k \in 1..Len(u) : u[k] = s[1 + k - 1]
    BY <2>2, <2>3
  <2>5. SubSeq(s, 1, 1) = u
    BY <2>1, <2>2, <2>4, SliceIs
  <2> QED
    BY <2>5 DEF s, u
<1>7. \A s, k : k \in Nat => SubSeq(s, k + 1, k) = <<>>
  BY SubSeqEmpty
<1> QED
  BY <1>2, <1>3, <1>4, <1>5, <1>6a, <1>6b, <1>7

\* The separator is the second part, or the fourth.
LEMMA CutSecond ==
  ASSUME NEW S, NEW pre \in Seq(S), NEW post \in Seq(S), Len(pre) >= 2,
         NEW t, pre[2] = t, pre[1] # t, NEW s, s = pre \o post
  PROVE  /\ Has(s, t) /\ Before(s, t) = SubSeq(pre, 1, 1)
         /\ After(s, t) = SubSeq(pre, 3, Len(pre)) \o post
<1> DEFINE k == 2
<1>1. \A j \in 1..(2 - 1) : j = 1
  OBVIOUS
<1>2. k \in 1..Len(pre)
  OBVIOUS
<1>3. pre[k] = t
  OBVIOUS
<1>4. \A j \in 1..(k - 1) : pre[j] # t
  BY <1>1
<1>5. k - 1 = 1 /\ k + 1 = 3
  OBVIOUS
<1> HIDE DEF k
<1>6. Has(pre \o post, t) /\ After(pre \o post, t) = SubSeq(pre, k + 1, Len(pre)) \o post
  BY <1>2, <1>3, <1>4, CutAt
<1>7. Before(pre \o post, t) = SubSeq(pre, 1, k - 1)
  BY <1>2, <1>3, <1>4, CutAt
<1> QED
  BY <1>5, <1>6, <1>7

\* As CutSecond.
LEMMA CutFourth ==
  ASSUME NEW S, NEW pre \in Seq(S), NEW post \in Seq(S), Len(pre) = 4,
         NEW t, pre[4] = t, pre[1] # t, pre[2] # t, pre[3] # t, NEW s, s = pre \o post
  PROVE  Has(s, t) /\ After(s, t) = SubSeq(pre, 5, 4) \o post
<1> DEFINE k == 4
<1>1. k \in 1..Len(pre) /\ pre[k] = t /\ \A j \in 1..(k - 1) : pre[j] # t
  <2>1. \A j \in 1..(4 - 1) : j = 1 \/ j = 2 \/ j = 3
    OBVIOUS
  <2> QED
    BY <2>1
<1>2. k + 1 = 5
  OBVIOUS
<1> HIDE DEF k
<1>3. Has(pre \o post, t) /\ After(pre \o post, t) = SubSeq(pre, k + 1, Len(pre)) \o post
  BY <1>1, CutAt
<1> QED
  BY <1>2, <1>3

\* The parser finds the parts that an unambiguous URL was put together from, with
\* or without credentials and port.
LEMMA UrlParsed ==
  ASSUME NEW cmd \in Commands, Unambiguous(cmd)
  PROVE  parse_url_destructive(UrlText(cmd)) =
           [status |-> 0, host |-> <<"host">>, path |-> cmd.path,
            port |-> <<IF cmd.port THEN "6969" ELSE "80">>]
<1> DEFINE six == <<"http", "://", "user", ":", "pass", "@">>
           two == <<"http", "://">>
           creds == <<"user", ":", "pass", "@">>
           four == <<"host", ":", "6969", "/">>
           bare == <<"host", "/">>
           ends == <<"6969", "/">>
           rest == (IF cmd.port THEN four ELSE bare) \o cmd.path
           text == UrlText(cmd)
<1>1. /\ six \in Seq(UrlParts) /\ two \in Seq(UrlParts) /\ creds \in Seq(UrlParts)
      /\ four \in Seq(UrlParts) /\ bare \in Seq(UrlParts) /\ ends \in Seq(UrlParts)
  BY UrlLiterals
<1>2. /\ Len(six) = 6 /\ six[1] = "http" /\ six[2] = "://"
      /\ Len(two) = 2 /\ two[1] = "http" /\ two[2] = "://"
      /\ Len(creds) = 4 /\ creds[1] = "user" /\ creds[2] = ":"
      /\ creds[3] = "pass" /\ creds[4] = "@"
      /\ Len(four) = 4 /\ four[1] = "host" /\ four[2] = ":" /\ four[3] = "6969" /\ four[4] = "/"
      /\ Len(bare) = 2 /\ bare[1] = "host" /\ bare[2] = "/"
      /\ Len(ends) = 2 /\ ends[1] = "6969" /\ ends[2] = "/"
  OBVIOUS
<1>3. /\ SubSeq(six, 3, 6) = creds /\ SubSeq(four, 1, 1) = <<"host">> /\ SubSeq(four, 3, 4) = ends
      /\ SubSeq(ends, 1, 1) = <<"6969">> /\ SubSeq(bare, 1, 1) = <<"host">>
  BY UrlLiterals
<1>4. SubSeq(two, 3, 2) = <<>> /\ SubSeq(creds, 5, 4) = <<>> /\ SubSeq(ends, 3, 2) = <<>>
      /\ SubSeq(bare, 3, 2) = <<>>
  BY SubSeqEmpty
<1>5. cmd.path \in Seq(UrlParts)
  <2>1. cmd.path \in Seq(STRING) /\ STRING \subseteq UrlParts
    BY CommandsAssumption DEF UrlParts
  <2> QED
    BY <2>1, SeqMonotonic
<1>6. rest \in Seq(UrlParts)
  BY <1>1, <1>5, ConcatProperties
<1>7. rest = (IF cmd.port THEN four ELSE bare) \o cmd.path
  OBVIOUS
<1>8. text = (IF cmd.cred THEN six ELSE two) \o rest
  BY DEF UrlText
<1> HIDE DEF six, two, creds, four, bare, ends, rest, text
<1>9. /\ <<>> \o rest = rest /\ <<>> \o cmd.path = cmd.path
  BY <1>5, <1>6, ConcatEmptySeq
<1>10. /\ \A j \in 1..2 : j = 1 \/ j = 2
       /\ \A j \in 1..4 : j = 1 \/ j = 2 \/ j = 3 \/ j = 4
       /\ 2 \in 1..2 /\ 4 \in 1..4
  OBVIOUS
<1>11. Has(text, "://") /\ After(text, "://") = (IF cmd.cred THEN creds \o rest ELSE rest)
  <2>1. ASSUME cmd.cred PROVE Has(text, "://") /\ After(text, "://") = creds \o rest
    <3>1. text = six \o rest /\ six[2] = "://" /\ six[1] # "://"
          /\ Len(six) >= 2 /\ Len(six) = 6 /\ six \in Seq(UrlParts)
      BY <2>1, <1>1, <1>2, <1>8
    <3>2. Has(text, "://") /\ After(text, "://") = SubSeq(six, 3, 6) \o rest
      BY <3>1, <1>6, CutSecond
    <3> QED
      BY <3>2, <1>3
  <2>2. ASSUME ~cmd.cred PROVE Has(text, "://") /\ After(text, "://") = rest
    <3>1. text = two \o rest /\ two[2] = "://" /\ two[1] # "://"
          /\ Len(two) >= 2 /\ Len(two) = 2 /\ two \in Seq(UrlParts)
      BY <2>2, <1>1, <1>2, <1>8
    <3>2. Has(text, "://") /\ After(text, "://") = SubSeq(two, 3, 2) \o rest
      BY <3>1, <1>6, CutSecond
    <3> QED
      BY <3>2, <1>4, <1>9
  <2> QED
    BY <2>1, <2>2
<1>12. HostPart(text) = rest
  <2>1. CASE cmd.cred
    <3> DEFINE s == creds \o rest
    <3>1. /\ creds[4] = "@" /\ creds[1] # "@" /\ creds[2] # "@" /\ creds[3] # "@"
          /\ Len(creds) = 4 /\ creds \in Seq(UrlParts)
      BY <1>1, <1>2
    <3>2. Has(s, "@") /\ After(s, "@") = SubSeq(creds, 5, 4) \o rest
      BY <3>1, <1>6, CutFourth
    <3>3. After(s, "@") = rest
      BY <3>2, <1>4, <1>9
    <3> QED
      BY <2>1, <3>2, <3>3, <1>11 DEF HostPart
  <2>2. CASE ~cmd.cred
    <3>1. ~Has(cmd.path, "@")
      BY <2>2 DEF Unambiguous
    <3>2. ~Has(four, "@") /\ ~Has(bare, "@")
      BY <1>2, <1>10 DEF Has
    <3>3. ~Has(rest, "@")
      <4>1. CASE cmd.port
        BY <4>1, <3>1, <3>2, <1>1, <1>5, <1>7, HasConcat
      <4>2. CASE ~cmd.port
        BY <4>2, <3>1, <3>2, <1>1, <1>5, <1>7, HasConcat
      <4> QED
        BY <4>1, <4>2
    <3> QED
      BY <2>2, <3>3, <1>11 DEF HostPart
  <2> QED
    BY <2>1, <2>2
<1>13. Has(rest, "/")
  <2>1. Has(four, "/") /\ Has(bare, "/")
    BY <1>2, <1>10 DEF Has
  <2>2. CASE cmd.port
    BY <2>1, <2>2, <1>1, <1>5, <1>7, HasConcat
  <2>3. CASE ~cmd.port
    BY <2>1, <2>3, <1>1, <1>5, <1>7, HasConcat
  <2> QED
    BY <2>2, <2>3
<1>14. ASSUME cmd.port
       PROVE  /\ Has(rest, ":") /\ Before(rest, ":") = <<"host">>
              /\ Before(After(rest, ":"), "/") = <<"6969">>
              /\ After(After(rest, ":"), "/") = cmd.path
  <2>1. rest = four \o cmd.path /\ four[2] = ":" /\ four[1] # ":"
        /\ Len(four) >= 2 /\ Len(four) = 4 /\ four \in Seq(UrlParts)
    BY <1>1, <1>2, <1>7, <1>14
  <2>2. Has(rest, ":") /\ After(rest, ":") = SubSeq(four, 3, Len(four)) \o cmd.path
    BY <2>1, <1>5, CutSecond
  <2>7. Before(rest, ":") = SubSeq(four, 1, 1)
    BY <2>1, <1>5, CutSecond
  <2> DEFINE tail == ends \o cmd.path
  <2>3. Before(rest, ":") = <<"host">> /\ After(rest, ":") = tail
    BY <2>1, <2>2, <2>7, <1>3
  <2>4. ends[2] = "/" /\ ends[1] # "/" /\ Len(ends) >= 2 /\ Len(ends) = 2 /\ ends \in Seq(UrlParts)
    BY <1>1, <1>2
  <2>5. After(tail, "/") = SubSeq(ends, 3, Len(ends)) \o cmd.path
    BY <2>4, <1>5, CutSecond
  <2>8. Before(tail, "/") = SubSeq(ends, 1, 1)
    BY <2>4, <1>5, CutSecond
  <2>6. Before(tail, "/") = <<"6969">> /\ After(tail, "/") = cmd.path
    BY <2>4, <2>5, <2>8, <1>3, <1>4, <1>9
  <2> HIDE DEF tail
  <2> QED
    BY <2>2, <2>3, <2>6
<1>15. ASSUME ~cmd.port
       PROVE  ~Has(rest, ":") /\ Before(rest, "/") = <<"host">> /\ After(rest, "/") = cmd.path
  <2>1. ~Has(cmd.path, ":")
    BY <1>15 DEF Unambiguous
  <2>2. ~Has(bare, ":")
    BY <1>2, <1>10 DEF Has
  <2>3. rest = bare \o cmd.path /\ bare[2] = "/" /\ bare[1] # "/"
        /\ Len(bare) >= 2 /\ Len(bare) = 2 /\ bare \in Seq(UrlParts)
    BY <1>1, <1>2, <1>7, <1>15
  <2>4. ~Has(rest, ":")
    <3>1. rest = bare \o cmd.path /\ bare \in Seq(UrlParts)
      BY <2>3
    <3>2. Has(bare \o cmd.path, ":") <=> Has(bare, ":") \/ Has(cmd.path, ":")
      BY <3>1, <1>5, HasConcat
    <3> QED
      BY <2>1, <2>2, <3>1, <3>2
  <2>7. bare \in Seq(UrlParts) /\ Len(bare) >= 2 /\ bare[2] = "/" /\ bare[1] # "/"
    BY <2>3
  <2>8. rest = bare \o cmd.path
    BY <2>3
  <2>9. After(rest, "/") = SubSeq(bare, 3, Len(bare)) \o cmd.path
    BY <2>7, <2>8, <1>5, CutSecond
  <2>5. After(rest, "/") = SubSeq(bare, 3, 2) \o cmd.path
    BY <2>3, <2>9
  <2>6. Before(rest, "/") = SubSeq(bare, 1, 1)
    BY <2>7, <2>8, <1>5, CutSecond
  <2> QED
    BY <2>4, <2>5, <2>6, <1>3, <1>4, <1>9
<1>16. CASE cmd.port
  BY <1>11, <1>12, <1>13, <1>14, <1>16 DEF parse_url_destructive, text
<1>17. CASE ~cmd.port
  BY <1>11, <1>12, <1>13, <1>15, <1>17 DEF parse_url_destructive, text
<1> QED
  BY <1>16, <1>17

-----------------------------------------------------------------------------
(***************************************************************************)
(* What is asked for: the request and the URL.                             *)
(***************************************************************************)

\* The command line was taken.
Asked == gpc \notin {"none", "args"} /\ outcome # "usage"

\* What parse_url_destructive() makes of an unambiguous URL.
Resolved(cmd) ==
  [status |-> 0, host |-> <<"host">>, path |-> cmd.path,
   port |-> <<IF cmd.port THEN "6969" ELSE "80">>]

\* The request holds the hash that was typed, and nothing is sent without one.
CommandOK ==
  /\ outcome = "usage" => gpc = "exit"
  /\ gpc = "none" => command = NoCommand
  /\ ~Asked => sent = 0 /\ (gpc # "none" => hash_len = 0)
  /\ Asked => /\ command \in Commands /\ query = QueryOf(command.hash)
              /\ Unambiguous(command) => url = Resolved(command)

\* A hash is taken from a parameter that is neither empty nor too long.
HashOK == hash # <<>> => hash_len \in 1..MAX_URLENC_HASH_LEN

\* The invariant of the request.
AskInv == CommandOK /\ HashOK /\ AsksForTyped

\* A parameter that is accepted is neither empty nor longer than three times the
\* hash.
LEMMA AcceptedLength ==
  ASSUME NEW text, Len(text) \in Nat, Accepted(text)
  PROVE  httpParamLength(text) \in 1..MAX_URLENC_HASH_LEN
<1> DEFINE m == httpParamLength(text)
           d == decodedStrlen(text, m)
<1>1. m \in 0..Len(text)
  BY ParamLength
<1>2. d \in Nat /\ m <= 3 * d
  BY <1>1, StrlenBound
<1>3. d = HashLen
  BY DEF Accepted
<1>4. m # 0
  <2> SUFFICES ASSUME m = 0 PROVE FALSE
    OBVIOUS
  <2>1. PICK f : Counts(text, m, f) /\ decodedStrlen(text, m) = f[1]
    BY StrlenCounts
  <2>2. f[1] = 0
    <3>1. 1 \in 1..(Len(text) + 1) /\ 1 > m
      OBVIOUS
    <3> HIDE DEF m
    <3> QED
      BY <2>1, <3>1 DEF Counts
  <2> QED
    BY <1>3, <2>1, <2>2, HashLenAssumption
<1> HIDE DEF m, d
<1>5. m \in Nat /\ m <= 3 * HashLen
  BY <1>1, <1>2, <1>3
<1>6. m \in 1..MAX_URLENC_HASH_LEN
  BY <1>4, <1>5, HashLenAssumption DEF MAX_URLENC_HASH_LEN
<1> QED
  BY <1>6 DEF m

\* The hash in the request, of whatever was typed.
LEMMA QueryEncodes ==
  ASSUME NEW h \in Seq(Byte)
  PROVE  /\ \E p : Encodes(Hash(destructiveHexDecode(h).buf), QueryOf(h), p)
         /\ QueryOf(h) \in Seq(SafeChars) /\ QueryOf(h) \in Seq(Byte)
<1>1. Hash(destructiveHexDecode(h).buf) \in [1..HashLen -> Byte]
  BY BuffersHoldBytes
<1>2. \E p : Encodes(Hash(destructiveHexDecode(h).buf), QueryOf(h), p)
  BY <1>1, EncodesHash DEF QueryOf
<1>3. QueryOf(h) \in Seq(SafeChars)
  BY <1>2 DEF Encodes
<1>4. QueryOf(h) \in Seq(Byte)
  BY <1>3, SafeFacts, SeqMonotonic
<1> QED
  BY <1>2, <1>3, <1>4

\* The request as the tracker measures it.
LEMMA QueryText ==
  ASSUME NEW h \in Seq(Byte), NEW text, text = QueryOf(h) \o NextParam
  PROVE  /\ Len(text) \in Nat /\ httpParamLength(text) = Len(QueryOf(h))
         /\ Len(QueryOf(h)) <= Len(text) /\ \A j \in 1..Len(QueryOf(h)) : text[j] = QueryOf(h)[j]
         /\ SubSeq(text, 1, httpParamLength(text)) = QueryOf(h)
<1> DEFINE e == QueryOf(h)
           l == Len(e)
<1>1. e \in Seq(SafeChars) /\ e \in Seq(Byte)
  BY QueryEncodes
<1>2. NextParam \in Seq(Byte) /\ Len(NextParam) = 3 /\ NextParam[1] = 38 /\ 1 \in 1..3
  <2>1. 38 \in Byte /\ 112 \in Byte /\ 111 \in Byte
    BY DEF Byte
  <2> QED
    BY <2>1 DEF NextParam
<1>3. text = e \o NextParam
  OBVIOUS
<1> HIDE DEF e
<1>4. /\ l \in Nat /\ Len(text) = l + 3 /\ text \in Seq(Byte)
      /\ \A j \in 1..l : text[j] = e[j]
      /\ \A j \in 1..3 : text[l + j] = NextParam[j]
  <2>1. e \in Seq(Byte) /\ NextParam \in Seq(Byte)
    BY <1>1, <1>2
  <2>2. /\ Len(e) \in Nat /\ Len(text) = Len(e) + Len(NextParam) /\ text \in Seq(Byte)
        /\ \A j \in 1..Len(e) : text[j] = e[j]
        /\ \A j \in 1..Len(NextParam) : text[Len(e) + j] = NextParam[j]
    BY <2>1, <1>3, ConcatParts
  <2> QED
    BY <1>2, <2>2
<1>5. text[l + 1] \in Delimiters
  BY <1>2, <1>4 DEF Delimiters
<1>6. \A k \in 1..l : text[k] \notin Delimiters
  BY <1>1, <1>4, ElementOfSeq, SafeFacts
<1>7. Len(text) \in Nat /\ l \in 0..Len(text) /\ l <= Len(text)
  BY <1>4
<1>8. httpParamLength(text) = l
  BY <1>5, <1>6, <1>7, ParamLength
<1>9. SubSeq(text, 1, l) = e
  <2>1. 1 \in 1..(Len(text) + 1) /\ Len(e) = l - 1 + 1 /\ \A k \in 1..l : 1 + k - 1 = k
    BY <1>7
  <2>2. \A k \in 1..Len(e) : e[k] = text[1 + k - 1]
    BY <1>4, <2>1
  <2> QED
    <3>1. text \in Seq(Byte) /\ e \in Seq(Byte)
      BY <1>1, <1>4
    <3>2. 1 \in 1..(Len(text) + 1) /\ l \in 0..Len(text)
      BY <1>7, <2>1
    <3>3. Len(e) = l - 1 + 1
      BY <2>1
    <3> HIDE DEF l
    <3> QED
      BY <2>2, <3>1, <3>2, <3>3, SliceIs
<1> QED
  BY <1>4, <1>7, <1>8, <1>9 DEF e

\* The tracker finds the hash that was typed, whatever its bytes.
LEMMA TakesTyped ==
  ASSUME NEW h \in Seq(Byte), Proper(h), NEW text, text = QueryOf(h) \o NextParam
  PROVE  Accepted(text) /\ LookupKey(text) = h
<1> DEFINE e == QueryOf(h)
           d == destructiveHexDecode(h).buf
           b == Bytes(h)
<1>1. Len(h) = 2 * HashLen /\ \A k \in 1..Len(h) : IsHex(h[k])
  BY DEF Proper
<1>2. b \in [1..HashLen -> Byte] /\ Hash(d) = b
  BY <1>1, HexRoundTrip
<1>3. PICK p : Encodes(b, e, p)
  BY <1>2, QueryEncodes
<1>4. /\ Len(text) \in Nat /\ httpParamLength(text) = Len(e)
      /\ SubSeq(text, 1, httpParamLength(text)) = e
      /\ Len(e) <= Len(text) /\ \A j \in 1..Len(e) : text[j] = e[j]
  BY QueryText
<1> HIDE DEF e, d, b
<1>5. decodedStrlen(text, Len(e)) = HashLen
  BY <1>2, <1>3, <1>4, StrlenOfEncoding
<1>6. Accepted(text)
  BY <1>4, <1>5 DEF Accepted
<1>7. Hash(destructiveURLDecode(e).buf) = b
  BY <1>2, <1>3, UrlRoundTrip
<1>8. hashEncodeHex(destructiveURLDecode(e).buf) = h
  BY <1>1, <1>7, HexOfBytes DEF b
<1> QED
  BY <1>4, <1>6, <1>8 DEF LookupKey

\* Before anything was asked.
LEMMA InitAskInv == GpInit => AskInv
<1> SUFFICES ASSUME GpInit PROVE AskInv
  OBVIOUS
<1>1. /\ gpc \in {"args", "none"} /\ outcome = "none" /\ command = NoCommand /\ sent = 0
      /\ hash = <<>> /\ hash_len = 0
  BY DEF GpInit, ReplyInit
<1> QED
  BY <1>1 DEF AskInv, CommandOK, HashOK, AsksForTyped, Asked

\* Steps after the command line, and steps that are no concern of it.
LEMMA AskKept ==
  ASSUME AskInv, UNCHANGED <<inputVars, hash, hash_len>>,
         \/ UNCHANGED <<gpc, outcome, sent>>
         \/ Asked /\ gpc' \notin {"none", "args"} /\ outcome' # "usage"
  PROVE  AskInv'
<1>1. UNCHANGED <<command, url, query, hash, hash_len>>
  BY DEF inputVars
<1>2. HashOK' /\ AsksForTyped'
  BY <1>1 DEF AskInv, HashOK, AsksForTyped, Proper
<1>3. CASE UNCHANGED <<gpc, outcome, sent>>
  <2>1. CommandOK'
    BY <1>1, <1>3 DEF AskInv, CommandOK, Asked, Unambiguous, Resolved
  <2> QED
    BY <1>2, <2>1 DEF AskInv
<1>4. CASE Asked /\ gpc' \notin {"none", "args"} /\ outcome' # "usage"
  <2>1. CommandOK'
    BY <1>1, <1>4 DEF AskInv, CommandOK, Asked, Unambiguous, Resolved
  <2> QED
    BY <1>2, <2>1 DEF AskInv
<1> QED
  BY <1>3, <1>4

\* The command line: either the usage is shown or the request is written.
LEMMA AskArgs ==
  ASSUME AskInv, NEW cmd \in Commands, Args(cmd)
  PROVE  AskInv'
<1>1. gpc = "args" /\ command' = cmd /\ UNCHANGED <<sent, hash, hash_len>>
  BY DEF Args, replyVars, requestVars
<1>2. sent = 0 /\ hash_len = 0 /\ outcome # "usage"
  BY <1>1 DEF AskInv, CommandOK, Asked
<1>3. HashOK' /\ AsksForTyped'
  BY <1>1, <1>2 DEF AskInv, HashOK, AsksForTyped
<1>4. CASE /\ gpc' = "connect" /\ query' = QueryOf(cmd.hash)
           /\ url' = parse_url_destructive(UrlText(cmd)) /\ UNCHANGED outcome
  <2>1. Unambiguous(cmd) => url' = Resolved(cmd)
    BY <1>4, UrlParsed DEF Resolved
  <2>2. CommandOK'
    BY <1>1, <1>2, <1>4, <2>1 DEF CommandOK, Asked
  <2> QED
    BY <1>3, <2>2 DEF AskInv
<1>5. CASE gpc' = "exit" /\ outcome' = "usage"
  <2>1. CommandOK'
    BY <1>1, <1>2, <1>5 DEF CommandOK, Asked
  <2> QED
    BY <1>3, <2>1 DEF AskInv
<1> QED
  BY <1>4, <1>5 DEF Args, Exit

\* The tracker takes the request of getpeers.
LEMMA AskTaken ==
  ASSUME GpInv, AskInv, TakeRequest
  PROVE  AskInv'
<1> DEFINE text == query \o NextParam
<1>1. /\ sent = RequestLen /\ ReceiveRequest(text)
      /\ UNCHANGED <<gpc, outcome, sent, command, url, query>>
  BY DEF TakeRequest, clientVars, inputVars
<1>2. sent # 0
  BY <1>1, GetpeersAssumption
<1>3. /\ Asked /\ command \in Commands /\ query = QueryOf(command.hash)
  BY <1>2 DEF AskInv, CommandOK
<1>4. command.hash \in Seq(Byte)
  BY <1>3, CommandsAssumption DEF Byte
<1>5. Len(text) \in Nat
  BY <1>3, <1>4, QueryText
<1> HIDE DEF text
<1>6. /\ hash' = (IF Accepted(text) THEN LookupKey(text) ELSE <<>>)
      /\ hash_len' = httpParamLength(text)
  BY <1>1 DEF ReceiveRequest
<1>7. HashOK'
  BY <1>5, <1>6, AcceptedLength DEF HashOK
<1>8. AsksForTyped'
  <2> SUFFICES ASSUME Proper(command.hash) PROVE hash' = command.hash
    BY <1>1 DEF AsksForTyped, Proper
  <2>1. Accepted(text) /\ LookupKey(text) = command.hash
    BY <1>3, <1>4, TakesTyped DEF text
  <2> QED
    BY <1>6, <2>1
<1>9. CommandOK'
  BY <1>1, <1>3 DEF AskInv, CommandOK, Asked, Unambiguous, Resolved
<1> QED
  BY <1>7, <1>8, <1>9 DEF AskInv

\* The tracker takes the request of another client.
LEMMA AskOther ==
  ASSUME AskInv, NEW text \in Texts, OtherRequest(text)
  PROVE  AskInv'
<1>1. /\ gpc = "none" /\ ReceiveRequest(text)
      /\ UNCHANGED <<gpc, outcome, sent, command, url, query>>
  BY DEF OtherRequest, clientVars, inputVars
<1>2. Len(text) \in Nat
  BY TextsAssumption, LenProperties
<1>3. /\ hash' = (IF Accepted(text) THEN LookupKey(text) ELSE <<>>)
      /\ hash_len' = httpParamLength(text)
  BY <1>1 DEF ReceiveRequest
<1>4. HashOK'
  BY <1>2, <1>3, AcceptedLength DEF HashOK
<1>5. command' = NoCommand
  BY <1>1 DEF AskInv, CommandOK
<1>7. AsksForTyped'
  <2>1. Len(command'.hash) # 2 * HashLen
    BY <1>5, HashLenAssumption DEF NoCommand
  <2> QED
    BY <2>1 DEF AsksForTyped, Proper
<1>8. CommandOK'
  BY <1>1, <1>5 DEF AskInv, CommandOK, Asked, Unambiguous, Resolved
<1> QED
  BY <1>4, <1>7, <1>8 DEF AskInv

\* Every step preserves what is known of the request.
LEMMA AskStep == GpInv /\ AskInv /\ [GpNext]_gpVars => AskInv'
<1> SUFFICES ASSUME GpInv, AskInv, [GpNext]_gpVars PROVE AskInv'
  OBVIOUS
<1>1. ASSUME Connect \/ NoConnection \/ Send \/ SendFails \/ EndOfSend \/ Parse PROVE AskInv'
  <2>1. UNCHANGED <<inputVars, hash, hash_len>>
    BY <1>1 DEF Connect, NoConnection, Send, SendFails, EndOfSend, Parse, replyVars, requestVars
  <2>2. gpc \in {"connect", "send", "parse"} /\ gpc' \notin {"none", "args"}
    BY <1>1 DEF Connect, NoConnection, Send, SendFails, EndOfSend, Parse, Sending, GGo, Exit
  <2>3. outcome' = outcome \/ outcome' # "usage"
    BY <1>1 DEF Connect, NoConnection, Send, SendFails, EndOfSend, Parse, Exit, ReplyOutcomes
  <2>4. outcome # "usage"
    BY <2>2 DEF AskInv, CommandOK
  <2> QED
    BY <2>1, <2>2, <2>3, <2>4, AskKept DEF Asked
<1>2. ASSUME NEW n, Recv(n) PROVE AskInv'
  <2>1. /\ UNCHANGED <<inputVars, hash, hash_len, outcome>>
        /\ gpc = "recv" /\ gpc' \in {"recv", "parse"}
    BY <1>2 DEF Recv, requestVars
  <2>2. outcome # "usage"
    BY <2>1 DEF AskInv, CommandOK
  <2> QED
    BY <2>1, <2>2, AskKept DEF Asked
<1>3. ASSUME GiveUpRequest \/ TrackerStep \/ TableMove, UNCHANGED clientVars PROVE AskInv'
  <2>2. UNCHANGED <<hash, hash_len>>
    BY <1>3
       DEF requestVars, GiveUpRequest, TrackerStep, TableMove, SendHeaders, Lookup, Found, Fail, Prepare, EndOfRows,
           SkipRow, PushRow, PackRow, EndLoop, SendRest, Register, SendCounts, CloseReply, Count
  <2> QED
    BY <1>3, <2>2, AskKept DEF clientVars
<1>4. ASSUME UNCHANGED gpVars PROVE AskInv'
  BY <1>4, AskKept DEF gpVars, clientVars, replyVars, requestVars
<1>5. ASSUME NEW cmd \in Commands, Args(cmd) PROVE AskInv'
  BY <1>5, AskArgs
<1>6. ASSUME NEW t \in Texts, OtherRequest(t) PROVE AskInv'
  BY <1>6, AskOther
<1>7. ASSUME ClientProgress PROVE AskInv'
  BY <1>1, <1>2, <1>5, <1>7 DEF ClientProgress
<1>8. ASSUME Server PROVE AskInv'
  <2>1. CASE TakeRequest
    BY <2>1, AskTaken
  <2>2. CASE GiveUpRequest
    BY <2>2, <1>3 DEF GiveUpRequest
  <2>3. CASE TrackerStep /\ UNCHANGED clientVars
    BY <2>3, <1>3
  <2> QED
    BY <1>8, <2>1, <2>2, <2>3 DEF Server
<1>9. ASSUME Recv(-1) PROVE AskInv'
  BY <1>2, <1>9
<1>10. ASSUME TableMove, UNCHANGED clientVars PROVE AskInv'
  BY <1>3, <1>10
<1> QED
  BY <1>4, <1>6, <1>7, <1>8, <1>9, <1>10 DEF GpNext, Ended

-----------------------------------------------------------------------------
(***************************************************************************)
(* What is answered: the body, by the tracker's control point.             *)
(***************************************************************************)

\* The list is open, with one piece for every peer unless it is compact.
ListOpen ==
  /\ Len(due) = (IF compact THEN 6 ELSE 6 + Len(listed)) /\ due[6] = "open"
  /\ \A k \in 7..Len(due) : due[k] = "peer"

Str4Sent == compact /\ Len(due) = 7 /\ due[6] = "open" /\ due[7] = "str4"
Str6Sent ==
  compact /\ Len(due) = 8 /\ due[6] = "open" /\ due[7] = "str4" /\ due[8] = "str6"

\* The list is closed: see BodyWhole.
ListClosed ==
  \/ /\ ~compact /\ Len(due) = 7 + Len(listed) /\ due[6] = "open"
     /\ \A k \in 7..(Len(due) - 1) : due[k] = "peer"
     /\ due[Len(due)] = "close"
  \/ compact /\ Len(due) = 8 /\ due[6] = "open" /\ due[7] = "str4" /\ due[8] = "close"
  \/ /\ compact /\ Len(due) = 9
     /\ due[6] = "open" /\ due[7] = "str4" /\ due[8] = "str6" /\ due[9] = "close"

\* No body, or one of a single piece.
Short == Len(due) <= 5 \/ (Len(due) = 6 /\ due[6] \in {"failure", "counts"})

BodyOK ==
  /\ rpc \in {"lookup", "prepare", "count"} => Len(due) = 5
  /\ rpc = "rows" => ListOpen
  /\ rpc = "str4" => compact /\ ListOpen
  /\ rpc = "str6" => Str4Sent
  /\ rpc = "close" => Str4Sent \/ Str6Sent \/ (~compact /\ ListOpen)
  /\ rpc = "register" => ListClosed
  /\ rpc \in {"done", "closed"} => Short \/ ListClosed
  /\ registered => rpc \in {"done", "closed"} /\ ListClosed

\* The torrent is that of the hash, unless the lookup returned a result code.
Right ==
  IF misread THEN torrentid \in ErrorCodes ELSE hash \in Known /\ torrentid = TorrentId[hash]

\* A list is opened for the right torrent and for an announce, counts are sent to
\* a scrape.
KnownOK ==
  /\ rpc \notin {"idle", "headers", "done", "closed"} => hash # <<>>
  /\ rpc \in {"idle", "headers", "lookup"} => ~misread
  /\ rpc \notin {"idle", "headers", "lookup", "done", "closed"} => Right
  /\ rpc = "count" => path = "scrape"
  /\ rpc \in {"prepare", "rows", "str4", "str6", "close", "register"} => path = "announce"
  /\ Len(due) >= 6 =>
       /\ due[6] \in {"failure", "open", "counts"}
       /\ due[6] = "open" => hash # <<>> /\ Right /\ path = "announce"
       /\ due[6] = "counts" => path = "scrape"

\* The invariant of the answer.
BodyInv == BodyOK /\ KnownOK

\* The body of a list, at whichever point of it.
bodyVars ==
  <<rpc, due, registered, hash, path, torrentid, misread, compact, listed>>

\* One more piece is due.
LEMMA SendExact ==
  ASSUME GpInv, NEW piece, reallySend(piece)
  PROVE  /\ Len(due) \in Nat /\ Len(due') = Len(due) + 1 /\ due'[Len(due) + 1] = piece
         /\ \A k \in 1..Len(due) : due'[k] = due[k]
<1>1. due \in Seq(Pieces)
  BY DEF GpInv, TrackerInv, SendOK
<1>2. due' = Append(due, piece)
  BY DEF reallySend
<1>3. Len(due) \in Nat
  BY <1>1, LenProperties
<1>4. \A k \in 1..Len(due) : due'[k] = due[k]
  BY <1>1, <1>2
<1> QED
  BY <1>1, <1>2, <1>3, <1>4

\* Steps that are no concern of the body.
LEMMA BodyKept ==
  ASSUME BodyInv, UNCHANGED bodyVars
  PROVE  BodyInv'
<1>1. UNCHANGED <<rpc, due, registered, hash, path, torrentid, misread, compact, listed>>
  BY DEF bodyVars
<1>2. BodyOK'
  BY <1>1 DEF BodyInv, BodyOK, ListOpen, Str4Sent, Str6Sent, ListClosed, Short
<1>3. KnownOK'
  BY <1>1 DEF BodyInv, KnownOK, Right
<1> QED
  BY <1>2, <1>3 DEF BodyInv

\* Before anything was sent.
LEMMA InitBodyInv == GpInit => BodyInv
<1> SUFFICES ASSUME GpInit PROVE BodyInv
  OBVIOUS
<1>1. rpc = "idle" /\ due = <<>> /\ registered = FALSE /\ misread = FALSE
  BY DEF GpInit, ReplyInit
<1>2. Len(due) = 0
  BY <1>1
<1> QED
  BY <1>1, <1>2 DEF BodyInv, BodyOK, KnownOK

\* A request comes in, whole or not: nothing has been sent.
LEMMA BodyRequest ==
  ASSUME GpInv, BodyInv, rpc = "idle", rpc' \in {"headers", "done"},
         UNCHANGED <<due, registered, misread>>
  PROVE  BodyInv'
<1>1. Len(due) \in Nat /\ Len(due) <= 4
  BY DEF GpInv, TrackerInv, SendOK
<1>2. ~registered
  BY DEF BodyInv, BodyOK
<1>3. BodyOK'
  BY <1>1, <1>2 DEF BodyOK, Short
<1>4. KnownOK'
  BY <1>1 DEF BodyInv, KnownOK, Right
<1> QED
  BY <1>3, <1>4 DEF BodyInv

\* The headers.
LEMMA BodyHeaders ==
  ASSUME GpInv, BodyInv, SendHeaders
  PROVE  BodyInv'
<1>1. /\ rpc = "headers" /\ UNCHANGED <<registered, hash, path, torrentid, misread, compact, listed>>
      /\ rpc' = IF Len(due) < 4 THEN "headers" ELSE IF hash = <<>> THEN "done" ELSE "lookup"
      /\ \E piece : reallySend(piece)
  BY DEF SendHeaders, requestVars, listVars
<1>2. Len(due) \in Nat /\ Len(due) <= 4 /\ Len(due') = Len(due) + 1
  BY <1>1, SendExact DEF GpInv, TrackerInv, SendOK
<1>3. ~registered
  BY <1>1 DEF BodyInv, BodyOK
<1>4. BodyOK'
  BY <1>1, <1>2, <1>3 DEF BodyOK, Short
<1>5. KnownOK'
  BY <1>1, <1>2 DEF BodyInv, KnownOK, Right
<1> QED
  BY <1>4, <1>5 DEF BodyInv

\* A failure, or the counts of a scrape, is the whole body.
LEMMA BodySingle ==
  ASSUME GpInv, BodyInv, Len(due) = 5, rpc \in {"lookup", "prepare", "count"}, rpc' = "done",
         UNCHANGED <<registered, hash, path, torrentid, misread, compact, listed>>,
         reallySend("failure") \/ (reallySend("counts") /\ path = "scrape")
  PROVE  BodyInv'
<1>1. Len(due') = 6 /\ (due'[6] = "failure" \/ (due'[6] = "counts" /\ path' = "scrape"))
  BY SendExact
<1>2. ~registered
  BY DEF BodyInv, BodyOK
<1>3. BodyOK'
  BY <1>1, <1>2 DEF BodyOK, Short
<1>4. KnownOK'
  BY <1>1 DEF BodyInv, KnownOK, Right
<1> QED
  BY <1>3, <1>4 DEF BodyInv

\* The torrent is looked up, and a list is opened only if it was found.
LEMMA BodyLookup ==
  ASSUME GpInv, BodyInv, Lookup \/ Prepare
  PROVE  BodyInv'
<1>1. ASSUME Fail, rpc \in {"lookup", "prepare"} PROVE BodyInv'
  <2>1. /\ rpc' = "done" /\ reallySend("failure") /\ Len(due) = 5
        /\ UNCHANGED <<registered, hash, path, torrentid, misread, compact, listed>>
    BY <1>1 DEF Fail, requestVars, listVars, BodyInv, BodyOK
  <2> QED
    BY <1>1, <2>1, BodySingle
<1>2. ASSUME rpc = "lookup", rpc' = (IF path = "announce" THEN "prepare" ELSE "count"),
             Found(torrentid'),
             \/ hash \in Known /\ torrentid' = TorrentId[hash] /\ misread' = misread
             \/ torrentid' \in ErrorCodes /\ misread' = TRUE
      PROVE  BodyInv'
  <2>1. /\ UNCHANGED <<due, registered, hash, path, compact, listed>> /\ Len(due) = 5
        /\ path \in {"announce", "scrape"} /\ ~registered /\ hash # <<>> /\ ~misread
    BY <1>2
       DEF Found, listVars, netVars, BodyInv, BodyOK, KnownOK, GpInv, TrackerInv, ReplyTypeOK
  <2>2. BodyOK'
    BY <1>2, <2>1 DEF BodyOK
  <2>3. KnownOK'
    BY <1>2, <2>1 DEF KnownOK, Right
  <2> QED
    BY <2>2, <2>3 DEF BodyInv
<1>3. ASSUME rpc = "prepare", rpc' = "rows", reallySend("open"),
             UNCHANGED <<requestVars, listed, registered>>
      PROVE  BodyInv'
  <2>1. UNCHANGED <<registered, hash, path, torrentid, misread, compact, listed>> /\ Len(due) = 5 /\ ~registered
        /\ hash # <<>> /\ Right /\ path = "announce" /\ Len(listed) = 0
    BY <1>3 DEF requestVars, BodyInv, BodyOK, KnownOK, GpInv, TrackerInv, FreshOK, BeforeRows
  <2>2. Len(due') = 6 /\ due'[6] = "open"
    BY <1>3, <2>1, SendExact
  <2>3. BodyOK'
    BY <1>3, <2>1, <2>2 DEF BodyOK, ListOpen
  <2>4. KnownOK'
    BY <1>3, <2>1, <2>2 DEF KnownOK, Right
  <2> QED
    BY <2>3, <2>4 DEF BodyInv
<1>4. ASSUME Lookup PROVE BodyInv'
  <2>1. rpc = "lookup" /\ (Found(torrentid') => rpc' = IF path = "announce" THEN "prepare" ELSE "count")
    BY <1>4 DEF Lookup, Found, RGo
  <2>2. \/ Fail
        \/ /\ Found(torrentid')
           /\ \/ hash \in Known /\ torrentid' = TorrentId[hash] /\ misread' = misread
              \/ torrentid' \in ErrorCodes /\ misread' = TRUE
    BY <1>4 DEF Lookup, Found
  <2> QED
    BY <1>1, <1>2, <2>1, <2>2
<1>5. ASSUME Prepare PROVE BodyInv'
  BY <1>1, <1>3, <1>5 DEF Prepare, RGo
<1> QED
  BY <1>4, <1>5

\* What has been opened stays so, whatever is added.
LEMMA KnownKept ==
  ASSUME GpInv, BodyInv, NEW piece, reallySend(piece), Len(due) >= 6,
         rpc \in {"rows", "str4", "str6", "close"},
         rpc' \in {"rows", "str4", "str6", "close", "register"},
         UNCHANGED <<hash, path, torrentid, misread>>
  PROVE  KnownOK'
<1>1. Len(due') >= 6 /\ due'[6] = due[6]
  <2>1. 6 \in 1..Len(due)
    BY SendExact
  <2> QED
    BY <2>1, SendExact
<1> QED
  BY <1>1 DEF BodyInv, KnownOK, Right

\* The rows.
LEMMA BodyRows ==
  ASSUME GpInv, BodyInv, EndOfRows \/ SkipRow \/ PushRow \/ PackRow \/ EndLoop
  PROVE  BodyInv'
<1>0. rpc = "rows" /\ UNCHANGED <<registered, hash, path, torrentid, misread, compact>>
  BY DEF EndOfRows, SkipRow, PushRow, PackRow, EndLoop, InLoop, RGo, requestVars, listVars
<1>1. ListOpen /\ ~registered /\ compact \in BOOLEAN
  BY <1>0 DEF BodyInv, BodyOK, KnownOK, GpInv, TrackerInv, ReplyTypeOK
<1>2. ASSUME EndOfRows \/ SkipRow PROVE BodyInv'
  <2>1. UNCHANGED bodyVars
    BY <1>0, <1>2 DEF EndOfRows, SkipRow, requestVars, netVars, bodyVars
  <2> QED
    BY <2>1, BodyKept
<1>3. ASSUME PackRow PROVE BodyInv'
  <2>1. compact /\ UNCHANGED <<rpc, due>>
    BY <1>3 DEF PackRow, netVars
  <2>2. ListOpen'
    BY <1>0, <1>1, <2>1 DEF ListOpen
  <2>3. BodyOK'
    BY <1>0, <1>1, <2>1, <2>2 DEF BodyOK
  <2>4. KnownOK'
    BY <1>0, <2>1 DEF BodyInv, KnownOK, Right
  <2> QED
    BY <2>3, <2>4 DEF BodyInv
<1>4. ASSUME PushRow PROVE BodyInv'
  <2>1. ~compact /\ rpc' = rpc /\ reallySend("peer") /\ listed' = Append(listed, i + 1)
    BY <1>4 DEF PushRow
  <2>2. /\ Len(due) \in Nat /\ Len(due') = Len(due) + 1 /\ due'[Len(due) + 1] = "peer"
        /\ \A k \in 1..Len(due) : due'[k] = due[k]
    BY <2>1, SendExact
  <2>3. Len(listed) \in Nat /\ Len(listed') = Len(listed) + 1
    BY <2>1 DEF GpInv, TrackerInv, ReplyTypeOK
  <2>4. Len(due) = 6 + Len(listed) /\ due[6] = "open" /\ \A k \in 7..Len(due) : due[k] = "peer"
    BY <1>1, <2>1 DEF ListOpen
  <2>5. /\ 6 \in 1..Len(due)
        /\ \A k \in 7..(Len(due) + 1) :
             k = Len(due) + 1 \/ (k \in 7..Len(due) /\ k \in 1..Len(due))
    BY <2>2, <2>3, <2>4
  <2>6. ListOpen'
    BY <1>0, <2>1, <2>2, <2>3, <2>4, <2>5 DEF ListOpen
  <2>7. BodyOK'
    BY <1>0, <1>1, <2>1, <2>6 DEF BodyOK
  <2>8. KnownOK'
    BY <1>0, <2>1, <2>3, <2>4, KnownKept
  <2> QED
    BY <2>7, <2>8 DEF BodyInv
<1>5. ASSUME EndLoop PROVE BodyInv'
  <2>1. rpc' = (IF compact THEN "str4" ELSE "close") /\ UNCHANGED <<due, listed>>
    BY <1>5 DEF EndLoop, RGo, listVars, netVars
  <2>2. ListOpen'
    BY <1>0, <1>1, <2>1 DEF ListOpen
  <2>3. BodyOK'
    BY <1>0, <1>1, <2>1, <2>2 DEF BodyOK
  <2>4. KnownOK'
    BY <1>0, <2>1 DEF BodyInv, KnownOK, Right
  <2> QED
    BY <2>3, <2>4 DEF BodyInv
<1> QED
  BY <1>2, <1>3, <1>4, <1>5

\* The compact strings and the end of the list.
LEMMA BodyRest ==
  ASSUME GpInv, BodyInv, SendRest
  PROVE  BodyInv'
<1>1. /\ reallySend(rpc) /\ UNCHANGED <<registered, hash, path, torrentid, misread, compact, listed>>
      /\ \/ rpc = "str4" /\ rpc' \in {"str6", "close"}
         \/ rpc = "str6" /\ rpc' = "close"
         \/ rpc = "close" /\ rpc' = "register"
  BY DEF SendRest, RGo, requestVars, listVars
<1>2. /\ Len(due) \in Nat /\ Len(due') = Len(due) + 1 /\ due'[Len(due) + 1] = rpc
      /\ \A k \in 1..Len(due) : due'[k] = due[k]
  BY <1>1, SendExact
<1>3. ~registered /\ compact \in BOOLEAN /\ Len(listed) \in Nat
  BY <1>1 DEF BodyInv, BodyOK, GpInv, TrackerInv, ReplyTypeOK
<1>4. /\ rpc = "str4" => compact /\ ListOpen
      /\ rpc = "str6" => Str4Sent
      /\ rpc = "close" => Str4Sent \/ Str6Sent \/ (~compact /\ ListOpen)
  BY DEF BodyInv, BodyOK
<1>5. Len(due) >= 6
  BY <1>1, <1>3, <1>4 DEF ListOpen, Str4Sent, Str6Sent
<1>6. 6 \in 1..Len(due) /\ due'[6] = due[6]
  BY <1>2, <1>5
<1>7. ASSUME rpc = "str4" PROVE BodyOK'
  <2>1. compact' /\ Len(due') = 7 /\ due'[6] = "open" /\ due'[7] = "str4"
    <3>1. compact /\ ListOpen /\ compact' = compact
      BY <1>1, <1>4, <1>7
    <3>2. Len(due) = 6 /\ due[6] = "open"
      BY <3>1 DEF ListOpen
    <3> QED
      BY <1>2, <1>6, <1>7, <3>1, <3>2
  <2> QED
    BY <1>1, <1>3, <1>7, <2>1 DEF BodyOK, Str4Sent
<1>8. ASSUME rpc = "str6" PROVE BodyOK'
  <2>1. compact' /\ Len(due') = 8 /\ due'[6] = "open" /\ due'[7] = "str4" /\ due'[8] = "str6"
    <3>1. Str4Sent /\ compact' = compact
      BY <1>1, <1>4, <1>8
    <3>2. compact /\ Len(due) = 7 /\ due[6] = "open" /\ due[7] = "str4"
      BY <3>1 DEF Str4Sent
    <3>3. 7 \in 1..Len(due)
      BY <3>2
    <3> QED
      BY <1>2, <1>6, <1>8, <3>1, <3>2, <3>3
  <2> QED
    BY <1>1, <1>3, <1>8, <2>1 DEF BodyOK, Str6Sent
<1>9. ASSUME rpc = "close" PROVE ListClosed'
  <2>1. CASE Str4Sent
    <3>1. compact' /\ Len(due') = 8 /\ due'[6] = "open" /\ due'[7] = "str4" /\ due'[8] = "close"
      BY <1>1, <1>2, <1>6, <1>9, <2>1 DEF Str4Sent
    <3> QED
      BY <3>1 DEF ListClosed
  <2>2. CASE Str6Sent
    <3>1. /\ compact' /\ Len(due') = 9 /\ due'[6] = "open" /\ due'[7] = "str4"
          /\ due'[8] = "str6" /\ due'[9] = "close"
      BY <1>1, <1>2, <1>6, <1>9, <2>2 DEF Str6Sent
    <3> QED
      BY <3>1 DEF ListClosed
  <2>3. CASE ~compact /\ ListOpen
    <3>1. /\ Len(due) = 6 + Len(listed) /\ due[6] = "open"
          /\ \A k \in 7..Len(due) : due[k] = "peer"
      BY <2>3 DEF ListOpen
    <3>2. \A k \in 7..Len(due) : due'[k] = "peer"
      BY <1>2, <3>1
    <3>3. Len(due') - 1 = Len(due) /\ Len(due') = 7 + Len(listed) /\ due'[Len(due')] = "close"
      BY <1>2, <1>3, <1>9, <3>1
    <3> QED
      BY <1>1, <1>6, <2>3, <3>1, <3>2, <3>3 DEF ListClosed
  <2> QED
    BY <1>4, <1>9, <2>1, <2>2, <2>3
<1>10. BodyOK'
  <2>1. CASE rpc = "close"
    BY <1>1, <1>3, <1>9, <2>1 DEF BodyOK
  <2> QED
    BY <1>1, <1>7, <1>8, <2>1
<1>11. KnownOK'
  BY <1>1, <1>5, KnownKept
<1> QED
  BY <1>10, <1>11 DEF BodyInv

\* The peer is registered after a whole list, the connection closed at the end.
LEMMA BodyEnd ==
  ASSUME GpInv, BodyInv, Register \/ CloseReply
  PROVE  BodyInv'
<1>1. /\ UNCHANGED <<due, hash, path, torrentid, misread, compact, listed>>
      /\ \/ rpc = "register" /\ rpc' = "done" /\ registered' = TRUE
         \/ rpc = "done" /\ rpc' = "closed" /\ registered' = registered
  BY DEF Register, CloseReply, RGo, requestVars, listVars, netVars
<1>2. ListClosed' <=> ListClosed
  BY <1>1 DEF ListClosed
<1>3. Short' <=> Short
  BY <1>1 DEF Short
<1>4. BodyOK'
  BY <1>1, <1>2, <1>3 DEF BodyInv, BodyOK
<1>5. KnownOK'
  BY <1>1 DEF BodyInv, KnownOK, Right
<1> QED
  BY <1>4, <1>5 DEF BodyInv

\* The counts of a scrape.
LEMMA BodyCounts ==
  ASSUME GpInv, BodyInv, SendCounts
  PROVE  BodyInv'
<1>1. /\ rpc = "count" /\ rpc' = "done" /\ reallySend("counts")
      /\ UNCHANGED <<registered, hash, path, torrentid, misread, compact, listed>>
  BY DEF SendCounts, RGo, requestVars, listVars
<1>2. Len(due) = 5 /\ path = "scrape"
  BY <1>1 DEF BodyInv, BodyOK, KnownOK
<1> QED
  BY <1>1, <1>2, BodySingle

\* Every step of either program preserves the invariant of the body.
LEMMA BodyStep == GpInv /\ BodyInv /\ [GpNext]_gpVars => BodyInv'
<1> SUFFICES ASSUME GpInv, BodyInv, [GpNext]_gpVars PROVE BodyInv'
  OBVIOUS
<1>1. ASSUME TrackerStep PROVE BodyInv'
  <2>1. ASSUME NEW q \in Queries, Count(q) PROVE BodyInv'
    <3>1. UNCHANGED bodyVars
      BY <2>1 DEF Count, requestVars, listVars, netVars, bodyVars
    <3> QED
      BY <3>1, BodyKept
  <2> QED
    BY <1>1, <2>1, BodyHeaders, BodyLookup, BodyRows, BodyRest, BodyEnd, BodyCounts DEF TrackerStep
<1>2. ASSUME TakeRequest \/ GiveUpRequest \/ \E t \in Texts : OtherRequest(t) PROVE BodyInv'
  <2>1. rpc = "idle" /\ rpc' \in {"headers", "done"} /\ UNCHANGED <<due, registered, misread>>
    BY <1>2 DEF TakeRequest, GiveUpRequest, OtherRequest, ReceiveRequest, RGo, requestVars, listVars,
                netVars
  <2> QED
    BY <2>1, BodyRequest
<1>3. ASSUME TableMove PROVE BodyInv'
  BY <1>3, BodyKept DEF TableMove, requestVars, listVars, netVars, bodyVars
<1>4. ASSUME NEW n, Recv(n) PROVE BodyInv'
  BY <1>4, BodyKept DEF Recv, requestVars, listVars, bodyVars
<1>5. ASSUME UNCHANGED replyVars PROVE BodyInv'
  BY <1>5, BodyKept DEF replyVars, requestVars, listVars, netVars, bodyVars
<1>6. ASSUME ClientProgress PROVE BodyInv'
  <2>1. ASSUME NEW cmd \in Commands, Args(cmd) PROVE BodyInv'
    BY <2>1, <1>5 DEF Args
  <2>2. ASSUME Connect \/ NoConnection \/ Send \/ SendFails \/ EndOfSend \/ Parse PROVE BodyInv'
    BY <2>2, <1>5 DEF Connect, NoConnection, Send, SendFails, EndOfSend, Parse
  <2> QED
    BY <1>4, <1>6, <2>1, <2>2 DEF ClientProgress
<1>7. ASSUME Server PROVE BodyInv'
  BY <1>1, <1>2, <1>7 DEF Server
<1>8. ASSUME UNCHANGED gpVars PROVE BodyInv'
  BY <1>5, <1>8 DEF gpVars
<1> QED
  BY <1>2, <1>3, <1>4, <1>6, <1>7, <1>8 DEF GpNext, Ended

-----------------------------------------------------------------------------
(***************************************************************************)
(* What is shown: the pieces on the wire.                                  *)
(***************************************************************************)

\* What is on the wire is what was sent, piece by piece, until the connection
\* breaks.
WireOK ==
  /\ Len(wire) <= Len(due) /\ (conn = "up" => Len(wire) = Len(due))
  /\ \A k \in 1..Len(wire) : wire[k] \in {due[k], "cut"}

\* What is shown was found there: the beginning of a list, or of what was cut off.
ShownOK ==
  /\ gpc # "none" => path = "announce"
  /\ outcome = "peers" =>
       gpc = "exit" /\ got >= 6 /\ Len(due) >= 6 /\ (wire[6] = "cut" \/ due[6] = "open")

\* The invariant of the reply on its way.
WireInv == WireOK /\ ShownOK

\* What was sent and what is on the wire stay there.
Longer ==
  /\ Len(due') \in Nat /\ Len(due) <= Len(due') /\ \A k \in 1..Len(due) : due'[k] = due[k]
  /\ Len(wire) <= Len(wire') /\ \A k \in 1..Len(wire) : wire'[k] = wire[k]

\* A piece goes out whole, cut short or not at all.
LEMMA WireSent ==
  ASSUME GpInv, WireOK, NEW piece, reallySend(piece)
  PROVE  WireOK' /\ Longer
<1>1. /\ Len(due) \in Nat /\ Len(due') = Len(due) + 1 /\ due'[Len(due) + 1] = piece
      /\ \A k \in 1..Len(due) : due'[k] = due[k]
  BY SendExact
<1>2. wire \in Seq(Pieces) /\ Len(wire) \in Nat
  BY DEF GpInv, TrackerInv, SendOK
<1>3. Len(wire) <= Len(due) /\ \A k \in 1..Len(wire) : wire[k] \in {due[k], "cut"}
  BY DEF WireOK
<1>4. \A k \in 1..Len(wire) : k \in 1..Len(due)
  BY <1>1, <1>2, <1>3
<1>5. ASSUME wire' = wire, conn' = "down" PROVE WireOK' /\ Longer
  <2>1. Longer
    BY <1>1, <1>2, <1>5 DEF Longer
  <2>2. \A k \in 1..Len(wire) : wire'[k] \in {due'[k], "cut"}
    BY <1>1, <1>3, <1>4, <1>5
  <2> QED
    BY <1>1, <1>2, <1>3, <1>5, <2>1, <2>2 DEF WireOK
<1>6. ASSUME conn = "up", NEW x \in {piece, "cut"}, wire' = Append(wire, x) PROVE WireOK' /\ Longer
  <2>1. Len(wire) = Len(due)
    BY <1>6 DEF WireOK
  <2>2. /\ Len(wire') = Len(wire) + 1 /\ wire'[Len(wire) + 1] = x
        /\ \A k \in 1..Len(wire) : wire'[k] = wire[k]
    <3>1. Len(Append(wire, x)) = Len(wire) + 1 /\ Append(wire, x)[Len(wire) + 1] = x
      BY <1>2
    <3>2. \A k \in 1..Len(wire) : Append(wire, x)[k] = wire[k]
      BY <1>2
    <3> QED
      BY <1>6, <3>1, <3>2
  <2>3. Longer
    BY <1>1, <1>2, <2>2 DEF Longer
  <2>4. \A k \in 1..Len(wire') : k \in 1..Len(wire) \/ k = Len(wire) + 1
    BY <1>2, <2>2
  <2>5. \A k \in 1..Len(wire) : wire'[k] \in {due'[k], "cut"}
    BY <1>1, <1>3, <1>4, <2>2
  <2>6. wire'[Len(wire) + 1] \in {due'[Len(wire) + 1], "cut"}
    BY <1>1, <1>6, <2>1, <2>2
  <2>7. \A k \in 1..Len(wire') : wire'[k] \in {due'[k], "cut"}
    BY <2>4, <2>5, <2>6
  <2>8. Len(wire') = Len(due')
    BY <1>1, <2>1, <2>2
  <2> QED
    BY <1>1, <2>3, <2>7, <2>8 DEF WireOK
<1>7. \/ conn = "up" /\ wire' = Append(wire, piece)
      \/ conn = "up" /\ wire' = Append(wire, "cut")
      \/ wire' = wire /\ conn' = "down"
  BY DEF reallySend
<1> QED
  BY <1>5, <1>6, <1>7

\* The tracker sends one piece at a step or none.
LEMMA TrackerSends ==
  ASSUME TrackerStep
  PROVE  (\E piece : reallySend(piece)) \/ UNCHANGED netVars
<1>1. ASSUME SendHeaders \/ SendRest \/ SendCounts \/ PushRow PROVE \E piece : reallySend(piece)
  BY <1>1 DEF SendHeaders, SendRest, SendCounts, PushRow
<1>2. ASSUME EndOfRows \/ SkipRow \/ PackRow \/ EndLoop \/ Register \/ CloseReply
             \/ \E q \in Queries : Count(q)
      PROVE  UNCHANGED netVars
  BY <1>2 DEF EndOfRows, SkipRow, PackRow, EndLoop, Register, CloseReply, Count
<1>3. ASSUME Lookup \/ Prepare PROVE (\E piece : reallySend(piece)) \/ UNCHANGED netVars
  BY <1>3 DEF Lookup, Found, Prepare, Fail
<1> QED
  BY <1>1, <1>2, <1>3 DEF TrackerStep

\* Nothing is taken back from what was shown.
LEMMA ShownKept ==
  ASSUME GpInv, WireInv, UNCHANGED <<gpc, outcome, got>>, gpc # "none" => path' = path, Longer
  PROVE  ShownOK'
<1>1. got \in 0..Len(wire) /\ Len(wire) \in Nat /\ Len(due) \in Nat
  BY DEF GpInv, ClientInv, ClientTypeOK, TrackerInv, SendOK
<1>2. gpc' # "none" => path' = "announce"
  BY DEF WireInv, ShownOK
<1>3. ASSUME outcome = "peers"
      PROVE  gpc' = "exit" /\ got' >= 6 /\ Len(due') >= 6 /\ (wire'[6] = "cut" \/ due'[6] = "open")
  <2>1. gpc = "exit" /\ got >= 6 /\ Len(due) >= 6 /\ (wire[6] = "cut" \/ due[6] = "open")
    BY <1>3 DEF WireInv, ShownOK
  <2>2. 6 \in 1..Len(wire) /\ 6 \in 1..Len(due)
    BY <1>1, <2>1
  <2>3. wire'[6] = wire[6] /\ due'[6] = due[6]
    BY <2>2 DEF Longer
  <2>4. Len(due') >= 6
    BY <1>1, <2>1 DEF Longer
  <2> QED
    BY <2>1, <2>3, <2>4
<1> QED
  BY <1>2, <1>3 DEF ShownOK

\* Nothing is sent.
LEMMA WireKept ==
  ASSUME GpInv, WireOK, UNCHANGED <<due, wire>>, conn' \in {conn, "down"}
  PROVE  WireOK' /\ Longer
<1>1. Len(wire) \in Nat /\ Len(due) \in Nat
  BY DEF GpInv, TrackerInv, SendOK
<1>2. WireOK'
  BY DEF WireOK
<1>3. Longer
  BY <1>1 DEF Longer
<1> QED
  BY <1>2, <1>3

\* Before anything was sent.
LEMMA InitWireInv == GpInit => WireInv
<1> SUFFICES ASSUME GpInit PROVE WireInv
  OBVIOUS
<1>1. due = <<>> /\ wire = <<>> /\ path = "announce" /\ outcome = "none"
  BY DEF GpInit, ReplyInit
<1>2. Len(due) = 0 /\ Len(wire) = 0
  BY <1>1
<1> QED
  BY <1>1, <1>2 DEF WireInv, WireOK, ShownOK

\* What has been read is the beginning of what is on the wire.
LEMMA ReceivedFacts ==
  ASSUME GpInv
  PROVE  /\ Received \in Seq(Pieces) /\ Len(Received) = got
         /\ \A k \in 1..got : Received[k] = wire[k]
<1> DEFINE r == SubSeq(wire, 1, got)
<1>1. got \in 0..Len(wire) /\ Len(wire) \in Nat /\ wire \in Seq(Pieces)
  BY DEF GpInv, ClientInv, ClientTypeOK, TrackerInv, SendOK
<1>2. 1 \in 1..(Len(wire) + 1) /\ 1 <= got + 1 /\ got - 1 + 1 = got
      /\ \A k \in 1..got : 1 + k - 1 = k
  BY <1>1
<1>3. /\ r \in Seq(Pieces) /\ Len(r) = got - 1 + 1
      /\ \A k \in 1..(got - 1 + 1) : r[k] = wire[1 + k - 1]
  BY <1>1, <1>2, Slice
<1>4. r = Received
  BY DEF Received
<1> HIDE DEF r
<1> QED
  BY <1>2, <1>3, <1>4

\* Peers are shown only if the first piece of the body opens a list, or was cut.
LEMMA ShownParse ==
  ASSUME GpInv, BodyInv, WireInv, Parse
  PROVE  ShownOK'
<1>1. /\ gpc = "parse" /\ gpc' = "exit" /\ outcome' \in ReplyOutcomes
      /\ UNCHANGED <<path, got, due, wire>>
  BY DEF Parse, Exit, replyVars, requestVars, netVars
<1>2. path = "announce"
  BY <1>1 DEF WireInv, ShownOK
<1>3. got \in 0..Len(wire) /\ Len(wire) \in Nat /\ wire \in Seq(Pieces) /\ Len(due) \in Nat
  BY DEF GpInv, ClientInv, ClientTypeOK, TrackerInv, SendOK
<1>4. ASSUME outcome' = "peers"
      PROVE  got >= 6 /\ Len(due) >= 6 /\ (wire[6] = "cut" \/ due[6] = "open")
  <2>1. ReceivedBody # <<>> /\ ReceivedBody[1] # "failure"
    BY <1>1, <1>4 DEF ReplyOutcomes
  <2> DEFINE r == Received
  <2>2. r \in Seq(Pieces) /\ Len(r) = got /\ \A k \in 1..got : r[k] = wire[k]
    BY ReceivedFacts
  <2>3. ReceivedBody = SubSeq(r, 6, got)
    BY <2>2 DEF ReceivedBody
  <2> HIDE DEF r
  <2>4. got >= 6
    <3> SUFFICES ASSUME ~(got >= 6) PROVE FALSE
      OBVIOUS
    <3>1. 6 \in Int /\ got \in Int /\ got < 6
      BY <1>3
    <3> QED
      BY <2>1, <2>3, <3>1, SubSeqEmpty
  <2>5. ReceivedBody[1] = wire[6]
    <3>1. 6 \in 1..(Len(r) + 1) /\ got \in 0..Len(r) /\ 6 <= got + 1 /\ 1 \in 1..(got - 6 + 1)
          /\ 6 + 1 - 1 = 6 /\ 6 \in 1..got
      BY <1>3, <2>2, <2>4
    <3>2. SubSeq(r, 6, got)[1] = r[6 + 1 - 1]
      BY <2>2, <3>1, Slice
    <3> QED
      BY <2>2, <2>3, <3>1, <3>2
  <2>6. Len(due) >= 6 /\ wire[6] \in {due[6], "cut"}
    <3>1. Len(wire) <= Len(due) /\ \A k \in 1..Len(wire) : wire[k] \in {due[k], "cut"}
      BY DEF WireInv, WireOK
    <3>2. 6 \in 1..Len(wire)
      BY <1>3, <2>4
    <3> QED
      BY <1>3, <3>1, <3>2
  <2>7. due[6] \in {"failure", "open", "counts"} /\ due[6] # "counts"
    BY <1>2, <2>6 DEF BodyInv, KnownOK
  <2> QED
    BY <2>1, <2>4, <2>5, <2>6, <2>7
<1> QED
  BY <1>1, <1>2, <1>4 DEF ShownOK

\* Every step of either program preserves the invariant of the reply on its way.
LEMMA WireStep == GpInv /\ BodyInv /\ WireInv /\ [GpNext]_gpVars => WireInv'
<1> SUFFICES ASSUME GpInv, BodyInv, WireInv, [GpNext]_gpVars PROVE WireInv'
  OBVIOUS
<1>0. WireOK /\ ShownOK
  BY DEF WireInv
<1>1. ASSUME TrackerStep, UNCHANGED clientVars PROVE WireInv'
  <2>1. UNCHANGED <<gpc, outcome, got>>
    BY <1>1 DEF clientVars
  <2>2. path' = path
    BY <1>1 DEF requestVars, TrackerStep, SendHeaders, Lookup, Found, Fail, Prepare, EndOfRows, SkipRow, PushRow,
                PackRow, EndLoop, SendRest, Register, SendCounts, CloseReply, Count
  <2>3. WireOK' /\ Longer
    <3>1. ASSUME NEW piece, reallySend(piece) PROVE WireOK' /\ Longer
      BY <1>0, <3>1, WireSent
    <3>2. ASSUME UNCHANGED netVars PROVE WireOK' /\ Longer
      BY <1>0, <3>2, WireKept DEF netVars
    <3> QED
      BY <1>1, <3>1, <3>2, TrackerSends
  <2>4. ShownOK'
    BY <2>1, <2>2, <2>3, ShownKept
  <2> QED
    BY <2>3, <2>4 DEF WireInv
<1>2. ASSUME UNCHANGED netVars, UNCHANGED <<gpc, outcome, got>>, gpc # "none" => path' = path
      PROVE  WireInv'
  <2>1. WireOK' /\ Longer
    BY <1>0, <1>2, WireKept DEF netVars
  <2> QED
    BY <1>2, <2>1, ShownKept DEF WireInv
<1>3. ASSUME TableMove \/ GiveUpRequest, UNCHANGED clientVars PROVE WireInv'
  <2>1. UNCHANGED netVars /\ UNCHANGED <<gpc, outcome, got>> /\ path' = path
    BY <1>3 DEF TableMove, GiveUpRequest, clientVars, requestVars
  <2> QED
    BY <1>2, <2>1
<1>4. ASSUME NEW t, OtherRequest(t) PROVE WireInv'
  <2>1. UNCHANGED netVars /\ UNCHANGED <<gpc, outcome, got>> /\ gpc = "none"
    BY <1>4 DEF OtherRequest, ReceiveRequest, clientVars
  <2> QED
    BY <1>2, <2>1
<1>5. ASSUME TakeRequest PROVE WireInv'
  <2>1. UNCHANGED netVars /\ UNCHANGED <<gpc, outcome, got>> /\ path' = "announce"
    BY <1>5 DEF TakeRequest, ReceiveRequest, clientVars
  <2>2. gpc # "none" => path' = path
    BY <1>0, <2>1 DEF ShownOK
  <2> QED
    BY <1>2, <2>1, <2>2
<1>6. ASSUME UNCHANGED gpVars PROVE WireInv'
  BY <1>2, <1>6 DEF gpVars, replyVars, clientVars, requestVars
<1>7. ASSUME UNCHANGED <<path, due, wire>>, conn' \in {conn, "down"}, gpc # "none",
             outcome' # "peers", gpc' # "none"
      PROVE  WireInv'
  <2>1. WireOK'
    BY <1>0, <1>7, WireKept
  <2>2. ShownOK'
    BY <1>0, <1>7 DEF ShownOK
  <2> QED
    BY <2>1, <2>2 DEF WireInv
<1>8. ASSUME NEW n, Recv(n) PROVE WireInv'
  <2>1. /\ UNCHANGED <<path, due, wire, outcome>> /\ conn' \in {conn, "down"}
        /\ gpc = "recv" /\ gpc' \in {"recv", "parse"}
    BY <1>8 DEF Recv, requestVars
  <2>2. outcome # "peers"
    BY <1>0, <2>1 DEF ShownOK
  <2> QED
    BY <1>7, <2>1, <2>2
<1>9. ASSUME Parse PROVE WireInv'
  <2>1. UNCHANGED <<due, wire, conn>>
    BY <1>9 DEF Parse, replyVars, netVars
  <2>2. WireOK'
    BY <1>0, <2>1, WireKept
  <2> QED
    BY <1>9, <2>2, ShownParse DEF WireInv
<1>10. ASSUME Connect \/ NoConnection \/ Send \/ SendFails \/ EndOfSend
              \/ \E cmd \in Commands : Args(cmd)
       PROVE  WireInv'
  <2>1. UNCHANGED <<path, due, wire, conn>>
    BY <1>10 DEF Connect, NoConnection, Send, SendFails, EndOfSend, Args, replyVars, requestVars,
                 netVars
  <2>2. /\ gpc \in {"connect", "send", "args"} /\ gpc' # "none"
        /\ outcome' \in {outcome, "error", "usage"}
    BY <1>10 DEF Connect, NoConnection, Send, SendFails, EndOfSend, Args, Sending, GGo, Exit
  <2>3. outcome # "peers"
    BY <1>0, <2>2 DEF ShownOK
  <2> QED
    BY <1>7, <2>1, <2>2, <2>3
<1>11. ASSUME ClientProgress PROVE WireInv'
  BY <1>8, <1>9, <1>10, <1>11 DEF ClientProgress
<1>12. ASSUME Server PROVE WireInv'
  <2>1. CASE TakeRequest
    BY <1>5, <2>1
  <2>2. CASE GiveUpRequest
    BY <1>3, <2>2 DEF GiveUpRequest
  <2>3. CASE TrackerStep /\ UNCHANGED clientVars
    BY <1>1, <2>3
  <2> QED
    BY <1>12, <2>1, <2>2, <2>3 DEF Server
<1>13. ASSUME Recv(-1) PROVE WireInv'
  BY <1>8, <1>13
<1>14. ASSUME TableMove, UNCHANGED clientVars PROVE WireInv'
  BY <1>3, <1>14
<1> QED
  BY <1>4, <1>6, <1>11, <1>12, <1>13, <1>14 DEF GpNext, Ended

-----------------------------------------------------------------------------
\* The three invariants hold in every reachable state.
THEOREM AnswerInvariant == GpSpec => [](AskInv /\ BodyInv /\ WireInv)
<1>1. GpInit => AskInv /\ BodyInv /\ WireInv
  BY InitAskInv, InitBodyInv, InitWireInv
<1>2. GpInv /\ (AskInv /\ BodyInv /\ WireInv) /\ [GpNext]_gpVars => (AskInv /\ BodyInv /\ WireInv)'
  BY AskStep, BodyStep, WireStep
<1> QED
  BY <1>1, <1>2, GpInvariant, PTL DEF GpSpec

\* What parseSocket() accepts as a hash fits into ar.info_hash with its
\* terminator, whatever the characters of the request.
THEOREM ParameterFits == GpSpec => []ParamFits
<1>1. AskInv => ParamFits
  BY HashLenAssumption DEF AskInv, HashOK, ParamFits, MAX_URLENC_HASH_LEN
<1> QED
  BY <1>1, AnswerInvariant, PTL

\* The torrent that getpeers asks for is the one that was typed, for every hash of
\* every length: the two codecs undo each other and the measuring in between.
THEOREM AsksForWhatWasTyped == GpSpec => []AsksForTyped
<1>1. AskInv => AsksForTyped
  BY DEF AskInv
<1> QED
  BY <1>1, AnswerInvariant, PTL

\* parse_url_destructive() finds host, port and path in every unambiguous URL,
\* whatever its path.
THEOREM UrlIsResolved == GpSpec => []UrlResolved
<1>1. AskInv => UrlResolved
  BY DEF AskInv, CommandOK, Asked, UrlResolved, Resolved
<1> QED
  BY <1>1, AnswerInvariant, PTL

\* The body is known by its pieces.
LEMMA BodyIs ==
  ASSUME GpInv, NEW x \in Seq(Pieces), Len(due) = 5 + Len(x), \A k \in 1..Len(x) : x[k] = due[5 + k]
  PROVE  Body = x
<1>1. due \in Seq(Pieces) /\ Len(due) \in Nat /\ Len(x) \in Nat
  BY LenProperties DEF GpInv, TrackerInv, SendOK
<1>2. 6 \in 1..(Len(due) + 1) /\ Len(due) \in 0..Len(due) /\ Len(x) = Len(due) - 6 + 1
  BY <1>1
<1>3. \A k \in 1..Len(x) : x[k] = due[6 + k - 1]
  <2>1. \A k \in 1..Len(x) : 6 + k - 1 = 5 + k
    BY <1>1
  <2> QED
    BY <2>1
<1>4. SubSeq(due, 6, Len(due)) = x
  BY <1>1, <1>2, <1>3, SliceIs
<1> QED
  BY <1>4 DEF Body

\* A list that is closed is one of the three that BodyWhole names.
LEMMA ClosedBody ==
  ASSUME GpInv, ListClosed
  PROVE  /\ \/ Body = <<"open">> \o [k \in 1..Len(listed) |-> "peer"] \o <<"close">>
            \/ compact /\ Body = <<"open", "str4", "close">>
            \/ compact /\ Body = <<"open", "str4", "str6", "close">>
         /\ Body[Len(Body)] = "close"
<1>1. Len(listed) \in Nat /\ compact \in BOOLEAN
  BY DEF GpInv, TrackerInv, ReplyTypeOK
<1>2. /\ "open" \in Pieces /\ "peer" \in Pieces /\ "close" \in Pieces
      /\ "str4" \in Pieces /\ "str6" \in Pieces
  BY DEF Pieces
<1>3. ASSUME ~compact, Len(due) = 7 + Len(listed), due[6] = "open",
             \A k \in 7..(Len(due) - 1) : due[k] = "peer", due[Len(due)] = "close"
      PROVE  /\ Body = <<"open">> \o [k \in 1..Len(listed) |-> "peer"] \o <<"close">>
             /\ Body[Len(Body)] = "close"
  <2> DEFINE n == Len(listed)
             p == [k \in 1..n |-> "peer"]
             u == <<"open">> \o p
             x == u \o <<"close">>
             a == <<"open">>
             z == <<"close">>
  <2>1. /\ a \in Seq(Pieces) /\ Len(a) = 1 /\ a[1] = "open" /\ z \in Seq(Pieces) /\ Len(z) = 1
        /\ z[1] = "close" /\ 1 \in 1..1 /\ \A j \in 1..1 : j = 1
    BY <1>2
  <2>2. p \in Seq(Pieces) /\ Len(p) = n /\ \A k \in 1..n : p[k] = "peer"
    BY <1>1, <1>2
  <2>3. u = a \o p /\ x = u \o z /\ n = Len(listed)
    OBVIOUS
  <2>n. n \in Nat /\ Len(due) = 7 + n
    BY <1>1, <1>3
  <2> HIDE DEF a, z, p, u, x, n
  <2>4. /\ u \in Seq(Pieces) /\ Len(u) = Len(a) + Len(p)
        /\ \A j \in 1..Len(a) : u[j] = a[j]
        /\ \A j \in 1..Len(p) : u[Len(a) + j] = p[j]
    <3>1. u = a \o p
      BY <2>3
    <3>2. a \in Seq(Pieces)
      BY <2>1
    <3>3. p \in Seq(Pieces)
      BY <2>2
    <3> QED
      BY <3>1, <3>2, <3>3, ConcatParts
  <2>5. /\ x \in Seq(Pieces) /\ Len(x) = Len(u) + Len(z)
        /\ \A j \in 1..Len(u) : x[j] = u[j]
        /\ \A j \in 1..Len(z) : x[Len(u) + j] = z[j]
    <3>1. x = u \o z
      BY <2>3
    <3>2. u \in Seq(Pieces)
      BY <2>4
    <3>3. z \in Seq(Pieces)
      BY <2>1
    <3> QED
      BY <3>1, <3>2, <3>3, ConcatParts
  <2>6. Len(u) = n + 1 /\ Len(x) = n + 2
    BY <2>n, <2>1, <2>2, <2>4, <2>5
  <2>7. x[n + 2] = "close"
    <3>1. x[Len(u) + 1] = z[1]
      BY <2>1, <2>5
    <3>2. Len(u) + 1 = n + 2
      BY <2>n, <2>6
    <3> QED
      BY <2>1, <3>1, <3>2
  <2>8. x[1] = "open"
    <3>1. 1 \in 1..Len(u)
      BY <2>n, <2>6
    <3> QED
      BY <2>1, <2>4, <2>5, <3>1
  <2>9. ASSUME NEW k \in 2..(n + 1) PROVE x[k] = "peer"
    <3> DEFINE j == k - 1
    <3>1. j \in 1..n /\ 1 + j = k /\ k \in 1..Len(u)
      BY <2>n, <2>6
    <3> HIDE DEF j
    <3>2. u[k] = p[j]
      BY <2>1, <2>2, <2>4, <3>1
    <3> QED
      BY <2>2, <2>5, <3>1, <3>2
  <2>10. ASSUME NEW k \in 1..Len(x) PROVE x[k] = due[5 + k]
    <3>1. CASE k = 1
      BY <1>3, <2>8, <3>1
    <3>2. CASE k = n + 2
      <4>1. 5 + k = Len(due)
        BY <2>n, <3>2
      <4> QED
        BY <1>3, <2>7, <3>2, <4>1
    <3>3. CASE k # 1 /\ k # n + 2
      <4>1. k \in 2..(n + 1) /\ 5 + k \in 7..(Len(due) - 1)
        BY <2>n, <2>6, <3>3
      <4> QED
        BY <1>3, <2>9, <4>1
    <3> QED
      BY <3>1, <3>2, <3>3
  <2>11. Len(due) = 5 + Len(x)
    BY <2>n, <2>6
  <2>12. Body = x
    BY <2>5, <2>10, <2>11, BodyIs
  <2>13. Body[Len(Body)] = "close"
    BY <2>6, <2>7, <2>12
  <2> QED
    BY <2>12, <2>13 DEF a, z, p, u, x, n
<1>4. ASSUME compact, Len(due) = 8, due[6] = "open", due[7] = "str4", due[8] = "close"
      PROVE  Body = <<"open", "str4", "close">> /\ Body[Len(Body)] = "close"
  <2> DEFINE x == <<"open", "str4", "close">>
  <2>1. /\ x \in Seq(Pieces) /\ Len(x) = 3 /\ x[1] = "open" /\ x[2] = "str4" /\ x[3] = "close"
        /\ \A k \in 1..3 : k = 1 \/ k = 2 \/ k = 3
    BY <1>2
  <2> HIDE DEF x
  <2>2. \A k \in 1..Len(x) : x[k] = due[5 + k]
    BY <1>4, <2>1
  <2>3. Len(due) = 5 + Len(x)
    BY <1>4, <2>1
  <2>4. Body = x
    BY <2>1, <2>2, <2>3, BodyIs
  <2> QED
    BY <2>1, <2>4 DEF x
<1>5. ASSUME compact, Len(due) = 9, due[6] = "open", due[7] = "str4", due[8] = "str6",
             due[9] = "close"
      PROVE  Body = <<"open", "str4", "str6", "close">> /\ Body[Len(Body)] = "close"
  <2> DEFINE x == <<"open", "str4", "str6", "close">>
  <2>1. /\ x \in Seq(Pieces) /\ Len(x) = 4 /\ x[1] = "open" /\ x[2] = "str4" /\ x[3] = "str6"
        /\ x[4] = "close" /\ \A k \in 1..4 : k = 1 \/ k = 2 \/ k = 3 \/ k = 4
    BY <1>2
  <2> HIDE DEF x
  <2>2. \A k \in 1..Len(x) : x[k] = due[5 + k]
    BY <1>5, <2>1
  <2>3. Len(due) = 5 + Len(x)
    BY <1>5, <2>1
  <2>4. Body = x
    BY <2>1, <2>2, <2>3, BodyIs
  <2> QED
    BY <2>1, <2>4 DEF x
<1> QED
  BY <1>3, <1>4, <1>5 DEF ListClosed

\* The answer to an announce is one whole dictionary, that to a scrape one
\* failure or its counts, and a peer is registered only after a whole list.
THEOREM BodyIsWhole == GpSpec => []BodyWhole
<1>1. GpInv /\ BodyInv => BodyWhole
  <2> SUFFICES ASSUME GpInv, BodyInv PROVE BodyWhole
    OBVIOUS
  <2>6. /\ Len(due) <= 5 => Body = <<>>
        /\ \A w \in {"failure", "counts"} : Len(due) = 6 /\ due[6] = w => Body = <<w>>
    <3>1. Len(due) \in Nat
      BY DEF GpInv, TrackerInv, SendOK
    <3>2. ASSUME Len(due) <= 5 PROVE Body = <<>>
      <4>1. 6 \in Int /\ Len(due) \in Int /\ Len(due) < 6
        BY <3>1, <3>2
      <4> QED
        BY <4>1, SubSeqEmpty DEF Body
    <3>3. ASSUME Len(due) = 6, NEW w \in {"failure", "counts"}, due[6] = w PROVE Body = <<w>>
      <4> DEFINE x == <<w>>
      <4>1. x \in Seq(Pieces) /\ Len(x) = 1 /\ x[1] = w /\ \A k \in 1..1 : k = 1
        BY DEF Pieces
      <4> HIDE DEF x
      <4>2. Len(due) = 5 + Len(x) /\ \A k \in 1..Len(x) : x[k] = due[5 + k]
        BY <3>3, <4>1
      <4>3. Body = x
        BY <4>1, <4>2, BodyIs
      <4> QED
        BY <4>3 DEF x
    <3> QED
      BY <3>2, <3>3
  <2>1. Short => Body \in {<<>>, <<"failure">>, <<"counts">>}
    BY <2>6 DEF Short
  <2>2. rpc = "closed" => Short \/ ListClosed
    BY DEF BodyInv, BodyOK
  <2>3. registered => ListClosed
    BY DEF BodyInv, BodyOK
  <2>4. ListClosed => path = "announce"
    <3>1. ListClosed => Len(due) >= 6 /\ due[6] = "open"
      BY DEF ListClosed, GpInv, TrackerInv, ReplyTypeOK
    <3> QED
      BY <3>1 DEF BodyInv, KnownOK
  <2>5. Short => Body \in {<<>>, <<"failure">>} \/ path = "scrape"
    <3>1. Short => Len(due) <= 5 \/ (Len(due) = 6 /\ due[6] = "failure") \/ path = "scrape"
      BY DEF Short, BodyInv, KnownOK
    <3> QED
      BY <2>6, <3>1
  <2> HIDE DEF Body
  <2>7. rpc = "closed" /\ path = "scrape" => Body \in {<<>>, <<"failure">>, <<"counts">>}
    BY <2>1, <2>2, <2>4
  <2>8. ListClosed =>
          /\ \/ Body = <<"open">> \o [k \in 1..Len(listed) |-> "peer"] \o <<"close">>
             \/ Body \in {<<"open", "str4", "close">>, <<"open", "str4", "str6", "close">>} /\ compact
          /\ Body[Len(Body)] = "close"
    BY ClosedBody
  <2>9. path = "scrape" => path # "announce"
    OBVIOUS
  <2> QED
    BY <2>2, <2>3, <2>5, <2>7, <2>8, <2>9 DEF BodyWhole
<1> QED
  BY <1>1, GpInvariant, AnswerInvariant, PTL

\* Peers are shown only of the torrent that was typed, or of whichever the lookup's
\* result code names.
THEOREM PeersAreOfTyped == GpSpec => []PeersOfTyped
<1>1. GpInv /\ AskInv /\ BodyInv /\ WireInv => PeersOfTyped
  <2> SUFFICES ASSUME GpInv, AskInv, BodyInv, WireInv, outcome = "peers", ~Has(Received, "cut")
               PROVE  /\ Has(due, "open")
                      /\ IF misread THEN torrentid \in ErrorCodes
                         ELSE ListedFor(hash) /\ (Proper(command.hash) => ListedFor(command.hash))
    BY Zenon DEF PeersOfTyped
  <2>1. got >= 6 /\ Len(due) >= 6 /\ (wire[6] = "cut" \/ due[6] = "open")
    BY DEF WireInv, ShownOK
  <2>2. got \in 0..Len(wire) /\ Len(wire) \in Nat /\ wire \in Seq(Pieces) /\ Len(due) \in Nat
    BY DEF GpInv, ClientInv, ClientTypeOK, TrackerInv, SendOK
  <2>3. Len(Received) = got /\ Received[6] = wire[6]
    <3>1. 6 \in 1..got
      BY <2>1, <2>2
    <3> QED
      BY <3>1, ReceivedFacts
  <2>4. wire[6] # "cut"
    <3>1. 6 \in 1..Len(Received)
      BY <2>1, <2>2, <2>3
    <3> QED
      BY <2>3, <3>1 DEF Has
  <2>5. due[6] = "open" /\ 6 \in 1..Len(due)
    BY <2>1, <2>2, <2>4
  <2>6. hash # <<>> /\ Right
    BY <2>1, <2>5 DEF BodyInv, KnownOK
  <2>7. hash_len > 0
    BY <2>6, HashLenAssumption DEF AskInv, HashOK, MAX_URLENC_HASH_LEN
  <2>8. Proper(command.hash) => command.hash = hash
    BY <2>7 DEF AskInv, AsksForTyped
  <2>9. Has(due, "open")
    BY <2>5 DEF Has
  <2> QED
    BY <2>6, <2>8, <2>9 DEF Right, ListedFor
<1> QED
  BY <1>1, GpInvariant, AnswerInvariant, PTL
=============================================================================
