-------------------------------- MODULE Reply --------------------------------
(***************************************************************************)
(* What the tracker answers to one announce or scrape: the info_hash is    *)
(* cut out of the query string, decoded and looked up, the peer list or    *)
(* the counts are read row by row, and everything is pushed to the socket  *)
(* in pieces by reallySend(), which sends once and whose result nobody     *)
(* looks at.                                                               *)
(*                                                                         *)
(* A piece is the argument of one reallySend(); of the peers, what track() *)
(* tells apart is kept.  When the request is polled and when it is refused *)
(* are in Request, the table under concurrent announces in PeerStore.      *)
(***************************************************************************)
EXTENDS Codec, FiniteSets

CONSTANTS
  MAXPEERS_SENT,
  IntMod,        \* 2^32: values of an int
  Texts,         \* what may follow "info_hash=" in a request
  Known,         \* hashes in table torrents
  TorrentId,     \* their ids
  ErrorCodes,    \* SQLite result codes that db.c has no case for, small numbers
  NumwantArgs,   \* values of numwant=, 0 if it is missing
  RowLists,      \* what QUERY_TORRENT_PEERS may return
  MaxMoves,      \* bound: rows that change during a scrape
  Lossy          \* whether a send may fail, or be cut short by a signal

ASSUME TextsAssumption == Texts \subseteq Seq(0..255)
ASSUME MaxPeersAssumption == MAXPEERS_SENT \in Nat \ {0}
ASSUME IntModAssumption == IntMod \in Nat \ {0}
ASSUME TorrentIdAssumption == TorrentId \in [Known -> Nat] /\ ErrorCodes \subseteq Nat
ASSUME NumwantAssumption == NumwantArgs \subseteq Int
ASSUME ReplyBoundsAssumption == MaxMoves \in Nat /\ Lossy \in BOOLEAN

VARIABLES
  rpc,           \* control point of parseSocket(), track() or scrape()
  path, hash,    \* the request: "announce" or "scrape", and ar.info_hash
  hash_len,      \* length of the parameter that was copied there
  numwant, compact,          \* ar.numwant, ar.compact
  torrentid,     \* what getTorrentId() returned
  misread,       \* history: it is a result code of the lookup
  rows, error, i,            \* rows of queryPeers; error and i of the loop
  listed, pos4, pos6,        \* rows put into the reply; sizes of buf4 and buf6
  registered,    \* history: updatePeer() was called
  seeds, fresh, leeches,     \* peers of the torrent: left=0, left still at its
                             \* default, left#0
  downloaded,    \* table torrents: downloaded
  counts,        \* results of a scrape's queries
  failed, moves, \* history: those that failed; rows changed since it began
  due, wire,     \* history: pieces passed to reallySend(); what has left
  conn, cutoff   \* the connection; history: a send was cut short by a signal

requestVars == <<path, hash, hash_len, numwant, compact, torrentid, misread>>
listVars == <<rows, error, i, listed, pos4, pos6, registered>>
tableVars == <<seeds, fresh, leeches, downloaded>>
scrapeVars == <<tableVars, counts, failed, moves>>
netVars == <<due, wire, conn, cutoff>>
replyVars == <<rpc, requestVars, listVars, scrapeVars, netVars>>

RowKinds == {"self", "v4", "v6", "bad"}   \* bad: inet_pton() cannot read its ip
\* LIMIT 50
ASSUME RowListsAssumption ==
  RowLists \subseteq Seq(RowKinds) /\ \A list \in RowLists : Len(list) <= MAXPEERS_SENT
Queries == {"complete", "downloaded", "incomplete"}
Unread == -2
ReplyPCs == {"idle", "headers", "lookup", "prepare", "rows", "str4", "str6", "close",
             "register", "count", "done", "closed"}

ReplyInit ==
  /\ rpc = "idle" /\ path = "announce" /\ hash = <<>> /\ hash_len = 0
  /\ numwant = 0 /\ compact = FALSE /\ torrentid = 0 /\ misread = FALSE
  /\ rows = <<>> /\ error = "ROW" /\ i = 0
  /\ listed = <<>> /\ pos4 = 0 /\ pos6 = 0 /\ registered = FALSE
  /\ seeds = 1 /\ fresh = 0 /\ leeches = 1 /\ downloaded = 1
  /\ counts = [q \in Queries |-> Unread] /\ failed = {} /\ moves = 0
  /\ due = <<>> /\ wire = <<>> /\ conn = "up" /\ cutoff = FALSE

-----------------------------------------------------------------------------
(***************************************************************************)
(* Sending.                                                                *)
(***************************************************************************)

RGo(p, q) == rpc = p /\ rpc' = q

\* reallySend(): all of it goes out, a signal cuts it short and leaves the
\* connection usable, or the connection is broken.  (Bound: one cut.)
reallySend(piece) ==
  /\ due' = Append(due, piece)
  /\ \/ conn = "up" /\ wire' = Append(wire, piece) /\ UNCHANGED <<conn, cutoff>>
     \/ /\ Lossy /\ conn = "up" /\ ~cutoff
        /\ wire' = Append(wire, "cut") /\ cutoff' = TRUE /\ UNCHANGED conn
     \/ Lossy /\ conn = "up" /\ conn' = "down" /\ UNCHANGED <<wire, cutoff>>
     \/ conn = "down" /\ UNCHANGED <<wire, conn, cutoff>>

\* sendHttpHeaders() is five sends.
Headers(code) == <<"proto", code, "crlf", "extra", "blank">>

SendHeaders ==
  /\ rpc = "headers"
  /\ reallySend(Headers(IF hash = <<>> THEN "400" ELSE "200")[Len(due) + 1])
  /\ rpc' = IF Len(due) < 4 THEN "headers" ELSE IF hash = <<>> THEN "done" ELSE "lookup"
  /\ UNCHANGED <<requestVars, listVars, scrapeVars>>

-----------------------------------------------------------------------------
(***************************************************************************)
(* The request.                                                            *)
(***************************************************************************)

\* Mutant: the parameter is measured as it stands.
AcceptedUndecoded(text) == httpParamLength(text) \in HashLen..(4 * HashLen)

\* decodedStrlen(hash,hash_len)==MAX_HASH_LEN
Accepted(text) == decodedStrlen(text, httpParamLength(text)) = HashLen

\* The parameter in a buffer of zeroes, decoded in place and hex-encoded,
\* whether or not it could be decoded.
LookupKey(text) ==
  hashEncodeHex(destructiveURLDecode(SubSeq(text, 1, httpParamLength(text))).buf)

\* strtoul() into an int, then the clamp.
ToInt(n) ==
  LET u == n % IntMod IN IF u < IntMod \div 2 THEN u ELSE u - IntMod

\* Mutant: the value is clamped before it is narrowed.
ClampedEarly(n) == ToInt(IF n > MAXPEERS_SENT + IntMod THEN MAXPEERS_SENT ELSE n)

Clamped(n) ==
  IF ToInt(n) > MAXPEERS_SENT \/ ToInt(n) <= 0 THEN MAXPEERS_SENT ELSE ToInt(n)

\* parseSocket() has the request line.  A hash of the wrong length is refused in
\* the last round (see Request), for a scrape by closing without an answer.
ReceiveRequest(text) ==
  /\ path' \in {"announce", "scrape"}
  /\ RGo("idle", IF path' = "announce" \/ Accepted(text) THEN "headers" ELSE "done")
  /\ hash' = IF Accepted(text) THEN LookupKey(text) ELSE <<>>
  /\ hash_len' = httpParamLength(text)
  /\ \E n \in NumwantArgs : numwant' = Clamped(n)
  /\ compact' \in BOOLEAN
  /\ path' = "scrape" => numwant' = Clamped(0) /\ ~compact'
  /\ UNCHANGED <<torrentid, misread, listVars, scrapeVars, netVars>>

\* Mutant: no return after the failure has been sent.
FailAndGoOn ==
  /\ rpc' = (IF rpc = "lookup" THEN "prepare" ELSE "rows") /\ reallySend("failure")
  /\ UNCHANGED <<requestVars, listVars, scrapeVars>>

\* "failure reason", and return.
Fail ==
  /\ rpc' = "done" /\ reallySend("failure")
  /\ UNCHANGED <<requestVars, listVars, scrapeVars>>

\* getTorrentId() returns n, which track() and scrape() take for a torrent.
Found(n) ==
  /\ RGo("lookup", IF path = "announce" THEN "prepare" ELSE "count")
  /\ torrentid' = n
  /\ UNCHANGED <<path, hash, hash_len, numwant, compact, listVars, scrapeVars, netVars>>

\* Mutant: the switch has no case for an unknown hash, DB_NOSUCHHASH is -2.
LookupUnknown ==
  \/ hash \in Known /\ Found(TorrentId[hash]) /\ UNCHANGED misread
  \/ hash \notin Known /\ Found(-2) /\ UNCHANGED misread
  \/ rpc = "lookup" /\ Fail

\* getTorrentId() finds the torrent or returns a result code it has no case for,
\* whatever the hash; or it reports a failure, even for a torrent that exists.
Lookup ==
  \/ hash \in Known /\ Found(TorrentId[hash]) /\ UNCHANGED misread
  \/ \E c \in ErrorCodes : Found(c) /\ misread' = TRUE
  \/ rpc = "lookup" /\ Fail

-----------------------------------------------------------------------------
(***************************************************************************)
(* track(): the peer list.                                                 *)
(***************************************************************************)

\* QUERY_TORRENT_PEERS: the torrent's peers in random order.
Prepare ==
  \/ rpc = "prepare" /\ Fail
  \/ /\ RGo("prepare", "rows") /\ reallySend("open")
     /\ rows' \in RowLists
     /\ UNCHANGED <<requestVars, error, i, listed, pos4, pos6, registered, scrapeVars>>

InLoop == rpc = "rows" /\ error = "ROW" /\ i < numwant

\* sqlite3_step() returns no row: the list ends here, also after an error.
EndOfRows ==
  /\ InLoop
  /\ \/ i = Len(rows) /\ error' = "DONE"
     \/ error' = "FAILED"
  /\ i' = i + 1
  /\ UNCHANGED <<rpc, requestVars, rows, listed, pos4, pos6, registered, scrapeVars, netVars>>

\* Mutant: break where the code has continue.
SkipRest ==
  /\ InLoop /\ i < Len(rows)
  /\ rows[i + 1] = "self" \/ (compact /\ rows[i + 1] = "bad")
  /\ i' = numwant
  /\ UNCHANGED <<rpc, requestVars, rows, error, listed, pos4, pos6, registered, scrapeVars,
                 netVars>>

\* The peer itself, or an address inet_pton() rejects: continue, which counts.
SkipRow ==
  /\ InLoop /\ i < Len(rows)
  /\ rows[i + 1] = "self" \/ (compact /\ rows[i + 1] = "bad")
  /\ i' = i + 1
  /\ UNCHANGED <<rpc, requestVars, rows, error, listed, pos4, pos6, registered, scrapeVars,
                 netVars>>

\* A peer dictionary of its own.
PushRow ==
  /\ InLoop /\ i < Len(rows) /\ ~compact /\ rows[i + 1] # "self"
  /\ reallySend("peer")
  /\ listed' = Append(listed, i + 1) /\ i' = i + 1
  /\ UNCHANGED <<rpc, requestVars, rows, error, pos4, pos6, registered, scrapeVars>>

\* Mutant: sizeof(sin6).
PackRowWhole ==
  /\ InLoop /\ i < Len(rows) /\ compact /\ rows[i + 1] \in {"v4", "v6"}
  /\ pos4' = IF rows[i + 1] = "v4" THEN pos4 + 6 ELSE pos4
  /\ pos6' = IF rows[i + 1] = "v6" THEN pos6 + 30 ELSE pos6
  /\ listed' = Append(listed, i + 1) /\ i' = i + 1
  /\ UNCHANGED <<rpc, requestVars, rows, error, registered, scrapeVars, netVars>>

\* Address and port into buf4 or buf6: 4+2 or 16+2 bytes.
PackRow ==
  /\ InLoop /\ i < Len(rows) /\ compact /\ rows[i + 1] \in {"v4", "v6"}
  /\ pos4' = IF rows[i + 1] = "v4" THEN pos4 + 6 ELSE pos4
  /\ pos6' = IF rows[i + 1] = "v6" THEN pos6 + 18 ELSE pos6
  /\ listed' = Append(listed, i + 1) /\ i' = i + 1
  /\ UNCHANGED <<rpc, requestVars, rows, error, registered, scrapeVars, netVars>>

EndLoop ==
  /\ ~InLoop /\ RGo("rows", IF compact THEN "str4" ELSE "close")
  /\ UNCHANGED <<requestVars, listVars, scrapeVars, netVars>>

\* The compact strings, buf6 only if it is not empty, and the end of the dict.
SendRest ==
  /\ \/ RGo("str4", IF pos6 > 0 THEN "str6" ELSE "close")
     \/ RGo("str6", "close") \/ RGo("close", "register")
  /\ reallySend(rpc)
  /\ UNCHANGED <<requestVars, listVars, scrapeVars>>

\* updatePeer(), see PeerStore.
Register ==
  /\ RGo("register", "done") /\ registered' = TRUE
  /\ UNCHANGED <<requestVars, rows, error, i, listed, pos4, pos6, scrapeVars, netVars>>

-----------------------------------------------------------------------------
(***************************************************************************)
(* scrape(): the counts, while other workers change the table.             *)
(***************************************************************************)

\* Mutant: GET_PEERS_COUNT without left!=0.
CountOfAll(q) ==
  CASE q = "complete" -> seeds + fresh
    [] q = "downloaded" -> downloaded
    [] OTHER -> leeches + seeds + fresh

\* GET_SEED_COUNT (left=0, which is also the default), GET_COMPLETION_COUNT and
\* GET_PEERS_COUNT.
CountOf(q) ==
  CASE q = "complete" -> seeds + fresh
    [] q = "downloaded" -> downloaded
    [] OTHER -> leeches

\* The queries are arguments of one snprintf(), evaluated in any order; one that
\* fails yields -1 or the result code.
Count(q) ==
  /\ rpc = "count" /\ counts[q] = Unread
  /\ \/ counts' = [counts EXCEPT ![q] = CountOf(q)] /\ UNCHANGED failed
     \/ \E v \in ErrorCodes \cup {-1} : /\ counts' = [counts EXCEPT ![q] = v]
                                       /\ failed' = failed \cup {q}
  /\ UNCHANGED <<rpc, requestVars, listVars, tableVars, moves, netVars>>

\* One send of the format of track.c:188.  It opens a dictionary whose second key
\* would be another dictionary: a 'd' is missing after "5:files".
SendCounts ==
  /\ RGo("count", "done") /\ \A q \in Queries : counts[q] # Unread
  /\ reallySend("counts")
  /\ UNCHANGED <<requestVars, listVars, scrapeVars>>

\* Another worker's INSERT, which leaves left at its default.
InsertMove == fresh' = fresh + 1 /\ UNCHANGED <<seeds, leeches, downloaded>>

\* Another worker's UPDATE of left, or of the torrent's downloaded.
UpdateMove ==
  \/ fresh > 0 /\ fresh' = fresh - 1 /\ seeds' = seeds + 1 /\ UNCHANGED <<leeches, downloaded>>
  \/ fresh > 0 /\ fresh' = fresh - 1 /\ leeches' = leeches + 1 /\ UNCHANGED <<seeds, downloaded>>
  \/ leeches > 0 /\ leeches' = leeches - 1 /\ seeds' = seeds + 1 /\ UNCHANGED <<fresh, downloaded>>
  \/ seeds > 0 /\ seeds' = seeds - 1 /\ leeches' = leeches + 1 /\ UNCHANGED <<fresh, downloaded>>
  \/ downloaded' = downloaded + 1 /\ UNCHANGED <<seeds, fresh, leeches>>

\* prunePeers(): one DELETE of n rows of the torrent.
PruneMove(n) ==
  /\ seeds' \in 0..seeds /\ fresh' \in 0..fresh /\ leeches' \in 0..leeches
  /\ seeds' + fresh' + leeches' + n = seeds + fresh + leeches
  /\ UNCHANGED downloaded

\* A commit while the counts are read.
TableMove ==
  /\ rpc = "count"
  /\ \E n \in 1..(MaxMoves - moves) :
       /\ moves' = moves + n
       /\ (n = 1 /\ (InsertMove \/ UpdateMove)) \/ PruneMove(n)
  /\ UNCHANGED <<rpc, requestVars, listVars, counts, failed, netVars>>

\* workerthread() closes the connection.
CloseReply ==
  /\ RGo("done", "closed")
  /\ UNCHANGED <<requestVars, listVars, scrapeVars, netVars>>

TrackerStep ==
  \/ SendHeaders \/ Lookup \/ Prepare \/ EndOfRows \/ SkipRow \/ PushRow \/ PackRow
  \/ EndLoop \/ SendRest \/ Register \/ SendCounts \/ CloseReply
  \/ \E q \in Queries : Count(q)

ReplyNext == (\E t \in Texts : ReceiveRequest(t)) \/ TrackerStep \/ TableMove
ReplySpec == ReplyInit /\ [][ReplyNext]_replyVars

-----------------------------------------------------------------------------
(***************************************************************************)
(* Properties.                                                             *)
(***************************************************************************)

\* Every variable has its type (of hash and hash_len, see ParamFits; of torrentid,
\* PeersOfTyped in Getpeers).
ReplyTypeOK ==
  /\ rpc \in ReplyPCs /\ path \in {"announce", "scrape"}
  /\ numwant \in 0..MAXPEERS_SENT /\ compact \in BOOLEAN /\ misread \in BOOLEAN
  /\ rows \in Seq(RowKinds) /\ Len(rows) <= MAXPEERS_SENT
  /\ error \in {"ROW", "DONE", "FAILED"} /\ i \in Nat
  /\ listed \in Seq(Nat) /\ pos4 \in Nat /\ pos6 \in Nat /\ registered \in BOOLEAN
  /\ seeds \in Nat /\ fresh \in Nat /\ leeches \in Nat /\ downloaded \in Nat
  /\ counts \in [Queries -> Int] /\ failed \subseteq Queries /\ moves \in Nat
  /\ conn \in {"up", "down"} /\ cutoff \in BOOLEAN

\* A parameter that parseSocket() accepts fits ar.info_hash with a terminator,
\* even when an escape at its end reaches into the next parameter.
ParamFits == hash # <<>> => hash_len <= MAX_URLENC_HASH_LEN

\* The compact strings never outgrow buf4, buf6 and buf: 1024 bytes hold 18 for
\* each of MAXPEERS_SENT=50 peers, whatever numwant= wraps to.
CompactFits == pos4 + pos6 <= 18 * i /\ i <= MAXPEERS_SENT

\* Rows that belong into the list: those among the first numwant that are not
\* the client's own and, if compact, have an address.
Wanted == {k \in 1..Len(rows) : /\ k <= numwant /\ rows[k] # "self"
                                /\ ~(compact /\ rows[k] = "bad")}

\* Unless the query fails, the list holds exactly the wanted rows, once each.
ListComplete ==
  rpc \in {"str4", "str6", "close", "register"} /\ error # "FAILED" =>
    /\ {listed[k] : k \in 1..Len(listed)} = Wanted
    /\ Len(listed) = Cardinality(Wanted)

Body == SubSeq(due, 6, Len(due))

\* The body of an announce is one whole dictionary: a failure, or a list that is
\* opened and closed once, with exactly the entries of its form; a peer is
\* registered only after a whole list.  A scrape is answered once, with a failure
\* or the counts, which are no legal dictionary (see SendCounts).
BodyWhole ==
  /\ rpc = "closed" /\ path = "scrape" => Body \in {<<>>, <<"failure">>, <<"counts">>}
  /\ rpc = "closed" /\ path = "announce" =>
       \/ Body \in {<<>>, <<"failure">>}
       \/ Body = <<"open">> \o [k \in 1..Len(listed) |-> "peer"] \o <<"close">>
       \/ Body \in {<<"open", "str4", "close">>, <<"open", "str4", "str6", "close">>} /\ compact
  /\ registered => Body[Len(Body)] = "close"

\* The table had v rows of a kind, or has them now, but for the rows changed.
Near(v, w) == v - w \in (-moves)..moves

\* The counts of a scrape are read by separate statements: unless a query fails,
\* each is off by at most one for every row changed meanwhile, and so is the sum
\* of both kinds of peers, although a peer may be counted twice or not at all.
\* Peers that were inserted and not yet updated are reported as seeds.
ScrapeOff ==
  rpc = "closed" /\ (\A q \in Queries : counts[q] # Unread) =>
    /\ "complete" \notin failed => Near(counts["complete"], seeds + fresh)
    /\ "incomplete" \notin failed => Near(counts["incomplete"], leeches)
    /\ "downloaded" \notin failed => counts["downloaded"] \in (downloaded - moves)..downloaded
    /\ {"complete", "incomplete"} \cap failed = {} =>
         Near(counts["complete"] + counts["incomplete"], seeds + fresh + leeches)
=============================================================================
