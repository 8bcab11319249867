----------------------------- MODULE PeerStore -----------------------------
(***************************************************************************)
(* The tracker's database: every worker answers announces with track() and *)
(* records the peer with updatePeer(), over its own SQLite connection, and *)
(* main() prunes expired peers with prunePeers().  There is no transaction *)
(* around an announce: each statement commits by itself, so a step is one  *)
(* SQL statement or one gettimeofday(), and announces of several workers   *)
(* interleave with each other and with the pruning.                        *)
(*                                                                         *)
(* A row keeps what the statements of an announce and of the pruning       *)
(* compare: the torrent, the peer id and the expiry time.  The address,    *)
(* port, protocol, left and status are only stored and read back.  The     *)
(* peer list track() sends between looking up the torrent and updatePeer() *)
(* reads the table; when it fails track() returns, as Fail does.           *)
(***************************************************************************)
EXTENDS Integers, FiniteSets

CONSTANTS
  Workers,        \* worker threads, one database connection each
  Torrents,       \* ids of the rows of table torrents
  UnknownHash,    \* an info_hash that table torrents does not hold
  PeerIds,        \* peer_id values clients announce
  NoRequest,      \* content of req between announces
  Expire,         \* 3*announceInterval
  ErrorCodes,     \* SQLite result codes getTorrentId() has no case for
  MaxTime,        \* bound: ticks of the clock
  MaxAnnounces    \* bound: announces received

Events == {"NONE", "COMPLETED"}   \* STARTED and STOPPED are handled as NONE is

Hashes == Torrents \cup {UnknownHash}
Request == [hash : Hashes, peer_id : PeerIds, event : Events]

ASSUME WorkersAssumption == IsFiniteSet(Workers)
\* A result code may also be the id of a torrent: both are small numbers.
ASSUME TorrentsAssumption == Torrents \subseteq Int /\ ErrorCodes \subseteq Int
ASSUME UnknownHashAssumption == UnknownHash \notin Torrents
ASSUME NoRequestAssumption == NoRequest \notin Request
ASSUME ExpireAssumption == Expire \in Nat \ {0}
ASSUME BoundsAssumption == MaxTime \in Nat /\ MaxAnnounces \in Nat

VARIABLES
  peers,        \* table peers: row id -> row
  nextId,       \* next AUTOINCREMENT row id
  downloaded,   \* table torrents: downloaded
  now,          \* what gettimeofday() returns
  pc,           \* workers: next statement of track() / updatePeer()
  req,          \* workers: the ANNOUNCE_REQUEST
  torrentid,    \* workers: torrentid
  peer_row,     \* workers: peer_row
  time,         \* workers: time, read before INSERT or UPDATE
  ppc, ptime,   \* main(): pruning
  timeLast,     \* main(): time of the last pruning
  announces,    \* history: announces received
  owed,         \* history: completed downloads a torrent may count
  refreshed,    \* history: when the INSERT or last UPDATE of a row was committed
  lag           \* history: longest time from gettimeofday() to such a commit

tableVars == <<peers, nextId, downloaded>>
workerVars == <<pc, req, torrentid, peer_row, time>>
mainVars == <<ppc, ptime, timeLast>>
historyVars == <<announces, owed, refreshed, lag>>
vars == <<tableVars, now, workerVars, mainVars, historyVars>>

Row == [torrent : Torrents \cup ErrorCodes, peer_id : PeerIds, expires : Nat]
PCs == {"idle", "tid", "find", "addtime", "insert", "updtime", "update", "count"}

Rows == DOMAIN peers
\* QUERY_PEER_BY_ID
RowsOf(t, p) == {r \in Rows : peers[r].torrent = t /\ peers[r].peer_id = p}

Init ==
  /\ peers = [r \in {} |-> 0] /\ nextId = 1
  /\ downloaded = [t \in Torrents |-> 0]
  /\ now = 0
  /\ pc = [w \in Workers |-> "idle"]
  /\ req = [w \in Workers |-> NoRequest]
  /\ torrentid = [w \in Workers |-> 0] /\ peer_row = [w \in Workers |-> 0]
  /\ time = [w \in Workers |-> 0]
  /\ ppc = "idle" /\ ptime = 0 /\ timeLast = 0
  /\ announces = 0 /\ owed = [t \in Torrents |-> 0]
  /\ refreshed = [r \in {} |-> 0] /\ lag = 0

-----------------------------------------------------------------------------
(***************************************************************************)
(* track(): look the torrent up.                                           *)
(***************************************************************************)

Go(w, p, q) == pc[w] = p /\ pc' = [pc EXCEPT ![w] = q]

\* A download completed by an announce of h is one that torrent t may count.
Due(event, h, t) == IF event = "COMPLETED" /\ h = t THEN 1 ELSE 0

\* parseSocket() has a complete announce.
Receive(w, r) ==
  /\ announces < MaxAnnounces
  /\ Go(w, "idle", "tid")
  /\ req' = [req EXCEPT ![w] = r]
  /\ announces' = announces + 1
  /\ owed' = [t \in Torrents |-> owed[t] + Due(r.event, r.hash, t)]
  /\ UNCHANGED <<tableVars, now, torrentid, peer_row, time, mainVars, refreshed, lag>>

\* Mutant: the request outlives track().
FinishKeepRequest(w, p) == Go(w, p, "idle") /\ UNCHANGED <<req, torrentid, peer_row, time>>

\* track() returns: the worker forgets the request.
Finish(w, p) ==
  /\ Go(w, p, "idle")
  /\ req' = [req EXCEPT ![w] = NoRequest]
  /\ torrentid' = [torrentid EXCEPT ![w] = 0]
  /\ peer_row' = [peer_row EXCEPT ![w] = 0]
  /\ time' = [time EXCEPT ![w] = 0]

\* getTorrentId(): the id, a result code it mistakes for one, which then owns
\* the download the announce completes, or DB_NOSUCHHASH.
GetTorrentId(w) ==
  /\ \/ /\ Go(w, "tid", "find") /\ req[w].hash \in Torrents
        /\ torrentid' = [torrentid EXCEPT ![w] = req[w].hash]
        /\ UNCHANGED <<req, peer_row, time, owed>>
     \/ \E c \in ErrorCodes :
          /\ Go(w, "tid", "find")
          /\ torrentid' = [torrentid EXCEPT ![w] = c]
          /\ owed' = [t \in Torrents |-> owed[t] - Due(req[w].event, req[w].hash, t)
                                                + Due(req[w].event, c, t)]
          /\ UNCHANGED <<req, peer_row, time>>
     \/ Finish(w, "tid") /\ req[w].hash \notin Torrents /\ UNCHANGED owed
  /\ UNCHANGED <<tableVars, now, mainVars, announces, refreshed, lag>>

-----------------------------------------------------------------------------
(***************************************************************************)
(* updatePeer() and addPeer().                                             *)
(***************************************************************************)

\* Mutant: the peer is added without looking whether it is there.
FindPeerNever(w) ==
  /\ Go(w, "find", "addtime")
  /\ UNCHANGED <<tableVars, now, req, torrentid, peer_row, time, mainVars, historyVars>>

\* QUERY_PEER_BY_ID: the first row, or none.
FindPeer(w) ==
  /\ pc[w] = "find"
  /\ LET found == RowsOf(torrentid[w], req[w].peer_id)
     IN \/ \E r \in found : /\ Go(w, "find", "updtime")
                           /\ peer_row' = [peer_row EXCEPT ![w] = r]
        \/ found = {} /\ Go(w, "find", "addtime") /\ UNCHANGED peer_row
  /\ UNCHANGED <<tableVars, now, req, torrentid, time, mainVars, historyVars>>

\* gettimeofday(), in addPeer() and in updatePeer().
ReadTime(w) ==
  /\ Go(w, "addtime", "insert") \/ Go(w, "updtime", "update")
  /\ time' = [time EXCEPT ![w] = now]
  /\ UNCHANGED <<tableVars, now, req, torrentid, peer_row, mainVars, historyVars>>

\* Mutant: PRIMARY KEY without AUTOINCREMENT, which reuses freed row ids.
ReusedId == CHOOSE n \in 1..nextId : n \notin Rows /\ \A r \in Rows : r < n

\* PRIMARY KEY AUTOINCREMENT: a row id is never reused.
NewId == nextId

\* w commits an expiry time that it read some time ago.
Wait(w) == IF now - time[w] > lag THEN now - time[w] ELSE lag

\* ADD_TORRENT_PEER, then updatePeer() calls itself.
AddPeer(w) ==
  /\ Go(w, "insert", "find")
  /\ peers' = [r \in Rows \cup {NewId} |->
       IF r = NewId
         THEN [torrent |-> torrentid[w], peer_id |-> req[w].peer_id,
               expires |-> time[w]]
         ELSE peers[r]]
  /\ nextId' = nextId + 1
  /\ time' = [time EXCEPT ![w] = 0]
  /\ refreshed' = [r \in Rows \cup {NewId} |-> IF r = NewId THEN now ELSE refreshed[r]]
  /\ lag' = Wait(w)
  /\ UNCHANGED <<downloaded, now, req, torrentid, peer_row, mainVars, announces, owed>>

\* Mutant: every update counts as a completed download.
UpdatePeerAlwaysCount(w) ==
  /\ peers' = [r \in Rows |->
       IF r = peer_row[w] THEN [peers[r] EXCEPT !.expires = time[w]] ELSE peers[r]]
  /\ refreshed' = [r \in Rows |-> IF r = peer_row[w] THEN now ELSE refreshed[r]]
  /\ lag' = Wait(w)
  /\ Go(w, "update", "count")
  /\ UNCHANGED <<nextId, downloaded, now, req, torrentid, peer_row, time, mainVars, announces, owed>>

\* UPDATE_PEER_DATA ... WHERE id=peer_row succeeds even when it finds no row.
UpdatePeer(w) ==
  /\ peers' = [r \in Rows |->
       IF r = peer_row[w] THEN [peers[r] EXCEPT !.expires = time[w]] ELSE peers[r]]
  /\ IF pc[w] = "update" /\ req[w].event = "COMPLETED"
       THEN Go(w, "update", "count") /\ UNCHANGED <<req, torrentid, peer_row, time>>
       ELSE Finish(w, "update")
  /\ refreshed' = [r \in Rows |-> IF r = peer_row[w] THEN now ELSE refreshed[r]]
  /\ lag' = Wait(w)
  /\ UNCHANGED <<nextId, downloaded, now, mainVars, announces, owed>>

\* INCREASE_COMPLETION_COUNT
IncreaseCount(w) ==
  /\ Finish(w, "count")
  /\ downloaded' = [t \in Torrents |->
       IF t = torrentid[w] THEN downloaded[t] + 1 ELSE downloaded[t]]
  /\ UNCHANGED <<peers, nextId, now, mainVars, historyVars>>

\* A statement cannot be prepared or bound, times out (SQLITE_BUSY) or fails:
\* track() and updatePeer() return, and what is already committed stays.
Fail(w) ==
  /\ \E p \in PCs \ {"idle"} : Finish(w, p)
  /\ UNCHANGED <<tableVars, now, mainVars, historyVars>>

-----------------------------------------------------------------------------
(***************************************************************************)
(* main(): prunePeers() when 3*announceInterval has passed.                *)
(***************************************************************************)

PruneDue ==
  /\ ppc = "idle" /\ now - timeLast >= Expire
  /\ timeLast' = now /\ ppc' = "time"
  /\ UNCHANGED <<tableVars, now, workerVars, ptime, historyVars>>

PruneTime ==
  /\ ppc = "time" /\ ppc' = "delete" /\ ptime' = now
  /\ UNCHANGED <<tableVars, now, workerVars, timeLast, historyVars>>

\* Mutant: the interval is not subtracted.
ExpiredNow(r) == peers[r].expires < ptime

\* QUERY_PRUNE_PEERS: rows with expires < time - expireInterval.
Expired(r) == peers[r].expires < ptime - Expire

PrunePeers ==
  /\ ppc = "delete" /\ ppc' = "idle" /\ ptime' = 0
  /\ \/ LET kept == {r \in Rows : ~Expired(r)}
        IN /\ peers' = [r \in kept |-> peers[r]]
           /\ refreshed' = [r \in kept |-> refreshed[r]]
     \/ UNCHANGED <<peers, refreshed>>     \* SQLITE_BUSY, SQLITE_ERROR
  /\ UNCHANGED <<nextId, downloaded, now, workerVars, timeLast, announces, owed, lag>>

Tick ==
  /\ now < MaxTime /\ now' = now + 1
  /\ UNCHANGED <<tableVars, workerVars, mainVars, historyVars>>

-----------------------------------------------------------------------------
\* All workers wait for requests, of which the bound allows no more.
Quiet ==
  /\ announces = MaxAnnounces /\ \A w \in Workers : pc[w] = "idle"
  /\ UNCHANGED vars

WorkerStep(w) ==
  \/ GetTorrentId(w) \/ FindPeer(w) \/ ReadTime(w) \/ AddPeer(w)
  \/ UpdatePeer(w) \/ IncreaseCount(w) \/ Fail(w)

Next ==
  \/ \E w \in Workers : WorkerStep(w) \/ \E r \in Request : Receive(w, r)
  \/ PruneDue \/ PruneTime \/ PrunePeers
  \/ Tick
  \/ Quiet

Spec == Init /\ [][Next]_vars

\* A worker's statements return: SQLite gives up after its busy timeout.
FairSpec == Spec /\ \A w \in Workers : WF_vars(WorkerStep(w))

-----------------------------------------------------------------------------
(***************************************************************************)
(* Properties.                                                             *)
(***************************************************************************)

\* Every variable has its type.
TypeOK ==
  /\ nextId \in Nat \ {0} /\ Rows \subseteq 1..(nextId - 1)
  /\ \A r \in Rows : peers[r] \in Row
  /\ downloaded \in [Torrents -> Nat] /\ owed \in [Torrents -> Int]
  /\ refreshed \in [Rows -> Nat] /\ lag \in Nat
  /\ now \in Nat /\ announces \in Nat
  /\ pc \in [Workers -> PCs]
  /\ req \in [Workers -> Request \cup {NoRequest}]
  /\ \A w \in Workers : pc[w] = "idle" <=> req[w] = NoRequest
  /\ torrentid \in [Workers -> Torrents \cup ErrorCodes \cup {0}]
  /\ peer_row \in [Workers -> Nat] /\ time \in [Workers -> Nat]
  /\ ppc \in {"idle", "time", "delete"} /\ ptime \in Nat /\ timeLast \in Nat

\* Workers that have found no row for peer p of torrent t and will add one.
Adding(t, p) == {w \in Workers : /\ pc[w] \in {"addtime", "insert"}
                                 /\ torrentid[w] = t /\ req[w].peer_id = p}

\* A peer is registered at most once per worker: the rows it has and the rows
\* about to be added for it never outnumber the workers, however its announces
\* interleave with each other and with the pruning.
DuplicatesBounded ==
  \A t \in Torrents \cup ErrorCodes, p \in PeerIds :
    Cardinality(RowsOf(t, p)) + Cardinality(Adding(t, p)) <= Cardinality(Workers)

\* UPDATE ... WHERE id=peer_row refreshes a row of the announcing peer or no row
\* at all, never another peer's, even if the row found was pruned meanwhile.
UpdatesOwnRow ==
  \A w \in Workers :
    pc[w] \in {"updtime", "update"} /\ peer_row[w] \in Rows =>
      /\ peers[peer_row[w]].torrent = torrentid[w]
      /\ peers[peer_row[w]].peer_id = req[w].peer_id

\* The torrent a worker takes its announce to be about.
Subject(w) == IF pc[w] = "tid" THEN req[w].hash ELSE torrentid[w]

\* Announces of a completed download that may still be counted for t.
Uncounted(t) == {w \in Workers : /\ pc[w] # "idle" /\ req[w].event = "COMPLETED"
                                 /\ Subject(w) = t}

\* A completed download is counted at most once and for one torrent only: the
\* one announced or, if the lookup failed with a result code that is the id of
\* another torrent, that one instead.  updatePeer() calls itself and may fail at
\* any statement.
CountedOnce ==
  \A t \in Torrents : downloaded[t] + Cardinality(Uncounted(t)) <= owed[t]

\* Pruning removes no row before Expire has passed since the commit that last
\* refreshed it, but for the longest time an announce has waited between its
\* gettimeofday() and that commit: a worker that waits for the database stores
\* an old time, over a newer one of another worker even, but none older.
PrunesExpired ==
  [][\A r \in Rows \ Rows' : refreshed[r] < now - Expire + lag]_vars

\* A peer has one row per torrent: updatePeer() adds it only if it is missing.
OneRowPerPeer ==
  \A t \in Torrents \cup ErrorCodes, p \in PeerIds : Cardinality(RowsOf(t, p)) <= 1

\* Every row refers to a torrent.
RowsReference == \A r \in Rows : peers[r].torrent \in Torrents
=============================================================================
