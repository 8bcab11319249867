--------------------------- MODULE PeerStoreProofs ---------------------------
(***************************************************************************)
(* Safety of the tracker's database for any set of workers, torrents, peer *)
(* ids and result codes, any expiry interval and any number of announces.  *)
(***************************************************************************)
EXTENDS PeerStore, TLAPS, FiniteSetTheorems

\* The worker knows which torrent its announce is about, or holds a result
\* code that it takes for a torrent.
AfterLookup == {"find", "addtime", "insert", "updtime", "update", "count"}

RequestOK ==
  \A w \in Workers :
    /\ pc[w] \in AfterLookup =>
         torrentid[w] \in ErrorCodes \/ (torrentid[w] \in Torrents /\ torrentid[w] = req[w].hash)
    /\ pc[w] = "count" => req[w].event = "COMPLETED"

\* A row that was found has an id below the next one, which is never reused.
RowOK == \A w \in Workers : pc[w] \in {"updtime", "update"} => peer_row[w] < nextId

\* The pruning threshold is not computed from a time to come.
PruneOK == ppc = "delete" => ptime <= now

\* No row has an expiry time older than its last refresh by more than lag.
FreshOK == \A r \in Rows : refreshed[r] - peers[r].expires <= lag

\* The inductive invariant.
StoreInv ==
  /\ TypeOK /\ RequestOK /\ RowOK /\ PruneOK /\ FreshOK
  /\ UpdatesOwnRow /\ DuplicatesBounded /\ CountedOnce

-----------------------------------------------------------------------------
(***************************************************************************)
(* Counting rows and workers.                                              *)
(***************************************************************************)

\* The table, the rows of a peer and the workers about to add one are finite.
LEMMA FiniteFacts ==
  ASSUME TypeOK, NEW t, NEW p
  PROVE  /\ IsFiniteSet(Rows) /\ IsFiniteSet(RowsOf(t, p)) /\ Cardinality(RowsOf(t, p)) \in Nat
         /\ IsFiniteSet(Adding(t, p)) /\ Cardinality(Adding(t, p)) \in Nat
         /\ IsFiniteSet(Uncounted(t)) /\ Cardinality(Uncounted(t)) \in Nat
         /\ Cardinality(Workers) \in Nat
<1>1. IsFiniteSet(Rows)
  <2>1. IsFiniteSet(1..(nextId - 1))
    BY FS_Interval DEF TypeOK
  <2> QED
    BY <2>1, FS_Subset DEF TypeOK
<1>2. RowsOf(t, p) \subseteq Rows /\ Adding(t, p) \subseteq Workers /\ Uncounted(t) \subseteq Workers
  BY DEF RowsOf, Adding, Uncounted
<1>3. IsFiniteSet(RowsOf(t, p)) /\ IsFiniteSet(Adding(t, p)) /\ IsFiniteSet(Uncounted(t))
  BY <1>1, <1>2, FS_Subset, WorkersAssumption
<1> QED
  BY <1>1, <1>3, FS_CardinalityType, WorkersAssumption

\* Rows only go away and nobody starts to add one.
LEMMA NoMoreRows ==
  ASSUME StoreInv,
         \A t, p : RowsOf(t, p)' \subseteq RowsOf(t, p) /\ Adding(t, p)' \subseteq Adding(t, p)
  PROVE  DuplicatesBounded'
<1> SUFFICES ASSUME NEW t \in Torrents \cup ErrorCodes, NEW p \in PeerIds
             PROVE  Cardinality(RowsOf(t, p)') + Cardinality(Adding(t, p)') <= Cardinality(Workers)
  BY DEF DuplicatesBounded
<1>1. /\ IsFiniteSet(RowsOf(t, p)) /\ IsFiniteSet(Adding(t, p)) /\ Cardinality(Workers) \in Nat
      /\ Cardinality(RowsOf(t, p)) \in Nat /\ Cardinality(Adding(t, p)) \in Nat
  BY FiniteFacts DEF StoreInv
<1>2. RowsOf(t, p)' \subseteq RowsOf(t, p) /\ Adding(t, p)' \subseteq Adding(t, p)
  OBVIOUS
<1>3. /\ Cardinality(RowsOf(t, p)') <= Cardinality(RowsOf(t, p)) /\ IsFiniteSet(RowsOf(t, p)')
      /\ Cardinality(Adding(t, p)') <= Cardinality(Adding(t, p)) /\ IsFiniteSet(Adding(t, p)')
  BY <1>1, <1>2, FS_Subset
<1>4. Cardinality(RowsOf(t, p)') \in Nat /\ Cardinality(Adding(t, p)') \in Nat
  BY <1>3, FS_CardinalityType
<1>5. Cardinality(RowsOf(t, p)) + Cardinality(Adding(t, p)) <= Cardinality(Workers)
  BY DEF StoreInv, DuplicatesBounded
<1> QED
  BY <1>1, <1>3, <1>4, <1>5

\* Nothing is counted and nobody starts to count.
LEMMA NoMoreCounting ==
  ASSUME StoreInv, UNCHANGED <<downloaded, owed>>,
         \A t \in Torrents : Uncounted(t)' \subseteq Uncounted(t)
  PROVE  CountedOnce'
<1> SUFFICES ASSUME NEW t \in Torrents
             PROVE  downloaded'[t] + Cardinality(Uncounted(t)') <= owed'[t]
  BY DEF CountedOnce
<1>1. IsFiniteSet(Uncounted(t)) /\ Cardinality(Uncounted(t)) \in Nat
  BY FiniteFacts DEF StoreInv
<1>2. Cardinality(Uncounted(t)') <= Cardinality(Uncounted(t)) /\ IsFiniteSet(Uncounted(t)')
  BY <1>1, FS_Subset
<1>3. Cardinality(Uncounted(t)') \in Nat
  BY <1>2, FS_CardinalityType
<1>4. /\ downloaded[t] + Cardinality(Uncounted(t)) <= owed[t]
      /\ downloaded[t] \in Nat /\ owed[t] \in Int
  BY DEF StoreInv, CountedOnce, TypeOK
<1> QED
  BY <1>1, <1>2, <1>3, <1>4

-----------------------------------------------------------------------------
(***************************************************************************)
(* Steps of a worker.                                                      *)
(***************************************************************************)

\* Worker w, and w alone, changes its local variables, within their types.
Moves(w) ==
  /\ pc' \in [Workers -> PCs]
  /\ req' \in [Workers -> Request \cup {NoRequest}]
  /\ pc'[w] = "idle" <=> req'[w] = NoRequest
  /\ torrentid' \in [Workers -> Torrents \cup ErrorCodes \cup {0}]
  /\ peer_row' \in [Workers -> Nat] /\ time' \in [Workers -> Nat]
  /\ \A v \in Workers \ {w} :
       /\ pc'[v] = pc[v] /\ req'[v] = req[v]
       /\ torrentid'[v] = torrentid[v] /\ peer_row'[v] = peer_row[v]

\* What w itself must respect after a step.
LocalOK(w) ==
  /\ pc'[w] \in AfterLookup =>
       torrentid'[w] \in ErrorCodes
         \/ (torrentid'[w] \in Torrents /\ torrentid'[w] = req'[w].hash)
  /\ pc'[w] = "count" => req'[w].event = "COMPLETED"
  /\ pc'[w] \in {"updtime", "update"} => peer_row'[w] < nextId

\* track() returns.
LEMMA FinishFacts ==
  ASSUME TypeOK, NEW w \in Workers, NEW p, Finish(w, p)
  PROVE  /\ pc[w] = p /\ pc'[w] = "idle" /\ Moves(w) /\ LocalOK(w)
         /\ \A t, q : Adding(t, q)' \subseteq Adding(t, q)
         /\ \A t : Uncounted(t)' \subseteq Uncounted(t) \ {w}
<1>1. /\ pc[w] = p /\ pc' = [pc EXCEPT ![w] = "idle"] /\ req' = [req EXCEPT ![w] = NoRequest]
      /\ torrentid' = [torrentid EXCEPT ![w] = 0] /\ peer_row' = [peer_row EXCEPT ![w] = 0]
      /\ time' = [time EXCEPT ![w] = 0]
  BY DEF Finish, Go
<1>2. pc'[w] = "idle" /\ \A v \in Workers \ {w} : pc'[v] = pc[v]
  BY <1>1 DEF TypeOK
<1>3. Moves(w)
  BY <1>1, <1>2 DEF TypeOK, Moves, PCs
<1>4. LocalOK(w)
  BY <1>2 DEF LocalOK, AfterLookup
<1>5. \A t, q : Adding(t, q)' \subseteq Adding(t, q)
  BY <1>2, <1>3 DEF Adding, Moves
<1>6. \A t : Uncounted(t)' \subseteq Uncounted(t) \ {w}
  BY <1>2, <1>3 DEF Uncounted, Subject, Moves
<1> QED
  BY <1>1, <1>2, <1>3, <1>4, <1>5, <1>6

\* A step of one worker keeps the types.
LEMMA MovesTypeOK ==
  ASSUME StoreInv, NEW w \in Workers, Moves(w), UNCHANGED <<now, mainVars, announces>>,
         nextId' \in Nat \ {0}, (Rows \subseteq 1..(nextId - 1))', \A r \in Rows' : peers'[r] \in Row,
         downloaded' \in [Torrents -> Nat], owed' \in [Torrents -> Int],
         refreshed' \in [Rows' -> Nat], lag' \in Nat
  PROVE  TypeOK'
<1>1. \A v \in Workers : pc'[v] = "idle" <=> req'[v] = NoRequest
  BY DEF Moves, StoreInv, TypeOK
<1> QED
  BY <1>1 DEF StoreInv, TypeOK, Moves, mainVars

\* A step of one worker keeps what is known of the requests and of the rows found.
LEMMA MovesRequestOK ==
  ASSUME StoreInv, NEW w \in Workers, Moves(w), LocalOK(w), nextId' \in Nat, nextId' >= nextId
  PROVE  RequestOK' /\ RowOK'
<1>1. RequestOK'
  BY DEF StoreInv, RequestOK, Moves, LocalOK
<1>2. \A v \in Workers : pc'[v] \in {"updtime", "update"} =>
         peer_row'[v] < nextId /\ peer_row'[v] \in Nat
  BY DEF StoreInv, RowOK, Moves, LocalOK
<1>3. nextId \in Nat
  BY DEF StoreInv, TypeOK
<1> QED
  BY <1>1, <1>2, <1>3 DEF RowOK

\* A step that does not touch the table and counts no download.
LEMMA LocalStep ==
  ASSUME StoreInv, NEW w \in Workers, Moves(w), LocalOK(w),
         UNCHANGED <<tableVars, now, mainVars, announces, refreshed, lag>>,
         owed' \in [Torrents -> Int], CountedOnce',
         pc'[w] \in {"updtime", "update"} /\ peer_row'[w] \in Rows =>
           /\ peers[peer_row'[w]].torrent = torrentid'[w]
           /\ peers[peer_row'[w]].peer_id = req'[w].peer_id,
         \A t, p : w \in Adding(t, p)' => w \in Adding(t, p) \/ RowsOf(t, p) = {}
  PROVE  StoreInv'
<1> USE DEF tableVars
<1>1. TypeOK'
  BY MovesTypeOK DEF StoreInv, TypeOK, Rows
<1>2. RequestOK' /\ RowOK'
  BY MovesRequestOK DEF StoreInv, TypeOK
<1>3. PruneOK' /\ FreshOK'
  BY DEF StoreInv, PruneOK, FreshOK, mainVars, Rows
<1>4. UpdatesOwnRow'
  BY DEF StoreInv, UpdatesOwnRow, Moves, Rows
<1>5. DuplicatesBounded'
  <2> SUFFICES ASSUME NEW t \in Torrents \cup ErrorCodes, NEW p \in PeerIds
               PROVE  Cardinality(RowsOf(t, p)') + Cardinality(Adding(t, p)')
                        <= Cardinality(Workers)
    BY DEF DuplicatesBounded
  <2>1. RowsOf(t, p)' = RowsOf(t, p)
    BY DEF RowsOf, Rows
  <2>2. /\ IsFiniteSet(Adding(t, p)) /\ Cardinality(Adding(t, p)) \in Nat
        /\ Cardinality(RowsOf(t, p)) \in Nat /\ Cardinality(Workers) \in Nat
    BY FiniteFacts DEF StoreInv
  <2>3. CASE Adding(t, p)' \subseteq Adding(t, p)
    <3>1. Cardinality(Adding(t, p)') <= Cardinality(Adding(t, p)) /\ IsFiniteSet(Adding(t, p)')
      BY <2>2, <2>3, FS_Subset
    <3>2. Cardinality(Adding(t, p)') \in Nat
      BY <3>1, FS_CardinalityType
    <3>3. Cardinality(RowsOf(t, p)) + Cardinality(Adding(t, p)) <= Cardinality(Workers)
      BY DEF StoreInv, DuplicatesBounded
    <3> QED
      BY <2>1, <2>2, <3>1, <3>2, <3>3
  <2>4. CASE RowsOf(t, p) = {}
    <3>1. Adding(t, p)' \subseteq Workers
      BY DEF Adding
    <3>2. Cardinality(Adding(t, p)') <= Cardinality(Workers) /\ IsFiniteSet(Adding(t, p)')
      BY <3>1, FS_Subset, WorkersAssumption
    <3>3. Cardinality(Adding(t, p)') \in Nat
      BY <3>2, FS_CardinalityType
    <3>4. Cardinality(RowsOf(t, p)') = 0
      BY <2>1, <2>4, FS_EmptySet
    <3> QED
      BY <2>2, <3>2, <3>3, <3>4
  <2>5. \A v \in Workers \ {w} : v \in Adding(t, p)' => v \in Adding(t, p)
    BY DEF Adding, Moves
  <2>6. Adding(t, p)' \subseteq Workers
    BY DEF Adding
  <2> QED
    BY <2>3, <2>4, <2>5, <2>6
<1> QED
  BY <1>1, <1>2, <1>3, <1>4, <1>5 DEF StoreInv

\* A step of w that leaves the counts alone and does not make w count.
LEMMA SameCount ==
  ASSUME StoreInv, NEW w \in Workers, Moves(w), UNCHANGED <<downloaded, owed>>,
         \A t : w \in Uncounted(t)' => w \in Uncounted(t)
  PROVE  owed' \in [Torrents -> Int] /\ CountedOnce'
<1>1. \A t : Uncounted(t)' \subseteq Uncounted(t)
  BY DEF Uncounted, Subject, Moves
<1> QED
  BY <1>1, NoMoreCounting DEF StoreInv, TypeOK

\* track() returns and leaves what it has committed.
LEMMA FinishStep ==
  ASSUME StoreInv, NEW w \in Workers, NEW p, Finish(w, p),
         UNCHANGED <<tableVars, now, mainVars, historyVars>>
  PROVE  StoreInv'
<1>1. /\ pc'[w] = "idle" /\ Moves(w) /\ LocalOK(w)
      /\ \A t, q : Adding(t, q)' \subseteq Adding(t, q)
      /\ \A t : Uncounted(t)' \subseteq Uncounted(t)
  BY FinishFacts DEF StoreInv
<1>2. owed' \in [Torrents -> Int] /\ CountedOnce'
  BY <1>1, SameCount DEF tableVars, historyVars
<1> QED
  BY <1>1, <1>2, LocalStep DEF historyVars

\* getTorrentId(): the torrent is found, or an error code is taken for it.
LEMMA GetTorrentIdStep ==
  ASSUME StoreInv, NEW w \in Workers, GetTorrentId(w)
  PROVE  StoreInv'
<1>1. UNCHANGED <<tableVars, now, mainVars, announces, refreshed, lag>>
  BY DEF GetTorrentId
<1>2. CASE Finish(w, "tid") /\ UNCHANGED owed
  BY <1>1, <1>2, FinishStep DEF historyVars
<1>3. ASSUME NEW id \in Torrents \cup ErrorCodes, Go(w, "tid", "find"),
             id \in ErrorCodes \/ (id \in Torrents /\ id = req[w].hash),
             torrentid' = [torrentid EXCEPT ![w] = id], UNCHANGED <<req, peer_row, time>>
      PROVE  /\ pc[w] = "tid" /\ pc'[w] = "find" /\ torrentid'[w] = id /\ Moves(w)
             /\ (owed' \in [Torrents -> Int] /\ CountedOnce') => StoreInv'
  <2>1. pc[w] = "tid" /\ pc'[w] = "find" /\ torrentid'[w] = id
    BY <1>3 DEF Go, StoreInv, TypeOK
  <2>2. Moves(w)
    BY <1>3 DEF Go, Moves, StoreInv, TypeOK, PCs
  <2>3. LocalOK(w)
    BY <1>3, <2>1 DEF LocalOK
  <2>4. \A t, q : w \notin Adding(t, q)'
    BY <2>1 DEF Adding
  <2> QED
    BY <1>1, <2>1, <2>2, <2>3, <2>4, LocalStep
<1>4. CASE /\ Go(w, "tid", "find") /\ req[w].hash \in Torrents
           /\ torrentid' = [torrentid EXCEPT ![w] = req[w].hash]
           /\ UNCHANGED <<req, peer_row, time, owed>>
  <2>1. \A t : w \in Uncounted(t)' => w \in Uncounted(t)
    BY <1>3, <1>4 DEF Uncounted, Subject
  <2> QED
    BY <1>1, <1>3, <1>4, <2>1, SameCount DEF tableVars
<1>5. ASSUME NEW c \in ErrorCodes, Go(w, "tid", "find"),
             torrentid' = [torrentid EXCEPT ![w] = c], UNCHANGED <<req, peer_row, time>>,
             owed' = [t \in Torrents |-> owed[t] - Due(req[w].event, req[w].hash, t)
                                                   + Due(req[w].event, c, t)]
      PROVE  StoreInv'
  <2>1. pc[w] = "tid" /\ pc'[w] = "find" /\ torrentid'[w] = c /\ Moves(w)
    BY <1>3, <1>5
  <2>2. owed' \in [Torrents -> Int]
    BY <1>5 DEF StoreInv, TypeOK, Due
  <2>3. CountedOnce'
    <3> SUFFICES ASSUME NEW t \in Torrents
                 PROVE  downloaded[t] + Cardinality(Uncounted(t)') <= owed'[t]
      BY <1>1 DEF CountedOnce, tableVars
    <3>1. /\ IsFiniteSet(Uncounted(t)) /\ Cardinality(Uncounted(t)) \in Nat
          /\ downloaded[t] \in Nat /\ owed[t] \in Int
          /\ downloaded[t] + Cardinality(Uncounted(t)) <= owed[t]
      BY FiniteFacts DEF StoreInv, TypeOK, CountedOnce
    <3>2. owed'[t] = owed[t] - Due(req[w].event, req[w].hash, t) + Due(req[w].event, c, t)
      BY <1>5
    <3>3. /\ w \in Uncounted(t) <=> Due(req[w].event, req[w].hash, t) = 1
          /\ w \in Uncounted(t)' <=> Due(req[w].event, c, t) = 1
      BY <1>5, <2>1 DEF Uncounted, Subject, Due
    <3>4. Due(req[w].event, req[w].hash, t) \in {0, 1} /\ Due(req[w].event, c, t) \in {0, 1}
      BY DEF Due
    <3>5. \A v \in Workers \ {w} : v \in Uncounted(t)' <=> v \in Uncounted(t)
      BY <2>1 DEF Uncounted, Subject, Moves
    <3>6. Uncounted(t) \subseteq Workers /\ Uncounted(t)' \subseteq Workers
      BY DEF Uncounted
    <3> DEFINE others == Uncounted(t) \ {w}
    <3>7. IsFiniteSet(others) /\ w \notin others
      BY <3>1, FS_Subset
    <3>8. Cardinality(others) \in Nat
      BY <3>7, FS_CardinalityType
    <3>9. Cardinality(Uncounted(t))
            = Cardinality(others) + Due(req[w].event, req[w].hash, t)
      <4>1. CASE w \in Uncounted(t)
        <5>1. Cardinality(others) = Cardinality(Uncounted(t)) - 1
          BY <3>1, <4>1, FS_RemoveElement
        <5> QED
          BY <3>1, <3>3, <4>1, <5>1
      <4>2. CASE w \notin Uncounted(t)
        <5>1. Cardinality(others) = Cardinality(Uncounted(t))
          <6>1. others = Uncounted(t)
            BY <4>2
          <6> QED
            BY <6>1
        <5>2. Due(req[w].event, req[w].hash, t) = 0
          BY <3>3, <3>4, <4>2
        <5> HIDE DEF others
        <5> QED
          BY <3>1, <5>1, <5>2
      <4> QED
        BY <4>1, <4>2
    <3>10. Cardinality(Uncounted(t)') = Cardinality(others) + Due(req[w].event, c, t)
      <4>1. CASE w \in Uncounted(t)'
        <5>1. Uncounted(t)' = others \cup {w}
          BY <3>5, <3>6, <4>1
        <5>2. Cardinality(Uncounted(t)') = Cardinality(others) + 1
          BY <3>7, <5>1, FS_AddElement
        <5> QED
          BY <3>3, <4>1, <5>2
      <4>2. CASE w \notin Uncounted(t)'
        <5>1. Uncounted(t)' = others
          BY <3>5, <3>6, <4>2
        <5> QED
          BY <3>3, <3>4, <3>8, <4>2, <5>1
      <4> QED
        BY <4>1, <4>2
    <3> HIDE DEF others
    <3> QED
      BY <3>1, <3>2, <3>4, <3>8, <3>9, <3>10
  <2> QED
    BY <1>3, <1>5, <2>2, <2>3
<1> QED
  BY <1>2, <1>4, <1>5 DEF GetTorrentId

\* The row that is found belongs to the peer; a peer without one is about to be
\* added by any number of workers, but there is none yet.
LEMMA FindPeerStep ==
  ASSUME StoreInv, NEW w \in Workers, FindPeer(w)
  PROVE  StoreInv'
<1> DEFINE found == RowsOf(torrentid[w], req[w].peer_id)
<1>1. /\ UNCHANGED <<tableVars, now, mainVars, historyVars, req, torrentid, time>>
      /\ pc[w] = "find" /\ w \in DOMAIN pc
  BY DEF FindPeer, StoreInv, TypeOK
<1>2. ASSUME NEW r \in found, Go(w, "find", "updtime"), peer_row' = [peer_row EXCEPT ![w] = r]
      PROVE  StoreInv'
  <2>1. pc'[w] = "updtime" /\ peer_row'[w] = r /\ torrentid'[w] = torrentid[w] /\ req'[w] = req[w]
    BY <1>1, <1>2 DEF Go, StoreInv, TypeOK
  <2>2. r \in Rows /\ peers[r].torrent = torrentid[w] /\ peers[r].peer_id = req[w].peer_id
    BY <1>2 DEF RowsOf
  <2>3. r \in Nat /\ r < nextId
    BY <2>2 DEF StoreInv, TypeOK
  <2>4. Moves(w)
    BY <1>1, <1>2, <2>3 DEF Go, Moves, StoreInv, TypeOK, PCs
  <2>5. LocalOK(w)
    BY <1>1, <2>1, <2>3 DEF LocalOK, StoreInv, RequestOK, AfterLookup
  <2>6. \A t, q : w \notin Adding(t, q)'
    BY <2>1 DEF Adding
  <2>7. \A t : w \in Uncounted(t)' => w \in Uncounted(t)
    BY <1>1, <2>1 DEF Uncounted, Subject
  <2>8. owed' \in [Torrents -> Int] /\ CountedOnce'
    BY <1>1, <2>4, <2>7, SameCount DEF tableVars, historyVars
  <2> QED
    BY <1>1, <2>1, <2>2, <2>4, <2>5, <2>6, <2>8, LocalStep DEF historyVars
<1>3. ASSUME found = {}, Go(w, "find", "addtime"), peer_row' = peer_row
      PROVE  StoreInv'
  <2>1. pc'[w] = "addtime" /\ torrentid'[w] = torrentid[w] /\ req'[w] = req[w]
    BY <1>1, <1>3 DEF Go, StoreInv, TypeOK
  <2>2. Moves(w)
    BY <1>1, <1>3 DEF Go, Moves, StoreInv, TypeOK, PCs
  <2>3. LocalOK(w)
    BY <1>1, <2>1 DEF LocalOK, StoreInv, RequestOK, AfterLookup
  <2>4. \A t, q : w \in Adding(t, q)' => RowsOf(t, q) = {}
    BY <1>3, <2>1 DEF Adding
  <2>5. \A t : w \in Uncounted(t)' => w \in Uncounted(t)
    BY <1>1, <2>1 DEF Uncounted, Subject
  <2>6. owed' \in [Torrents -> Int] /\ CountedOnce'
    BY <1>1, <2>2, <2>5, SameCount DEF tableVars, historyVars
  <2> QED
    BY <1>1, <2>1, <2>2, <2>3, <2>4, <2>6, LocalStep DEF historyVars
<1> QED
  BY <1>2, <1>3 DEF FindPeer

\* gettimeofday() before an INSERT or an UPDATE.
LEMMA ReadTimeStep ==
  ASSUME StoreInv, NEW w \in Workers, ReadTime(w)
  PROVE  StoreInv'
<1>1. /\ UNCHANGED <<tableVars, now, mainVars, historyVars, req, torrentid, peer_row>>
      /\ Go(w, "addtime", "insert") \/ Go(w, "updtime", "update")
      /\ time' = [time EXCEPT ![w] = now]
  BY DEF ReadTime
<1>2. \/ pc[w] = "addtime" /\ pc'[w] = "insert"
      \/ pc[w] = "updtime" /\ pc'[w] = "update"
  BY <1>1 DEF Go, StoreInv, TypeOK
<1>3. Moves(w)
  BY <1>1 DEF Go, Moves, StoreInv, TypeOK, PCs
<1>4. LocalOK(w)
  BY <1>1, <1>2 DEF LocalOK, StoreInv, RequestOK, RowOK, AfterLookup
<1>5. \A t, q : w \in Adding(t, q)' => w \in Adding(t, q)
  BY <1>1, <1>2 DEF Adding
<1>6. owed' \in [Torrents -> Int] /\ CountedOnce'
  <2>1. \A t : w \in Uncounted(t)' => w \in Uncounted(t)
    BY <1>1, <1>2 DEF Uncounted, Subject
  <2> QED
    BY <1>1, <1>3, <2>1, SameCount DEF tableVars, historyVars
<1>7. pc'[w] \in {"updtime", "update"} /\ peer_row'[w] \in Rows =>
        /\ peers[peer_row'[w]].torrent = torrentid'[w]
        /\ peers[peer_row'[w]].peer_id = req'[w].peer_id
  BY <1>1, <1>2 DEF StoreInv, UpdatesOwnRow
<1> QED
  BY <1>1, <1>3, <1>4, <1>5, <1>6, <1>7, LocalStep DEF historyVars

\* A statement fails and the announce ends there.
LEMMA FailStep ==
  ASSUME StoreInv, NEW w \in Workers, Fail(w)
  PROVE  StoreInv'
  BY FinishStep DEF Fail

\* A new announce: one more download that may have to be counted.
LEMMA ReceiveStep ==
  ASSUME StoreInv, NEW w \in Workers, NEW r \in Request, Receive(w, r)
  PROVE  StoreInv'
<1>1. /\ pc[w] = "idle" /\ pc' = [pc EXCEPT ![w] = "tid"] /\ req' = [req EXCEPT ![w] = r]
      /\ announces' = announces + 1
      /\ owed' = [t \in Torrents |-> owed[t] + Due(r.event, r.hash, t)]
      /\ UNCHANGED <<peers, nextId, downloaded, now, torrentid, peer_row, time, ppc, ptime, timeLast,
                     refreshed, lag>>
  BY DEF Receive, Go, tableVars, mainVars
<1>2. pc'[w] = "tid" /\ req'[w] = r /\ r # NoRequest
  BY <1>1, NoRequestAssumption DEF StoreInv, TypeOK
<1>3. \A v \in Workers \ {w} : pc'[v] = pc[v] /\ req'[v] = req[v]
  BY <1>1 DEF StoreInv, TypeOK
<1>4. TypeOK'
  <2>1. req' \in [Workers -> Request \cup {NoRequest}] /\ pc' \in [Workers -> PCs]
    BY <1>1 DEF StoreInv, TypeOK, PCs
  <2>2. \A v \in Workers : pc'[v] = "idle" <=> req'[v] = NoRequest
    BY <1>2, <1>3 DEF StoreInv, TypeOK
  <2>3. owed' \in [Torrents -> Int] /\ announces' \in Nat
    BY <1>1 DEF StoreInv, TypeOK, Due
  <2> QED
    BY <1>1, <2>1, <2>2, <2>3 DEF StoreInv, TypeOK, Rows
<1>5. RequestOK' /\ RowOK' /\ PruneOK' /\ FreshOK' /\ UpdatesOwnRow'
  BY <1>1, <1>2, <1>3
     DEF StoreInv, RequestOK, RowOK, PruneOK, FreshOK, UpdatesOwnRow, AfterLookup, Rows
<1>6. DuplicatesBounded'
  <2>1. \A t, p : RowsOf(t, p)' \subseteq RowsOf(t, p) /\ Adding(t, p)' \subseteq Adding(t, p)
    BY <1>1, <1>2, <1>3 DEF RowsOf, Rows, Adding
  <2> QED
    BY <2>1, NoMoreRows
<1>7. CountedOnce'
  <2> SUFFICES ASSUME NEW t \in Torrents
               PROVE  downloaded[t] + Cardinality(Uncounted(t)') <= owed'[t]
    BY <1>1 DEF CountedOnce
  <2>1. /\ IsFiniteSet(Uncounted(t)) /\ Cardinality(Uncounted(t)) \in Nat
        /\ downloaded[t] \in Nat /\ owed[t] \in Int
        /\ downloaded[t] + Cardinality(Uncounted(t)) <= owed[t]
    BY FiniteFacts DEF StoreInv, TypeOK, CountedOnce
  <2>2. CASE r.event = "COMPLETED" /\ r.hash = t
    <3>1. Uncounted(t)' \subseteq Uncounted(t) \cup {w} /\ w \notin Uncounted(t)
      BY <1>1, <1>3 DEF Uncounted, Subject
    <3>2. /\ IsFiniteSet(Uncounted(t) \cup {w})
          /\ Cardinality(Uncounted(t) \cup {w}) = Cardinality(Uncounted(t)) + 1
      BY <2>1, <3>1, FS_AddElement
    <3>3. /\ Cardinality(Uncounted(t)') <= Cardinality(Uncounted(t)) + 1
          /\ IsFiniteSet(Uncounted(t)')
      BY <3>1, <3>2, FS_Subset
    <3>4. Cardinality(Uncounted(t)') \in Nat
      BY <3>3, FS_CardinalityType
    <3>5. owed'[t] = owed[t] + 1
      BY <1>1, <2>2 DEF Due
    <3> QED
      BY <2>1, <3>3, <3>4, <3>5
  <2>3. CASE ~(r.event = "COMPLETED" /\ r.hash = t)
    <3>1. Uncounted(t)' \subseteq Uncounted(t)
      <4>1. w \notin Uncounted(t)'
        BY <1>2, <2>3 DEF Uncounted, Subject
      <4>2. \A v \in Workers \ {w} : v \in Uncounted(t)' => v \in Uncounted(t)
        BY <1>1, <1>3 DEF Uncounted, Subject
      <4>3. Uncounted(t)' \subseteq Workers
        BY DEF Uncounted
      <4> QED
        BY <4>1, <4>2, <4>3
    <3>2. Cardinality(Uncounted(t)') <= Cardinality(Uncounted(t)) /\ IsFiniteSet(Uncounted(t)')
      BY <2>1, <3>1, FS_Subset
    <3>3. Cardinality(Uncounted(t)') \in Nat
      BY <3>2, FS_CardinalityType
    <3>4. owed'[t] = owed[t]
      BY <1>1, <2>1, <2>3 DEF Due
    <3> QED
      BY <2>1, <3>2, <3>3, <3>4
  <2> QED
    BY <2>2, <2>3
<1> QED
  BY <1>4, <1>5, <1>6, <1>7 DEF StoreInv

\* A commit makes lag cover the time it has waited, and what lag covered before.
LEMMA WaitFacts ==
  ASSUME StoreInv, NEW w \in Workers
  PROVE  /\ now \in Nat /\ time[w] \in Nat /\ Wait(w) \in Nat /\ now - time[w] <= Wait(w)
         /\ \A r \in Rows : refreshed[r] - peers[r].expires <= Wait(w)
<1>1. now \in Nat /\ time[w] \in Nat /\ lag \in Nat
  BY DEF StoreInv, TypeOK
<1>2. Wait(w) \in Nat /\ now - time[w] <= Wait(w) /\ lag <= Wait(w)
  BY <1>1 DEF Wait
<1>3. \A r \in Rows : refreshed[r] \in Nat /\ peers[r].expires \in Nat
  BY DEF StoreInv, TypeOK, Row
<1> QED
  BY <1>1, <1>2, <1>3 DEF StoreInv, FreshOK

\* A row takes the place of the worker that was about to add it.
LEMMA AddPeerStep ==
  ASSUME StoreInv, NEW w \in Workers, AddPeer(w)
  PROVE  StoreInv'
<1> DEFINE new == [torrent |-> torrentid[w], peer_id |-> req[w].peer_id, expires |-> time[w]]
<1>1. /\ pc[w] = "insert" /\ pc' = [pc EXCEPT ![w] = "find"]
      /\ peers' = [r \in Rows \cup {nextId} |-> IF r = nextId THEN new ELSE peers[r]]
      /\ nextId' = nextId + 1 /\ time' = [time EXCEPT ![w] = 0]
      /\ refreshed' = [r \in Rows \cup {nextId} |-> IF r = nextId THEN now ELSE refreshed[r]]
      /\ lag' = Wait(w)
      /\ UNCHANGED <<downloaded, now, req, torrentid, peer_row, mainVars, announces, owed>>
  BY DEF AddPeer, Go, NewId
<1>2. /\ pc'[w] = "find" /\ \A v \in Workers \ {w} : pc'[v] = pc[v]
      /\ nextId \in Nat \ {0} /\ Rows \subseteq 1..(nextId - 1) /\ nextId \notin Rows
  BY <1>1 DEF StoreInv, TypeOK
<1>3. /\ Rows' = Rows \cup {nextId} /\ peers'[nextId] = new
      /\ \A r \in Rows : peers'[r] = peers[r]
  BY <1>1, <1>2 DEF Rows
<1>4. new \in Row
  <2>1. torrentid[w] \in Torrents \cup ErrorCodes
    BY <1>1 DEF StoreInv, RequestOK, AfterLookup
  <2>2. req[w] \in Request /\ time[w] \in Nat
    BY <1>1 DEF StoreInv, TypeOK
  <2>3. req[w].peer_id \in PeerIds
    BY <2>2 DEF Request
  <2> QED
    BY <2>1, <2>2, <2>3 DEF Row
<1>5. Moves(w) /\ LocalOK(w)
  <2>1. Moves(w)
    BY <1>1, <1>2 DEF Moves, StoreInv, TypeOK, PCs
  <2>2. LocalOK(w)
    BY <1>1, <1>2 DEF LocalOK, StoreInv, RequestOK, AfterLookup
  <2> QED
    BY <2>1, <2>2
<1>6. TypeOK'
  <2>a. nextId' \in Nat \ {0} /\ nextId' - 1 = nextId
    BY <1>1, <1>2
  <2>b. Rows \subseteq 1..nextId /\ nextId \in 1..nextId
    BY <1>2
  <2>1. nextId' \in Nat \ {0} /\ Rows' \subseteq 1..(nextId' - 1)
    BY <1>3, <2>a, <2>b
  <2>2. \A r \in Rows' : peers'[r] \in Row
    BY <1>3, <1>4 DEF StoreInv, TypeOK
  <2> QED
    BY <1>1, <1>3, <1>5, <2>1, <2>2, WaitFacts, MovesTypeOK DEF StoreInv, TypeOK
<1>7. RequestOK' /\ RowOK'
  BY <1>1, <1>2, <1>5, MovesRequestOK
<1>8. PruneOK' /\ FreshOK'
  <2>1. PruneOK'
    BY <1>1 DEF StoreInv, PruneOK, mainVars
  <2>2. refreshed'[nextId] - peers'[nextId].expires <= lag'
    BY <1>1, <1>3, WaitFacts
  <2>3. \A r \in Rows : refreshed'[r] = refreshed[r] /\ peers'[r] = peers[r]
    BY <1>1, <1>2, <1>3
  <2>4. \A r \in Rows : refreshed'[r] - peers'[r].expires <= lag'
    BY <1>1, <2>3, WaitFacts
  <2> QED
    BY <1>3, <2>1, <2>2, <2>4 DEF FreshOK
<1>9. UpdatesOwnRow'
  <2> SUFFICES ASSUME NEW v \in Workers, pc'[v] \in {"updtime", "update"}, peer_row'[v] \in Rows'
               PROVE  /\ peers'[peer_row'[v]].torrent = torrentid'[v]
                      /\ peers'[peer_row'[v]].peer_id = req'[v].peer_id
    BY DEF UpdatesOwnRow
  <2>1. v # w /\ pc[v] \in {"updtime", "update"}
    BY <1>2
  <2>2. peer_row[v] < nextId /\ peer_row'[v] = peer_row[v]
    BY <1>1, <2>1 DEF StoreInv, RowOK
  <2>3. peer_row[v] \in Rows
    BY <1>2, <1>3, <2>2
  <2> QED
    BY <1>1, <1>3, <2>1, <2>2, <2>3 DEF StoreInv, UpdatesOwnRow
<1>10. DuplicatesBounded'
  <2> SUFFICES ASSUME NEW t \in Torrents \cup ErrorCodes, NEW p \in PeerIds
               PROVE  Cardinality(RowsOf(t, p)') + Cardinality(Adding(t, p)')
                        <= Cardinality(Workers)
    BY DEF DuplicatesBounded
  <2>1. /\ IsFiniteSet(Adding(t, p)) /\ Cardinality(Adding(t, p)) \in Nat
        /\ IsFiniteSet(RowsOf(t, p)) /\ Cardinality(RowsOf(t, p)) \in Nat
        /\ Cardinality(Workers) \in Nat
        /\ Cardinality(RowsOf(t, p)) + Cardinality(Adding(t, p)) <= Cardinality(Workers)
    BY FiniteFacts DEF StoreInv, DuplicatesBounded
  <2>2. Adding(t, p)' = Adding(t, p) \ {w}
    BY <1>1, <1>2 DEF Adding
  <2>3. CASE torrentid[w] = t /\ req[w].peer_id = p
    <3>1. w \in Adding(t, p)
      BY <1>1, <2>3 DEF Adding
    <3>2. Cardinality(Adding(t, p)') = Cardinality(Adding(t, p)) - 1
      BY <2>1, <2>2, <3>1, FS_RemoveElement
    <3>3. RowsOf(t, p)' = RowsOf(t, p) \cup {nextId} /\ nextId \notin RowsOf(t, p)
      <4>1. \A r \in Rows : r \in RowsOf(t, p)' <=> r \in RowsOf(t, p)
        BY <1>3 DEF RowsOf
      <4>2. nextId \in RowsOf(t, p)' /\ nextId \notin RowsOf(t, p)
        BY <1>2, <1>3, <2>3 DEF RowsOf
      <4>3. RowsOf(t, p)' \subseteq Rows \cup {nextId} /\ RowsOf(t, p) \subseteq Rows
        BY <1>3 DEF RowsOf
      <4> QED
        BY <4>1, <4>2, <4>3
    <3>4. Cardinality(RowsOf(t, p)') = Cardinality(RowsOf(t, p)) + 1
      BY <2>1, <3>3, FS_AddElement
    <3> QED
      BY <2>1, <3>2, <3>4
  <2>4. CASE ~(torrentid[w] = t /\ req[w].peer_id = p)
    <3>1. w \notin Adding(t, p)
      BY <2>4 DEF Adding
    <3>2. RowsOf(t, p)' = RowsOf(t, p)
      <4>1. \A r \in Rows : r \in RowsOf(t, p)' <=> r \in RowsOf(t, p)
        BY <1>3 DEF RowsOf
      <4>2. new.torrent = torrentid[w] /\ new.peer_id = req[w].peer_id
        OBVIOUS
      <4>3. nextId \notin RowsOf(t, p)' /\ nextId \notin RowsOf(t, p)
        BY <1>2, <1>3, <2>4, <4>2 DEF RowsOf
      <4>4. RowsOf(t, p)' \subseteq Rows \cup {nextId} /\ RowsOf(t, p) \subseteq Rows
        BY <1>3 DEF RowsOf
      <4> QED
        BY <4>1, <4>3, <4>4
    <3>3. Adding(t, p)' = Adding(t, p)
      BY <2>2, <3>1
    <3> QED
      BY <2>1, <3>2, <3>3
  <2> QED
    BY <2>3, <2>4
<1>11. CountedOnce'
  <2>1. \A t : Uncounted(t)' \subseteq Uncounted(t)
    BY <1>1, <1>2 DEF Uncounted, Subject
  <2> QED
    BY <1>1, <2>1, NoMoreCounting
<1> QED
  BY <1>6, <1>7, <1>8, <1>9, <1>10, <1>11 DEF StoreInv

\* Refreshing a row changes neither whose it is nor how many there are.
LEMMA UpdatePeerStep ==
  ASSUME StoreInv, NEW w \in Workers, UpdatePeer(w)
  PROVE  StoreInv'
<1>1. /\ peers' = [r \in Rows |->
           IF r = peer_row[w] THEN [peers[r] EXCEPT !.expires = time[w]] ELSE peers[r]]
      /\ refreshed' = [r \in Rows |-> IF r = peer_row[w] THEN now ELSE refreshed[r]]
      /\ lag' = Wait(w)
      /\ UNCHANGED <<nextId, downloaded, now, mainVars, announces, owed>>
  BY DEF UpdatePeer
<1>2. Rows' = Rows /\ time[w] \in Nat
  BY <1>1 DEF Rows, StoreInv, TypeOK
<1>3. \A r \in Rows : /\ peers'[r] \in Row /\ peers'[r].torrent = peers[r].torrent
                       /\ peers'[r].peer_id = peers[r].peer_id
  BY <1>1, <1>2 DEF StoreInv, TypeOK, Row
<1>4. /\ Moves(w) /\ LocalOK(w) /\ pc'[w] \notin {"updtime", "update", "addtime", "insert"}
      /\ \A t : Uncounted(t)' \subseteq Uncounted(t)
  <2>1. CASE Finish(w, "update")
    BY <2>1, FinishFacts DEF StoreInv
  <2>2. CASE /\ req[w].event = "COMPLETED" /\ Go(w, "update", "count")
             /\ UNCHANGED <<req, torrentid, peer_row, time>>
    <3>1. /\ pc[w] = "update" /\ pc'[w] = "count" /\ pc' = [pc EXCEPT ![w] = "count"]
          /\ \A v \in Workers \ {w} : pc'[v] = pc[v]
      BY <2>2 DEF Go, StoreInv, TypeOK
    <3>2. Moves(w)
      BY <2>2, <3>1 DEF Moves, StoreInv, TypeOK, PCs
    <3>3. LocalOK(w)
      BY <2>2, <3>1 DEF LocalOK, StoreInv, RequestOK, AfterLookup
    <3>4. \A t : Uncounted(t)' \subseteq Uncounted(t)
      BY <2>2, <3>1 DEF Uncounted, Subject
    <3> QED
      BY <3>1, <3>2, <3>3, <3>4
  <2> QED
    BY <2>1, <2>2 DEF UpdatePeer
<1>5. TypeOK'
  BY <1>1, <1>2, <1>3, <1>4, WaitFacts, MovesTypeOK DEF StoreInv, TypeOK
<1>6. RequestOK' /\ RowOK'
  BY <1>1, <1>4, MovesRequestOK DEF StoreInv, TypeOK
<1>7. PruneOK' /\ FreshOK'
  <2>1. PruneOK'
    BY <1>1 DEF StoreInv, PruneOK, mainVars
  <2>2. ASSUME NEW r \in Rows
        PROVE  refreshed'[r] - peers'[r].expires <= lag'
    <3>1. CASE r = peer_row[w]
      <4>1. refreshed'[r] = now /\ peers'[r] = [peers[r] EXCEPT !.expires = time[w]]
        BY <1>1, <3>1
      <4>2. peers'[r].expires = time[w]
        BY <4>1 DEF StoreInv, TypeOK, Row
      <4> QED
        BY <1>1, <4>1, <4>2, WaitFacts
    <3>2. CASE r # peer_row[w]
      <4>1. refreshed'[r] = refreshed[r] /\ peers'[r] = peers[r]
        BY <1>1, <3>2
      <4> QED
        BY <1>1, <4>1, WaitFacts
    <3> QED
      BY <3>1, <3>2
  <2> QED
    BY <1>2, <2>1, <2>2 DEF FreshOK
<1>8. UpdatesOwnRow'
  BY <1>2, <1>3, <1>4 DEF StoreInv, UpdatesOwnRow, Moves
<1>9. DuplicatesBounded'
  <2>1. \A t, p : RowsOf(t, p)' \subseteq RowsOf(t, p)
    BY <1>2, <1>3 DEF RowsOf
  <2>2. \A t, p : Adding(t, p)' \subseteq Adding(t, p)
    BY <1>4 DEF Adding, Moves
  <2> QED
    BY <2>1, <2>2, NoMoreRows
<1>10. CountedOnce'
  BY <1>1, <1>4, NoMoreCounting
<1> QED
  BY <1>5, <1>6, <1>7, <1>8, <1>9, <1>10 DEF StoreInv

\* The worker that counts a download is one of those that have not counted it.
LEMMA IncreaseCountStep ==
  ASSUME StoreInv, NEW w \in Workers, IncreaseCount(w)
  PROVE  StoreInv'
<1>1. /\ Finish(w, "count")
      /\ downloaded' = [t \in Torrents |->
            IF t = torrentid[w] THEN downloaded[t] + 1 ELSE downloaded[t]]
      /\ UNCHANGED <<peers, nextId, now, mainVars, historyVars>>
  BY DEF IncreaseCount
<1>2. /\ pc[w] = "count" /\ pc'[w] = "idle" /\ Moves(w) /\ LocalOK(w)
      /\ \A t, q : Adding(t, q)' \subseteq Adding(t, q)
      /\ \A t : Uncounted(t)' \subseteq Uncounted(t) \ {w}
  BY <1>1, FinishFacts DEF StoreInv
<1>3. TypeOK'
  <2>1. downloaded' \in [Torrents -> Nat]
    BY <1>1 DEF StoreInv, TypeOK
  <2> QED
    BY <1>1, <1>2, <2>1, MovesTypeOK DEF historyVars, StoreInv, TypeOK, Rows
<1>4. RequestOK' /\ RowOK'
  BY <1>1, <1>2, MovesRequestOK DEF StoreInv, TypeOK
<1>5. PruneOK' /\ FreshOK' /\ UpdatesOwnRow'
  BY <1>1, <1>2
     DEF StoreInv, PruneOK, FreshOK, mainVars, historyVars, UpdatesOwnRow, Moves, Rows
<1>6. DuplicatesBounded'
  <2>1. \A t, p : RowsOf(t, p)' \subseteq RowsOf(t, p)
    BY <1>1 DEF RowsOf, Rows
  <2> QED
    BY <1>2, <2>1, NoMoreRows
<1>7. CountedOnce'
  <2> SUFFICES ASSUME NEW t \in Torrents
               PROVE  downloaded'[t] + Cardinality(Uncounted(t)') <= owed[t]
    BY <1>1 DEF CountedOnce, historyVars
  <2>1. /\ IsFiniteSet(Uncounted(t)) /\ Cardinality(Uncounted(t)) \in Nat
        /\ downloaded[t] \in Nat /\ owed[t] \in Int
        /\ downloaded[t] + Cardinality(Uncounted(t)) <= owed[t]
    BY FiniteFacts DEF StoreInv, TypeOK, CountedOnce
  <2>2. CASE t = torrentid[w]
    <3>3. w \in Uncounted(t)
      BY <1>2, <2>2 DEF Uncounted, Subject, StoreInv, RequestOK
    <3>4. /\ IsFiniteSet(Uncounted(t) \ {w})
          /\ Cardinality(Uncounted(t) \ {w}) = Cardinality(Uncounted(t)) - 1
      BY <2>1, <3>3, FS_RemoveElement
    <3>5. /\ Cardinality(Uncounted(t)') <= Cardinality(Uncounted(t)) - 1
          /\ IsFiniteSet(Uncounted(t)')
      BY <1>2, <3>4, FS_Subset
    <3>6. Cardinality(Uncounted(t)') \in Nat
      BY <3>5, FS_CardinalityType
    <3>7. downloaded'[t] = downloaded[t] + 1
      BY <1>1, <2>2
    <3> QED
      BY <2>1, <3>5, <3>6, <3>7
  <2>3. CASE t # torrentid[w]
    <3>1. Uncounted(t)' \subseteq Uncounted(t)
      BY <1>2
    <3>2. Cardinality(Uncounted(t)') <= Cardinality(Uncounted(t)) /\ IsFiniteSet(Uncounted(t)')
      BY <2>1, <3>1, FS_Subset
    <3>3. Cardinality(Uncounted(t)') \in Nat
      BY <3>2, FS_CardinalityType
    <3>4. downloaded'[t] = downloaded[t]
      BY <1>1, <2>3
    <3> QED
      BY <2>1, <3>2, <3>3, <3>4
  <2> QED
    BY <2>2, <2>3
<1> QED
  BY <1>3, <1>4, <1>5, <1>6, <1>7 DEF StoreInv

-----------------------------------------------------------------------------
(***************************************************************************)
(* Steps of main() and of the clock.                                       *)
(***************************************************************************)

\* prunePeers(): the rows that go are gone for every worker.
LEMMA PruneStep ==
  ASSUME StoreInv, PrunePeers
  PROVE  StoreInv'
<1>1. /\ ppc' = "idle" /\ ptime' = 0
      /\ UNCHANGED <<nextId, downloaded, now, workerVars, timeLast, announces, owed, lag>>
  BY DEF PrunePeers
<1>2. /\ Rows' \subseteq Rows /\ refreshed' \in [Rows' -> Nat]
      /\ \A r \in Rows' : peers'[r] = peers[r] /\ refreshed'[r] = refreshed[r]
  BY DEF PrunePeers, Rows, StoreInv, TypeOK
<1>3. TypeOK'
  BY <1>1, <1>2 DEF StoreInv, TypeOK, workerVars
<1>4. RequestOK' /\ RowOK' /\ PruneOK' /\ FreshOK'
  BY <1>1, <1>2 DEF StoreInv, RequestOK, RowOK, PruneOK, FreshOK, workerVars
<1>5. UpdatesOwnRow'
  BY <1>1, <1>2 DEF StoreInv, UpdatesOwnRow, workerVars
<1>6. DuplicatesBounded'
  <2>1. \A t, p : RowsOf(t, p)' \subseteq RowsOf(t, p) /\ Adding(t, p)' \subseteq Adding(t, p)
    BY <1>1, <1>2 DEF RowsOf, Adding, workerVars
  <2> QED
    BY <2>1, NoMoreRows
<1>7. CountedOnce'
  <2>1. \A t : Uncounted(t)' \subseteq Uncounted(t)
    BY <1>1 DEF Uncounted, Subject, workerVars
  <2> QED
    BY <1>1, <2>1, NoMoreCounting
<1> QED
  BY <1>3, <1>4, <1>5, <1>6, <1>7 DEF StoreInv

\* What changes neither the table nor the workers.
LEMMA ClockStep ==
  ASSUME StoreInv, UNCHANGED <<tableVars, workerVars, historyVars>>,
         now' \in Nat, ptime' \in Nat, timeLast' \in Nat, ppc' \in {"idle", "time", "delete"},
         ppc' = "delete" => ptime' <= now'
  PROVE  StoreInv'
<1> USE DEF tableVars, workerVars, historyVars
<1>1. TypeOK'
  BY DEF StoreInv, TypeOK, Rows
<1>2. RequestOK' /\ RowOK' /\ PruneOK' /\ FreshOK' /\ UpdatesOwnRow'
  BY DEF StoreInv, RequestOK, RowOK, PruneOK, FreshOK, UpdatesOwnRow, Rows
<1>3. DuplicatesBounded'
  <2>1. \A t, p : RowsOf(t, p)' \subseteq RowsOf(t, p) /\ Adding(t, p)' \subseteq Adding(t, p)
    BY DEF RowsOf, Rows, Adding
  <2> QED
    BY <2>1, NoMoreRows
<1>4. CountedOnce'
  <2>1. \A t : Uncounted(t)' \subseteq Uncounted(t)
    BY DEF Uncounted, Subject
  <2> QED
    BY <2>1, NoMoreCounting
<1> QED
  BY <1>1, <1>2, <1>3, <1>4 DEF StoreInv

-----------------------------------------------------------------------------
\* The invariant holds on the empty table.
LEMMA InitStoreInv == Init => StoreInv
<1> SUFFICES ASSUME Init PROVE StoreInv
  OBVIOUS
<1>1. Rows = {} /\ \A t, p : RowsOf(t, p) = {} /\ Adding(t, p) = {} /\ Uncounted(t) = {}
  BY DEF Init, Rows, RowsOf, Adding, Uncounted
<1>2. TypeOK
  BY <1>1 DEF Init, TypeOK, PCs
<1>3. RequestOK /\ RowOK /\ PruneOK /\ FreshOK /\ UpdatesOwnRow
  BY <1>1 DEF Init, RequestOK, RowOK, PruneOK, FreshOK, UpdatesOwnRow, AfterLookup
<1>a. Cardinality({}) = 0 /\ Cardinality(Workers) \in Nat
  BY FS_EmptySet, FS_CardinalityType, WorkersAssumption
<1>4. DuplicatesBounded
  <2>1. \A t, p : RowsOf(t, p) = {} /\ Adding(t, p) = {}
    BY <1>1
  <2> QED
    BY <1>a, <2>1 DEF DuplicatesBounded
<1>5. CountedOnce
  <2>1. \A t : Uncounted(t) = {}
    BY <1>1
  <2>2. \A t \in Torrents : downloaded[t] = 0 /\ owed[t] = 0
    BY DEF Init
  <2> QED
    BY <1>a, <2>1, <2>2 DEF CountedOnce
<1> QED
  BY <1>2, <1>3, <1>4, <1>5 DEF StoreInv

\* Every step preserves the invariant.
LEMMA StoreInvStep == StoreInv /\ [Next]_vars => StoreInv'
<1> SUFFICES ASSUME StoreInv, [Next]_vars PROVE StoreInv'
  OBVIOUS
<1>1. ASSUME NEW w \in Workers, WorkerStep(w) \/ \E r \in Request : Receive(w, r)
      PROVE  StoreInv'
  BY <1>1, GetTorrentIdStep, FindPeerStep, ReadTimeStep, AddPeerStep, UpdatePeerStep,
     IncreaseCountStep, FailStep, ReceiveStep DEF WorkerStep
<1>2. now \in Nat /\ ptime \in Nat /\ timeLast \in Nat /\ ppc \in {"idle", "time", "delete"}
  BY DEF StoreInv, TypeOK
<1>3. ppc = "delete" => ptime <= now
  BY DEF StoreInv, PruneOK
<1>4. CASE PruneDue
  BY <1>2, <1>4, ClockStep DEF PruneDue
<1>5. CASE PruneTime
  BY <1>2, <1>5, ClockStep DEF PruneTime
<1>6. CASE Tick
  <2>1. now' = now + 1 /\ UNCHANGED <<tableVars, workerVars, ppc, ptime, timeLast, historyVars>>
    BY <1>6 DEF Tick, mainVars
  <2>2. now' \in Nat /\ (ppc = "delete" => ptime <= now')
    BY <1>2, <1>3, <2>1
  <2> QED
    BY <1>2, <2>1, <2>2, ClockStep
<1>7. CASE UNCHANGED vars
  BY <1>2, <1>3, <1>7, ClockStep DEF vars, mainVars
<1> QED
  BY <1>1, <1>4, <1>5, <1>6, <1>7, PruneStep DEF Next, Quiet

\* The invariant of the table, its workers and the pruning.
THEOREM StoreInvariant == Spec => []StoreInv
<1>1. Init => StoreInv
  BY InitStoreInv
<1>2. StoreInv /\ [Next]_vars => StoreInv'
  BY StoreInvStep
<1> QED
  BY <1>1, <1>2, PTL DEF Spec

\* Type correctness, for any number of announces and any time.
THEOREM TypeCorrect == Spec => []TypeOK
<1>1. StoreInv => TypeOK
  BY DEF StoreInv
<1> QED
  BY <1>1, StoreInvariant, PTL

\* UPDATE ... WHERE id=peer_row finds the peer's own row or none, because
\* AUTOINCREMENT never gives the id of a pruned row to another peer.
THEOREM UpdateIsOwn == Spec => []UpdatesOwnRow
<1>1. StoreInv => UpdatesOwnRow
  BY DEF StoreInv
<1> QED
  BY <1>1, StoreInvariant, PTL

\* updatePeer() adds a peer at most as many times as there are workers.
THEOREM FewDuplicates == Spec => []DuplicatesBounded
<1>1. StoreInv => DuplicatesBounded
  BY DEF StoreInv
<1> QED
  BY <1>1, StoreInvariant, PTL

\* INCREASE_COMPLETION_COUNT runs at most once for a completed download, and for
\* the one torrent getTorrentId() returned: a result code may be any torrent's id.
THEOREM CountIsOnce == Spec => []CountedOnce
<1>1. StoreInv => CountedOnce
  BY DEF StoreInv
<1> QED
  BY <1>1, StoreInvariant, PTL

\* prunePeers() removes no row before the expiry interval has passed since the
\* commit that last refreshed it, less the longest wait for such a commit.
THEOREM PruneIsLate == Spec => PrunesExpired
<1>1. ASSUME StoreInv, [Next]_vars
      PROVE  [\A r \in Rows \ Rows' : refreshed[r] < now - Expire + lag]_vars
  <2>1. CASE PrunePeers
    <3>1. ptime <= now /\ ptime \in Nat /\ now \in Nat /\ lag \in Nat /\ Expire \in Nat
      BY <1>1, <2>1, ExpireAssumption DEF StoreInv, PruneOK, TypeOK, PrunePeers
    <3>2. \A r \in Rows \ Rows' : peers[r].expires < ptime - Expire
      BY <2>1 DEF PrunePeers, Expired, Rows
    <3>3. \A r \in Rows : peers[r].expires \in Nat /\ refreshed[r] \in Nat
      BY <1>1 DEF StoreInv, TypeOK, Row
    <3>4. \A r \in Rows : refreshed[r] - peers[r].expires <= lag
      BY <1>1 DEF StoreInv, FreshOK
    <3> QED
      BY <3>1, <3>2, <3>3, <3>4
  <2>2. CASE \E w \in Workers : AddPeer(w)
    <3>1. Rows \ Rows' = {}
      BY <2>2 DEF AddPeer, Rows
    <3> QED
      BY <3>1
  <2>3. CASE \E w \in Workers : UpdatePeer(w)
    <3>1. Rows \ Rows' = {}
      BY <2>3 DEF UpdatePeer, Rows
    <3> QED
      BY <3>1
  <2>4. CASE UNCHANGED peers
    <3>1. Rows \ Rows' = {}
      BY <2>4 DEF Rows
    <3> QED
      BY <3>1
  <2> QED
    BY <1>1, <2>1, <2>2, <2>3, <2>4
       DEF Next, WorkerStep, Receive, GetTorrentId, FindPeer, ReadTime, IncreaseCount, Fail,
           PruneDue, PruneTime, Tick, Quiet, vars, tableVars
<1> QED
  BY <1>1, StoreInvariant, PTL DEF Spec, PrunesExpired
=============================================================================
