--------------------------- MODULE DispatchProofs ---------------------------
(***************************************************************************)
(* Proofs that the dispatcher keeps its inductive invariant, for any       *)
(* number of workers, queue slots, descriptors and polls, and any faults.  *)
(***************************************************************************)
EXTENDS DispatchInv, TLAPS, FiniteSetTheorems

USE NumWorkersAssumption, QueueSizeAssumption, FdsAssumption,
    MaxRecvIterAssumption DEF Workers, Slots

-----------------------------------------------------------------------------
(***************************************************************************)
(* Facts about the operators the model is built from.                      *)
(***************************************************************************)

\* The recount of clients_active yields a number: the buffer is finite.
LEMMA ActiveCount ==
  ASSUME WorkerTypeOK, NEW w \in Workers
  PROVE  Cardinality(Active(w)) \in Nat
<1>1. DOMAIN clients[w] = 1..Len(clients[w]) /\ Len(clients[w]) \in Nat
  BY DEF WorkerTypeOK
<1>2. IsFiniteSet(1..Len(clients[w]))
  <2>1. 1 \in Int /\ Len(clients[w]) \in Int
    BY <1>1
  <2> QED
    BY <2>1, FS_Interval, Zenon
<1>3. Active(w) \subseteq 1..Len(clients[w])
  BY <1>1 DEF Active
<1> QED
  BY <1>2, <1>3, FS_Subset, FS_CardinalityType

\* realloc() keeps the entries that were there and marks the new ones free.
LEMMA GrownBuffer ==
  ASSUME NEW buf \in Seq(Entry), NEW n \in Nat
  PROVE  /\ Grown(buf, n) \in Seq(Entry)
         /\ Len(Grown(buf, n)) = n
         /\ \A k \in 1..n : Grown(buf, n)[k] =
              IF k <= Len(buf) THEN buf[k] ELSE FreeEntry
<1>1. FreeEntry \in Entry
  BY DEF FreeEntry, Entry
<1>2. \A k \in 1..n : k <= Len(buf) => buf[k] \in Entry
  OBVIOUS
<1>3. Grown(buf, n) \in [1..n -> Entry]
  BY <1>1, <1>2 DEF Grown
<1> QED
  BY <1>3 DEF Grown

\* Writing one entry keeps a buffer a buffer of the same size.
LEMMA WriteEntry ==
  ASSUME NEW buf \in Seq(Entry), NEW k \in 1..Len(buf), NEW e \in Entry
  PROVE  /\ [buf EXCEPT ![k] = e] \in Seq(Entry)
         /\ Len([buf EXCEPT ![k] = e]) = Len(buf)
  OBVIOUS

\* Counting a poll keeps a buffer a buffer of the same size.
LEMMA PolledBuffer ==
  ASSUME NEW buf \in Seq(Entry)
  PROVE  /\ [k \in 1..Len(buf) |-> Polled(buf[k])] \in Seq(Entry)
         /\ Len([k \in 1..Len(buf) |-> Polled(buf[k])]) = Len(buf)
         /\ \A k \in 1..Len(buf) : Polled(buf[k]).socket = buf[k].socket
<1>1. \A k \in 1..Len(buf) : buf[k] \in Entry
  OBVIOUS
<1>2. \A e \in Entry : Polled(e) \in Entry /\ Polled(e).socket = e.socket
  BY DEF Polled, Entry
<1>3. [k \in 1..Len(buf) |-> Polled(buf[k])] \in [1..Len(buf) -> Entry]
  BY <1>1, <1>2
<1> QED
  BY <1>1, <1>2, <1>3
-----------------------------------------------------------------------------
(***************************************************************************)
(* What one step of worker w leaves alone in the other workers.            *)
(***************************************************************************)

OthersKeep(w) ==
  \A v \in Workers \ {w} : wpc'[v] = wpc[v] /\ wi'[v] = wi[v]

\* Go moves worker w, and w alone, from p to q.
LEMMA GoFacts ==
  ASSUME WorkerTypeOK, NEW w \in Workers, NEW p, NEW q \in WorkerPCs, Go(w, p, q)
  PROVE  /\ wpc[w] = p /\ wpc'[w] = q
         /\ wpc' \in [Workers -> WorkerPCs]
         /\ \A v \in Workers \ {w} : wpc'[v] = wpc[v]
  BY DEF Go, WorkerTypeOK

\* The pass over the queue stays within its bounds.
LEMMA NextSlotFacts ==
  ASSUME WorkerTypeOK, NEW w \in Workers, NEW p, NEW q \in WorkerPCs,
         NEW r \in WorkerPCs, NextSlot(w, p, q, r)
  PROVE  /\ wpc[w] = p /\ wpc'[w] \in {q, r}
         /\ wpc' \in [Workers -> WorkerPCs]
         /\ wi' \in [Workers -> Slots]
         /\ OthersKeep(w)
<1>0. wi \in [Workers -> Slots]
  BY DEF WorkerTypeOK
<1>1. CASE wi[w] = QueueSize - 1
  <2>1. Go(w, p, r) /\ wi' = [wi EXCEPT ![w] = 0]
    BY <1>1 DEF NextSlot
  <2>2. /\ wpc[w] = p /\ wpc'[w] = r
        /\ wpc' \in [Workers -> WorkerPCs]
        /\ \A v \in Workers \ {w} : wpc'[v] = wpc[v]
    BY <2>1, GoFacts
  <2>3. wi' \in [Workers -> Slots] /\ \A v \in Workers \ {w} : wi'[v] = wi[v]
    BY <2>1, <1>0
  <2> QED
    BY <2>2, <2>3 DEF OthersKeep
<1>2. CASE wi[w] # QueueSize - 1
  <2>1. Go(w, p, q) /\ wi' = [wi EXCEPT ![w] = wi[w] + 1]
    BY <1>2 DEF NextSlot
  <2>2. /\ wpc[w] = p /\ wpc'[w] = q
        /\ wpc' \in [Workers -> WorkerPCs]
        /\ \A v \in Workers \ {w} : wpc'[v] = wpc[v]
    BY <2>1, GoFacts
  <2>3. wi[w] + 1 \in Slots
    <3>1. wi[w] \in Slots
      BY <1>0
    <3> QED
      BY <3>1, <1>2
  <2>4. wi' \in [Workers -> Slots] /\ \A v \in Workers \ {w} : wi'[v] = wi[v]
    BY <2>1, <2>3, <1>0
  <2> QED
    BY <2>2, <2>4 DEF OthersKeep
<1> QED
  BY <1>1, <1>2

\* The pass over the buffer stays within its bounds.
LEMMA NextClientFacts ==
  ASSUME WorkerTypeOK, WorkerIndexOK, NEW w \in Workers, NextClient(w)
  PROVE  /\ wpc[w] = "handle" /\ wpc'[w] \in {"handle", "loop"}
         /\ wpc' \in [Workers -> WorkerPCs]
         /\ wc' \in [Workers -> Nat]
         /\ wpc'[w] = "handle" => wc'[w] # 0 /\ wc'[w] <= Len(clients[w])
         /\ \A v \in Workers \ {w} : wpc'[v] = wpc[v] /\ wc'[v] = wc[v]
<1>0. wc \in [Workers -> Nat] /\ Len(clients[w]) \in Nat
  <2>1. wc \in [Workers -> Nat] /\ clients[w] \in Seq(Entry)
    BY DEF WorkerTypeOK
  <2> QED
    BY <2>1
<1>1. "handle" \in WorkerPCs /\ "loop" \in WorkerPCs
  BY DEF WorkerPCs
<1>2. CASE wc[w] = Len(clients[w])
  <2>1. Go(w, "handle", "loop") /\ wc' = [wc EXCEPT ![w] = 0]
    BY <1>2 DEF NextClient
  <2>2. /\ wpc[w] = "handle" /\ wpc'[w] = "loop"
        /\ wpc' \in [Workers -> WorkerPCs]
        /\ \A v \in Workers \ {w} : wpc'[v] = wpc[v]
    BY <1>1, <2>1, GoFacts
  <2> QED
    BY <1>0, <2>1, <2>2
<1>3. CASE wc[w] # Len(clients[w])
  <2>1. Go(w, "handle", "handle") /\ wc' = [wc EXCEPT ![w] = wc[w] + 1]
    BY <1>3 DEF NextClient
  <2>2. /\ wpc[w] = "handle" /\ wpc'[w] = "handle"
        /\ wpc' \in [Workers -> WorkerPCs]
        /\ \A v \in Workers \ {w} : wpc'[v] = wpc[v]
    BY <1>1, <2>1, GoFacts
  <2>3. wc[w] <= Len(clients[w])
    BY <2>2 DEF WorkerIndexOK
  <2> QED
    BY <1>0, <1>3, <2>1, <2>2, <2>3
<1> QED
  BY <1>2, <1>3

-----------------------------------------------------------------------------
(***************************************************************************)
(* Slot ownership: the three ways a worker's step can touch the protocol.  *)
(***************************************************************************)

\* The step leaves the queue alone, and claims at most a slot that names w.
LEMMA QuietStep ==
  ASSUME SlotOK, MainSlotOK, NEW w \in Workers, OthersKeep(w),
         UNCHANGED <<qThread, qSocket, mpc, mi>>,
         Claiming(w)' => qThread[wi'[w]] = w, ~Releasing(w)'
  PROVE  SlotOK' /\ MainSlotOK'
<1>1. \A v \in Workers \ {w} :
        (Claiming(v)' <=> Claiming(v)) /\ (Releasing(v)' <=> Releasing(v))
  BY DEF OthersKeep, Claiming, Releasing
<1>2. SlotOK'
  BY <1>1 DEF SlotOK, OthersKeep
<1>3. MainSlotOK'
  BY <1>1 DEF MainSlotOK, OthersKeep
<1> QED
  BY <1>2, <1>3

\* The worker takes its name out of the slot it has claimed.
LEMMA DropName ==
  ASSUME SlotOK, MainSlotOK, SharedTypeOK, WorkerTypeOK, MainIndexOK,
         NEW w \in Workers, OthersKeep(w), UNCHANGED <<qSocket, mpc, mi>>,
         Claiming(w), Releasing(w)', wi' = wi,
         qThread' = [qThread EXCEPT ![wi[w]] = 0]
  PROVE  SlotOK' /\ MainSlotOK'
<1>1. \A v \in Workers \ {w} :
        (Claiming(v)' <=> Claiming(v)) /\ (Releasing(v)' <=> Releasing(v))
  BY DEF OthersKeep, Claiming, Releasing
<1>2. ~Claiming(w)' /\ ~Releasing(w)
  BY DEF Claiming, Releasing
<1>3. /\ wi[w] \in Slots /\ qThread[wi[w]] = w /\ w # 0
      /\ qThread'[wi[w]] = 0
      /\ \A i \in Slots \ {wi[w]} : qThread'[i] = qThread[i]
  BY DEF SlotOK, SharedTypeOK, WorkerTypeOK
<1>4. \A v \in Workers \ {w} :
        Claiming(v) \/ Releasing(v) => wi[v] \in Slots /\ wi[v] # wi[w]
  BY <1>3 DEF SlotOK, WorkerTypeOK
<1>5. SlotOK'
  <2>1. \A i \in Slots : qThread'[i] # 0 => qSocket'[i] \in Fds
    BY <1>3 DEF SlotOK
  <2>2. \A v \in Workers :
          /\ Claiming(v)' => qThread'[wi'[v]] = v
          /\ Releasing(v)' => qThread'[wi'[v]] = 0 /\ qSocket'[wi'[v]] \in Fds
    BY <1>1, <1>2, <1>3, <1>4 DEF SlotOK
  <2>3. \A u, v \in Workers :
          Releasing(u)' /\ Releasing(v)' /\ wi'[u] = wi'[v] => u = v
    BY <1>1, <1>4 DEF SlotOK
  <2> QED
    BY <2>1, <2>2, <2>3 DEF SlotOK
<1>6. MainSlotOK'
  <2>1. CASE mpc \in {"lazy", "assign"}
    <3>1. mi \in Slots /\ mi # wi[w]
      BY <2>1, <1>3 DEF MainSlotOK, MainIndexOK
    <3> QED
      BY <2>1, <3>1, <1>1, <1>3 DEF MainSlotOK
  <2>2. CASE mpc \notin {"lazy", "assign"}
    BY <2>2 DEF MainSlotOK
  <2> QED
    BY <2>1, <2>2
<1> QED
  BY <1>5, <1>6

\* The worker empties the slot it has taken its name out of.
LEMMA EmptySlot ==
  ASSUME SlotOK, MainSlotOK, SharedTypeOK, WorkerTypeOK, MainIndexOK,
         NEW w \in Workers, OthersKeep(w), UNCHANGED <<qThread, mpc, mi>>,
         Releasing(w), ~Claiming(w)', ~Releasing(w)',
         qSocket' = [qSocket EXCEPT ![wi[w]] = 0]
  PROVE  SlotOK' /\ MainSlotOK'
<1>1. \A v \in Workers \ {w} :
        (Claiming(v)' <=> Claiming(v)) /\ (Releasing(v)' <=> Releasing(v))
  BY DEF OthersKeep, Claiming, Releasing
<1>2. /\ wi[w] \in Slots /\ qThread[wi[w]] = 0 /\ qSocket[wi[w]] \in Fds
      /\ \A i \in Slots \ {wi[w]} : qSocket'[i] = qSocket[i]
      /\ qSocket'[wi[w]] = 0
  BY DEF SlotOK, SharedTypeOK, WorkerTypeOK
<1>3. \A v \in Workers \ {w} :
        Claiming(v) \/ Releasing(v) => wi[v] \in Slots /\ wi[v] # wi[w]
  <2>1. wi \in [Workers -> Slots]
    BY DEF WorkerTypeOK
  <2> QED
    BY <1>2, <2>1 DEF SlotOK
<1>4. SlotOK'
  BY <1>1, <1>2, <1>3 DEF SlotOK, OthersKeep
<1>5. MainSlotOK'
  <2>1. mpc \in {"prep", "accept", "accerr", "lazy", "assign"} =>
          mi \in Slots /\ mi # wi[w]
    BY <1>2 DEF MainSlotOK, MainIndexOK
  <2> QED
    BY <2>1, <1>1, <1>2 DEF MainSlotOK, OthersKeep
<1> QED
  BY <1>4, <1>5

\* The worker passes the slot it has claimed on to somebody else.
LEMMA PassName ==
  ASSUME SlotOK, MainSlotOK, SharedTypeOK, WorkerTypeOK, MainIndexOK,
         NEW w \in Workers, OthersKeep(w), UNCHANGED <<qSocket, mpc, mi>>,
         Claiming(w), ~Claiming(w)', ~Releasing(w)',
         NEW t, qThread' = [qThread EXCEPT ![wi[w]] = t]
  PROVE  SlotOK' /\ MainSlotOK'
<1>1. \A v \in Workers \ {w} :
        (Claiming(v)' <=> Claiming(v)) /\ (Releasing(v)' <=> Releasing(v))
  BY DEF OthersKeep, Claiming, Releasing
<1>2. /\ wi[w] \in Slots /\ qThread[wi[w]] = w /\ w # 0
      /\ qSocket[wi[w]] \in Fds
      /\ \A i \in Slots \ {wi[w]} : qThread'[i] = qThread[i]
  <2>1. wi \in [Workers -> Slots] /\ qThread \in [Slots -> Workers \cup {0}]
    BY DEF WorkerTypeOK, SharedTypeOK
  <2> QED
    BY <2>1 DEF SlotOK
<1>3. \A v \in Workers \ {w} :
        Claiming(v) \/ Releasing(v) => wi[v] \in Slots /\ wi[v] # wi[w]
  <2>1. wi \in [Workers -> Slots]
    BY DEF WorkerTypeOK
  <2> QED
    BY <1>2, <2>1 DEF SlotOK
<1>4. SlotOK'
  BY <1>1, <1>2, <1>3 DEF SlotOK, OthersKeep
<1>5. MainSlotOK'
  <2>1. mpc \in {"lazy", "assign"} => mi \in Slots /\ mi # wi[w]
    BY <1>2 DEF MainSlotOK, MainIndexOK
  <2> QED
    BY <2>1, <1>1, <1>2 DEF MainSlotOK, OthersKeep
<1> QED
  BY <1>4, <1>5

\* A step of worker w disturbs no other worker's buffer index.
LEMMA IndexStep ==
  ASSUME WorkerIndexOK, NEW w \in Workers,
         \A v \in Workers \ {w} : /\ wpc'[v] = wpc[v] /\ wc'[v] = wc[v]
                                  /\ clients'[v] = clients[v],
         wpc'[w] \in {"copy", "take", "rel1", "rel2", "handle"} => wc'[w] # 0,
         wpc'[w] \in {"take", "rel1", "rel2", "handle"} => wc'[w] <= Len(clients'[w])
  PROVE  WorkerIndexOK'
<1> SUFFICES ASSUME NEW v \in Workers
             PROVE  /\ wpc'[v] \in {"copy", "take", "rel1", "rel2", "handle"} =>
                         wc'[v] # 0
                    /\ wpc'[v] \in {"take", "rel1", "rel2", "handle"} =>
                         wc'[v] <= Len(clients'[v])
  BY DEF WorkerIndexOK
<1>1. CASE v = w
  BY <1>1
<1>2. CASE v # w
  BY <1>2 DEF WorkerIndexOK
<1> QED
  BY <1>1, <1>2

-----------------------------------------------------------------------------
(***************************************************************************)
(* Slot ownership: every step of a worker.                                 *)
(***************************************************************************)

\* Every step of a worker preserves the slot-ownership invariant.
LEMMA WorkerSlotInv ==
  ASSUME SlotInv, NEW w \in Workers, WorkerStep(w)
  PROVE  SlotInv'
<1> USE DEF queueVars, lazyVars, serverVars, threadVars, mainVars, shared,
            notQueue, notLazy, notOpen
<1>a. SharedTypeOK /\ MainTypeOK /\ WorkerTypeOK /\ MainIndexOK /\ WorkerIndexOK
      /\ SlotOK /\ MainSlotOK
  BY DEF SlotInv, TypeOK
<1>b. /\ wi \in [Workers -> Slots] /\ wc \in [Workers -> Nat]
      /\ wqueued \in [Workers -> Nat] /\ wactive \in [Workers -> Int]
      /\ clients \in [Workers -> Seq(Entry)]
      /\ qThread \in [Slots -> Workers \cup {0}]
      /\ qSocket \in [Slots -> Fds \cup {0, -1}]
  BY <1>a DEF SharedTypeOK, WorkerTypeOK
<1>c. /\ wi[w] \in Slots /\ wc[w] \in Nat /\ w # 0
      /\ wqueued[w] \in Nat /\ wqueued[w] + 1 \in Nat
      /\ wactive[w] \in Int /\ wactive[w] + 1 \in Int /\ wactive[w] - 1 \in Int
      /\ clients[w] \in Seq(Entry) /\ Len(clients[w]) \in Nat
      /\ FreeEntry \in Entry /\ <<>> \in Seq(Entry)
  <2>1. clients[w] \in Seq(Entry)
    BY <1>b
  <2>2. FreeEntry \in Entry
    BY DEF FreeEntry, Entry
  <2>3. Len(clients[w]) \in Nat /\ <<>> \in Seq(Entry)
    BY <2>1
  <2>4. /\ wi[w] \in Slots /\ wc[w] \in Nat /\ w # 0
        /\ wqueued[w] \in Nat /\ wactive[w] \in Int
    BY <1>b
  <2> QED
    BY <2>1, <2>2, <2>3, <2>4
<1>d. \A p : p \in {"loop", "dead", "clean", "count", "expand", "copy", "take", "rel1",
                   "rel2", "lzid", "lzcmp", "lzsetid", "lzsetact", "select", "handle",
                   "clmax", "clwait", "clclose", "clscan", "clkill", "clqclose",
                   "clq1", "clq2", "done"} => p \in WorkerPCs
  BY DEF WorkerPCs
<1>e. ASSUME UNCHANGED <<mpc, mi, mlazy, merror>>, SharedTypeOK', WorkerTypeOK',
             WorkerIndexOK', SlotOK', MainSlotOK'
      PROVE  SlotInv'
  BY <1>a, <1>e DEF SlotInv, TypeOK, MainTypeOK, MainIndexOK
<1>1. CASE WorkerOpenDb(w)
  <2>1. /\ wpc[w] = "open" /\ wpc'[w] \in {"loop", "dead"}
        /\ wpc' \in [Workers -> WorkerPCs] /\ OthersKeep(w)
    BY <1>1, <1>a, <1>d, GoFacts DEF WorkerOpenDb, OthersKeep
  <2>2. SharedTypeOK'
    BY <1>1, <1>a DEF WorkerOpenDb, SharedTypeOK
  <2>3. WorkerTypeOK'
    BY <1>1, <1>b, <2>1 DEF WorkerOpenDb, WorkerTypeOK
  <2>4. WorkerIndexOK'
    BY <1>1, <1>a, <1>b, <1>c, <2>1 DEF WorkerOpenDb, WorkerIndexOK, OthersKeep
  <2>5. SlotOK' /\ MainSlotOK'
    BY <1>1, <1>a, <2>1, QuietStep DEF WorkerOpenDb, Claiming, Releasing
  <2> QED
    BY <1>1, <1>e, <2>2, <2>3, <2>4, <2>5 DEF WorkerOpenDb
<1>2. CASE WorkerLoop(w)
  <2>1. /\ wpc[w] = "loop" /\ wpc'[w] \in {"clean", "count"}
        /\ wpc' \in [Workers -> WorkerPCs] /\ OthersKeep(w)
    BY <1>2, <1>a, <1>d, GoFacts DEF WorkerLoop, OthersKeep
  <2>2. Cardinality(Active(w)) \in Int
    BY <1>a, ActiveCount
  <2>3. wactive' \in [Workers -> Int]
    BY <1>2, <1>b, <2>2 DEF WorkerLoop
  <2>4. SharedTypeOK'
    BY <1>2, <1>a DEF WorkerLoop, SharedTypeOK
  <2>5. WorkerTypeOK'
    BY <1>2, <1>b, <2>1, <2>3 DEF WorkerLoop, WorkerTypeOK
  <2>6. WorkerIndexOK'
    BY <1>2, <1>a, <1>b, <1>c, <2>1 DEF WorkerLoop, WorkerIndexOK, OthersKeep
  <2>7. SlotOK' /\ MainSlotOK'
    BY <1>2, <1>a, <2>1, QuietStep DEF WorkerLoop, Claiming, Releasing
  <2> QED
    BY <1>2, <1>e, <2>4, <2>5, <2>6, <2>7 DEF WorkerLoop
<1>3. CASE WorkerCount(w)
  <2>1. /\ wpc[w] = "count" /\ wpc'[w] \in {"count", "expand"}
        /\ wpc' \in [Workers -> WorkerPCs] /\ OthersKeep(w) /\ wi' \in [Workers -> Slots]
    BY <1>3, <1>a, <1>d, NextSlotFacts DEF WorkerCount
  <2>2. wqueued' \in [Workers -> Nat]
    BY <1>3, <1>b, <1>c DEF WorkerCount
  <2>3. SharedTypeOK'
    BY <1>3, <1>a DEF WorkerCount, SharedTypeOK
  <2>4. WorkerTypeOK'
    BY <1>3, <1>b, <2>1, <2>2 DEF WorkerCount, WorkerTypeOK
  <2>5. WorkerIndexOK'
    BY <1>3, <1>a, <1>b, <1>c, <2>1 DEF WorkerCount, WorkerIndexOK, OthersKeep
  <2>6. SlotOK' /\ MainSlotOK'
    BY <1>3, <1>a, <2>1, QuietStep DEF WorkerCount, Claiming, Releasing
  <2> QED
    BY <1>3, <1>e, <2>3, <2>4, <2>5, <2>6 DEF WorkerCount
<1>4. CASE WorkerExpand(w)
  <2>1. /\ wpc[w] = "expand" /\ wpc'[w] = "copy"
        /\ wpc' \in [Workers -> WorkerPCs] /\ OthersKeep(w)
    BY <1>4, <1>a, <1>d, GoFacts DEF WorkerExpand, OthersKeep
  <2>2. /\ clients' \in [Workers -> Seq(Entry)]
        /\ \A v \in Workers \ {w} : clients'[v] = clients[v]
    <3>1. CASE Delta(w) > 0
      <4>0. Delta(w) \in Int
        <5>1. Len(clients[w]) \in Int /\ wqueued[w] \in Int /\ wactive[w] \in Int
          BY <1>c
        <5> QED
          BY <5>1 DEF Delta
      <4>1. Len(clients[w]) + Delta(w) \in Nat
        <5>1. Len(clients[w]) \in Nat
          BY <1>c
        <5> QED
          BY <3>1, <4>0, <5>1
      <4>2. Grown(clients[w], Len(clients[w]) + Delta(w)) \in Seq(Entry)
        BY <4>1, <1>c, GrownBuffer
      <4> QED
        BY <1>4, <3>1, <4>2, <1>b DEF WorkerExpand
    <3>2. CASE ~(Delta(w) > 0)
      BY <1>4, <3>2, <1>b DEF WorkerExpand
    <3> QED
      BY <3>1, <3>2
  <2>3. wc' \in [Workers -> Nat] /\ wc'[w] = 1 /\ \A v \in Workers \ {w} : wc'[v] = wc[v]
    BY <1>4, <1>b DEF WorkerExpand
  <2>4. SharedTypeOK'
    BY <1>4, <1>a DEF WorkerExpand, SharedTypeOK
  <2>5. WorkerTypeOK'
    BY <1>4, <1>b, <2>1, <2>2, <2>3 DEF WorkerExpand, WorkerTypeOK
  <2>6. WorkerIndexOK'
    <3>1. \A v \in Workers \ {w} : /\ wpc'[v] = wpc[v] /\ wc'[v] = wc[v]
                                   /\ clients'[v] = clients[v]
      BY <2>1, <2>2, <2>3 DEF OthersKeep
    <3>2. /\ wpc'[w] \in {"copy", "take", "rel1", "rel2", "handle"} => wc'[w] # 0
          /\ wpc'[w] \in {"take", "rel1", "rel2", "handle"} =>
               wc'[w] <= Len(clients'[w])
      <4>1. CASE wpc'[w] = "handle"
        <5>1. wc'[w] = 1 /\ 1 <= Len(clients'[w])
          BY <4>1, <2>1, <2>2
        <5> QED
          BY <5>1
      <4>2. CASE wpc'[w] # "handle"
        BY <4>2, <2>1, <2>3
      <4> QED
        BY <4>1, <4>2
    <3> QED
      BY <1>a, <3>1, <3>2, IndexStep
  <2>7. SlotOK' /\ MainSlotOK'
    BY <1>4, <1>a, <2>1, QuietStep DEF WorkerExpand, Claiming, Releasing
  <2> QED
    BY <1>4, <1>e, <2>4, <2>5, <2>6, <2>7 DEF WorkerExpand
<1>5. CASE WorkerCopy(w)
  <2>1. /\ wpc[w] = "copy" /\ wpc'[w] \in {"copy", "lzid", "take"}
        /\ wpc' \in [Workers -> WorkerPCs] /\ OthersKeep(w)
        /\ wi' \in [Workers -> Slots]
        /\ wpc'[w] = "take" => qThread[wi'[w]] = w
    <3>1. CASE qThread[wi[w]] # w
      BY <1>5, <3>1, <1>a, <1>d, NextSlotFacts DEF WorkerCopy
    <3>2. CASE qThread[wi[w]] = w
      BY <1>5, <3>2, <1>a, <1>b, <1>d, GoFacts DEF WorkerCopy, OthersKeep
    <3> QED
      BY <3>1, <3>2
  <2>2. /\ clients' \in [Workers -> Seq(Entry)] /\ wc' \in [Workers -> Nat]
        /\ wc'[w] # 0 /\ (wpc'[w] = "take" => wc'[w] <= Len(clients'[w]))
        /\ \A v \in Workers \ {w} : clients'[v] = clients[v] /\ wc'[v] = wc[v]
    <3>1. wc[w] # 0
      BY <2>1, <1>a DEF WorkerIndexOK
    <3>2. CASE qThread[wi[w]] # w
      <4>1. UNCHANGED <<wc, clients>> /\ wpc'[w] # "take"
        BY <1>5, <3>2, <1>a, <1>d, NextSlotFacts DEF WorkerCopy
      <4> QED
        BY <4>1, <3>1, <1>b
    <3>3. CASE qThread[wi[w]] = w
      <4>1. PICK k \in 1..(Len(clients[w]) + 1) :
              /\ FirstFree(w, k)
              /\ wc' = [wc EXCEPT ![w] = k]
              /\ clients' = IF k > Len(clients[w])
                              THEN [clients EXCEPT ![w] = Grown(@, k)]
                              ELSE clients
        BY <1>5, <3>3 DEF WorkerCopy
      <4>2. k \in Nat \ {0} /\ k <= Len(clients[w]) + 1
        BY <1>c
      <4>3. Grown(clients[w], k) \in Seq(Entry) /\ Len(Grown(clients[w], k)) = k
        BY <4>2, <1>c, GrownBuffer
      <4>4. CASE k > Len(clients[w])
        <5>1. clients' = [clients EXCEPT ![w] = Grown(clients[w], k)]
          BY <4>1, <4>4
        <5>2. clients' \in [Workers -> Seq(Entry)] /\ Len(clients'[w]) = k
              /\ \A v \in Workers \ {w} : clients'[v] = clients[v]
          BY <4>3, <5>1, <1>b
        <5>3. wc' \in [Workers -> Nat] /\ wc'[w] = k
              /\ \A v \in Workers \ {w} : wc'[v] = wc[v]
          BY <4>1, <4>2, <1>b
        <5> QED
          BY <4>2, <5>2, <5>3
      <4>5. CASE ~(k > Len(clients[w]))
        <5>1. clients' = clients /\ k <= Len(clients[w])
          BY <4>1, <4>2, <4>5, <1>c
        <5> QED
          BY <4>1, <4>2, <5>1, <1>b
      <4> QED
        BY <4>4, <4>5
    <3> QED
      BY <3>2, <3>3
  <2>3. SharedTypeOK'
    BY <1>5, <1>a DEF WorkerCopy, SharedTypeOK
  <2>4. WorkerTypeOK'
    BY <1>5, <1>b, <2>1, <2>2 DEF WorkerCopy, WorkerTypeOK
  <2>5. WorkerIndexOK'
    BY <1>5, <1>a, <2>1, <2>2 DEF WorkerIndexOK, OthersKeep
  <2>6. SlotOK' /\ MainSlotOK'
    BY <1>5, <1>a, <2>1, QuietStep DEF WorkerCopy, Claiming, Releasing
  <2> QED
    BY <1>5, <1>e, <2>3, <2>4, <2>5, <2>6 DEF WorkerCopy
<1>6. CASE WorkerReallocFail(w)
  <2>1. /\ wpc[w] \in {"expand", "copy"} /\ wpc'[w] = "dead"
        /\ wpc' \in [Workers -> WorkerPCs] /\ OthersKeep(w)
    BY <1>6, <1>a, <1>d, GoFacts DEF WorkerReallocFail, OthersKeep
  <2>2. clients' \in [Workers -> Seq(Entry)] /\ \A v \in Workers \ {w} : clients'[v] = clients[v]
    BY <1>6, <1>b, <1>c DEF WorkerReallocFail
  <2>3. SharedTypeOK'
    BY <1>6, <1>a DEF WorkerReallocFail, SharedTypeOK
  <2>4. WorkerTypeOK'
    BY <1>6, <1>b, <2>1, <2>2 DEF WorkerReallocFail, WorkerTypeOK
  <2>5. WorkerIndexOK'
    BY <1>6, <1>a, <1>b, <1>c, <2>1, <2>2 DEF WorkerReallocFail, WorkerIndexOK, OthersKeep
  <2>6. SlotOK' /\ MainSlotOK'
    BY <1>6, <1>a, <2>1, QuietStep DEF WorkerReallocFail, Claiming, Releasing
  <2> QED
    BY <1>6, <1>e, <2>3, <2>4, <2>5, <2>6 DEF WorkerReallocFail
<1>7. CASE WorkerTake(w)
  <2>1. /\ wpc[w] = "take" /\ wpc'[w] = "rel1"
        /\ wpc' \in [Workers -> WorkerPCs] /\ OthersKeep(w)
    BY <1>7, <1>a, <1>d, GoFacts DEF WorkerTake, OthersKeep
  <2>2. qThread[wi[w]] = w /\ qSocket[wi[w]] \in Fds /\ wc[w] \in 1..Len(clients[w])
    <3>1. qThread[wi[w]] = w /\ qSocket[wi[w]] \in Fds
      BY <2>1, <1>a, <1>c DEF SlotOK, Claiming
    <3>2. wc[w] # 0 /\ wc[w] <= Len(clients[w])
      BY <2>1, <1>a DEF WorkerIndexOK
    <3>3. wc[w] \in 1..Len(clients[w])
      BY <3>2, <1>c
    <3> QED
      BY <3>1, <3>3
  <2>3. /\ clients' \in [Workers -> Seq(Entry)]
        /\ Len(clients'[w]) = Len(clients[w])
        /\ \A v \in Workers \ {w} : clients'[v] = clients[v]
    <3> DEFINE e == [socket |-> qSocket[wi[w]], recv_iter |-> 0]
    <3>1. e \in Entry
      BY <2>2 DEF Entry
    <3>2. clients' = [clients EXCEPT ![w] = [clients[w] EXCEPT ![wc[w]] = e]]
      BY <1>7 DEF WorkerTake
    <3>3. /\ [clients[w] EXCEPT ![wc[w]] = e] \in Seq(Entry)
          /\ Len([clients[w] EXCEPT ![wc[w]] = e]) = Len(clients[w])
      BY <3>1, <2>2, <1>c, WriteEntry
    <3> QED
      BY <3>2, <3>3, <1>b
  <2>4. SharedTypeOK'
    BY <1>7, <1>a DEF WorkerTake, SharedTypeOK
  <2>5. WorkerTypeOK'
    BY <1>7, <1>b, <2>1, <2>3 DEF WorkerTake, WorkerTypeOK
  <2>6. WorkerIndexOK'
    BY <1>7, <1>a, <1>b, <1>c, <2>1, <2>3 DEF WorkerTake, WorkerIndexOK, OthersKeep
  <2>7. SlotOK' /\ MainSlotOK'
    BY <1>7, <1>a, <2>1, <2>2, QuietStep DEF WorkerTake, Claiming, Releasing
  <2> QED
    BY <1>7, <1>e, <2>4, <2>5, <2>6, <2>7 DEF WorkerTake
<1>8. CASE WorkerReleaseThread(w)
  <2>1. /\ wpc[w] = "rel1" /\ wpc'[w] = "rel2"
        /\ wpc' \in [Workers -> WorkerPCs] /\ OthersKeep(w)
    BY <1>8, <1>a, <1>d, GoFacts DEF WorkerReleaseThread, OthersKeep
  <2>2. SharedTypeOK'
    BY <1>8, <1>a, <1>b DEF WorkerReleaseThread, SharedTypeOK
  <2>3. WorkerTypeOK'
    BY <1>8, <1>b, <2>1 DEF WorkerReleaseThread, WorkerTypeOK
  <2>4. WorkerIndexOK'
    BY <1>8, <1>a, <1>b, <1>c, <2>1 DEF WorkerReleaseThread, WorkerIndexOK, OthersKeep
  <2>5. SlotOK' /\ MainSlotOK'
    BY <1>8, <1>a, <2>1, DropName DEF WorkerReleaseThread, Claiming, Releasing
  <2> QED
    BY <1>8, <1>e, <2>2, <2>3, <2>4, <2>5 DEF WorkerReleaseThread
<1>9. CASE WorkerReleaseSocket(w)
  <2>1. /\ wpc[w] = "rel2" /\ wpc'[w] \in {"copy", "lzid"}
        /\ wpc' \in [Workers -> WorkerPCs] /\ OthersKeep(w) /\ wi' \in [Workers -> Slots]
    BY <1>9, <1>a, <1>d, NextSlotFacts DEF WorkerReleaseSocket
  <2>2. wactive' \in [Workers -> Int]
    BY <1>9, <1>b, <1>c DEF WorkerReleaseSocket
  <2>3. SharedTypeOK'
    BY <1>9, <1>a, <1>b DEF WorkerReleaseSocket, SharedTypeOK
  <2>4. WorkerTypeOK'
    BY <1>9, <1>b, <2>1, <2>2 DEF WorkerReleaseSocket, WorkerTypeOK
  <2>5. WorkerIndexOK'
    BY <1>9, <1>a, <1>b, <1>c, <2>1 DEF WorkerReleaseSocket, WorkerIndexOK, OthersKeep
  <2>6. SlotOK' /\ MainSlotOK'
    BY <1>9, <1>a, <2>1, EmptySlot DEF WorkerReleaseSocket, Claiming, Releasing
  <2> QED
    BY <1>9, <1>e, <2>3, <2>4, <2>5, <2>6 DEF WorkerReleaseSocket
<1>10. CASE WorkerReadLaziestID(w)
  <2>1. /\ wpc[w] = "lzid" /\ wpc'[w] \in {"lzsetid", "lzcmp"}
        /\ wpc' \in [Workers -> WorkerPCs] /\ OthersKeep(w)
    BY <1>10, <1>a, <1>d, GoFacts DEF WorkerReadLaziestID, OthersKeep
  <2>2. SharedTypeOK'
    BY <1>10, <1>a DEF WorkerReadLaziestID, SharedTypeOK
  <2>3. WorkerTypeOK'
    BY <1>10, <1>b, <2>1 DEF WorkerReadLaziestID, WorkerTypeOK
  <2>4. WorkerIndexOK'
    BY <1>10, <1>a, <1>b, <1>c, <2>1 DEF WorkerReadLaziestID, WorkerIndexOK, OthersKeep
  <2>5. SlotOK' /\ MainSlotOK'
    BY <1>10, <1>a, <2>1, QuietStep DEF WorkerReadLaziestID, Claiming, Releasing
  <2> QED
    BY <1>10, <1>e, <2>2, <2>3, <2>4, <2>5 DEF WorkerReadLaziestID
<1>11. CASE WorkerReadLaziestActive(w)
  <2>1. /\ wpc[w] = "lzcmp" /\ wpc'[w] \in {"lzsetid", "select"}
        /\ wpc' \in [Workers -> WorkerPCs] /\ OthersKeep(w)
    BY <1>11, <1>a, <1>d, GoFacts DEF WorkerReadLaziestActive, OthersKeep
  <2>2. SharedTypeOK'
    BY <1>11, <1>a DEF WorkerReadLaziestActive, SharedTypeOK
  <2>3. WorkerTypeOK'
    BY <1>11, <1>b, <2>1 DEF WorkerReadLaziestActive, WorkerTypeOK
  <2>4. WorkerIndexOK'
    BY <1>11, <1>a, <1>b, <1>c, <2>1 DEF WorkerReadLaziestActive, WorkerIndexOK, OthersKeep
  <2>5. SlotOK' /\ MainSlotOK'
    BY <1>11, <1>a, <2>1, QuietStep DEF WorkerReadLaziestActive, Claiming, Releasing
  <2> QED
    BY <1>11, <1>e, <2>2, <2>3, <2>4, <2>5 DEF WorkerReadLaziestActive
<1>12. CASE WorkerSetLaziestID(w)
  <2>1. /\ wpc[w] = "lzsetid" /\ wpc'[w] = "lzsetact"
        /\ wpc' \in [Workers -> WorkerPCs] /\ OthersKeep(w)
    BY <1>12, <1>a, <1>d, GoFacts DEF WorkerSetLaziestID, OthersKeep
  <2>2. SharedTypeOK'
    BY <1>12, <1>a DEF WorkerSetLaziestID, SharedTypeOK
  <2>3. WorkerTypeOK'
    BY <1>12, <1>b, <2>1 DEF WorkerSetLaziestID, WorkerTypeOK
  <2>4. WorkerIndexOK'
    BY <1>12, <1>a, <1>b, <1>c, <2>1 DEF WorkerSetLaziestID, WorkerIndexOK, OthersKeep
  <2>5. SlotOK' /\ MainSlotOK'
    BY <1>12, <1>a, <2>1, QuietStep DEF WorkerSetLaziestID, Claiming, Releasing
  <2> QED
    BY <1>12, <1>e, <2>2, <2>3, <2>4, <2>5 DEF WorkerSetLaziestID
<1>13. CASE WorkerSetLaziestActive(w)
  <2>1. /\ wpc[w] = "lzsetact" /\ wpc'[w] = "select"
        /\ wpc' \in [Workers -> WorkerPCs] /\ OthersKeep(w)
    BY <1>13, <1>a, <1>d, GoFacts DEF WorkerSetLaziestActive, OthersKeep
  <2>2. SharedTypeOK'
    BY <1>13, <1>a, <1>b DEF WorkerSetLaziestActive, SharedTypeOK
  <2>3. WorkerTypeOK'
    BY <1>13, <1>b, <2>1 DEF WorkerSetLaziestActive, WorkerTypeOK
  <2>4. WorkerIndexOK'
    BY <1>13, <1>a, <1>b, <1>c, <2>1 DEF WorkerSetLaziestActive, WorkerIndexOK, OthersKeep
  <2>5. SlotOK' /\ MainSlotOK'
    BY <1>13, <1>a, <2>1, QuietStep DEF WorkerSetLaziestActive, Claiming, Releasing
  <2> QED
    BY <1>13, <1>e, <2>2, <2>3, <2>4, <2>5 DEF WorkerSetLaziestActive
<1>14. CASE WorkerSelect(w)
  <2>1. /\ wpc[w] = "select" /\ wpc'[w] \in {"loop", "handle"}
        /\ wpc' \in [Workers -> WorkerPCs] /\ OthersKeep(w)
    BY <1>14, <1>a, <1>d, GoFacts DEF WorkerSelect, OthersKeep
  <2>2. /\ clients' \in [Workers -> Seq(Entry)]
        /\ Len(clients'[w]) = Len(clients[w])
        /\ \A v \in Workers \ {w} : clients'[v] = clients[v]
        /\ wpc'[w] = "handle" => wc'[w] = 1 /\ 1 <= Len(clients[w])
    <3>1. clients' = [clients EXCEPT ![w] =
                        [k \in 1..Len(clients[w]) |-> Polled(clients[w][k])]]
      BY <1>14 DEF WorkerSelect
    <3>2. /\ [k \in 1..Len(clients[w]) |-> Polled(clients[w][k])] \in Seq(Entry)
          /\ Len([k \in 1..Len(clients[w]) |-> Polled(clients[w][k])]) = Len(clients[w])
      BY <1>c, PolledBuffer
    <3>3. Active(w) # {} => 1 <= Len(clients[w])
      BY <1>c DEF Active
    <3>4. wpc'[w] = "handle" => Active(w) # {}
      BY <1>14, <1>a, <1>d, GoFacts DEF WorkerSelect
    <3> QED
      BY <1>14, <3>1, <3>2, <3>3, <3>4, <1>b DEF WorkerSelect
  <2>3. wc' \in [Workers -> Nat] /\ \A v \in Workers \ {w} : wc'[v] = wc[v]
    BY <1>14, <1>b DEF WorkerSelect
  <2>4. SharedTypeOK'
    BY <1>14, <1>a DEF WorkerSelect, SharedTypeOK
  <2>5. WorkerTypeOK'
    BY <1>14, <1>b, <2>1, <2>2, <2>3 DEF WorkerSelect, WorkerTypeOK
  <2>6. WorkerIndexOK'
    <3>1. \A v \in Workers \ {w} : /\ wpc'[v] = wpc[v] /\ wc'[v] = wc[v]
                                   /\ clients'[v] = clients[v]
      BY <2>1, <2>2, <2>3 DEF OthersKeep
    <3>2. /\ wpc'[w] \in {"copy", "take", "rel1", "rel2", "handle"} => wc'[w] # 0
          /\ wpc'[w] \in {"take", "rel1", "rel2", "handle"} =>
               wc'[w] <= Len(clients'[w])
      <4>1. CASE wpc'[w] = "handle"
        <5>1. wc'[w] = 1 /\ 1 <= Len(clients'[w])
          BY <4>1, <2>1, <2>2
        <5> QED
          BY <5>1
      <4>2. CASE wpc'[w] # "handle"
        BY <4>2, <2>1, <2>3
      <4> QED
        BY <4>1, <4>2
    <3> QED
      BY <1>a, <3>1, <3>2, IndexStep
  <2>7. SlotOK' /\ MainSlotOK'
    BY <1>14, <1>a, <2>1, QuietStep DEF WorkerSelect, Claiming, Releasing
  <2> QED
    BY <1>14, <1>e, <2>4, <2>5, <2>6, <2>7 DEF WorkerSelect
<1>15. CASE WorkerKeep(w)
  <2>1. /\ wpc[w] = "handle" /\ wpc'[w] \in {"handle", "loop"}
        /\ wpc' \in [Workers -> WorkerPCs]
        /\ wc' \in [Workers -> Nat]
        /\ wpc'[w] = "handle" => wc'[w] # 0 /\ wc'[w] <= Len(clients[w])
        /\ \A v \in Workers \ {w} : wpc'[v] = wpc[v] /\ wc'[v] = wc[v]
    BY <1>15, <1>a, NextClientFacts DEF WorkerKeep
  <2>2. SharedTypeOK'
    BY <1>15, <1>a DEF WorkerKeep, SharedTypeOK
  <2>3. WorkerTypeOK'
    BY <1>15, <1>b, <2>1 DEF WorkerKeep, WorkerTypeOK
  <2>4. WorkerIndexOK'
    BY <1>15, <1>a, <2>1 DEF WorkerKeep, WorkerIndexOK
  <2>5. SlotOK' /\ MainSlotOK'
    BY <1>15, <1>a, <2>1, QuietStep DEF WorkerKeep, Claiming, Releasing, OthersKeep
  <2> QED
    BY <1>15, <1>e, <2>2, <2>3, <2>4, <2>5 DEF WorkerKeep
<1>16. CASE WorkerClose(w)
  <2>1. /\ wpc[w] = "handle" /\ wpc'[w] \in {"handle", "loop"}
        /\ wpc' \in [Workers -> WorkerPCs]
        /\ wc' \in [Workers -> Nat]
        /\ wpc'[w] = "handle" => wc'[w] # 0 /\ wc'[w] <= Len(clients[w])
        /\ \A v \in Workers \ {w} : wpc'[v] = wpc[v] /\ wc'[v] = wc[v]
    BY <1>16, <1>a, NextClientFacts DEF WorkerClose
  <2>2. /\ clients' \in [Workers -> Seq(Entry)]
        /\ Len(clients'[w]) = Len(clients[w])
        /\ \A v \in Workers \ {w} : clients'[v] = clients[v]
    <3>1. wc[w] \in 1..Len(clients[w])
      <4>1. wc[w] # 0 /\ wc[w] <= Len(clients[w])
        BY <2>1, <1>a DEF WorkerIndexOK
      <4> QED
        BY <4>1, <1>c
    <3>2. clients' = [clients EXCEPT ![w] = [clients[w] EXCEPT ![wc[w]] = FreeEntry]]
      BY <1>16 DEF WorkerClose
    <3>3. /\ [clients[w] EXCEPT ![wc[w]] = FreeEntry] \in Seq(Entry)
          /\ Len([clients[w] EXCEPT ![wc[w]] = FreeEntry]) = Len(clients[w])
      BY <3>1, <1>c, WriteEntry
    <3> QED
      BY <3>2, <3>3, <1>b
  <2>3. wactive' \in [Workers -> Int]
    BY <1>16, <1>b, <1>c DEF WorkerClose
  <2>4. SharedTypeOK'
    BY <1>16, <1>a DEF WorkerClose, SharedTypeOK
  <2>5. WorkerTypeOK'
    BY <1>16, <1>b, <2>1, <2>2, <2>3 DEF WorkerClose, WorkerTypeOK
  <2>6. WorkerIndexOK'
    BY <1>16, <1>a, <2>1, <2>2, <2>3 DEF WorkerClose, WorkerIndexOK
  <2>7. SlotOK' /\ MainSlotOK'
    BY <1>16, <1>a, <2>1, QuietStep DEF WorkerClose, Claiming, Releasing, OthersKeep
  <2> QED
    BY <1>16, <1>e, <2>4, <2>5, <2>6, <2>7 DEF WorkerClose
<1>17. CASE WorkerLeaveBalancing(w)
  <2>1. /\ wpc[w] = "clean" /\ wpc'[w] \in {"clmax", "clclose"}
        /\ wpc' \in [Workers -> WorkerPCs] /\ OthersKeep(w)
    BY <1>17, <1>a, <1>d, GoFacts DEF WorkerLeaveBalancing, OthersKeep
  <2>2. SharedTypeOK'
    BY <1>17, <1>a DEF WorkerLeaveBalancing, SharedTypeOK
  <2>3. WorkerTypeOK'
    BY <1>17, <1>b, <2>1 DEF WorkerLeaveBalancing, WorkerTypeOK
  <2>4. WorkerIndexOK'
    BY <1>17, <1>a, <1>b, <1>c, <2>1 DEF WorkerLeaveBalancing, WorkerIndexOK, OthersKeep
  <2>5. SlotOK' /\ MainSlotOK'
    BY <1>17, <1>a, <2>1, QuietStep DEF WorkerLeaveBalancing, Claiming, Releasing
  <2> QED
    BY <1>17, <1>e, <2>2, <2>3, <2>4, <2>5 DEF WorkerLeaveBalancing
<1>18. CASE WorkerOfferBalancing(w)
  <2>1. /\ wpc[w] = "clmax" /\ wpc'[w] = "clwait"
        /\ wpc' \in [Workers -> WorkerPCs] /\ OthersKeep(w)
    BY <1>18, <1>a, <1>d, GoFacts DEF WorkerOfferBalancing, OthersKeep
  <2>2. SharedTypeOK'
    BY <1>18, <1>a DEF WorkerOfferBalancing, SharedTypeOK, INT_MAX
  <2>3. WorkerTypeOK'
    BY <1>18, <1>b, <2>1 DEF WorkerOfferBalancing, WorkerTypeOK
  <2>4. WorkerIndexOK'
    BY <1>18, <1>a, <1>b, <1>c, <2>1 DEF WorkerOfferBalancing, WorkerIndexOK, OthersKeep
  <2>5. SlotOK' /\ MainSlotOK'
    BY <1>18, <1>a, <2>1, QuietStep DEF WorkerOfferBalancing, Claiming, Releasing
  <2> QED
    BY <1>18, <1>e, <2>2, <2>3, <2>4, <2>5 DEF WorkerOfferBalancing
<1>19. CASE WorkerAwaitRelief(w)
  <2>1. /\ wpc[w] = "clwait" /\ wpc'[w] = "clclose"
        /\ wpc' \in [Workers -> WorkerPCs] /\ OthersKeep(w)
    BY <1>19, <1>a, <1>d, GoFacts DEF WorkerAwaitRelief, OthersKeep
  <2>2. SharedTypeOK'
    BY <1>19, <1>a DEF WorkerAwaitRelief, SharedTypeOK
  <2>3. WorkerTypeOK'
    BY <1>19, <1>b, <2>1 DEF WorkerAwaitRelief, WorkerTypeOK
  <2>4. WorkerIndexOK'
    BY <1>19, <1>a, <1>b, <1>c, <2>1 DEF WorkerAwaitRelief, WorkerIndexOK, OthersKeep
  <2>5. SlotOK' /\ MainSlotOK'
    BY <1>19, <1>a, <2>1, QuietStep DEF WorkerAwaitRelief, Claiming, Releasing
  <2> QED
    BY <1>19, <1>e, <2>2, <2>3, <2>4, <2>5 DEF WorkerAwaitRelief
<1>20. CASE WorkerCloseClients(w)
  <2>1. /\ wpc[w] = "clclose" /\ wpc'[w] = "clscan"
        /\ wpc' \in [Workers -> WorkerPCs] /\ OthersKeep(w)
    BY <1>20, <1>a, <1>d, GoFacts DEF WorkerCloseClients, OthersKeep
  <2>2. clients' \in [Workers -> Seq(Entry)] /\ \A v \in Workers \ {w} : clients'[v] = clients[v]
    BY <1>20, <1>b, <1>c DEF WorkerCloseClients
  <2>3. SharedTypeOK'
    BY <1>20, <1>a DEF WorkerCloseClients, SharedTypeOK
  <2>4. WorkerTypeOK'
    BY <1>20, <1>b, <2>1, <2>2 DEF WorkerCloseClients, WorkerTypeOK
  <2>5. WorkerIndexOK'
    BY <1>20, <1>a, <1>b, <1>c, <2>1, <2>2 DEF WorkerCloseClients, WorkerIndexOK, OthersKeep
  <2>6. SlotOK' /\ MainSlotOK'
    BY <1>20, <1>a, <2>1, QuietStep DEF WorkerCloseClients, Claiming, Releasing
  <2> QED
    BY <1>20, <1>e, <2>3, <2>4, <2>5, <2>6 DEF WorkerCloseClients
<1>21. CASE WorkerScanQueue(w)
  <2>1. /\ wpc[w] = "clscan" /\ wpc'[w] \in {"clscan", "done", "clkill"}
        /\ wpc' \in [Workers -> WorkerPCs] /\ OthersKeep(w)
        /\ wi' \in [Workers -> Slots]
        /\ wpc'[w] = "clkill" => qThread[wi'[w]] = w
    <3>1. CASE qThread[wi[w]] # w
      BY <1>21, <3>1, <1>a, <1>d, NextSlotFacts DEF WorkerScanQueue
    <3>2. CASE qThread[wi[w]] = w
      BY <1>21, <3>2, <1>a, <1>b, <1>d, GoFacts DEF WorkerScanQueue, OthersKeep
    <3> QED
      BY <3>1, <3>2
  <2>2. SharedTypeOK'
    BY <1>21, <1>a DEF WorkerScanQueue, SharedTypeOK
  <2>3. WorkerTypeOK'
    BY <1>21, <1>b, <2>1 DEF WorkerScanQueue, WorkerTypeOK
  <2>4. WorkerIndexOK'
    BY <1>21, <1>a, <2>1 DEF WorkerScanQueue, WorkerIndexOK, OthersKeep
  <2>5. SlotOK' /\ MainSlotOK'
    BY <1>21, <1>a, <2>1, QuietStep DEF WorkerScanQueue, Claiming, Releasing
  <2> QED
    BY <1>21, <1>e, <2>2, <2>3, <2>4, <2>5 DEF WorkerScanQueue
<1>22. CASE WorkerCloseOrReassign(w)
  <2>1. /\ wpc[w] = "clkill" /\ wpc'[w] \in {"clqclose", "clscan", "done"}
        /\ wpc' \in [Workers -> WorkerPCs] /\ OthersKeep(w)
        /\ wi' \in [Workers -> Slots]
    <3>1. CASE killserver
      BY <1>22, <3>1, <1>a, <1>b, <1>d, GoFacts DEF WorkerCloseOrReassign, OthersKeep
    <3>2. CASE ~killserver
      BY <1>22, <3>2, <1>a, <1>d, NextSlotFacts DEF WorkerCloseOrReassign
    <3> QED
      BY <3>1, <3>2
  <2>2. SlotOK' /\ MainSlotOK'
    <3>1. CASE killserver
      <4>1. wpc'[w] = "clqclose" /\ wi' = wi /\ qThread' = qThread
        BY <1>22, <3>1, <1>a, <1>d, GoFacts DEF WorkerCloseOrReassign
      <4>2. qThread[wi[w]] = w
        BY <2>1, <1>a DEF SlotOK, Claiming
      <4> QED
        BY <1>22, <1>a, <2>1, <4>1, <4>2, QuietStep
          DEF WorkerCloseOrReassign, Claiming, Releasing
    <3>2. CASE ~killserver
      <4>1. /\ wpc'[w] \in {"clscan", "done"} /\ UNCHANGED <<qSocket, mpc, mi>>
            /\ qThread' = [qThread EXCEPT ![wi[w]] = lazyID]
        BY <1>22, <3>2, <1>a, <1>d, NextSlotFacts DEF WorkerCloseOrReassign
      <4>2. wi[w] \in Slots /\ qThread[wi[w]] = w /\ w # 0
        BY <2>1, <1>a, <1>c DEF SlotOK, Claiming
      <4> QED
        BY <1>a, <1>b, <2>1, <4>1, <4>2, PassName DEF Claiming, Releasing
    <3> QED
      BY <3>1, <3>2
  <2>3. SharedTypeOK'
    BY <1>22, <1>a, <1>b DEF WorkerCloseOrReassign, SharedTypeOK
  <2>4. WorkerTypeOK'
    BY <1>22, <1>b, <2>1 DEF WorkerCloseOrReassign, WorkerTypeOK
  <2>5. WorkerIndexOK'
    BY <1>22, <1>a, <2>1 DEF WorkerCloseOrReassign, WorkerIndexOK, OthersKeep
  <2>6. SlotOK' /\ MainSlotOK'
    BY <2>2
  <2> QED
    BY <1>22, <1>e, <2>3, <2>4, <2>5, <2>6 DEF WorkerCloseOrReassign
<1>23. CASE WorkerCloseQueued(w)
  <2>1. /\ wpc[w] = "clqclose" /\ wpc'[w] = "clq1"
        /\ wpc' \in [Workers -> WorkerPCs] /\ OthersKeep(w)
    BY <1>23, <1>a, <1>d, GoFacts DEF WorkerCloseQueued, OthersKeep
  <2>2. qThread[wi[w]] = w
    BY <2>1, <1>a DEF SlotOK, Claiming
  <2>3. SharedTypeOK'
    BY <1>23, <1>a DEF WorkerCloseQueued, SharedTypeOK
  <2>4. WorkerTypeOK'
    BY <1>23, <1>b, <2>1 DEF WorkerCloseQueued, WorkerTypeOK
  <2>5. WorkerIndexOK'
    BY <1>23, <1>a, <1>b, <1>c, <2>1 DEF WorkerCloseQueued, WorkerIndexOK, OthersKeep
  <2>6. SlotOK' /\ MainSlotOK'
    BY <1>23, <1>a, <2>1, <2>2, QuietStep DEF WorkerCloseQueued, Claiming, Releasing
  <2> QED
    BY <1>23, <1>e, <2>3, <2>4, <2>5, <2>6 DEF WorkerCloseQueued
<1>24. CASE WorkerClearThread(w)
  <2>1. /\ wpc[w] = "clq1" /\ wpc'[w] = "clq2"
        /\ wpc' \in [Workers -> WorkerPCs] /\ OthersKeep(w)
    BY <1>24, <1>a, <1>d, GoFacts DEF WorkerClearThread, OthersKeep
  <2>2. SharedTypeOK'
    BY <1>24, <1>a, <1>b DEF WorkerClearThread, SharedTypeOK
  <2>3. WorkerTypeOK'
    BY <1>24, <1>b, <2>1 DEF WorkerClearThread, WorkerTypeOK
  <2>4. WorkerIndexOK'
    BY <1>24, <1>a, <1>b, <1>c, <2>1 DEF WorkerClearThread, WorkerIndexOK, OthersKeep
  <2>5. SlotOK' /\ MainSlotOK'
    BY <1>24, <1>a, <2>1, DropName DEF WorkerClearThread, Claiming, Releasing
  <2> QED
    BY <1>24, <1>e, <2>2, <2>3, <2>4, <2>5 DEF WorkerClearThread
<1>25. CASE WorkerClearSocket(w)
  <2>1. /\ wpc[w] = "clq2" /\ wpc'[w] \in {"clscan", "done"}
        /\ wpc' \in [Workers -> WorkerPCs] /\ OthersKeep(w) /\ wi' \in [Workers -> Slots]
    BY <1>25, <1>a, <1>d, NextSlotFacts DEF WorkerClearSocket
  <2>2. SharedTypeOK'
    BY <1>25, <1>a, <1>b DEF WorkerClearSocket, SharedTypeOK
  <2>3. WorkerTypeOK'
    BY <1>25, <1>b, <2>1 DEF WorkerClearSocket, WorkerTypeOK
  <2>4. WorkerIndexOK'
    BY <1>25, <1>a, <1>b, <1>c, <2>1 DEF WorkerClearSocket, WorkerIndexOK, OthersKeep
  <2>5. SlotOK' /\ MainSlotOK'
    BY <1>25, <1>a, <2>1, EmptySlot DEF WorkerClearSocket, Claiming, Releasing
  <2> QED
    BY <1>25, <1>e, <2>2, <2>3, <2>4, <2>5 DEF WorkerClearSocket
<1> QED
  BY <1>1, <1>2, <1>3, <1>4, <1>5, <1>6, <1>7, <1>8, <1>9, <1>10, <1>11,
     <1>12, <1>13, <1>14, <1>15, <1>16, <1>17, <1>18, <1>19, <1>20, <1>21,
     <1>22, <1>23, <1>24, <1>25 DEF WorkerStep

-----------------------------------------------------------------------------
(***************************************************************************)
(* Slot ownership: every step of main() and the signal handler.            *)
(***************************************************************************)

\* Every step of main() preserves the slot-ownership invariant.
LEMMA MainSlotInv ==
  ASSUME SlotInv, MainStep \/ MainAcceptFail \/ SigInt \/ \E f \in Fds : MainAccept(f)
  PROVE  SlotInv'
<1> USE DEF SlotInv, TypeOK, MainGo, queueVars, lazyVars, serverVars, threadVars,
            mainVars, workerVars, notMain
<1>1. CASE MainOpenDb
  <2>1. SharedTypeOK'
    BY <1>1 DEF MainOpenDb, SharedTypeOK, MainTypeOK, MainIndexOK
  <2>2. MainTypeOK' /\ MainIndexOK'
    BY <1>1 DEF MainOpenDb, SharedTypeOK, MainTypeOK, MainIndexOK, MainPCs
  <2>3. WorkerTypeOK' /\ WorkerIndexOK'
    BY <1>1 DEF MainOpenDb, WorkerTypeOK, WorkerIndexOK
  <2>4. SlotOK'
    BY <1>1 DEF MainOpenDb, SharedTypeOK, MainIndexOK, WorkerTypeOK, SlotOK,
      MainSlotOK, Claiming, Releasing
  <2>5. MainSlotOK'
    BY <1>1 DEF MainOpenDb, SharedTypeOK, MainIndexOK, WorkerTypeOK, SlotOK,
      MainSlotOK, Claiming, Releasing
  <2> QED
    BY <2>1, <2>2, <2>3, <2>4, <2>5
<1>2. CASE MainSpawn
  <2>1. SharedTypeOK'
    BY <1>2 DEF MainSpawn, SharedTypeOK, MainTypeOK, MainIndexOK
  <2>2. MainTypeOK' /\ MainIndexOK'
    BY <1>2 DEF MainSpawn, SharedTypeOK, MainTypeOK, MainIndexOK, MainPCs
  <2>3. WorkerTypeOK' /\ WorkerIndexOK'
    BY <1>2 DEF MainSpawn, WorkerTypeOK, WorkerIndexOK, MainIndexOK, WorkerPCs
  <2>a. \A w \in Workers : wpc'[w] = wpc[w] \/ wpc'[w] = "open"
    BY <1>2 DEF MainSpawn, WorkerTypeOK
  <2>b. \A w \in Workers : /\ Claiming(w)' => Claiming(w)
                           /\ Releasing(w)' => Releasing(w)
    BY <2>a DEF Claiming, Releasing
  <2>c. /\ qThread' = qThread /\ qSocket' = qSocket /\ wi' = wi
        /\ mpc' \in {"spawn", "initID"}
    BY <1>2 DEF MainSpawn
  <2>4. SlotOK'
    BY <2>b, <2>c DEF SlotOK
  <2>5. MainSlotOK'
    BY <2>c DEF MainSlotOK
  <2> QED
    BY <2>1, <2>2, <2>3, <2>4, <2>5
<1>3. CASE MainSpawnFail
  <2>1. SharedTypeOK'
    BY <1>3 DEF MainSpawnFail, SharedTypeOK, MainTypeOK, MainIndexOK
  <2>2. MainTypeOK' /\ MainIndexOK'
    BY <1>3 DEF MainSpawnFail, SharedTypeOK, MainTypeOK, MainIndexOK, MainPCs
  <2>3. WorkerTypeOK' /\ WorkerIndexOK'
    BY <1>3 DEF MainSpawnFail, WorkerTypeOK, WorkerIndexOK
  <2>4. SlotOK'
    BY <1>3 DEF MainSpawnFail, SharedTypeOK, MainIndexOK, WorkerTypeOK,
      SlotOK, MainSlotOK, Claiming, Releasing
  <2>5. MainSlotOK'
    BY <1>3 DEF MainSpawnFail, SharedTypeOK, MainIndexOK, WorkerTypeOK,
      SlotOK, MainSlotOK, Claiming, Releasing
  <2> QED
    BY <2>1, <2>2, <2>3, <2>4, <2>5
<1>4. CASE MainInitLaziestID
  <2>1. SharedTypeOK'
    BY <1>4 DEF MainInitLaziestID, SharedTypeOK, MainTypeOK, MainIndexOK
  <2>2. MainTypeOK' /\ MainIndexOK'
    BY <1>4 DEF MainInitLaziestID, SharedTypeOK, MainTypeOK, MainIndexOK,
      MainPCs
  <2>3. WorkerTypeOK' /\ WorkerIndexOK'
    BY <1>4 DEF MainInitLaziestID, WorkerTypeOK, WorkerIndexOK
  <2>4. SlotOK'
    BY <1>4 DEF MainInitLaziestID, SharedTypeOK, MainIndexOK, WorkerTypeOK,
      SlotOK, MainSlotOK, Claiming, Releasing
  <2>5. MainSlotOK'
    BY <1>4 DEF MainInitLaziestID, SharedTypeOK, MainIndexOK, WorkerTypeOK,
      SlotOK, MainSlotOK, Claiming, Releasing
  <2> QED
    BY <2>1, <2>2, <2>3, <2>4, <2>5
<1>5. CASE MainInitLaziestActive
  <2>1. SharedTypeOK'
    BY <1>5 DEF MainInitLaziestActive, SharedTypeOK, MainTypeOK, MainIndexOK
  <2>2. MainTypeOK' /\ MainIndexOK'
    BY <1>5 DEF MainInitLaziestActive, SharedTypeOK, MainTypeOK, MainIndexOK,
      MainPCs
  <2>3. WorkerTypeOK' /\ WorkerIndexOK'
    BY <1>5 DEF MainInitLaziestActive, WorkerTypeOK, WorkerIndexOK
  <2>4. SlotOK'
    BY <1>5 DEF MainInitLaziestActive, SharedTypeOK, MainIndexOK,
      WorkerTypeOK, SlotOK, MainSlotOK, Claiming, Releasing
  <2>5. MainSlotOK'
    BY <1>5 DEF MainInitLaziestActive, SharedTypeOK, MainIndexOK,
      WorkerTypeOK, SlotOK, MainSlotOK, Claiming, Releasing
  <2> QED
    BY <2>1, <2>2, <2>3, <2>4, <2>5
<1>6. CASE MainListen
  <2>1. SharedTypeOK'
    BY <1>6 DEF MainListen, SharedTypeOK, MainTypeOK, MainIndexOK
  <2>2. MainTypeOK' /\ MainIndexOK'
    BY <1>6 DEF MainListen, SharedTypeOK, MainTypeOK, MainIndexOK, MainPCs
  <2>3. WorkerTypeOK' /\ WorkerIndexOK'
    BY <1>6 DEF MainListen, WorkerTypeOK, WorkerIndexOK
  <2>4. SlotOK'
    BY <1>6 DEF MainListen, SharedTypeOK, MainIndexOK, WorkerTypeOK, SlotOK,
      MainSlotOK, Claiming, Releasing
  <2>5. MainSlotOK'
    BY <1>6 DEF MainListen, SharedTypeOK, MainIndexOK, WorkerTypeOK, SlotOK,
      MainSlotOK, Claiming, Releasing
  <2> QED
    BY <2>1, <2>2, <2>3, <2>4, <2>5
<1>7. CASE MainLoop
  <2>1. SharedTypeOK'
    BY <1>7 DEF MainLoop, SharedTypeOK, MainTypeOK, MainIndexOK
  <2>2. MainTypeOK' /\ MainIndexOK'
    BY <1>7 DEF MainLoop, SharedTypeOK, MainTypeOK, MainIndexOK, MainPCs
  <2>3. WorkerTypeOK' /\ WorkerIndexOK'
    BY <1>7 DEF MainLoop, WorkerTypeOK, WorkerIndexOK
  <2>4. SlotOK'
    BY <1>7 DEF MainLoop, SharedTypeOK, MainIndexOK, WorkerTypeOK, SlotOK,
      MainSlotOK, Claiming, Releasing
  <2>5. MainSlotOK'
    BY <1>7 DEF MainLoop, SharedTypeOK, MainIndexOK, WorkerTypeOK, SlotOK,
      MainSlotOK, Claiming, Releasing
  <2> QED
    BY <2>1, <2>2, <2>3, <2>4, <2>5
<1>8. CASE MainScan
  <2>1. SharedTypeOK'
    BY <1>8 DEF MainScan, SharedTypeOK, MainTypeOK, MainIndexOK
  <2>2. MainTypeOK' /\ MainIndexOK'
    BY <1>8 DEF MainScan, SharedTypeOK, MainTypeOK, MainIndexOK, MainPCs
  <2>3. WorkerTypeOK' /\ WorkerIndexOK'
    BY <1>8 DEF MainScan, WorkerTypeOK, WorkerIndexOK
  <2>4. SlotOK'
    BY <1>8 DEF MainScan, SharedTypeOK, MainIndexOK, WorkerTypeOK, SlotOK,
      MainSlotOK, Claiming, Releasing
  <2>5. MainSlotOK'
    BY <1>8 DEF MainScan, SharedTypeOK, MainIndexOK, WorkerTypeOK, SlotOK,
      MainSlotOK, Claiming, Releasing
  <2> QED
    BY <2>1, <2>2, <2>3, <2>4, <2>5
<1>9. CASE MainPrep
  <2>1. SharedTypeOK'
    BY <1>9 DEF MainPrep, SharedTypeOK, MainTypeOK, MainIndexOK
  <2>2. MainTypeOK' /\ MainIndexOK'
    BY <1>9 DEF MainPrep, SharedTypeOK, MainTypeOK, MainIndexOK, MainPCs
  <2>3. WorkerTypeOK' /\ WorkerIndexOK'
    BY <1>9 DEF MainPrep, WorkerTypeOK, WorkerIndexOK
  <2>4. SlotOK'
    BY <1>9, SMTT(30) DEF MainPrep, SharedTypeOK, MainIndexOK, WorkerTypeOK, SlotOK,
      MainSlotOK, Claiming, Releasing
  <2>5. MainSlotOK'
    BY <1>9, SMTT(30) DEF MainPrep, SharedTypeOK, MainIndexOK, WorkerTypeOK, SlotOK,
      MainSlotOK, Claiming, Releasing
  <2> QED
    BY <2>1, <2>2, <2>3, <2>4, <2>5
<1>10. CASE MainAcceptFail
  <2>1. SharedTypeOK'
    BY <1>10 DEF MainAcceptFail, SharedTypeOK, MainTypeOK, MainIndexOK
  <2>2. MainTypeOK' /\ MainIndexOK'
    BY <1>10 DEF MainAcceptFail, SharedTypeOK, MainTypeOK, MainIndexOK,
      MainPCs
  <2>3. WorkerTypeOK' /\ WorkerIndexOK'
    BY <1>10 DEF MainAcceptFail, WorkerTypeOK, WorkerIndexOK
  <2>4. SlotOK'
    BY <1>10, SMTT(30) DEF MainAcceptFail, SharedTypeOK, MainIndexOK, WorkerTypeOK,
      SlotOK, MainSlotOK, Claiming, Releasing
  <2>5. MainSlotOK'
    BY <1>10, SMTT(30) DEF MainAcceptFail, SharedTypeOK, MainIndexOK, WorkerTypeOK,
      SlotOK, MainSlotOK, Claiming, Releasing
  <2> QED
    BY <2>1, <2>2, <2>3, <2>4, <2>5
<1>11. CASE MainAcceptReset
  <2>1. SharedTypeOK'
    BY <1>11 DEF MainAcceptReset, SharedTypeOK, MainTypeOK, MainIndexOK
  <2>2. MainTypeOK' /\ MainIndexOK'
    BY <1>11 DEF MainAcceptReset, SharedTypeOK, MainTypeOK, MainIndexOK,
      MainPCs
  <2>3. WorkerTypeOK' /\ WorkerIndexOK'
    BY <1>11 DEF MainAcceptReset, WorkerTypeOK, WorkerIndexOK
  <2>4. SlotOK'
    BY <1>11, SMTT(30) DEF MainAcceptReset, SharedTypeOK, MainIndexOK, WorkerTypeOK,
      SlotOK, MainSlotOK, Claiming, Releasing
  <2>5. MainSlotOK'
    BY <1>11, SMTT(30) DEF MainAcceptReset, SharedTypeOK, MainIndexOK, WorkerTypeOK,
      SlotOK, MainSlotOK, Claiming, Releasing
  <2> QED
    BY <2>1, <2>2, <2>3, <2>4, <2>5
<1>12. CASE MainReadLaziest
  <2>1. SharedTypeOK'
    BY <1>12 DEF MainReadLaziest, SharedTypeOK, MainTypeOK, MainIndexOK
  <2>2. MainTypeOK' /\ MainIndexOK'
    BY <1>12 DEF MainReadLaziest, SharedTypeOK, MainTypeOK, MainIndexOK,
      MainPCs
  <2>3. WorkerTypeOK' /\ WorkerIndexOK'
    BY <1>12 DEF MainReadLaziest, WorkerTypeOK, WorkerIndexOK
  <2>4. SlotOK'
    BY <1>12 DEF MainReadLaziest, SharedTypeOK, MainIndexOK, WorkerTypeOK,
      SlotOK, MainSlotOK, Claiming, Releasing
  <2>5. MainSlotOK'
    BY <1>12 DEF MainReadLaziest, SharedTypeOK, MainIndexOK, WorkerTypeOK,
      SlotOK, MainSlotOK, Claiming, Releasing
  <2> QED
    BY <2>1, <2>2, <2>3, <2>4, <2>5
<1>13. CASE MainAssign
  <2>1. SharedTypeOK'
    BY <1>13 DEF MainAssign, SharedTypeOK, MainTypeOK, MainIndexOK
  <2>2. MainTypeOK' /\ MainIndexOK'
    BY <1>13 DEF MainAssign, SharedTypeOK, MainTypeOK, MainIndexOK, MainPCs
  <2>3. WorkerTypeOK' /\ WorkerIndexOK'
    BY <1>13 DEF MainAssign, WorkerTypeOK, WorkerIndexOK
  <2>4. SlotOK'
    <3>1. /\ mi \in Slots /\ qThread[mi] = 0 /\ qSocket[mi] \in Fds
          /\ \A w \in Workers : Releasing(w) => wi[w] # mi
          /\ qThread' = [qThread EXCEPT ![mi] = mlazy]
          /\ UNCHANGED <<qSocket, wi, wpc>>
      BY <1>13 DEF MainAssign, MainIndexOK, MainSlotOK
    <3>2. /\ qThread \in [Slots -> Workers \cup {0}]
          /\ wi \in [Workers -> Slots]
      BY DEF SharedTypeOK, WorkerTypeOK
    <3>3. \A w \in Workers : Claiming(w) => wi[w] # mi
      BY <3>1 DEF SlotOK
    <3>4. \A w \in Workers :
            (Claiming(w)' <=> Claiming(w)) /\ (Releasing(w)' <=> Releasing(w))
      BY <3>1 DEF Claiming, Releasing
    <3> QED
      BY <3>1, <3>2, <3>3, <3>4 DEF SlotOK
  <2>5. MainSlotOK'
    BY <1>13 DEF MainAssign, SharedTypeOK, MainIndexOK, WorkerTypeOK, SlotOK,
      MainSlotOK, Claiming, Releasing
  <2> QED
    BY <2>1, <2>2, <2>3, <2>4, <2>5
<1>14. CASE MainTime
  <2>1. SharedTypeOK'
    BY <1>14 DEF MainTime, SharedTypeOK, MainTypeOK, MainIndexOK
  <2>2. MainTypeOK' /\ MainIndexOK'
    BY <1>14 DEF MainTime, SharedTypeOK, MainTypeOK, MainIndexOK, MainPCs
  <2>3. WorkerTypeOK' /\ WorkerIndexOK'
    BY <1>14 DEF MainTime, WorkerTypeOK, WorkerIndexOK
  <2>4. SlotOK'
    BY <1>14 DEF MainTime, SharedTypeOK, MainIndexOK, WorkerTypeOK, SlotOK,
      MainSlotOK, Claiming, Releasing
  <2>5. MainSlotOK'
    BY <1>14 DEF MainTime, SharedTypeOK, MainIndexOK, WorkerTypeOK, SlotOK,
      MainSlotOK, Claiming, Releasing
  <2> QED
    BY <2>1, <2>2, <2>3, <2>4, <2>5
<1>15. CASE SigInt
  <2>1. SharedTypeOK'
    BY <1>15 DEF SigInt, SharedTypeOK, MainTypeOK, MainIndexOK
  <2>2. MainTypeOK' /\ MainIndexOK'
    BY <1>15 DEF SigInt, SharedTypeOK, MainTypeOK, MainIndexOK, MainPCs
  <2>3. WorkerTypeOK' /\ WorkerIndexOK'
    BY <1>15 DEF SigInt, WorkerTypeOK, WorkerIndexOK
  <2>4. SlotOK'
    BY <1>15 DEF SigInt, SharedTypeOK, MainIndexOK, WorkerTypeOK, SlotOK,
      MainSlotOK, Claiming, Releasing
  <2>5. MainSlotOK'
    BY <1>15 DEF SigInt, SharedTypeOK, MainIndexOK, WorkerTypeOK, SlotOK,
      MainSlotOK, Claiming, Releasing
  <2> QED
    BY <2>1, <2>2, <2>3, <2>4, <2>5
<1>16. CASE MainCloseServ
  <2>1. SharedTypeOK'
    BY <1>16 DEF MainCloseServ, SharedTypeOK, MainTypeOK, MainIndexOK
  <2>2. MainTypeOK' /\ MainIndexOK'
    BY <1>16 DEF MainCloseServ, SharedTypeOK, MainTypeOK, MainIndexOK, MainPCs
  <2>3. WorkerTypeOK' /\ WorkerIndexOK'
    BY <1>16 DEF MainCloseServ, WorkerTypeOK, WorkerIndexOK
  <2>4. SlotOK'
    BY <1>16 DEF MainCloseServ, SharedTypeOK, MainIndexOK, WorkerTypeOK,
      SlotOK, MainSlotOK, Claiming, Releasing
  <2>5. MainSlotOK'
    BY <1>16 DEF MainCloseServ, SharedTypeOK, MainIndexOK, WorkerTypeOK,
      SlotOK, MainSlotOK, Claiming, Releasing
  <2> QED
    BY <2>1, <2>2, <2>3, <2>4, <2>5
<1>17. CASE MainKill
  <2>1. SharedTypeOK'
    BY <1>17 DEF MainKill, SharedTypeOK, MainTypeOK, MainIndexOK
  <2>2. MainTypeOK' /\ MainIndexOK'
    BY <1>17 DEF MainKill, SharedTypeOK, MainTypeOK, MainIndexOK, MainPCs
  <2>3. WorkerTypeOK' /\ WorkerIndexOK'
    BY <1>17 DEF MainKill, WorkerTypeOK, WorkerIndexOK
  <2>4. SlotOK'
    BY <1>17 DEF MainKill, SharedTypeOK, MainIndexOK, WorkerTypeOK, SlotOK,
      MainSlotOK, Claiming, Releasing
  <2>5. MainSlotOK'
    BY <1>17 DEF MainKill, SharedTypeOK, MainIndexOK, WorkerTypeOK, SlotOK,
      MainSlotOK, Claiming, Releasing
  <2> QED
    BY <2>1, <2>2, <2>3, <2>4, <2>5
<1>18. CASE MainTerm
  <2>1. SharedTypeOK'
    BY <1>18 DEF MainTerm, SharedTypeOK, MainTypeOK, MainIndexOK
  <2>2. MainTypeOK' /\ MainIndexOK'
    BY <1>18 DEF MainTerm, SharedTypeOK, MainTypeOK, MainIndexOK, MainPCs
  <2>3. WorkerTypeOK' /\ WorkerIndexOK'
    BY <1>18 DEF MainTerm, WorkerTypeOK, WorkerIndexOK
  <2>4. SlotOK'
    BY <1>18 DEF MainTerm, SharedTypeOK, MainIndexOK, WorkerTypeOK, SlotOK,
      MainSlotOK, Claiming, Releasing
  <2>5. MainSlotOK'
    BY <1>18 DEF MainTerm, SharedTypeOK, MainIndexOK, WorkerTypeOK, SlotOK,
      MainSlotOK, Claiming, Releasing
  <2> QED
    BY <2>1, <2>2, <2>3, <2>4, <2>5
<1>19. CASE MainJoin
  <2>1. SharedTypeOK'
    BY <1>19 DEF MainJoin, SharedTypeOK, MainTypeOK, MainIndexOK
  <2>2. MainTypeOK' /\ MainIndexOK'
    BY <1>19 DEF MainJoin, SharedTypeOK, MainTypeOK, MainIndexOK, MainPCs
  <2>3. WorkerTypeOK' /\ WorkerIndexOK'
    BY <1>19 DEF MainJoin, WorkerTypeOK, WorkerIndexOK
  <2>4. SlotOK'
    BY <1>19 DEF MainJoin, SharedTypeOK, MainIndexOK, WorkerTypeOK, SlotOK,
      MainSlotOK, Claiming, Releasing
  <2>5. MainSlotOK'
    BY <1>19 DEF MainJoin, SharedTypeOK, MainIndexOK, WorkerTypeOK, SlotOK,
      MainSlotOK, Claiming, Releasing
  <2> QED
    BY <2>1, <2>2, <2>3, <2>4, <2>5
<1>20. CASE MainStray
  <2>1. SharedTypeOK'
    BY <1>20 DEF MainStray, SharedTypeOK, MainTypeOK, MainIndexOK
  <2>2. MainTypeOK' /\ MainIndexOK'
    BY <1>20 DEF MainStray, SharedTypeOK, MainTypeOK, MainIndexOK, MainPCs
  <2>3. WorkerTypeOK' /\ WorkerIndexOK'
    BY <1>20 DEF MainStray, WorkerTypeOK, WorkerIndexOK
  <2>4. SlotOK'
    BY <1>20 DEF MainStray, SharedTypeOK, MainIndexOK, WorkerTypeOK, SlotOK,
      MainSlotOK, Claiming, Releasing
  <2>5. MainSlotOK'
    BY <1>20 DEF MainStray, SharedTypeOK, MainIndexOK, WorkerTypeOK, SlotOK,
      MainSlotOK, Claiming, Releasing
  <2> QED
    BY <2>1, <2>2, <2>3, <2>4, <2>5
<1>21. CASE MainExit
  <2>1. SharedTypeOK'
    BY <1>21 DEF MainExit, SharedTypeOK, MainTypeOK, MainIndexOK
  <2>2. MainTypeOK' /\ MainIndexOK'
    BY <1>21 DEF MainExit, SharedTypeOK, MainTypeOK, MainIndexOK, MainPCs
  <2>3. WorkerTypeOK' /\ WorkerIndexOK'
    BY <1>21 DEF MainExit, WorkerTypeOK, WorkerIndexOK
  <2>4. SlotOK'
    BY <1>21 DEF MainExit, SharedTypeOK, MainIndexOK, WorkerTypeOK, SlotOK,
      MainSlotOK, Claiming, Releasing
  <2>5. MainSlotOK'
    BY <1>21 DEF MainExit, SharedTypeOK, MainIndexOK, WorkerTypeOK, SlotOK,
      MainSlotOK, Claiming, Releasing
  <2> QED
    BY <2>1, <2>2, <2>3, <2>4, <2>5
<1>22. ASSUME NEW f \in Fds, MainAccept(f)
      PROVE  SlotInv'
  <2>1. SharedTypeOK'
    BY <1>22 DEF MainAccept, SharedTypeOK, MainTypeOK, MainIndexOK
  <2>2. MainTypeOK' /\ MainIndexOK'
    BY <1>22 DEF MainAccept, SharedTypeOK, MainTypeOK, MainIndexOK, MainPCs
  <2>3. WorkerTypeOK' /\ WorkerIndexOK'
    BY <1>22 DEF MainAccept, WorkerTypeOK, WorkerIndexOK
  <2>4. SlotOK'
    BY <1>22, SMTT(30) DEF MainAccept, SharedTypeOK, MainIndexOK, WorkerTypeOK, SlotOK,
      MainSlotOK, Claiming, Releasing
  <2>5. MainSlotOK'
    BY <1>22, SMTT(30) DEF MainAccept, SharedTypeOK, MainIndexOK, WorkerTypeOK, SlotOK,
      MainSlotOK, Claiming, Releasing
  <2> QED
    BY <2>1, <2>2, <2>3, <2>4, <2>5
<1> QED
  BY <1>1, <1>2, <1>3, <1>4, <1>5, <1>6, <1>7, <1>8, <1>9, <1>10, <1>11,
     <1>12, <1>13, <1>14, <1>15, <1>16, <1>17, <1>18, <1>19, <1>20, <1>21,
     <1>22 DEF MainStep

-----------------------------------------------------------------------------
(***************************************************************************)
(* The theorems.                                                           *)
(***************************************************************************)

\* The slot-ownership invariant holds initially.
LEMMA InitSlotInv ==
  ASSUME Init
  PROVE  SlotInv
<1>1. SharedTypeOK
  <2>1. killserver \in BOOLEAN /\ shutdown \in [Workers -> BOOLEAN]
    BY Zenon DEF Init
  <2>2. /\ qThread \in [Slots -> Workers \cup {0}]
        /\ qSocket \in [Slots -> Fds \cup {0, -1}]
        /\ lazyID \in Workers \cup {0} /\ lazyActive \in Int
        /\ servsock \in {"none", "open", "closed"}
        /\ open \in SUBSET Fds /\ created \in SUBSET Workers
    BY DEF Init
  <2> QED
    BY <2>1, <2>2 DEF SharedTypeOK
<1>2. MainTypeOK /\ MainIndexOK
  <2>1. merror \in BOOLEAN
    BY DEF Init
  <2>2. mpc = "start" /\ mi = 0 /\ mlazy = 0
    BY DEF Init
  <2> QED
    BY <2>1, <2>2 DEF MainTypeOK, MainIndexOK, MainPCs
<1>3. WorkerTypeOK /\ WorkerIndexOK
  <2>1. <<>> \in Seq(Entry)
    OBVIOUS
  <2> QED
    BY <2>1 DEF Init, WorkerTypeOK, WorkerIndexOK, WorkerPCs
<1>4. SlotOK /\ MainSlotOK
  BY DEF Init, SlotOK, MainSlotOK, Claiming, Releasing
<1> QED
  BY <1>1, <1>2, <1>3, <1>4 DEF SlotInv, TypeOK

\* Nothing changes when nothing happens.
LEMMA StutterSlotInv ==
  ASSUME SlotInv, UNCHANGED vars
  PROVE  SlotInv'
<1> USE DEF SlotInv, TypeOK, vars, queueVars, lazyVars, serverVars,
                 threadVars, mainVars, workerVars
<1>1. SharedTypeOK' /\ MainTypeOK' /\ WorkerTypeOK'
  BY DEF SharedTypeOK, MainTypeOK, WorkerTypeOK
<1>2. MainIndexOK' /\ WorkerIndexOK'
  BY DEF MainIndexOK, WorkerIndexOK
<1>3. SlotOK' /\ MainSlotOK'
  BY DEF SlotOK, MainSlotOK, Claiming, Releasing
<1> QED
  BY <1>1, <1>2, <1>3

\* The slot-ownership invariant holds in every reachable state: whatever the
\* interleaving of main() and the workers, a slot is written only by the thread
\* whose turn it is.
THEOREM SlotInvariant == Spec => []SlotInv
<1>1. Init => SlotInv
  BY InitSlotInv
<1>2. SlotInv /\ [Next]_vars => SlotInv'
  <2> SUFFICES ASSUME SlotInv, [Next]_vars PROVE SlotInv'
    OBVIOUS
  <2>1. CASE MainStep \/ MainAcceptFail \/ SigInt \/ \E f \in Fds : MainAccept(f)
    BY <2>1, MainSlotInv
  <2>2. ASSUME NEW w \in Workers, WorkerStep(w)
        PROVE  SlotInv'
    BY <2>2, WorkerSlotInv
  <2>3. CASE UNCHANGED vars
    BY <2>3, StutterSlotInv
  <2> QED
    BY <2>1, <2>2, <2>3 DEF Next, Terminated
<1> QED
  BY <1>1, <1>2, PTL DEF Spec

\* Type correctness for every number of workers, slots and descriptors: no index
\* leaves its array, and a worker never copies the result of a failed accept().
THEOREM TypeCorrect == Spec => []TypeOK
<1>1. SlotInv => TypeOK
  BY DEF SlotInv
<1> QED
  BY <1>1, SlotInvariant, PTL
=============================================================================
