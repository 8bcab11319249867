--------------------------- MODULE DispatchSafety ---------------------------
(***************************************************************************)
(* Proofs that the dispatcher never loses, shares or reuses a connection,  *)
(* and that it shuts down in order, for any number of workers, queue       *)
(* slots, descriptors and polls, and any faults.                           *)
(*                                                                         *)
(* Every step of a worker is put into one of eight kinds by what it does   *)
(* to the connections; the invariant is proved kind by kind.  The bound of *)
(* the buffers and the refinement of Ownership follow from it.             *)
(***************************************************************************)
EXTENDS DispatchProofs

-----------------------------------------------------------------------------
(***************************************************************************)
(* The kinds of steps of a worker.                                         *)
(***************************************************************************)

\* Only worker w moves, and main() goes on as it was told.
WorkerFrame(w) ==
  /\ UNCHANGED <<mpc, mi, mlazy, merror, killserver, servsock, shutdown, created>>
  /\ lazyID' \in {lazyID, w}
  /\ \A v \in Workers \ {w} :
       /\ wpc'[v] = wpc[v] /\ wi'[v] = wi[v]
       /\ wc'[v] = wc[v] /\ clients'[v] = clients[v]

\* A worker begins its cleanup when it is told to, and has emptied its buffer
\* before it looks at the queue.
PhaseMove(w) ==
  /\ wpc[w] \notin {"none", "done", "dead"} /\ wpc'[w] \notin {"none", "open"}
  /\ Cleaning(w)' => Cleaning(w) \/ shutdown[w]
  /\ wpc'[w] \in {"clscan", "clkill", "clqclose", "clq1", "clq2", "done", "dead"} =>
       clients'[w] = <<>>

\* The buffer may have grown, but holds the same connections in the same places.
SameHeld(w) ==
  /\ Active(w)' = Active(w)
  /\ \A k \in Active(w) : clients'[w][k].socket = clients[w][k].socket

QueueKept == UNCHANGED <<qSocket, qThread>>

Quiet(w) ==
  /\ QueueKept /\ open' = open /\ SameHeld(w)
  /\ wpc[w] \notin {"take", "rel1", "rel2", "clq1", "clq2"}
  /\ wpc'[w] \notin {"rel1", "rel2", "clq1", "clq2"}
  /\ wpc'[w] = "take" => clients'[w][wc'[w]].socket = 0

Takes(w) ==
  /\ wpc[w] = "take" /\ wpc'[w] = "rel1" /\ wi'[w] = wi[w] /\ wc'[w] = wc[w]
  /\ QueueKept /\ open' = open
  /\ wc[w] \notin Active(w) /\ Active(w)' = Active(w) \cup {wc[w]}
  /\ clients'[w][wc[w]].socket = qSocket[wi[w]]
  /\ \A k \in Active(w) : clients'[w][k].socket = clients[w][k].socket

DropsName(w) ==
  /\ \/ wpc[w] = "rel1" /\ wpc'[w] = "rel2"
     \/ wpc[w] = "clq1" /\ wpc'[w] = "clq2"
  /\ wi'[w] = wi[w] /\ wc'[w] = wc[w] /\ clients'[w] = clients[w]
  /\ qSocket' = qSocket /\ open' = open
  /\ qThread'[wi[w]] = 0 /\ \A i \in Slots \ {wi[w]} : qThread'[i] = qThread[i]

EmptiesSlot(w) ==
  /\ \/ wpc[w] = "rel2" /\ wpc'[w] \in {"copy", "lzid"}
     \/ wpc[w] = "clq2" /\ wpc'[w] \in {"clscan", "done"}
  /\ clients'[w] = clients[w] /\ qThread' = qThread /\ open' = open
  /\ qSocket'[wi[w]] = 0 /\ \A i \in Slots \ {wi[w]} : qSocket'[i] = qSocket[i]

ClosesOne(w) ==
  /\ wpc[w] = "handle" /\ wpc'[w] \in {"handle", "loop"} /\ QueueKept
  /\ \E k \in Active(w) :
       /\ open' = open \ {clients[w][k].socket}
       /\ Active(w)' = Active(w) \ {k}
       /\ \A j \in Active(w) \ {k} : clients'[w][j].socket = clients[w][j].socket

ClosesAll(w) ==
  /\ wpc[w] = "clclose" /\ wpc'[w] = "clscan" /\ QueueKept
  /\ open' = open \ HeldBy(w) /\ clients'[w] = <<>>

ClosesSlot(w) ==
  /\ wpc[w] = "clqclose" /\ wpc'[w] = "clq1" /\ wi'[w] = wi[w] /\ QueueKept
  /\ open' = open \ {qSocket[wi[w]]} /\ clients'[w] = clients[w]

Dies(w) ==
  /\ wpc[w] \in {"expand", "copy"} /\ wpc'[w] = "dead"
  /\ QueueKept /\ open' = open /\ clients'[w] = <<>>

Kind(w) ==
  \/ Quiet(w) \/ Takes(w) \/ DropsName(w) \/ EmptiesSlot(w)
  \/ ClosesOne(w) \/ ClosesAll(w) \/ ClosesSlot(w) \/ Dies(w)

\* A worker whose buffer stays as it is holds the same connections.
LEMMA SameBuffer ==
  ASSUME NEW w \in Workers, clients'[w] = clients[w]
  PROVE  SameHeld(w)
  BY DEF SameHeld, Active

\* An empty buffer holds nothing.
LEMMA EmptyBuffer ==
  ASSUME NEW w \in Workers, clients[w] = <<>>
  PROVE  Active(w) = {} /\ HeldBy(w) = {}
  BY DEF Active, HeldBy

\* realloc() loses no connection.
LEMMA GrownHeld ==
  ASSUME WorkerTypeOK, NEW w \in Workers, NEW n \in Nat, n >= Len(clients[w]),
         clients'[w] = Grown(clients[w], n)
  PROVE  SameHeld(w)
<1>1. /\ clients[w] \in Seq(Entry) /\ Len(clients[w]) \in Nat
      /\ DOMAIN clients[w] = 1..Len(clients[w])
  BY DEF WorkerTypeOK
<1>2. /\ clients'[w] \in Seq(Entry) /\ Len(clients'[w]) = n
      /\ \A k \in 1..n : clients'[w][k] = IF k <= Len(clients[w]) THEN clients[w][k] ELSE FreeEntry
  <2>1. /\ Grown(clients[w], n) \in Seq(Entry) /\ Len(Grown(clients[w], n)) = n
        /\ \A k \in 1..n : Grown(clients[w], n)[k] =
             IF k <= Len(clients[w]) THEN clients[w][k] ELSE FreeEntry
    BY <1>1, GrownBuffer
  <2> QED
    BY <2>1, Zenon
<1>3. DOMAIN clients'[w] = 1..n
  BY <1>2
<1>4. \A k \in 1..Len(clients[w]) : k \in 1..n /\ clients'[w][k] = clients[w][k]
  BY <1>1, <1>2
<1>5. \A k \in 1..n : k \notin 1..Len(clients[w]) => clients'[w][k].socket = 0
  BY <1>1, <1>2 DEF FreeEntry
<1>6. \A k : k \in Active(w)' <=> k \in Active(w)
  BY <1>1, <1>3, <1>4, <1>5 DEF Active
<1> QED
  BY <1>1, <1>4, <1>6 DEF SameHeld, Active

\* Every step of a worker is of one of these kinds.
LEMMA WorkerKinds ==
  ASSUME SlotInv, StopOK, CopyOK, NEW w \in Workers, WorkerStep(w)
  PROVE  WorkerFrame(w) /\ PhaseMove(w) /\ Kind(w)
<1> USE DEF queueVars, lazyVars, serverVars, threadVars, mainVars, shared,
            notQueue, notLazy, notOpen
<1>a. WorkerTypeOK /\ SharedTypeOK /\ WorkerIndexOK /\ SlotOK
  BY DEF SlotInv, TypeOK
<1>b. \A p : p \in {"loop", "dead", "clean", "count", "expand", "copy", "take", "rel1",
                   "rel2", "lzid", "lzcmp", "lzsetid", "lzsetact", "select", "handle",
                   "clmax", "clwait", "clclose", "clscan", "clkill", "clqclose",
                   "clq1", "clq2", "done"} => p \in WorkerPCs
  BY DEF WorkerPCs
<1>c. /\ wi \in [Workers -> Slots] /\ wc \in [Workers -> Nat]
      /\ clients \in [Workers -> Seq(Entry)] /\ clients[w] \in Seq(Entry)
      /\ qThread \in [Slots -> Workers \cup {0}]
      /\ qSocket \in [Slots -> Fds \cup {0, -1}] /\ wi[w] \in Slots
  BY <1>a DEF WorkerTypeOK, SharedTypeOK
<1>1. CASE WorkerOpenDb(w)
  <2>1. /\ wpc[w] = "open" /\ wpc'[w] \in {"loop", "dead"}
        /\ \A v \in Workers \ {w} : wpc'[v] = wpc[v] /\ wi'[v] = wi[v]
    BY <1>1, <1>a, <1>b, <1>c, GoFacts DEF WorkerOpenDb, OthersKeep
  <2>2. /\ QueueKept /\ open' = open /\ clients' = clients
        /\ UNCHANGED <<mpc, mi, mlazy, merror, killserver, servsock, shutdown, created>>
        /\ lazyID' \in {lazyID, w} /\ \A v \in Workers \ {w} : wc'[v] = wc[v]
    BY <1>1, <1>a, <1>c DEF WorkerOpenDb, QueueKept
  <2>3. WorkerFrame(w)
    BY <2>1, <2>2 DEF WorkerFrame
  <2>4. Quiet(w)
    BY <2>1, <2>2, SameBuffer DEF Quiet
  <2>5. PhaseMove(w)
    BY <1>1, <2>1, <2>2 DEF PhaseMove, Cleaning, StopOK
  <2> QED
    BY <2>3, <2>4, <2>5 DEF Kind
<1>2. CASE WorkerLoop(w)
  <2>1. /\ wpc[w] = "loop" /\ wpc'[w] \in {"clean", "count"}
        /\ \A v \in Workers \ {w} : wpc'[v] = wpc[v] /\ wi'[v] = wi[v]
    BY <1>2, <1>a, <1>b, <1>c, GoFacts DEF WorkerLoop, OthersKeep
  <2>2. /\ QueueKept /\ open' = open /\ clients' = clients
        /\ UNCHANGED <<mpc, mi, mlazy, merror, killserver, servsock, shutdown, created>>
        /\ lazyID' \in {lazyID, w} /\ \A v \in Workers \ {w} : wc'[v] = wc[v]
    BY <1>2, <1>a, <1>c DEF WorkerLoop, QueueKept
  <2>3. WorkerFrame(w)
    BY <2>1, <2>2 DEF WorkerFrame
  <2>4. Quiet(w)
    BY <2>1, <2>2, SameBuffer DEF Quiet
  <2>5. PhaseMove(w)
    BY <1>2, <2>1, <2>2 DEF PhaseMove, Cleaning, StopOK, WorkerLoop, Go
  <2> QED
    BY <2>3, <2>4, <2>5 DEF Kind
<1>3. CASE WorkerCount(w)
  <2>1. /\ wpc[w] = "count" /\ wpc'[w] \in {"count", "expand"}
        /\ \A v \in Workers \ {w} : wpc'[v] = wpc[v] /\ wi'[v] = wi[v]
    BY <1>3, <1>a, <1>b, <1>c, NextSlotFacts DEF WorkerCount, OthersKeep
  <2>2. /\ QueueKept /\ open' = open /\ clients' = clients
        /\ UNCHANGED <<mpc, mi, mlazy, merror, killserver, servsock, shutdown, created>>
        /\ lazyID' \in {lazyID, w} /\ \A v \in Workers \ {w} : wc'[v] = wc[v]
    BY <1>3, <1>a, <1>c DEF WorkerCount, QueueKept
  <2>3. WorkerFrame(w)
    BY <2>1, <2>2 DEF WorkerFrame
  <2>4. Quiet(w)
    BY <2>1, <2>2, SameBuffer DEF Quiet
  <2>5. PhaseMove(w)
    BY <1>3, <2>1, <2>2 DEF PhaseMove, Cleaning, StopOK
  <2> QED
    BY <2>3, <2>4, <2>5 DEF Kind
<1>4. CASE WorkerReadLaziestID(w)
  <2>1. /\ wpc[w] = "lzid" /\ wpc'[w] \in {"lzsetid", "lzcmp"}
        /\ \A v \in Workers \ {w} : wpc'[v] = wpc[v] /\ wi'[v] = wi[v]
    BY <1>4, <1>a, <1>b, <1>c, GoFacts DEF WorkerReadLaziestID, OthersKeep
  <2>2. /\ QueueKept /\ open' = open /\ clients' = clients
        /\ UNCHANGED <<mpc, mi, mlazy, merror, killserver, servsock, shutdown, created>>
        /\ lazyID' \in {lazyID, w} /\ \A v \in Workers \ {w} : wc'[v] = wc[v]
    BY <1>4, <1>a, <1>c DEF WorkerReadLaziestID, QueueKept
  <2>3. WorkerFrame(w)
    BY <2>1, <2>2 DEF WorkerFrame
  <2>4. Quiet(w)
    BY <2>1, <2>2, SameBuffer DEF Quiet
  <2>5. PhaseMove(w)
    BY <1>4, <2>1, <2>2 DEF PhaseMove, Cleaning, StopOK
  <2> QED
    BY <2>3, <2>4, <2>5 DEF Kind
<1>5. CASE WorkerReadLaziestActive(w)
  <2>1. /\ wpc[w] = "lzcmp" /\ wpc'[w] \in {"lzsetid", "select"}
        /\ \A v \in Workers \ {w} : wpc'[v] = wpc[v] /\ wi'[v] = wi[v]
    BY <1>5, <1>a, <1>b, <1>c, GoFacts DEF WorkerReadLaziestActive, OthersKeep
  <2>2. /\ QueueKept /\ open' = open /\ clients' = clients
        /\ UNCHANGED <<mpc, mi, mlazy, merror, killserver, servsock, shutdown, created>>
        /\ lazyID' \in {lazyID, w} /\ \A v \in Workers \ {w} : wc'[v] = wc[v]
    BY <1>5, <1>a, <1>c DEF WorkerReadLaziestActive, QueueKept
  <2>3. WorkerFrame(w)
    BY <2>1, <2>2 DEF WorkerFrame
  <2>4. Quiet(w)
    BY <2>1, <2>2, SameBuffer DEF Quiet
  <2>5. PhaseMove(w)
    BY <1>5, <2>1, <2>2 DEF PhaseMove, Cleaning, StopOK
  <2> QED
    BY <2>3, <2>4, <2>5 DEF Kind
<1>6. CASE WorkerSetLaziestID(w)
  <2>1. /\ wpc[w] = "lzsetid" /\ wpc'[w] \in {"lzsetact"}
        /\ \A v \in Workers \ {w} : wpc'[v] = wpc[v] /\ wi'[v] = wi[v]
    BY <1>6, <1>a, <1>b, <1>c, GoFacts DEF WorkerSetLaziestID, OthersKeep
  <2>2. /\ QueueKept /\ open' = open /\ clients' = clients
        /\ UNCHANGED <<mpc, mi, mlazy, merror, killserver, servsock, shutdown, created>>
        /\ lazyID' \in {lazyID, w} /\ \A v \in Workers \ {w} : wc'[v] = wc[v]
    BY <1>6, <1>a, <1>c DEF WorkerSetLaziestID, QueueKept
  <2>3. WorkerFrame(w)
    BY <2>1, <2>2 DEF WorkerFrame
  <2>4. Quiet(w)
    BY <2>1, <2>2, SameBuffer DEF Quiet
  <2>5. PhaseMove(w)
    BY <1>6, <2>1, <2>2 DEF PhaseMove, Cleaning, StopOK
  <2> QED
    BY <2>3, <2>4, <2>5 DEF Kind
<1>7. CASE WorkerSetLaziestActive(w)
  <2>1. /\ wpc[w] = "lzsetact" /\ wpc'[w] \in {"select"}
        /\ \A v \in Workers \ {w} : wpc'[v] = wpc[v] /\ wi'[v] = wi[v]
    BY <1>7, <1>a, <1>b, <1>c, GoFacts DEF WorkerSetLaziestActive, OthersKeep
  <2>2. /\ QueueKept /\ open' = open /\ clients' = clients
        /\ UNCHANGED <<mpc, mi, mlazy, merror, killserver, servsock, shutdown, created>>
        /\ lazyID' \in {lazyID, w} /\ \A v \in Workers \ {w} : wc'[v] = wc[v]
    BY <1>7, <1>a, <1>c DEF WorkerSetLaziestActive, QueueKept
  <2>3. WorkerFrame(w)
    BY <2>1, <2>2 DEF WorkerFrame
  <2>4. Quiet(w)
    BY <2>1, <2>2, SameBuffer DEF Quiet
  <2>5. PhaseMove(w)
    BY <1>7, <2>1, <2>2 DEF PhaseMove, Cleaning, StopOK
  <2> QED
    BY <2>3, <2>4, <2>5 DEF Kind
<1>8. CASE WorkerKeep(w)
  <2>1. /\ wpc[w] = "handle" /\ wpc'[w] \in {"handle", "loop"}
        /\ \A v \in Workers \ {w} : wpc'[v] = wpc[v] /\ wi'[v] = wi[v]
    BY <1>8, <1>a, <1>b, <1>c, NextClientFacts DEF WorkerKeep, OthersKeep
  <2>2. /\ QueueKept /\ open' = open /\ clients' = clients
        /\ UNCHANGED <<mpc, mi, mlazy, merror, killserver, servsock, shutdown, created>>
        /\ lazyID' \in {lazyID, w} /\ \A v \in Workers \ {w} : wc'[v] = wc[v]
    BY <1>8, <1>a, <1>c, NextClientFacts DEF WorkerKeep, QueueKept
  <2>3. WorkerFrame(w)
    BY <2>1, <2>2 DEF WorkerFrame
  <2>4. Quiet(w)
    BY <2>1, <2>2, SameBuffer DEF Quiet
  <2>5. PhaseMove(w)
    BY <1>8, <2>1, <2>2 DEF PhaseMove, Cleaning, StopOK
  <2> QED
    BY <2>3, <2>4, <2>5 DEF Kind
<1>9. CASE WorkerLeaveBalancing(w)
  <2>1. /\ wpc[w] = "clean" /\ wpc'[w] \in {"clmax", "clclose"}
        /\ \A v \in Workers \ {w} : wpc'[v] = wpc[v] /\ wi'[v] = wi[v]
    BY <1>9, <1>a, <1>b, <1>c, GoFacts DEF WorkerLeaveBalancing, OthersKeep
  <2>2. /\ QueueKept /\ open' = open /\ clients' = clients
        /\ UNCHANGED <<mpc, mi, mlazy, merror, killserver, servsock, shutdown, created>>
        /\ lazyID' \in {lazyID, w} /\ \A v \in Workers \ {w} : wc'[v] = wc[v]
    BY <1>9, <1>a, <1>c DEF WorkerLeaveBalancing, QueueKept
  <2>3. WorkerFrame(w)
    BY <2>1, <2>2 DEF WorkerFrame
  <2>4. Quiet(w)
    BY <2>1, <2>2, SameBuffer DEF Quiet
  <2>5. PhaseMove(w)
    BY <1>9, <2>1, <2>2 DEF PhaseMove, Cleaning, StopOK
  <2> QED
    BY <2>3, <2>4, <2>5 DEF Kind
<1>10. CASE WorkerOfferBalancing(w)
  <2>1. /\ wpc[w] = "clmax" /\ wpc'[w] \in {"clwait"}
        /\ \A v \in Workers \ {w} : wpc'[v] = wpc[v] /\ wi'[v] = wi[v]
    BY <1>10, <1>a, <1>b, <1>c, GoFacts DEF WorkerOfferBalancing, OthersKeep
  <2>2. /\ QueueKept /\ open' = open /\ clients' = clients
        /\ UNCHANGED <<mpc, mi, mlazy, merror, killserver, servsock, shutdown, created>>
        /\ lazyID' \in {lazyID, w} /\ \A v \in Workers \ {w} : wc'[v] = wc[v]
    BY <1>10, <1>a, <1>c DEF WorkerOfferBalancing, QueueKept
  <2>3. WorkerFrame(w)
    BY <2>1, <2>2 DEF WorkerFrame
  <2>4. Quiet(w)
    BY <2>1, <2>2, SameBuffer DEF Quiet
  <2>5. PhaseMove(w)
    BY <1>10, <2>1, <2>2 DEF PhaseMove, Cleaning, StopOK
  <2> QED
    BY <2>3, <2>4, <2>5 DEF Kind
<1>11. CASE WorkerAwaitRelief(w)
  <2>1. /\ wpc[w] = "clwait" /\ wpc'[w] \in {"clclose"}
        /\ \A v \in Workers \ {w} : wpc'[v] = wpc[v] /\ wi'[v] = wi[v]
    BY <1>11, <1>a, <1>b, <1>c, GoFacts DEF WorkerAwaitRelief, OthersKeep
  <2>2. /\ QueueKept /\ open' = open /\ clients' = clients
        /\ UNCHANGED <<mpc, mi, mlazy, merror, killserver, servsock, shutdown, created>>
        /\ lazyID' \in {lazyID, w} /\ \A v \in Workers \ {w} : wc'[v] = wc[v]
    BY <1>11, <1>a, <1>c DEF WorkerAwaitRelief, QueueKept
  <2>3. WorkerFrame(w)
    BY <2>1, <2>2 DEF WorkerFrame
  <2>4. Quiet(w)
    BY <2>1, <2>2, SameBuffer DEF Quiet
  <2>5. PhaseMove(w)
    BY <1>11, <2>1, <2>2 DEF PhaseMove, Cleaning, StopOK
  <2> QED
    BY <2>3, <2>4, <2>5 DEF Kind
<1>12. CASE WorkerScanQueue(w)
  <2>1. /\ wpc[w] = "clscan" /\ wpc'[w] \in {"clscan", "done", "clkill"}
        /\ \A v \in Workers \ {w} : wpc'[v] = wpc[v] /\ wi'[v] = wi[v]
    <3>1. CASE qThread[wi[w]] # w
      <4>1. NextSlot(w, "clscan", "clscan", "done")
        BY <1>12, <3>1 DEF WorkerScanQueue
      <4>2. wpc[w] = "clscan" /\ wpc'[w] \in {"clscan", "done"} /\ OthersKeep(w)
        BY <4>1, <1>a, <1>b, NextSlotFacts
      <4> QED
        BY <4>2 DEF OthersKeep
    <3>2. CASE qThread[wi[w]] = w
      <4>1. Go(w, "clscan", "clkill") /\ wi' = wi
        BY <1>12, <3>2 DEF WorkerScanQueue
      <4>2. /\ wpc[w] = "clscan" /\ wpc'[w] = "clkill"
            /\ \A v \in Workers \ {w} : wpc'[v] = wpc[v]
        BY <4>1, <1>a, <1>b, GoFacts
      <4> QED
        BY <4>1, <4>2
    <3> QED
      BY <3>1, <3>2
  <2>2. /\ QueueKept /\ open' = open /\ clients' = clients
        /\ UNCHANGED <<mpc, mi, mlazy, merror, killserver, servsock, shutdown, created>>
        /\ lazyID' \in {lazyID, w} /\ \A v \in Workers \ {w} : wc'[v] = wc[v]
    BY <1>12, <1>a, <1>c DEF WorkerScanQueue, QueueKept
  <2>3. WorkerFrame(w)
    BY <2>1, <2>2 DEF WorkerFrame
  <2>4. Quiet(w)
    BY <2>1, <2>2, SameBuffer DEF Quiet
  <2>5. PhaseMove(w)
    BY <1>12, <2>1, <2>2 DEF PhaseMove, Cleaning, StopOK
  <2> QED
    BY <2>3, <2>4, <2>5 DEF Kind
<1>13. CASE WorkerExpand(w)
  <2>1. /\ wpc[w] = "expand" /\ wpc'[w] = "copy" /\ \A v \in Workers \ {w} : wpc'[v] = wpc[v]
    BY <1>13, <1>a, <1>b, GoFacts DEF WorkerExpand
  <2>2. /\ QueueKept /\ open' = open /\ wi' = wi
        /\ UNCHANGED <<mpc, mi, mlazy, merror, killserver, servsock, shutdown, created, lazyID>>
        /\ \A v \in Workers \ {w} : wc'[v] = wc[v] /\ clients'[v] = clients[v]
    BY <1>13, <1>c DEF WorkerExpand, QueueKept
  <2>3. SameHeld(w)
    <3>1. CASE Delta(w) > 0
      <4>1. Delta(w) \in Int /\ Len(clients[w]) \in Nat
        BY <1>c, <1>a DEF Delta, WorkerTypeOK
      <4>2. Len(clients[w]) + Delta(w) \in Nat /\ Len(clients[w]) + Delta(w) >= Len(clients[w])
        BY <3>1, <4>1
      <4>3. clients'[w] = Grown(clients[w], Len(clients[w]) + Delta(w))
        BY <1>13, <1>c, <3>1 DEF WorkerExpand
      <4> QED
        BY <1>a, <4>2, <4>3, GrownHeld
    <3>2. CASE ~(Delta(w) > 0)
      <4>1. clients'[w] = clients[w]
        BY <1>13, <3>2 DEF WorkerExpand
      <4> QED
        BY <4>1, SameBuffer
    <3> QED
      BY <3>1, <3>2
  <2> QED
    BY <2>1, <2>2, <2>3 DEF WorkerFrame, PhaseMove, Cleaning, Kind, Quiet
<1>14. CASE WorkerCopy(w)
  <2>1. CASE qThread[wi[w]] # w
    <3>1. /\ wpc[w] = "copy" /\ wpc'[w] \in {"copy", "lzid"}
          /\ \A v \in Workers \ {w} : wpc'[v] = wpc[v] /\ wi'[v] = wi[v]
      BY <1>14, <2>1, <1>a, <1>b, NextSlotFacts DEF WorkerCopy, OthersKeep
    <3>2. /\ QueueKept /\ open' = open /\ clients' = clients /\ wc' = wc
          /\ UNCHANGED <<mpc, mi, mlazy, merror, killserver, servsock, shutdown, created, lazyID>>
      BY <1>14, <2>1 DEF WorkerCopy, QueueKept
    <3>3. SameHeld(w)
      BY <3>2, SameBuffer
    <3> QED
      BY <3>1, <3>2, <3>3 DEF WorkerFrame, PhaseMove, Cleaning, Kind, Quiet
  <2>2. CASE qThread[wi[w]] = w
    <3>1. /\ wpc[w] = "copy" /\ wpc'[w] = "take" /\ wi' = wi
          /\ \A v \in Workers \ {w} : wpc'[v] = wpc[v]
      BY <1>14, <2>2, <1>a, <1>b, GoFacts DEF WorkerCopy
    <3>2. /\ QueueKept /\ open' = open
          /\ UNCHANGED <<mpc, mi, mlazy, merror, killserver, servsock, shutdown, created, lazyID>>
      BY <1>14, <2>2 DEF WorkerCopy, QueueKept
    <3>3. PICK k \in 1..(Len(clients[w]) + 1) :
            /\ FirstFree(w, k) /\ wc' = [wc EXCEPT ![w] = k]
            /\ clients' = IF k > Len(clients[w])
                            THEN [clients EXCEPT ![w] = Grown(clients[w], k)] ELSE clients
      BY <1>14, <2>2 DEF WorkerCopy
    <3>4. wc'[w] = k /\ \A v \in Workers \ {w} : wc'[v] = wc[v] /\ clients'[v] = clients[v]
      BY <1>c, <3>3
    <3>5. Len(clients[w]) \in Nat /\ k \in Nat
      BY <1>c
    <3>6. SameHeld(w) /\ clients'[w][k].socket = 0
      <4>1. CASE k > Len(clients[w])
        <5>1. clients'[w] = Grown(clients[w], k) /\ k >= Len(clients[w])
          BY <1>c, <3>3, <3>5, <4>1
        <5>2. Grown(clients[w], k)[k] = FreeEntry
          BY <1>c, <3>5, <4>1 DEF Grown
        <5>3. SameHeld(w)
          BY <1>a, <3>5, <5>1, GrownHeld
        <5>4. clients'[w][k].socket = 0
          BY <5>1, <5>2 DEF FreeEntry
        <5> QED
          BY <5>3, <5>4
      <4>2. CASE ~(k > Len(clients[w]))
        <5>1. clients' = clients /\ k <= Len(clients[w])
          BY <3>3, <3>5, <4>2
        <5>2. clients[w][k].socket = 0
          BY <3>3, <5>1 DEF FirstFree
        <5> QED
          BY <5>1, <5>2, SameBuffer
      <4> QED
        BY <4>1, <4>2
    <3> QED
      BY <3>1, <3>2, <3>4, <3>6 DEF WorkerFrame, PhaseMove, Cleaning, Kind, Quiet
  <2> QED
    BY <2>1, <2>2
<1>15. CASE WorkerReallocFail(w)
  <2>1. /\ wpc[w] \in {"expand", "copy"} /\ wpc'[w] = "dead"
        /\ \A v \in Workers \ {w} : wpc'[v] = wpc[v]
    BY <1>15, <1>a, <1>b, GoFacts DEF WorkerReallocFail
  <2>2. /\ QueueKept /\ open' = open /\ wi' = wi /\ wc' = wc
        /\ UNCHANGED <<mpc, mi, mlazy, merror, killserver, servsock, shutdown, created, lazyID>>
        /\ clients'[w] = <<>> /\ \A v \in Workers \ {w} : clients'[v] = clients[v]
    BY <1>15, <1>c DEF WorkerReallocFail, QueueKept
  <2> QED
    BY <2>1, <2>2 DEF WorkerFrame, PhaseMove, Cleaning, Kind, Dies
<1>16. CASE WorkerTake(w)
  <2>1. /\ wpc[w] = "take" /\ wpc'[w] = "rel1" /\ \A v \in Workers \ {w} : wpc'[v] = wpc[v]
    BY <1>16, <1>a, <1>b, GoFacts DEF WorkerTake
  <2> DEFINE e == [socket |-> qSocket[wi[w]], recv_iter |-> 0]
  <2>2. /\ QueueKept /\ open' = open /\ wi' = wi /\ wc' = wc
        /\ UNCHANGED <<mpc, mi, mlazy, merror, killserver, servsock, shutdown, created, lazyID>>
        /\ \A v \in Workers \ {w} : clients'[v] = clients[v]
        /\ clients'[w] = [clients[w] EXCEPT ![wc[w]] = e]
    BY <1>16, <1>c DEF WorkerTake, QueueKept
  <2>3. wc[w] # 0 /\ wc[w] <= Len(clients[w]) /\ wc[w] \in Nat /\ Len(clients[w]) \in Nat
    BY <1>a, <1>c, <2>1 DEF WorkerIndexOK
  <2>4. wc[w] \in 1..Len(clients[w]) /\ DOMAIN clients[w] = 1..Len(clients[w])
    BY <1>c, <2>3
  <2>5. DOMAIN clients'[w] = DOMAIN clients[w] /\ clients'[w][wc[w]] = e
        /\ \A k \in DOMAIN clients[w] \ {wc[w]} : clients'[w][k] = clients[w][k]
    BY <2>2, <2>4
  <2>6. qSocket[wi[w]] # 0
    <3>1. qThread[wi[w]] = w /\ w # 0
      BY <1>a, <2>1 DEF SlotOK, Claiming, Workers
    <3> QED
      BY <1>a, <1>c, <3>1, FdsAssumption DEF SlotOK
  <2>7. clients[w][wc[w]].socket = 0
    BY <2>1 DEF CopyOK
  <2>8. /\ wc[w] \notin Active(w) /\ Active(w)' = Active(w) \cup {wc[w]}
        /\ clients'[w][wc[w]].socket = qSocket[wi[w]]
        /\ \A k \in Active(w) : clients'[w][k].socket = clients[w][k].socket
    BY <2>4, <2>5, <2>6, <2>7 DEF Active
  <2> QED
    BY <2>1, <2>2, <2>8 DEF WorkerFrame, PhaseMove, Cleaning, Kind, Takes
<1>17. CASE WorkerReleaseThread(w) \/ WorkerClearThread(w)
  <2>1. /\ \/ wpc[w] = "rel1" /\ wpc'[w] = "rel2"
           \/ wpc[w] = "clq1" /\ wpc'[w] = "clq2"
        /\ \A v \in Workers \ {w} : wpc'[v] = wpc[v]
    BY <1>17, <1>a, <1>b, GoFacts DEF WorkerReleaseThread, WorkerClearThread
  <2>2. /\ qSocket' = qSocket /\ open' = open /\ wi' = wi /\ wc' = wc /\ clients' = clients
        /\ UNCHANGED <<mpc, mi, mlazy, merror, killserver, servsock, shutdown, created, lazyID>>
        /\ qThread'[wi[w]] = 0 /\ \A i \in Slots \ {wi[w]} : qThread'[i] = qThread[i]
    BY <1>17, <1>c DEF WorkerReleaseThread, WorkerClearThread
  <2> QED
    BY <2>1, <2>2 DEF WorkerFrame, PhaseMove, Cleaning, Kind, DropsName, StopOK
<1>18. CASE WorkerReleaseSocket(w) \/ WorkerClearSocket(w)
  <2>1. /\ \/ wpc[w] = "rel2" /\ wpc'[w] \in {"copy", "lzid"}
           \/ wpc[w] = "clq2" /\ wpc'[w] \in {"clscan", "done"}
        /\ \A v \in Workers \ {w} : wpc'[v] = wpc[v] /\ wi'[v] = wi[v]
    BY <1>18, <1>a, <1>b, NextSlotFacts DEF WorkerReleaseSocket, WorkerClearSocket, OthersKeep
  <2>2. /\ qThread' = qThread /\ open' = open /\ wc' = wc /\ clients' = clients
        /\ UNCHANGED <<mpc, mi, mlazy, merror, killserver, servsock, shutdown, created, lazyID>>
        /\ qSocket'[wi[w]] = 0 /\ \A i \in Slots \ {wi[w]} : qSocket'[i] = qSocket[i]
    BY <1>18, <1>c DEF WorkerReleaseSocket, WorkerClearSocket
  <2> QED
    BY <2>1, <2>2 DEF WorkerFrame, PhaseMove, Cleaning, Kind, EmptiesSlot, StopOK
<1>19. CASE WorkerSelect(w)
  <2>1. /\ wpc[w] = "select" /\ wpc'[w] \in {"loop", "handle"}
        /\ \A v \in Workers \ {w} : wpc'[v] = wpc[v]
    BY <1>19, <1>a, <1>b, GoFacts DEF WorkerSelect
  <2>2. /\ QueueKept /\ open' = open /\ wi' = wi
        /\ UNCHANGED <<mpc, mi, mlazy, merror, killserver, servsock, shutdown, created, lazyID>>
        /\ \A v \in Workers \ {w} : clients'[v] = clients[v] /\ wc'[v] = wc[v]
        /\ clients'[w] = [k \in 1..Len(clients[w]) |-> Polled(clients[w][k])]
    BY <1>19, <1>c DEF WorkerSelect, QueueKept
  <2>3. DOMAIN clients[w] = 1..Len(clients[w]) /\ DOMAIN clients'[w] = 1..Len(clients[w])
    BY <1>c, <2>2
  <2>4. \A k \in 1..Len(clients[w]) : clients'[w][k].socket = clients[w][k].socket
    BY <1>c, <2>2 DEF Polled
  <2>5. SameHeld(w)
    BY <2>3, <2>4 DEF SameHeld, Active
  <2> QED
    BY <2>1, <2>2, <2>5 DEF WorkerFrame, PhaseMove, Cleaning, Kind, Quiet
<1>20. CASE WorkerClose(w)
  <2>1. /\ wpc[w] = "handle" /\ wpc'[w] \in {"handle", "loop"}
        /\ \A v \in Workers \ {w} : wpc'[v] = wpc[v] /\ wc'[v] = wc[v]
    BY <1>20, <1>a, <1>c, NextClientFacts DEF WorkerClose
  <2>2. /\ QueueKept /\ wi' = wi
        /\ UNCHANGED <<mpc, mi, mlazy, merror, killserver, servsock, shutdown, created, lazyID>>
        /\ \A v \in Workers \ {w} : clients'[v] = clients[v]
        /\ clients'[w] = [clients[w] EXCEPT ![wc[w]] = FreeEntry]
        /\ clients[w][wc[w]].socket # 0 /\ open' = open \ {clients[w][wc[w]].socket}
    BY <1>20, <1>c DEF WorkerClose, QueueKept
  <2>3. wc[w] # 0 /\ wc[w] <= Len(clients[w]) /\ wc[w] \in Nat /\ Len(clients[w]) \in Nat
    BY <1>a, <1>c, <2>1 DEF WorkerIndexOK
  <2>4. wc[w] \in 1..Len(clients[w]) /\ DOMAIN clients[w] = 1..Len(clients[w])
    BY <1>c, <2>3
  <2>5. DOMAIN clients'[w] = DOMAIN clients[w] /\ clients'[w][wc[w]] = FreeEntry
        /\ \A k \in DOMAIN clients[w] \ {wc[w]} : clients'[w][k] = clients[w][k]
    BY <2>2, <2>4
  <2>6. /\ wc[w] \in Active(w) /\ Active(w)' = Active(w) \ {wc[w]}
        /\ \A k \in Active(w) \ {wc[w]} : clients'[w][k].socket = clients[w][k].socket
    BY <2>2, <2>4, <2>5 DEF Active, FreeEntry
  <2> QED
    BY <2>1, <2>2, <2>6 DEF WorkerFrame, PhaseMove, Cleaning, Kind, ClosesOne
<1>21. CASE WorkerCloseClients(w)
  <2>1. /\ wpc[w] = "clclose" /\ wpc'[w] = "clscan" /\ \A v \in Workers \ {w} : wpc'[v] = wpc[v]
    BY <1>21, <1>a, <1>b, GoFacts DEF WorkerCloseClients
  <2>2. /\ QueueKept /\ wi' = wi /\ wc' = wc
        /\ UNCHANGED <<mpc, mi, mlazy, merror, killserver, servsock, shutdown, created, lazyID>>
        /\ \A v \in Workers \ {w} : clients'[v] = clients[v]
        /\ clients'[w] = <<>> /\ open' = open \ HeldBy(w)
    BY <1>21, <1>c DEF WorkerCloseClients, QueueKept
  <2> QED
    BY <2>1, <2>2 DEF WorkerFrame, PhaseMove, Cleaning, Kind, ClosesAll
<1>22. CASE WorkerCloseOrReassign(w)
  <2>1. wpc[w] = "clkill"
    BY <1>22, <1>a, <1>b, GoFacts, NextSlotFacts DEF WorkerCloseOrReassign
  <2>2. killserver /\ clients[w] = <<>>
    BY <2>1 DEF StopOK, Cleaning
  <2>3. Go(w, "clkill", "clqclose") /\ UNCHANGED <<qThread, wi>>
    BY <1>22, <2>2 DEF WorkerCloseOrReassign
  <2>4. wpc'[w] = "clqclose" /\ \A v \in Workers \ {w} : wpc'[v] = wpc[v]
    BY <2>3, <1>a, <1>b, GoFacts
  <2>5. /\ QueueKept /\ open' = open /\ clients' = clients /\ wc' = wc
        /\ UNCHANGED <<mpc, mi, mlazy, merror, killserver, servsock, shutdown, created, lazyID>>
    BY <1>22, <2>3 DEF WorkerCloseOrReassign, QueueKept
  <2>6. SameHeld(w)
    BY <2>5, SameBuffer
  <2> QED
    BY <2>1, <2>2, <2>3, <2>4, <2>5, <2>6 DEF WorkerFrame, PhaseMove, Cleaning, Kind, Quiet
<1>23. CASE WorkerCloseQueued(w)
  <2>1. /\ wpc[w] = "clqclose" /\ wpc'[w] = "clq1" /\ \A v \in Workers \ {w} : wpc'[v] = wpc[v]
    BY <1>23, <1>a, <1>b, GoFacts DEF WorkerCloseQueued
  <2>2. /\ QueueKept /\ wi' = wi /\ wc' = wc /\ clients' = clients
        /\ UNCHANGED <<mpc, mi, mlazy, merror, killserver, servsock, shutdown, created, lazyID>>
        /\ open' = open \ {qSocket[wi[w]]}
    BY <1>23 DEF WorkerCloseQueued, QueueKept
  <2>3. clients[w] = <<>>
    BY <2>1 DEF StopOK
  <2> QED
    BY <2>1, <2>2, <2>3 DEF WorkerFrame, PhaseMove, Cleaning, Kind, ClosesSlot
<1> QED
  BY <1>1, <1>2, <1>3, <1>4, <1>5, <1>6, <1>7, <1>8, <1>9, <1>10, <1>11, <1>12, <1>13, <1>14,
     <1>15, <1>16, <1>17, <1>18, <1>19, <1>20, <1>21, <1>22, <1>23 DEF WorkerStep

-----------------------------------------------------------------------------
(***************************************************************************)
(* The order of start-up and shutdown, under a step of a worker.           *)
(***************************************************************************)

\* No worker opens or queues a connection.
LEMMA KindFacts ==
  ASSUME NEW w \in Workers, Kind(w)
  PROVE  /\ open' \subseteq open
         /\ \A i \in Slots : qSocket'[i] = qSocket[i] \/ qSocket'[i] = 0
  BY DEF Kind, Quiet, Takes, DropsName, EmptiesSlot, ClosesOne, ClosesAll, ClosesSlot, Dies,
         QueueKept

\* Every step of a worker preserves the order of start-up and shutdown.
LEMMA WorkerPhaseOK ==
  ASSUME PhaseOK, NEW w \in Workers, WorkerFrame(w), PhaseMove(w), Kind(w)
  PROVE  PhaseOK'
<1>1. /\ open' \subseteq open
      /\ \A i \in Slots : qSocket'[i] = qSocket[i] \/ qSocket'[i] = 0
  BY KindFacts
<1>2. StartOK'
  <2>1. servsock' = "none" => open' = {} /\ \A i \in Slots : qSocket'[i] \notin Fds
    BY <1>1, FdsAssumption DEF PhaseOK, StartOK, WorkerFrame
  <2>2. lazyID # 0 => lazyID' # 0
    BY DEF WorkerFrame, Workers
  <2> QED
    BY <2>1, <2>2 DEF PhaseOK, StartOK, WorkerFrame, Starting, Accepting, Ending
<1>3. StopOK'
  <2> SUFFICES ASSUME NEW v \in Workers
               PROVE  /\ shutdown'[v] \/ Cleaning(v)' => killserver' /\ (Ending' \/ mpc' = "crashed")
                      /\ wpc'[v] = "none" <=> v \notin created'
                      /\ wpc'[v] \in {"none", "open", "clscan", "clkill", "clqclose", "clq1",
                                      "clq2", "done", "dead"} => clients'[v] = <<>>
                      /\ v \in created' /\ ~merror' =>
                           /\ mpc' \in {"stray", "free", "exited"} => Returned(v)'
                           /\ mpc' \in {"term", "join"} /\ v < mi' => Returned(v)'
    BY DEF StopOK
  <2>1. CASE v # w
    BY <2>1 DEF PhaseOK, StopOK, WorkerFrame, Cleaning, Ending, Returned
  <2>2. CASE v = w
    <3>1. ~Returned(w)
      BY DEF PhaseMove, Returned
    <3>2. shutdown'[w] \/ Cleaning(w)' => killserver' /\ (Ending' \/ mpc' = "crashed")
      BY DEF PhaseOK, StopOK, WorkerFrame, PhaseMove, Ending
    <3>3. wpc'[w] = "none" <=> w \notin created'
      BY DEF PhaseOK, StopOK, WorkerFrame, PhaseMove
    <3>4. wpc'[w] \in {"none", "open", "clscan", "clkill", "clqclose", "clq1",
                       "clq2", "done", "dead"} => clients'[w] = <<>>
      BY DEF PhaseMove
    <3> QED
      BY <2>2, <3>1, <3>2, <3>3, <3>4 DEF PhaseOK, StopOK, WorkerFrame
  <2> QED
    BY <2>1, <2>2
<1> QED
  BY <1>2, <1>3 DEF PhaseOK

-----------------------------------------------------------------------------
(***************************************************************************)
(* The connections, under each kind of step.                               *)
(***************************************************************************)

ConnInv == CopyOK /\ Handover /\ SoleOwner /\ HeldIsOpen /\ Tracked

\* The other workers keep what they hold.
LEMMA OthersHeld ==
  ASSUME NEW w \in Workers, WorkerFrame(w), NEW v \in Workers \ {w}
  PROVE  /\ SameHeld(v) /\ HeldBy(v)' = HeldBy(v)
         /\ wpc'[v] = wpc[v] /\ wi'[v] = wi[v] /\ wc'[v] = wc[v]
         /\ clients'[v] = clients[v]
<1>1. clients'[v] = clients[v]
  BY DEF WorkerFrame
<1>2. SameHeld(v) /\ HeldBy(v)' = HeldBy(v)
  BY <1>1 DEF SameHeld, Active, HeldBy
<1> QED
  BY <1>1, <1>2 DEF WorkerFrame

\* The same connections in the same places are the same connections.
LEMMA HeldFacts ==
  ASSUME NEW w \in Workers, SameHeld(w)
  PROVE  HeldBy(w)' = HeldBy(w)
  BY DEF SameHeld, HeldBy

\* What is held is a descriptor.
LEMMA HeldIsFd ==
  ASSUME WorkerTypeOK, NEW w \in Workers, NEW k \in Active(w)
  PROVE  clients[w][k].socket \in Fds /\ clients[w][k].socket \in HeldBy(w)
<1>1. clients[w] \in Seq(Entry) /\ k \in DOMAIN clients[w] /\ clients[w][k].socket # 0
  BY DEF WorkerTypeOK, Active
<1>2. clients[w][k] \in Entry
  BY <1>1
<1> QED
  BY <1>1, <1>2 DEF Entry, HeldBy

\* A step that only counts, polls, balances or claims a slot.
LEMMA QuietKind ==
  ASSUME IInv, NEW w \in Workers, WorkerFrame(w), PhaseMove(w), Quiet(w)
  PROVE  ConnInv'
<1>1. /\ qSocket' = qSocket /\ qThread' = qThread /\ open' = open
      /\ mpc' = mpc /\ mi' = mi
      /\ wpc[w] \notin {"take", "rel1", "rel2", "clq1", "clq2"}
      /\ wpc'[w] \notin {"rel1", "rel2", "clq1", "clq2"}
      /\ wpc'[w] = "take" => clients'[w][wc'[w]].socket = 0
  BY DEF Quiet, QueueKept, WorkerFrame
<1>2. \A v \in Workers : SameHeld(v) /\ HeldBy(v)' = HeldBy(v)
  BY OthersHeld, HeldFacts DEF Quiet
<1>3. \A v \in Workers \ {w} : /\ wpc'[v] = wpc[v] /\ wi'[v] = wi[v] /\ wc'[v] = wc[v]
                              /\ clients'[v] = clients[v]
  BY DEF WorkerFrame
<1>4. CopyOK'
  BY <1>1, <1>3 DEF IInv, CopyOK
<1>5. Handover'
  BY <1>1, <1>3 DEF IInv, Handover
<1>6. \A v \in Workers, i \in Slots : \A k : Moving(v, i, k)' <=> Moving(v, i, k)
  BY <1>1, <1>3 DEF Moving
<1>7. SoleOwner'
  BY <1>1, <1>2, <1>6 DEF IInv, SoleOwner, SameHeld
<1>8. \A i \in Slots : Closing(i) => Closing(i)'
  BY <1>1, <1>3 DEF Closing
<1>9. HeldIsOpen'
  BY <1>1, <1>2, <1>8 DEF IInv, HeldIsOpen
<1>10. Tracked'
  <2>1. NoLeak => NoLeak'
    BY <1>1, <1>2 DEF NoLeak
  <2>2. wpc[w] # "dead"
    BY DEF PhaseMove
  <2> QED
    BY <1>3, <2>1, <2>2 DEF IInv, Tracked
<1> QED
  BY <1>4, <1>5, <1>7, <1>9, <1>10 DEF ConnInv

\* A worker that has claimed a slot and has not copied it is alone with it.
LEMMA ClaimedAlone ==
  ASSUME IInv, NEW w \in Workers, wpc[w] \in {"take", "clqclose"}
  PROVE  /\ wi[w] \in Slots /\ qThread[wi[w]] = w /\ qSocket[wi[w]] \in Fds
         /\ \A v \in Workers : \A k \in Active(v) : clients[v][k].socket # qSocket[wi[w]]
<1>1. wi[w] \in Slots /\ w # 0
  BY DEF IInv, SlotInv, TypeOK, WorkerTypeOK, Workers
<1>2. qThread[wi[w]] = w /\ qSocket[wi[w]] \in Fds
  BY <1>1 DEF IInv, SlotInv, SlotOK, Claiming
<1>3. ASSUME NEW v \in Workers, NEW k \in Active(v), clients[v][k].socket = qSocket[wi[w]]
      PROVE  FALSE
  <2>1. wpc[v] \in {"rel1", "rel2"} /\ wi[v] = wi[w]
    BY <1>1, <1>3 DEF IInv, SoleOwner, Moving
  <2>2. wpc[v] = "rel1" => qThread[wi[v]] = v
    BY DEF IInv, SlotInv, SlotOK, Claiming
  <2>3. wpc[v] = "rel2" => qThread[wi[v]] = 0
    BY DEF IInv, SlotInv, SlotOK, Releasing
  <2> QED
    BY <1>1, <1>2, <2>1, <2>2, <2>3
<1> QED
  BY <1>1, <1>2, <1>3

\* What a worker is about to copy has not been closed.
LEMMA TakenIsOpen ==
  ASSUME IInv, NEW w \in Workers, wpc[w] = "take"
  PROVE  qSocket[wi[w]] \in open
<1>1. wi[w] \in Slots /\ qThread[wi[w]] = w /\ qSocket[wi[w]] \in Fds
  BY ClaimedAlone
<1>2. ASSUME NEW v \in Workers, wpc[v] \in {"clq1", "clq2"}, wi[v] = wi[w]
      PROVE  FALSE
  <2>1. wpc[v] = "clq1" => qThread[wi[v]] = v
    BY DEF IInv, SlotInv, SlotOK, Claiming
  <2>2. wpc[v] = "clq2" => qThread[wi[v]] = 0
    BY DEF IInv, SlotInv, SlotOK, Releasing
  <2> QED
    BY <1>1, <1>2, <2>1, <2>2 DEF Workers
<1>3. mpc \notin {"stray", "free", "exited"}
  <2>1. ~merror
    BY <1>1 DEF IInv, PhaseOK, StartOK
  <2>2. w \in created /\ ~Returned(w)
    BY DEF IInv, PhaseOK, StopOK, Returned
  <2> QED
    BY <2>1, <2>2 DEF IInv, PhaseOK, StopOK
<1> QED
  BY <1>1, <1>2, <1>3 DEF IInv, HeldIsOpen, Closing

\* The copy: for a moment the connection is in the slot and in the buffer.
LEMMA TakesKind ==
  ASSUME IInv, NEW w \in Workers, WorkerFrame(w), PhaseMove(w), Takes(w)
  PROVE  ConnInv'
<1> DEFINE s == qSocket[wi[w]]
<1>1. /\ qSocket' = qSocket /\ qThread' = qThread /\ open' = open
      /\ mpc' = mpc /\ mi' = mi
      /\ wpc[w] = "take" /\ wpc'[w] = "rel1" /\ wi'[w] = wi[w] /\ wc'[w] = wc[w]
      /\ wc[w] \notin Active(w) /\ Active(w)' = Active(w) \cup {wc[w]}
      /\ clients'[w][wc[w]].socket = s
      /\ \A k \in Active(w) : clients'[w][k].socket = clients[w][k].socket
  BY DEF Takes, QueueKept, WorkerFrame
<1>2. /\ wi[w] \in Slots /\ qThread[wi[w]] = w /\ s \in Fds
      /\ \A v \in Workers : \A k \in Active(v) : clients[v][k].socket # s
  BY <1>1, ClaimedAlone
<1>3. \A v \in Workers \ {w} : /\ wpc'[v] = wpc[v] /\ wi'[v] = wi[v] /\ wc'[v] = wc[v]
                              /\ clients'[v] = clients[v] /\ SameHeld(v)
                              /\ HeldBy(v)' = HeldBy(v)
  BY OthersHeld
<1>4. HeldBy(w)' = HeldBy(w) \cup {s}
  BY <1>1 DEF HeldBy
<1>5. s \in open
  BY <1>1, TakenIsOpen
<1>6. CopyOK'
  BY <1>1, <1>3 DEF IInv, CopyOK
<1>7. Handover'
  BY <1>1, <1>3 DEF IInv, Handover
<1>8. ASSUME NEW v \in Workers, NEW k \in Active(v)'
      PROVE  \/ v = w /\ k = wc[w] /\ clients'[v][k].socket = s
             \/ /\ k \in Active(v) /\ clients'[v][k].socket = clients[v][k].socket
                /\ clients[v][k].socket # s
  BY <1>1, <1>2, <1>3 DEF SameHeld
<1>9. SoleOwner'
  <2>1. \A v, u \in Workers : \A j \in Active(v)', k \in Active(u)' :
          clients'[v][j].socket = clients'[u][k].socket => v = u /\ j = k
    BY <1>8 DEF IInv, SoleOwner
  <2>2. \A i, j \in Slots : qSocket'[i] \in Fds /\ qSocket'[i] = qSocket'[j] => i = j
    BY <1>1 DEF IInv, SoleOwner
  <2>3. ASSUME NEW i \in Slots, NEW v \in Workers, NEW k \in Active(v)',
               clients'[v][k].socket = qSocket'[i]
        PROVE  Moving(v, i, k)'
    <3>1. CASE v = w /\ k = wc[w] /\ clients'[v][k].socket = s
      <4>1. i = wi[w]
        BY <1>1, <1>2, <2>3, <3>1 DEF IInv, SoleOwner
      <4> QED
        BY <1>1, <3>1, <4>1 DEF Moving
    <3>2. CASE k \in Active(v) /\ clients'[v][k].socket = clients[v][k].socket
      <4>1. Moving(v, i, k)
        BY <1>1, <2>3, <3>2 DEF IInv, SoleOwner
      <4>2. v # w
        BY <1>1, <4>1 DEF Moving
      <4> QED
        BY <1>3, <4>1, <4>2 DEF Moving
    <3> QED
      BY <1>8, <3>1, <3>2
  <2> QED
    BY <2>1, <2>2, <2>3 DEF SoleOwner
<1>10. \A i \in Slots : Closing(i) => Closing(i)'
  BY <1>1, <1>3 DEF Closing
<1>11. HeldIsOpen'
  BY <1>1, <1>3, <1>4, <1>5, <1>10 DEF IInv, HeldIsOpen
<1>12. Tracked'
  <2>1. NoLeak => NoLeak'
    BY <1>1, <1>3, <1>4 DEF NoLeak
  <2> QED
    BY <1>1, <1>3, <2>1 DEF IInv, Tracked
<1> QED
  BY <1>6, <1>7, <1>9, <1>11, <1>12 DEF ConnInv

\* The worker takes its name out of a slot it has copied or closed.
LEMMA DropsNameKind ==
  ASSUME IInv, NEW w \in Workers, WorkerFrame(w), PhaseMove(w), DropsName(w)
  PROVE  ConnInv'
<1>1. /\ qSocket' = qSocket /\ open' = open /\ mpc' = mpc /\ mi' = mi
      /\ \/ wpc[w] = "rel1" /\ wpc'[w] = "rel2"
         \/ wpc[w] = "clq1" /\ wpc'[w] = "clq2"
      /\ wi'[w] = wi[w] /\ wc'[w] = wc[w] /\ clients'[w] = clients[w]
      /\ qThread'[wi[w]] = 0 /\ \A i \in Slots \ {wi[w]} : qThread'[i] = qThread[i]
  BY DEF DropsName, WorkerFrame
<1>2. \A v \in Workers \ {w} : wpc'[v] = wpc[v]
  BY DEF WorkerFrame
<1>3. \A v \in Workers : /\ wi'[v] = wi[v] /\ wc'[v] = wc[v] /\ clients'[v] = clients[v]
                        /\ SameHeld(v) /\ HeldBy(v)' = HeldBy(v)
  BY <1>1, OthersHeld, SameBuffer, HeldFacts
<1>4. CopyOK'
  BY <1>1, <1>2, <1>3 DEF IInv, CopyOK
<1>5. Handover'
  <2> SUFFICES ASSUME NEW i \in Slots
               PROVE  /\ qThread'[i] # 0 => qSocket'[i] \in Fds
                      /\ qSocket'[i] \in Fds /\ qThread'[i] = 0 =>
                           \/ mpc' \in {"lazy", "assign"} /\ mi' = i
                           \/ \E v \in Workers : wpc'[v] \in {"rel2", "clq2"} /\ wi'[v] = i
    BY DEF Handover
  <2>1. CASE i = wi[w]
    BY <1>1, <2>1
  <2>2. CASE i # wi[w]
    BY <1>1, <1>2, <1>3, <2>2 DEF IInv, Handover
  <2> QED
    BY <2>1, <2>2
<1>6. \A v \in Workers, i \in Slots : \A k : Moving(v, i, k)' <=> Moving(v, i, k)
  BY <1>1, <1>2, <1>3 DEF Moving
<1>7. SoleOwner'
  BY <1>1, <1>3, <1>6 DEF IInv, SoleOwner, SameHeld
<1>8. \A i \in Slots : Closing(i) => Closing(i)'
  BY <1>1, <1>2, <1>3 DEF Closing
<1>9. HeldIsOpen'
  BY <1>1, <1>3, <1>8 DEF IInv, HeldIsOpen
<1>10. Tracked'
  <2>1. NoLeak => NoLeak'
    BY <1>1, <1>3 DEF NoLeak
  <2> QED
    BY <1>1, <1>2, <2>1 DEF IInv, Tracked
<1> QED
  BY <1>4, <1>5, <1>7, <1>9, <1>10 DEF ConnInv

\* The worker empties a slot it has copied or closed: main() may reuse it.
LEMMA EmptiesSlotKind ==
  ASSUME IInv, NEW w \in Workers, WorkerFrame(w), PhaseMove(w), EmptiesSlot(w)
  PROVE  ConnInv'
<1>1. /\ qThread' = qThread /\ open' = open /\ mpc' = mpc /\ mi' = mi
      /\ \/ wpc[w] = "rel2" /\ wpc'[w] \in {"copy", "lzid"}
         \/ wpc[w] = "clq2" /\ wpc'[w] \in {"clscan", "done"}
      /\ clients'[w] = clients[w]
      /\ qSocket'[wi[w]] = 0 /\ \A i \in Slots \ {wi[w]} : qSocket'[i] = qSocket[i]
  BY DEF EmptiesSlot, WorkerFrame
<1>2. \A v \in Workers \ {w} : wpc'[v] = wpc[v] /\ wi'[v] = wi[v] /\ wc'[v] = wc[v]
  BY DEF WorkerFrame
<1>3. \A v \in Workers : clients'[v] = clients[v] /\ SameHeld(v) /\ HeldBy(v)' = HeldBy(v)
  BY <1>1, OthersHeld, SameBuffer, HeldFacts
<1>4. /\ wi[w] \in Slots /\ Releasing(w) /\ qThread[wi[w]] = 0 /\ 0 \notin open /\ 0 \notin Fds
      /\ wc[w] \in Nat /\ clients[w] \in Seq(Entry)
  BY <1>1, FdsAssumption
     DEF IInv, SlotInv, SlotOK, TypeOK, SharedTypeOK, WorkerTypeOK, Releasing
<1>5. \A v \in Workers \ {w} : wpc[v] \in {"rel1", "rel2", "clq1", "clq2"} => wi[v] # wi[w]
  <2> SUFFICES ASSUME NEW v \in Workers \ {w}, wpc[v] \in {"rel1", "rel2", "clq1", "clq2"},
                      wi[v] = wi[w]
               PROVE  FALSE
    OBVIOUS
  <2>1. CASE Claiming(v)
    BY <1>4, <2>1 DEF IInv, SlotInv, SlotOK, Workers
  <2>2. CASE Releasing(v)
    BY <1>4, <2>2 DEF IInv, SlotInv, SlotOK
  <2> QED
    BY <2>1, <2>2 DEF Claiming, Releasing
<1>6. CopyOK'
  <2>1. ASSUME NEW v \in Workers
        PROVE  /\ wpc'[v] = "take" => clients'[v][wc'[v]].socket = 0
               /\ wpc'[v] \in {"rel1", "rel2"} => clients'[v][wc'[v]].socket = qSocket'[wi'[v]]
               /\ wpc'[v] \in {"clq1", "clq2"} => qSocket'[wi'[v]] \notin open'
    <3>1. CASE v = w
      BY <1>1, <3>1
    <3>2. CASE v # w
      <4>1. wi[v] \in Slots
        BY DEF IInv, SlotInv, TypeOK, WorkerTypeOK
      <4> QED
        BY <1>1, <1>2, <1>3, <1>5, <3>2, <4>1 DEF IInv, CopyOK
    <3> QED
      BY <3>1, <3>2
  <2>2. \A i \in Slots : (mpc' = "stray" /\ i < mi') \/ mpc' \in {"free", "exited"}
          => qSocket'[i] \notin open'
    BY <1>1, <1>4 DEF IInv, CopyOK
  <2> QED
    BY <2>1, <2>2 DEF CopyOK
<1>7. Handover'
  <2> SUFFICES ASSUME NEW i \in Slots
               PROVE  /\ qThread'[i] # 0 => qSocket'[i] \in Fds
                      /\ qSocket'[i] \in Fds /\ qThread'[i] = 0 =>
                           \/ mpc' \in {"lazy", "assign"} /\ mi' = i
                           \/ \E v \in Workers : wpc'[v] \in {"rel2", "clq2"} /\ wi'[v] = i
    BY DEF Handover
  <2>1. CASE i = wi[w]
    BY <1>1, <1>4, <2>1
  <2>2. CASE i # wi[w]
    BY <1>1, <1>2, <2>2 DEF IInv, Handover
  <2> QED
    BY <2>1, <2>2
<1>8. SoleOwner'
  <2>1. \A v, u \in Workers : \A j \in Active(v)', k \in Active(u)' :
          clients'[v][j].socket = clients'[u][k].socket => v = u /\ j = k
    BY <1>3 DEF IInv, SoleOwner, SameHeld
  <2>2. \A i, j \in Slots : qSocket'[i] \in Fds /\ qSocket'[i] = qSocket'[j] => i = j
    BY <1>1, <1>4 DEF IInv, SoleOwner
  <2>3. ASSUME NEW i \in Slots, NEW v \in Workers, NEW k \in Active(v)',
               clients'[v][k].socket = qSocket'[i]
        PROVE  Moving(v, i, k)'
    <3>1. k \in Active(v) /\ clients'[v][k].socket = clients[v][k].socket
      BY <1>3 DEF SameHeld
    <3>2. i # wi[w] /\ qSocket'[i] = qSocket[i]
      BY <1>1, <2>3, <3>1 DEF Active
    <3>3. Moving(v, i, k)
      BY <2>3, <3>1, <3>2 DEF IInv, SoleOwner
    <3>4. v # w
      BY <3>2, <3>3 DEF Moving
    <3> QED
      BY <1>2, <3>3, <3>4 DEF Moving
  <2> QED
    BY <2>1, <2>2, <2>3 DEF SoleOwner
<1>9. HeldIsOpen'
  <2>1. ASSUME NEW i \in Slots, qSocket'[i] \in Fds PROVE qSocket'[i] \in open' \/ Closing(i)'
    <3>1. i # wi[w] /\ qSocket'[i] = qSocket[i]
      BY <1>1, <1>4, <2>1
    <3>2. Closing(i) => Closing(i)'
      BY <1>1, <1>2, <3>1 DEF Closing
    <3> QED
      BY <1>1, <2>1, <3>1, <3>2 DEF IInv, HeldIsOpen
  <2> QED
    BY <1>1, <1>3, <2>1 DEF IInv, HeldIsOpen
<1>10. Tracked'
  <2>1. ASSUME NoLeak, NEW f \in open
        PROVE  (\E i \in Slots : qSocket'[i] = f) \/ (\E v \in Workers : f \in HeldBy(v))
    <3>1. CASE qSocket[wi[w]] = f
      <4>1. wpc[w] = "rel2"
        BY <1>1, <2>1, <3>1 DEF IInv, CopyOK
      <4>2. clients[w][wc[w]].socket = f /\ f # 0
        BY <1>4, <3>1, <4>1 DEF IInv, CopyOK
      <4>3. wc[w] # 0 /\ wc[w] <= Len(clients[w])
        BY <4>1 DEF IInv, SlotInv, TypeOK, WorkerIndexOK
      <4>4. wc[w] \in DOMAIN clients[w]
        BY <1>4, <4>3
      <4>5. f \in HeldBy(w)
        BY <4>2, <4>4 DEF HeldBy, Active
      <4> QED
        BY <4>5
    <3>2. CASE qSocket[wi[w]] # f
      BY <1>1, <2>1, <3>2 DEF NoLeak
    <3> QED
      BY <3>1, <3>2
  <2>2. NoLeak => NoLeak'
    BY <1>1, <1>3, <2>1 DEF NoLeak
  <2> QED
    BY <1>1, <1>2, <2>2 DEF IInv, Tracked
<1> QED
  BY <1>6, <1>7, <1>8, <1>9, <1>10 DEF ConnInv

\* A step of w that keeps the queue, closes only what nobody else holds and
\* forgets only what it has closed, or what it loses by dying.
LEMMA ShrinkFacts ==
  ASSUME IInv, NEW w \in Workers, WorkerFrame(w), QueueKept,
         Active(w)' \subseteq Active(w),
         \A k \in Active(w)' : clients'[w][k].socket = clients[w][k].socket,
         wpc[w] \notin {"take", "rel1", "rel2", "clq1", "clq2"},
         wpc'[w] \notin {"take", "rel1", "rel2", "clq2"},
         wpc'[w] = "clq1" => qSocket'[wi'[w]] \notin open',
         open' \subseteq open
  PROVE  CopyOK' /\ Handover' /\ SoleOwner' /\ (\A i \in Slots : Closing(i) => Closing(i)')
<1>1. /\ qSocket' = qSocket /\ qThread' = qThread /\ mpc' = mpc /\ mi' = mi
      /\ \A v \in Workers \ {w} : /\ wpc'[v] = wpc[v] /\ wi'[v] = wi[v] /\ wc'[v] = wc[v]
                                 /\ clients'[v] = clients[v] /\ SameHeld(v)
  BY OthersHeld DEF QueueKept, WorkerFrame
<1>2. CopyOK'
  BY <1>1 DEF IInv, CopyOK
<1>3. Handover'
  BY <1>1 DEF IInv, Handover
<1>4. \A v \in Workers, i \in Slots : \A k : Moving(v, i, k)' <=> Moving(v, i, k)
  BY <1>1 DEF Moving
<1>5. \A v \in Workers : \A k \in Active(v)' :
        k \in Active(v) /\ clients'[v][k].socket = clients[v][k].socket
  BY <1>1 DEF SameHeld
<1>6. SoleOwner'
  BY <1>1, <1>4, <1>5 DEF IInv, SoleOwner
<1>7. \A i \in Slots : Closing(i) => Closing(i)'
  BY <1>1 DEF Closing
<1> QED
  BY <1>2, <1>3, <1>6, <1>7

\* What a worker that is not copying holds is nowhere else.
LEMMA OwnAlone ==
  ASSUME IInv, NEW w \in Workers, wpc[w] \notin {"rel1", "rel2"}, NEW k \in Active(w)
  PROVE  /\ \A v \in Workers \ {w} : clients[w][k].socket \notin HeldBy(v)
         /\ \A i \in Slots : qSocket[i] # clients[w][k].socket
         /\ \A j \in Active(w) : clients[w][j].socket = clients[w][k].socket => j = k
<1>1. \A v \in Workers \ {w} : clients[w][k].socket \notin HeldBy(v)
  BY DEF IInv, SoleOwner, HeldBy
<1>2. \A i \in Slots : qSocket[i] # clients[w][k].socket
  BY DEF IInv, SoleOwner, Moving
<1>3. \A j \in Active(w) : clients[w][j].socket = clients[w][k].socket => j = k
  BY DEF IInv, SoleOwner
<1> QED
  BY <1>1, <1>2, <1>3

\* A client is answered or timed out.
LEMMA ClosesOneKind ==
  ASSUME IInv, NEW w \in Workers, WorkerFrame(w), PhaseMove(w), ClosesOne(w)
  PROVE  ConnInv'
<1>1. PICK k \in Active(w) :
        /\ open' = open \ {clients[w][k].socket}
        /\ Active(w)' = Active(w) \ {k}
        /\ \A j \in Active(w) \ {k} : clients'[w][j].socket = clients[w][j].socket
  BY DEF ClosesOne
<1> DEFINE c == clients[w][k].socket
<1>2. /\ wpc[w] = "handle" /\ wpc'[w] \in {"handle", "loop"} /\ QueueKept
      /\ qSocket' = qSocket
  BY DEF ClosesOne, QueueKept
<1>3. /\ \A v \in Workers \ {w} : HeldBy(v)' = HeldBy(v) /\ wpc'[v] = wpc[v] /\ c \notin HeldBy(v)
      /\ \A i \in Slots : qSocket[i] # c
      /\ \A j \in Active(w) : clients[w][j].socket = c => j = k
  BY <1>2, OthersHeld, OwnAlone
<1>4. HeldBy(w)' = HeldBy(w) \ {c}
  BY <1>1, <1>3 DEF HeldBy
<1>5. CopyOK' /\ Handover' /\ SoleOwner' /\ (\A i \in Slots : Closing(i) => Closing(i)')
  BY <1>1, <1>2, ShrinkFacts
<1>6. HeldIsOpen'
  BY <1>1, <1>2, <1>3, <1>4, <1>5 DEF IInv, HeldIsOpen
<1>7. Tracked'
  <2>1. NoLeak => NoLeak'
    BY <1>1, <1>2, <1>3, <1>4 DEF NoLeak
  <2> QED
    BY <1>2, <1>3, <2>1 DEF IInv, Tracked
<1> QED
  BY <1>5, <1>6, <1>7 DEF ConnInv

\* The cleanup closes every client of the buffer.
LEMMA ClosesAllKind ==
  ASSUME IInv, NEW w \in Workers, WorkerFrame(w), PhaseMove(w), ClosesAll(w)
  PROVE  ConnInv'
<1>1. /\ wpc[w] = "clclose" /\ wpc'[w] = "clscan" /\ QueueKept /\ qSocket' = qSocket
      /\ open' = open \ HeldBy(w) /\ clients'[w] = <<>>
  BY DEF ClosesAll, QueueKept
<1>2. Active(w)' = {} /\ HeldBy(w)' = {}
  BY <1>1 DEF Active, HeldBy
<1>3. \A v \in Workers \ {w} : HeldBy(v)' = HeldBy(v) /\ wpc'[v] = wpc[v]
  BY OthersHeld
<1>4. ASSUME NEW f \in HeldBy(w)
      PROVE  /\ \A v \in Workers \ {w} : f \notin HeldBy(v)
             /\ \A i \in Slots : qSocket[i] # f
  <2>1. PICK k \in Active(w) : f = clients[w][k].socket
    BY DEF HeldBy
  <2> QED
    BY <1>1, <2>1, OwnAlone
<1>5. CopyOK' /\ Handover' /\ SoleOwner' /\ (\A i \in Slots : Closing(i) => Closing(i)')
  BY <1>1, <1>2, ShrinkFacts
<1>6. HeldIsOpen'
  BY <1>1, <1>2, <1>3, <1>4, <1>5 DEF IInv, HeldIsOpen
<1>7. Tracked'
  <2>1. NoLeak => NoLeak'
    BY <1>1, <1>3 DEF NoLeak
  <2> QED
    BY <1>1, <1>3, <2>1 DEF IInv, Tracked
<1> QED
  BY <1>5, <1>6, <1>7 DEF ConnInv

\* The cleanup closes a connection that still waits in its slot.
LEMMA ClosesSlotKind ==
  ASSUME IInv, NEW w \in Workers, WorkerFrame(w), PhaseMove(w), ClosesSlot(w)
  PROVE  ConnInv'
<1> DEFINE s == qSocket[wi[w]]
<1>1. /\ wpc[w] = "clqclose" /\ wpc'[w] = "clq1" /\ wi'[w] = wi[w]
      /\ QueueKept /\ qSocket' = qSocket /\ open' = open \ {s} /\ clients'[w] = clients[w]
  BY DEF ClosesSlot, QueueKept
<1>2. /\ wi[w] \in Slots /\ s \in Fds
      /\ \A v \in Workers : \A k \in Active(v) : clients[v][k].socket # s
  BY <1>1, ClaimedAlone
<1>3. \A v \in Workers : HeldBy(v)' = HeldBy(v) /\ s \notin HeldBy(v)
  BY <1>1, <1>2, OthersHeld, SameBuffer, HeldFacts DEF HeldBy
<1>4. \A v \in Workers \ {w} : wpc'[v] = wpc[v]
  BY DEF WorkerFrame
<1>5. SameHeld(w)
  BY <1>1, SameBuffer
<1>6. CopyOK' /\ Handover' /\ SoleOwner' /\ (\A i \in Slots : Closing(i) => Closing(i)')
  BY <1>1, <1>5, ShrinkFacts DEF SameHeld
<1>7. HeldIsOpen'
  <2>1. ASSUME NEW i \in Slots, qSocket'[i] \in Fds PROVE qSocket'[i] \in open' \/ Closing(i)'
    <3>1. CASE i = wi[w]
      BY <1>1, <3>1 DEF Closing
    <3>2. CASE i # wi[w]
      BY <1>1, <1>2, <1>6, <2>1, <3>2 DEF IInv, HeldIsOpen, SoleOwner
    <3> QED
      BY <3>1, <3>2
  <2> QED
    BY <1>1, <1>3, <2>1 DEF IInv, HeldIsOpen
<1>8. Tracked'
  <2>1. NoLeak => NoLeak'
    BY <1>1, <1>3 DEF NoLeak
  <2> QED
    BY <1>1, <1>4, <2>1 DEF IInv, Tracked
<1> QED
  BY <1>6, <1>7, <1>8 DEF ConnInv

\* A failed realloc(): the worker forgets its connections, which stay open.
LEMMA DiesKind ==
  ASSUME IInv, NEW w \in Workers, WorkerFrame(w), PhaseMove(w), Dies(w)
  PROVE  ConnInv'
<1>1. /\ wpc[w] \in {"expand", "copy"} /\ wpc'[w] = "dead"
      /\ QueueKept /\ qSocket' = qSocket /\ open' = open /\ clients'[w] = <<>>
  BY DEF Dies, QueueKept
<1>2. Active(w)' = {} /\ HeldBy(w)' = {}
  BY <1>1 DEF Active, HeldBy
<1>3. \A v \in Workers \ {w} : HeldBy(v)' = HeldBy(v)
  BY OthersHeld
<1>4. CopyOK' /\ Handover' /\ SoleOwner' /\ (\A i \in Slots : Closing(i) => Closing(i)')
  BY <1>1, <1>2, ShrinkFacts
<1>5. HeldIsOpen'
  BY <1>1, <1>2, <1>3, <1>4 DEF IInv, HeldIsOpen
<1>6. Tracked'
  BY <1>1 DEF Tracked
<1> QED
  BY <1>4, <1>5, <1>6 DEF ConnInv

\* Every step of a worker preserves the invariant.
LEMMA WorkerInv ==
  ASSUME IInv, NEW w \in Workers, WorkerStep(w)
  PROVE  IInv'
<1>1. SlotInv'
  BY WorkerSlotInv DEF IInv
<1>2. WorkerFrame(w) /\ PhaseMove(w) /\ Kind(w)
  BY WorkerKinds DEF IInv, PhaseOK
<1>3. PhaseOK'
  BY <1>2, WorkerPhaseOK DEF IInv
<1>4. ConnInv'
  BY <1>2, QuietKind, TakesKind, DropsNameKind, EmptiesSlotKind, ClosesOneKind,
     ClosesAllKind, ClosesSlotKind, DiesKind DEF Kind
<1> QED
  BY <1>1, <1>3, <1>4 DEF IInv, ConnInv

-----------------------------------------------------------------------------
(***************************************************************************)
(* The phases, under each step of main().                                  *)
(***************************************************************************)

\* Every step of main() preserves the order of start-up and shutdown.
LEMMA MainPhaseOK ==
  ASSUME IInv, MainStep \/ MainAcceptFail \/ SigInt \/ \E f \in Fds : MainAccept(f)
  PROVE  PhaseOK'
<1> USE DEF MainGo, notMain, queueVars, lazyVars, serverVars, threadVars, mainVars,
            workerVars
<1>a. /\ StartOK /\ StopOK /\ SharedTypeOK /\ MainTypeOK /\ WorkerTypeOK
      /\ MainIndexOK /\ MainSlotOK
  BY DEF IInv, SlotInv, TypeOK, PhaseOK
<1>1. CASE MainOpenDb
  <2>1. StartOK'
    <3>1. 1..(1 - 1) = {} /\ created = {} /\ ~merror /\ servsock = "none"
      BY <1>a, <1>1 DEF MainOpenDb, StartOK, Starting
    <3>2. mpc' = "spawn" => created' = 1..(mi' - 1)
      BY <1>1, <3>1 DEF MainOpenDb
    <3> QED
      BY <1>a, <1>1, <3>1, <3>2 DEF MainOpenDb, StartOK, Starting, Accepting, Ending
  <2>2. StopOK'
    BY <1>a, <1>1 DEF MainOpenDb, StartOK, StopOK, Starting, Accepting, Ending, Cleaning,
      Returned, SharedTypeOK, MainIndexOK
  <2> QED
    BY <2>1, <2>2 DEF PhaseOK
<1>2. CASE MainSpawn
  <2>1. StartOK'
    <3>1. /\ mpc = "spawn" /\ created = 1..(mi - 1) /\ created' = created \cup {mi}
          /\ mi \in 1..NumWorkers
      BY <1>a, <1>2 DEF MainSpawn, StartOK, MainIndexOK, Workers
    <3>2. created' = 1..mi
      BY <3>1, NumWorkersAssumption
    <3>3. mpc' = "spawn" => created' = 1..(mi' - 1)
      BY <1>2, <3>1, <3>2, NumWorkersAssumption DEF MainSpawn
    <3>4. mpc' # "spawn" => created' = Workers
      BY <1>2, <3>2 DEF MainSpawn, Workers
    <3> QED
      BY <1>a, <1>2, <3>1, <3>3, <3>4 DEF MainSpawn, StartOK, Starting, Accepting, Ending
  <2>2. StopOK'
    <3>1. /\ mpc = "spawn" /\ mi \in Workers /\ created' = created \cup {mi} /\ mpc' \in {"spawn", "initID"}
          /\ shutdown' = [shutdown EXCEPT ![mi] = FALSE] /\ wpc' = [wpc EXCEPT ![mi] = "open"]
          /\ clients' = clients /\ killserver' = killserver /\ merror' = merror
      BY <1>a, <1>2 DEF MainSpawn, MainIndexOK
    <3>2. mi \notin created
      <4>1. created = 1..(mi - 1)
        BY <1>a, <3>1 DEF StartOK
      <4> QED
        BY <3>1, <4>1 DEF Workers
    <3>3. clients[mi] = <<>>
      BY <1>a, <3>1, <3>2 DEF StopOK
    <3>4. ASSUME NEW w \in Workers
          PROVE  /\ ~shutdown'[w] /\ ~Cleaning(w)'
                 /\ wpc'[w] = "none" <=> w \notin created'
                 /\ wpc'[w] \in {"none", "open", "clscan", "clkill", "clqclose", "clq1",
                                 "clq2", "done", "dead"} => clients'[w] = <<>>
      <4>1. CASE w = mi
        BY <1>a, <3>1, <3>3, <4>1 DEF SharedTypeOK, WorkerTypeOK, Cleaning
      <4>2. CASE w # mi
        BY <1>a, <3>1, <4>2 DEF StopOK, SharedTypeOK, WorkerTypeOK, Cleaning, Ending
      <4> QED
        BY <4>1, <4>2
    <3> QED
      BY <3>1, <3>4 DEF StopOK
  <2> QED
    BY <2>1, <2>2 DEF PhaseOK
<1>3. CASE MainSpawnFail
  <2>1. StartOK'
    BY <1>a, <1>3 DEF MainSpawnFail, StartOK, Starting, Accepting, Ending, SharedTypeOK, MainIndexOK
  <2>2. StopOK'
    BY <1>a, <1>3 DEF MainSpawnFail, StartOK, StopOK, Starting, Accepting, Ending, Cleaning,
      Returned, SharedTypeOK, MainIndexOK
  <2> QED
    BY <2>1, <2>2 DEF PhaseOK
<1>4. CASE MainInitLaziestID
  <2>1. StartOK'
    BY <1>a, <1>4 DEF MainInitLaziestID, StartOK, Starting, Accepting, Ending, SharedTypeOK, MainIndexOK
  <2>2. StopOK'
    BY <1>a, <1>4 DEF MainInitLaziestID, StartOK, StopOK, Starting, Accepting, Ending, Cleaning,
      Returned, SharedTypeOK, MainIndexOK
  <2> QED
    BY <2>1, <2>2 DEF PhaseOK
<1>5. CASE MainInitLaziestActive
  <2>1. StartOK'
    BY <1>a, <1>5 DEF MainInitLaziestActive, StartOK, Starting, Accepting, Ending, SharedTypeOK, MainIndexOK
  <2>2. StopOK'
    BY <1>a, <1>5 DEF MainInitLaziestActive, StartOK, StopOK, Starting, Accepting, Ending, Cleaning,
      Returned, SharedTypeOK, MainIndexOK
  <2> QED
    BY <2>1, <2>2 DEF PhaseOK
<1>6. CASE MainListen
  <2>1. StartOK'
    BY <1>a, <1>6 DEF MainListen, StartOK, Starting, Accepting, Ending, SharedTypeOK, MainIndexOK
  <2>2. StopOK'
    BY <1>a, <1>6 DEF MainListen, StartOK, StopOK, Starting, Accepting, Ending, Cleaning,
      Returned, SharedTypeOK, MainIndexOK
  <2> QED
    BY <2>1, <2>2 DEF PhaseOK
<1>7. CASE MainLoop
  <2>1. StartOK'
    BY <1>a, <1>7 DEF MainLoop, StartOK, Starting, Accepting, Ending, SharedTypeOK, MainIndexOK
  <2>2. StopOK'
    BY <1>a, <1>7 DEF MainLoop, StartOK, StopOK, Starting, Accepting, Ending, Cleaning,
      Returned, SharedTypeOK, MainIndexOK
  <2> QED
    BY <2>1, <2>2 DEF PhaseOK
<1>8. CASE MainScan
  <2>1. StartOK'
    BY <1>a, <1>8 DEF MainScan, StartOK, Starting, Accepting, Ending, SharedTypeOK, MainIndexOK
  <2>2. StopOK'
    BY <1>a, <1>8 DEF MainScan, StartOK, StopOK, Starting, Accepting, Ending, Cleaning,
      Returned, SharedTypeOK, MainIndexOK
  <2> QED
    BY <2>1, <2>2 DEF PhaseOK
<1>9. CASE MainPrep
  <2>1. StartOK'
    BY <1>a, <1>9 DEF MainPrep, StartOK, Starting, Accepting, Ending, SharedTypeOK, MainIndexOK
  <2>2. StopOK'
    BY <1>a, <1>9 DEF MainPrep, StartOK, StopOK, Starting, Accepting, Ending, Cleaning,
      Returned, SharedTypeOK, MainIndexOK
  <2> QED
    BY <2>1, <2>2 DEF PhaseOK
<1>10. CASE MainAcceptFail
  <2>1. StartOK'
    BY <1>a, <1>10, FdsAssumption DEF MainAcceptFail, StartOK, Starting, Accepting, Ending, SharedTypeOK, MainIndexOK
  <2>2. StopOK'
    BY <1>a, <1>10 DEF MainAcceptFail, StartOK, StopOK, Starting, Accepting, Ending, Cleaning,
      Returned, SharedTypeOK, MainIndexOK
  <2> QED
    BY <2>1, <2>2 DEF PhaseOK
<1>11. CASE MainAcceptReset
  <2>1. StartOK'
    BY <1>a, <1>11, FdsAssumption DEF MainAcceptReset, StartOK, Starting, Accepting, Ending, SharedTypeOK, MainIndexOK
  <2>2. StopOK'
    BY <1>a, <1>11 DEF MainAcceptReset, StartOK, StopOK, Starting, Accepting, Ending, Cleaning,
      Returned, SharedTypeOK, MainIndexOK
  <2> QED
    BY <2>1, <2>2 DEF PhaseOK
<1>12. CASE MainReadLaziest
  <2>1. StartOK'
    BY <1>a, <1>12 DEF MainReadLaziest, StartOK, Starting, Accepting, Ending, SharedTypeOK, MainIndexOK
  <2>2. StopOK'
    BY <1>a, <1>12 DEF MainReadLaziest, StartOK, StopOK, Starting, Accepting, Ending, Cleaning,
      Returned, SharedTypeOK, MainIndexOK
  <2> QED
    BY <2>1, <2>2 DEF PhaseOK
<1>13. CASE MainAssign
  <2>1. StartOK'
    BY <1>a, <1>13 DEF MainAssign, StartOK, Starting, Accepting, Ending, SharedTypeOK, MainIndexOK
  <2>2. StopOK'
    BY <1>a, <1>13 DEF MainAssign, StartOK, StopOK, Starting, Accepting, Ending, Cleaning,
      Returned, SharedTypeOK, MainIndexOK
  <2> QED
    BY <2>1, <2>2 DEF PhaseOK
<1>14. CASE MainTime
  <2>1. StartOK'
    BY <1>a, <1>14 DEF MainTime, StartOK, Starting, Accepting, Ending, SharedTypeOK, MainIndexOK
  <2>2. StopOK'
    BY <1>a, <1>14 DEF MainTime, StartOK, StopOK, Starting, Accepting, Ending, Cleaning,
      Returned, SharedTypeOK, MainIndexOK
  <2> QED
    BY <2>1, <2>2 DEF PhaseOK
<1>15. CASE SigInt
  <2>1. StartOK'
    BY <1>a, <1>15 DEF SigInt, StartOK, Starting, Accepting, Ending, SharedTypeOK, MainIndexOK
  <2>2. StopOK'
    BY <1>a, <1>15 DEF SigInt, StartOK, StopOK, Starting, Accepting, Ending, Cleaning,
      Returned, SharedTypeOK, MainIndexOK
  <2> QED
    BY <2>1, <2>2 DEF PhaseOK
<1>16. CASE MainCloseServ
  <2>1. StartOK'
    BY <1>a, <1>16 DEF MainCloseServ, StartOK, Starting, Accepting, Ending, SharedTypeOK, MainIndexOK
  <2>2. StopOK'
    BY <1>a, <1>16 DEF MainCloseServ, StartOK, StopOK, Starting, Accepting, Ending, Cleaning,
      Returned, SharedTypeOK, MainIndexOK
  <2> QED
    BY <2>1, <2>2 DEF PhaseOK
<1>17. CASE MainKill
  <2>1. StartOK'
    BY <1>a, <1>17 DEF MainKill, StartOK, Starting, Accepting, Ending, SharedTypeOK, MainIndexOK
  <2>2. StopOK'
    BY <1>a, <1>17 DEF MainKill, StartOK, StopOK, Starting, Accepting, Ending, Cleaning,
      Returned, SharedTypeOK, MainIndexOK
  <2> QED
    BY <2>1, <2>2 DEF PhaseOK
<1>18. CASE MainTerm
  <2>1. StartOK'
    BY <1>a, <1>18 DEF MainTerm, StartOK, Starting, Accepting, Ending, SharedTypeOK, MainIndexOK
  <2>2. StopOK'
    BY <1>a, <1>18 DEF MainTerm, StartOK, StopOK, Starting, Accepting, Ending, Cleaning,
      Returned, SharedTypeOK, MainIndexOK
  <2> QED
    BY <2>1, <2>2 DEF PhaseOK
<1>19. CASE MainJoin
  <2>1. StartOK'
    BY <1>a, <1>19 DEF MainJoin, StartOK, Starting, Accepting, Ending, SharedTypeOK, MainIndexOK
  <2>2. StopOK'
    <3>1. /\ mpc = "join" /\ mi \in 1..NumWorkers
          /\ mi \in created => Returned(mi)
          /\ \/ mi = NumWorkers /\ mpc' = "stray" /\ mi' = 0
             \/ mpc' = "term" /\ mi' = mi + 1
             \/ mpc' = "crashed"
          /\ UNCHANGED <<shutdown, created, killserver, merror, wpc, clients>>
      BY <1>a, <1>19 DEF MainJoin, MainIndexOK, Workers
    <3>2. \A w \in Workers : w \in created /\ ~merror /\ w <= mi => Returned(w)
      <4> SUFFICES ASSUME NEW w \in 1..NumWorkers, w \in created, ~merror, w <= mi
                   PROVE  Returned(w)
        BY DEF Workers
      <4>1. mpc \in {"term", "join"} /\ w < mi => Returned(w)
        BY <1>a DEF StopOK, Workers
      <4>2. w \in Int /\ mi \in Int
        BY <3>1, NumWorkersAssumption
      <4>3. w < mi \/ w = mi
        BY <4>2
      <4>4. CASE w < mi
        BY <3>1, <4>1, <4>4
      <4>5. CASE w = mi
        BY <3>1, <4>5
      <4> QED
        BY <4>3, <4>4, <4>5
    <3>3. \A w \in Workers : w \in created /\ ~merror =>
            /\ mpc' \in {"stray", "free", "exited"} => Returned(w)
            /\ mpc' \in {"term", "join"} /\ w < mi' => Returned(w)
      <4> SUFFICES ASSUME NEW w \in 1..NumWorkers, w \in created, ~merror
                   PROVE  /\ mpc' \in {"stray", "free", "exited"} => Returned(w)
                          /\ mpc' \in {"term", "join"} /\ w < mi' => Returned(w)
        BY DEF Workers
      <4>1. mpc' \in {"stray", "free", "exited"} => w <= mi
        BY <3>1, NumWorkersAssumption
      <4>2. mpc' \in {"term", "join"} /\ w < mi' => w <= mi
        <5>1. w \in Int /\ mi \in Int
          BY <3>1, NumWorkersAssumption
        <5>2. mpc' \in {"term", "join"} => mi' = mi + 1
          BY <3>1
        <5> QED
          BY <5>1, <5>2
      <4> QED
        BY <3>2, <4>1, <4>2 DEF Workers
    <3> QED
      BY <1>a, <3>1, <3>3 DEF StopOK, Ending, Cleaning, Returned
  <2> QED
    BY <2>1, <2>2 DEF PhaseOK
<1>20. CASE MainStray
  <2>1. StartOK'
    BY <1>a, <1>20 DEF MainStray, StartOK, Starting, Accepting, Ending, SharedTypeOK, MainIndexOK
  <2>2. StopOK'
    BY <1>a, <1>20 DEF MainStray, StartOK, StopOK, Starting, Accepting, Ending, Cleaning,
      Returned, SharedTypeOK, MainIndexOK
  <2> QED
    BY <2>1, <2>2 DEF PhaseOK
<1>21. CASE MainExit
  <2>1. StartOK'
    BY <1>a, <1>21 DEF MainExit, StartOK, Starting, Accepting, Ending, SharedTypeOK, MainIndexOK
  <2>2. StopOK'
    BY <1>a, <1>21 DEF MainExit, StartOK, StopOK, Starting, Accepting, Ending, Cleaning,
      Returned, SharedTypeOK, MainIndexOK
  <2> QED
    BY <2>1, <2>2 DEF PhaseOK
<1>22. ASSUME NEW f \in Fds, MainAccept(f)
      PROVE  PhaseOK'
  <2>1. StartOK'
    BY <1>a, <1>22 DEF MainAccept, StartOK, Starting, Accepting, Ending, SharedTypeOK, MainIndexOK
  <2>2. StopOK'
    BY <1>a, <1>22 DEF MainAccept, StartOK, StopOK, Starting, Accepting, Ending, Cleaning,
      Returned, SharedTypeOK, MainIndexOK
  <2> QED
    BY <2>1, <2>2 DEF PhaseOK
<1> QED
  BY <1>1, <1>2, <1>3, <1>4, <1>5, <1>6, <1>7, <1>8, <1>9, <1>10, <1>11, <1>12, <1>13, <1>14, <1>15, <1>16, <1>17, <1>18, <1>19, <1>20, <1>21, <1>22
     DEF MainStep

-----------------------------------------------------------------------------
(***************************************************************************)
(* The connections, under each step of main().                             *)
(***************************************************************************)

\* A slot main() has walked past on shutdown.
Walked(i) == (mpc = "stray" /\ i < mi) \/ mpc \in {"free", "exited"}

\* The workers stay where they are, or one is started.
WorkersStay ==
  /\ UNCHANGED <<wi, wc, clients>>
  /\ \A w \in Workers : wpc'[w] = wpc[w] \/ (wpc[w] = "none" /\ wpc'[w] = "open")

\* Workers that stay where they are hold what they held.
LEMMA StayFacts ==
  ASSUME WorkersStay
  PROVE  /\ \A w \in Workers : Active(w)' = Active(w) /\ HeldBy(w)' = HeldBy(w)
         /\ \A w \in Workers, i \in Slots : \A k : Moving(w, i, k)' <=> Moving(w, i, k)
         /\ \A w \in Workers, p \in {"take", "rel1", "rel2", "clq1", "clq2", "dead"} :
              wpc'[w] = p <=> wpc[w] = p
  BY DEF WorkersStay, Active, HeldBy, Moving

\* A step of main() that touches no connection.
MainStill ==
  /\ WorkersStay /\ QueueKept /\ open' = open
  /\ mpc \in {"lazy", "assign"} => mpc' \in {"lazy", "assign"} /\ mi' = mi
  /\ \A i \in Slots : Walked(i)' <=> Walked(i)

\* main() writes 0 or -1 to a slot that holds no connection.
MainBlank ==
  /\ WorkersStay /\ mi \in Slots /\ qSocket[mi] \notin Fds
  /\ \E x \in {0, -1} : qSocket' = [qSocket EXCEPT ![mi] = x]
  /\ qThread' = qThread /\ open' = open
  /\ mpc \in {"accept", "accerr"} /\ mpc' \in {"accerr", "time"}

\* A step of main() that touches no connection preserves the invariant.
LEMMA StillStep ==
  ASSUME IInv, MainStill
  PROVE  ConnInv'
<1> USE DEF MainStill
<1>1. CopyOK'
  BY StayFacts DEF IInv, CopyOK, QueueKept, WorkersStay, Walked
<1>2. Handover'
  BY StayFacts DEF IInv, Handover, QueueKept, WorkersStay
<1>3. SoleOwner'
  BY StayFacts DEF IInv, SoleOwner, QueueKept, WorkersStay
<1>4. HeldIsOpen'
  <2>1. \A i \in Slots : Closing(i) => Closing(i)'
    BY StayFacts DEF Closing, WorkersStay, Walked
  <2> QED
    BY <2>1, StayFacts DEF IInv, HeldIsOpen, QueueKept
<1>5. Tracked'
  BY StayFacts DEF IInv, Tracked, NoLeak, QueueKept
<1> QED
  BY <1>1, <1>2, <1>3, <1>4, <1>5 DEF ConnInv

\* A worker's slot is not the one main() is about to fill.
LEMMA BusySlot ==
  ASSUME IInv, NEW w \in Workers, wpc[w] \in {"take", "rel1", "rel2", "clq1", "clq2"}
  PROVE  wi[w] \in Slots /\ qSocket[wi[w]] \in Fds
<1>1. wi[w] \in Slots /\ w # 0
  BY DEF IInv, SlotInv, TypeOK, WorkerTypeOK, Workers
<1>2. Claiming(w) \/ Releasing(w)
  BY DEF Claiming, Releasing
<1> QED
  BY <1>1, <1>2 DEF IInv, SlotInv, SlotOK

\* A failed accept() puts -1 into the slot and takes it out again.
LEMMA BlankStep ==
  ASSUME IInv, MainBlank
  PROVE  ConnInv'
<1> PICK x \in {0, -1} : qSocket' = [qSocket EXCEPT ![mi] = x]
  BY DEF MainBlank
<1> USE DEF MainBlank
<1>1. /\ x \notin Fds /\ open \subseteq Fds /\ qSocket \in [Slots -> Fds \cup {0, -1}]
      /\ qSocket'[mi] = x /\ \A i \in Slots \ {mi} : qSocket'[i] = qSocket[i]
  BY FdsAssumption DEF IInv, SlotInv, TypeOK, SharedTypeOK
<1>2. /\ qThread[mi] = 0
      /\ \A w \in Workers : wpc[w] \in {"take", "rel1", "rel2", "clq1", "clq2"} =>
           wi[w] \in Slots \ {mi}
  BY BusySlot DEF IInv, SlotInv, SlotOK
<1>3. \A w \in Workers : \A k \in Active(w) : clients[w][k].socket \in Fds
  BY HeldIsFd DEF IInv, SlotInv, TypeOK
<1>4. CopyOK'
  BY <1>1, <1>2, StayFacts DEF IInv, CopyOK, WorkersStay
<1>5. Handover'
  BY <1>1, <1>2, StayFacts DEF IInv, Handover, WorkersStay
<1>6. SoleOwner'
  BY <1>1, <1>3, StayFacts DEF IInv, SoleOwner, WorkersStay
<1>7. HeldIsOpen'
  <2>1. \A i \in Slots : Closing(i) => Closing(i)'
    BY StayFacts DEF Closing, WorkersStay
  <2> QED
    BY <1>1, <2>1, StayFacts DEF IInv, HeldIsOpen
<1>8. Tracked'
  <2>1. NoLeak => NoLeak'
    BY <1>1, StayFacts DEF NoLeak
  <2> QED
    BY <2>1, StayFacts DEF IInv, Tracked
<1> QED
  BY <1>4, <1>5, <1>6, <1>7, <1>8 DEF ConnInv

\* accept() returns a descriptor nobody has.
LEMMA AcceptStep ==
  ASSUME IInv, NEW f \in Fds, MainAccept(f)
  PROVE  ConnInv'
<1>1. /\ mpc = "accept" /\ mpc' = "lazy" /\ mi' = mi /\ mi \in Slots /\ qSocket[mi] = 0
      /\ qThread' = qThread /\ f \notin open /\ open' = open \cup {f}
      /\ qSocket'[mi] = f /\ \A i \in Slots \ {mi} : qSocket'[i] = qSocket[i]
      /\ qSocket \in [Slots -> Fds \cup {0, -1}] /\ f # 0 /\ 0 \notin Fds
  BY FdsAssumption DEF MainAccept, MainGo, IInv, SlotInv, MainIndexOK, MainSlotOK, TypeOK,
    SharedTypeOK, queueVars
<1>2. WorkersStay
  BY DEF MainAccept, WorkersStay, workerVars
<1>3. \A w \in Workers : wpc[w] \notin {"clq1", "clq2"}
  BY <1>1 DEF IInv, PhaseOK, StopOK, Cleaning, Ending
<1>4. /\ \A i \in Slots : qSocket[i] \in Fds => qSocket[i] \in open
      /\ \A w \in Workers : HeldBy(w) \subseteq open
  BY <1>1, <1>3 DEF IInv, HeldIsOpen, Closing
<1>5. /\ \A i \in Slots : qSocket[i] # f
      /\ \A w \in Workers : \A k \in Active(w) : clients[w][k].socket # f
  <2>1. \A i \in Slots : qSocket[i] # f
    BY <1>1, <1>4
  <2>2. ASSUME NEW w \in Workers, NEW k \in Active(w) PROVE clients[w][k].socket # f
    BY <1>1, <1>4 DEF HeldBy
  <2> QED
    BY <2>1, <2>2
<1>6. /\ qThread[mi] = 0
      /\ \A w \in Workers : wpc[w] \in {"take", "rel1", "rel2", "clq1", "clq2"} =>
           wi[w] \in Slots \ {mi}
  BY <1>1, BusySlot DEF IInv, SlotInv, SlotOK
<1>7. CopyOK'
  BY <1>1, <1>2, <1>3, <1>6, StayFacts DEF IInv, CopyOK, WorkersStay
<1>8. Handover'
  <2> SUFFICES ASSUME NEW i \in Slots
               PROVE  /\ qThread'[i] # 0 => qSocket'[i] \in Fds
                      /\ qSocket'[i] \in Fds /\ qThread'[i] = 0 =>
                           \/ mpc' \in {"lazy", "assign"} /\ mi' = i
                           \/ \E v \in Workers : wpc'[v] \in {"rel2", "clq2"} /\ wi'[v] = i
    BY DEF Handover
  <2>1. CASE i = mi
    BY <1>1, <2>1
  <2>2. CASE i # mi
    BY <1>1, <1>2, <2>2, StayFacts DEF IInv, Handover, WorkersStay
  <2> QED
    BY <2>1, <2>2
<1>9. SoleOwner'
  BY <1>1, <1>2, <1>5, StayFacts DEF IInv, SoleOwner, WorkersStay
<1>10. HeldIsOpen'
  BY <1>1, <1>2, <1>4, StayFacts DEF HeldIsOpen
<1>11. Tracked'
  <2>1. NoLeak => NoLeak'
    BY <1>1, <1>2, StayFacts, FdsAssumption DEF NoLeak, IInv, SlotInv, TypeOK, SharedTypeOK
  <2> QED
    BY <1>2, <2>1, StayFacts DEF IInv, Tracked
<1> QED
  BY <1>7, <1>8, <1>9, <1>10, <1>11 DEF ConnInv

\* main() names a worker in the slot it has filled.
LEMMA AssignStep ==
  ASSUME IInv, MainAssign
  PROVE  ConnInv'
<1>1. /\ mpc = "assign" /\ mpc' = "time" /\ mi' = mi /\ mi \in Slots /\ qSocket[mi] \in Fds
      /\ qSocket' = qSocket /\ open' = open
      /\ qThread'[mi] = mlazy /\ mlazy # 0 /\ \A i \in Slots \ {mi} : qThread'[i] = qThread[i]
  BY DEF MainAssign, MainGo, IInv, SlotInv, MainIndexOK, MainSlotOK, TypeOK, SharedTypeOK,
    PhaseOK, StartOK
<1>2. WorkersStay
  BY DEF MainAssign, WorkersStay, workerVars
<1>3. CopyOK'
  BY <1>1, <1>2, StayFacts DEF IInv, CopyOK, WorkersStay
<1>4. Handover'
  BY <1>1, <1>2, StayFacts DEF IInv, Handover, WorkersStay
<1>5. SoleOwner'
  BY <1>1, <1>2, StayFacts DEF IInv, SoleOwner, WorkersStay
<1>6. HeldIsOpen'
  <2>1. \A i \in Slots : Closing(i) => Closing(i)'
    BY <1>1, <1>2, StayFacts DEF Closing, WorkersStay
  <2> QED
    BY <1>1, <1>2, <2>1, StayFacts DEF IInv, HeldIsOpen
<1>7. Tracked'
  BY <1>1, <1>2, StayFacts DEF IInv, Tracked, NoLeak
<1> QED
  BY <1>3, <1>4, <1>5, <1>6, <1>7 DEF ConnInv

\* By the time main() walks the queue no worker holds a connection.
LEMMA NobodyHolds ==
  ASSUME IInv, mpc \in {"stray", "free", "exited"}, NEW w \in Workers
  PROVE  HeldBy(w) = {}
<1>1. CASE merror
  BY <1>1 DEF IInv, PhaseOK, StartOK, HeldIsOpen
<1>2. CASE ~merror
  <2>1. wpc[w] \in {"none", "done", "dead"}
    BY <1>2 DEF IInv, PhaseOK, StopOK, Returned
  <2>2. clients[w] = <<>>
    BY <2>1 DEF IInv, PhaseOK, StopOK
  <2> QED
    BY <2>2, EmptyBuffer
<1> QED
  BY <1>1, <1>2

\* main() closes what is left in a slot.
LEMMA StrayStep ==
  ASSUME IInv, MainStray
  PROVE  ConnInv'
<1>1. /\ mpc = "stray" /\ mi \in Slots /\ qSocket' = qSocket /\ qThread' = qThread
      /\ open' = open \ {qSocket[mi]}
      /\ \/ mi = QueueSize - 1 /\ mpc' = "free"
         \/ mpc' = "stray" /\ mi' = mi + 1
  BY DEF MainStray, IInv, SlotInv, TypeOK, MainIndexOK, queueVars
<1>2. WorkersStay
  BY DEF MainStray, WorkersStay, workerVars
<1>3. \A w \in Workers : HeldBy(w) = {}
  BY <1>1, NobodyHolds
<1>4. /\ \A i \in Slots : Walked(i) \/ i = mi => Walked(i)'
      /\ \A i \in Slots : Walked(i)' => Walked(i) \/ i = mi
  BY <1>1, QueueSizeAssumption DEF Walked, Slots
<1>5. CopyOK'
  BY <1>1, <1>2, <1>4, StayFacts DEF IInv, CopyOK, WorkersStay, Walked
<1>6. Handover'
  BY <1>1, <1>2, StayFacts DEF IInv, Handover, WorkersStay
<1>7. SoleOwner'
  BY <1>1, <1>2, StayFacts DEF IInv, SoleOwner, WorkersStay
<1>8. HeldIsOpen'
  <2>1. \A i \in Slots : Closing(i) \/ i = mi => Closing(i)'
    BY <1>1, <1>2, <1>4, StayFacts DEF Closing, WorkersStay, Walked
  <2>2. \A i \in Slots : qSocket'[i] \in Fds => qSocket'[i] \in open' \/ Closing(i)'
    BY <1>1, <2>1 DEF IInv, HeldIsOpen, SoleOwner
  <2> QED
    BY <1>2, <1>3, <2>2, StayFacts DEF HeldIsOpen
<1>9. Tracked'
  BY <1>1, <1>2, StayFacts DEF IInv, Tracked, NoLeak
<1> QED
  BY <1>5, <1>6, <1>7, <1>8, <1>9 DEF ConnInv

\* Every other step of main() is of one of these kinds.
LEMMA MainKinds ==
  ASSUME IInv, MainStep \/ MainAcceptFail \/ SigInt
  PROVE  MainStill \/ MainBlank \/ MainAssign \/ MainStray
<1> USE DEF MainGo, notMain, queueVars, lazyVars, serverVars, threadVars, mainVars,
            workerVars
<1>a. /\ MainIndexOK /\ MainSlotOK /\ SharedTypeOK /\ WorkerTypeOK
      /\ qSocket \in [Slots -> Fds \cup {0, -1}] /\ 0 \notin Fds /\ -1 \notin Fds
  BY FdsAssumption DEF IInv, SlotInv, TypeOK, SharedTypeOK
<1>1. CASE MainOpenDb
  <2>1. WorkersStay /\ QueueKept /\ open' = open
    BY <1>1 DEF MainOpenDb, WorkersStay, QueueKept
  <2>2. /\ mpc \in {"lazy", "assign"} => mpc' \in {"lazy", "assign"} /\ mi' = mi
        /\ \A i \in Slots : Walked(i)' <=> Walked(i)
    BY <1>1 DEF MainOpenDb, Walked, Slots
  <2> QED
    BY <2>1, <2>2 DEF MainStill
<1>2. CASE MainSpawnFail
  <2>1. WorkersStay /\ QueueKept /\ open' = open
    BY <1>2 DEF MainSpawnFail, WorkersStay, QueueKept
  <2>2. /\ mpc \in {"lazy", "assign"} => mpc' \in {"lazy", "assign"} /\ mi' = mi
        /\ \A i \in Slots : Walked(i)' <=> Walked(i)
    BY <1>2 DEF MainSpawnFail, Walked, Slots
  <2> QED
    BY <2>1, <2>2 DEF MainStill
<1>3. CASE MainInitLaziestID
  <2>1. WorkersStay /\ QueueKept /\ open' = open
    BY <1>3 DEF MainInitLaziestID, WorkersStay, QueueKept
  <2>2. /\ mpc \in {"lazy", "assign"} => mpc' \in {"lazy", "assign"} /\ mi' = mi
        /\ \A i \in Slots : Walked(i)' <=> Walked(i)
    BY <1>3 DEF MainInitLaziestID, Walked, Slots
  <2> QED
    BY <2>1, <2>2 DEF MainStill
<1>4. CASE MainInitLaziestActive
  <2>1. WorkersStay /\ QueueKept /\ open' = open
    BY <1>4 DEF MainInitLaziestActive, WorkersStay, QueueKept
  <2>2. /\ mpc \in {"lazy", "assign"} => mpc' \in {"lazy", "assign"} /\ mi' = mi
        /\ \A i \in Slots : Walked(i)' <=> Walked(i)
    BY <1>4 DEF MainInitLaziestActive, Walked, Slots
  <2> QED
    BY <2>1, <2>2 DEF MainStill
<1>5. CASE MainListen
  <2>1. WorkersStay /\ QueueKept /\ open' = open
    BY <1>5 DEF MainListen, WorkersStay, QueueKept
  <2>2. /\ mpc \in {"lazy", "assign"} => mpc' \in {"lazy", "assign"} /\ mi' = mi
        /\ \A i \in Slots : Walked(i)' <=> Walked(i)
    BY <1>5 DEF MainListen, Walked, Slots
  <2> QED
    BY <2>1, <2>2 DEF MainStill
<1>6. CASE MainLoop
  <2>1. WorkersStay /\ QueueKept /\ open' = open
    BY <1>6 DEF MainLoop, WorkersStay, QueueKept
  <2>2. /\ mpc \in {"lazy", "assign"} => mpc' \in {"lazy", "assign"} /\ mi' = mi
        /\ \A i \in Slots : Walked(i)' <=> Walked(i)
    BY <1>6 DEF MainLoop, Walked, Slots
  <2> QED
    BY <2>1, <2>2 DEF MainStill
<1>7. CASE MainScan
  <2>1. WorkersStay /\ QueueKept /\ open' = open
    BY <1>7 DEF MainScan, WorkersStay, QueueKept
  <2>2. /\ mpc \in {"lazy", "assign"} => mpc' \in {"lazy", "assign"} /\ mi' = mi
        /\ \A i \in Slots : Walked(i)' <=> Walked(i)
    BY <1>7 DEF MainScan, Walked, Slots
  <2> QED
    BY <2>1, <2>2 DEF MainStill
<1>8. CASE MainReadLaziest
  <2>1. WorkersStay /\ QueueKept /\ open' = open
    BY <1>8 DEF MainReadLaziest, WorkersStay, QueueKept
  <2>2. /\ mpc \in {"lazy", "assign"} => mpc' \in {"lazy", "assign"} /\ mi' = mi
        /\ \A i \in Slots : Walked(i)' <=> Walked(i)
    BY <1>8 DEF MainReadLaziest, Walked, Slots
  <2> QED
    BY <2>1, <2>2 DEF MainStill
<1>9. CASE MainTime
  <2>1. WorkersStay /\ QueueKept /\ open' = open
    BY <1>9 DEF MainTime, WorkersStay, QueueKept
  <2>2. /\ mpc \in {"lazy", "assign"} => mpc' \in {"lazy", "assign"} /\ mi' = mi
        /\ \A i \in Slots : Walked(i)' <=> Walked(i)
    BY <1>9 DEF MainTime, Walked, Slots
  <2> QED
    BY <2>1, <2>2 DEF MainStill
<1>10. CASE SigInt
  <2>1. WorkersStay /\ QueueKept /\ open' = open
    BY <1>10 DEF SigInt, WorkersStay, QueueKept
  <2>2. /\ mpc \in {"lazy", "assign"} => mpc' \in {"lazy", "assign"} /\ mi' = mi
        /\ \A i \in Slots : Walked(i)' <=> Walked(i)
    BY <1>10 DEF SigInt, Walked, Slots
  <2> QED
    BY <2>1, <2>2 DEF MainStill
<1>11. CASE MainCloseServ
  <2>1. WorkersStay /\ QueueKept /\ open' = open
    BY <1>11 DEF MainCloseServ, WorkersStay, QueueKept
  <2>2. /\ mpc \in {"lazy", "assign"} => mpc' \in {"lazy", "assign"} /\ mi' = mi
        /\ \A i \in Slots : Walked(i)' <=> Walked(i)
    BY <1>11 DEF MainCloseServ, Walked, Slots
  <2> QED
    BY <2>1, <2>2 DEF MainStill
<1>12. CASE MainKill
  <2>1. WorkersStay /\ QueueKept /\ open' = open
    BY <1>12 DEF MainKill, WorkersStay, QueueKept
  <2>2. /\ mpc \in {"lazy", "assign"} => mpc' \in {"lazy", "assign"} /\ mi' = mi
        /\ \A i \in Slots : Walked(i)' <=> Walked(i)
    BY <1>12 DEF MainKill, Walked, Slots
  <2> QED
    BY <2>1, <2>2 DEF MainStill
<1>13. CASE MainTerm
  <2>1. WorkersStay /\ QueueKept /\ open' = open
    BY <1>13 DEF MainTerm, WorkersStay, QueueKept
  <2>2. /\ mpc \in {"lazy", "assign"} => mpc' \in {"lazy", "assign"} /\ mi' = mi
        /\ \A i \in Slots : Walked(i)' <=> Walked(i)
    BY <1>13 DEF MainTerm, Walked, Slots
  <2> QED
    BY <2>1, <2>2 DEF MainStill
<1>14. CASE MainJoin
  <2>1. WorkersStay /\ QueueKept /\ open' = open
    BY <1>14 DEF MainJoin, WorkersStay, QueueKept
  <2>2. /\ mpc \in {"lazy", "assign"} => mpc' \in {"lazy", "assign"} /\ mi' = mi
        /\ \A i \in Slots : Walked(i)' <=> Walked(i)
    BY <1>14 DEF MainJoin, Walked, Slots
  <2> QED
    BY <2>1, <2>2 DEF MainStill
<1>15. CASE MainExit
  <2>1. WorkersStay /\ QueueKept /\ open' = open
    BY <1>15 DEF MainExit, WorkersStay, QueueKept
  <2>2. /\ mpc \in {"lazy", "assign"} => mpc' \in {"lazy", "assign"} /\ mi' = mi
        /\ \A i \in Slots : Walked(i)' <=> Walked(i)
    BY <1>15 DEF MainExit, Walked, Slots
  <2> QED
    BY <2>1, <2>2 DEF MainStill
<1>16. CASE MainSpawn
  <2>1. wpc[mi] = "none"
    <3>1. mi \in 1..NumWorkers /\ created = 1..(mi - 1)
      BY <1>a, <1>16 DEF MainSpawn, MainIndexOK, Workers, IInv, PhaseOK, StartOK
    <3>2. mi \notin created
      BY <3>1
    <3> QED
      BY <3>1, <3>2 DEF IInv, PhaseOK, StopOK, Workers
  <2>2. WorkersStay /\ QueueKept /\ open' = open
    BY <1>a, <1>16, <2>1 DEF MainSpawn, WorkersStay, QueueKept, WorkerTypeOK
  <2>3. /\ mpc \in {"lazy", "assign"} => mpc' \in {"lazy", "assign"} /\ mi' = mi
        /\ \A i \in Slots : Walked(i)' <=> Walked(i)
    BY <1>16 DEF MainSpawn, Walked
  <2> QED
    BY <2>2, <2>3 DEF MainStill
<1>17. CASE MainPrep
  <2>1. mi \in Slots /\ qThread[mi] = 0
    BY <1>a, <1>17 DEF MainPrep, MainIndexOK, MainSlotOK, IInv, SlotInv, TypeOK, SlotOK
  <2>2. qThread' = qThread
    BY <1>a, <1>17, <2>1 DEF MainPrep, SharedTypeOK
  <2>3. WorkersStay /\ QueueKept /\ open' = open
    BY <1>17, <2>2 DEF MainPrep, WorkersStay, QueueKept
  <2>4. /\ mpc \in {"lazy", "assign"} => mpc' \in {"lazy", "assign"} /\ mi' = mi
        /\ \A i \in Slots : Walked(i)' <=> Walked(i)
    BY <1>17 DEF MainPrep, Walked
  <2> QED
    BY <2>3, <2>4 DEF MainStill
<1>18. CASE MainAcceptFail
  <2>1. mi \in Slots /\ qSocket[mi] \notin Fds
    BY <1>a, <1>18 DEF MainAcceptFail, MainIndexOK, MainSlotOK
  <2>2. WorkersStay
    BY <1>18 DEF MainAcceptFail, WorkersStay
  <2> QED
    BY <1>18, <2>1, <2>2 DEF MainBlank, MainAcceptFail
<1>19. CASE MainAcceptReset
  <2>1. mi \in Slots /\ qSocket[mi] \notin Fds
    BY <1>a, <1>19 DEF MainAcceptReset, MainIndexOK, MainSlotOK
  <2>2. WorkersStay
    BY <1>19 DEF MainAcceptReset, WorkersStay
  <2> QED
    BY <1>19, <2>1, <2>2 DEF MainBlank, MainAcceptReset
<1> QED
  BY <1>1, <1>2, <1>3, <1>4, <1>5, <1>6, <1>7, <1>8, <1>9, <1>10, <1>11, <1>12, <1>13,
     <1>14, <1>15, <1>16, <1>17, <1>18, <1>19
     DEF MainStep

\* Every step of main() preserves the invariant.
LEMMA MainInv ==
  ASSUME IInv, MainStep \/ MainAcceptFail \/ SigInt \/ \E f \in Fds : MainAccept(f)
  PROVE  IInv'
<1>1. SlotInv' /\ PhaseOK'
  BY MainSlotInv, MainPhaseOK DEF IInv
<1>2. ConnInv'
  BY MainKinds, StillStep, BlankStep, AcceptStep, AssignStep, StrayStep
<1> QED
  BY <1>1, <1>2 DEF IInv, ConnInv


-----------------------------------------------------------------------------
(***************************************************************************)
(* The theorems.                                                           *)
(***************************************************************************)

\* The invariant of the dispatcher holds in every reachable state.
THEOREM Invariant == Spec => []IInv
<1>1. Init => IInv
  <2> SUFFICES ASSUME Init PROVE IInv
    OBVIOUS
  <2>1. SlotInv
    BY InitSlotInv
  <2>2. StartOK /\ StopOK
    BY FdsAssumption DEF Init, StartOK, StopOK, Starting, Accepting, Ending, Cleaning
  <2>3. \A w \in Workers : Active(w) = {} /\ HeldBy(w) = {}
    BY EmptyBuffer DEF Init
  <2>4. CopyOK /\ Handover /\ SoleOwner /\ HeldIsOpen /\ Tracked
    BY <2>3, FdsAssumption DEF Init, CopyOK, Handover, SoleOwner, HeldIsOpen, Tracked, NoLeak
  <2> QED
    BY <2>1, <2>2, <2>4 DEF IInv, PhaseOK
<1>2. IInv /\ [Next]_vars => IInv'
  <2> SUFFICES ASSUME IInv, [Next]_vars PROVE IInv'
    OBVIOUS
  <2>1. CASE MainStep \/ MainAcceptFail \/ SigInt \/ \E f \in Fds : MainAccept(f)
    BY <2>1, MainInv
  <2>2. ASSUME NEW w \in Workers, WorkerStep(w)
        PROVE  IInv'
    BY <2>2, WorkerInv
  <2>3. CASE UNCHANGED vars
    <3> USE <2>3 DEF vars, queueVars, lazyVars, serverVars, threadVars, mainVars, workerVars
    <3>1. SlotInv'
      BY StutterSlotInv DEF IInv
    <3>2. PhaseOK'
      BY DEF IInv, PhaseOK, StartOK, StopOK, Starting, Accepting, Ending, Cleaning, Returned
    <3>3. WorkersStay /\ QueueKept
      BY DEF WorkersStay, QueueKept
    <3>4. ConnInv'
      BY <3>3, StillStep DEF MainStill, Walked
    <3> QED
      BY <3>1, <3>2, <3>4 DEF IInv, ConnInv
  <2> QED
    BY <2>1, <2>2, <2>3 DEF Next, Terminated
<1> QED
  BY <1>1, <1>2, PTL DEF Spec

\* No connection is ever in two places at once: a descriptor is served by one
\* worker, from one entry of its buffer, and leaves its slot as it arrives there.
THEOREM OneOwner == Spec => []SoleOwner
<1>1. IInv => SoleOwner
  BY DEF IInv
<1> QED
  BY <1>1, Invariant, PTL

\* No thread reads, writes or closes a descriptor that has been closed and that
\* accept() may have given to another connection.
THEOREM NoStaleDescriptor == Spec => []HeldIsOpen
<1>1. IInv => HeldIsOpen
  BY DEF IInv
<1> QED
  BY <1>1, Invariant, PTL

\* The two writes of every hand-over come in an order in which a slot never
\* names a worker without holding a connection.
THEOREM HandedOver == Spec => []Handover
<1>1. IInv => Handover
  BY DEF IInv
<1> QED
  BY <1>1, Invariant, PTL

\* As long as no worker has died, every open connection is in the queue or in a
\* buffer, where somebody will find it.
THEOREM NothingLost == Spec => []((\A w \in Workers : wpc[w] # "dead") => NoLeak)
<1>1. IInv => ((\A w \in Workers : wpc[w] # "dead") => NoLeak)
  BY DEF IInv, Tracked
<1> QED
  BY <1>1, Invariant, PTL

\* main() frees the queue only when every thread it has started has returned,
\* unless it could not start them all.
THEOREM FreedLast == Spec => []FreesAfterJoin
<1>1. IInv => FreesAfterJoin
  BY DEF IInv, PhaseOK, StopOK, FreesAfterJoin, SlotInv, TypeOK, SharedTypeOK
<1> QED
  BY <1>1, Invariant, PTL

\* When main() frees the queue no connection is open, and no worker waits to be
\* relieved of the load balancing after everybody has been told to stop.
THEOREM ShutsDownClean == Spec => []CleanShutdown
<1>1. IInv => CleanShutdown
  <2> SUFFICES ASSUME IInv PROVE CleanShutdown
    OBVIOUS
  <2>1. ASSUME mpc \in {"free", "exited"}, \A w \in Workers : wpc[w] # "dead"
        PROVE  open = {}
    <3>1. \A i \in Slots : qSocket[i] \notin open
      BY <2>1 DEF IInv, CopyOK
    <3>2. \A w \in Workers : HeldBy(w) = {}
      BY <2>1, NobodyHolds
    <3> QED
      BY <2>1, <3>1, <3>2 DEF IInv, Tracked, NoLeak
  <2>2. \A w \in Workers : wpc[w] \in {"clean", "clmax", "clwait"} => killserver
    BY DEF IInv, PhaseOK, StopOK, Cleaning
  <2> QED
    BY <2>1, <2>2 DEF CleanShutdown
<1> QED
  BY <1>1, Invariant, PTL

\* Once main() listens, it joins no thread it has not started and frees no
\* address list it has not got.
THEOREM ServesUncrashed == Spec => []NoCrashInService
<1>1. IInv => NoCrashInService
  BY DEF IInv, PhaseOK, StartOK, NoCrashInService
<1> QED
  BY <1>1, Invariant, PTL

-----------------------------------------------------------------------------
(***************************************************************************)
(* The buffers: no worker's buffer outgrows the connections that can be    *)
(* open.  A worker makes room for the slots that it has counted.  They     *)
(* still name it when it expands its buffer, and what is queued for it and *)
(* what it holds are different connections.                                *)
(***************************************************************************)

\* Slots that name w, and those of them that its count has passed.
Named(w) == {i \in Slots : qThread[i] = w}
Passed(w) == {i \in Slots : i < wi[w] /\ qThread[i] = w}

Counting(w) == wpc[w] \in {"count", "expand"}

\* clients_queued counts slots that name w and clients_active its connections
\* when the buffer is expanded.
CountOK(w) ==
  /\ wpc[w] = "count" => wqueued[w] <= Cardinality(Passed(w))
  /\ wpc[w] = "expand" => wqueued[w] <= Cardinality(Named(w))
  /\ wqueued[w] = 0 \/ Counting(w) \/ wpc[w] = "dead"
  /\ Counting(w) => wactive[w] = Cardinality(Active(w))

\* The search for a free entry goes on where it ended for the last slot.
FillOK(w) ==
  /\ wpc[w] \in {"copy", "take"} => \A k \in 1..(wc[w] - 1) : k \in Active(w)
  /\ wpc[w] \in {"rel1", "rel2"} => \A k \in 1..wc[w] : k \in Active(w)

SizeOK(w) == Len(clients[w]) <= Cardinality(Fds)

BufferOK(w) == CountOK(w) /\ FillOK(w) /\ SizeOK(w)

-----------------------------------------------------------------------------
(***************************************************************************)
(* Counting slots and connections.                                         *)
(***************************************************************************)

\* There are finitely many slots.
LEMMA FiniteSlots ==
  ASSUME NEW S \in SUBSET Slots
  PROVE  IsFiniteSet(S) /\ Cardinality(S) \in Nat
<1>1. IsFiniteSet(Slots)
  <2>1. 0 \in Int /\ QueueSize - 1 \in Int
    BY QueueSizeAssumption
  <2> QED
    BY <2>1, FS_Interval, Zenon DEF Slots
<1> QED
  BY <1>1, FS_Subset, FS_CardinalityType

\* Those of a worker, before a step.
LEMMA SlotSets ==
  ASSUME NEW w
  PROVE  /\ IsFiniteSet(Named(w)) /\ Cardinality(Named(w)) \in Nat
         /\ IsFiniteSet(Passed(w)) /\ Cardinality(Passed(w)) \in Nat
<1>1. Named(w) \in SUBSET Slots /\ Passed(w) \in SUBSET Slots
  BY DEF Named, Passed
<1> QED
  BY <1>1, FiniteSlots

\* And after a step.
LEMMA SlotSetsAfter ==
  ASSUME NEW w
  PROVE  /\ IsFiniteSet(Named(w)') /\ Cardinality(Named(w)') \in Nat
         /\ IsFiniteSet(Passed(w)') /\ Cardinality(Passed(w)') \in Nat
<1>1. Named(w)' \in SUBSET Slots /\ Passed(w)' \in SUBSET Slots
  BY DEF Named, Passed
<1> QED
  BY <1>1, FiniteSlots

\* What a worker holds and what is queued for it are different descriptors.
LEMMA RoomForQueued ==
  ASSUME IInv, NEW w \in Workers, wpc[w] \notin {"rel1", "rel2"}
  PROVE  Cardinality(Active(w)) + Cardinality(Named(w)) <= Cardinality(Fds)
<1> DEFINE fdOf == [k \in Active(w) |-> clients[w][k].socket]
           queued == {qSocket[i] : i \in Named(w)}
           slotFd == [i \in Named(w) |-> qSocket[i]]
<1>1. IsFiniteSet(Fds) /\ Cardinality(Fds) \in Nat
  BY FiniteFdsAssumption, FS_CardinalityType
<1>2. WorkerTypeOK /\ SlotOK /\ SoleOwner /\ w # 0
  BY DEF IInv, SlotInv, TypeOK, Workers
<1>3. HeldBy(w) \subseteq Fds /\ \A k \in Active(w) : clients[w][k].socket \in HeldBy(w)
  BY <1>2, HeldIsFd DEF HeldBy
<1>4. \A i \in Named(w) : qSocket[i] \in Fds
  BY <1>2 DEF Named, SlotOK
<1>5. queued \subseteq Fds
  BY <1>4
<1>6. HeldBy(w) \cap queued = {}
  <2> SUFFICES ASSUME NEW k \in Active(w), NEW i \in Named(w),
                      clients[w][k].socket = qSocket[i]
               PROVE  FALSE
    BY DEF HeldBy
  <2>1. i \in Slots
    BY DEF Named
  <2>2. Moving(w, i, k)
    BY <1>2, <2>1 DEF SoleOwner
  <2> QED
    BY <2>2 DEF Moving
<1>7. /\ IsFiniteSet(HeldBy(w)) /\ IsFiniteSet(queued) /\ IsFiniteSet(HeldBy(w) \cup queued)
      /\ Cardinality(HeldBy(w) \cup queued) <= Cardinality(Fds)
  <2>1. HeldBy(w) \cup queued \subseteq Fds
    BY <1>3, <1>5
  <2> QED
    BY <1>1, <1>3, <1>5, <2>1, FS_Subset
<1>8. Cardinality(HeldBy(w) \cup queued) = Cardinality(HeldBy(w)) + Cardinality(queued)
  <2>1. Cardinality(HeldBy(w) \cap queued) = 0
    BY <1>6, FS_EmptySet
  <2>2. /\ Cardinality(HeldBy(w)) \in Nat /\ Cardinality(queued) \in Nat
        /\ Cardinality(HeldBy(w) \cup queued)
             = Cardinality(HeldBy(w)) + Cardinality(queued) - Cardinality(HeldBy(w) \cap queued)
    BY <1>7, FS_Union, FS_CardinalityType
  <2> QED
    BY <2>1, <2>2
<1>9. Cardinality(Active(w)) <= Cardinality(HeldBy(w))
  <2>1. fdOf \in [Active(w) -> HeldBy(w)]
    BY <1>3
  <2>2. \A j, k \in Active(w) : clients[w][j].socket = clients[w][k].socket => j = k
    BY <1>2 DEF SoleOwner
  <2>3. fdOf \in Injection(Active(w), HeldBy(w))
    BY <2>1, <2>2 DEF Injection, IsInjective
  <2> QED
    BY <1>7, <2>3, FS_Injection
<1>10. Cardinality(Named(w)) <= Cardinality(queued)
  <2>1. slotFd \in [Named(w) -> queued]
    OBVIOUS
  <2>2. \A i, j \in Named(w) : qSocket[i] = qSocket[j] => i = j
    BY <1>2, <1>4 DEF SoleOwner, Named
  <2>3. slotFd \in Injection(Named(w), queued)
    BY <2>1, <2>2 DEF Injection, IsInjective
  <2> QED
    BY <1>7, <2>3, FS_Injection
<1>11. /\ Cardinality(Active(w)) \in Nat /\ Cardinality(Named(w)) \in Nat
       /\ Cardinality(HeldBy(w)) \in Nat /\ Cardinality(queued) \in Nat
  BY <1>2, <1>7, ActiveCount, SlotSets, FS_CardinalityType
<1> HIDE DEF queued
<1> QED
  BY <1>1, <1>7, <1>8, <1>9, <1>10, <1>11

-----------------------------------------------------------------------------
(***************************************************************************)
(* Steps of others.                                                        *)
(***************************************************************************)

\* Whoever else moves may name w in more slots, and leaves its buffer alone.
Undisturbed(w) ==
  /\ wpc'[w] = wpc[w] \/ (wpc[w] = "none" /\ wpc'[w] = "open")
  /\ wi'[w] = wi[w] /\ wc'[w] = wc[w] /\ clients'[w] = clients[w]
  /\ wqueued'[w] = wqueued[w] /\ wactive'[w] = wactive[w]
  /\ \A i \in Slots : qThread[i] = w => qThread'[i] = w

\* Such a step keeps the counts right.
LEMMA UndisturbedStep ==
  ASSUME NEW w \in Workers, WorkerTypeOK, BufferOK(w), Undisturbed(w)
  PROVE  BufferOK(w)'
<1>1. Active(w)' = Active(w)
  BY DEF Active, Undisturbed
<1>2. Named(w) \subseteq Named(w)' /\ Passed(w) \subseteq Passed(w)'
  BY DEF Named, Passed, Undisturbed
<1>3. /\ IsFiniteSet(Named(w)') /\ Cardinality(Named(w)') \in Nat
      /\ IsFiniteSet(Passed(w)') /\ Cardinality(Passed(w)') \in Nat
  BY SlotSetsAfter
<1>4. /\ Cardinality(Named(w)) <= Cardinality(Named(w)')
      /\ Cardinality(Passed(w)) <= Cardinality(Passed(w)')
  BY <1>2, <1>3, FS_Subset
<1>5. wqueued[w] \in Nat /\ Cardinality(Named(w)) \in Nat /\ Cardinality(Passed(w)) \in Nat
  BY SlotSets DEF WorkerTypeOK
<1>6. wpc'[w] = wpc[w] \/ (~Counting(w) /\ ~Counting(w)'
                             /\ wpc'[w] \notin {"copy", "take", "rel1", "rel2"} /\ wqueued[w] = 0)
  BY DEF Undisturbed, Counting, BufferOK, CountOK
<1>7. CountOK(w)'
  <2>1. wpc'[w] = "count" => wqueued'[w] <= Cardinality(Passed(w)')
    BY <1>3, <1>4, <1>5, <1>6 DEF Undisturbed, BufferOK, CountOK, Counting
  <2>2. wpc'[w] = "expand" => wqueued'[w] <= Cardinality(Named(w)')
    BY <1>3, <1>4, <1>5, <1>6 DEF Undisturbed, BufferOK, CountOK, Counting
  <2>3. wqueued'[w] = 0 \/ Counting(w)' \/ wpc'[w] = "dead"
    BY <1>6 DEF Undisturbed, BufferOK, CountOK, Counting
  <2>4. Counting(w)' => wactive'[w] = Cardinality(Active(w)')
    BY <1>1, <1>6 DEF Undisturbed, BufferOK, CountOK, Counting
  <2> QED
    BY <2>1, <2>2, <2>3, <2>4 DEF CountOK
<1>8. FillOK(w)'
  BY <1>1, <1>6 DEF Undisturbed, BufferOK, FillOK
<1>9. SizeOK(w)'
  BY DEF Undisturbed, BufferOK, SizeOK
<1> QED
  BY <1>7, <1>8, <1>9 DEF BufferOK

\* A worker's counts are its own.
LEMMA OwnCounts ==
  ASSUME WorkerTypeOK, NEW v \in Workers, NEW w \in Workers, v # w, WorkerStep(v)
  PROVE  wqueued'[w] = wqueued[w] /\ wactive'[w] = wactive[w]
<1>0. wqueued \in [Workers -> Nat] /\ wactive \in [Workers -> Int]
  BY DEF WorkerTypeOK
<1>1. CASE WorkerOpenDb(v) \/ WorkerCopy(v) \/ WorkerReallocFail(v) \/ WorkerTake(v)
             \/ WorkerReleaseThread(v)
  BY <1>1 DEF WorkerOpenDb, WorkerCopy, WorkerReallocFail, WorkerTake, WorkerReleaseThread
<1>2. CASE WorkerLoop(v) \/ WorkerReleaseSocket(v) \/ WorkerClose(v)
  BY <1>0, <1>2 DEF WorkerLoop, WorkerReleaseSocket, WorkerClose
<1>3. CASE WorkerCount(v) \/ WorkerExpand(v)
  BY <1>0, <1>3 DEF WorkerCount, WorkerExpand
<1>4. CASE WorkerReadLaziestID(v) \/ WorkerReadLaziestActive(v) \/ WorkerSetLaziestID(v)
             \/ WorkerSetLaziestActive(v) \/ WorkerSelect(v) \/ WorkerKeep(v)
  BY <1>4 DEF WorkerReadLaziestID, WorkerReadLaziestActive, WorkerSetLaziestID,
              WorkerSetLaziestActive, WorkerSelect, WorkerKeep
<1>5. CASE WorkerLeaveBalancing(v) \/ WorkerOfferBalancing(v) \/ WorkerAwaitRelief(v)
             \/ WorkerCloseClients(v) \/ WorkerScanQueue(v) \/ WorkerCloseOrReassign(v)
  BY <1>5 DEF WorkerLeaveBalancing, WorkerOfferBalancing, WorkerAwaitRelief,
              WorkerCloseClients, WorkerScanQueue, WorkerCloseOrReassign
<1>6. CASE WorkerCloseQueued(v) \/ WorkerClearThread(v) \/ WorkerClearSocket(v)
  BY <1>6 DEF WorkerCloseQueued, WorkerClearThread, WorkerClearSocket
<1> QED
  BY <1>1, <1>2, <1>3, <1>4, <1>5, <1>6 DEF WorkerStep

\* A worker takes only its own name out of a slot.
LEMMA OtherWorkerStep ==
  ASSUME IInv, NEW v \in Workers, NEW w \in Workers, v # w, WorkerStep(v), BufferOK(w)
  PROVE  BufferOK(w)'
<1>1. SlotInv /\ WorkerTypeOK /\ SlotOK /\ StopOK /\ CopyOK
  BY DEF IInv, SlotInv, TypeOK, PhaseOK
<1>2. WorkerFrame(v) /\ Kind(v)
  BY <1>1, WorkerKinds
<1>3. \A i \in Slots : qThread[i] = w => qThread'[i] = w
  <2>1. CASE DropsName(v)
    <3>1. Claiming(v)
      BY <2>1 DEF DropsName, Claiming
    <3>2. qThread[wi[v]] = v
      BY <1>1, <3>1 DEF SlotOK
    <3> QED
      BY <2>1, <3>2 DEF DropsName
  <2>2. CASE qThread' = qThread
    BY <2>2
  <2> QED
    BY <1>2, <2>1, <2>2 DEF Kind, Quiet, Takes, EmptiesSlot, ClosesOne, ClosesAll,
                            ClosesSlot, Dies, QueueKept
<1>4. wqueued'[w] = wqueued[w] /\ wactive'[w] = wactive[w]
  BY <1>1, OwnCounts
<1>5. Undisturbed(w)
  BY <1>2, <1>3, <1>4 DEF WorkerFrame, Undisturbed
<1> QED
  BY <1>1, <1>5, UndisturbedStep

\* main() writes only slots that name nobody.
LEMMA MainBufferStep ==
  ASSUME IInv, NEW w \in Workers, BufferOK(w),
         MainStep \/ MainAcceptFail \/ SigInt \/ \E f \in Fds : MainAccept(f)
  PROVE  BufferOK(w)'
<1>1. WorkerTypeOK /\ SharedTypeOK /\ MainSlotOK
  BY DEF IInv, SlotInv, TypeOK
<1>2. wqueued' = wqueued /\ wactive' = wactive
  <2> USE DEF notMain, queueVars, lazyVars, serverVars, threadVars, workerVars
  <2>1. CASE MainOpenDb \/ MainSpawn \/ MainSpawnFail \/ MainInitLaziestID
               \/ MainInitLaziestActive \/ MainListen \/ MainLoop
    BY <2>1 DEF MainOpenDb, MainSpawn, MainSpawnFail, MainInitLaziestID,
                MainInitLaziestActive, MainListen, MainLoop
  <2>2. CASE MainScan \/ MainPrep \/ MainAcceptReset \/ MainReadLaziest \/ MainAssign \/ MainTime
    BY <2>2 DEF MainScan, MainPrep, MainAcceptReset, MainReadLaziest, MainAssign, MainTime
  <2>3. CASE MainCloseServ \/ MainKill \/ MainTerm \/ MainJoin \/ MainStray \/ MainExit
    BY <2>3 DEF MainCloseServ, MainKill, MainTerm, MainJoin, MainStray, MainExit
  <2>4. CASE MainAcceptFail \/ SigInt \/ \E f \in Fds : MainAccept(f)
    BY <2>4 DEF MainAcceptFail, SigInt, MainAccept
  <2> QED
    BY <2>1, <2>2, <2>3, <2>4 DEF MainStep
<1>3. WorkersStay /\ \A i \in Slots : qThread[i] = w => qThread'[i] = w
  <2>1. CASE MainStill \/ MainBlank
    BY <2>1 DEF MainStill, MainBlank, QueueKept
  <2>2. CASE MainAssign
    <3>1. WorkersStay
      BY <2>2 DEF MainAssign, WorkersStay, workerVars
    <3>2. qThread[mi] = 0 /\ qThread' = [qThread EXCEPT ![mi] = mlazy]
      BY <1>1, <2>2 DEF MainAssign, MainGo, MainSlotOK
    <3>3. qThread \in [Slots -> Workers \cup {0}] /\ w # 0
      BY <1>1 DEF SharedTypeOK, Workers
    <3> QED
      BY <3>1, <3>2, <3>3
  <2>3. CASE MainStray
    BY <2>3 DEF MainStray, WorkersStay, workerVars, queueVars
  <2>4. CASE \E f \in Fds : MainAccept(f)
    BY <2>4 DEF MainAccept, WorkersStay, workerVars
  <2> QED
    BY <2>1, <2>2, <2>3, <2>4, MainKinds
<1>4. Undisturbed(w)
  BY <1>2, <1>3 DEF Undisturbed, WorkersStay
<1> QED
  BY <1>1, <1>4, UndisturbedStep

-----------------------------------------------------------------------------
(***************************************************************************)
(* The worker's own steps.                                                 *)
(***************************************************************************)

\* Outside the passes that count and copy, the buffer must only not grow.
LEMMA IdleStep ==
  ASSUME NEW w \in Workers, BufferOK(w), WorkerTypeOK,
         wpc'[w] \notin {"count", "expand", "copy", "take", "rel1", "rel2"},
         wpc'[w] = "dead" \/ (~Counting(w) /\ wpc[w] # "dead" /\ wqueued'[w] = wqueued[w]),
         clients'[w] = <<>> \/ Len(clients'[w]) = Len(clients[w])
  PROVE  BufferOK(w)'
<1>1. CountOK(w)'
  BY DEF BufferOK, CountOK, Counting
<1>2. FillOK(w)'
  BY DEF FillOK
<1>3. SizeOK(w)'
  <2>1. Cardinality(Fds) \in Nat
    BY FiniteFdsAssumption, FS_CardinalityType
  <2>2. CASE clients'[w] = <<>>
    <3>1. Len(clients'[w]) = 0
      BY <2>2
    <3> QED
      BY <2>1, <3>1 DEF SizeOK
  <2>3. CASE Len(clients'[w]) = Len(clients[w])
    BY <2>3 DEF BufferOK, SizeOK
  <2> QED
    BY <2>2, <2>3
<1> QED
  BY <1>1, <1>2, <1>3 DEF BufferOK

\* One more slot is counted.
LEMMA CountStep ==
  ASSUME IInv, NEW w \in Workers, BufferOK(w), WorkerCount(w)
  PROVE  BufferOK(w)'
<1>0. WorkerTypeOK /\ wi \in [Workers -> Slots] /\ wqueued \in [Workers -> Nat]
  BY DEF IInv, SlotInv, TypeOK, WorkerTypeOK
<1>a. wi[w] \in Slots
  BY <1>0
<1>b. wi[w] \in Int /\ \A i \in Slots : i \in Int
  BY <1>a, QueueSizeAssumption DEF Slots
<1>c. \A i \in Slots : /\ i <= wi[w] <=> i < wi[w] \/ i = wi[w]
                       /\ i <= wi[w] <=> i < wi[w] + 1
  <2> SUFFICES ASSUME NEW i \in Slots, NEW x, x = wi[w]
               PROVE  (i <= x <=> i < x \/ i = x) /\ (i <= x <=> i < x + 1)
    OBVIOUS
  <2> QED
    BY <1>b
<1>d. ~(wi[w] < wi[w])
  <2> DEFINE x == wi[w]
  <2> HIDE DEF x
  <2>1. x \in Int => ~(x < x)
    OBVIOUS
  <2> QED
    BY <1>b, <2>1 DEF x
<1>1. /\ NextSlot(w, "count", "count", "expand") /\ qThread' = qThread
      /\ clients' = clients /\ wactive' = wactive
      /\ wqueued'[w] = IF qThread[wi[w]] = w THEN wqueued[w] + 1 ELSE wqueued[w]
  BY <1>0 DEF WorkerCount, shared, queueVars
<1>2. wpc[w] = "count" /\ wpc'[w] \in {"count", "expand"}
  <2>1. "count" \in WorkerPCs /\ "expand" \in WorkerPCs
    BY DEF WorkerPCs
  <2> QED
    BY <1>0, <1>1, <2>1, NextSlotFacts
<1>3. Active(w)' = Active(w)
  BY <1>1 DEF Active
<1>4. Named(w)' = Named(w)
  BY <1>1 DEF Named
<1>5. wqueued[w] <= Cardinality(Passed(w))
  BY <1>2 DEF BufferOK, CountOK
<1> DEFINE more == {i \in Slots : i <= wi[w] /\ qThread[i] = w}
<1>6. more = IF qThread[wi[w]] = w THEN Passed(w) \cup {wi[w]} ELSE Passed(w)
  BY <1>a, <1>c, <1>d DEF Passed
<1>7. wqueued'[w] <= Cardinality(more) /\ IsFiniteSet(more) /\ Cardinality(more) \in Nat
  <2>1. wi[w] \notin Passed(w)
    BY <1>d DEF Passed
  <2>2. /\ IsFiniteSet(Passed(w)) /\ Cardinality(Passed(w)) \in Nat
        /\ wqueued[w] \in Nat
    BY <1>0, SlotSets
  <2>3. CASE qThread[wi[w]] = w
    <3>1. more = Passed(w) \cup {wi[w]}
      BY <1>6, <2>3
    <3>2. Cardinality(more) = Cardinality(Passed(w)) + 1 /\ IsFiniteSet(more)
      BY <2>1, <2>2, <3>1, FS_AddElement
    <3> HIDE DEF more
    <3> QED
      BY <1>1, <1>5, <2>2, <2>3, <3>2
  <2>4. CASE qThread[wi[w]] # w
    <3>1. more = Passed(w)
      BY <1>6, <2>4
    <3> HIDE DEF more
    <3> QED
      BY <1>1, <1>5, <2>2, <2>4, <3>1
  <2> QED
    BY <2>3, <2>4
<1>8. CASE wpc'[w] = "expand"
  <2>1. more \subseteq Named(w)
    BY DEF Named
  <2>2. IsFiniteSet(Named(w)) /\ Cardinality(Named(w)) \in Nat
    BY SlotSets
  <2>3. Cardinality(more) <= Cardinality(Named(w))
    BY <2>1, <2>2, FS_Subset
  <2> HIDE DEF more
  <2>4. wqueued'[w] \in Nat
    BY <1>0, <1>1
  <2>5. wqueued'[w] <= Cardinality(Named(w)')
    BY <1>4, <1>7, <2>2, <2>3, <2>4
  <2> QED
    BY <1>1, <1>2, <1>3, <1>8, <2>5 DEF BufferOK, CountOK, FillOK, SizeOK, Counting
<1>9. CASE wpc'[w] = "count"
  <2>1. wi'[w] = wi[w] + 1
    <3>1. ~Go(w, "count", "expand")
      BY <1>0, <1>9 DEF Go, WorkerTypeOK
    <3> QED
      BY <1>0, <1>1, <3>1 DEF NextSlot
  <2>2. more = Passed(w)'
    BY <1>1, <1>c, <2>1 DEF Passed
  <2>3. wqueued'[w] <= Cardinality(Passed(w)')
    BY <1>7, <2>2
  <2> QED
    BY <1>1, <1>2, <1>3, <1>9, <2>3 DEF BufferOK, CountOK, FillOK, SizeOK, Counting
<1> QED
  BY <1>2, <1>8, <1>9

\* The buffer is expanded to the connections it holds and those counted.
LEMMA ExpandStep ==
  ASSUME IInv, NEW w \in Workers, BufferOK(w), WorkerExpand(w)
  PROVE  BufferOK(w)'
<1>0. /\ WorkerTypeOK /\ wc \in [Workers -> Nat] /\ wqueued \in [Workers -> Nat]
      /\ wpc \in [Workers -> WorkerPCs] /\ clients \in [Workers -> Seq(Entry)]
      /\ clients[w] \in Seq(Entry) /\ Len(clients[w]) \in Nat /\ wactive[w] \in Int
  BY DEF IInv, SlotInv, TypeOK, WorkerTypeOK
<1>1. /\ wpc[w] = "expand" /\ wpc'[w] = "copy" /\ wc'[w] = 1 /\ wqueued'[w] = 0
  BY <1>0 DEF WorkerExpand, Go
<1>2. /\ wqueued[w] <= Cardinality(Named(w)) /\ wactive[w] = Cardinality(Active(w))
      /\ Len(clients[w]) <= Cardinality(Fds)
  BY <1>1 DEF BufferOK, CountOK, SizeOK, Counting
<1>3. Cardinality(Active(w)) + Cardinality(Named(w)) <= Cardinality(Fds)
  BY <1>1, RoomForQueued
<1>4. SizeOK(w)'
  <2>1. CASE Delta(w) > 0
    <3>1. Delta(w) \in Nat /\ Len(clients[w]) + Delta(w) \in Nat
      BY <1>0, <2>1 DEF Delta
    <3>2. clients'[w] = Grown(clients[w], Len(clients[w]) + Delta(w))
      BY <1>0, <2>1 DEF WorkerExpand
    <3>3. Len(clients'[w]) = Len(clients[w]) + Delta(w)
      BY <1>0, <3>1, <3>2, GrownBuffer
    <3>4. Len(clients[w]) + Delta(w) = wqueued[w] + wactive[w]
      BY <1>0 DEF Delta
    <3>5. /\ Cardinality(Active(w)) \in Nat /\ Cardinality(Named(w)) \in Nat
          /\ wqueued[w] \in Nat /\ Cardinality(Fds) \in Nat
      BY <1>0, ActiveCount, SlotSets, FiniteFdsAssumption, FS_CardinalityType
    <3>6. wqueued[w] + wactive[w] <= Cardinality(Fds)
      BY <1>2, <1>3, <3>5
    <3> QED
      BY <3>3, <3>4, <3>6 DEF SizeOK
  <2>2. CASE ~(Delta(w) > 0)
    <3>1. clients' = clients
      BY <2>2 DEF WorkerExpand
    <3> QED
      BY <1>2, <3>1 DEF SizeOK
  <2> QED
    BY <2>1, <2>2
<1>5. CountOK(w)' /\ FillOK(w)'
  BY <1>1 DEF CountOK, FillOK, Counting
<1> QED
  BY <1>4, <1>5 DEF BufferOK

\* A free entry is searched behind entries that are taken; only if all of them are
\* is one added, and then the slot's connection is one more than they hold.
LEMMA CopyStep ==
  ASSUME IInv, NEW w \in Workers, BufferOK(w), WorkerCopy(w)
  PROVE  BufferOK(w)'
<1>0. /\ WorkerTypeOK /\ wc \in [Workers -> Nat] /\ wpc \in [Workers -> WorkerPCs]
      /\ clients \in [Workers -> Seq(Entry)] /\ wi[w] \in Slots
      /\ clients[w] \in Seq(Entry) /\ Len(clients[w]) \in Nat /\ wc[w] \in Nat
      /\ DOMAIN clients[w] = 1..Len(clients[w])
  BY DEF IInv, SlotInv, TypeOK, WorkerTypeOK
<1>1. wpc[w] = "copy" /\ wqueued' = wqueued /\ wqueued[w] = 0
  <2>1. wpc[w] = "copy"
    BY DEF WorkerCopy, NextSlot, Go
  <2> QED
    BY <2>1 DEF WorkerCopy, BufferOK, CountOK, Counting
<1>2. CASE qThread[wi[w]] # w
  <2>1. wpc'[w] \in {"copy", "lzid"}
    <3>1. "copy" \in WorkerPCs /\ "lzid" \in WorkerPCs
      BY DEF WorkerPCs
    <3>2. NextSlot(w, "copy", "copy", "lzid")
      BY <1>2 DEF WorkerCopy
    <3> QED
      BY <1>0, <3>1, <3>2, NextSlotFacts
  <2>2. wc' = wc /\ clients' = clients
    BY <1>2 DEF WorkerCopy
  <2>3. Active(w)' = Active(w)
    BY <2>2 DEF Active
  <2> QED
    BY <1>1, <2>1, <2>2, <2>3 DEF BufferOK, CountOK, FillOK, SizeOK, Counting
<1>3. CASE qThread[wi[w]] = w
  <2>1. wpc'[w] = "take"
    BY <1>0, <1>3 DEF WorkerCopy, Go
  <2>2. PICK k \in 1..(Len(clients[w]) + 1) :
          /\ FirstFree(w, k) /\ wc' = [wc EXCEPT ![w] = k]
          /\ clients' = IF k > Len(clients[w])
                          THEN [clients EXCEPT ![w] = Grown(clients[w], k)] ELSE clients
    BY <1>3 DEF WorkerCopy
  <2>3. k \in Nat /\ k >= wc[w] /\ k - 1 <= Len(clients[w]) /\ wc'[w] = k
    BY <1>0, <2>2 DEF FirstFree
  <2>4. \A j \in 1..(k - 1) : j \in Active(w)
    <3> SUFFICES ASSUME NEW j \in 1..(k - 1) PROVE j \in Active(w)
      OBVIOUS
    <3>1. CASE j <= wc[w] - 1
      <4>1. j \in 1..(wc[w] - 1)
        BY <1>0, <2>3, <3>1
      <4> QED
        BY <1>1, <4>1 DEF BufferOK, FillOK
    <3>2. CASE ~(j <= wc[w] - 1)
      <4>1. j \in wc[w]..(k - 1) /\ j \in 1..Len(clients[w])
        BY <1>0, <2>3, <3>2
      <4> QED
        BY <1>0, <2>2, <4>1 DEF FirstFree, Active
    <3> QED
      BY <3>1, <3>2
  <2>5. CASE k > Len(clients[w])
    <3>1. clients'[w] = Grown(clients[w], k) /\ k = Len(clients[w]) + 1
      BY <1>0, <2>2, <2>3, <2>5
    <3>2. Len(clients'[w]) = Len(clients[w]) + 1 /\ Active(w)' = Active(w)
      <4>1. Len(Grown(clients[w], k)) = k
        BY <1>0, <2>3, GrownBuffer
      <4>2. SameHeld(w)
        BY <1>0, <2>3, <3>1, GrownHeld
      <4> QED
        BY <3>1, <4>1, <4>2 DEF SameHeld
    <3>3. Cardinality(Active(w)) = Len(clients[w])
      <4>1. Active(w) = 1..Len(clients[w])
        <5>1. 1..Len(clients[w]) = 1..(k - 1)
          BY <1>0, <3>1
        <5>2. Active(w) \subseteq 1..Len(clients[w])
          BY <1>0 DEF Active
        <5> QED
          BY <2>4, <5>1, <5>2
      <4>2. 1 \in Int /\ Len(clients[w]) \in Int
        BY <1>0
      <4>3. Cardinality(1..Len(clients[w]))
              = IF 1 > Len(clients[w]) THEN 0 ELSE Len(clients[w]) - 1 + 1
        BY <4>2, FS_Interval, Zenon
      <4> QED
        BY <1>0, <4>1, <4>3
    <3>4. Cardinality(Named(w)) >= 1
      <4>1. wi[w] \in Named(w)
        BY <1>0, <1>3 DEF Named
      <4>2. IsFiniteSet(Named(w)) /\ Cardinality(Named(w)) \in Nat
        BY SlotSets
      <4>3. Cardinality(Named(w)) # 0
        BY <4>1, <4>2, FS_EmptySet
      <4> QED
        BY <4>2, <4>3
    <3>5. Len(clients'[w]) <= Cardinality(Fds)
      <4>1. Cardinality(Active(w)) + Cardinality(Named(w)) <= Cardinality(Fds)
        BY <1>1, RoomForQueued
      <4>2. Cardinality(Named(w)) \in Nat /\ Cardinality(Fds) \in Nat
        BY SlotSets, FiniteFdsAssumption, FS_CardinalityType
      <4> QED
        BY <1>0, <3>2, <3>3, <3>4, <4>1, <4>2
    <3> QED
      BY <1>1, <2>1, <2>3, <2>4, <3>2, <3>5 DEF BufferOK, CountOK, FillOK, SizeOK, Counting
  <2>6. CASE ~(k > Len(clients[w]))
    <3>1. clients' = clients
      BY <2>2, <2>6
    <3>2. Active(w)' = Active(w)
      BY <3>1 DEF Active
    <3> QED
      BY <1>1, <2>1, <2>3, <2>4, <3>1, <3>2 DEF BufferOK, CountOK, FillOK, SizeOK, Counting
  <2> QED
    BY <2>5, <2>6
<1> QED
  BY <1>2, <1>3

\* The entry that was found is filled.
LEMMA TakeStep ==
  ASSUME IInv, NEW w \in Workers, BufferOK(w), WorkerTake(w)
  PROVE  BufferOK(w)'
<1>0. /\ WorkerIndexOK /\ wc[w] \in Nat /\ wpc \in [Workers -> WorkerPCs]
      /\ clients \in [Workers -> Seq(Entry)] /\ clients[w] \in Seq(Entry)
      /\ Len(clients[w]) \in Nat
  BY DEF IInv, SlotInv, TypeOK, WorkerTypeOK
<1>1. /\ wpc[w] = "take" /\ wpc'[w] = "rel1" /\ wc' = wc /\ wqueued' = wqueued
      /\ clients'[w] = [clients[w] EXCEPT ![wc[w]] =
                          [socket |-> qSocket[wi[w]], recv_iter |-> 0]]
  BY <1>0 DEF WorkerTake, Go
<1>2. Active(w)' = Active(w) \cup {wc[w]}
  <2>1. SlotInv /\ StopOK /\ CopyOK /\ WorkerStep(w)
    BY DEF IInv, PhaseOK, WorkerStep
  <2>2. Kind(w)
    BY <2>1, WorkerKinds
  <2>3. Takes(w)
    BY <1>1, <2>2 DEF Kind, Quiet, DropsName, EmptiesSlot, ClosesOne, ClosesAll, ClosesSlot, Dies
  <2> QED
    BY <2>3 DEF Takes
<1>3. Len(clients'[w]) = Len(clients[w])
  <2>1. DOMAIN clients'[w] = 1..Len(clients[w])
    BY <1>0, <1>1
  <2>2. clients'[w] \in Seq(Entry)
    BY WorkerInv DEF WorkerStep, IInv, SlotInv, TypeOK, WorkerTypeOK
  <2> QED
    BY <1>0, <2>1, <2>2
<1>4. \A k \in 1..wc[w] : k \in Active(w) \cup {wc[w]}
  <2>1. \A k \in 1..(wc[w] - 1) : k \in Active(w)
    BY <1>1 DEF BufferOK, FillOK
  <2>2. \A k \in 1..wc[w] : k \in 1..(wc[w] - 1) \/ k = wc[w]
    BY <1>0
  <2> QED
    BY <2>1, <2>2
<1> QED
  BY <1>1, <1>2, <1>3, <1>4 DEF BufferOK, CountOK, FillOK, SizeOK, Counting

\* The slot is released behind the entry that now holds its connection.
LEMMA ReleaseStep ==
  ASSUME IInv, NEW w \in Workers, BufferOK(w),
         WorkerReleaseThread(w) \/ WorkerReleaseSocket(w)
  PROVE  BufferOK(w)'
<1>0. WorkerTypeOK /\ wc[w] \in Nat /\ wpc \in [Workers -> WorkerPCs]
  BY DEF IInv, SlotInv, TypeOK, WorkerTypeOK
<1>1. /\ wc' = wc /\ wqueued' = wqueued /\ clients' = clients
  BY DEF WorkerReleaseThread, WorkerReleaseSocket
<1>2. Active(w)' = Active(w)
  BY <1>1 DEF Active
<1>3. wpc[w] \in {"rel1", "rel2"} /\ wpc'[w] \in {"rel2", "copy", "lzid"}
  <2>1. CASE WorkerReleaseThread(w)
    BY <1>0, <2>1 DEF WorkerReleaseThread, Go
  <2>2. CASE WorkerReleaseSocket(w)
    <3>1. "copy" \in WorkerPCs /\ "lzid" \in WorkerPCs
      BY DEF WorkerPCs
    <3>2. NextSlot(w, "rel2", "copy", "lzid")
      BY <2>2 DEF WorkerReleaseSocket
    <3>3. wpc[w] = "rel2" /\ wpc'[w] \in {"copy", "lzid"}
      BY <1>0, <3>1, <3>2, NextSlotFacts
    <3> QED
      BY <3>3
  <2> QED
    BY <2>1, <2>2
<1>4. \A k \in 1..(wc[w] - 1) : k \in 1..wc[w]
  BY <1>0
<1> QED
  BY <1>1, <1>2, <1>3, <1>4 DEF BufferOK, CountOK, FillOK, SizeOK, Counting

\* The recount at the top of the loop.
LEMMA LoopStep ==
  ASSUME IInv, NEW w \in Workers, BufferOK(w), WorkerLoop(w)
  PROVE  BufferOK(w)'
<1>0. wpc \in [Workers -> WorkerPCs] /\ wactive \in [Workers -> Int] /\ wqueued[w] \in Nat
  BY DEF IInv, SlotInv, TypeOK, WorkerTypeOK
<1>1. /\ wpc[w] = "loop" /\ wpc'[w] \in {"clean", "count"}
      /\ wactive'[w] = Cardinality(Active(w)) /\ clients' = clients /\ wqueued' = wqueued
  BY <1>0 DEF WorkerLoop, Go
<1>2. Active(w)' = Active(w)
  BY <1>1 DEF Active
<1>3. wqueued[w] = 0 /\ Cardinality(Passed(w)') \in Nat
  BY <1>1, SlotSetsAfter DEF BufferOK, CountOK, Counting
<1>4. wqueued'[w] <= Cardinality(Passed(w)')
  BY <1>1, <1>3
<1> QED
  BY <1>1, <1>2, <1>3, <1>4 DEF BufferOK, CountOK, FillOK, SizeOK, Counting

\* Steps outside the passes over the queue, and the end of a worker.
LEMMA OtherOwnStep ==
  ASSUME IInv, NEW w \in Workers, BufferOK(w), WorkerStep(w),
         ~WorkerLoop(w), ~WorkerCount(w), ~WorkerExpand(w), ~WorkerCopy(w), ~WorkerTake(w),
         ~WorkerReleaseThread(w), ~WorkerReleaseSocket(w)
  PROVE  BufferOK(w)'
<1>0. /\ WorkerTypeOK /\ WorkerIndexOK /\ wpc \in [Workers -> WorkerPCs] /\ wi \in [Workers -> Slots]
      /\ clients \in [Workers -> Seq(Entry)] /\ clients[w] \in Seq(Entry)
      /\ Len(clients[w]) \in Nat /\ wc[w] \in Nat
  BY DEF IInv, SlotInv, TypeOK, WorkerTypeOK
<1> DEFINE Idle(p) == p \notin {"count", "expand", "copy", "take", "rel1", "rel2"}
           Stays == Idle(wpc[w]) /\ wpc[w] # "dead" /\ wqueued' = wqueued /\ Idle(wpc'[w])
           SameSize == Len(clients'[w]) = Len(clients[w])
<1>1. CASE Stays /\ (SameSize \/ clients'[w] = <<>>)
  BY <1>0, <1>1, IdleStep DEF Counting
<1>2. CASE WorkerOpenDb(w)
  <2>1. Stays /\ SameSize
    BY <1>0, <1>2 DEF WorkerOpenDb, Go
  <2> QED
    BY <1>1, <2>1
<1>3. CASE WorkerReallocFail(w)
  <2>1. wpc'[w] = "dead" /\ clients'[w] = <<>>
    BY <1>0, <1>3 DEF WorkerReallocFail, Go
  <2> QED
    BY <1>0, <2>1, IdleStep
<1>4. CASE WorkerReadLaziestID(w) \/ WorkerReadLaziestActive(w) \/ WorkerSetLaziestID(w)
             \/ WorkerSetLaziestActive(w)
  <2>1. Stays /\ SameSize
    BY <1>0, <1>4 DEF WorkerReadLaziestID, WorkerReadLaziestActive, WorkerSetLaziestID,
                      WorkerSetLaziestActive, Go
  <2> QED
    BY <1>1, <2>1
<1>5. CASE WorkerSelect(w)
  <2>1. Stays
    BY <1>0, <1>5 DEF WorkerSelect, Go
  <2>2. clients'[w] = [k \in 1..Len(clients[w]) |-> Polled(clients[w][k])]
    BY <1>0, <1>5 DEF WorkerSelect
  <2>3. SameSize
    BY <1>0, <2>2, PolledBuffer
  <2> QED
    BY <1>1, <2>1, <2>3
<1>6. CASE WorkerKeep(w) \/ WorkerClose(w)
  <2>1. NextClient(w) /\ wqueued' = wqueued
    BY <1>6 DEF WorkerKeep, WorkerClose
  <2>2. wpc[w] = "handle" /\ wpc'[w] \in {"handle", "loop"}
    BY <1>0, <2>1, NextClientFacts
  <2>3. clients'[w] = clients[w] \/ clients'[w] = [clients[w] EXCEPT ![wc[w]] = FreeEntry]
    BY <1>0, <1>6 DEF WorkerKeep, WorkerClose
  <2>4. wc[w] \in 1..Len(clients[w])
    <3>1. wc[w] # 0 /\ wc[w] <= Len(clients[w])
      BY <2>2 DEF IInv, SlotInv, TypeOK, WorkerIndexOK
    <3> QED
      BY <1>0, <3>1
  <2>5. SameSize
    <3>1. FreeEntry \in Entry
      BY DEF FreeEntry, Entry
    <3>2. Len([clients[w] EXCEPT ![wc[w]] = FreeEntry]) = Len(clients[w])
      BY <1>0, <2>4, <3>1, WriteEntry
    <3> QED
      BY <2>3, <3>2
  <2> QED
    BY <1>1, <2>1, <2>2, <2>5
<1>7. CASE WorkerLeaveBalancing(w) \/ WorkerOfferBalancing(w) \/ WorkerAwaitRelief(w)
             \/ WorkerCloseClients(w) \/ WorkerCloseQueued(w) \/ WorkerClearThread(w)
  <2>1. Stays /\ (SameSize \/ clients'[w] = <<>>)
    BY <1>0, <1>7 DEF WorkerLeaveBalancing, WorkerOfferBalancing, WorkerAwaitRelief,
                      WorkerCloseClients, WorkerCloseQueued, WorkerClearThread, Go
  <2> QED
    BY <1>1, <2>1
<1>8. CASE WorkerScanQueue(w) \/ WorkerCloseOrReassign(w) \/ WorkerClearSocket(w)
  <2>1. wqueued' = wqueued /\ clients' = clients
    BY <1>8 DEF WorkerScanQueue, WorkerCloseOrReassign, WorkerClearSocket
  <2>2. PICK p \in {"clscan", "clkill", "clq2"} :
          NextSlot(w, p, "clscan", "done") \/ Go(w, p, "clkill") \/ Go(w, p, "clqclose")
    BY <1>8 DEF WorkerScanQueue, WorkerCloseOrReassign, WorkerClearSocket
  <2>3. wpc[w] = p /\ wpc'[w] \in {"clscan", "done", "clkill", "clqclose"}
    <3>1. "clscan" \in WorkerPCs /\ "done" \in WorkerPCs
      BY DEF WorkerPCs
    <3>2. CASE NextSlot(w, p, "clscan", "done")
      BY <1>0, <3>1, <3>2, NextSlotFacts
    <3>3. CASE Go(w, p, "clkill") \/ Go(w, p, "clqclose")
      BY <1>0, <3>3 DEF Go
    <3> QED
      BY <2>2, <3>2, <3>3
  <2> QED
    BY <1>1, <2>1, <2>3
<1> QED
  BY <1>2, <1>3, <1>4, <1>5, <1>6, <1>7, <1>8 DEF WorkerStep

-----------------------------------------------------------------------------
(***************************************************************************)
(* The theorem.                                                            *)
(***************************************************************************)

\* No worker's buffer has more entries than connections can be open: realloc()
\* is called for connections that are there, and entries are used again.
THEOREM BuffersBounded == Spec => []BufferBounded
<1> DEFINE BufferInv == \A w \in Workers : BufferOK(w)
<1>1. Init => BufferInv
  <2> SUFFICES ASSUME Init, NEW w \in Workers PROVE BufferOK(w)
    OBVIOUS
  <2>1. wpc[w] = "none" /\ wqueued[w] = 0 /\ clients[w] = <<>>
    BY DEF Init
  <2>2. Cardinality(Fds) \in Nat /\ Len(clients[w]) = 0
    BY <2>1, FiniteFdsAssumption, FS_CardinalityType
  <2> QED
    BY <2>1, <2>2 DEF BufferOK, CountOK, FillOK, SizeOK, Counting
<1>2. IInv /\ BufferInv /\ [Next]_vars => BufferInv'
  <2> SUFFICES ASSUME IInv, BufferInv, [Next]_vars, NEW w \in Workers PROVE BufferOK(w)'
    OBVIOUS
  <2>0. BufferOK(w)
    OBVIOUS
  <2>1. CASE MainStep \/ MainAcceptFail \/ SigInt \/ \E f \in Fds : MainAccept(f)
    BY <2>0, <2>1, MainBufferStep
  <2>2. ASSUME NEW v \in Workers, WorkerStep(v), v # w PROVE BufferOK(w)'
    BY <2>0, <2>2, OtherWorkerStep
  <2>3. CASE WorkerStep(w)
    BY <2>0, <2>3, LoopStep, CountStep, ExpandStep, CopyStep, TakeStep, ReleaseStep, OtherOwnStep
  <2>4. CASE UNCHANGED vars
    <3>1. Undisturbed(w)
      BY <2>4 DEF vars, workerVars, queueVars, Undisturbed
    <3> QED
      BY <2>0, <3>1, UndisturbedStep DEF IInv, SlotInv, TypeOK
  <2> QED
    BY <2>1, <2>2, <2>3, <2>4 DEF Next, Terminated
<1>3. BufferInv => BufferBounded
  BY DEF BufferBounded, BufferOK, SizeOK
<1> QED
  BY <1>1, <1>2, <1>3, Invariant, PTL DEF Spec

-----------------------------------------------------------------------------
(***************************************************************************)
(* The refinement: every kind of step is a step of Ownership, or leaves    *)
(* who owns what as it is.                                                 *)
(***************************************************************************)

\* The refinement mapping.
InSlot(f) == \E i \in Slots : qSocket[i] = f
OwnQueued == {f \in open : InSlot(f) /\ \A w \in Workers : f \notin HeldBy(w)}
OwnServed == [w \in Workers |-> HeldBy(w)]
OwnLost == {f \in open : /\ \A i \in Slots : qSocket[i] # f
                         /\ \A w \in Workers : f \notin HeldBy(w)}

\* The step changes nobody's connections.
Unowned == OwnQueued' = OwnQueued /\ OwnServed' = OwnServed /\ OwnLost' = OwnLost

\* Who owns what is decided by what is open, queued and held.
LEMMA SameOwners ==
  ASSUME open' = open, \A w \in Workers : HeldBy(w)' = HeldBy(w),
         \A f \in open : InSlot(f)' <=> InSlot(f)
  PROVE  Unowned
<1>1. OwnServed' = OwnServed
  BY DEF OwnServed
<1>2. OwnQueued' = OwnQueued
  BY DEF OwnQueued
<1>3. OwnLost' = OwnLost
  BY DEF OwnLost, InSlot
<1> QED
  BY <1>1, <1>2, <1>3 DEF Unowned

\* Nothing that is served is queued or lost, and everything served is open.
LEMMA OwnedApart ==
  ASSUME IInv, NEW w \in Workers, NEW f \in HeldBy(w)
  PROVE  f \in open /\ f \notin OwnQueued /\ f \notin OwnLost
  BY DEF IInv, HeldIsOpen, OwnQueued, OwnLost

\* Copying a slot into a worker's buffer is Claim.
LEMMA TakesRefines ==
  ASSUME IInv, NEW w \in Workers, WorkerFrame(w), Takes(w), NEW s \in Fds, s = qSocket[wi[w]]
  PROVE  Owns!Claim(w, s)
<1>1. /\ qSocket' = qSocket /\ open' = open /\ wpc[w] = "take"
      /\ wc[w] \notin Active(w) /\ Active(w)' = Active(w) \cup {wc[w]}
      /\ clients'[w][wc[w]].socket = s
      /\ \A k \in Active(w) : clients'[w][k].socket = clients[w][k].socket
  BY DEF Takes, QueueKept
<1>2. /\ wi[w] \in Slots /\ s \in Fds
      /\ \A v \in Workers : \A k \in Active(v) : clients[v][k].socket # s
  BY <1>1, ClaimedAlone
<1>3. HeldBy(w)' = HeldBy(w) \cup {s}
  BY <1>1 DEF HeldBy
<1>4. \A v \in Workers \ {w} : HeldBy(v)' = HeldBy(v)
  BY OthersHeld
<1>5. \A v \in Workers : s \notin HeldBy(v)
  BY <1>2 DEF HeldBy
<1>6. OwnServed' = [OwnServed EXCEPT ![w] = OwnServed[w] \cup {s}]
  BY <1>3, <1>4 DEF OwnServed
<1>7. OwnQueued' = OwnQueued \ {s}
  BY <1>1, <1>3, <1>4 DEF OwnQueued, InSlot
<1>8. OwnLost' = OwnLost
  BY <1>1, <1>2, <1>3, <1>4 DEF OwnLost
<1>9. s \in open
  BY <1>1, TakenIsOpen
<1>10. s \in OwnQueued
  BY <1>2, <1>5, <1>9 DEF OwnQueued, InSlot
<1> QED
  BY <1>6, <1>7, <1>8, <1>10 DEF Owns!Claim, OwnServed, OwnQueued, OwnLost, InSlot

\* Emptying a slot whose connection has been copied, or closed, changes nothing.
LEMMA EmptiesRefines ==
  ASSUME IInv, NEW w \in Workers, WorkerFrame(w), EmptiesSlot(w)
  PROVE  Unowned
<1>1. /\ open' = open /\ wpc[w] \in {"rel2", "clq2"} /\ clients'[w] = clients[w]
      /\ qSocket'[wi[w]] = 0 /\ \A i \in Slots \ {wi[w]} : qSocket'[i] = qSocket[i]
  BY DEF EmptiesSlot
<1> DEFINE s == qSocket[wi[w]]
<1>2. /\ wi[w] \in Slots /\ s \in Fds /\ 0 \notin open
      /\ wc[w] \in Nat /\ clients[w] \in Seq(Entry)
  BY <1>1, BusySlot, FdsAssumption DEF IInv, SlotInv, TypeOK, SharedTypeOK, WorkerTypeOK
<1>3. \A v \in Workers : HeldBy(v)' = HeldBy(v)
  BY <1>1, OthersHeld, SameBuffer, HeldFacts
<1>4. \A f \in open : f # s => (InSlot(f)' <=> InSlot(f))
  BY <1>1, <1>2 DEF InSlot
<1>5. CASE wpc[w] = "clq2"
  <2>1. s \notin open
    BY <1>5 DEF IInv, CopyOK
  <2> QED
    BY <1>1, <1>3, <1>4, <2>1, SameOwners
<1>6. CASE wpc[w] = "rel2"
  <2>1. clients[w][wc[w]].socket = s /\ wc[w] # 0 /\ wc[w] <= Len(clients[w])
    BY <1>6 DEF IInv, CopyOK, SlotInv, TypeOK, WorkerIndexOK
  <2>2. wc[w] \in DOMAIN clients[w] /\ s # 0
    BY <1>2, <2>1, FdsAssumption
  <2>3. s \in HeldBy(w)
    BY <2>1, <2>2 DEF HeldBy, Active
  <2>4. OwnServed' = OwnServed
    BY <1>3 DEF OwnServed
  <2>5. OwnQueued' = OwnQueued
    BY <1>1, <1>3, <1>4, <2>3 DEF OwnQueued
  <2>6. OwnLost' = OwnLost
    BY <1>1, <1>3, <1>4, <2>3 DEF OwnLost, InSlot
  <2> QED
    BY <2>4, <2>5, <2>6 DEF Unowned
<1> QED
  BY <1>1, <1>5, <1>6

\* Closing what one worker serves, and nobody else can see, is Finish.
LEMMA FinishRefines ==
  ASSUME NEW w \in Workers, NEW F \in SUBSET HeldBy(w), qSocket' = qSocket,
         open' = open \ F, HeldBy(w)' = HeldBy(w) \ F,
         \A v \in Workers \ {w} : HeldBy(v)' = HeldBy(v)
  PROVE  Owns!Finish(w, F)
<1>1. F \subseteq OwnServed[w] /\ OwnServed' = [OwnServed EXCEPT ![w] = OwnServed[w] \ F]
  BY DEF OwnServed
<1>2. OwnQueued' = OwnQueued
  BY DEF OwnQueued, InSlot
<1>3. OwnLost' = OwnLost
  BY DEF OwnLost
<1> QED
  BY <1>1, <1>2, <1>3 DEF Owns!Finish, OwnServed, OwnQueued, OwnLost, InSlot

\* Closing a connection that waits in a slot, and that nobody serves, is Drop.
LEMMA DropRefines ==
  ASSUME IInv, NEW i \in Slots, NEW s, s = qSocket[i], qSocket' = qSocket, open' = open \ {s},
         \A v \in Workers : HeldBy(v)' = HeldBy(v) /\ s \notin HeldBy(v)
  PROVE  Owns!Drop(s) \/ Unowned
<1>1. CASE s \notin open
  BY <1>1, SameOwners DEF InSlot
<1>2. CASE s \in open
  <2>1. s \in OwnQueued /\ OwnQueued' = OwnQueued \ {s}
    BY <1>2 DEF OwnQueued, InSlot
  <2>2. OwnServed' = OwnServed
    BY DEF OwnServed
  <2>3. OwnLost' = OwnLost
    BY DEF OwnLost
  <2> QED
    BY <2>1, <2>2, <2>3 DEF Owns!Drop, OwnServed, OwnQueued, OwnLost, InSlot
<1> QED
  BY <1>1, <1>2

\* A worker that dies abandons what it serves.
LEMMA DiesRefines ==
  ASSUME IInv, NEW w \in Workers, WorkerFrame(w), Dies(w)
  PROVE  Owns!Abandon(w)
<1>1. /\ wpc[w] \in {"expand", "copy"} /\ qSocket' = qSocket /\ open' = open
      /\ clients'[w] = <<>>
  BY DEF Dies, QueueKept
<1>2. HeldBy(w)' = {} /\ \A v \in Workers \ {w} : HeldBy(v)' = HeldBy(v)
  BY <1>1, OthersHeld DEF HeldBy, Active
<1>3. ASSUME NEW f \in HeldBy(w)
      PROVE  /\ f \in open /\ \A i \in Slots : qSocket[i] # f
             /\ \A v \in Workers \ {w} : f \notin HeldBy(v)
  <2>1. PICK k \in Active(w) : f = clients[w][k].socket
    BY DEF HeldBy
  <2> QED
    BY <1>1, <2>1, OwnAlone, OwnedApart
<1>4. OwnServed' = [OwnServed EXCEPT ![w] = {}]
  BY <1>2 DEF OwnServed
<1>5. OwnQueued' = OwnQueued
  BY <1>1, <1>2, <1>3 DEF OwnQueued, InSlot
<1>6. OwnLost' = OwnLost \cup OwnServed[w]
  <2>1. \A f : f \in OwnLost' <=> f \in OwnLost \/ f \in HeldBy(w)
    BY <1>1, <1>2, <1>3 DEF OwnLost
  <2> QED
    BY <2>1 DEF OwnServed
<1> QED
  BY <1>4, <1>5, <1>6 DEF Owns!Abandon, OwnServed, OwnQueued, OwnLost, InSlot

\* Every step of a worker is a step of Ownership or changes no owner.
LEMMA WorkerRefines ==
  ASSUME IInv, NEW w \in Workers, WorkerStep(w)
  PROVE  Owns!Next \/ Unowned
<1>1. WorkerFrame(w) /\ Kind(w)
  BY WorkerKinds DEF IInv, PhaseOK
<1>2. \A v \in Workers \ {w} : HeldBy(v)' = HeldBy(v)
  BY <1>1, OthersHeld
<1>3. CASE Quiet(w)
  BY <1>2, <1>3, HeldFacts, SameOwners DEF Quiet, QueueKept, InSlot
<1>4. CASE Takes(w)
  <2>1. PICK s \in Fds : s = qSocket[wi[w]]
    BY <1>4, ClaimedAlone DEF Takes
  <2>2. Owns!Claim(w, s)
    BY <1>1, <1>4, <2>1, TakesRefines
  <2> QED
    BY <2>2 DEF Owns!Next
<1>5. CASE DropsName(w)
  <2>1. HeldBy(w)' = HeldBy(w)
    BY <1>5, SameBuffer, HeldFacts DEF DropsName
  <2> QED
    BY <1>2, <1>5, <2>1, SameOwners DEF DropsName, InSlot
<1>6. CASE EmptiesSlot(w)
  BY <1>1, <1>6, EmptiesRefines
<1>7. CASE ClosesOne(w)
  <2>1. PICK k \in Active(w) :
          /\ open' = open \ {clients[w][k].socket}
          /\ Active(w)' = Active(w) \ {k}
          /\ \A j \in Active(w) \ {k} : clients'[w][j].socket = clients[w][j].socket
    BY <1>7 DEF ClosesOne
  <2> DEFINE c == clients[w][k].socket
  <2>2. \A j \in Active(w) : clients[w][j].socket = c => j = k
    BY <1>7, OwnAlone DEF ClosesOne
  <2>3. c \in HeldBy(w) /\ c \in Fds /\ HeldBy(w)' = HeldBy(w) \ {c}
    BY <2>1, <2>2, HeldIsFd DEF HeldBy, IInv, SlotInv, TypeOK
  <2>4. Owns!Finish(w, {c})
    BY <1>2, <1>7, <2>1, <2>3, FinishRefines DEF ClosesOne, QueueKept
  <2> QED
    BY <2>3, <2>4 DEF Owns!Next
<1>8. CASE ClosesAll(w)
  <2>1. HeldBy(w)' = {}
    BY <1>8 DEF ClosesAll, HeldBy, Active
  <2>2. HeldBy(w) \subseteq Fds
    BY HeldIsFd DEF HeldBy, IInv, SlotInv, TypeOK
  <2>3. Owns!Finish(w, HeldBy(w))
    BY <1>2, <1>8, <2>1, FinishRefines DEF ClosesAll, QueueKept
  <2> QED
    BY <2>2, <2>3 DEF Owns!Next
<1>9. CASE ClosesSlot(w)
  <2>1. PICK s \in Fds : s = qSocket[wi[w]] /\ wi[w] \in Slots
    BY <1>9, ClaimedAlone DEF ClosesSlot
  <2>2. HeldBy(w)' = HeldBy(w)
    BY <1>9, SameBuffer, HeldFacts DEF ClosesSlot
  <2>3. \A v \in Workers : s \notin HeldBy(v)
    BY <1>9, <2>1, ClaimedAlone DEF ClosesSlot, HeldBy
  <2>4. Owns!Drop(s) \/ Unowned
    <3>1. \A v \in Workers : HeldBy(v)' = HeldBy(v) /\ s \notin HeldBy(v)
      BY <1>2, <2>2, <2>3
    <3>2. wi[w] \in Slots /\ s = qSocket[wi[w]] /\ qSocket' = qSocket /\ open' = open \ {s}
      BY <1>9, <2>1 DEF ClosesSlot, QueueKept
    <3> QED
      BY <3>1, <3>2, DropRefines
  <2> QED
    BY <2>4 DEF Owns!Next
<1>10. CASE Dies(w)
  BY <1>1, <1>10, DiesRefines DEF Owns!Next
<1> QED
  BY <1>1, <1>3, <1>4, <1>5, <1>6, <1>7, <1>8, <1>9, <1>10 DEF Kind

\* Every step of main() is a step of Ownership or changes no owner.
LEMMA MainRefines ==
  ASSUME IInv, MainStep \/ MainAcceptFail \/ SigInt \/ \E f \in Fds : MainAccept(f)
  PROVE  Owns!Next \/ Unowned
<1>1. CASE MainStill
  BY <1>1, StayFacts, SameOwners DEF MainStill, QueueKept, InSlot
<1>2. CASE MainBlank
  <2>1. open \subseteq Fds /\ 0 \notin Fds /\ -1 \notin Fds /\ qSocket \in [Slots -> Fds \cup {0, -1}]
    BY FdsAssumption DEF IInv, SlotInv, TypeOK, SharedTypeOK
  <2>2. \A f \in open : InSlot(f)' <=> InSlot(f)
    BY <1>2, <2>1 DEF MainBlank, InSlot
  <2> QED
    BY <1>2, <2>2, StayFacts, SameOwners DEF MainBlank
<1>3. CASE MainAssign
  <2>1. WorkersStay /\ open' = open /\ qSocket' = qSocket
    BY <1>3 DEF MainAssign, WorkersStay, workerVars
  <2> QED
    BY <2>1, StayFacts, SameOwners DEF InSlot
<1>4. CASE MainStray
  <2>1. /\ mpc = "stray" /\ mi \in Slots /\ qSocket' = qSocket /\ open' = open \ {qSocket[mi]}
        /\ WorkersStay
    BY <1>4 DEF MainStray, IInv, SlotInv, TypeOK, MainIndexOK, queueVars, WorkersStay, workerVars
  <2>2. PICK s : s = qSocket[mi]
    OBVIOUS
  <2>3. \A w \in Workers : HeldBy(w)' = HeldBy(w) /\ s \notin HeldBy(w)
    BY <2>1, NobodyHolds, StayFacts
  <2>4. Owns!Drop(s) \/ Unowned
    BY <2>1, <2>2, <2>3, DropRefines
  <2>5. Owns!Drop(s) => s \in Fds
    <3>1. open \subseteq Fds
      BY DEF IInv, SlotInv, TypeOK, SharedTypeOK
    <3> QED
      BY <3>1 DEF Owns!Drop
  <2> QED
    BY <2>4, <2>5 DEF Owns!Next
<1>5. ASSUME NEW f \in Fds, MainAccept(f)
      PROVE  Owns!Accept(f)
  <2>1. /\ mpc = "accept" /\ f \notin open /\ open' = open \cup {f}
        /\ qSocket' = [qSocket EXCEPT ![mi] = f] /\ WorkersStay
    BY <1>5 DEF MainAccept, MainGo, WorkersStay, workerVars
  <2>2. mi \in Slots /\ qSocket[mi] = 0 /\ qSocket \in [Slots -> Fds \cup {0, -1}] /\ 0 \notin open
    BY <2>1, FdsAssumption DEF IInv, SlotInv, MainIndexOK, MainSlotOK, TypeOK, SharedTypeOK
  <2>3. \A w \in Workers : HeldBy(w)' = HeldBy(w) /\ HeldBy(w) \subseteq open
    BY <2>1, StayFacts DEF IInv, HeldIsOpen
  <2>4. /\ InSlot(f)'
        /\ \A g \in open : (InSlot(g)' <=> InSlot(g))
    BY <2>1, <2>2 DEF InSlot
  <2>5. OwnQueued' = OwnQueued \cup {f}
    BY <2>1, <2>3, <2>4 DEF OwnQueued
  <2>6. OwnServed' = OwnServed
    BY <2>3 DEF OwnServed
  <2>7. OwnLost' = OwnLost
    BY <2>1, <2>3, <2>4 DEF OwnLost, InSlot
  <2>8. f \notin OwnQueued \cup OwnLost \cup UNION {OwnServed[w] : w \in Workers}
    BY <2>1, <2>3 DEF OwnQueued, OwnLost, OwnServed
  <2> QED
    BY <2>5, <2>6, <2>7, <2>8
       DEF Owns!Accept, Owns!Owned, OwnServed, OwnQueued, OwnLost, InSlot
<1> QED
  BY <1>1, <1>2, <1>3, <1>4, <1>5, MainKinds DEF Owns!Next

\* The dispatcher implements Ownership: every connection main() accepts waits
\* in the queue, is taken over by one worker at most, and is closed once, by
\* whoever has it; only a worker that dies leaves connections to nobody.
THEOREM DispatchImplementsOwnership == Spec => ImplementsOwnership
<1>1. Init => Owns!Init
  BY EmptyBuffer DEF Init, Owns!Init
<1>2. IInv /\ [Next]_vars => [Owns!Next]_(Owns!ownVars)
  <2> SUFFICES ASSUME IInv, [Next]_vars PROVE Owns!Next \/ UNCHANGED Owns!ownVars
    OBVIOUS
  <2>1. Owns!Next \/ Unowned
    <3>1. CASE MainStep \/ MainAcceptFail \/ SigInt \/ \E f \in Fds : MainAccept(f)
      BY <3>1, MainRefines
    <3>2. ASSUME NEW w \in Workers, WorkerStep(w)
          PROVE  Owns!Next \/ Unowned
      BY <3>2, WorkerRefines
    <3>3. CASE UNCHANGED vars
      BY <3>3 DEF vars, queueVars, workerVars, Unowned, OwnQueued, OwnServed, OwnLost,
                  InSlot, HeldBy, Active
    <3> QED
      BY <3>1, <3>2, <3>3 DEF Next, Terminated
  <2>2. Unowned => UNCHANGED Owns!ownVars
    BY DEF Unowned, Owns!ownVars, OwnQueued, OwnServed, OwnLost, InSlot
  <2> QED
    BY <2>1, <2>2
<1> QED
  BY <1>1, <1>2, Invariant, PTL DEF Spec, ImplementsOwnership, Owns!Spec
=============================================================================
