------------------------------ MODULE Dispatch ------------------------------
(***************************************************************************)
(* The connection dispatcher of traccoon: main() accepts connections into  *)
(* the shared accept queue and names, with no lock, the worker that must   *)
(* pick each one up; workerthread() copies its connections into a private  *)
(* buffer, releases the queue slots, polls the buffer and closes what it   *)
(* has handled; SIGINT and the error paths shut everything down.           *)
(*                                                                         *)
(* One step is one access to shared memory (the queue, LAZIEST_WORKER,     *)
(* killserver, the shutdown flags: all volatile) or one system call that   *)
(* changes which descriptors are open, with the thread-local work around   *)
(* it.  Local variables are reset where the code no longer reads them.     *)
(***************************************************************************)
EXTENDS Integers, Sequences, FiniteSets

CONSTANTS
  NumWorkers,    \* -w: number of worker threads, ids 1..NumWorkers
  QueueSize,     \* -q: slots of the accept queue
  Fds,           \* descriptors accept() can return
  MaxRecvIter,   \* MAX_RECV_ITER: polls before a client is timed out
  Faults         \* which of FaultKinds the environment may inject

FaultKinds == {"db", "spawn", "listen", "time", "workerdb", "realloc"}

ASSUME NumWorkersAssumption == NumWorkers \in Nat \ {0}
ASSUME QueueSizeAssumption == QueueSize \in Nat \ {0}
ASSUME FdsAssumption == 0 \notin Fds /\ -1 \notin Fds
ASSUME FiniteFdsAssumption == IsFiniteSet(Fds)   \* RLIMIT_NOFILE
ASSUME MaxRecvIterAssumption == MaxRecvIter \in Nat
ASSUME FaultsAssumption == Faults \subseteq FaultKinds

Workers == 1..NumWorkers
Slots == 0..(QueueSize - 1)
INT_MAX == 2147483647

VARIABLES
  qThread,     \* aqueue[i].thread: worker that must fetch slot i, 0 if none
  qSocket,     \* aqueue[i].socket: 0 when the slot is empty
  lazyID,      \* LAZIEST_WORKER.threadID
  lazyActive,  \* LAZIEST_WORKER.activeSockets
  killserver,  \* GLOBALSTATE.killserver
  servsock,    \* GLOBALSTATE.servsock, the listening socket
  open,        \* connection descriptors open in the kernel
  shutdown,    \* threads[w].shutdown
  created,     \* workers pthread_create() has started
  mpc, mi,     \* main(): control point and loop index
  mlazy,       \* main(): the threadID it has read from LAZIEST_WORKER
  merror,      \* main(): error is THREADCREATION_ERROR
  wpc, wi, wc, \* workers: control point, queue index i, buffer index c
  wqueued,     \* workers: clients_queued
  wactive,     \* workers: clients_active
  clients      \* workers: the client buffer, socket 0 marking a free entry

queueVars == <<qThread, qSocket>>
lazyVars == <<lazyID, lazyActive>>
serverVars == <<killserver, servsock>>
threadVars == <<shutdown, created>>
mainVars == <<mpc, mi, mlazy, merror>>
workerVars == <<wpc, wi, wc, wqueued, wactive, clients>>
vars == <<queueVars, lazyVars, serverVars, open, threadVars, mainVars, workerVars>>

MainPCs == {"start", "spawn", "initID", "initActive", "setup", "nextaddr",
            "loop", "scan", "prep", "accept", "accerr", "lazy", "assign", "time",
            "closeserv", "kill", "term", "join", "stray", "free",
            "exited", "crashed"}
WorkerPCs == {"none", "open", "loop", "count", "expand", "copy", "take",
              "rel1", "rel2", "lzid", "lzcmp", "lzsetid", "lzsetact",
              "select", "handle", "clean", "clmax", "clwait", "clclose",
              "clscan", "clkill", "clqclose", "clq1", "clq2", "done", "dead"}

Entry == [socket : Fds \cup {0}, recv_iter : Nat]
FreeEntry == [socket |-> 0, recv_iter |-> 0]

\* Entries of worker w's buffer that hold a connection, and the connections.
Active(w) == {k \in DOMAIN clients[w] : clients[w][k].socket # 0}
HeldBy(w) == {clients[w][k].socket : k \in Active(w)}

\* The thread has returned: pthread_join() on it succeeds.
Returned(w) == wpc[w] \in {"done", "dead"}
\* exit() in main() ends every thread.
Running == mpc \notin {"exited", "crashed"}

Init ==
  /\ qThread = [i \in Slots |-> 0] /\ qSocket = [i \in Slots |-> 0]
  /\ lazyID = 0 /\ lazyActive = 0
  /\ killserver = FALSE /\ servsock = "none" /\ open = {}
  /\ shutdown = [w \in Workers |-> FALSE] /\ created = {}
  /\ mpc = "start" /\ mi = 0 /\ mlazy = 0 /\ merror = FALSE
  /\ wpc = [w \in Workers |-> "none"]
  /\ wi = [w \in Workers |-> 0] /\ wc = [w \in Workers |-> 0]
  /\ wqueued = [w \in Workers |-> 0] /\ wactive = [w \in Workers |-> 0]
  /\ clients = [w \in Workers |-> <<>>]

\* Frames: everything but the variables a step of the named kind changes.
notMain == <<queueVars, lazyVars, serverVars, open, threadVars, workerVars>>
notQueue == <<lazyVars, serverVars, open, threadVars, mainVars>>
notLazy == <<queueVars, serverVars, open, threadVars, mainVars>>
notOpen == <<queueVars, lazyVars, serverVars, threadVars, mainVars>>
shared == <<queueVars, notQueue>>

-----------------------------------------------------------------------------
(***************************************************************************)
(* main(): start-up.                                                       *)
(***************************************************************************)

MainGo(p, q) == mpc = p /\ mpc' = q

\* Without a usable database main() goes straight to its shutdown code.
MainOpenDb ==
  /\ \/ MainGo("start", "spawn") /\ mi' = 1
     \/ MainGo("start", "kill") /\ "db" \in Faults /\ mi' = 0
  /\ UNCHANGED <<notMain, mlazy, merror>>

MainSpawn ==
  /\ mpc = "spawn"
  /\ shutdown' = [shutdown EXCEPT ![mi] = FALSE]
  /\ created' = created \cup {mi}
  /\ wpc' = [wpc EXCEPT ![mi] = "open"]
  /\ IF mi = NumWorkers THEN mpc' = "initID" /\ mi' = 0
                        ELSE mpc' = "spawn" /\ mi' = mi + 1
  /\ UNCHANGED <<queueVars, lazyVars, serverVars, open, mlazy, merror, wi, wc,
                 wqueued, wactive, clients>>

\* Mutant: the failure is not remembered.
MainSpawnFailUnnoticed ==
  /\ MainGo("spawn", "initID") /\ "spawn" \in Faults
  /\ shutdown' = [shutdown EXCEPT ![mi] = FALSE]
  /\ mi' = 0
  /\ UNCHANGED <<queueVars, lazyVars, serverVars, open, created, mlazy, merror, workerVars>>

MainSpawnFail ==
  /\ MainGo("spawn", "initID") /\ "spawn" \in Faults
  /\ shutdown' = [shutdown EXCEPT ![mi] = FALSE]
  /\ merror' = TRUE /\ mi' = 0
  /\ UNCHANGED <<queueVars, lazyVars, serverVars, open, created, mlazy, workerVars>>

MainInitLaziestID ==
  /\ MainGo("initID", "initActive")
  /\ lazyID' = 1
  /\ UNCHANGED <<queueVars, lazyActive, serverVars, open, threadVars, mi, mlazy, merror, workerVars>>

MainInitLaziestActive ==
  /\ MainGo("initActive", IF merror THEN "kill" ELSE "setup")
  /\ lazyActive' = 0
  /\ UNCHANGED <<queueVars, lazyID, serverVars, open, threadVars, mi, mlazy, merror, workerVars>>

\* getaddrinfo() ... listen(), and the SIGINT handler is installed.  When
\* getaddrinfo() fails, freeaddrinfo() is given an uninitialised pointer.
\* When socket() fails and there is another address, the loop "advances" to
\* servinfo->ai_next, the second address each time, and calls socket() for the
\* first one again: it ends only when that succeeds, and may never end.
MainListen ==
  /\ \/ MainGo("setup", "loop") /\ servsock' = "open"
     \/ /\ \/ MainGo("setup", "kill") \/ MainGo("setup", "crashed")
           \/ MainGo("setup", "nextaddr") \/ MainGo("nextaddr", "setup")
        /\ "listen" \in Faults /\ UNCHANGED servsock
  /\ UNCHANGED <<queueVars, lazyVars, killserver, open, threadVars, mi, mlazy, merror, workerVars>>

-----------------------------------------------------------------------------
(***************************************************************************)
(* main(): the accept loop.                                                *)
(***************************************************************************)

MainLoop ==
  /\ MainGo("loop", IF killserver THEN "closeserv" ELSE "scan")
  /\ UNCHANGED <<notMain, mi, mlazy, merror>>

\* Look for an empty slot, round and round (usleep after a full round).
MainScan ==
  /\ mpc = "scan"
  /\ IF qSocket[mi] = 0 THEN mpc' = "prep" /\ UNCHANGED mi
                        ELSE mpc' = "scan" /\ mi' = (mi + 1) % QueueSize
  /\ UNCHANGED <<notMain, mlazy, merror>>

MainPrep ==
  /\ MainGo("prep", "accept")
  /\ qThread' = [qThread EXCEPT ![mi] = 0]
  /\ UNCHANGED <<qSocket, lazyVars, serverVars, open, threadVars, mi, mlazy, merror, workerVars>>

MainAccept(f) ==
  /\ MainGo("accept", "lazy") /\ servsock = "open" /\ f \notin open
  /\ open' = open \cup {f}
  /\ qSocket' = [qSocket EXCEPT ![mi] = f]
  /\ UNCHANGED <<qThread, lazyVars, serverVars, threadVars, mi, mlazy, merror,
                 workerVars>>

\* accept() fails: no descriptor left, a transient error, or servsock closed.
MainAcceptFail ==
  /\ MainGo("accept", "accerr")
  /\ qSocket' = [qSocket EXCEPT ![mi] = -1]
  /\ UNCHANGED <<qThread, lazyVars, serverVars, open, threadVars, mi, mlazy, merror, workerVars>>

MainAcceptReset ==
  /\ MainGo("accerr", "time")
  /\ qSocket' = [qSocket EXCEPT ![mi] = 0]
  /\ UNCHANGED <<qThread, lazyVars, serverVars, open, threadVars, mi, mlazy, merror, workerVars>>

MainReadLaziest ==
  /\ MainGo("lazy", "assign")
  /\ mlazy' = lazyID
  /\ UNCHANGED <<notMain, mi, merror>>

MainAssign ==
  /\ MainGo("assign", "time")
  /\ qThread' = [qThread EXCEPT ![mi] = mlazy]
  /\ mlazy' = 0
  /\ UNCHANGED <<qSocket, lazyVars, serverVars, open, threadVars, mi, merror,
                 workerVars>>

\* gettimeofday() and, when it is due, prunePeers(), which the queue never sees.
MainTime ==
  /\ MainGo("time", "loop") /\ mi' = 0
  /\ \/ UNCHANGED killserver
     \/ "time" \in Faults /\ killserver' = TRUE
  /\ UNCHANGED <<queueVars, lazyVars, servsock, open, threadVars, mlazy, merror,
                 workerVars>>

\* sigint_handler(), run by the main thread once signal() has installed it.
SigInt ==
  /\ Running /\ servsock # "none"
  /\ killserver' = TRUE /\ servsock' = "closed"
  /\ UNCHANGED <<queueVars, lazyVars, open, threadVars, mainVars, workerVars>>

-----------------------------------------------------------------------------
(***************************************************************************)
(* main(): shutdown.                                                       *)
(***************************************************************************)

MainCloseServ ==
  /\ MainGo("closeserv", "kill")
  /\ servsock' = "closed"
  /\ UNCHANGED <<queueVars, lazyVars, killserver, open, threadVars, mi, mlazy, merror, workerVars>>

\* After a failed pthread_create() nobody is told to stop and nobody is joined.
MainKill ==
  /\ mpc = "kill"
  /\ killserver' = TRUE
  /\ IF merror THEN mpc' = "stray" /\ mi' = 0
               ELSE mpc' = "term" /\ mi' = 1
  /\ UNCHANGED <<queueVars, lazyVars, servsock, open, threadVars, mlazy, merror,
                 workerVars>>

MainTerm ==
  /\ MainGo("term", "join")
  /\ shutdown' = [shutdown EXCEPT ![mi] = TRUE]
  /\ UNCHANGED <<queueVars, lazyVars, serverVars, open, created, mi, mlazy, merror, workerVars>>

\* Mutant: the threads are not waited for.
MainJoinNoWait ==
  /\ mpc = "join"
  /\ IF mi = NumWorkers THEN mpc' = "stray" /\ mi' = 0
                        ELSE mpc' = "term" /\ mi' = mi + 1
  /\ UNCHANGED <<notMain, mlazy, merror>>

\* pthread_join(), on an uninitialised pthread_t if the thread was never created.
MainJoin ==
  /\ mpc = "join"
  /\ mi \in created => Returned(mi)
  /\ \/ IF mi = NumWorkers THEN mpc' = "stray" /\ mi' = 0
                           ELSE mpc' = "term" /\ mi' = mi + 1
     \/ mi \notin created /\ mpc' = "crashed" /\ UNCHANGED mi
  /\ UNCHANGED <<notMain, mlazy, merror>>

MainStray ==
  /\ mpc = "stray"
  /\ open' = open \ {qSocket[mi]}
  /\ IF mi = QueueSize - 1 THEN mpc' = "free" /\ mi' = 0
                           ELSE mpc' = "stray" /\ mi' = mi + 1
  /\ UNCHANGED <<queueVars, lazyVars, serverVars, threadVars, mlazy, merror,
                 workerVars>>

\* free(threads); free(aqueue); exit(error).
MainExit ==
  /\ MainGo("free", "exited")
  /\ UNCHANGED <<notMain, mi, mlazy, merror>>

-----------------------------------------------------------------------------
(***************************************************************************)
(* workerthread(): one round of the loop.                                  *)
(***************************************************************************)

Go(w, p, q) == Running /\ wpc[w] = p /\ wpc' = [wpc EXCEPT ![w] = q]

\* Mutant: i<=tp->queuesize.
NextSlotTooFar(w, p, q, r) ==
  IF wi[w] = QueueSize
    THEN Go(w, p, r) /\ wi' = [wi EXCEPT ![w] = 0]
    ELSE Go(w, p, q) /\ wi' = [wi EXCEPT ![w] = @ + 1]

\* One more slot of a pass over the queue: from p on to q, or to r after the
\* last slot.
NextSlot(w, p, q, r) ==
  IF wi[w] = QueueSize - 1
    THEN Go(w, p, r) /\ wi' = [wi EXCEPT ![w] = 0]
    ELSE Go(w, p, q) /\ wi' = [wi EXCEPT ![w] = @ + 1]

WorkerOpenDb(w) ==
  /\ \/ Go(w, "open", "loop")
     \/ Go(w, "open", "dead") /\ "workerdb" \in Faults
  /\ UNCHANGED <<shared, wi, wc, wqueued, wactive, clients>>

\* while(!tp->shutdown), and the recount of clients_active.
WorkerLoop(w) ==
  /\ Go(w, "loop", IF shutdown[w] THEN "clean" ELSE "count")
  /\ wactive' = [wactive EXCEPT ![w] = Cardinality(Active(w))]
  /\ UNCHANGED <<shared, wi, wc, wqueued, clients>>

WorkerCount(w) ==
  /\ NextSlot(w, "count", "count", "expand")
  /\ wqueued' = [wqueued EXCEPT ![w] = IF qThread[wi[w]] = w THEN @ + 1 ELSE @]
  /\ UNCHANGED <<shared, wc, wactive, clients>>

\* Mutant: the free entries of the buffer are not deducted.
DeltaAll(w) == wqueued[w]

\* i = clients_queued-(clients_size-clients_active)
Delta(w) == wqueued[w] - (Len(clients[w]) - wactive[w])

\* realloc() to n entries, the new ones marked free.
Grown(buf, n) == [k \in 1..n |-> IF k <= Len(buf) THEN buf[k] ELSE FreeEntry]

WorkerExpand(w) ==
  /\ Go(w, "expand", "copy")
  /\ clients' = IF Delta(w) > 0
                  THEN [clients EXCEPT ![w] = Grown(@, Len(@) + Delta(w))]
                  ELSE clients
  /\ wc' = [wc EXCEPT ![w] = 1]
  /\ wqueued' = [wqueued EXCEPT ![w] = 0]
  /\ UNCHANGED <<shared, wi, wactive>>

\* Mutant: the next entry is taken without looking whether it is free.
NextEntry(w, k) == k = wc[w]

\* for(;c<clients_size;c++) if(clients[c].socket==0) break;
FirstFree(w, k) ==
  /\ k \in wc[w]..(Len(clients[w]) + 1)
  /\ \A j \in wc[w]..(k - 1) : clients[w][j].socket # 0
  /\ k <= Len(clients[w]) => clients[w][k].socket = 0

\* Look at slot wi: if it is ours find a buffer entry for it, growing the
\* buffer by one if none is free.
WorkerCopy(w) ==
  /\ \/ /\ qThread[wi[w]] # w
        /\ NextSlot(w, "copy", "copy", "lzid")
        /\ UNCHANGED <<wc, clients>>
     \/ /\ qThread[wi[w]] = w
        /\ Go(w, "copy", "take")
        /\ \E k \in 1..(Len(clients[w]) + 1) :
             /\ FirstFree(w, k)
             /\ wc' = [wc EXCEPT ![w] = k]
             /\ clients' = IF k > Len(clients[w])
                             THEN [clients EXCEPT ![w] = Grown(@, k)]
                             ELSE clients
        /\ UNCHANGED wi
  /\ UNCHANGED <<shared, wqueued, wactive>>

\* realloc() fails: the buffer pointer is overwritten and the thread returns.
WorkerReallocFail(w) ==
  /\ "realloc" \in Faults
  /\ \/ Go(w, "expand", "dead") /\ Delta(w) > 0
     \/ /\ Go(w, "copy", "dead") /\ qThread[wi[w]] = w
        /\ FirstFree(w, Len(clients[w]) + 1)
  /\ clients' = [clients EXCEPT ![w] = <<>>]
  /\ UNCHANGED <<shared, wi, wc, wqueued, wactive>>

\* memcpy() of the slot, recv_iter=0.
WorkerTake(w) ==
  /\ Go(w, "take", "rel1")
  /\ clients' = [clients EXCEPT ![w][wc[w]] =
                    [socket |-> qSocket[wi[w]], recv_iter |-> 0]]
  /\ UNCHANGED <<shared, wi, wc, wqueued, wactive>>

\* Mutant: the slot keeps naming the worker.
WorkerReleaseNoThread(w) ==
  Go(w, "rel1", "rel2") /\ UNCHANGED <<shared, wi, wc, wqueued, wactive, clients>>

WorkerReleaseThread(w) ==
  /\ Go(w, "rel1", "rel2")
  /\ qThread' = [qThread EXCEPT ![wi[w]] = 0]
  /\ UNCHANGED <<qSocket, notQueue, wi, wc, wqueued, wactive, clients>>

\* Mutant: the slot keeps the descriptor.
WorkerReleaseNoSocket(w) ==
  /\ NextSlot(w, "rel2", "copy", "lzid")
  /\ wactive' = [wactive EXCEPT ![w] = @ + 1]
  /\ UNCHANGED <<shared, wc, wqueued, clients>>

WorkerReleaseSocket(w) ==
  /\ NextSlot(w, "rel2", "copy", "lzid")
  /\ qSocket' = [qSocket EXCEPT ![wi[w]] = 0]
  /\ wactive' = [wactive EXCEPT ![w] = @ + 1]
  /\ UNCHANGED <<qThread, notQueue, wc, wqueued, clients>>

-----------------------------------------------------------------------------
(***************************************************************************)
(* workerthread(): load balancing.  The test reads threadID and then, if   *)
(* that is not enough, activeSockets; the update writes them one by one.   *)
(***************************************************************************)

WorkerReadLaziestID(w) ==
  /\ Go(w, "lzid", IF lazyID = w THEN "lzsetid" ELSE "lzcmp")
  /\ wc' = [wc EXCEPT ![w] = 0]
  /\ UNCHANGED <<shared, wi, wqueued, wactive, clients>>

WorkerReadLaziestActive(w) ==
  /\ Go(w, "lzcmp", IF lazyActive > wactive[w] THEN "lzsetid" ELSE "select")
  /\ UNCHANGED <<shared, wi, wc, wqueued, wactive, clients>>

WorkerSetLaziestID(w) ==
  /\ Go(w, "lzsetid", "lzsetact")
  /\ lazyID' = w
  /\ UNCHANGED <<lazyActive, notLazy, wi, wc, wqueued, wactive, clients>>

WorkerSetLaziestActive(w) ==
  /\ Go(w, "lzsetact", "select")
  /\ lazyActive' = wactive[w]
  /\ UNCHANGED <<lazyID, notLazy, wi, wc, wqueued, wactive, clients>>

-----------------------------------------------------------------------------
(***************************************************************************)
(* workerthread(): polling the buffer.                                     *)
(***************************************************************************)

\* Mutant: the polls are not counted.
PolledUncounted(e) == e

\* Count one poll for every connection and select(); idle when there is none.
Polled(e) ==
  [socket |-> e.socket,
   recv_iter |-> IF e.socket # 0 THEN e.recv_iter + 1 ELSE e.recv_iter]

WorkerSelect(w) ==
  /\ Go(w, "select", IF Active(w) = {} THEN "loop" ELSE "handle")
  /\ clients' = [clients EXCEPT ![w] = [k \in 1..Len(@) |-> Polled(@[k])]]
  /\ wc' = [wc EXCEPT ![w] = IF Active(w) = {} THEN 0 ELSE 1]
  /\ UNCHANGED <<shared, wi, wqueued, wactive>>

NextClient(w) ==
  IF wc[w] = Len(clients[w])
    THEN Go(w, "handle", "loop") /\ wc' = [wc EXCEPT ![w] = 0]
    ELSE Go(w, "handle", "handle") /\ wc' = [wc EXCEPT ![w] = @ + 1]

\* A free entry, or a connection that stays: not readable, or readable with an
\* incomplete request, and not polled too often yet.
WorkerKeep(w) ==
  /\ NextClient(w)
  /\ \/ clients[w][wc[w]].socket = 0
     \/ clients[w][wc[w]].recv_iter <= MaxRecvIter
  /\ UNCHANGED <<shared, wi, wqueued, wactive, clients>>

\* Mutant: the entry is not freed after close().
WorkerCloseKeepEntry(w) ==
  /\ NextClient(w)
  /\ clients[w][wc[w]].socket # 0
  /\ open' = open \ {clients[w][wc[w]].socket}
  /\ UNCHANGED <<notOpen, wi, wqueued, wactive, clients>>

\* parseSocket() has handled the request, or the client is timed out.
WorkerClose(w) ==
  /\ NextClient(w)
  /\ clients[w][wc[w]].socket # 0
  /\ open' = open \ {clients[w][wc[w]].socket}
  /\ clients' = [clients EXCEPT ![w][wc[w]] = FreeEntry]
  /\ wactive' = [wactive EXCEPT ![w] = @ - 1]
  /\ UNCHANGED <<notOpen, wi, wqueued>>

-----------------------------------------------------------------------------
(***************************************************************************)
(* workerthread(): thread cleanup.                                         *)
(***************************************************************************)

WorkerLeaveBalancing(w) ==
  /\ Go(w, "clean", IF lazyID = w THEN "clmax" ELSE "clclose")
  /\ UNCHANGED <<shared, wi, wc, wqueued, wactive, clients>>

WorkerOfferBalancing(w) ==
  /\ Go(w, "clmax", "clwait")
  /\ lazyActive' = INT_MAX
  /\ UNCHANGED <<lazyID, notLazy, wi, wc, wqueued, wactive, clients>>

\* Mutant: killserver does not end the wait.
WorkerAwaitReliefOnly(w) ==
  /\ Go(w, "clwait", "clclose")
  /\ lazyID # w
  /\ UNCHANGED <<shared, wi, wc, wqueued, wactive, clients>>

\* while(LAZIEST_WORKER.threadID==tp->tid&&!GLOBALSTATE.killserver) usleep
WorkerAwaitRelief(w) ==
  /\ Go(w, "clwait", "clclose")
  /\ lazyID # w \/ killserver
  /\ UNCHANGED <<shared, wi, wc, wqueued, wactive, clients>>

\* Mutant: the buffer is freed without closing its connections.
WorkerForgetClients(w) ==
  /\ Go(w, "clclose", "clscan")
  /\ clients' = [clients EXCEPT ![w] = <<>>]
  /\ UNCHANGED <<shared, wi, wc, wqueued, wactive>>

\* One step for the loop over the buffer: the entries are the worker's alone
\* (neither main() nor another worker looks at a buffer), the buffer is freed
\* right after the loop, and nothing else waits for a close() in between.
WorkerCloseClients(w) ==
  /\ Go(w, "clclose", "clscan")
  /\ open' = open \ HeldBy(w)
  /\ clients' = [clients EXCEPT ![w] = <<>>]
  /\ UNCHANGED <<notOpen, wi, wc, wqueued, wactive>>

WorkerScanQueue(w) ==
  /\ IF qThread[wi[w]] # w
       THEN NextSlot(w, "clscan", "clscan", "done")
       ELSE Go(w, "clscan", "clkill") /\ UNCHANGED wi
  /\ UNCHANGED <<shared, wc, wqueued, wactive, clients>>

\* Close the waiting client, or hand it to the laziest worker.
WorkerCloseOrReassign(w) ==
  /\ IF killserver
       THEN Go(w, "clkill", "clqclose") /\ UNCHANGED <<qThread, wi>>
       ELSE /\ qThread' = [qThread EXCEPT ![wi[w]] = lazyID]
            /\ NextSlot(w, "clkill", "clscan", "done")
  /\ UNCHANGED <<qSocket, notQueue, wc, wqueued, wactive, clients>>

WorkerCloseQueued(w) ==
  /\ Go(w, "clqclose", "clq1")
  /\ open' = open \ {qSocket[wi[w]]}
  /\ UNCHANGED <<notOpen, wi, wc, wqueued, wactive, clients>>

WorkerClearThread(w) ==
  /\ Go(w, "clq1", "clq2")
  /\ qThread' = [qThread EXCEPT ![wi[w]] = 0]
  /\ UNCHANGED <<qSocket, notQueue, wi, wc, wqueued, wactive, clients>>

WorkerClearSocket(w) ==
  /\ NextSlot(w, "clq2", "clscan", "done")
  /\ qSocket' = [qSocket EXCEPT ![wi[w]] = 0]
  /\ UNCHANGED <<qThread, notQueue, wc, wqueued, wactive, clients>>

-----------------------------------------------------------------------------
\* The process has ended (or crashed in pthread_join()).
Terminated == ~Running /\ UNCHANGED vars

\* Steps main() takes by itself; accept() returns when the network says so.
MainStep ==
  \/ MainOpenDb \/ MainSpawn \/ MainSpawnFail \/ MainInitLaziestID
  \/ MainInitLaziestActive \/ MainListen \/ MainLoop \/ MainScan \/ MainPrep
  \/ MainAcceptReset \/ MainReadLaziest \/ MainAssign \/ MainTime
  \/ MainCloseServ \/ MainKill \/ MainTerm \/ MainJoin \/ MainStray \/ MainExit

WorkerStep(w) ==
  \/ WorkerOpenDb(w) \/ WorkerLoop(w) \/ WorkerCount(w) \/ WorkerExpand(w)
  \/ WorkerCopy(w) \/ WorkerReallocFail(w) \/ WorkerTake(w)
  \/ WorkerReleaseThread(w) \/ WorkerReleaseSocket(w)
  \/ WorkerReadLaziestID(w) \/ WorkerReadLaziestActive(w)
  \/ WorkerSetLaziestID(w) \/ WorkerSetLaziestActive(w)
  \/ WorkerSelect(w) \/ WorkerKeep(w) \/ WorkerClose(w)
  \/ WorkerLeaveBalancing(w) \/ WorkerOfferBalancing(w) \/ WorkerAwaitRelief(w)
  \/ WorkerCloseClients(w) \/ WorkerScanQueue(w) \/ WorkerCloseOrReassign(w)
  \/ WorkerCloseQueued(w) \/ WorkerClearThread(w) \/ WorkerClearSocket(w)

Next ==
  \/ MainStep
  \/ \E f \in Fds : MainAccept(f)
  \/ MainAcceptFail
  \/ SigInt
  \/ \E w \in Workers : WorkerStep(w)
  \/ Terminated

Spec == Init /\ [][Next]_vars

\* Threads are scheduled; accept() on a closed socket returns.
Fairness ==
  /\ WF_vars(MainStep)
  /\ WF_vars(MainAcceptFail /\ servsock = "closed")
  /\ \A w \in Workers : WF_vars(WorkerStep(w))

FairSpec == Spec /\ Fairness

-----------------------------------------------------------------------------
(***************************************************************************)
(* Properties.                                                             *)
(***************************************************************************)

SharedTypeOK ==
  /\ qThread \in [Slots -> Workers \cup {0}]
  /\ qSocket \in [Slots -> Fds \cup {0, -1}]
  /\ lazyID \in Workers \cup {0} /\ lazyActive \in Int
  /\ killserver \in BOOLEAN /\ servsock \in {"none", "open", "closed"}
  /\ open \in SUBSET Fds
  /\ shutdown \in [Workers -> BOOLEAN] /\ created \in SUBSET Workers

MainTypeOK ==
  /\ mpc \in MainPCs /\ mi \in Nat
  /\ mlazy \in Workers \cup {0} /\ merror \in BOOLEAN

WorkerTypeOK ==
  /\ wpc \in [Workers -> WorkerPCs]
  /\ wi \in [Workers -> Slots] /\ wc \in [Workers -> Nat]
  /\ wqueued \in [Workers -> Nat] /\ wactive \in [Workers -> Int]
  /\ clients \in [Workers -> Seq(Entry)]

\* The loop indices of main() stay in the thread table and in the queue.
MainIndexOK ==
  /\ mpc \in {"spawn", "term", "join"} => mi \in Workers
  /\ mpc \notin {"spawn", "term", "join", "crashed"} => mi \in Slots

\* A worker's entry exists when the worker writes or reads it.
WorkerIndexOK ==
  \A w \in Workers :
    /\ wpc[w] \in {"copy", "take", "rel1", "rel2", "handle"} => wc[w] # 0
    /\ wpc[w] \in {"take", "rel1", "rel2", "handle"} => wc[w] <= Len(clients[w])

\* Every variable has its type, no index leaves the array it indexes (thread
\* table, queue, client buffer), and -1, the result of a failed accept(), never
\* enters a worker's buffer.
TypeOK ==
  SharedTypeOK /\ MainTypeOK /\ WorkerTypeOK /\ MainIndexOK /\ WorkerIndexOK

\* Worker w is copying slot i of the queue into entry k of its buffer.
Moving(w, i, k) == wpc[w] \in {"rel1", "rel2"} /\ wi[w] = i /\ wc[w] = k

\* A connection has one owner: it is never in two buffer entries or two queue
\* slots, and it is in a slot and in a buffer only while that worker moves it
\* (thread.c: memcpy, then the slot's thread and socket are reset).
SoleOwner ==
  /\ \A v, w \in Workers : \A j \in Active(v), k \in Active(w) :
       clients[v][j].socket = clients[w][k].socket => v = w /\ j = k
  /\ \A i, j \in Slots : qSocket[i] \in Fds /\ qSocket[i] = qSocket[j] => i = j
  /\ \A i \in Slots, w \in Workers : \A k \in Active(w) :
       clients[w][k].socket = qSocket[i] => Moving(w, i, k)

\* Slot i holds a descriptor its worker or main() has just closed on shutdown.
Closing(i) ==
  \/ \E w \in Workers : wpc[w] \in {"clq1", "clq2"} /\ wi[w] = i
  \/ mpc = "stray" /\ i < mi
  \/ mpc \in {"free", "exited"}

\* No thread keeps a descriptor that has been closed (and may already name
\* another connection), outside the shutdown code that is clearing the slot.
HeldIsOpen ==
  /\ \A w \in Workers : HeldBy(w) \subseteq open
  /\ \A i \in Slots : qSocket[i] \in Fds => qSocket[i] \in open \/ Closing(i)

\* A queue slot that names a worker holds a connection, and a connection in a
\* slot that names nobody is being handed over right now: by main(), which is
\* about to name a worker, or by the worker that is releasing the slot.
Handover ==
  \A i \in Slots :
    /\ qThread[i] # 0 => qSocket[i] \in Fds
    /\ qSocket[i] \in Fds /\ qThread[i] = 0 =>
         \/ mpc \in {"lazy", "assign"} /\ mi = i
         \/ \E w \in Workers : wpc[w] \in {"rel2", "clq2"} /\ wi[w] = i

\* Every open connection is in a queue slot or in a worker's buffer, so that
\* somebody will close it: copying, growing the buffer and reusing its entries
\* never overwrite a live connection.
NoLeak ==
  \A f \in open : \/ \E i \in Slots : qSocket[i] = f
                  \/ \E w \in Workers : f \in HeldBy(w)

\* A worker's buffer never outgrows the number of connections that can be open
\* at once: entries are reused, whatever main() assigns between the count, the
\* expansion and the copy.
BufferBounded ==
  \A w \in Workers : Len(clients[w]) <= Cardinality(Fds)

\* When main() frees the queue, no connection is left open, unless threads were
\* not joined (a failed pthread_create()) or one died early, and a worker runs
\* its cleanup only after killserver is set (so it never waits for another
\* worker to become the laziest).
CleanShutdown ==
  /\ /\ mpc \in {"free", "exited"} /\ ~merror
     /\ \A w \in Workers : wpc[w] # "dead"
     => open = {}
  /\ \A w \in Workers : wpc[w] \in {"clean", "clmax", "clwait"} => killserver

\* Dispatch implements Ownership.
Owns == INSTANCE Ownership WITH
  queued <- {f \in open : /\ \E i \in Slots : qSocket[i] = f
                          /\ \A w \in Workers : f \notin HeldBy(w)},
  served <- [w \in Workers |-> HeldBy(w)],
  lost <- {f \in open : /\ \A i \in Slots : qSocket[i] # f
                        /\ \A w \in Workers : f \notin HeldBy(w)}
ImplementsOwnership == Owns!Spec

\* Every accepted connection is closed in the end: some worker fetches it, and
\* polls it until it is handled or timed out.
EventuallyClosed == \A f \in Fds : f \in open ~> f \notin open

\* Once killserver is set the process ends, even from a full queue.
EventuallyExits == killserver ~> mpc = "exited"

\* main() frees the queue only after every thread it started has returned,
\* unless it could not create them all (the TODO in main() admits that case).
FreesAfterJoin == mpc = "free" /\ ~merror => \A w \in created : Returned(w)

\* What main() does with data it has not initialised (joining a thread it never
\* created, freeing an address list it never got) can only hit it before the
\* first connection is accepted: once it listens, every thread exists.
NoCrashInService == mpc = "crashed" => servsock = "none" /\ open = {}

\* A worker that has returned is not assigned any more connections.
NoWorkForReturned ==
  [][\A i \in Slots : qThread'[i] \in Workers /\ qThread'[i] # qThread[i]
                        => ~Returned(qThread'[i])]_vars
=============================================================================
