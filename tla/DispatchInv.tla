---------------------------- MODULE DispatchInv ----------------------------
(***************************************************************************)
(* The inductive invariant behind Dispatch's safety properties: which      *)
(* thread may write which queue slot, and what it relies on when it does.  *)
(* There is no lock; the protocol rests on the order of single writes.     *)
(***************************************************************************)
EXTENDS Dispatch

\* w is between seeing its name in slot wi[w] and taking the name out of it.
Claiming(w) == wpc[w] \in {"take", "rel1", "clkill", "clqclose", "clq1"}
\* w has taken its name out of slot wi[w] and has not emptied the slot yet.
Releasing(w) == wpc[w] \in {"rel2", "clq2"}

\* A slot that names a worker is full: that worker alone takes the name out,
\* and nobody but that worker empties the slot.
SlotOK ==
  /\ \A i \in Slots : qThread[i] # 0 => qSocket[i] \in Fds
  /\ \A w \in Workers :
       /\ Claiming(w) => qThread[wi[w]] = w
       /\ Releasing(w) => qThread[wi[w]] = 0 /\ qSocket[wi[w]] \in Fds
  /\ \A v, w \in Workers :
       Releasing(v) /\ Releasing(w) /\ wi[v] = wi[w] => v = w

\* main() writes only a slot it has found empty, until it names a worker in it.
MainSlotOK ==
  /\ mpc \in {"prep", "accept"} => qSocket[mi] = 0
  /\ mpc = "accerr" => qSocket[mi] = -1
  /\ mpc \in {"lazy", "assign"} =>
       /\ qThread[mi] = 0 /\ qSocket[mi] \in Fds
       /\ \A w \in Workers : Releasing(w) => wi[w] # mi

SlotInv == TypeOK /\ SlotOK /\ MainSlotOK

Cleaning(w) == wpc[w] \in {"clean", "clmax", "clwait", "clclose", "clscan",
                           "clkill", "clqclose", "clq1", "clq2", "done"}

Starting == mpc \in {"start", "spawn", "initID", "initActive", "setup",
                    "nextaddr"}
Accepting == mpc \in {"loop", "scan", "prep", "accept", "accerr", "lazy",
                      "assign", "time", "closeserv"}
Ending == mpc \in {"term", "join", "stray", "free", "exited"}

\* main(): nothing is accepted before it listens, and it listens only when it
\* has started every thread.
StartOK ==
  /\ mpc = "start" => created = {}
  /\ mpc = "spawn" => created = 1..(mi - 1)
  /\ \/ servsock # "none" \/ Accepting
     \/ mpc \in {"initID", "initActive", "setup", "nextaddr"} /\ ~merror
     => created = Workers
  /\ Starting \/ merror \/ mpc = "crashed" => servsock = "none"
  /\ servsock = "none" => open = {} /\ \A i \in Slots : qSocket[i] \notin Fds
  /\ merror => mpc \in {"initID", "initActive", "kill", "stray", "free", "exited"}
  /\ mpc \in {"initActive", "setup", "nextaddr"} \/ Accepting => lazyID # 0
  /\ mpc = "assign" => mlazy # 0
  /\ Ending => killserver

\* Workers: they clean up only when main() has told them to, and main() goes on
\* only when they have returned.
StopOK ==
  \A w \in Workers :
    /\ shutdown[w] \/ Cleaning(w) => killserver /\ (Ending \/ mpc = "crashed")
    /\ wpc[w] = "none" <=> w \notin created
    /\ wpc[w] \in {"none", "open", "clscan", "clkill", "clqclose", "clq1", "clq2",
                   "done", "dead"} => clients[w] = <<>>
    /\ w \in created /\ ~merror =>
         /\ mpc \in {"stray", "free", "exited"} => Returned(w)
         /\ mpc \in {"term", "join"} /\ w < mi => Returned(w)

\* The order of start-up and shutdown.
PhaseOK == StartOK /\ StopOK

\* What a worker's buffer holds while it copies a slot, and what is closed.
CopyOK ==
  /\ \A w \in Workers :
       /\ wpc[w] = "take" => clients[w][wc[w]].socket = 0
       /\ wpc[w] \in {"rel1", "rel2"} => clients[w][wc[w]].socket = qSocket[wi[w]]
       /\ wpc[w] \in {"clq1", "clq2"} => qSocket[wi[w]] \notin open
  /\ \A i \in Slots : (mpc = "stray" /\ i < mi) \/ mpc \in {"free", "exited"}
       => qSocket[i] \notin open

\* No connection is lost track of, unless a worker has died of a failed realloc().
Tracked == (\A w \in Workers : wpc[w] # "dead") => NoLeak

\* The inductive invariant.
IInv == SlotInv /\ PhaseOK /\ CopyOK /\ Handover /\ SoleOwner /\ HeldIsOpen /\ Tracked
=============================================================================
