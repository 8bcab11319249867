----------------------------- MODULE Ownership -----------------------------
(***************************************************************************)
(* What the tracker promises about every TCP connection it accepts: it     *)
(* waits in the accept queue, is handed to at most one worker, and is      *)
(* closed exactly once, by whoever owns it at that moment.  No connection  *)
(* is ever handed back, handed on, or given to two workers.                *)
(*                                                                         *)
(* Dispatch (main() and workerthread()) is shown to implement this.        *)
(***************************************************************************)
CONSTANTS Workers,   \* worker thread ids
          Fds        \* descriptors accept() may hand out

VARIABLES queued,    \* connections waiting in the accept queue
          served,    \* served[w]: connections worker w owns
          lost       \* open connections nobody owns any more

ownVars == <<queued, served, lost>>

Owned == queued \cup lost \cup UNION {served[w] : w \in Workers}

Init ==
  /\ queued = {}
  /\ served = [w \in Workers |-> {}]
  /\ lost = {}

\* A new connection enters the queue on a descriptor that is not in use.
Accept(f) ==
  /\ f \notin Owned
  /\ queued' = queued \cup {f}
  /\ UNCHANGED <<served, lost>>

\* One worker takes a waiting connection over.
Claim(w, f) ==
  /\ f \in queued
  /\ queued' = queued \ {f}
  /\ served' = [served EXCEPT ![w] = @ \cup {f}]
  /\ UNCHANGED lost

\* The owner closes some of its connections.
Finish(w, F) ==
  /\ F \subseteq served[w]
  /\ served' = [served EXCEPT ![w] = @ \ F]
  /\ UNCHANGED <<queued, lost>>

\* A connection still waiting is closed while the server shuts down.
Drop(f) ==
  /\ f \in queued
  /\ queued' = queued \ {f}
  /\ UNCHANGED <<served, lost>>

\* A worker returns without closing what it owns (a failed realloc).
Abandon(w) ==
  /\ lost' = lost \cup served[w]
  /\ served' = [served EXCEPT ![w] = {}]
  /\ UNCHANGED queued

Next ==
  \/ \E f \in Fds : Accept(f) \/ Drop(f)
  \/ \E w \in Workers : Abandon(w)
  \/ \E w \in Workers, f \in Fds : Claim(w, f)
  \/ \E w \in Workers, F \in SUBSET Fds : Finish(w, F)

Spec == Init /\ [][Next]_ownVars
=============================================================================
