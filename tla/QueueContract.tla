--------------------------- MODULE QueueContract ---------------------------
(***************************************************************************)
(* What a bounded dispatcher queue promises its producers and its          *)
(* scheduler, without entry ids, order numbers, disciplines, locks or      *)
(* handles: a bounded collection of work that remembers who was admitted   *)
(* before whom, hands work out, counts what is running, and, once closed,  *)
(* is drained exactly when nothing is queued and nothing is running.       *)
(***************************************************************************)
EXTENDS Naturals, FiniteSets

CONSTANTS
  Works,      \* the work items producers may offer
  Capacity,   \* hard capacity of the queue
  Ordered     \* TRUE: work leaves in admission order (a FIFO discipline)

VARIABLES
  queued,     \* the admitted work that waits for dispatch
  before,     \* <<v, w>> : v and w are queued, v was admitted before w
  running,    \* dispatched work whose completion has not come back
  lifecycle   \* "Open", "Draining" or "Drained"

vars == <<queued, before, running, lifecycle>>

Init ==
  /\ queued = {}
  /\ before = {}
  /\ running = {}
  /\ lifecycle = "Open"

\* The order between the works that stay when w leaves the queue.
Without(w) == {p \in before : p[1] # w /\ p[2] # w}

\* Admission while there is room: the new work is behind all queued work.
Admit(w) ==
  /\ lifecycle = "Open"
  /\ w \notin queued \cup running
  /\ Cardinality(queued) < Capacity
  /\ queued' = queued \cup {w}
  /\ before' = before \cup (queued \X {w})
  /\ UNCHANGED <<running, lifecycle>>

\* Admission at the expense of a victim, which leaves the queue for good.
Replace(v, w) ==
  /\ lifecycle = "Open"
  /\ v \in queued
  /\ w \notin queued \cup running
  /\ queued' = (queued \ {v}) \cup {w}
  /\ before' = Without(v) \cup ((queued \ {v}) \X {w})
  /\ UNCHANGED <<running, lifecycle>>

Dispatch(w) ==
  /\ w \in queued
  /\ Ordered => \A v \in queued : <<v, w>> \notin before
  /\ queued' = queued \ {w}
  /\ before' = Without(w)
  /\ running' = running \cup {w}
  /\ UNCHANGED lifecycle

\* A closed queue is drained when nothing is queued and nothing runs.
Settled(run) == IF queued = {} /\ run = {} THEN "Drained" ELSE "Draining"

Complete(w) ==
  /\ w \in running
  /\ running' = running \ {w}
  /\ lifecycle' = IF lifecycle = "Open" THEN "Open" ELSE Settled(running')
  /\ UNCHANGED <<queued, before>>

Close ==
  /\ lifecycle = "Open"
  /\ lifecycle' = Settled(running)
  /\ UNCHANGED <<queued, before, running>>

Next ==
  \/ \E w \in Works : Admit(w) \/ Dispatch(w) \/ Complete(w)
  \/ \E v, w \in Works : Replace(v, w)
  \/ Close

Spec == Init /\ [][Next]_vars
=============================================================================
