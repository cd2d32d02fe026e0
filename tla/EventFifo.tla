------------------------------ MODULE EventFifo ------------------------------
(***************************************************************************)
(* What an event queue promises its users: a bounded first-in first-out    *)
(* queue of payloads.  A poster either appends (or hands the payload to    *)
(* the receiver that waits on the empty queue) or is refused because the   *)
(* queue is full; the receiver takes payloads from the front and sleeps    *)
(* when there are none.  No ring, no indices, no run queue.                *)
(***************************************************************************)
EXTENDS Naturals, Sequences

CONSTANTS Receivers, Payloads, Capacity

VARIABLES
  fifo,      \* payloads accepted and not yet taken, oldest first
  phase,     \* [Receivers -> {"idle", "waiting", "served"}]
  hand,      \* payload handed to a receiver that has not returned yet
  got,       \* payload the receiver's last completed receive returned
  open       \* FALSE once the queue object has been destroyed

fifoVars == <<fifo, phase, hand, got, open>>

Init ==
  /\ fifo = <<>>
  /\ phase = [r \in Receivers |-> "idle"]
  /\ hand = [r \in Receivers |-> 0]
  /\ got = [r \in Receivers |-> 0]
  /\ open = TRUE

Append1(v) ==
  /\ open
  /\ \A r \in Receivers : phase[r] # "waiting"
  /\ Len(fifo) < Capacity
  /\ fifo' = Append(fifo, v)
  /\ UNCHANGED <<phase, hand, got, open>>

HandOver(r, v) ==
  /\ open
  /\ phase[r] = "waiting"
  /\ fifo = <<>>
  /\ phase' = [phase EXCEPT ![r] = "served"]
  /\ hand' = [hand EXCEPT ![r] = v]
  /\ UNCHANGED <<fifo, got, open>>

Take(r) ==
  /\ open
  /\ phase[r] = "idle"
  /\ fifo # <<>>
  /\ got' = [got EXCEPT ![r] = Head(fifo)]
  /\ fifo' = Tail(fifo)
  /\ UNCHANGED <<phase, hand, open>>

Sleep(r) ==
  /\ open
  /\ phase[r] = "idle"
  /\ fifo = <<>>
  /\ phase' = [phase EXCEPT ![r] = "waiting"]
  /\ UNCHANGED <<fifo, hand, got, open>>

Finish(r) ==
  /\ phase[r] = "served"
  /\ got' = [got EXCEPT ![r] = hand[r]]
  /\ hand' = [hand EXCEPT ![r] = 0]
  /\ phase' = [phase EXCEPT ![r] = "idle"]
  /\ UNCHANGED <<fifo, open>>

\* Destruction discards what is queued and releases the sleeping receiver,
\* which then returns the payload 0.
Close ==
  /\ open
  /\ open' = FALSE
  /\ fifo' = <<>>
  /\ phase' = [r \in Receivers |->
                 IF phase[r] = "waiting" THEN "served" ELSE phase[r]]
  /\ hand' = [r \in Receivers |->
                 IF phase[r] = "waiting" THEN 0 ELSE hand[r]]
  /\ UNCHANGED got

Next ==
  \/ \E v \in Payloads : Append1(v)
  \/ \E r \in Receivers, v \in Payloads : HandOver(r, v)
  \/ \E r \in Receivers : Take(r) \/ Sleep(r) \/ Finish(r)
  \/ Close

Spec == Init /\ [][Next]_fifoVars
=============================================================================
