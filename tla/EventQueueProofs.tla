-------------------------- MODULE EventQueueProofs --------------------------
(***************************************************************************)
(* Proofs about EventQueue for every capacity, payload set and number of   *)
(* posters: the ring invariant for any number of receivers, and, for the   *)
(* single receiver the queue is documented to have, that no wakeup is lost *)
(* and that the ring implements the bounded FIFO of EventFifo.             *)
(***************************************************************************)
EXTENDS EventQueue, SequenceTheorems, TLAPS

\* The slot k places after slot a.  The lemmas below say what % does on the
\* ring; the proofs then reason about Slot without expanding it.
Slot(a, k) == (a + k) % ring_len

\* An offset that stays below the end of the ring is added as it is.
LEMMA SlotWithin ==
  ASSUME NEW a \in 0..Capacity, NEW k \in 0..ring_len, a + k <= Capacity
  PROVE  Slot(a, k) = a + k
  BY CapacityAssumption DEF Slot, ring_len

\* An offset that passes the end of the ring wraps once, never twice.
LEMMA SlotWraps ==
  ASSUME NEW a \in 0..Capacity, NEW k \in 0..ring_len, a + k > Capacity
  PROVE  Slot(a, k) = a + k - ring_len
  BY CapacityAssumption DEF Slot, ring_len

\* Whatever the offset, event_queue_post and event_queue_recv index inside
\* the ring allocation.
LEMMA SlotOnRing ==
  ASSUME NEW a \in 0..Capacity, NEW k \in 0..ring_len
  PROVE  Slot(a, k) \in 0..Capacity
<1>1. CASE a + k <= Capacity
  BY <1>1, SlotWithin, CapacityAssumption DEF ring_len
<1>2. CASE a + k > Capacity
  BY <1>2, SlotWraps, CapacityAssumption DEF ring_len
<1>3. QED
  BY <1>1, <1>2, CapacityAssumption DEF ring_len

\* Going k places and then one more is going k + 1 places.
LEMMA SlotNext ==
  ASSUME NEW a \in 0..Capacity, NEW k \in 0..Capacity
  PROVE  Slot(Slot(a, k), 1) = Slot(a, k + 1) /\ Slot(Slot(a, 1), k) = Slot(a, k + 1)
<1>1. 1 \in 0..ring_len /\ k \in 0..ring_len /\ k + 1 \in 0..ring_len
      /\ ring_len = Capacity + 1
  BY CapacityAssumption DEF ring_len
<1>2. Slot(a, k) \in 0..Capacity /\ Slot(a, 1) \in 0..Capacity
  BY <1>1, SlotOnRing, Zenon
<1>3. \A b \in 0..Capacity, j \in 0..ring_len :
        Slot(b, j) = IF b + j <= Capacity THEN b + j ELSE b + j - ring_len
  BY <1>1, SlotWithin, SlotWraps, CapacityAssumption
<1>4. /\ Slot(a, k) = IF a + k <= Capacity THEN a + k ELSE a + k - ring_len
      /\ Slot(a, 1) = IF a + 1 <= Capacity THEN a + 1 ELSE a + 1 - ring_len
      /\ Slot(a, k + 1) = IF a + (k + 1) <= Capacity
                            THEN a + (k + 1) ELSE a + (k + 1) - ring_len
  BY <1>1, <1>3, Zenon
<1>5. /\ Slot(Slot(a, k), 1) =
           IF Slot(a, k) + 1 <= Capacity THEN Slot(a, k) + 1
                                          ELSE Slot(a, k) + 1 - ring_len
      /\ Slot(Slot(a, 1), k) =
           IF Slot(a, 1) + k <= Capacity THEN Slot(a, 1) + k
                                          ELSE Slot(a, 1) + k - ring_len
  BY <1>1, <1>2, <1>3, Zenon
<1>6. QED
  BY <1>1, <1>2, <1>4, <1>5, CapacityAssumption

\* A queue made by EventQueueState::new satisfies the ring invariant.
LEMMA RingInvInit == Init => RingInv
<1>1. Slot(0, 0) = 0
  BY CapacityAssumption, SlotWithin DEF ring_len
<1>2. QED
  BY <1>1, CapacityAssumption
  DEF Init, RingInv, TypeOK, RingIndices, WaiterOnEmpty, Slot

\* Every post, receive, block, wake and destruction preserves the ring
\* invariant.
LEMMA RingInvStep == RingInv /\ [Next]_vars => RingInv'
<1> SUFFICES ASSUME RingInv, [Next]_vars PROVE RingInv'
  BY Zenon
<1> USE CapacityAssumption, PayloadsAssumption, NoThreadAssumption
<1> USE DEF RingInv, TypeOK, WaiterOnEmpty
<1>1. ASSUME NEW p \in Posters, NEW v \in Payloads, PostToWaiter(p, v)
      PROVE  RingInv'
  BY <1>1, Zenon DEF PostToWaiter, queueVars, RingIndices, ring_len
<1>2. ASSUME NEW p \in Posters, NEW v \in Payloads, PostToRing(p, v)
      PROVE  RingInv'
  <2>1. write_idx' = (write_idx + 1) % ring_len /\ count' = count + 1
        /\ read_idx' = read_idx
    BY <1>2, Zenon DEF PostToRing
  <2>2. write_idx' \in 0..Capacity
    BY <2>1, SlotOnRing DEF Slot, ring_len
  <2>3. RingIndices'
    <3>1. write_idx = Slot(read_idx, count)
      BY Zenon DEF RingIndices, Slot
    <3>2. Slot(write_idx, 1) = Slot(read_idx, count + 1)
      BY <3>1, SlotNext, Zenon
    <3>3. QED
      BY <2>1, <3>2, Zenon DEF RingIndices, Slot
  <2>4. QED
    BY <1>2, <2>2, <2>3 DEF PostToRing
<1>3. ASSUME NEW p \in Posters, EnqueueWoken(p)
      PROVE  RingInv'
  BY <1>3 DEF EnqueueWoken, queueVars, RingIndices, ring_len
<1>4. ASSUME NEW r \in Receivers, RecvEntry(r)
      PROVE  RingInv'
  <2>1. read_idx' = (read_idx + 1) % ring_len /\ count' = count - 1
        /\ write_idx' = write_idx /\ count > 0
    BY <1>4, Zenon DEF RecvEntry
  <2>2. read_idx' \in 0..Capacity
    BY <2>1, SlotOnRing DEF Slot, ring_len
  <2>3. RingIndices'
    <3>1. write_idx = Slot(read_idx, count) /\ read_idx' = Slot(read_idx, 1)
      BY <2>1, Zenon DEF RingIndices, Slot
    <3>2. count - 1 \in 0..Capacity /\ (count - 1) + 1 = count
      BY <2>1
    <3>3. Slot(Slot(read_idx, 1), count - 1) = Slot(read_idx, count)
      BY <3>2, SlotNext
    <3>4. QED
      BY <2>1, <3>1, <3>3, Zenon DEF RingIndices, Slot
  <2>4. QED
    BY <1>4, <2>2, <2>3 DEF RecvEntry
<1>5. ASSUME NEW r \in Receivers, RecvBlock(r)
      PROVE  RingInv'
  BY <1>5, Zenon DEF RecvBlock, queueVars, RingIndices, ring_len
<1>6. ASSUME NEW r \in Receivers, Resume(r)
      PROVE  RingInv'
  BY <1>6, Zenon DEF Resume, queueVars, RingIndices, ring_len
<1>7. CASE Drop
  <2>1. alive' \in BOOLEAN
    BY <1>7, Zenon DEF Drop
  <2>2. waiter' = NoThread /\ UNCHANGED <<queueVars, ret, woken>>
    BY <1>7, Zenon DEF Drop
  <2>3. CASE waiter = NoThread
    <3>1. UNCHANGED <<wakeup_value, state, run_queue>>
      BY <1>7, <2>3, Zenon DEF Drop
    <3>2. QED
      BY <2>1, <2>2, <3>1, Zenon DEF queueVars, RingIndices, ring_len
  <2>4. CASE waiter # NoThread
    <3>1. /\ wakeup_value' = [wakeup_value EXCEPT ![waiter] = 0]
          /\ state' = [state EXCEPT ![waiter] = "Ready"]
          /\ run_queue' = run_queue \union {waiter}
      BY <1>7, <2>4, Zenon DEF Drop
    <3>2. QED
      BY <2>1, <2>2, <2>4, <3>1 DEF queueVars, RingIndices, ring_len
  <2>5. QED
    BY <2>3, <2>4, Zenon
<1>8. CASE UNCHANGED vars
  BY <1>8, Zenon DEF vars, RingIndices, ring_len
<1>9. QED
  BY <1>1, <1>2, <1>3, <1>4, <1>5, <1>6, <1>7, <1>8, Zenon DEF Next

\* For every capacity, any number of posters and any number of receivers the
\* ring invariant, inductive on its own, holds for ever: the indices stay on the
\* ring and apart by count through every wrap-around, and a waiter is recorded
\* only on an empty ring.
THEOREM EventQueueRingInv == Spec => []RingInv
  BY RingInvInit, RingInvStep, PTL DEF Spec

-----------------------------------------------------------------------------
(* The queue has "a single receiver": from here on, one.                   *)

SingleReceiver == \E r : Receivers = {r}

QueueInv == RingInv /\ NoLostWakeup

\* A new queue has no waiter that could have been forgotten.
LEMMA QueueInvInit == Init => QueueInv
  BY RingInvInit, Zenon DEF Init, QueueInv, NoLostWakeup

\* With one receiver no step forgets it: a post hands the entry over, and the
\* destruction of the queue wakes it.
LEMMA QueueInvStep ==
  ASSUME SingleReceiver
  PROVE  QueueInv /\ [Next]_vars => QueueInv'
<1> SUFFICES ASSUME QueueInv, [Next]_vars PROVE NoLostWakeup'
  BY RingInvStep, Zenon DEF QueueInv
<1> USE NoThreadAssumption DEF QueueInv, RingInv, TypeOK, NoLostWakeup, WaiterOnEmpty
<1>0. PICK rcv : Receivers = {rcv}
  BY Zenon DEF SingleReceiver
<1>1. ASSUME NEW p \in Posters, NEW v \in Payloads, PostToWaiter(p, v)
      PROVE  NoLostWakeup'
  BY <1>0, <1>1 DEF PostToWaiter
<1>2. ASSUME NEW p \in Posters, NEW v \in Payloads, PostToRing(p, v)
      PROVE  NoLostWakeup'
  BY <1>2, Zenon DEF PostToRing
<1>3. ASSUME NEW p \in Posters, EnqueueWoken(p)
      PROVE  NoLostWakeup'
  BY <1>0, <1>3 DEF EnqueueWoken
<1>4. ASSUME NEW r \in Receivers, RecvEntry(r)
      PROVE  NoLostWakeup'
  BY <1>4, Zenon DEF RecvEntry
<1>5. ASSUME NEW r \in Receivers, RecvBlock(r)
      PROVE  NoLostWakeup'
  BY <1>0, <1>5 DEF RecvBlock
<1>6. ASSUME NEW r \in Receivers, Resume(r)
      PROVE  NoLostWakeup'
  BY <1>0, <1>6 DEF Resume
<1>7. CASE Drop
  <2>1. CASE waiter = NoThread
    BY <1>0, <1>7, <2>1, Zenon DEF Drop
  <2>2. CASE waiter # NoThread
    BY <1>0, <1>7, <2>2 DEF Drop
  <2>3. QED
    BY <2>1, <2>2, Zenon
<1>8. CASE UNCHANGED vars
  BY <1>8, Zenon DEF vars
<1>9. QED
  BY <1>1, <1>2, <1>3, <1>4, <1>5, <1>6, <1>7, <1>8 DEF Next

\* With one receiver, the receiver blocked on the queue is the one the next
\* post wakes, and a woken one is in a run queue or about to be put there.
THEOREM EventQueueNoLostWakeup ==
  ASSUME SingleReceiver
  PROVE  Spec => []NoLostWakeup
<1>1. QueueInv => NoLostWakeup
  BY Zenon DEF QueueInv
<1>2. QED
  BY <1>1, QueueInvInit, QueueInvStep, PTL DEF Spec

-----------------------------------------------------------------------------
(* Refinement of EventFifo.                                                *)

\* Different offsets below the ring length name different slots.
LEMMA SlotInjective ==
  ASSUME NEW a \in 0..Capacity, NEW j \in 0..Capacity, NEW k \in 0..Capacity,
         j < k
  PROVE  Slot(a, j) # Slot(a, k)
<1>1. \A i \in 0..Capacity :
        \/ a + i <= Capacity /\ Slot(a, i) = a + i
        \/ a + i > Capacity /\ Slot(a, i) = a + i - ring_len
  BY SlotWithin, SlotWraps, CapacityAssumption DEF ring_len
<1>2. QED
  BY <1>1, CapacityAssumption DEF ring_len

\* The abstraction of the ring is a sequence as long as count says.
ContentsOK ==
  /\ Contents \in Seq(Nat)
  /\ Len(Contents) = IF alive THEN count ELSE 0
  /\ \A i \in 1..(IF alive THEN count ELSE 0) :
       Contents[i] = ring[Slot(read_idx, i - 1)]

\* The abstract queue is a sequence as long as count, read off the ring from
\* read_idx.
LEMMA ContentsIsSeq == TypeOK => ContentsOK
<1> SUFFICES ASSUME TypeOK PROVE ContentsOK
  BY Zenon
<1> DEFINE n == IF alive THEN count ELSE 0
<1>1. n \in Nat /\ n <= Capacity
  BY CapacityAssumption DEF TypeOK
<1>2. \A i \in 1..n : Slot(read_idx, i - 1) \in 0..Capacity
  <2> SUFFICES ASSUME NEW i \in 1..n PROVE Slot(read_idx, i - 1) \in 0..Capacity
    BY Zenon
  <2>1. i - 1 \in 0..ring_len
    BY <1>1, CapacityAssumption DEF ring_len
  <2>2. QED
    BY <2>1, SlotOnRing, Zenon DEF TypeOK
<1>3. Contents = [i \in 1..n |-> ring[Slot(read_idx, i - 1)]]
  <2>1. \A i \in 1..n : (read_idx + i - 1) % ring_len = Slot(read_idx, i - 1)
    <3> SUFFICES ASSUME NEW i \in 1..n
                 PROVE  (read_idx + i - 1) % ring_len = Slot(read_idx, i - 1)
      BY Zenon
    <3>1. read_idx + i - 1 = read_idx + (i - 1)
      BY <1>1, Zenon DEF TypeOK
    <3>2. QED
      BY <3>1, Zenon DEF Slot
  <2>2. QED
    BY <2>1, Zenon DEF Contents
<1> HIDE DEF n
<1>4. Contents \in [1..n -> Nat]
  BY <1>2, <1>3, Zenon DEF TypeOK
<1>5. Contents \in Seq(Nat) /\ Len(Contents) = n
  BY <1>1, <1>4
<1>6. QED
  BY <1>3, <1>5, Zenon DEF n, ContentsOK

\* A new queue is an empty bounded FIFO.
LEMMA InitRefines == Init => Fifo!Init
<1> SUFFICES ASSUME Init PROVE Fifo!Init
  OBVIOUS
<1>1. Contents = <<>>
  BY DEF Init, Contents
<1>2. Phase = [r \in Receivers |-> "idle"]
  BY Zenon DEF Init, Phase
<1>3. QED
  BY <1>1, <1>2, Zenon DEF Init, Fifo!Init

\* PostToRing appends to the abstract queue.
LEMMA PostAppends ==
  ASSUME RingInv, RingInv', NEW p \in Posters, NEW v \in Payloads, PostToRing(p, v)
  PROVE  Contents' = Append(Contents, v)
<1> USE CapacityAssumption, PayloadsAssumption
<1>1. /\ count' = count + 1 /\ read_idx' = read_idx /\ alive /\ alive'
      /\ count < Capacity
      /\ ring' = [ring EXCEPT ![write_idx] = v]
  BY Zenon DEF PostToRing
<1>2. ContentsOK /\ ContentsOK'
  BY ContentsIsSeq, PTL DEF RingInv
<1>3. /\ Contents \in Seq(Nat) /\ Len(Contents) = count
      /\ \A i \in 1..count : Contents[i] = ring[Slot(read_idx, i - 1)]
  BY <1>1, <1>2, Zenon DEF ContentsOK
<1>4. /\ Contents' \in Seq(Nat) /\ Len(Contents') = count + 1
      /\ \A i \in 1..(count + 1) : Contents'[i] = ring'[Slot(read_idx, i - 1)]
  BY <1>1, <1>2, Zenon DEF ContentsOK, Slot, ring_len
<1>5. write_idx = Slot(read_idx, count)
  BY Zenon DEF RingInv, RingIndices, Slot
<1>6. \A i \in 1..count : ring'[Slot(read_idx, i - 1)] = ring[Slot(read_idx, i - 1)]
  <2> SUFFICES ASSUME NEW i \in 1..count
               PROVE  ring'[Slot(read_idx, i - 1)] = ring[Slot(read_idx, i - 1)]
    BY Zenon
  <2>1. i - 1 \in 0..Capacity /\ i - 1 < count /\ i - 1 \in 0..ring_len
    BY DEF RingInv, TypeOK, ring_len
  <2>2. Slot(read_idx, i - 1) # write_idx /\ Slot(read_idx, i - 1) \in 0..Capacity
    BY <1>5, <2>1, SlotInjective, SlotOnRing, Zenon DEF RingInv, TypeOK
  <2>3. QED
    BY <1>1, <2>2, Zenon DEF RingInv, TypeOK
<1>7. ring'[write_idx] = v
  BY <1>1, Zenon DEF RingInv, TypeOK
<1>8. \A i \in 1..(count + 1) : Contents'[i] = Append(Contents, v)[i]
  <2> SUFFICES ASSUME NEW i \in 1..(count + 1)
               PROVE  Contents'[i] = Append(Contents, v)[i]
    BY Zenon
  <2>1. CASE i = count + 1
    <3>1. i - 1 = count
      BY <2>1 DEF RingInv, TypeOK
    <3>2. QED
      BY <1>3, <1>4, <1>5, <1>7, <2>1, <3>1
  <2>2. CASE i # count + 1
    <3>1. i \in 1..count
      BY <2>2 DEF RingInv, TypeOK
    <3>2. Append(Contents, v)[i] = Contents[i]
      BY <1>3, <3>1
    <3>3. Contents'[i] = ring'[Slot(read_idx, i - 1)]
      BY <1>4, Zenon
    <3>4. QED
      BY <1>3, <1>6, <3>1, <3>2, <3>3, Zenon
  <2>3. QED
    BY <2>1, <2>2, Zenon
<1>9. QED
  <2>1. Append(Contents, v) \in Seq(Nat) /\ Len(Append(Contents, v)) = count + 1
    BY <1>3
  <2>2. QED
    BY <1>4, <1>8, <2>1, SeqEqual, Zenon

\* RecvEntry takes the head of the abstract queue.
LEMMA RecvTakesHead ==
  ASSUME RingInv, RingInv', NEW r \in Receivers, RecvEntry(r)
  PROVE  /\ Contents # <<>>
         /\ Head(Contents) = ring[read_idx]
         /\ Contents' = Tail(Contents)
<1> USE CapacityAssumption
<1>1. /\ count' = count - 1 /\ read_idx' = Slot(read_idx, 1) /\ alive /\ alive'
      /\ count > 0 /\ ring' = ring
  BY Zenon DEF RecvEntry, Slot
<1>2. ContentsOK /\ ContentsOK'
  BY ContentsIsSeq, PTL DEF RingInv
<1>3. /\ Contents \in Seq(Nat) /\ Len(Contents) = count
      /\ \A i \in 1..count : Contents[i] = ring[Slot(read_idx, i - 1)]
  BY <1>1, <1>2, Zenon DEF ContentsOK
<1>4. /\ Contents' \in Seq(Nat) /\ Len(Contents') = count - 1
      /\ \A i \in 1..(count - 1) :
           Contents'[i] = ring[Slot(Slot(read_idx, 1), i - 1)]
  BY <1>1, <1>2, Zenon DEF ContentsOK, Slot, ring_len
<1>5. Contents # <<>>
  BY <1>1, <1>3
<1>6. Head(Contents) = ring[read_idx]
  <2>1. 1 \in 1..count /\ 1 - 1 = 0
    BY <1>1 DEF RingInv, TypeOK
  <2>2. Slot(read_idx, 0) = read_idx
    BY SlotWithin DEF RingInv, TypeOK, ring_len
  <2>3. Contents[1] = ring[read_idx]
    BY <1>3, <2>1, <2>2
  <2>4. QED
    BY <1>3, <1>5, <2>3
<1>7. /\ Tail(Contents) \in Seq(Nat) /\ Len(Tail(Contents)) = count - 1
      /\ \A i \in 1..(count - 1) : Tail(Contents)[i] = Contents[i + 1]
  BY <1>1, <1>3, <1>5, HeadTailProperties DEF RingInv, TypeOK
<1>8. \A i \in 1..(count - 1) : Contents'[i] = Tail(Contents)[i]
  <2> SUFFICES ASSUME NEW i \in 1..(count - 1)
               PROVE  Contents'[i] = Tail(Contents)[i]
    BY Zenon
  <2>1. i - 1 \in 0..Capacity /\ (i - 1) + 1 = i /\ (i + 1) - 1 = i
        /\ i + 1 \in 1..count
    BY <1>1 DEF RingInv, TypeOK
  <2>2. Slot(Slot(read_idx, 1), i - 1) = Slot(read_idx, i)
    BY <2>1, SlotNext DEF RingInv, TypeOK
  <2>3. Contents[i + 1] = ring[Slot(read_idx, i)]
    BY <1>3, <2>1, Zenon
  <2>4. QED
    BY <1>4, <1>7, <2>2, <2>3, Zenon
<1>9. QED
  BY <1>4, <1>5, <1>6, <1>7, <1>8, SeqEqual

\* Any step that leaves the ring, its indices and alive alone leaves the
\* abstract queue alone.
LEMMA ContentsFrame ==
  UNCHANGED <<queueVars, alive>> => Contents' = Contents
  BY DEF queueVars, Contents, ring_len

\* An empty ring is the empty abstract queue.
LEMMA ContentsEmpty ==
  ASSUME RingInv, count = 0
  PROVE  Contents = <<>>
<1>1. ContentsOK
  BY ContentsIsSeq, Zenon DEF RingInv
<1>2. Contents \in Seq(Nat) /\ Len(Contents) = 0
  BY <1>1, Zenon DEF ContentsOK
<1>3. QED
  BY <1>2, EmptySeq, Zenon

\* Every step of the queue is a step of the bounded FIFO or a stutter.  With
\* one receiver the receiver that is Blocked is the recorded waiter.
LEMMA StepRefines ==
  ASSUME SingleReceiver, QueueInv, QueueInv', [Next]_vars
  PROVE  [Fifo!Next]_(Fifo!fifoVars)
<1> USE NoThreadAssumption DEF QueueInv, RingInv, TypeOK
<1>0. PICK rcv : Receivers = {rcv}
  BY Zenon DEF SingleReceiver
<1>1. ASSUME NEW p \in Posters, NEW v \in Payloads, PostToWaiter(p, v)
      PROVE  Fifo!Next
  <2>1. waiter \in Receivers /\ state[waiter] = "Blocked" /\ count = 0
    BY <1>1 DEF PostToWaiter, WaiterOnEmpty
  <2>2. Contents = <<>> /\ Contents' = Contents
    BY <1>1, <2>1, ContentsEmpty, ContentsFrame DEF PostToWaiter
  <2>3. Phase[waiter] = "waiting" /\ Phase' = [Phase EXCEPT ![waiter] = "served"]
    BY <1>1, <2>1 DEF PostToWaiter, Phase
  <2>4. Fifo!HandOver(waiter, v)
    BY <1>1, <2>2, <2>3, Zenon DEF PostToWaiter, Fifo!HandOver
  <2>5. QED
    BY <2>1, <2>4 DEF Fifo!Next
<1>2. ASSUME NEW p \in Posters, NEW v \in Payloads, PostToRing(p, v)
      PROVE  Fifo!Next
  <2>1. Contents' = Append(Contents, v)
    BY <1>2, PostAppends, Zenon
  <2>2. Len(Contents) < Capacity
    BY <1>2, ContentsIsSeq DEF ContentsOK, PostToRing
  <2>3. Phase' = Phase /\ \A r \in Receivers : Phase[r] # "waiting"
    BY <1>2 DEF PostToRing, Phase, NoLostWakeup
  <2>4. Fifo!Append1(v)
    BY <1>2, <2>1, <2>2, <2>3, Zenon DEF PostToRing, Fifo!Append1
  <2>5. QED
    BY <2>4, Zenon DEF Fifo!Next
<1>3. ASSUME NEW p \in Posters, EnqueueWoken(p)
      PROVE  UNCHANGED Fifo!fifoVars
  <2>1. Contents' = Contents
    BY <1>3, ContentsFrame, Zenon DEF EnqueueWoken
  <2>2. QED
    BY <1>3, <2>1 DEF EnqueueWoken, Phase, Fifo!fifoVars
<1>4. ASSUME NEW r \in Receivers, RecvEntry(r)
      PROVE  Fifo!Next
  <2>1. Phase' = Phase /\ Phase[r] = "idle"
    BY <1>4 DEF RecvEntry, Phase
  <2>2. Fifo!Take(r)
    BY <1>4, <2>1, RecvTakesHead, Zenon DEF RecvEntry, Fifo!Take
  <2>3. QED
    BY <2>2, Zenon DEF Fifo!Next
<1>5. ASSUME NEW r \in Receivers, RecvBlock(r)
      PROVE  Fifo!Next
  <2>1. Contents = <<>> /\ Contents' = Contents
    BY <1>5, ContentsEmpty, ContentsFrame, Zenon DEF RecvBlock
  <2>2. Phase[r] = "idle" /\ Phase' = [Phase EXCEPT ![r] = "waiting"]
    BY <1>5 DEF RecvBlock, Phase
  <2>3. Fifo!Sleep(r)
    BY <1>5, <2>1, <2>2, Zenon DEF RecvBlock, Fifo!Sleep
  <2>4. QED
    BY <2>3, Zenon DEF Fifo!Next
<1>6. ASSUME NEW r \in Receivers, Resume(r)
      PROVE  Fifo!Next
  <2>1. Contents' = Contents
    BY <1>6, ContentsFrame, Zenon DEF Resume
  <2>2. Phase[r] = "served" /\ Phase' = [Phase EXCEPT ![r] = "idle"]
    BY <1>6 DEF Resume, Phase
  <2>3. Fifo!Finish(r)
    BY <1>6, <2>1, <2>2, Zenon DEF Resume, Fifo!Finish
  <2>4. QED
    BY <2>3, Zenon DEF Fifo!Next
<1>7. CASE Drop
  <2>1. Contents' = <<>>
    BY <1>7 DEF Drop, Contents
  <2>2. Phase' = [r \in Receivers |->
                   IF Phase[r] = "waiting" THEN "served" ELSE Phase[r]]
    <3>1. CASE waiter = NoThread
      <4>1. state' = state /\ \A r \in Receivers : state[r] # "Blocked"
        BY <1>7, <3>1 DEF Drop, NoLostWakeup
      <4>2. QED
        BY <4>1 DEF Phase
    <3>2. CASE waiter # NoThread
      BY <1>0, <1>7, <3>2 DEF Drop, Phase, NoLostWakeup, WaiterOnEmpty
    <3>3. QED
      BY <3>1, <3>2, Zenon
  <2>3. wakeup_value' = [r \in Receivers |->
                          IF Phase[r] = "waiting" THEN 0 ELSE wakeup_value[r]]
    <3>1. CASE waiter = NoThread
      <4>1. \A r \in Receivers : Phase[r] # "waiting"
        BY <3>1 DEF Phase, NoLostWakeup
      <4>2. wakeup_value' = wakeup_value
        BY <1>7, <3>1, Zenon DEF Drop
      <4>3. QED
        BY <4>1, <4>2, Zenon
    <3>2. CASE waiter # NoThread
      BY <1>0, <1>7, <3>2 DEF Drop, Phase, NoLostWakeup, WaiterOnEmpty
    <3>3. QED
      BY <3>1, <3>2, Zenon
  <2>4. alive /\ alive' = FALSE /\ ret' = ret
    BY <1>7, Zenon DEF Drop
  <2>5. Fifo!Close
    BY <2>1, <2>2, <2>3, <2>4, Zenon DEF Fifo!Close
  <2>6. QED
    BY <2>5 DEF Fifo!Next
<1>8. CASE UNCHANGED vars
  <2>1. Contents' = Contents
    BY <1>8, ContentsFrame DEF vars, queueVars
  <2>2. QED
    BY <1>8, <2>1 DEF vars, Phase, Fifo!fifoVars
<1>9. QED
  BY <1>1, <1>2, <1>3, <1>4, <1>5, <1>6, <1>7, <1>8 DEF Next

\* With one receiver the ring, the direct hand-over and the destruction of the
\* queue together implement the bounded FIFO, for every capacity.
THEOREM EventQueueRefinesFifo ==
  ASSUME SingleReceiver
  PROVE  Spec => RefinesFifo
<1>1. QueueInv /\ QueueInv' /\ [Next]_vars => [Fifo!Next]_(Fifo!fifoVars)
  BY StepRefines, Zenon
<1>2. QED
  BY <1>1, QueueInvInit, QueueInvStep, InitRefines, PTL
  DEF Spec, RefinesFifo, Fifo!Spec
=============================================================================
