----------------------------- MODULE EventQueue -----------------------------
(***************************************************************************)
(* The kernel event queue (kernel/src/ipc/event_queue.rs) with the two     *)
(* system calls that drive it.  A post or a receive holds the queue's lock *)
(* from its first read to its last write, so each is one action; waking    *)
(* the receiver (enqueue_and_wake, after the lock is released) and the     *)
(* receiver's return from schedule() are actions of their own.             *)
(***************************************************************************)
EXTENDS Naturals, Sequences

CONSTANTS
  Posters,    \* threads that post (sys_event_post, death notifications)
  Receivers,  \* threads that receive
  Payloads,   \* u64 payloads; 0 is a legal one
  Capacity,   \* the capacity passed to SYS_CAP_CREATE_EVENT_Q
  NoThread    \* the null TCB pointer

ASSUME CapacityAssumption == Capacity \in Nat \ {0}
ASSUME PayloadsAssumption == Payloads \subseteq Nat
ASSUME NoThreadAssumption == NoThread \notin Receivers

VARIABLES
  ring, count, write_idx, read_idx, waiter,   \* EventQueueState
  alive,          \* FALSE once event_queue_drop has freed the ring
  state,          \* TCB.state of the receivers
  wakeup_value,   \* TCB.wakeup_value
  ret,            \* payload register written by the last sys_event_recv
  woken,          \* per poster: the TCB it was told to enqueue
  run_queue       \* receivers that are in some CPU's run queue

vars == <<ring, count, write_idx, read_idx, waiter, alive, state,
          wakeup_value, ret, woken, run_queue>>

queueVars == <<ring, count, write_idx, read_idx>>

ring_len == Capacity + 1

Init ==
  /\ ring = [i \in 0..Capacity |-> 0]
  /\ count = 0
  /\ write_idx = 0
  /\ read_idx = 0
  /\ waiter = NoThread
  /\ alive = TRUE
  /\ state = [r \in Receivers |-> "Running"]
  /\ wakeup_value = [r \in Receivers |-> 0]
  /\ ret = [r \in Receivers |-> 0]
  /\ woken = [p \in Posters |-> NoThread]
  /\ run_queue = {}

-----------------------------------------------------------------------------
(* Mutations: each is one of the actions below with a plausible slip.      *)

\* The woken thread is not returned to the caller that must enqueue it.
PostForgetsWoken(p, payload) ==
  /\ alive /\ woken[p] = NoThread /\ waiter # NoThread
  /\ wakeup_value' = [wakeup_value EXCEPT ![waiter] = payload]
  /\ state' = [state EXCEPT ![waiter] = "Ready"]
  /\ waiter' = NoThread
  /\ UNCHANGED <<queueVars, alive, ret, woken, run_queue>>

\* The read index is advanced before the slot is read.
RecvReadsNext(r) ==
  /\ alive /\ state[r] = "Running" /\ count > 0
  /\ read_idx' = (read_idx + 1) % ring_len
  /\ ret' = [ret EXCEPT ![r] = ring[read_idx']]
  /\ count' = count - 1
  /\ UNCHANGED <<ring, write_idx, waiter, alive, state, wakeup_value, woken,
                 run_queue>>

-----------------------------------------------------------------------------
\* event_queue_post, first branch: a receiver is blocked, so the payload goes
\* straight into its TCB and the ring is not touched.
PostToWaiter(p, payload) ==
  /\ alive
  /\ woken[p] = NoThread
  /\ waiter # NoThread
  /\ wakeup_value' = [wakeup_value EXCEPT ![waiter] = payload]
  /\ state' = [state EXCEPT ![waiter] = "Ready"]
  /\ woken' = [woken EXCEPT ![p] = waiter]
  /\ waiter' = NoThread
  /\ UNCHANGED <<queueVars, alive, ret, run_queue>>

\* event_queue_post, last branch.  A post that finds count >= Capacity
\* returns QueueFull and changes nothing.
PostToRing(p, payload) ==
  /\ alive
  /\ woken[p] = NoThread
  /\ waiter = NoThread
  /\ count < Capacity
  /\ ring' = [ring EXCEPT ![write_idx] = payload]
  /\ write_idx' = (write_idx + 1) % ring_len
  /\ count' = count + 1
  /\ UNCHANGED <<read_idx, waiter, alive, state, wakeup_value, ret, woken,
                 run_queue>>

\* The rest of sys_event_post: enqueue_and_wake on the returned TCB.
EnqueueWoken(p) ==
  /\ woken[p] # NoThread
  /\ run_queue' = run_queue \union {woken[p]}
  /\ woken' = [woken EXCEPT ![p] = NoThread]
  /\ UNCHANGED <<queueVars, waiter, alive, state, wakeup_value, ret>>

\* event_queue_recv with an entry available: returned without blocking.
RecvEntry(r) ==
  /\ alive
  /\ state[r] = "Running"
  /\ count > 0
  /\ ret' = [ret EXCEPT ![r] = ring[read_idx]]
  /\ read_idx' = (read_idx + 1) % ring_len
  /\ count' = count - 1
  /\ UNCHANGED <<ring, write_idx, waiter, alive, state, wakeup_value, woken,
                 run_queue>>

\* event_queue_recv on an empty queue: the caller becomes the waiter (an
\* earlier waiter is overwritten) and sys_event_recv calls schedule(false).
RecvBlock(r) ==
  /\ alive
  /\ state[r] = "Running"
  /\ count = 0
  /\ waiter' = r
  /\ state' = [state EXCEPT ![r] = "Blocked"]
  /\ UNCHANGED <<queueVars, alive, wakeup_value, ret, woken, run_queue>>

\* The scheduler dispatches a woken receiver, and sys_event_recv reads and
\* clears wakeup_value on the way out.
Resume(r) ==
  /\ state[r] = "Ready"
  /\ r \in run_queue
  /\ run_queue' = run_queue \ {r}
  /\ state' = [state EXCEPT ![r] = "Running"]
  /\ ret' = [ret EXCEPT ![r] = wakeup_value[r]]
  /\ wakeup_value' = [wakeup_value EXCEPT ![r] = 0]
  /\ UNCHANGED <<queueVars, waiter, alive, woken>>

\* event_queue_drop: the last capability is gone.  A blocked waiter is made
\* Ready with wakeup_value 0 and enqueued, then the ring is freed.
Drop ==
  /\ alive
  /\ alive' = FALSE
  /\ waiter' = NoThread
  /\ IF waiter = NoThread
       THEN UNCHANGED <<wakeup_value, state, run_queue>>
       ELSE /\ wakeup_value' = [wakeup_value EXCEPT ![waiter] = 0]
            /\ state' = [state EXCEPT ![waiter] = "Ready"]
            /\ run_queue' = run_queue \union {waiter}
  /\ UNCHANGED <<queueVars, ret, woken>>

Next ==
  \/ \E p \in Posters, v \in Payloads : PostToWaiter(p, v) \/ PostToRing(p, v)
  \/ \E p \in Posters : EnqueueWoken(p)
  \/ \E r \in Receivers : RecvEntry(r) \/ RecvBlock(r) \/ Resume(r)
  \/ Drop

Spec == Init /\ [][Next]_vars

\* A poster inside the kernel finishes its system call, and a queued thread
\* is eventually dispatched by its CPU.
FairSpec ==
  /\ Spec
  /\ \A p \in Posters : WF_vars(EnqueueWoken(p))
  /\ \A r \in Receivers : WF_vars(Resume(r))

-----------------------------------------------------------------------------
TypeOK ==
  /\ ring \in [0..Capacity -> Nat]
  /\ count \in 0..Capacity
  /\ write_idx \in 0..Capacity
  /\ read_idx \in 0..Capacity
  /\ waiter \in Receivers \union {NoThread}
  /\ alive \in BOOLEAN
  /\ state \in [Receivers -> {"Running", "Blocked", "Ready"}]
  /\ wakeup_value \in [Receivers -> Nat]
  /\ ret \in [Receivers -> Nat]
  /\ woken \in [Posters -> Receivers \union {NoThread}]
  /\ run_queue \in SUBSET Receivers

\* The write index is always count slots ahead of the read index on the ring
\* of Capacity + 1 slots, so neither the full test (count >= capacity) nor
\* the empty test (count > 0) of event_queue_post and event_queue_recv can
\* confuse a full ring with an empty one, also after both indices wrapped.
RingIndices == write_idx = (read_idx + count) % ring_len

\* A waiter is recorded only while the ring is empty.  This is why handing a
\* payload to the waiter without touching the ring cannot overtake payloads
\* that were posted earlier.
WaiterOnEmpty == waiter # NoThread => count = 0 /\ state[waiter] = "Blocked"

\* The state of the ring and of its waiter after any posts, receives and
\* destruction: types, indices and waiter together, the form that every
\* critical section of event_queue.rs preserves.
RingInv == TypeOK /\ RingIndices /\ WaiterOnEmpty

\* A receiver blocked on the queue is the one the next post will wake, and a
\* receiver made Ready is in a run queue or in the hands of the poster that
\* is about to enqueue it: no wakeup is lost between the two.
NoLostWakeup ==
  \A r \in Receivers :
    /\ state[r] = "Blocked" => waiter = r
    /\ state[r] = "Ready" => r \in run_queue \/ \E p \in Posters : woken[p] = r

\* Refinement: read from read_idx onwards, the ring is the abstract queue.
Contents ==
  [i \in 1..(IF alive THEN count ELSE 0) |-> ring[(read_idx + i - 1) % ring_len]]

Phase ==
  [r \in Receivers |-> CASE state[r] = "Running" -> "idle"
                         [] state[r] = "Blocked" -> "waiting"
                         [] state[r] = "Ready" -> "served"]

Fifo == INSTANCE EventFifo
          WITH fifo <- Contents, phase <- Phase, hand <- wakeup_value,
               got <- ret, open <- alive

\* Every behaviour of the ring, the direct hand-over and the wakeup is a
\* behaviour of the bounded FIFO: payloads accepted by event_queue_post come
\* out of sys_event_recv once each and in order.
RefinesFifo == Fifo!Spec

=============================================================================
