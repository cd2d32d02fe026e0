------------------------------- MODULE Signal -------------------------------
(***************************************************************************)
(* The kernel signal object (kernel/src/ipc/signal.rs) with its two system *)
(* calls.  signal_send ORs its bits in and looks at has_observer without   *)
(* taking the lock, so the model steps at every access to bits and to      *)
(* has_observer: one action per atomic access, everything else a thread    *)
(* does under the lock folded into its neighbour.  The two SeqCst fences   *)
(* make the accesses sequentially consistent, which is what TLA+ steps are.*)
(* A sender may be a thread in SYS_SIGNAL_SEND or an interrupt handler in  *)
(* dispatch_device_irq: both run the same code.                            *)
(***************************************************************************)
EXTENDS Naturals, FiniteSets

CONSTANTS
  Senders,    \* threads and interrupt handlers that send
  Waiters,    \* threads that wait
  Bits,       \* bit positions of the 64-bit mask
  NoThread    \* the null TCB pointer

ASSUME ThreadsAssumption ==
  /\ Senders \intersect Waiters = {}
  /\ NoThread \notin Senders \union Waiters

VARIABLES
  bits, waiter, wait_set, has_observer, lock,   \* SignalState
  alive,          \* FALSE once dealloc_object has freed the state
  ws_notified,    \* the wait set was notified since the consumer last looked
  pc,             \* where each sender and waiter is in its system call
  delivered,      \* signal_send: the bits swapped out for the waiter
  woken,          \* sys_signal_send: the TCB to hand to enqueue_and_wake
  state, wakeup_value, context_saved,           \* TCB of the waiters
  ret,            \* what the last completed SYS_SIGNAL_WAIT returned
  run_queue       \* waiters that are in some CPU's run queue

sigVars == <<bits, waiter, wait_set, has_observer, lock, alive, ws_notified>>
tcbVars == <<state, wakeup_value, context_saved, ret, run_queue>>
vars == <<sigVars, tcbVars, pc, delivered, woken>>

Threads == Senders \union Waiters

\* The stages of signal_send in which the sender's bits are in place and it
\* still owes the observer a wakeup.
Sending == {"ored", "slow", "held"}

\* The stages of signal_wait before the pending bits are harvested.
Harvesting == {"locked", "registered"}

\* The signal may have been registered with a wait set beforehand.
Init ==
  /\ bits = {}
  /\ waiter = NoThread
  /\ wait_set \in BOOLEAN
  /\ has_observer = IF wait_set THEN 1 ELSE 0
  /\ lock = NoThread
  /\ alive = TRUE
  /\ ws_notified = FALSE
  /\ pc = [t \in Threads |-> "user"]
  /\ delivered = [s \in Senders |-> {}]
  /\ woken = [s \in Senders |-> NoThread]
  /\ state = [w \in Waiters |-> "Running"]
  /\ wakeup_value = [w \in Waiters |-> {}]
  /\ context_saved = [w \in Waiters |-> 1]
  /\ ret = [w \in Waiters |-> {}]
  /\ run_queue = {}

-----------------------------------------------------------------------------
(* Mutations: actions of this module with a plausible slip in each.        *)

\* The bits swapped out are not passed on in wakeup_value.
WakeForgetsBits(s) ==
  /\ pc[s] = "swapped"
  /\ waiter' = NoThread
  /\ has_observer' = IF wait_set THEN 1 ELSE 0
  /\ state' = [state EXCEPT ![waiter] = "Ready"]
  /\ woken' = [woken EXCEPT ![s] = waiter]
  /\ delivered' = [delivered EXCEPT ![s] = {}]
  /\ lock' = NoThread
  /\ pc' = [pc EXCEPT ![s] = "woke"]
  /\ UNCHANGED <<bits, wait_set, alive, ws_notified, wakeup_value,
                 context_saved, ret, run_queue>>

\* has_observer is not set before the bits are looked at.
RegisterUnobserved(w) ==
  /\ pc[w] = "locked"
  /\ waiter' = w
  /\ pc' = [pc EXCEPT ![w] = "registered"]
  /\ UNCHANGED <<bits, wait_set, has_observer, lock, alive, ws_notified,
                 tcbVars, delivered, woken>>

-----------------------------------------------------------------------------
(* signal_send.                                                            *)

\* bits.fetch_or.  sys_signal_send has refused an empty mask.
SendOr(s, b) ==
  /\ alive
  /\ pc[s] = "user"
  /\ b # {}
  /\ bits' = bits \union b
  /\ pc' = [pc EXCEPT ![s] = "ored"]
  /\ UNCHANGED <<waiter, wait_set, has_observer, lock, alive, ws_notified,
                 tcbVars, delivered, woken>>

\* The fast path: has_observer is zero, nobody to wake.
SendFast(s) ==
  /\ pc[s] = "ored"
  /\ has_observer = 0
  /\ pc' = [pc EXCEPT ![s] = "user"]
  /\ UNCHANGED <<sigVars, tcbVars, delivered, woken>>

SendSlow(s) ==
  /\ pc[s] = "ored"
  /\ has_observer # 0
  /\ pc' = [pc EXCEPT ![s] = "slow"]
  /\ UNCHANGED <<sigVars, tcbVars, delivered, woken>>

SendLock(s) ==
  /\ pc[s] = "slow"
  /\ lock = NoThread
  /\ lock' = s
  /\ pc' = [pc EXCEPT ![s] = "held"]
  /\ UNCHANGED <<bits, waiter, wait_set, has_observer, alive, ws_notified,
                 tcbVars, delivered, woken>>

\* bits.swap(0) on behalf of the waiter.
SendSwap(s) ==
  /\ pc[s] = "held"
  /\ waiter # NoThread
  /\ delivered' = [delivered EXCEPT ![s] = bits]
  /\ bits' = {}
  /\ pc' = [pc EXCEPT ![s] = "swapped"]
  /\ UNCHANGED <<waiter, wait_set, has_observer, lock, alive, ws_notified,
                 tcbVars, woken>>

\* The rest of the wakeup branch: unregister the waiter, make it Ready.
SendWake(s) ==
  /\ pc[s] = "swapped"
  /\ waiter' = NoThread
  /\ has_observer' = IF wait_set THEN 1 ELSE 0
  /\ wakeup_value' = [wakeup_value EXCEPT ![waiter] = delivered[s]]
  /\ state' = [state EXCEPT ![waiter] = "Ready"]
  /\ woken' = [woken EXCEPT ![s] = waiter]
  /\ delivered' = [delivered EXCEPT ![s] = {}]
  /\ lock' = NoThread
  /\ pc' = [pc EXCEPT ![s] = "woke"]
  /\ UNCHANGED <<bits, wait_set, alive, ws_notified, context_saved, ret,
                 run_queue>>

\* No blocked waiter: the wait set, if there is one, is notified; otherwise
\* the observer disappeared since the fast-path check.
SendNotify(s) ==
  /\ pc[s] = "held"
  /\ waiter = NoThread
  /\ ws_notified' = (ws_notified \/ wait_set)
  /\ lock' = NoThread
  /\ pc' = [pc EXCEPT ![s] = "user"]
  /\ UNCHANGED <<bits, waiter, wait_set, has_observer, alive, tcbVars,
                 delivered, woken>>

\* The rest of sys_signal_send and dispatch_device_irq: enqueue_and_wake.
EnqueueWoken(s) ==
  /\ pc[s] = "woke"
  /\ run_queue' = run_queue \union {woken[s]}
  /\ woken' = [woken EXCEPT ![s] = NoThread]
  /\ pc' = [pc EXCEPT ![s] = "user"]
  /\ UNCHANGED <<sigVars, state, wakeup_value, context_saved, ret, delivered>>

-----------------------------------------------------------------------------
(* signal_wait and the rest of sys_signal_wait.                            *)

\* Take the lock, clear context_saved.  A consumer that was told by its wait
\* set that the signal is ready has taken that notification by now.
WaitLock(w) ==
  /\ alive
  /\ pc[w] = "user"
  /\ state[w] = "Running"
  /\ lock = NoThread
  /\ lock' = w
  /\ context_saved' = [context_saved EXCEPT ![w] = 0]
  /\ ws_notified' = FALSE
  /\ ret' = [ret EXCEPT ![w] = {}]
  /\ pc' = [pc EXCEPT ![w] = "locked"]
  /\ UNCHANGED <<bits, waiter, wait_set, has_observer, alive, state,
                 wakeup_value, run_queue, delivered, woken>>

\* waiter = caller, whoever was there before, and has_observer = 1.
WaitRegister(w) ==
  /\ pc[w] = "locked"
  /\ waiter' = w
  /\ has_observer' = 1
  /\ pc' = [pc EXCEPT ![w] = "registered"]
  /\ UNCHANGED <<bits, wait_set, lock, alive, ws_notified, tcbVars, delivered,
                 woken>>

\* bits.swap(0) finds bits: they are the result of the call.
WaitHarvest(w) ==
  /\ pc[w] = "registered"
  /\ bits # {}
  /\ ret' = [ret EXCEPT ![w] = bits]
  /\ bits' = {}
  /\ pc' = [pc EXCEPT ![w] = "undo"]
  /\ UNCHANGED <<waiter, wait_set, has_observer, lock, alive, ws_notified,
                 state, wakeup_value, context_saved, run_queue, delivered,
                 woken>>

\* The registration is undone and the call returns without blocking.
WaitReturn(w) ==
  /\ pc[w] = "undo"
  /\ waiter' = NoThread
  /\ has_observer' = IF wait_set THEN 1 ELSE 0
  /\ context_saved' = [context_saved EXCEPT ![w] = 1]
  /\ lock' = NoThread
  /\ pc' = [pc EXCEPT ![w] = "user"]
  /\ UNCHANGED <<bits, wait_set, alive, ws_notified, state, wakeup_value, ret,
                 run_queue, delivered, woken>>

\* bits.swap(0) finds none: block and release the lock.
WaitBlock(w) ==
  /\ pc[w] = "registered"
  /\ bits = {}
  /\ state' = [state EXCEPT ![w] = "Blocked"]
  /\ lock' = NoThread
  /\ pc' = [pc EXCEPT ![w] = "switch"]
  /\ UNCHANGED <<bits, waiter, wait_set, has_observer, alive, ws_notified,
                 wakeup_value, context_saved, ret, run_queue, delivered, woken>>

\* sys_signal_wait after schedule(false) returns: read and clear wakeup_value.
ReturnWoken(w) ==
  /\ run_queue' = run_queue \ {w}
  /\ state' = [state EXCEPT ![w] = "Running"]
  /\ ret' = [ret EXCEPT ![w] = wakeup_value[w]]
  /\ wakeup_value' = [wakeup_value EXCEPT ![w] = {}]
  /\ pc' = [pc EXCEPT ![w] = "user"]
  /\ UNCHANGED <<sigVars, context_saved, delivered, woken>>

\* schedule(false) picks the thread that called it: it was woken, and put in
\* this CPU's run queue, before it came here.
ScheduleSelf(w) ==
  /\ pc[w] = "switch"
  /\ state[w] = "Ready"
  /\ w \in run_queue
  /\ ReturnWoken(w)

\* schedule(false) picks another thread: switch() saves this one's registers
\* and then sets its context_saved flag.
SwitchOut(w) ==
  /\ pc[w] = "switch"
  /\ context_saved' = [context_saved EXCEPT ![w] = 1]
  /\ pc' = [pc EXCEPT ![w] = "off"]
  /\ UNCHANGED <<sigVars, state, wakeup_value, ret, run_queue, delivered, woken>>

\* schedule() on another CPU (or later on this one) dequeues the thread,
\* spins until context_saved is set and loads its registers.
Resume(w) ==
  /\ state[w] = "Ready"
  /\ w \in run_queue
  /\ context_saved[w] = 1
  /\ ReturnWoken(w)

\* dealloc_object on the last reference.  A thread inside signal_send or
\* signal_wait got here through a capability it still holds.
Drop ==
  /\ alive
  /\ \A t \in Threads : pc[t] \in {"user", "switch", "off", "woke"}
  /\ alive' = FALSE
  /\ wait_set' = FALSE
  /\ waiter' = NoThread
  /\ state' = [w \in Waiters |-> IF w = waiter THEN "Ready" ELSE state[w]]
  /\ wakeup_value' = [w \in Waiters |-> IF w = waiter THEN {} ELSE wakeup_value[w]]
  /\ run_queue' = run_queue \union ({waiter} \intersect Waiters)
  /\ UNCHANGED <<bits, has_observer, lock, ws_notified, context_saved, ret, pc,
                 delivered, woken>>

SendNext(s) ==
  \/ \E b \in SUBSET Bits : SendOr(s, b)
  \/ SendFast(s) \/ SendSlow(s) \/ SendLock(s) \/ SendSwap(s) \/ SendWake(s)
  \/ SendNotify(s) \/ EnqueueWoken(s)

WaitNext(w) ==
  \/ WaitLock(w) \/ WaitRegister(w) \/ WaitHarvest(w) \/ WaitReturn(w)
  \/ WaitBlock(w) \/ ScheduleSelf(w) \/ SwitchOut(w) \/ Resume(w)

Next ==
  \/ \E s \in Senders : SendNext(s)
  \/ \E w \in Waiters : WaitNext(w)
  \/ Drop

Spec == Init /\ [][Next]_vars

\* A thread in the kernel keeps running, the ticket lock serves everyone who
\* asks for it (strong fairness on acquisition), a queued thread is
\* dispatched, and the waiter is a server loop that keeps calling wait.
\* Nothing is assumed about when or whether anybody sends.
FairSpec ==
  /\ Spec
  /\ \A s \in Senders :
       /\ SF_vars(SendLock(s))
       /\ WF_vars(SendFast(s) \/ SendSlow(s) \/ SendSwap(s) \/ SendWake(s)
                  \/ SendNotify(s) \/ EnqueueWoken(s))
  /\ \A w \in Waiters :
       /\ SF_vars(WaitLock(w))
       /\ WF_vars(WaitRegister(w) \/ WaitHarvest(w) \/ WaitReturn(w)
                  \/ WaitBlock(w) \/ ScheduleSelf(w) \/ SwitchOut(w))
       /\ WF_vars(Resume(w))

-----------------------------------------------------------------------------
TypeOK ==
  /\ bits \in SUBSET Bits
  /\ waiter \in Waiters \union {NoThread}
  /\ wait_set \in BOOLEAN
  /\ has_observer \in {0, 1}
  /\ lock \in Threads \union {NoThread}
  /\ alive \in BOOLEAN
  /\ ws_notified \in BOOLEAN
  /\ pc \in [Threads -> {"user", "ored", "slow", "held", "swapped", "woke",
                         "locked", "registered", "undo", "switch", "off"}]
  /\ delivered \in [Senders -> SUBSET Bits]
  /\ woken \in [Senders -> Waiters \union {NoThread}]
  /\ state \in [Waiters -> {"Running", "Blocked", "Ready"}]
  /\ wakeup_value \in [Waiters -> SUBSET Bits]
  /\ context_saved \in [Waiters -> {0, 1}]
  /\ ret \in [Waiters -> SUBSET Bits]
  /\ run_queue \in SUBSET Waiters

\* Whoever is Blocked in signal_wait with bits pending has a sender on its
\* way that has not yet looked at has_observer, or has looked and will take
\* the lock.  This is what the Dekker pair of signal_send and signal_wait is
\* for: the lock-free check never leaves a waiter asleep on pending bits.
NoLostWakeup ==
  \A w \in Waiters :
    state[w] = "Blocked" =>
      /\ waiter = w
      /\ bits # {} => \E s \in Senders : pc[s] \in Sending

\* Pending bits that no sender and no waiter is working on have been
\* announced to the wait set, if the signal is registered with one.
PendingAnnounced ==
  /\ alive /\ wait_set /\ bits # {}
  /\ \A s \in Senders : pc[s] \notin Sending
  /\ \A w \in Waiters : pc[w] \notin Harvesting
  => ws_notified

\* The waiter signal_send wakes is Blocked (its debug_assert), and a thread
\* made Ready is in a run queue or about to be put there, once.
WokenOnce ==
  /\ \A s \in Senders : pc[s] = "swapped" =>
       waiter \in Waiters /\ state[waiter] = "Blocked" /\ lock = s
  /\ \A w \in Waiters : state[w] = "Ready" =>
       \/ w \in run_queue /\ \A s \in Senders : woken[s] # w
       \/ w \notin run_queue /\ \E s \in Senders :
             woken[s] = w /\ \A r \in Senders \ {s} : woken[r] # w

\* schedule() may load a thread's registers as soon as it finds the thread in
\* a run queue with context_saved set: by then the CPU that ran it has left
\* its stack.  signal_wait clears the flag before it becomes visible as a
\* waiter for exactly this.
OneStack ==
  \A w \in Waiters :
    state[w] = "Ready" /\ w \in run_queue /\ context_saved[w] = 1 => pc[w] = "off"

\* What kernel/docs/syscalls.md says a successful SYS_SIGNAL_WAIT returns: a
\* mask with at least one bit.  It is not what the code does.
WokenWithBits ==
  \A w \in Waiters : alive /\ state[w] = "Ready" => wakeup_value[w] # {}

\* What the header of signal.rs calls the single-waiter invariant.  The code
\* does not enforce it: signal_wait overwrites an earlier waiter.
SingleWaiter ==
  \A v, w \in Waiters : state[v] = "Blocked" /\ state[w] = "Blocked" => v = w

\* Every bit that is sent comes out of a SYS_SIGNAL_WAIT, unless the signal
\* is destroyed first.
BitsDelivered ==
  \A b \in Bits :
    b \in bits ~> (\E w \in Waiters : b \in ret[w]) \/ ~alive
=============================================================================
