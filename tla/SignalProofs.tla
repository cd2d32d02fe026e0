---------------------------- MODULE SignalProofs ----------------------------
(***************************************************************************)
(* Proofs about Signal for any number of senders, any set of bits and, as  *)
(* the header of signal.rs requires of its users, a single waiter.         *)
(***************************************************************************)
EXTENDS Signal, TLAPS

OneWaiter == \E w : Waiters = {w}

SendStages == {"user", "ored", "slow", "held", "swapped", "woke"}
WaitStages == {"user", "locked", "registered", "undo", "switch", "off"}
InLock == {"held", "swapped", "locked", "registered", "undo"}

\* Each thread is at a stage of its own system call, and exactly the lock's
\* owner is at a stage inside the lock.
StageInv ==
  /\ \A s \in Senders : pc[s] \in SendStages
  /\ \A w \in Waiters : pc[w] \in WaitStages
  /\ \A t \in Threads : pc[t] \in InLock <=> lock = t

\* The thread states, the waiter pointer and context_saved, stage by stage.
WaiterInv ==
  \A w \in Waiters :
    /\ state[w] = "Running" <=> pc[w] \in {"user", "locked", "registered", "undo"}
    /\ state[w] = "Blocked" => waiter = w
    /\ waiter = w => state[w] = "Blocked" \/ pc[w] \in {"registered", "undo"}
    /\ pc[w] \in {"registered", "undo"} => waiter = w
    /\ pc[w] \in {"locked", "registered", "undo", "switch"} => context_saved[w] = 0

\* has_observer is set whenever somebody observes: what the fast path of
\* signal_send relies on.
ObserverInv == waiter # NoThread \/ wait_set => has_observer = 1

\* Who holds a woken thread between signal_send and the run queue.
WokenInv ==
  /\ \A s \in Senders : pc[s] = "woke" <=> woken[s] # NoThread
  /\ \A s \in Senders : pc[s] = "swapped" => waiter # NoThread
  /\ \A s \in Senders : woken[s] # NoThread =>
       /\ state[woken[s]] = "Ready"
       /\ woken[s] \notin run_queue
       /\ \A r \in Senders : woken[r] = woken[s] => r = s
  /\ \A w \in run_queue : state[w] = "Ready"
  /\ \A w \in Waiters : state[w] = "Ready" =>
       w \in run_queue \/ \E s \in Senders : woken[s] = w

SignalInv ==
  /\ TypeOK /\ StageInv /\ WaiterInv /\ ObserverInv /\ WokenInv
  /\ NoLostWakeup /\ PendingAnnounced

\* A new signal, with every thread outside it, satisfies the invariant.
LEMMA SignalInvInit == Init => SignalInv
<1> SUFFICES ASSUME Init PROVE SignalInv
  BY Zenon
<1> USE ThreadsAssumption DEF Init, Threads
<1>1. TypeOK
  BY Zenon DEF TypeOK
<1>2. StageInv /\ WaiterInv /\ ObserverInv /\ WokenInv
  BY Zenon DEF StageInv, WaiterInv, ObserverInv, WokenInv, SendStages, WaitStages, InLock
<1>3. NoLostWakeup /\ PendingAnnounced
  BY Zenon DEF NoLostWakeup, PendingAnnounced
<1>4. QED
  BY <1>1, <1>2, <1>3, Zenon DEF SignalInv

\* The type invariant, one action at a time.
LEMMA TypeOKStep == SignalInv /\ [Next]_vars => TypeOK'
<1> SUFFICES ASSUME SignalInv, [Next]_vars PROVE TypeOK'
  BY Zenon
<1> USE ThreadsAssumption DEF SignalInv, TypeOK, Threads, sigVars, tcbVars
<1>1. ASSUME NEW s \in Senders, SendNext(s) PROVE TypeOK'
  <2>1. ASSUME NEW b \in SUBSET Bits, SendOr(s, b) PROVE TypeOK'
    BY <2>1, Zenon DEF SendOr
  <2>2. CASE SendFast(s) \/ SendSlow(s) \/ SendLock(s) \/ SendSwap(s)
    BY <2>2 DEF SendFast, SendSlow, SendLock, SendSwap
  <2>3. CASE SendWake(s)
    BY <2>3 DEF SendWake, WokenInv
  <2>4. CASE SendNotify(s)
    BY <2>4, Zenon DEF SendNotify
  <2>5. CASE EnqueueWoken(s)
    BY <2>5 DEF EnqueueWoken, WokenInv
  <2>6. QED
    BY <1>1, <2>1, <2>2, <2>3, <2>4, <2>5, Zenon DEF SendNext
<1>2. ASSUME NEW w \in Waiters, WaitNext(w) PROVE TypeOK'
  <2>1. CASE WaitLock(w)
    BY <2>1, Zenon DEF WaitLock
  <2>2. CASE WaitRegister(w) \/ WaitHarvest(w) \/ WaitReturn(w) \/ WaitBlock(w)
    BY <2>2 DEF WaitRegister, WaitHarvest, WaitReturn, WaitBlock
  <2>3. CASE ScheduleSelf(w) \/ Resume(w) \/ SwitchOut(w)
    BY <2>3 DEF ScheduleSelf, Resume, SwitchOut, ReturnWoken
  <2>4. QED
    BY <1>2, <2>1, <2>2, <2>3, Zenon DEF WaitNext
<1>3. CASE Drop
  BY <1>3, Zenon DEF Drop
<1>4. CASE UNCHANGED vars
  BY <1>4, Zenon DEF vars
<1>5. QED
  BY <1>1, <1>2, <1>3, <1>4, Zenon DEF Next

\* Stages and the lock: an action of one thread moves only that thread.
LEMMA StageInvStep == SignalInv /\ [Next]_vars => StageInv'
<1> SUFFICES ASSUME SignalInv, [Next]_vars PROVE StageInv'
  OBVIOUS
<1> USE ThreadsAssumption DEF SignalInv, TypeOK, Threads, sigVars, tcbVars,
       StageInv, WaiterInv, WokenInv, SendStages, WaitStages, InLock
<1>1. ASSUME NEW s \in Senders, SendNext(s) PROVE StageInv'
  <2>1. ASSUME NEW b \in SUBSET Bits, SendOr(s, b) PROVE StageInv'
    BY <2>1 DEF SendOr
  <2>2. CASE SendFast(s)
    BY <2>2 DEF SendFast
  <2>3. CASE SendSlow(s)
    BY <2>3 DEF SendSlow
  <2>4. CASE SendLock(s)
    BY <2>4 DEF SendLock
  <2>5. CASE SendSwap(s)
    BY <2>5 DEF SendSwap
  <2>6. CASE SendWake(s)
    BY <2>6 DEF SendWake
  <2>7. CASE SendNotify(s)
    BY <2>7 DEF SendNotify
  <2>8. CASE EnqueueWoken(s)
    BY <2>8 DEF EnqueueWoken
  <2>9. QED
    BY <1>1, <2>1, <2>2, <2>3, <2>4, <2>5, <2>6, <2>7, <2>8, Zenon DEF SendNext
<1>2. ASSUME NEW w \in Waiters, WaitNext(w) PROVE StageInv'
  <2>1. CASE WaitLock(w)
    BY <2>1 DEF WaitLock
  <2>2. CASE WaitRegister(w)
    BY <2>2 DEF WaitRegister
  <2>3. CASE WaitHarvest(w)
    BY <2>3 DEF WaitHarvest
  <2>4. CASE WaitReturn(w)
    BY <2>4 DEF WaitReturn
  <2>5. CASE WaitBlock(w)
    BY <2>5 DEF WaitBlock
  <2>6. CASE ScheduleSelf(w)
    BY <2>6 DEF ScheduleSelf, ReturnWoken
  <2>7. CASE SwitchOut(w)
    BY <2>7 DEF SwitchOut
  <2>8. CASE Resume(w)
    BY <2>8 DEF Resume, ReturnWoken
  <2>9. QED
    BY <1>2, <2>1, <2>2, <2>3, <2>4, <2>5, <2>6, <2>7, <2>8, Zenon DEF WaitNext
<1>3. CASE Drop
  BY <1>3 DEF Drop
<1>4. CASE UNCHANGED vars
  BY <1>4 DEF vars
<1>5. QED
  BY <1>1, <1>2, <1>3, <1>4, Zenon DEF Next

\* The waiter pointer and the thread state change together, under the lock.
LEMMA WaiterInvStep ==
  ASSUME OneWaiter
  PROVE  SignalInv /\ [Next]_vars => WaiterInv'
<1> SUFFICES ASSUME SignalInv, [Next]_vars PROVE WaiterInv'
  BY Zenon
<1> USE ThreadsAssumption DEF SignalInv, TypeOK, Threads, sigVars, tcbVars,
       StageInv, WaiterInv, WokenInv, SendStages, WaitStages, InLock
<1>0. PICK one : Waiters = {one}
  BY Zenon DEF OneWaiter
<1>1. ASSUME NEW s \in Senders, SendNext(s) PROVE WaiterInv'
  <2>1. ASSUME NEW b \in SUBSET Bits, SendOr(s, b) PROVE WaiterInv'
    BY <1>0, <2>1 DEF SendOr
  <2>2. CASE SendFast(s)
    BY <1>0, <2>2 DEF SendFast
  <2>3. CASE SendSlow(s)
    BY <1>0, <2>3 DEF SendSlow
  <2>4. CASE SendLock(s)
    BY <1>0, <2>4 DEF SendLock
  <2>5. CASE SendSwap(s)
    BY <1>0, <2>5 DEF SendSwap
  <2>6. CASE SendWake(s)
    BY <1>0, <2>6 DEF SendWake
  <2>7. CASE SendNotify(s)
    BY <1>0, <2>7 DEF SendNotify
  <2>8. CASE EnqueueWoken(s)
    BY <1>0, <2>8 DEF EnqueueWoken
  <2>9. QED
    BY <1>1, <2>1, <2>2, <2>3, <2>4, <2>5, <2>6, <2>7, <2>8, Zenon DEF SendNext
<1>2. ASSUME NEW w \in Waiters, WaitNext(w) PROVE WaiterInv'
  <2>1. CASE WaitLock(w)
    BY <1>0, <2>1 DEF WaitLock
  <2>2. CASE WaitRegister(w)
    BY <1>0, <2>2 DEF WaitRegister
  <2>3. CASE WaitHarvest(w)
    BY <1>0, <2>3 DEF WaitHarvest
  <2>4. CASE WaitReturn(w)
    BY <1>0, <2>4 DEF WaitReturn
  <2>5. CASE WaitBlock(w)
    BY <1>0, <2>5 DEF WaitBlock
  <2>6. CASE ScheduleSelf(w)
    BY <1>0, <2>6 DEF ScheduleSelf, ReturnWoken
  <2>7. CASE SwitchOut(w)
    BY <1>0, <2>7 DEF SwitchOut
  <2>8. CASE Resume(w)
    BY <1>0, <2>8 DEF Resume, ReturnWoken
  <2>9. QED
    BY <1>2, <2>1, <2>2, <2>3, <2>4, <2>5, <2>6, <2>7, <2>8, Zenon DEF WaitNext
<1>3. CASE Drop
  BY <1>0, <1>3 DEF Drop
<1>4. CASE UNCHANGED vars
  BY <1>0, <1>4 DEF vars
<1>5. QED
  BY <1>1, <1>2, <1>3, <1>4, Zenon DEF Next

\* Whoever clears has_observer has the lock and sees nobody observing.
LEMMA ObserverInvStep == SignalInv /\ [Next]_vars => ObserverInv'
<1> SUFFICES ASSUME SignalInv, [Next]_vars PROVE ObserverInv'
  OBVIOUS
<1> USE ThreadsAssumption DEF SignalInv, TypeOK, Threads, sigVars, tcbVars,
       StageInv, WaiterInv, WokenInv, ObserverInv, SendStages, WaitStages, InLock
<1>1. ASSUME NEW s \in Senders, SendNext(s) PROVE ObserverInv'
  <2>1. ASSUME NEW b \in SUBSET Bits, SendOr(s, b) PROVE ObserverInv'
    BY <2>1, Zenon DEF SendOr
  <2>2. CASE SendFast(s)
    BY <2>2, Zenon DEF SendFast
  <2>3. CASE SendSlow(s)
    BY <2>3, Zenon DEF SendSlow
  <2>4. CASE SendLock(s)
    BY <2>4, Zenon DEF SendLock
  <2>5. CASE SendSwap(s)
    BY <2>5, Zenon DEF SendSwap
  <2>6. CASE SendWake(s)
    BY <2>6, Zenon DEF SendWake
  <2>7. CASE SendNotify(s)
    BY <2>7, Zenon DEF SendNotify
  <2>8. CASE EnqueueWoken(s)
    BY <2>8, Zenon DEF EnqueueWoken
  <2>9. QED
    BY <1>1, <2>1, <2>2, <2>3, <2>4, <2>5, <2>6, <2>7, <2>8, Zenon DEF SendNext
<1>2. ASSUME NEW w \in Waiters, WaitNext(w) PROVE ObserverInv'
  <2>1. CASE WaitLock(w)
    BY <2>1, Zenon DEF WaitLock
  <2>2. CASE WaitRegister(w)
    BY <2>2, Zenon DEF WaitRegister
  <2>3. CASE WaitHarvest(w)
    BY <2>3, Zenon DEF WaitHarvest
  <2>4. CASE WaitReturn(w)
    BY <2>4, Zenon DEF WaitReturn
  <2>5. CASE WaitBlock(w)
    BY <2>5, Zenon DEF WaitBlock
  <2>6. CASE ScheduleSelf(w)
    BY <2>6, Zenon DEF ScheduleSelf, ReturnWoken
  <2>7. CASE SwitchOut(w)
    BY <2>7, Zenon DEF SwitchOut
  <2>8. CASE Resume(w)
    BY <2>8, Zenon DEF Resume, ReturnWoken
  <2>9. QED
    BY <1>2, <2>1, <2>2, <2>3, <2>4, <2>5, <2>6, <2>7, <2>8, Zenon DEF WaitNext
<1>3. CASE Drop
  BY <1>3, Zenon DEF Drop
<1>4. CASE UNCHANGED vars
  BY <1>4, Zenon DEF vars
<1>5. QED
  BY <1>1, <1>2, <1>3, <1>4, Zenon DEF Next

\* A woken thread is in one place: with one sender or in the run queue.
LEMMA WokenInvStep ==
  ASSUME OneWaiter
  PROVE  SignalInv /\ [Next]_vars => WokenInv'
<1> SUFFICES ASSUME SignalInv, [Next]_vars PROVE WokenInv'
  OBVIOUS
<1> USE ThreadsAssumption DEF SignalInv, TypeOK, Threads, sigVars, tcbVars,
       StageInv, WaiterInv, WokenInv, SendStages, WaitStages, InLock
<1>0. PICK one : Waiters = {one}
  BY DEF OneWaiter
<1>1. ASSUME NEW s \in Senders, SendNext(s) PROVE WokenInv'
  <2>1. ASSUME NEW b \in SUBSET Bits, SendOr(s, b) PROVE WokenInv'
    BY <1>0, <2>1 DEF SendOr
  <2>2. CASE SendFast(s)
    BY <1>0, <2>2 DEF SendFast
  <2>3. CASE SendSlow(s)
    BY <1>0, <2>3 DEF SendSlow
  <2>4. CASE SendLock(s)
    BY <1>0, <2>4 DEF SendLock
  <2>5. CASE SendSwap(s)
    BY <1>0, <2>5 DEF SendSwap
  <2>6. CASE SendWake(s)
    BY <1>0, <2>6 DEF SendWake
  <2>7. CASE SendNotify(s)
    BY <1>0, <2>7 DEF SendNotify
  <2>8. CASE EnqueueWoken(s)
    BY <1>0, <2>8 DEF EnqueueWoken
  <2>9. QED
    BY <1>1, <2>1, <2>2, <2>3, <2>4, <2>5, <2>6, <2>7, <2>8, Zenon DEF SendNext
<1>2. ASSUME NEW w \in Waiters, WaitNext(w) PROVE WokenInv'
  <2>1. CASE WaitLock(w)
    BY <1>0, <2>1 DEF WaitLock
  <2>2. CASE WaitRegister(w)
    BY <1>0, <2>2 DEF WaitRegister
  <2>3. CASE WaitHarvest(w)
    BY <1>0, <2>3 DEF WaitHarvest
  <2>4. CASE WaitReturn(w)
    BY <1>0, <2>4 DEF WaitReturn
  <2>5. CASE WaitBlock(w)
    BY <1>0, <2>5 DEF WaitBlock
  <2>6. CASE ScheduleSelf(w)
    BY <1>0, <2>6 DEF ScheduleSelf, ReturnWoken
  <2>7. CASE SwitchOut(w)
    BY <1>0, <2>7 DEF SwitchOut
  <2>8. CASE Resume(w)
    BY <1>0, <2>8 DEF Resume, ReturnWoken
  <2>9. QED
    BY <1>2, <2>1, <2>2, <2>3, <2>4, <2>5, <2>6, <2>7, <2>8 DEF WaitNext
<1>3. CASE Drop
  <2>1. CASE waiter = NoThread
    <3>1. UNCHANGED <<woken, pc>> /\ run_queue' = run_queue /\ state' = state
      BY <1>3, <2>1 DEF Drop
    <3>2. waiter' = NoThread /\ \A s \in Senders : pc[s] # "swapped"
      BY <1>3 DEF Drop
    <3>3. QED
      BY <3>1, <3>2
  <2>2. CASE waiter # NoThread
    <3>1. waiter \in Waiters /\ waiter = one
      BY <1>0, <2>2, Zenon
    <3>2. pc[waiter] \notin {"registered", "undo"}
      BY <1>3, <3>1 DEF Drop
    <3>3. state[waiter] = "Blocked"
      BY <3>1, <3>2, Zenon
    <3>4. UNCHANGED <<woken, pc>> /\ waiter' = NoThread
      BY <1>3, Zenon DEF Drop
    <3>5. run_queue' = {waiter}
      BY <1>0, <1>3, <3>1 DEF Drop
    <3>6. state' = [x \in Waiters |-> "Ready"]
      BY <1>0, <1>3, <3>1 DEF Drop
    <3>7. \A s \in Senders : pc[s] # "swapped" /\ woken[s] = NoThread
      BY <1>0, <1>3, <3>1, <3>3 DEF Drop
    <3>8. QED
      BY <1>0, <3>1, <3>4, <3>5, <3>6, <3>7
  <2>3. QED
    BY <2>1, <2>2, Zenon
<1>4. CASE UNCHANGED vars
  BY <1>0, <1>4 DEF vars
<1>5. QED
  BY <1>1, <1>2, <1>3, <1>4, Zenon DEF Next

\* The fast path leaves only when nobody is registered; the slow path delivers.
LEMMA NoLostWakeupStep ==
  ASSUME OneWaiter
  PROVE  SignalInv /\ [Next]_vars => NoLostWakeup'
<1> SUFFICES ASSUME SignalInv, [Next]_vars PROVE NoLostWakeup'
  BY Zenon
<1> USE ThreadsAssumption DEF SignalInv, TypeOK, Threads, sigVars, tcbVars,
       StageInv, WaiterInv, WokenInv, ObserverInv, NoLostWakeup, Sending, SendStages, WaitStages, InLock
<1>0. PICK one : Waiters = {one}
  BY Zenon DEF OneWaiter
<1>1. ASSUME NEW s \in Senders, SendNext(s) PROVE NoLostWakeup'
  <2>1. ASSUME NEW b \in SUBSET Bits, SendOr(s, b) PROVE NoLostWakeup'
    BY <1>0, <2>1 DEF SendOr
  <2>2. CASE SendFast(s)
    BY <1>0, <2>2 DEF SendFast
  <2>3. CASE SendSlow(s)
    BY <1>0, <2>3 DEF SendSlow
  <2>4. CASE SendLock(s)
    BY <1>0, <2>4 DEF SendLock
  <2>5. CASE SendSwap(s)
    BY <1>0, <2>5 DEF SendSwap
  <2>6. CASE SendWake(s)
    BY <1>0, <2>6 DEF SendWake
  <2>7. CASE SendNotify(s)
    BY <1>0, <2>7 DEF SendNotify
  <2>8. CASE EnqueueWoken(s)
    BY <1>0, <2>8 DEF EnqueueWoken
  <2>9. QED
    BY <1>1, <2>1, <2>2, <2>3, <2>4, <2>5, <2>6, <2>7, <2>8 DEF SendNext
<1>2. ASSUME NEW w \in Waiters, WaitNext(w) PROVE NoLostWakeup'
  <2>1. CASE WaitLock(w)
    BY <1>0, <2>1 DEF WaitLock
  <2>2. CASE WaitRegister(w)
    BY <1>0, <2>2 DEF WaitRegister
  <2>3. CASE WaitHarvest(w)
    BY <1>0, <2>3 DEF WaitHarvest
  <2>4. CASE WaitReturn(w)
    BY <1>0, <2>4 DEF WaitReturn
  <2>5. CASE WaitBlock(w)
    BY <1>0, <2>5 DEF WaitBlock
  <2>6. CASE ScheduleSelf(w)
    BY <1>0, <2>6 DEF ScheduleSelf, ReturnWoken
  <2>7. CASE SwitchOut(w)
    BY <1>0, <2>7 DEF SwitchOut
  <2>8. CASE Resume(w)
    BY <1>0, <2>8 DEF Resume, ReturnWoken
  <2>9. QED
    BY <1>2, <2>1, <2>2, <2>3, <2>4, <2>5, <2>6, <2>7, <2>8, Zenon DEF WaitNext
<1>3. CASE Drop
  BY <1>0, <1>3 DEF Drop
<1>4. CASE UNCHANGED vars
  BY <1>0, <1>4 DEF vars
<1>5. QED
  BY <1>1, <1>2, <1>3, <1>4, Zenon DEF Next

\* The last sender to leave with bits pending has notified the wait set.
LEMMA PendingAnnouncedStep ==
  ASSUME OneWaiter
  PROVE  SignalInv /\ [Next]_vars => PendingAnnounced'
<1> SUFFICES ASSUME SignalInv, [Next]_vars PROVE PendingAnnounced'
  OBVIOUS
<1> USE ThreadsAssumption DEF SignalInv, TypeOK, Threads, sigVars, tcbVars,
       StageInv, WaiterInv, WokenInv, ObserverInv, NoLostWakeup, PendingAnnounced,
       Sending, Harvesting, SendStages, WaitStages, InLock
<1>0. PICK one : Waiters = {one}
  BY Zenon DEF OneWaiter
<1>1. ASSUME NEW s \in Senders, SendNext(s) PROVE PendingAnnounced'
  <2>1. ASSUME NEW b \in SUBSET Bits, SendOr(s, b) PROVE PendingAnnounced'
    BY <1>0, <2>1 DEF SendOr
  <2>2. CASE SendFast(s)
    BY <1>0, <2>2 DEF SendFast
  <2>3. CASE SendSlow(s)
    BY <1>0, <2>3 DEF SendSlow
  <2>4. CASE SendLock(s)
    BY <1>0, <2>4 DEF SendLock
  <2>5. CASE SendSwap(s)
    BY <1>0, <2>5, Zenon DEF SendSwap
  <2>6. CASE SendWake(s)
    BY <1>0, <2>6 DEF SendWake
  <2>7. CASE SendNotify(s)
    BY <1>0, <2>7, Zenon DEF SendNotify
  <2>8. CASE EnqueueWoken(s)
    BY <1>0, <2>8 DEF EnqueueWoken
  <2>9. QED
    BY <1>1, <2>1, <2>2, <2>3, <2>4, <2>5, <2>6, <2>7, <2>8 DEF SendNext
<1>2. ASSUME NEW w \in Waiters, WaitNext(w) PROVE PendingAnnounced'
  <2>1. CASE WaitLock(w)
    BY <1>0, <2>1 DEF WaitLock
  <2>2. CASE WaitRegister(w)
    BY <1>0, <2>2 DEF WaitRegister
  <2>3. CASE WaitHarvest(w)
    BY <1>0, <2>3, Zenon DEF WaitHarvest
  <2>4. CASE WaitReturn(w)
    BY <1>0, <2>4 DEF WaitReturn
  <2>5. CASE WaitBlock(w)
    BY <1>0, <2>5, Zenon DEF WaitBlock
  <2>6. CASE ScheduleSelf(w)
    BY <1>0, <2>6 DEF ScheduleSelf, ReturnWoken
  <2>7. CASE SwitchOut(w)
    BY <1>0, <2>7 DEF SwitchOut
  <2>8. CASE Resume(w)
    BY <1>0, <2>8 DEF Resume, ReturnWoken
  <2>9. QED
    BY <1>2, <2>1, <2>2, <2>3, <2>4, <2>5, <2>6, <2>7, <2>8, Zenon DEF WaitNext
<1>3. CASE Drop
  BY <1>0, <1>3, Zenon DEF Drop
<1>4. CASE UNCHANGED vars
  BY <1>0, <1>4 DEF vars
<1>5. QED
  BY <1>1, <1>2, <1>3, <1>4, Zenon DEF Next

\* With one waiter every step of signal_send, signal_wait and of a wait set at
\* the signal preserves the whole invariant.
LEMMA SignalInvStep ==
  ASSUME OneWaiter
  PROVE  SignalInv /\ [Next]_vars => SignalInv'
  BY TypeOKStep, StageInvStep, WaiterInvStep, ObserverInvStep, WokenInvStep,
     NoLostWakeupStep, PendingAnnouncedStep DEF SignalInv

\* The invariant that makes the fast path of signal_send sound holds in every
\* reachable state.
LEMMA SignalInvAlways ==
  ASSUME OneWaiter
  PROVE  Spec => []SignalInv
  BY SignalInvInit, SignalInvStep, PTL DEF Spec

\* For any number of senders and any mask width the signal object and the
\* threads at it stay well typed.
THEOREM SignalTypeOK ==
  ASSUME OneWaiter
  PROVE  Spec => []TypeOK
<1>1. SignalInv => TypeOK
  BY Zenon DEF SignalInv
<1>2. QED
  BY <1>1, SignalInvAlways, PTL

\* The Dekker pair of signal_send and signal_wait: for any number of senders
\* a waiter is never asleep on pending bits with no sender on its way.
THEOREM SignalNoLostWakeup ==
  ASSUME OneWaiter
  PROVE  Spec => []NoLostWakeup
<1>1. SignalInv => NoLostWakeup
  BY Zenon DEF SignalInv
<1>2. QED
  BY <1>1, SignalInvAlways, PTL

\* For any number of senders, bits nobody is working on have been announced
\* to the wait set the signal is registered with.
THEOREM SignalPendingAnnounced ==
  ASSUME OneWaiter
  PROVE  Spec => []PendingAnnounced
<1>1. SignalInv => PendingAnnounced
  BY Zenon DEF SignalInv
<1>2. QED
  BY <1>1, SignalInvAlways, PTL

\* signal_send wakes only a Blocked waiter, and a woken thread reaches a run
\* queue exactly once.
THEOREM SignalWokenOnce ==
  ASSUME OneWaiter
  PROVE  Spec => []WokenOnce
<1>1. SignalInv => WokenOnce
  <2> SUFFICES ASSUME SignalInv PROVE WokenOnce
    BY Zenon
  <2> USE ThreadsAssumption DEF SignalInv, TypeOK, Threads, StageInv, WaiterInv,
          WokenInv, SendStages, WaitStages, InLock
  <2>1. ASSUME NEW s \in Senders, pc[s] = "swapped"
        PROVE  waiter \in Waiters /\ state[waiter] = "Blocked" /\ lock = s
    BY <2>1
  <2>2. ASSUME NEW w \in Waiters, state[w] = "Ready"
        PROVE  \/ w \in run_queue /\ \A s \in Senders : woken[s] # w
               \/ w \notin run_queue /\ \E s \in Senders :
                     woken[s] = w /\ \A r \in Senders \ {s} : woken[r] # w
    BY <2>2
  <2>3. QED
    BY <2>1, <2>2, Zenon DEF WokenOnce
<1>2. QED
  BY <1>1, SignalInvAlways, PTL

\* No CPU can load the registers of a woken waiter while the CPU it blocked
\* on is still on its stack.
THEOREM SignalOneStack ==
  ASSUME OneWaiter
  PROVE  Spec => []OneStack
<1>1. SignalInv => OneStack
  BY SMTT(30) DEF SignalInv, StageInv, WaiterInv, WaitStages, OneStack
<1>2. QED
  BY <1>1, SignalInvAlways, PTL
=============================================================================
