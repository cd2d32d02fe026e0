-------------------------- MODULE SchedulerProofs --------------------------
(***************************************************************************)
(* Theorems about Scheduler for any number of CPUs, threads and levels:    *)
(* the facts on finite sets its inductive invariant rests on (Library),    *)
(* and what the invariant gives.                                           *)
(***************************************************************************)
EXTENDS SchedulerInvariant, FiniteSetTheorems

-----------------------------------------------------------------------------
(* Finite sets.                                                            *)

\* A set of natural numbers that is not empty has a least element.
LEMMA LeastElement ==
  ASSUME NEW S \in SUBSET Nat, S # {}
  PROVE  \E k \in S : \A j \in S : k <= j
<1>1. PICK k \in S : \A j \in S : ~(<<j, k>> \in OpToRel(<, Nat))
  BY NatLessThanWellFounded, WFMin, Zenon
<1>2. \A j \in S : ~(j < k)
  BY <1>1, Zenon DEF OpToRel
<1>3. QED
  BY <1>2

\* There are finitely many levels, numbered from 0.
LEMMA LevelsFinite ==
  /\ Levels \subseteq 0..31 /\ IsFiniteSet(Levels) /\ Levels \subseteq Nat /\ 0 \in Levels
  /\ Priorities \subseteq Levels /\ 0 \notin Priorities
<1>1. Levels \subseteq 0..31
  BY SchedulerAssumption DEF Levels, NUM_PRIORITY_LEVELS
<1>2. IsFiniteSet(0..31)
  <2>1. 0 \in Int /\ 31 \in Int
    OBVIOUS
  <2>2. QED
    BY <2>1, FS_Interval, Zenon
<1>3. IsFiniteSet(Levels)
  BY <1>1, <1>2, FS_Subset, Zenon
<1>4. QED
  BY <1>1, <1>3, SchedulerAssumption DEF Levels, NUM_PRIORITY_LEVELS

\* What QueueLength counts.
LEMMA EntriesFinite ==
  ASSUME NEW s, s.queues \in [Levels -> Seq(Tcbs)]
  PROVE  /\ IsFiniteSet(Entries(s))
         /\ QueueLength(s) = Cardinality(Entries(s)) /\ QueueLength(s) \in Nat
         /\ \A x : x \in Entries(s) <=>
                     \E p \in Levels : \E i \in 1..Len(s.queues[p]) : x = <<p, i>>
<1> DEFINE T == {{p} \X DOMAIN s.queues[p] : p \in Levels}
           f == [p \in Levels |-> {p} \X DOMAIN s.queues[p]]
<1>1. \A p \in Levels : DOMAIN s.queues[p] = 1..Len(s.queues[p]) /\ Len(s.queues[p]) \in Nat
  OBVIOUS
<1>2. \A A \in T : IsFiniteSet(A)
  <2> TAKE A \in T
  <2>1. PICK p \in Levels : A = {p} \X (1..Len(s.queues[p]))
    BY <1>1
  <2>2. IsFiniteSet({p}) /\ IsFiniteSet(1..Len(s.queues[p]))
    <3>1. 1 \in Int /\ Len(s.queues[p]) \in Int
      BY <1>1
    <3>2. QED
      BY <3>1, FS_Singleton, FS_Interval, Zenon
  <2>3. QED
    BY <2>1, <2>2, FS_Product, Zenon
<1>3. IsFiniteSet(T)
  <2>1. f \in Surjection(Levels, T)
    BY Zenon DEF Surjection
  <2>2. QED
    BY <2>1, LevelsFinite, FS_Surjection, Zenon
<1>4. IsFiniteSet(Entries(s))
  BY <1>2, <1>3, FS_UNION, Zenon DEF Entries
<1>5. \A x : x \in Entries(s) <=>
               \E p \in Levels : \E i \in 1..Len(s.queues[p]) : x = <<p, i>>
  BY <1>1 DEF Entries
<1>6. QED
  BY <1>4, <1>5, FS_CardinalityType DEF QueueLength, Entries

\* One entry more in one level.
LEMMA LengthAdd ==
  ASSUME NEW s, s.queues \in [Levels -> Seq(Tcbs)],
         NEW r, r.queues \in [Levels -> Seq(Tcbs)],
         NEW p \in Levels, Len(r.queues[p]) = Len(s.queues[p]) + 1,
         \A l \in Levels \ {p} : Len(r.queues[l]) = Len(s.queues[l])
  PROVE  QueueLength(r) = QueueLength(s) + 1
<1> DEFINE x == <<p, Len(s.queues[p]) + 1>>
<1>1. \A l \in Levels : Len(s.queues[l]) \in Nat
  OBVIOUS
<1>2. x \notin Entries(s)
  BY <1>1, EntriesFinite
<1>3. Entries(r) = Entries(s) \union {x}
  <2>1. ASSUME NEW y \in Entries(r) PROVE y \in Entries(s) \union {x}
    <3>0. PICK l \in Levels : \E i \in 1..Len(r.queues[l]) : y = <<l, i>>
      BY EntriesFinite
    <3>1. PICK i \in 1..Len(r.queues[l]) : y = <<l, i>>
      BY <3>0
    <3>2. i \in 1..Len(s.queues[l]) \/ (l = p /\ i = Len(s.queues[p]) + 1)
      BY <1>1
    <3>3. QED
      BY <3>1, <3>2, EntriesFinite
  <2>2. ASSUME NEW y \in Entries(s) PROVE y \in Entries(r)
    <3>0. PICK l \in Levels : \E i \in 1..Len(s.queues[l]) : y = <<l, i>>
      BY EntriesFinite
    <3>1. PICK i \in 1..Len(s.queues[l]) : y = <<l, i>>
      BY <3>0
    <3>2. Len(r.queues[l]) = Len(s.queues[l]) \/ Len(r.queues[l]) = Len(s.queues[l]) + 1
      BY Zenon
    <3>3. i \in 1..Len(r.queues[l])
      BY <1>1, <3>2
    <3>4. QED
      BY <3>1, <3>3, EntriesFinite
  <2>3. x \in Entries(r)
    <3>1. Len(s.queues[p]) + 1 \in 1..Len(r.queues[p])
      BY <1>1
    <3>2. QED
      BY <3>1, EntriesFinite
  <2>4. QED
    BY <2>1, <2>2, <2>3, Zenon
<1>4. IsFiniteSet(Entries(s)) /\ QueueLength(s) = Cardinality(Entries(s))
      /\ QueueLength(r) = Cardinality(Entries(r))
  BY EntriesFinite
<1> HIDE DEF x
<1>5. QED
  BY <1>2, <1>3, <1>4, FS_AddElement, Zenon

\* What the steps use of finite sets.
LEMMA FiniteLemma == FiniteFacts
<1>1. \A S, t : IsFiniteSet(S) => IsFiniteSet(S \union {t})
  BY FS_AddElement
<1>2. \A S : \A T \in SUBSET S : IsFiniteSet(S) => IsFiniteSet(T)
  BY FS_Subset
<1>3. ASSUME NEW S, IsFiniteSet(S), S # {} PROVE Cardinality(S) \in Nat \ {0}
  <2>1. Cardinality(S) \in Nat
    BY <1>3, FS_CardinalityType
  <2>2. Cardinality(S) # 0
    BY <1>3, FS_EmptySet
  <2>3. QED
    BY <2>1, <2>2
<1>4. ASSUME NEW S \in SUBSET Nat, S # {} PROVE Min(S) \in S /\ \A n \in S : Min(S) <= n
  <2>1. \E n \in S : \A m \in S : n <= m
    BY <1>4, LeastElement
  <2>2. QED
    BY <2>1, Zenon DEF Min
<1>5. QED
  BY <1>1, <1>2, <1>3, <1>4, Zenon DEF FiniteFacts

\* The load counter counts a finite set of entries.
LEMMA CountLemma == CountFacts
<1>1. ASSUME NEW s, s.queues \in [Levels -> Seq(Tcbs)] PROVE QueueLength(s) \in Nat
  BY <1>1, EntriesFinite, Zenon
<1>2. ASSUME NEW s, s.queues = [p \in Levels |-> <<>>] PROVE QueueLength(s) = 0
  <2>1. \A p \in Levels : DOMAIN s.queues[p] = {}
    BY <1>2, SMT
  <2>2. Entries(s) = {}
    BY <2>1 DEF Entries
  <2>3. QueueLength(s) = Cardinality(Entries(s))
    BY Zenon DEF QueueLength, Entries
  <2>4. QED
    BY <2>2, <2>3, FS_EmptySet, Zenon
<1>3. ASSUME NEW s, NEW r, NEW p \in Levels,
             s.queues \in [Levels -> Seq(Tcbs)], r.queues \in [Levels -> Seq(Tcbs)],
             Len(r.queues[p]) = Len(s.queues[p]) + 1,
             \A l \in Levels \ {p} : Len(r.queues[l]) = Len(s.queues[l])
      PROVE  QueueLength(r) = QueueLength(s) + 1
  BY <1>3, LengthAdd, Zenon
<1>4. QED
  BY <1>1, <1>2, <1>3, Zenon DEF CountFacts

\* Everything the invariant rests on.
LEMMA LibraryLemma == Library
<1>1. IsFiniteSet({})
  BY FS_EmptySet, Zenon
<1>2. QED
  BY <1>1, QueueLemma, CountLemma, FiniteLemma, Zenon DEF Library

-----------------------------------------------------------------------------
(* What the invariant leaves out: the priority changes under way, and who  *)
(* saves the registers of a thread.                                        *)

\* A thread whose registers are not saved is on some CPU's stack.
Unsaved == \A t \in Tcbs : ~context_saved[t] => \E d \in Cpus : stack[d] = t

\* Only schedule() and a thread that blocks touch a stack or context_saved.
LEMMA StackSteps ==
  ASSUME [Next]_vars
  PROVE  \/ stack' = stack /\ context_saved' = context_saved
         \/ \E c \in Cpus : Pick(c) \/ Block(c) \/ Switch(c)
<1> DEFINE Same == stack' = stack /\ context_saved' = context_saved
<1>1. CASE sleep_check_wakeups
  BY <1>1, Zenon DEF sleep_check_wakeups
<1>2. ASSUME NEW c \in Cpus, Spin(c) \/ enqueue_and_wake(c) \/ wake_idle_cpu(c) PROVE Same
  BY <1>2, Zenon DEF Spin, enqueue_and_wake, wake_idle_cpu, threadVars
<1>3. ASSUME NEW c \in Cpus, IdleMark(c) \/ IdleCheck(c) \/ TakeIpi(c) \/ IdleAwake(c) \/ TickHalted(c)
      PROVE  Same
  <2>1. UNCHANGED idleOnly
    BY <1>3, Zenon DEF IdleMark, IdleCheck, TakeIpi, IdleAwake, TickHalted
  <2>2. QED
    BY <2>1, Zenon DEF idleOnly, threadVars
<1>4. ASSUME NEW c \in Cpus, Preempt(c) \/ Sleep(c) \/ StopSelf(c) \/ Exit(c) PROVE Same
  BY <1>4, Zenon DEF Preempt, Sleep, StopSelf, Exit, threadVars
<1>5. ASSUME NEW c \in Cpus, SetPriorityDone(c) \/ LockNext(c) \/ MarkExited(c) \/ Reap(c) PROVE Same
  BY <1>5, Zenon DEF SetPriorityDone, LockNext, MarkExited, Reap, threadVars
<1>6. ASSUME NEW c \in Cpus, NEW t \in Threads, Wake(c, t) \/ Start(c, t) \/ Stop(c, t) \/ Delete(c, t)
      PROVE  Same
  BY <1>6, Zenon DEF Wake, Start, Stop, Delete, threadVars, cpuVars
<1>7. ASSUME NEW c \in Cpus, NEW t \in Threads, NEW p \in Priorities, SetPriority(c, t, p) PROVE Same
  BY <1>7, Zenon DEF SetPriority
<1>8. ASSUME NEW c \in Cpus, NEW t \in Threads, NEW a \in Affinities, SetAffinity(c, t, a) PROVE Same
  BY <1>8, Zenon DEF SetAffinity, cpuVars
<1>9. CASE UNCHANGED vars
  BY <1>9, Zenon DEF vars, cpuVars, threadVars
<1>10. QED
  BY <1>1, <1>2, <1>3, <1>4, <1>5, <1>6, <1>7, <1>8, <1>9, Zenon DEF Next, CpuStep

\* Pick, Block and Switch keep track of who saves what.
LEMMA UnsavedStep ==
  ASSUME SInv, Unsaved, [Next]_vars
  PROVE  Unsaved'
<1>1. /\ context_saved \in [Tcbs -> BOOLEAN] /\ stack \in [Cpus -> Tcbs] /\ current \in [Cpus -> Tcbs]
  BY Zenon DEF SInv, Types
<1>2. CASE stack' = stack /\ context_saved' = context_saved
  BY <1>2, Zenon DEF Unsaved
<1>3. ASSUME NEW c \in Cpus, stack' = stack,
             context_saved' = [context_saved EXCEPT ![stack[c]] = FALSE]
      PROVE  Unsaved'
  BY <1>1, <1>3, Zenon DEF Unsaved
<1>4. ASSUME NEW c \in Cpus, Block(c) PROVE Unsaved'
  BY <1>3, <1>4, Zenon DEF Block
<1>5. ASSUME NEW c \in Cpus, Pick(c) PROVE Unsaved'
  <2>1. stack[c] = current[c]
    BY <1>5, Zenon DEF Pick, SInv, CpusOK, CpuOK, Away
  <2>2. stack' = stack /\ context_saved' \in {context_saved, [context_saved EXCEPT ![current[c]] = FALSE]}
    BY <1>5, Zenon DEF Pick
  <2>3. QED
    BY <1>2, <1>3, <2>1, <2>2, Zenon
<1>6. ASSUME NEW c \in Cpus, Switch(c) PROVE Unsaved'
  <2>1. /\ context_saved' = [context_saved EXCEPT ![stack[c]] = TRUE]
        /\ stack' = [stack EXCEPT ![c] = current[c]]
    BY <1>6, Zenon DEF Switch
  <2>2. ASSUME NEW t \in Tcbs, ~context_saved'[t] PROVE \E d \in Cpus : stack'[d] = t
    <3>1. t # stack[c] /\ ~context_saved[t]
      BY <1>1, <2>1, <2>2, Zenon
    <3>2. PICK d \in Cpus : stack[d] = t
      BY <3>1, Zenon DEF Unsaved
    <3>3. stack'[d] = t
      BY <1>1, <2>1, <3>1, <3>2, Zenon
    <3>4. QED
      BY <3>3, Zenon
  <2>3. QED
    BY <2>2, Zenon DEF Unsaved
<1>7. QED
  BY <1>2, <1>4, <1>5, <1>6, StackSteps, Zenon

\* The record of a priority change.
LEMMA SettingType ==
  \A c \in Cpus, t \in Threads \union {NoTcb}, old \in Levels, new \in Levels :
    Setting(c, t, old, new) \in Settings
<1>1. EmptyScheduler \in Scheds
  BY LibraryLemma, EmptyOK, Zenon
<1>2. QED
  BY <1>1, Zenon DEF Setting, Settings

LEMMA NoSettingType == \A c \in Cpus : NoSetting(c) \in Settings
BY SettingType, Zenon DEF NoSetting, Levels

\* CallTypes is inductive, given the types of SInv.
LEMMA CallTypesStep ==
  ASSUME ~SieStays, SInv, CallTypes, [Next]_vars
  PROVE  CallTypes'
<1> DEFINE Same == setting' = setting /\ reschedule_pending' = reschedule_pending
<1>1. CASE sleep_check_wakeups
  BY <1>1, Zenon DEF sleep_check_wakeups, idleVars, callVars, CallTypes
<1>2. ASSUME NEW c \in Cpus, Pick(c) \/ Spin(c) \/ Switch(c) \/ enqueue_and_wake(c) \/ wake_idle_cpu(c)
      PROVE Same
  <2>1. UNCHANGED callVars /\ reschedule_pending' = reschedule_pending
    BY <1>2, Zenon DEF Pick, Spin, Switch, enqueue_and_wake, wake_idle_cpu, wakeVars, idleVars
  <2>2. QED
    BY <2>1, Zenon DEF callVars
<1>3. ASSUME NEW c \in Cpus, IdleMark(c) \/ IdleCheck(c) \/ TakeIpi(c) \/ IdleAwake(c) \/ TickHalted(c)
      PROVE  Same
  <2>1. UNCHANGED idleOnly /\ reschedule_pending' = reschedule_pending
    BY <1>3, Zenon DEF IdleMark, IdleCheck, TakeIpi, IdleAwake, TickHalted, idleVars
  <2>2. QED
    BY <2>1, Zenon DEF idleOnly, callVars
<1>4. ASSUME NEW c \in Cpus, Preempt(c) \/ Block(c) \/ Sleep(c) \/ StopSelf(c) \/ Exit(c) PROVE Same
  BY <1>4, Zenon DEF Preempt, Block, Sleep, StopSelf, Exit, wakeVars, idleVars, callVars
<1>5. ASSUME NEW c \in Cpus, LockNext(c) \/ MarkExited(c) \/ Reap(c) PROVE Same
  BY <1>5, Zenon DEF LockNext, MarkExited, Reap, wakeVars, idleVars
<1>6. ASSUME NEW c \in Cpus, NEW t \in Threads, Wake(c, t) \/ Start(c, t) PROVE Same
  BY <1>6, Zenon DEF Wake, Start, idleVars, callVars
<1>7. ASSUME NEW c \in Cpus, NEW t \in Threads, Stop(c, t) \/ Delete(c, t) PROVE Same
  BY <1>7, Zenon DEF Stop, Delete, cpuVars, wakeVars, idleVars
<1>8. ASSUME NEW c \in Cpus, NEW t \in Threads, NEW p \in Priorities, SetPriority(c, t, p) PROVE CallTypes'
  <2>1. /\ setting' = [setting EXCEPT ![c] = Setting(c, t, priority[t], p)]
        /\ reschedule_pending' = reschedule_pending
    BY <1>8, Zenon DEF SetPriority, wakeVars, idleVars
  <2>2. priority[t] \in Levels /\ p \in Levels
    BY TypeFacts, TcbFacts, Zenon DEF Levels
  <2>3. Setting(c, t, priority[t], p) \in Settings
    BY <2>2, SettingType, Zenon
  <2>4. QED
    BY <2>1, <2>3, Zenon DEF CallTypes
<1>9. ASSUME NEW c \in Cpus, SetPriorityDone(c) PROVE CallTypes'
  <2>1. setting' = [setting EXCEPT ![c] = NoSetting(c)] /\ reschedule_pending' = reschedule_pending
    BY <1>9, Zenon DEF SetPriorityDone, wakeVars, idleVars
  <2>2. NoSetting(c) \in Settings
    BY NoSettingType
  <2>3. QED
    BY <2>1, <2>2, Zenon DEF CallTypes
<1>10. ASSUME NEW c \in Cpus, NEW t \in Threads, NEW a \in Affinities, SetAffinity(c, t, a) PROVE Same
  BY <1>10, Zenon DEF SetAffinity, cpuVars, idleVars
<1>11. CASE UNCHANGED vars
  BY <1>11, Zenon DEF vars, cpuVars, idleVars, CallTypes
<1>12. Same => CallTypes'
  BY Zenon DEF CallTypes
<1>13. QED
  BY <1>1, <1>2, <1>3, <1>4, <1>5, <1>6, <1>7, <1>8, <1>9, <1>10, <1>11, <1>12, Zenon DEF Next, CpuStep

-----------------------------------------------------------------------------
(* Theorems, for any number of CPUs, threads and levels, when the thread   *)
(* system calls meet threads at rest (SettledCalls).                       *)

\* The invariant holds in every state of every behaviour.
FullInv == SInv /\ CallTypes /\ Unsaved
LEMMA Invariance ==
  ASSUME SettledCalls
  PROVE  Spec => []FullInv
<1>1. Init => FullInv
  <2>1. Init => SInv
    BY LibraryLemma, InitInvariant, Zenon
  <2>2. Init => Unsaved
    BY Zenon DEF Init, Unsaved
  <2>3. ASSUME Init PROVE CallTypes
    <3>1. setting = [c \in Cpus |-> NoSetting(c)] /\ reschedule_pending = {}
      BY <2>3, Zenon DEF Init
    <3>2. QED
      BY <3>1, NoSettingType, Zenon DEF CallTypes
  <2>4. QED
    BY <2>1, <2>2, <2>3, Zenon DEF FullInv
<1>2. FullInv /\ [Next]_vars => FullInv'
  BY LibraryLemma, NextInvariant, UnsavedStep, CallTypesStep, Zenon DEF FullInv, SettledCalls
<1>3. QED
  BY <1>1, <1>2, PTL DEF Spec

\* The run queues stay consistent (QueuesInv): through enqueue,
\* dequeue_highest and remove_from_queue no TCB is linked twice, bitmap and load
\* counter agree with the queues, a queued thread is where set_priority and the
\* deletion look for it, and a Ready thread is in a run queue or about to be put
\* there.  No step of the model changes a run queue without its lock: the move
\* of a Ready thread by set_priority is outside SettledCalls.
THEOREM SchedulerQueues ==
  ASSUME SettledCalls
  PROVE  Spec => []QueuesInv
<1>1. FullInv => QueuesInv
  BY InvariantImplies, Zenon DEF FullInv
<1>2. QED
  BY <1>1, Invariance, PTL

\* No two CPUs are ever on one kernel stack (OneStack): schedule() and the
\* wakeups hand a thread from CPU to CPU only after context_saved.
THEOREM SchedulerStacks ==
  ASSUME SettledCalls
  PROVE  Spec => []OneStack
<1>1. FullInv => OneStack
  BY InvariantImplies, Zenon DEF FullInv
<1>2. QED
  BY <1>1, Invariance, PTL

\* A CPU in the wait for context_saved waits for another CPU that is on its way
\* out of that thread (SpinAnswered), however many CPUs hand threads around.
THEOREM SchedulerSpin ==
  ASSUME SettledCalls
  PROVE  Spec => []SpinAnswered
<1>1. ASSUME FullInv PROVE SpinAnswered
  <2>1. ASSUME NEW c \in Cpus, pc[c] = "spin", ~context_saved[current[c]]
        PROVE  \E d \in Cpus \ {c} : stack[d] = current[c] /\ GivenUp(d)
    <3>1. current[c] \in Tcbs /\ stack[c] # current[c] /\ ~Leaving(c)
      <4>1. CpuOK(c) /\ current \in [Cpus -> Tcbs]
        BY <1>1, Zenon DEF FullInv, SInv, Types, CpusOK
      <4>2. Away(c) /\ ~Leaving(c)
        BY <2>1, Zenon DEF Away, Leaving
      <4>3. QED
        BY <4>1, <4>2, Zenon DEF CpuOK
    <3>2. PICK d \in Cpus : stack[d] = current[c]
      BY <1>1, <2>1, <3>1, Zenon DEF FullInv, Unsaved
    <3>3. d # c
      BY <3>1, <3>2, Zenon
    <3>4. Leaving(d) \/ Away(d)
      <4>1. Away(d) \/ stack[d] = current[d]
        BY <1>1, Zenon DEF FullInv, SInv, CpusOK, CpuOK
      <4>2. Leaving(d) \/ current[c] # current[d]
        BY <1>1, <3>1, <3>3, Zenon DEF FullInv, SInv, Claimed
      <4>3. QED
        BY <3>2, <4>1, <4>2, Zenon
    <3>5. GivenUp(d)
      BY <3>4, Zenon DEF GivenUp, Leaving, Away
    <3>6. QED
      BY <3>2, <3>3, <3>5, Zenon
  <2>2. QED
    BY <2>1, Zenon DEF SpinAnswered
<1>2. QED
  BY <1>1, Invariance, PTL

\* No CPU stays halted with work in its run queue and no wakeup IPI on the way
\* (NoMissedWakeup): mark_idle and the second look at the run queue against
\* enqueue_and_wake, with interrupts off in between as on x86-64.
THEOREM SchedulerWakeups ==
  ASSUME SettledCalls
  PROVE  Spec => []NoMissedWakeup
<1>1. FullInv => NoMissedWakeup
  BY InvariantImplies, Zenon DEF FullInv
<1>2. QED
  BY <1>1, Invariance, PTL

\* change_priority, left alone with a run queue, moves a queued TCB from one
\* level to another and leaves links, bitmap and load counter consistent: what
\* set_priority would guarantee under the scheduler lock.
THEOREM ChangePriorityMoves ==
  ASSUME NEW s \in Scheds, SchedOK(s), NEW t \in Tcbs, NEW old \in Levels, NEW new \in Levels,
         old # new, t \in Range(s.queues[old]), t \notin Range(s.queues[new])
  PROVE  Moved(s, change_priority(s, t, old, new), t, old, new)
<1>1. ChangeFacts
  BY LibraryLemma, RunQueueLemma, Zenon DEF Library
<1>2. QED
  BY <1>1, Zenon DEF ChangeFacts
=============================================================================
