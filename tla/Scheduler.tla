----------------------------- MODULE Scheduler -----------------------------
(***************************************************************************)
(* The per-CPU schedulers (kernel/src/sched/mod.rs, sched/run_queue.rs):   *)
(* run queues, schedule() and the hand-over of kernel stacks between CPUs, *)
(* enqueue_and_wake with the idle loop and its wakeup IPIs, the sleep list,*)
(* and the thread system calls as the scheduler sees them.                 *)
(*                                                                         *)
(* A step is a critical section or an access another CPU can observe.  The *)
(* scheduler lock of a CPU is held across steps only while that CPU waits  *)
(* for the registers of the thread it picked, and by the deletion of a     *)
(* thread, which takes every lock.  The code that blocks a thread in IPC   *)
(* (modules Endpoint, Signal, EventQueue, WaitSet) appears here as Block   *)
(* and Wake.  Interrupts are off in system calls, so only user code and    *)
(* the idle loop take timer ticks and device interrupts.                   *)
(***************************************************************************)
EXTENDS Integers, Sequences, Functions, FiniteSets, FiniteSetsExt

CONSTANTS
  NumCpus, Threads,
  Priorities,   \* levels user threads may have
  MaxSleeping,  \* MAX_SLEEPING
  LoadMod,      \* modulus of a CPU_LOAD counter (2^32 in the code)
  Affinities,   \* values SYS_THREAD_SET_AFFINITY is called with
  StopWhat,     \* what SYS_THREAD_STOP is used on: see Standing
  DeleteWhat,   \* whose last capability is deleted: see Standing, or "Self"
  PriorityWhat, \* what SYS_THREAD_SET_PRIORITY is used on, likewise
  Settled,      \* TRUE: the thread calls meet a thread at rest, not one being woken
  SieStays      \* TRUE: the idle loop runs with interrupts on (RISC-V)

Cpus == 0..(NumCpus - 1)
AFFINITY_ANY == NumCpus  \* any number that is no CPU
NoTcb == <<"none">>
Idle(c) == <<"idle", c>>
Tcbs == Threads \union {Idle(c) : c \in Cpus}
Levels == Priorities \union {0}
NUM_PRIORITY_LEVELS == 32

ASSUME SchedulerAssumption ==
  /\ NumCpus \in Nat \ {0} /\ MaxSleeping \in Nat /\ LoadMod \in Nat \ {0}
  /\ Priorities \subseteq 1..(NUM_PRIORITY_LEVELS - 1)
  /\ Threads \intersect ({NoTcb} \union {Idle(c) : c \in Cpus}) = {}
  /\ Affinities \subseteq Cpus \union {AFFINITY_ANY}
  /\ Settled \in BOOLEAN /\ SieStays \in BOOLEAN

VARIABLES
  sched,          \* per CPU: run queues, non_empty bitmap, load counter
  current,        \* per CPU: the TCB the scheduler says is running
  stack,          \* per CPU: the TCB whose kernel stack it executes on
  pc,             \* per CPU: where it is
  after,          \* per CPU: where it goes when its wakeups are delivered
  wakes,          \* per CPU: threads it made Ready and must still enqueue
  locked,         \* per CPU: how many scheduler locks a deletion holds here
  victim,         \* per CPU: the thread it is deleting
  setting,        \* per CPU: the priority change it is in the middle of
  idle_mask, ipi, \* CPUs marked idle, CPUs with a wakeup IPI pending
  reschedule_pending,
  state, priority, cpu_affinity, preferred_cpu, context_saved,
  waiting,        \* threads registered as waiters in some IPC object
  sleep_list,
  freed           \* threads whose TCB and kernel stack were freed

cpuVars == <<current, stack, pc, after, wakes, locked, victim, setting>>
threadVars == <<state, priority, cpu_affinity, preferred_cpu, context_saved>>
idleVars == <<idle_mask, ipi, reschedule_pending>>
vars == <<sched, cpuVars, idleVars, threadVars, waiting, sleep_list, freed>>

Wakeup == [tcb : Threads, cpu : Cpus, prio : Priorities]
PcValues == {"run", "block", "resched", "spin", "switch", "enqueue", "ipi",
             "marked", "halt", "awake", "lockall", "reap", "priority", "relink"}

\* The type of every variable.
TypeOK ==
  /\ sched \in [Cpus -> [queues : [Levels -> Seq(Tcbs)],
                         non_empty : SUBSET Levels, load : 0..(LoadMod - 1)]]
  /\ current \in [Cpus -> Tcbs] /\ stack \in [Cpus -> Tcbs]
  /\ pc \in [Cpus -> PcValues] /\ after \in [Cpus -> PcValues]
  /\ wakes \in [Cpus -> Seq(Wakeup)]
  /\ locked \in [Cpus -> 0..NumCpus] /\ victim \in [Cpus -> [tcb : Threads \union {NoTcb}, on : Cpus]]
  /\ setting \in [Cpus -> [tcb : Threads \union {NoTcb}, old : Levels, new : Levels, on : Cpus,
                           seen : [queues : [Levels -> Seq(Tcbs)],
                                   non_empty : SUBSET Levels, load : 0..(LoadMod - 1)]]]
  /\ idle_mask \subseteq Cpus /\ ipi \subseteq Cpus /\ reschedule_pending \subseteq Cpus
  /\ state \in [Tcbs -> {"Created", "Ready", "Running", "Blocked", "Stopped", "Exited"}]
  /\ priority \in [Tcbs -> Levels]
  /\ cpu_affinity \in [Tcbs -> Cpus \union {AFFINITY_ANY}] /\ preferred_cpu \in [Tcbs -> Cpus]
  /\ context_saved \in [Tcbs -> BOOLEAN]
  /\ waiting \subseteq Threads /\ sleep_list \subseteq Threads /\ freed \subseteq Threads

-----------------------------------------------------------------------------
(* Run queues of one CPU.                                                  *)

EmptyScheduler == [queues |-> [p \in Levels |-> <<>>], non_empty |-> {}, load |-> 0]
Setting(c, t, old, new) ==
  [tcb |-> t, old |-> old, new |-> new, on |-> c, seen |-> EmptyScheduler]
NoSetting(c) == Setting(c, NoTcb, 0, 0)
QueuedOn(c) == UNION {Range(sched[c].queues[p]) : p \in Levels}
QueueLength(s) == Cardinality(UNION {{p} \X DOMAIN s.queues[p] : p \in Levels})

enqueue(s, t, p) ==
  [s EXCEPT !.queues[p] = Append(@, t), !.non_empty = @ \union {p},
            !.load = (@ + 1) % LoadMod]

\* The queue without its first entry for t, if it has one.
Unlinked(q, t) ==
  LET found == {i \in DOMAIN q : q[i] = t} IN
  IF found = {} THEN q
  ELSE SubSeq(q, 1, Min(found) - 1) \o SubSeq(q, Min(found) + 1, Len(q))

\* Takes t out of level p; the load counter is left alone.
remove_from_queue(s, t, p) ==
  LET q == Unlinked(s.queues[p], t) IN
  [s EXCEPT !.queues[p] = q,
            !.non_empty = IF q = <<>> /\ s.queues[p] # <<>> THEN @ \ {p} ELSE @]

change_priority(s, t, old, new) ==
  IF old = new THEN s
  ELSE [remove_from_queue(s, t, old) EXCEPT !.queues[new] = Append(@, t),
                                            !.non_empty = @ \union {new}]

\* The level and position schedule() stops at when it dequeues from s, highest
\* level first, until it meets the idle thread or one not Stopped or Exited.
Runs(st, t) == t \notin Threads \/ st[t] \notin {"Stopped", "Exited"}
RunnableLevels(s, st) ==
  {p \in s.non_empty : \E i \in DOMAIN s.queues[p] : Runs(st, s.queues[p][i])}
PickLevel(s, st) ==
  IF RunnableLevels(s, st) = {} THEN -1 ELSE Max(RunnableLevels(s, st))
PickIndex(s, st) ==
  LET q == s.queues[PickLevel(s, st)] IN
  Min({i \in DOMAIN q : Runs(st, q[i])})

dequeue_highest(s, st, idle) ==
  IF PickLevel(s, st) = -1 THEN idle
  ELSE s.queues[PickLevel(s, st)][PickIndex(s, st)]

\* The run queues after those dequeues.
Dequeued(s, st) ==
  LET p == PickLevel(s, st)
      left == [l \in Levels |->
                 CASE l \notin s.non_empty \/ l < p -> s.queues[l]
                   [] l = p -> SubSeq(s.queues[l], PickIndex(s, st) + 1, Len(s.queues[l]))
                   [] OTHER -> <<>>]
      gone == QueueLength(s) - QueueLength([s EXCEPT !.queues = left])
  IN [queues |-> left,
      non_empty |-> {l \in s.non_empty : l < p \/ left[l] # <<>>},
      load |-> (s.load - gone) % LoadMod]

-----------------------------------------------------------------------------
(* Locks and places.                                                       *)

\* Who holds the scheduler lock of CPU k across steps.
Holds(c, k) == (pc[c] = "spin" /\ c = k) \/ k < locked[c]
LockFree(k) == \A c \in Cpus : ~Holds(c, k)

InUser(c) == pc[c] = "run" /\ stack[c] \in Threads
InterruptsOn(c) == pc[c] \in {"run", "halt"} \/ (SieStays /\ pc[c] = "marked")

\* What a thread is doing, for the choice of what to stop.
Standing(t) ==
  CASE state[t] = "Blocked" /\ t \in sleep_list -> "Asleep"
    [] state[t] = "Blocked" /\ t \notin sleep_list -> "Waiting"
    [] OTHER -> state[t]

\* No CPU is about to enqueue t or is changing its priority, and no run queue
\* holds it.
InFlight(t) == \E c \in Cpus : \E i \in DOMAIN wakes[c] : wakes[c][i].tcb = t
AtRest(t) == ~InFlight(t) /\ \A c \in Cpus : t \notin QueuedOn(c) /\ setting[c].tcb # t

\* No capability is left for t, so no thread call can name it.
Deleted(t) == t \in freed \/ \E c \in Cpus : victim[c].tcb = t

select_target_cpu(t) ==
  IF cpu_affinity[t] # AFFINITY_ANY THEN cpu_affinity[t]
  ELSE Min({c \in Cpus : \A d \in Cpus : sched[c].load <= sched[d].load})

-----------------------------------------------------------------------------
\* After boot: the first thread runs on CPU 0, the others are created, and
\* every other CPU is in its idle loop.
Init ==
  \E boot \in Threads :
    /\ sched = [c \in Cpus |-> EmptyScheduler]
    /\ current = [c \in Cpus |-> IF c = 0 THEN boot ELSE Idle(c)]
    /\ stack = current
    /\ pc = [c \in Cpus |-> "run"] /\ after = [c \in Cpus |-> "run"]
    /\ wakes = [c \in Cpus |-> <<>>]
    /\ locked = [c \in Cpus |-> 0] /\ victim = [c \in Cpus |-> [tcb |-> NoTcb, on |-> c]]
    /\ setting = [c \in Cpus |-> NoSetting(c)]
    /\ idle_mask = {} /\ ipi = {} /\ reschedule_pending = {}
    /\ state = [t \in Tcbs |-> IF t \in Threads \ {boot} THEN "Created" ELSE "Running"]
    /\ priority \in [Tcbs -> Levels]
    /\ \A t \in Tcbs : (priority[t] = 0) <=> (t \notin Threads)
    /\ cpu_affinity = [t \in Tcbs |-> IF t \in Threads THEN AFFINITY_ANY ELSE t[2]]
    /\ preferred_cpu = [t \in Tcbs |-> IF t \in Threads THEN 0 ELSE t[2]]
    /\ context_saved = [t \in Tcbs |-> TRUE]
    /\ waiting = {} /\ sleep_list = {} /\ freed = {}

-----------------------------------------------------------------------------
(* schedule().                                                             *)

Goto(c, p) == pc' = [pc EXCEPT ![c] = p]
callVars == <<locked, victim, setting, freed>>
wakeVars == <<after, wakes, idleVars>>

\* Under the lock: requeue the current thread if asked to and it still may run,
\* pick the next one, and unless it is the same make it current.
Pick(c) ==
  /\ pc[c] \in {"resched", "block"} /\ LockFree(c)
  /\ LET cur == current[c]
         requeue == pc[c] = "resched" /\ state[cur] \notin {"Exited", "Stopped"}
         st == IF requeue THEN [state EXCEPT ![cur] = "Ready"] ELSE state
         s == IF requeue THEN enqueue(sched[c], cur, priority[cur]) ELSE sched[c]
         next == dequeue_highest(s, st, Idle(c))
     IN /\ sched' = [sched EXCEPT ![c] = Dequeued(s, st)]
        /\ state' = [st EXCEPT ![next] = "Running"]
        /\ \/ next = cur /\ Goto(c, "run") /\ UNCHANGED <<current, preferred_cpu, context_saved>>
           \/ /\ next # cur
              /\ current' = [current EXCEPT ![c] = next]
              /\ preferred_cpu' = [preferred_cpu EXCEPT ![next] = c]
              /\ context_saved' = [context_saved EXCEPT ![cur] = FALSE]
              /\ Goto(c, IF next = Idle(c) THEN "switch" ELSE "spin")
  /\ UNCHANGED <<stack, wakeVars, callVars, priority, cpu_affinity, waiting, sleep_list>>

\* The registers of the next thread are saved: release the lock.
Spin(c) ==
  /\ pc[c] = "spin" /\ context_saved[current[c]]
  /\ Goto(c, "switch")
  /\ UNCHANGED <<sched, current, stack, wakeVars, callVars, threadVars, waiting, sleep_list>>

\* Mutant: the registers are said to be saved of the thread switched to.
SwitchSavesNew(c) ==
  /\ pc[c] = "switch"
  /\ context_saved' = [context_saved EXCEPT ![current[c]] = TRUE]
  /\ stack' = [stack EXCEPT ![c] = current[c]]
  /\ Goto(c, "run")
  /\ UNCHANGED <<sched, current, wakeVars, callVars, state, priority, cpu_affinity,
                 preferred_cpu, waiting, sleep_list>>

\* switch(): save the registers of the old thread, continue on the new stack.
Switch(c) ==
  /\ pc[c] = "switch"
  /\ context_saved' = [context_saved EXCEPT ![stack[c]] = TRUE]
  /\ stack' = [stack EXCEPT ![c] = current[c]]
  /\ Goto(c, "run")
  /\ UNCHANGED <<sched, current, wakeVars, callVars, state, priority, cpu_affinity,
                 preferred_cpu, waiting, sleep_list>>

\* SYS_THREAD_YIELD, or a timer tick that ends the time slice.
Preempt(c) ==
  /\ InUser(c) /\ Goto(c, "resched")
  /\ UNCHANGED <<sched, current, stack, wakeVars, callVars, threadVars, waiting, sleep_list>>

-----------------------------------------------------------------------------
(* Blocking and waking.                                                    *)

\* Mutant: context_saved keeps the value of the last switch.
BlockStale(c) ==
  LET t == stack[c] IN
  /\ InUser(c)
  /\ state' = [state EXCEPT ![t] = "Blocked"]
  /\ waiting' = waiting \union {t}
  /\ Goto(c, "block")
  /\ UNCHANGED <<sched, current, stack, wakeVars, callVars, priority, cpu_affinity,
                 preferred_cpu, context_saved, sleep_list>>

\* A system call that blocks in IPC: the thread is registered under the lock
\* of the IPC object and then calls schedule(false).
Block(c) ==
  LET t == stack[c] IN
  /\ InUser(c)
  /\ state' = [state EXCEPT ![t] = "Blocked"]
  /\ context_saved' = [context_saved EXCEPT ![t] = FALSE]
  /\ waiting' = waiting \union {t}
  /\ Goto(c, "block")
  /\ UNCHANGED <<sched, current, stack, wakeVars, callVars, priority, cpu_affinity,
                 preferred_cpu, sleep_list>>

\* The threads in s become Ready and CPU c is to enqueue them, each on the CPU
\* target[t]; then it continues at `then`.
MakeReady(c, s, target, then) ==
  /\ state' = [t \in Tcbs |-> IF t \in Range(s) THEN "Ready" ELSE state[t]]
  /\ wakes' = [wakes EXCEPT ![c] =
       [i \in DOMAIN s |-> [tcb |-> s[i], cpu |-> target[s[i]], prio |-> priority[s[i]]]]]
  /\ after' = [after EXCEPT ![c] = then]
  /\ Goto(c, "enqueue")

\* Where the idle loop or a thread goes on after an interrupt.  One that comes
\* before the halt instruction and with interrupts on does not end the halt.
Resumptions(c) ==
  {IF pc[c] = "halt" THEN "awake" ELSE pc[c]} \union (IF SieStays THEN {pc[c]} ELSE {})

\* A system call or device interrupt wakes an IPC waiter.
Wake(c, t) ==
  /\ InterruptsOn(c) /\ t \in waiting
  /\ \E then \in Resumptions(c) :
       MakeReady(c, <<t>>, [u \in {t} |-> select_target_cpu(u)], then)
  /\ waiting' = waiting \ {t}
  /\ UNCHANGED <<sched, current, stack, idleVars, callVars, priority, cpu_affinity,
                 preferred_cpu, context_saved, sleep_list>>

\* Mutant: preferred_cpu is not brought up to date.
EnqueueElsewhere(c) ==
  LET w == Head(wakes[c]) IN
  /\ pc[c] = "enqueue" /\ LockFree(w.cpu)
  /\ sched' = [sched EXCEPT ![w.cpu] = enqueue(@, w.tcb, w.prio)]
  /\ Goto(c, "ipi")
  /\ UNCHANGED <<current, stack, wakeVars, callVars, threadVars, waiting, sleep_list>>

\* enqueue_and_wake: the critical section.
enqueue_and_wake(c) ==
  LET w == Head(wakes[c]) IN
  /\ pc[c] = "enqueue" /\ LockFree(w.cpu)
  /\ sched' = [sched EXCEPT ![w.cpu] = enqueue(@, w.tcb, w.prio)]
  /\ preferred_cpu' = [preferred_cpu EXCEPT ![w.tcb] = w.cpu]
  /\ Goto(c, "ipi")
  /\ UNCHANGED <<current, stack, wakeVars, callVars, state, priority, cpu_affinity,
                 context_saved, waiting, sleep_list>>

\* enqueue_and_wake: an IPI unless the target is this CPU or not marked idle.
wake_idle_cpu(c) ==
  LET w == Head(wakes[c]) IN
  /\ pc[c] = "ipi"
  /\ ipi' = IF w.cpu # c /\ w.cpu \in idle_mask THEN ipi \union {w.cpu} ELSE ipi
  /\ wakes' = [wakes EXCEPT ![c] = Tail(@)]
  /\ \/ Len(wakes[c]) = 1 /\ Goto(c, after[c]) /\ after' = [after EXCEPT ![c] = "run"]
     \/ Len(wakes[c]) > 1 /\ Goto(c, "enqueue") /\ UNCHANGED after
  /\ UNCHANGED <<sched, current, stack, idle_mask, reschedule_pending, callVars, threadVars,
                 waiting, sleep_list>>

\* SYS_THREAD_SLEEP: on the sleep list if there is room, then schedule(false).
Sleep(c) ==
  LET t == stack[c] IN
  /\ InUser(c)
  /\ state' = [state EXCEPT ![t] = "Blocked"]
  /\ sleep_list' = IF Cardinality(sleep_list) < MaxSleeping THEN sleep_list \union {t} ELSE sleep_list
  /\ Goto(c, "block")
  /\ UNCHANGED <<sched, current, stack, wakeVars, callVars, priority, cpu_affinity,
                 preferred_cpu, context_saved, waiting>>

\* The timer tick of the boot CPU finds expired sleepers, in the order of the
\* sleep list.
Orders(S) == {s \in [1..Cardinality(S) -> S] : IsInjective(s)}

sleep_check_wakeups ==
  /\ InterruptsOn(0)
  /\ \E expired \in (SUBSET sleep_list) \ {{}} :
     \E s \in Orders(expired), then \in Resumptions(0) :
       /\ MakeReady(0, s, preferred_cpu, then)
       /\ sleep_list' = sleep_list \ expired
  /\ UNCHANGED <<sched, current, stack, idleVars, callVars, priority, cpu_affinity,
                 preferred_cpu, context_saved, waiting>>

-----------------------------------------------------------------------------
(* The idle loop.                                                          *)

idleOnly == <<sched, current, stack, after, wakes, callVars, threadVars, waiting, sleep_list>>

\* Mutant: the CPU is not marked idle.
IdleNoMark(c) ==
  /\ pc[c] = "run" /\ stack[c] = Idle(c)
  /\ Goto(c, "marked")
  /\ UNCHANGED <<idleVars, idleOnly>>

\* mark_idle comes before the look at the run queue; on x86-64 interrupts are
\* off from here to the halt.
IdleMark(c) ==
  /\ pc[c] = "run" /\ stack[c] = Idle(c)
  /\ idle_mask' = idle_mask \union {c} /\ Goto(c, "marked")
  /\ UNCHANGED <<ipi, reschedule_pending, idleOnly>>

IdleCheck(c) ==
  /\ pc[c] = "marked"
  /\ \/ sched[c].non_empty # {} /\ idle_mask' = idle_mask \ {c} /\ Goto(c, "resched")
     \/ /\ sched[c].non_empty = {} /\ c \notin reschedule_pending
        /\ Goto(c, "halt") /\ UNCHANGED idle_mask
  /\ UNCHANGED <<ipi, reschedule_pending, idleOnly>>

\* take_reschedule_pending: a wakeup IPI came before the look (RISC-V).
IdlePending(c) ==
  /\ pc[c] = "marked" /\ sched[c].non_empty = {} /\ c \in reschedule_pending
  /\ reschedule_pending' = reschedule_pending \ {c}
  /\ idle_mask' = idle_mask \ {c} /\ Goto(c, "run")
  /\ UNCHANGED <<ipi, idleOnly>>

\* A wakeup IPI is taken; it ends a halt and, on RISC-V, is remembered.
TakeIpi(c) ==
  /\ InterruptsOn(c) /\ c \in ipi
  /\ ipi' = ipi \ {c}
  /\ reschedule_pending' = IF SieStays THEN reschedule_pending \union {c} ELSE reschedule_pending
  /\ \E then \in Resumptions(c) : Goto(c, then)
  /\ UNCHANGED <<idle_mask, idleOnly>>

\* A timer tick ends a halt.
TickHalted(c) ==
  /\ pc[c] = "halt" /\ Goto(c, "awake")
  /\ UNCHANGED <<idleVars, idleOnly>>

IdleAwake(c) ==
  /\ pc[c] = "awake" /\ idle_mask' = idle_mask \ {c} /\ Goto(c, "run")
  /\ UNCHANGED <<ipi, reschedule_pending, idleOnly>>

-----------------------------------------------------------------------------
(* Thread system calls.                                                    *)

OffCpu(t) == \A c \in Cpus : stack[c] # t

\* SYS_THREAD_START on a created or stopped thread.
Start(c, t) ==
  /\ InUser(c) /\ state[t] \in {"Created", "Stopped"} /\ ~Deleted(t)
  /\ Settled => AtRest(t) /\ OffCpu(t)
  /\ MakeReady(c, <<t>>, [u \in {t} |-> select_target_cpu(u)], "run")
  /\ UNCHANGED <<sched, current, stack, idleVars, callVars, priority, cpu_affinity,
                 preferred_cpu, context_saved, waiting, sleep_list>>

\* SYS_THREAD_STOP on another thread: unlinked from the IPC object it waits on,
\* left in a run queue or in the sleep list.
Stop(c, t) ==
  /\ InUser(c) /\ t # stack[c] /\ Standing(t) \in StopWhat /\ ~Deleted(t)
  /\ state' = [state EXCEPT ![t] = "Stopped"]
  /\ waiting' = waiting \ {t}
  /\ UNCHANGED <<sched, cpuVars, idleVars, freed, priority, cpu_affinity,
                 preferred_cpu, context_saved, sleep_list>>

\* SYS_THREAD_STOP on the caller itself.
StopSelf(c) ==
  /\ InUser(c)
  /\ state' = [state EXCEPT ![stack[c]] = "Stopped"]
  /\ Goto(c, "block")
  /\ UNCHANGED <<sched, current, stack, wakeVars, callVars, priority, cpu_affinity,
                 preferred_cpu, context_saved, waiting, sleep_list>>

\* SYS_THREAD_EXIT.  A receiver that waits on the bound event queue is woken
\* and goes to this CPU; then schedule(false).
Exit(c) ==
  LET gone == [state EXCEPT ![stack[c]] = "Exited"] IN
  /\ InUser(c)
  /\ \/ /\ state' = gone
        /\ Goto(c, "block")
        /\ UNCHANGED <<after, wakes, waiting>>
     \/ \E w \in waiting :
        /\ state' = [gone EXCEPT ![w] = "Ready"]
        /\ wakes' = [wakes EXCEPT ![c] = <<[tcb |-> w, cpu |-> c, prio |-> priority[w]]>>]
        /\ after' = [after EXCEPT ![c] = "block"]
        /\ waiting' = waiting \ {w}
        /\ Goto(c, "enqueue")
  /\ UNCHANGED <<sched, current, stack, idleVars, callVars, priority, cpu_affinity,
                 preferred_cpu, context_saved, sleep_list>>

\* SYS_THREAD_SET_PRIORITY takes no lock: the priority is written first.
SetPriority(c, t, p) ==
  /\ InUser(c) /\ ~Deleted(t)
  /\ (IF t = stack[c] THEN "Self" ELSE Standing(t)) \in PriorityWhat
  /\ Settled => AtRest(t) \/ state[t] = "Ready"
  /\ priority' = [priority EXCEPT ![t] = p]
  /\ setting' = [setting EXCEPT ![c] = Setting(c, t, priority[t], p)]
  /\ Goto(c, "priority")
  /\ UNCHANGED <<sched, current, stack, wakeVars, locked, victim, freed, state, cpu_affinity,
                 preferred_cpu, context_saved, waiting, sleep_list>>

\* Then comes the look at the state; a thread that is not Ready is left alone.
SetPriorityDone(c) ==
  /\ pc[c] = "priority" /\ state[setting[c].tcb] # "Ready"
  /\ setting' = [setting EXCEPT ![c] = NoSetting(c)]
  /\ Goto(c, "run")
  /\ UNCHANGED <<sched, current, stack, wakeVars, locked, victim, freed, threadVars,
                 waiting, sleep_list>>

\* A Ready thread changes queues on its preferred CPU, whose lock is not taken:
\* change_priority works on what it read, and what others did meanwhile is lost.
ReadQueue(c) ==
  LET on == preferred_cpu[setting[c].tcb] IN
  /\ pc[c] = "priority" /\ state[setting[c].tcb] = "Ready"
  /\ setting' = [setting EXCEPT ![c].on = on, ![c].seen = sched[on]]
  /\ Goto(c, "relink")
  /\ UNCHANGED <<sched, current, stack, wakeVars, locked, victim, freed, threadVars,
                 waiting, sleep_list>>

WriteQueue(c) ==
  LET s == setting[c] IN
  /\ pc[c] = "relink"
  /\ sched' = [sched EXCEPT ![s.on] =
                 [change_priority(s.seen, s.tcb, s.old, s.new) EXCEPT !.load = sched[s.on].load]]
  /\ setting' = [setting EXCEPT ![c] = NoSetting(c)]
  /\ Goto(c, "run")
  /\ UNCHANGED <<current, stack, wakeVars, locked, victim, freed, threadVars,
                 waiting, sleep_list>>

\* SYS_THREAD_SET_AFFINITY.
SetAffinity(c, t, a) ==
  /\ InUser(c) /\ ~Deleted(t)
  /\ Settled => ~InFlight(t) /\ state[t] # "Exited"
  /\ cpu_affinity' = [cpu_affinity EXCEPT ![t] = a]
  /\ UNCHANGED <<sched, cpuVars, idleVars, freed, state, priority, preferred_cpu,
                 context_saved, waiting, sleep_list>>

-----------------------------------------------------------------------------
(* Deletion of a thread: dealloc_object when its last capability goes.     *)

\* The memory of the TCB goes back to the heap: nothing of it is remembered.
FreeTcb(t) ==
  /\ freed' = freed \union {t} /\ waiting' = waiting \ {t}
  /\ priority' = [priority EXCEPT ![t] = Min(Priorities)]
  /\ cpu_affinity' = [cpu_affinity EXCEPT ![t] = AFFINITY_ANY]
  /\ preferred_cpu' = [preferred_cpu EXCEPT ![t] = 0]

\* Deletions are taken one at a time.
Delete(c, t) ==
  /\ InUser(c) /\ t \notin freed /\ \A d \in Cpus : victim[d].tcb = NoTcb
  /\ (IF t = stack[c] THEN "Self" ELSE Standing(t)) \in DeleteWhat
  /\ Settled => AtRest(t)
  /\ victim' = [victim EXCEPT ![c] = [tcb |-> t, on |-> c]]
  /\ Goto(c, "lockall")
  /\ UNCHANGED <<sched, current, stack, wakeVars, locked, setting, freed, threadVars,
                 waiting, sleep_list>>

\* Every scheduler lock, in ascending order.
LockNext(c) ==
  /\ pc[c] = "lockall" /\ locked[c] < NumCpus /\ LockFree(locked[c])
  /\ locked' = [locked EXCEPT ![c] = @ + 1]
  /\ UNCHANGED <<sched, current, stack, pc, wakeVars, victim, setting, freed, threadVars,
                 waiting, sleep_list>>

\* With all locks: Exited, out of the run queues, and where does it run?
MarkExited(c) ==
  LET t == victim[c].tcb
      running_on == {k \in Cpus : current[k] = t}
  IN
  /\ pc[c] = "lockall" /\ locked[c] = NumCpus
  /\ state' = [state EXCEPT ![t] = "Exited"]
  /\ sched' = [k \in Cpus |-> remove_from_queue(sched[k], t, priority[t])]
  /\ locked' = [locked EXCEPT ![c] = 0]
  /\ \/ /\ running_on # {}
        /\ victim' = [victim EXCEPT ![c].on = Min(running_on)]
        /\ Goto(c, "reap")
        /\ UNCHANGED <<freed, waiting, priority, cpu_affinity, preferred_cpu>>
     \/ /\ running_on = {}
        /\ victim' = [victim EXCEPT ![c].tcb = NoTcb]
        /\ FreeTcb(t)
        /\ Goto(c, "run")
  /\ UNCHANGED <<current, stack, wakeVars, setting, context_saved, sleep_list>>

\* The CPU it ran on has another current thread: unlink and free.
Reap(c) ==
  LET v == victim[c] IN
  /\ pc[c] = "reap" /\ LockFree(v.on) /\ current[v.on] # v.tcb
  /\ FreeTcb(v.tcb)
  /\ victim' = [victim EXCEPT ![c].tcb = NoTcb]
  /\ Goto(c, "run")
  /\ UNCHANGED <<sched, current, stack, wakeVars, locked, setting, state, context_saved,
                 sleep_list>>

-----------------------------------------------------------------------------
CpuStep(c) ==
  \/ Pick(c) \/ Spin(c) \/ Switch(c) \/ enqueue_and_wake(c) \/ wake_idle_cpu(c)
  \/ IdleMark(c) \/ IdleCheck(c) \/ TakeIpi(c) \/ IdleAwake(c)

Next ==
  \/ sleep_check_wakeups
  \/ \E c \in Cpus :
       \/ CpuStep(c) \/ TickHalted(c)
       \/ Preempt(c) \/ Block(c) \/ Sleep(c) \/ StopSelf(c) \/ Exit(c)
       \/ SetPriorityDone(c) \/ LockNext(c) \/ MarkExited(c) \/ Reap(c)
       \/ \E t \in Threads :
            \/ Wake(c, t) \/ Start(c, t) \/ Stop(c, t) \/ Delete(c, t)
            \/ \E p \in Priorities : SetPriority(c, t, p)
            \/ \E a \in Affinities : SetAffinity(c, t, a)

Spec == Init /\ [][Next]_vars

\* With the change of a Ready thread's priority and the idle loop of RISC-V.
AllNext == Next \/ \E c \in Cpus : ReadQueue(c) \/ WriteQueue(c) \/ IdlePending(c)
AllSpec == Init /\ [][AllNext]_vars

\* Each CPU executes its code; the ticket lock admits whoever waits for it; a
\* device interrupt is masked until its driver has run, so interrupts leave the
\* idle loop time; the timer ends every time slice.  No tick ends a halt here.
Fairness ==
  \A c \in Cpus :
    /\ WF_vars(\/ Pick(c) \/ Spin(c) \/ Switch(c) \/ wake_idle_cpu(c)
               \/ IdleCheck(c) \/ IdleAwake(c) \/ (pc[c] = "halt" /\ TakeIpi(c)))
    /\ SF_vars(enqueue_and_wake(c))
    /\ SF_vars(Preempt(c) \/ IdleMark(c))

\* The steps that decide when a thread gets a CPU, without the thread system
\* calls that only add or take away threads.
RunNext ==
  \E c \in Cpus :
    \/ CpuStep(c) \/ Preempt(c) \/ Block(c)
    \/ \E t \in Threads : Wake(c, t) \/ Start(c, t)
FairSpec == Init /\ [][RunNext]_vars /\ Fairness

-----------------------------------------------------------------------------
(* Properties.                                                             *)

\* No two CPUs execute on one kernel stack: whatever order a thread blocks, is
\* woken, enqueued and picked in on several CPUs, schedule() waits for
\* context_saved before it continues a thread elsewhere.
OneStack == \A c, d \in Cpus : stack[c] = stack[d] => c = d

\* run_queue_next is one link: a TCB is in at most one place of a run queue,
\* and by QueuedWhereSought in at most one run queue.
QueuedOnce == \A c \in Cpus, p \in Levels : IsInjective(sched[c].queues[p])

\* The bitmap dequeue_highest trusts agrees with the queues, so its expect()
\* holds, and CPU_LOAD, which select_target_cpu trusts, counts the queued TCBs
\* (not the running one, whatever the comment on CPU_LOAD says).
BitmapAndLoad ==
  \A c \in Cpus :
    /\ sched[c].non_empty = {p \in Levels : sched[c].queues[p] # <<>>}
    /\ sched[c].load = QueueLength(sched[c]) % LoadMod

\* A queued thread is in the queue of its priority on its preferred CPU, where
\* set_priority and the deletion of the thread look for it.
QueuedWhereSought ==
  \A c \in Cpus, p \in Levels : \A t \in Range(sched[c].queues[p]) :
    preferred_cpu[t] = c /\ priority[t] = p

\* A Ready thread is in a run queue or some CPU is about to put it there: the
\* wakeups of IPC, sleep, start and exit lose nobody.
ReadyNotLost ==
  \A t \in Threads : state[t] = "Ready" =>
    InFlight(t) \/ \E c \in Cpus : t \in QueuedOn(c)

\* The run queues through enqueue, dequeue_highest and remove_from_queue: single links, bitmap, load, level and CPU agree, and
\* no Ready thread is missing.
QueuesInv == TypeOK /\ QueuedOnce /\ BitmapAndLoad /\ QueuedWhereSought /\ ReadyNotLost

\* A CPU that has halted with a thread in its run queue has a wakeup IPI pending
\* or a CPU about to send one: the order of mark_idle and the look at the queue
\* against enqueue and is_idle, without help from the timer.
NoMissedWakeup ==
  \A c \in Cpus : pc[c] = "halt" /\ sched[c].non_empty # {} =>
    \/ c \in ipi
    \/ \E d \in Cpus \ {c} : pc[d] = "ipi" /\ Head(wakes[d]).cpu = c

\* CPU d will leave the stack it executes on at its next switch.
GivenUp(d) ==
  \/ pc[d] \in {"block", "spin", "switch"}
  \/ pc[d] \in {"enqueue", "ipi"} /\ after[d] = "block"

\* A CPU that waits for context_saved, under its scheduler lock, waits for
\* another CPU that is on its way out of that thread and will save its registers:
\* never for a thread nobody is saving.
SpinAnswered ==
  \A c \in Cpus : pc[c] = "spin" /\ ~context_saved[current[c]] =>
    \E d \in Cpus \ {c} : stack[d] = current[c] /\ GivenUp(d)

\* CPU c cannot take its next step before d has taken one.
WaitsOn(c, d) ==
  \/ pc[c] = "spin" /\ ~context_saved[current[c]] /\ stack[d] = current[c]
  \/ pc[c] \in {"resched", "block"} /\ Holds(d, c)
  \/ pc[c] = "enqueue" /\ Holds(d, Head(wakes[c]).cpu)
  \/ pc[c] = "lockall" /\ locked[c] < NumCpus /\ Holds(d, locked[c])
  \/ pc[c] = "reap" /\ current[victim[c].on] = victim[c].tcb /\ d = victim[c].on

\* No set of CPUs waits only on each other: the wait for context_saved, under a
\* scheduler lock, ends.
NoCircularWait ==
  ~ \E S \in (SUBSET Cpus) \ {{}} : \A c \in S : \E d \in S : WaitsOn(c, d)

\* Every thread in the sleep list is Blocked: the timer wakes sleepers only.
SleepersBlocked == \A t \in sleep_list : state[t] = "Blocked"

\* Every blocked thread has somebody to wake it: it waits in an IPC object or
\* is in the sleep list.
BlockedCanWake == \A t \in Threads : state[t] = "Blocked" => t \in waiting \union sleep_list

\* A wakeup puts a thread with hard affinity on the CPU it is bound to.
AffinityKept ==
  \A c \in Cpus : \A i \in DOMAIN wakes[c] :
    cpu_affinity[wakes[c][i].tcb] \in {AFFINITY_ANY, wakes[c][i].cpu}

\* No CPU executes on the kernel stack of a thread that was freed.
FreedNotOnStack == \A c \in Cpus : stack[c] \notin freed

\* No run queue holds a thread that was freed.
FreedNotQueued == \A c \in Cpus : QueuedOn(c) \intersect freed = {}

\* With one priority level, a Ready thread does not wait for ever: round robin
\* within the level, and wakeup IPIs for idle CPUs.
ReadyRuns == \A t \in Threads : state[t] = "Ready" ~> state[t] # "Ready"
=============================================================================
