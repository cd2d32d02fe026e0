------------------------- MODULE SchedulerInvariant -------------------------
(***************************************************************************)
(* The inductive invariant of Scheduler, for any number of CPUs, threads   *)
(* and levels, and the proof that every step of the scheduler keeps it.    *)
(* What the steps use of sequences and finite sets is the hypothesis       *)
(* Library: the last section proves the part on sequences (QueueLemma),    *)
(* module SchedulerProofs the part on finite sets and all of it.           *)
(***************************************************************************)
EXTENDS Scheduler, TLAPS

\* Zenon proves every leaf that does not name SMT.
USE Zenon

-----------------------------------------------------------------------------
(* One scheduler.                                                          *)

\* The values of a CPU's scheduler, and the places in its queues.
Scheds == [queues : [Levels -> Seq(Tcbs)], non_empty : SUBSET Levels, load : 0..(LoadMod - 1)]
Entries(s) == UNION {{p} \X DOMAIN s.queues[p] : p \in Levels}

\* No TCB twice in a level, and bitmap and load counter agree with the queues.
SchedOK(s) ==
  /\ s \in Scheds
  /\ \A p \in Levels : IsInjective(s.queues[p])
  /\ \A p \in Levels : p \in s.non_empty <=> s.queues[p] # <<>>
  /\ s.load = QueueLength(s) % LoadMod

-----------------------------------------------------------------------------
(* The inductive invariant.                                                *)

\* The thread calls meet threads at rest, as in the run.
SettledCalls ==
  /\ Settled /\ ~SieStays /\ PriorityWhat \subseteq {"Self", "Created", "Stopped"}
  /\ StopWhat \subseteq {"Ready", "Waiting"} /\ DeleteWhat \subseteq {"Stopped", "Exited"}

\* CPU c has given up its current thread and goes on to schedule(false).
Leaving(c) == pc[c] = "block" \/ (pc[c] \in {"enqueue", "ipi"} /\ after[c] = "block")

\* CPU c has picked another thread and is still on the stack of the old one.
Away(c) == pc[c] \in {"spin", "switch"}

\* The wakeups a CPU has still to enqueue: at "ipi" the first is in its queue.
Pending(c) == {i \in DOMAIN wakes[c] : pc[c] = "ipi" => i # 1}
Flying(t) == \E c \in Cpus : \E i \in Pending(c) : wakes[c][i].tcb = t
Queued(t) == \E c \in Cpus : t \in QueuedOn(c)

\* TypeOK without the run queues and the calls under way.
Types ==
  /\ current \in [Cpus -> Tcbs] /\ stack \in [Cpus -> Tcbs]
  /\ pc \in [Cpus -> PcValues] /\ after \in [Cpus -> PcValues]
  /\ wakes \in [Cpus -> Seq(Wakeup)]
  /\ locked \in [Cpus -> 0..NumCpus] /\ victim \in [Cpus -> [tcb : Threads \union {NoTcb}, on : Cpus]]
  /\ idle_mask \subseteq Cpus /\ ipi \subseteq Cpus
  /\ state \in [Tcbs -> {"Created", "Ready", "Running", "Blocked", "Stopped", "Exited"}]
  /\ priority \in [Tcbs -> Levels]
  /\ cpu_affinity \in [Tcbs -> Cpus \union {AFFINITY_ANY}] /\ preferred_cpu \in [Tcbs -> Cpus]
  /\ context_saved \in [Tcbs -> BOOLEAN]
  /\ waiting \subseteq Threads /\ sleep_list \subseteq Threads /\ freed \subseteq Threads

SchedsOK == sched \in [Cpus -> Scheds] /\ \A c \in Cpus : SchedOK(sched[c])

\* What a CPU is doing agrees with its current thread, stack and wakeups.
CpuOK(c) ==
  /\ current[c] \in Threads \union {Idle(c)} /\ stack[c] \in Threads \union {Idle(c)}
  /\ Away(c) <=> stack[c] # current[c]
  /\ pc[c] \in {"enqueue", "ipi"} <=> wakes[c] # <<>>
  /\ after[c] \in {"run", "block", "awake"}
  /\ ~Leaving(c) => state[current[c]] = "Running" /\ preferred_cpu[current[c]] = c
  /\ pc[c] \in {"marked", "halt"} => c \in idle_mask
  /\ pc[c] \in {"lockall", "reap"} <=> victim[c].tcb # NoTcb
CpusOK == \A c \in Cpus : CpuOK(c)

\* A thread is current on one CPU, not counting CPUs that have given it up.
Claimed ==
  \A c, d \in Cpus : ~Leaving(c) /\ ~Leaving(d) /\ current[c] = current[d] => c = d

\* Who waits or sleeps is Blocked, for one reason; who is deleted does not run.
ThreadsOK ==
  /\ \A t \in Threads : priority[t] \in Priorities
  /\ \A c \in Cpus : priority[Idle(c)] = 0 /\ preferred_cpu[Idle(c)] = c
  /\ \A t \in waiting \union sleep_list : state[t] = "Blocked"
  /\ waiting \intersect sleep_list = {} /\ IsFiniteSet(sleep_list)
  /\ \A c \in Cpus : victim[c].tcb # NoTcb => state[victim[c].tcb] \in {"Stopped", "Exited"}

\* A thread is in one place only: a run queue or one pending wakeup.
QueuedReady == \A t \in Tcbs : Queued(t) => state[t] \in {"Ready", "Stopped"}
ReadyAt(c, i) ==
  /\ state[wakes[c][i].tcb] \in {"Ready", "Stopped"}
  /\ wakes[c][i].prio = priority[wakes[c][i].tcb]
  /\ ~Queued(wakes[c][i].tcb)
PendingReady == \A c \in Cpus : \A i \in Pending(c) : ReadyAt(c, i)
Once(c, i, d, j) == wakes[c][i].tcb = wakes[d][j].tcb => c = d /\ i = j
PendingOnce == \A c, d \in Cpus : \A i \in Pending(c), j \in Pending(d) : Once(c, i, d, j)
ReadyPlaced == \A t \in Threads : state[t] = "Ready" => Queued(t) \/ Flying(t)
VictimsGone ==
  \A c \in Cpus : victim[c].tcb # NoTcb => ~Queued(victim[c].tcb) /\ ~Flying(victim[c].tcb)
PlacesOK == QueuedReady /\ PendingReady /\ PendingOnce /\ ReadyPlaced /\ VictimsGone

\* If context_saved of the thread whose stack a CPU is on is set, nothing can
\* make another CPU pick that thread.
OnlyHere(c) ==
  /\ \A d \in Cpus : current[d] = stack[c] \/ stack[c] \in QueuedOn(d) => d = c
  /\ stack[c] \notin waiting
  /\ stack[c] \in sleep_list => preferred_cpu[stack[c]] = c
  /\ \A d \in Cpus : \A i \in Pending(d) : wakes[d][i].tcb = stack[c] => wakes[d][i].cpu = c
StackOK(c) ==
  /\ Away(c) => ~context_saved[stack[c]]
  /\ pc[c] = "switch" => \A d \in Cpus \ {c} : stack[d] # current[c]
  /\ context_saved[stack[c]] => OnlyHere(c)
StacksOK == \A c \in Cpus : StackOK(c)

SInv ==
  /\ Types /\ SchedsOK /\ CpusOK /\ Claimed /\ QueuedWhereSought /\ ThreadsOK /\ PlacesOK
  /\ OneStack /\ StacksOK /\ NoMissedWakeup

-----------------------------------------------------------------------------
(* What the proofs take from the theorems about sequences and finite sets; *)
(* SchedulerProofs proves it (LibraryLemma).                               *)

\* A queue without its entry i.
Cut(q, i) == SubSeq(q, 1, i - 1) \o SubSeq(q, i + 1, Len(q))

\* A queue and its entries by index.
Indexed(q) ==
  /\ DOMAIN q = 1..Len(q) /\ Len(q) \in Nat
  /\ Range(q) = {q[i] : i \in 1..Len(q)} /\ Range(q) \subseteq Tcbs
  /\ q = <<>> <=> Range(q) = {}

QueueFacts ==
  /\ <<>> \in Seq(Tcbs) /\ IsInjective(<<>>) /\ Range(<<>>) = {}
  /\ \A q \in Seq(Tcbs) : Indexed(q)
  /\ \A q \in Seq(Tcbs) : \A x \in Tcbs : IsInjective(q) /\ x \notin Range(q) =>
       /\ Append(q, x) \in Seq(Tcbs) /\ IsInjective(Append(q, x)) /\ Append(q, x) # <<>>
       /\ Range(Append(q, x)) = Range(q) \union {x} /\ Len(Append(q, x)) = Len(q) + 1
  /\ \A q \in Seq(Tcbs) : \A i \in 1..Len(q) : IsInjective(q) =>
       /\ Cut(q, i) \in Seq(Tcbs) /\ IsInjective(Cut(q, i))
       /\ Range(Cut(q, i)) = Range(q) \ {q[i]} /\ Len(Cut(q, i)) = Len(q) - 1
  /\ \A q \in Seq(Tcbs) : \A i \in 1..Len(q) : IsInjective(q) =>
       /\ SubSeq(q, i + 1, Len(q)) \in Seq(Tcbs) /\ IsInjective(SubSeq(q, i + 1, Len(q)))
       /\ Range(SubSeq(q, i + 1, Len(q))) = {q[j] : j \in (i + 1)..Len(q)}

\* QueueLength counts, and one entry more counts one more.
CountFacts ==
  /\ \A s : s.queues \in [Levels -> Seq(Tcbs)] => QueueLength(s) \in Nat
  /\ \A s : s.queues = [p \in Levels |-> <<>>] => QueueLength(s) = 0
  /\ \A s, r : \A p \in Levels :
       /\ s.queues \in [Levels -> Seq(Tcbs)] /\ r.queues \in [Levels -> Seq(Tcbs)]
       /\ Len(r.queues[p]) = Len(s.queues[p]) + 1
       /\ \A l \in Levels \ {p} : Len(r.queues[l]) = Len(s.queues[l])
       => QueueLength(r) = QueueLength(s) + 1

\* Finite sets and least elements.
FiniteFacts ==
  /\ \A S, t : IsFiniteSet(S) => IsFiniteSet(S \union {t})
  /\ \A S : \A T \in SUBSET S : IsFiniteSet(S) => IsFiniteSet(T)
  /\ \A S : IsFiniteSet(S) /\ S # {} => Cardinality(S) \in Nat \ {0}
  /\ \A S \in SUBSET Nat : S # {} => Min(S) \in S /\ \A n \in S : Min(S) <= n

\* Everything the proofs take from there.
Library == QueueFacts /\ CountFacts /\ FiniteFacts /\ IsFiniteSet({})

-----------------------------------------------------------------------------
(* What the operations of a run queue do, for all arguments the steps give *)
(* them: proved below from Library (RunQueueLemma).                        *)

\* enqueue() of a TCB that is not in the level: r is s with t in level p.
Added(s, r, t, p) ==
  /\ SchedOK(r) /\ Range(r.queues[p]) = Range(s.queues[p]) \union {t}
  /\ \A l \in Levels \ {p} : Range(r.queues[l]) = Range(s.queues[l])

EnqueueFacts ==
  \A s \in Scheds, t \in Tcbs, p \in Levels :
    SchedOK(s) /\ t \notin Range(s.queues[p]) => Added(s, enqueue(s, t, p), t, p)

\* remove_from_queue() of a TCB that is not queued.
RemoveFacts ==
  \A s \in Scheds, t \in Tcbs, p \in Levels :
    SchedOK(s) /\ t \notin Range(s.queues[p]) => remove_from_queue(s, t, p) = s

\* change_priority() of a queued TCB: r is s with t moved to level new.
Moved(s, r, t, old, new) ==
  /\ SchedOK(r)
  /\ Range(r.queues[old]) = Range(s.queues[old]) \ {t} /\ Range(r.queues[new]) = Range(s.queues[new]) \union {t}
  /\ \A l \in Levels \ {old, new} : Range(r.queues[l]) = Range(s.queues[l])

ChangeFacts ==
  \A s \in Scheds, t \in Tcbs, old \in Levels, new \in Levels :
    SchedOK(s) /\ old # new /\ t \in Range(s.queues[old]) /\ t \notin Range(s.queues[new]) =>
      Moved(s, change_priority(s, t, old, new), t, old, new)

\* Looking for the next thread in the run queues s leaves r and finds n.
Taken(s, r, st, n, idle) ==
  /\ SchedOK(r)
  /\ \A l \in Levels : Range(r.queues[l]) \subseteq Range(s.queues[l])
  /\ \A l \in Levels : \A t \in Range(s.queues[l]) \ Range(r.queues[l]) : t = n \/ ~Runs(st, t)
  /\ \/ n = idle /\ \A l \in Levels : \A t \in Range(s.queues[l]) : ~Runs(st, t)
     \/ Runs(st, n) /\ \E l \in Levels : n \in Range(s.queues[l]) /\ n \notin Range(r.queues[l])
DequeueFacts ==
  \A s \in Scheds : \A st, idle :
    SchedOK(s) => Taken(s, Dequeued(s, st), st, dequeue_highest(s, st, idle), idle)

-----------------------------------------------------------------------------
(* What every step uses.                                                   *)

\* The priority changes under way and the reminders of RISC-V.
Settings == [tcb : Threads \union {NoTcb}, old : Levels, new : Levels, on : Cpus, seen : Scheds]
CallTypes == setting \in [Cpus -> Settings] /\ reschedule_pending \subseteq Cpus

\* TypeOK in three parts.
LEMMA TypeParts == TypeOK <=> (sched \in [Cpus -> Scheds] /\ Types /\ CallTypes)
BY DEF TypeOK, Types, CallTypes, Settings, Scheds

\* Threads, idle threads and NoTcb differ.
LEMMA TcbFacts ==
  /\ Threads \subseteq Tcbs /\ NoTcb \notin Tcbs /\ NoTcb \notin Threads
  /\ \A c \in Cpus : Idle(c) \in Tcbs /\ Idle(c) \notin Threads
  /\ \A c, d \in Cpus : Idle(c) = Idle(d) => c = d
  /\ Cpus \subseteq Nat /\ 0 \in Cpus
<1>1. \A c \in Cpus : Idle(c) \in Tcbs /\ Idle(c) \notin Threads
  BY SchedulerAssumption DEF Tcbs
<1>2. \A c, d \in Cpus : Idle(c) = Idle(d) => c = d
  BY DEF Idle
<1>3. Threads \subseteq Tcbs /\ NoTcb \notin Threads
  BY SchedulerAssumption DEF Tcbs
<1>4. Cpus \subseteq Nat /\ 0 \in Cpus
  BY SchedulerAssumption, SMT DEF Cpus
<1>5. NoTcb \notin Tcbs
  <2>1. \A c \in Cpus : NoTcb # Idle(c)
    BY DEF NoTcb, Idle
  <2>2. QED
    BY <1>3, <2>1 DEF Tcbs
<1>6. QED
  BY <1>1, <1>2, <1>3, <1>4, <1>5

\* What is in a run queue is a TCB.
LEMMA RangeInTcbs ==
  ASSUME SchedsOK, NEW c \in Cpus, NEW p \in Levels, NEW t \in Range(sched[c].queues[p])
  PROVE  t \in Tcbs
<1>1. sched[c].queues[p] \in Seq(Tcbs)
  BY DEF SchedsOK, Scheds
<1>2. QED
  BY <1>1, SMT DEF Range

\* Only TCBs are queued or about to be.
LEMMA PlacedInTcbs ==
  ASSUME SInv, NEW t, Queued(t) \/ Flying(t)
  PROVE  t \in Tcbs
<1>1. CASE Queued(t)
  <2>1. PICK c \in Cpus : t \in QueuedOn(c)
    BY <1>1 DEF Queued
  <2>2. PICK p \in Levels : t \in Range(sched[c].queues[p])
    BY <2>1 DEF QueuedOn
  <2>3. QED
    BY <2>2, RangeInTcbs DEF SInv
<1>2. CASE Flying(t)
  <2>1. PICK c \in Cpus : \E i \in DOMAIN wakes[c] : wakes[c][i].tcb = t
    BY <1>2 DEF Flying, Pending
  <2>2. wakes[c] \in Seq(Wakeup)
    BY DEF SInv, Types
  <2>3. PICK i \in DOMAIN wakes[c] : wakes[c][i].tcb = t /\ wakes[c][i] \in Wakeup
    BY <2>1, <2>2, SMT
  <2>4. QED
    BY <2>3, TcbFacts DEF Wakeup
<1>3. QED
  BY <1>1, <1>2

-----------------------------------------------------------------------------
(* When a step preserves a part of the invariant.                          *)

\* Where a CPU is, when it does not move.
LEMMA CpuStays ==
  ASSUME NEW d \in Cpus, pc'[d] = pc[d], after'[d] = after[d], wakes'[d] = wakes[d]
  PROVE  (Leaving(d)' <=> Leaving(d)) /\ (Away(d)' <=> Away(d)) /\ Pending(d)' = Pending(d)
BY DEF Leaving, Away, Pending

\* Its pending wakeups, when it moves without enqueueing.
LEMMA PendingStays ==
  ASSUME NEW d \in Cpus, pc[d] # "ipi", pc'[d] # "ipi", wakes'[d] = wakes[d]
  PROVE  Pending(d)' = Pending(d)
BY DEF Pending

\* Pending wakeups fly.
LEMMA PendingFlies ==
  ASSUME NEW c \in Cpus, NEW i \in Pending(c)
  PROVE  Flying(wakes[c][i].tcb)
BY DEF Flying

\* A CPU that does not move, when others do not touch its current thread.
LEMMA CpuKept ==
  ASSUME NEW d \in Cpus, CpuOK(d), pc'[d] = pc[d], after'[d] = after[d], wakes'[d] = wakes[d],
         victim'[d] = victim[d], current'[d] = current[d], stack'[d] = stack[d],
         d \in idle_mask => d \in idle_mask',
         ~Leaving(d) => state'[current[d]] = "Running" /\ preferred_cpu'[current[d]] = d
  PROVE  CpuOK(d)'
BY DEF CpuOK, Leaving, Away

\* Nobody enters a run queue, and who is in one keeps level and CPU.
LEMMA QueuesKept ==
  ASSUME SchedsOK, QueuedWhereSought, sched' = sched,
         \A t \in Tcbs : Queued(t) => preferred_cpu'[t] = preferred_cpu[t] /\ priority'[t] = priority[t]
  PROVE  SchedsOK' /\ QueuedWhereSought' /\ (\A d \in Cpus : QueuedOn(d)' = QueuedOn(d))
         /\ (\A t : (Queued(t)' <=> Queued(t)))
<1>1. SchedsOK'
  BY DEF SchedsOK
<1>2. \A d \in Cpus : QueuedOn(d)' = QueuedOn(d)
  BY DEF QueuedOn
<1>3. \A t : (Queued(t)' <=> Queued(t))
  BY <1>2 DEF Queued
<1>4. ASSUME NEW c \in Cpus, NEW p \in Levels, NEW t \in Range(sched[c].queues[p])
      PROVE  preferred_cpu'[t] = c /\ priority'[t] = p
  <2>1. preferred_cpu[t] = c /\ priority[t] = p
    BY DEF QueuedWhereSought
  <2>2. Queued(t)
    BY DEF Queued, QueuedOn
  <2>3. t \in Tcbs
    BY RangeInTcbs
  <2>4. QED
    BY <2>1, <2>2, <2>3
<1>5. QueuedWhereSought'
  BY <1>4 DEF QueuedWhereSought
<1>6. QED
  BY <1>1, <1>2, <1>3, <1>5

\* Nobody takes a thread.
LEMMA ClaimsKept ==
  ASSUME Claimed, current' = current, \A d \in Cpus : Leaving(d) => Leaving(d)'
  PROVE  Claimed'
BY DEF Claimed

\* ThreadsOK, when nothing it speaks of changes.
LEMMA ThreadsKept ==
  ASSUME ThreadsOK, priority' = priority, preferred_cpu' = preferred_cpu, waiting' = waiting,
         sleep_list' = sleep_list, victim' = victim, state' = state
  PROVE  ThreadsOK'
BY DEF ThreadsOK

\* Run queues, wakeups and deletions stay; who is in a run queue or a wakeup
\* stays or is stopped, and nobody else becomes Ready.
LEMMA PlacesKept ==
  ASSUME PlacesOK, wakes' = wakes, priority' = priority, victim' = victim,
         \A d \in Cpus : Pending(d)' = Pending(d), \A t : (Queued(t)' <=> Queued(t)),
         \A t : Queued(t) \/ Flying(t) => state'[t] \in {state[t], "Stopped"},
         \A t \in Threads : state'[t] = "Ready" => state[t] = "Ready"
  PROVE  PlacesOK'
<1>1. \A t : (Flying(t)' <=> Flying(t))
  BY DEF Flying
<1>2. QueuedReady'
  BY DEF PlacesOK, QueuedReady
<1>3. PendingReady'
  <2>1. ASSUME NEW c \in Cpus, NEW i \in Pending(c)
        PROVE  /\ state'[wakes[c][i].tcb] \in {"Ready", "Stopped"}
               /\ wakes[c][i].prio = priority[wakes[c][i].tcb] /\ ~Queued(wakes[c][i].tcb)
    <3>1. Flying(wakes[c][i].tcb)
      BY PendingFlies
    <3>2. ReadyAt(c, i)
      BY DEF PlacesOK, PendingReady
    <3>3. QED
      BY <3>1, <3>2 DEF ReadyAt
  <2>2. QED
    BY <2>1 DEF PendingReady, ReadyAt
<1>4. PendingOnce'
  <2>1. ASSUME NEW c \in Cpus, NEW d \in Cpus, NEW i \in Pending(c)', NEW j \in Pending(d)',
               wakes'[c][i].tcb = wakes'[d][j].tcb
        PROVE  c = d /\ i = j
    <3>1. i \in Pending(c) /\ j \in Pending(d) /\ wakes[c][i].tcb = wakes[d][j].tcb
      BY <2>1
    <3>2. Once(c, i, d, j)
      BY <3>1 DEF PlacesOK, PendingOnce
    <3>3. QED
      BY <3>1, <3>2 DEF Once
  <2>2. QED
    BY <2>1 DEF PendingOnce, Once
<1>5. ReadyPlaced' /\ VictimsGone'
  BY <1>1 DEF PlacesOK, ReadyPlaced, VictimsGone
<1>6. QED
  BY <1>2, <1>3, <1>4, <1>5 DEF PlacesOK

\* No CPU moves to another stack or picks a thread, and no thread whose
\* registers are saved becomes wakeable by others.
LEMMA StacksKept ==
  ASSUME StacksOK, stack' = stack, current' = current, wakes' = wakes,
         \A d \in Cpus : /\ (Away(d)' <=> Away(d)) /\ Pending(d)' = Pending(d)
                         /\ QueuedOn(d)' = QueuedOn(d) /\ (pc'[d] = "switch" => pc[d] = "switch"),
         \A d \in Cpus : context_saved'[stack[d]] =>
           /\ context_saved[stack[d]] /\ (stack[d] \in waiting' => stack[d] \in waiting)
           /\ stack[d] \in sleep_list' =>
                preferred_cpu'[stack[d]] = d \/ (stack[d] \in sleep_list /\ preferred_cpu'[stack[d]] = preferred_cpu[stack[d]])
  PROVE  StacksOK'
<1>1. ASSUME NEW c \in Cpus PROVE StackOK(c)'
  <2>1. StackOK(c)
    BY DEF StacksOK
  <2>2. (Away(c)' => ~context_saved'[stack'[c]]) /\ (pc'[c] = "switch" => \A d \in Cpus \ {c} : stack'[d] # current'[c])
    BY <2>1 DEF StackOK
  <2>3. ASSUME context_saved'[stack'[c]] PROVE OnlyHere(c)'
    <3>1. OnlyHere(c)
      BY <2>1, <2>3 DEF StackOK
    <3>2. QED
      BY <2>3, <3>1 DEF OnlyHere
  <2>4. QED
    BY <2>2, <2>3 DEF StackOK
<1>2. QED
  BY <1>1 DEF StacksOK

\* No CPU halts or gets work while halted, and no wakeup is dropped.
LEMMA WakeupsKept ==
  ASSUME NoMissedWakeup, ipi \subseteq ipi',
         \A d \in Cpus : /\ pc'[d] = "halt" /\ sched'[d].non_empty # {} =>
                              pc[d] = "halt" /\ sched[d].non_empty # {}
                         /\ pc[d] = "ipi" => pc'[d] = "ipi" /\ wakes'[d] = wakes[d]
  PROVE  NoMissedWakeup'
<1>1. ASSUME NEW c \in Cpus, pc'[c] = "halt", sched'[c].non_empty # {}
      PROVE  c \in ipi' \/ \E d \in Cpus \ {c} : pc'[d] = "ipi" /\ Head(wakes'[d]).cpu = c
  <2>1. c \in ipi \/ \E d \in Cpus \ {c} : pc[d] = "ipi" /\ Head(wakes[d]).cpu = c
    BY <1>1 DEF NoMissedWakeup
  <2>2. QED
    BY <2>1
<1>2. QED
  BY <1>1 DEF NoMissedWakeup

\* A thread that runs is nowhere else.
LEMMA RunningFacts ==
  ASSUME SInv, NEW t \in Tcbs, state[t] = "Running"
  PROVE  /\ ~Queued(t) /\ ~Flying(t) /\ t \notin waiting /\ t \notin sleep_list
         /\ \A d \in Cpus : victim[d].tcb # t
<1>1. ~Queued(t) /\ ~Flying(t)
  <2>1. ~Queued(t)
    BY DEF SInv, PlacesOK, QueuedReady
  <2>2. ~Flying(t)
    BY DEF SInv, PlacesOK, PendingReady, ReadyAt, Flying
  <2>3. QED
    BY <2>1, <2>2
<1>2. t \notin waiting /\ t \notin sleep_list
  BY DEF SInv, ThreadsOK
<1>3. \A d \in Cpus : victim[d].tcb # t
  <2>1. \A d \in Cpus : victim[d].tcb # NoTcb => state[victim[d].tcb] \in {"Stopped", "Exited"}
    BY DEF SInv, ThreadsOK
  <2>2. QED
    BY <2>1, TcbFacts
<1>4. QED
  BY <1>1, <1>2, <1>3

\* What is known of a CPU that executes user code.
LEMMA UserFacts ==
  ASSUME SInv, NEW c \in Cpus, InUser(c)
  PROVE  /\ pc[c] = "run" /\ ~Leaving(c) /\ ~Away(c) /\ wakes[c] = <<>> /\ victim[c].tcb = NoTcb
         /\ stack[c] \in Threads /\ stack[c] \in Tcbs /\ current[c] = stack[c]
         /\ state[stack[c]] = "Running" /\ preferred_cpu[stack[c]] = c
         /\ \A d \in Cpus \ {c} : stack[d] # stack[c] /\ (~Leaving(d) => current[d] # stack[c])
<1>1. pc[c] = "run" /\ ~Leaving(c) /\ ~Away(c) /\ stack[c] \in Threads
  BY DEF InUser, Leaving, Away
<1>2. CpuOK(c)
  BY DEF SInv, CpusOK
<1>3. /\ wakes[c] = <<>> /\ victim[c].tcb = NoTcb /\ current[c] = stack[c]
      /\ state[stack[c]] = "Running" /\ preferred_cpu[stack[c]] = c
  BY <1>1, <1>2 DEF CpuOK
<1>4. \A d \in Cpus \ {c} : stack[d] # stack[c] /\ (~Leaving(d) => current[d] # stack[c])
  BY <1>1, <1>3 DEF SInv, OneStack, Claimed
<1>5. QED
  BY <1>1, <1>3, <1>4, TcbFacts

\* The program counter of one CPU moves.
LEMMA PcStep ==
  ASSUME SInv, NEW c \in Cpus, NEW v \in PcValues, Goto(c, v)
  PROVE  pc' \in [Cpus -> PcValues] /\ pc'[c] = v /\ \A d \in Cpus \ {c} : pc'[d] = pc[d]
<1>1. pc \in [Cpus -> PcValues]
  BY DEF SInv, Types
<1>2. QED
  BY <1>1 DEF Goto

\* Steps of the idle loop, the end of a time slice and of a change of priority:
\* only pc, idle_mask and ipi change, and the CPU is not in the middle of anything.
quietVars == <<sched, current, stack, after, wakes, locked, victim, freed, threadVars, waiting, sleep_list>>
LEMMA QuietStep ==
  ASSUME SInv, NEW c \in Cpus, NEW v \in {"run", "marked", "halt", "awake", "resched"},
         pc[c] \in {"run", "marked", "halt", "awake", "resched", "priority"},
         Goto(c, v), UNCHANGED quietVars,
         idle_mask' \subseteq Cpus, ipi' \subseteq Cpus,
         v \in {"marked", "halt"} => c \in idle_mask',
         \A d \in Cpus \ {c} : (d \in idle_mask => d \in idle_mask') /\ (d \in ipi => d \in ipi'),
         v = "halt" => sched[c].non_empty = {}
  PROVE  SInv'
<1>1. /\ sched' = sched /\ current' = current /\ stack' = stack /\ after' = after /\ wakes' = wakes
      /\ locked' = locked /\ victim' = victim /\ freed' = freed /\ state' = state
      /\ priority' = priority /\ cpu_affinity' = cpu_affinity /\ preferred_cpu' = preferred_cpu
      /\ context_saved' = context_saved /\ waiting' = waiting /\ sleep_list' = sleep_list
  BY DEF quietVars, threadVars
<1>2. pc' \in [Cpus -> PcValues] /\ pc'[c] = v /\ \A d \in Cpus \ {c} : pc'[d] = pc[d]
  BY PcStep DEF PcValues
<1>3. \A d \in Cpus : (Leaving(d)' <=> Leaving(d)) /\ (Away(d)' <=> Away(d)) /\ Pending(d)' = Pending(d)
  <2>1. Pending(c)' = Pending(c)
    BY <1>1, <1>2, PendingStays
  <2>2. ~Leaving(c) /\ ~Leaving(c)' /\ ~Away(c) /\ ~Away(c)'
    BY <1>2 DEF Leaving, Away
  <2>3. QED
    BY <1>1, <1>2, <2>1, <2>2, CpuStays
<1>4. Types'
  BY <1>1, <1>2 DEF SInv, Types
<1>5. SchedsOK' /\ QueuedWhereSought' /\ (\A d \in Cpus : QueuedOn(d)' = QueuedOn(d))
      /\ (\A t : (Queued(t)' <=> Queued(t)))
  BY <1>1, QueuesKept DEF SInv
<1>6. CpusOK'
  <2>1. CpuOK(c)'
    BY <1>1, <1>2, <1>3 DEF SInv, CpusOK, CpuOK
  <2>2. ASSUME NEW d \in Cpus \ {c} PROVE CpuOK(d)'
    <3>1. CpuOK(d) /\ (~Leaving(d) => state[current[d]] = "Running" /\ preferred_cpu[current[d]] = d)
      BY DEF SInv, CpusOK, CpuOK
    <3>2. QED
      BY <1>1, <1>2, <3>1, CpuKept
  <2>3. QED
    BY <2>1, <2>2 DEF CpusOK
<1>7. Claimed' /\ ThreadsOK' /\ OneStack'
  BY <1>1, <1>3, ClaimsKept, ThreadsKept DEF SInv, OneStack
<1>8. PlacesOK'
  BY <1>1, <1>3, <1>5, PlacesKept DEF SInv
<1>9. StacksOK'
  BY <1>1, <1>2, <1>3, <1>5, StacksKept DEF SInv
<1>10. NoMissedWakeup'
  <2>1. ASSUME NEW d \in Cpus, pc'[d] = "halt", sched'[d].non_empty # {}
        PROVE  d \in ipi' \/ \E e \in Cpus \ {d} : pc'[e] = "ipi" /\ Head(wakes'[e]).cpu = d
    <3>1. d # c /\ pc[d] = "halt" /\ sched[d].non_empty # {}
      BY <1>1, <1>2, <2>1
    <3>2. d \in ipi \/ \E e \in Cpus \ {d} : pc[e] = "ipi" /\ Head(wakes[e]).cpu = d
      BY <3>1 DEF SInv, NoMissedWakeup
    <3>3. QED
      BY <1>1, <1>2, <3>1, <3>2
  <2>2. QED
    BY <2>1 DEF NoMissedWakeup
<1>11. QED
  BY <1>4, <1>5, <1>6, <1>7, <1>8, <1>9, <1>10 DEF SInv

\* The running thread gives up the CPU: it blocks, sleeps, stops itself or exits.
LEMMA LeaveStep ==
  ASSUME SInv, NEW c \in Cpus, InUser(c), NEW v \in {"Blocked", "Stopped", "Exited"},
         Goto(c, "block"), state' = [state EXCEPT ![stack[c]] = v],
         UNCHANGED <<sched, current, stack, wakeVars, callVars, priority, cpu_affinity, preferred_cpu>>,
         waiting' \in {waiting, waiting \union {stack[c]}},
         sleep_list' \in {sleep_list, sleep_list \union {stack[c]}}, IsFiniteSet(sleep_list'),
         stack[c] \in waiting' \union sleep_list' => v = "Blocked",
         stack[c] \notin waiting' \intersect sleep_list',
         \/ context_saved' = context_saved /\ stack[c] \notin waiting'
         \/ context_saved' = [context_saved EXCEPT ![stack[c]] = FALSE]
  PROVE  SInv'
<1>1. /\ sched' = sched /\ current' = current /\ stack' = stack /\ after' = after /\ wakes' = wakes
      /\ idle_mask' = idle_mask /\ ipi' = ipi /\ locked' = locked /\ victim' = victim /\ freed' = freed
      /\ priority' = priority /\ cpu_affinity' = cpu_affinity /\ preferred_cpu' = preferred_cpu
  BY DEF wakeVars, idleVars, callVars
<1>2. pc' \in [Cpus -> PcValues] /\ pc'[c] = "block" /\ \A d \in Cpus \ {c} : pc'[d] = pc[d]
  BY PcStep DEF PcValues
<1>3. PICK t \in Threads :
        /\ t = stack[c] /\ t = current[c] /\ t \in Tcbs /\ pc[c] = "run" /\ ~Leaving(c)
        /\ state[t] = "Running" /\ preferred_cpu[t] = c
        /\ \A d \in Cpus \ {c} : stack[d] # t /\ (~Leaving(d) => current[d] # t)
  <2>1. /\ stack[c] \in Threads /\ stack[c] \in Tcbs /\ stack[c] = current[c] /\ pc[c] = "run" /\ ~Leaving(c)
        /\ state[stack[c]] = "Running" /\ preferred_cpu[stack[c]] = c
        /\ \A d \in Cpus \ {c} : stack[d] # stack[c] /\ (~Leaving(d) => current[d] # stack[c])
    BY UserFacts
  <2>2. QED
    BY <2>1
<1>4. ~Queued(t) /\ ~Flying(t) /\ t \notin waiting /\ t \notin sleep_list
      /\ \A d \in Cpus : victim[d].tcb # t
  BY <1>3, RunningFacts
<1>5. /\ waiting' \in {waiting, waiting \union {t}} /\ sleep_list' \in {sleep_list, sleep_list \union {t}}
      /\ t \in waiting' \union sleep_list' => v = "Blocked"
      /\ t \notin waiting' \intersect sleep_list'
      /\ \/ context_saved' = context_saved /\ t \notin waiting'
         \/ context_saved' = [context_saved EXCEPT ![t] = FALSE]
  BY <1>3
<1>6. /\ state' \in [Tcbs -> {"Created", "Ready", "Running", "Blocked", "Stopped", "Exited"}]
      /\ state'[t] = v /\ \A u \in Tcbs \ {t} : state'[u] = state[u]
  <2>1. state \in [Tcbs -> {"Created", "Ready", "Running", "Blocked", "Stopped", "Exited"}]
    BY DEF SInv, Types
  <2>2. QED
    BY <1>3, <2>1
<1>7. /\ context_saved' \in [Tcbs -> BOOLEAN]
      /\ \A u \in Tcbs : context_saved'[u] => context_saved[u] /\ ~(u = t /\ u \in waiting')
  <2>1. context_saved \in [Tcbs -> BOOLEAN]
    BY DEF SInv, Types
  <2>2. QED
    BY <1>3, <1>5, <2>1
<1>8. Leaving(c)' /\ \A d \in Cpus : /\ (Leaving(d) => Leaving(d)') /\ (Away(d)' <=> Away(d))
                                     /\ Pending(d)' = Pending(d)
  <2>1. Pending(c)' = Pending(c)
    BY <1>1, <1>2, <1>3, PendingStays
  <2>2. Leaving(c)' /\ ~Away(c) /\ ~Away(c)'
    BY <1>2, <1>3 DEF Leaving, Away
  <2>3. QED
    BY <1>1, <1>2, <2>1, <2>2, CpuStays
<1>9. waiting' \subseteq Threads /\ sleep_list' \subseteq Threads
  <2>1. waiting \subseteq Threads /\ sleep_list \subseteq Threads
    BY DEF SInv, Types
  <2>2. QED
    BY <1>5, <2>1
<1>10. Types'
  BY <1>1, <1>2, <1>6, <1>7, <1>9 DEF SInv, Types
<1>11. SchedsOK' /\ QueuedWhereSought' /\ (\A d \in Cpus : QueuedOn(d)' = QueuedOn(d))
       /\ (\A u : (Queued(u)' <=> Queued(u)))
  BY <1>1, QueuesKept DEF SInv
<1>12. CpusOK'
  <2>1. CpuOK(c) /\ \A d \in Cpus : CpuOK(d) /\ current[d] \in Tcbs
    <3>1. current \in [Cpus -> Tcbs]
      BY DEF SInv, Types
    <3>2. QED
      BY <3>1 DEF SInv, CpusOK
  <2>2. CpuOK(c)'
    <3>1. (Away(c)' <=> Away(c)) /\ Leaving(c)'
      BY <1>8
    <3>2. QED
      BY <1>1, <1>2, <1>3, <2>1, <3>1 DEF CpuOK
  <2>3. ASSUME NEW d \in Cpus \ {c} PROVE CpuOK(d)'
    <3>1. CpuOK(d) /\ (~Leaving(d) => state[current[d]] = "Running" /\ preferred_cpu[current[d]] = d)
      BY <2>1 DEF CpuOK
    <3>2. ~Leaving(d) => state'[current[d]] = "Running"
      BY <1>3, <1>6, <2>1, <3>1
    <3>3. QED
      BY <1>1, <1>2, <3>1, <3>2, CpuKept
  <2>4. QED
    BY <2>2, <2>3 DEF CpusOK
<1>13. Claimed' /\ OneStack'
  BY <1>1, <1>8, ClaimsKept DEF SInv, OneStack
<1>14. ThreadsOK'
  <2>1. \A u \in waiting' \union sleep_list' : state'[u] = "Blocked"
    <3>1. \A u \in waiting \union sleep_list : state[u] = "Blocked"
      BY DEF SInv, ThreadsOK
    <3>2. QED
      <4>1. ASSUME NEW u \in waiting' \union sleep_list' PROVE state'[u] = "Blocked"
        <5>1. u = t \/ (u # t /\ u \in waiting \union sleep_list)
          BY <1>5
        <5>2. u \in Tcbs
          BY <1>9, TcbFacts
        <5>3. QED
          BY <1>5, <1>6, <3>1, <5>1, <5>2
      <4>2. QED
        BY <4>1
  <2>2. waiting' \intersect sleep_list' = {}
    <3>1. waiting \intersect sleep_list = {}
      BY DEF SInv, ThreadsOK
    <3>2. QED
      BY <1>4, <1>5, <3>1
  <2>3. \A d \in Cpus : victim[d].tcb # NoTcb => state'[victim[d].tcb] = state[victim[d].tcb]
    <3>1. \A d \in Cpus : victim[d].tcb # NoTcb => victim[d].tcb \in Threads
      BY DEF SInv, Types
    <3>2. QED
      BY <1>4, <1>6, <3>1, TcbFacts
  <2>4. ThreadsOK
    BY DEF SInv
  <2>5. \A d \in Cpus : victim[d].tcb # NoTcb => state'[victim[d].tcb] \in {"Stopped", "Exited"}
    BY <2>3, <2>4 DEF ThreadsOK
  <2>6. QED
    BY <1>1, <2>1, <2>2, <2>4, <2>5 DEF ThreadsOK
<1>15. PlacesOK'
  <2>1. \A u : Queued(u) \/ Flying(u) => u \in Tcbs
    BY PlacedInTcbs
  <2>2. \A u : Queued(u) \/ Flying(u) => state'[u] = state[u]
    BY <1>4, <1>6, <2>1
  <2>3. \A u \in Threads : state'[u] = "Ready" => state[u] = "Ready"
    BY <1>6, TcbFacts
  <2>4. QED
    BY <1>1, <1>8, <1>11, <2>2, <2>3, PlacesKept DEF SInv
<1>16. StacksOK'
  <2>1. ASSUME NEW d \in Cpus, context_saved'[stack[d]]
        PROVE  /\ context_saved[stack[d]] /\ (stack[d] \in waiting' => stack[d] \in waiting)
               /\ stack[d] \in sleep_list' => preferred_cpu'[stack[d]] = d \/ stack[d] \in sleep_list
    <3>1. stack \in [Cpus -> Tcbs]
      BY DEF SInv, Types
    <3>2. stack[d] \in Tcbs
      BY <3>1
    <3>3. QED
      BY <1>1, <1>3, <1>5, <1>7, <2>1, <3>2
  <2>2. QED
    BY <1>1, <1>2, <1>8, <1>11, <2>1, StacksKept DEF SInv
<1>17. NoMissedWakeup'
  BY <1>1, <1>2, <1>3, WakeupsKept DEF SInv
<1>18. QED
  BY <1>10, <1>11, <1>12, <1>13, <1>14, <1>15, <1>16, <1>17 DEF SInv

\* schedule() has seen the registers of the thread it picked.
LEMMA SpinStep ==
  ASSUME SInv, NEW c \in Cpus, Spin(c)
  PROVE  SInv'
<1>1. /\ sched' = sched /\ current' = current /\ stack' = stack /\ after' = after /\ wakes' = wakes
      /\ locked' = locked /\ victim' = victim /\ freed' = freed /\ state' = state
      /\ priority' = priority /\ cpu_affinity' = cpu_affinity /\ preferred_cpu' = preferred_cpu
      /\ context_saved' = context_saved /\ waiting' = waiting /\ sleep_list' = sleep_list
      /\ idle_mask' = idle_mask /\ ipi' = ipi
  BY DEF Spin, callVars, threadVars, wakeVars, idleVars
<1>2. /\ pc' \in [Cpus -> PcValues] /\ pc'[c] = "switch" /\ \A d \in Cpus \ {c} : pc'[d] = pc[d]
      /\ pc[c] = "spin" /\ context_saved[current[c]]
  BY PcStep DEF PcValues, Spin
<1>3. \A d \in Cpus : (Leaving(d)' <=> Leaving(d)) /\ (Away(d)' <=> Away(d)) /\ Pending(d)' = Pending(d)
  <2>1. Pending(c)' = Pending(c)
    BY <1>1, <1>2, PendingStays
  <2>2. ~Leaving(c) /\ ~Leaving(c)' /\ Away(c) /\ Away(c)'
    BY <1>2 DEF Leaving, Away
  <2>3. QED
    BY <1>1, <1>2, <2>1, <2>2, CpuStays
<1>4. Types'
  BY <1>1, <1>2 DEF SInv, Types
<1>5. SchedsOK' /\ QueuedWhereSought' /\ (\A d \in Cpus : QueuedOn(d)' = QueuedOn(d))
      /\ (\A t : (Queued(t)' <=> Queued(t)))
  BY <1>1, QueuesKept DEF SInv
<1>6. CpusOK'
  <2>1. CpuOK(c)'
    BY <1>1, <1>2, <1>3 DEF SInv, CpusOK, CpuOK
  <2>2. ASSUME NEW d \in Cpus \ {c} PROVE CpuOK(d)'
    <3>1. CpuOK(d) /\ (~Leaving(d) => state[current[d]] = "Running" /\ preferred_cpu[current[d]] = d)
      BY DEF SInv, CpusOK, CpuOK
    <3>2. QED
      BY <1>1, <1>2, <3>1, CpuKept
  <2>3. QED
    BY <2>1, <2>2 DEF CpusOK
<1>7. Claimed' /\ ThreadsOK' /\ OneStack'
  BY <1>1, <1>3, ClaimsKept, ThreadsKept DEF SInv, OneStack
<1>8. PlacesOK'
  BY <1>1, <1>3, <1>5, PlacesKept DEF SInv
<1>9. StacksOK'
  <2>1. ASSUME NEW d \in Cpus PROVE StackOK(d)'
    <3>1. StackOK(d)
      BY DEF SInv, StacksOK
    <3>2. (Away(d)' => ~context_saved'[stack'[d]]) /\ (context_saved'[stack'[d]] => OnlyHere(d)')
      BY <1>1, <1>3, <1>5, <3>1 DEF StackOK, OnlyHere
    <3>3. pc'[d] = "switch" => \A e \in Cpus \ {d} : stack'[e] # current'[d]
      <4>1. ASSUME NEW e \in Cpus \ {c}, stack[e] = current[c] PROVE FALSE
        <5>1. StackOK(e) /\ current[c] # stack[c]
          BY <1>2 DEF SInv, StacksOK, CpusOK, CpuOK, Away
        <5>2. OnlyHere(e)
          BY <1>2, <4>1, <5>1 DEF StackOK
        <5>3. QED
          BY <4>1, <5>2 DEF OnlyHere
      <4>2. QED
        BY <1>1, <1>2, <3>1, <4>1 DEF StackOK
    <3>4. QED
      BY <3>2, <3>3 DEF StackOK
  <2>2. QED
    BY <2>1 DEF StacksOK
<1>10. NoMissedWakeup'
  BY <1>1, <1>2, WakeupsKept DEF SInv
<1>11. QED
  BY <1>4, <1>5, <1>6, <1>7, <1>8, <1>9, <1>10 DEF SInv

\* switch() leaves the stack of the old thread.
LEMMA SwitchStep ==
  ASSUME SInv, NEW c \in Cpus, Switch(c)
  PROVE  SInv'
<1>1. /\ sched' = sched /\ current' = current /\ after' = after /\ wakes' = wakes
      /\ locked' = locked /\ victim' = victim /\ freed' = freed /\ state' = state
      /\ priority' = priority /\ cpu_affinity' = cpu_affinity /\ preferred_cpu' = preferred_cpu
      /\ waiting' = waiting /\ sleep_list' = sleep_list /\ idle_mask' = idle_mask /\ ipi' = ipi
  BY DEF Switch, callVars, wakeVars, idleVars
<1>2. /\ pc' \in [Cpus -> PcValues] /\ pc'[c] = "run" /\ \A d \in Cpus \ {c} : pc'[d] = pc[d]
      /\ pc[c] = "switch"
  BY PcStep DEF PcValues, Switch
<1>3. PICK t \in Tcbs : t = current[c]
  BY DEF SInv, Types
<1>4. PICK u \in Tcbs : u = stack[c]
  BY DEF SInv, Types
<1>5. /\ stack' \in [Cpus -> Tcbs] /\ stack'[c] = t /\ \A d \in Cpus \ {c} : stack'[d] = stack[d]
      /\ context_saved' \in [Tcbs -> BOOLEAN]
      /\ \A d \in Cpus \ {c} : context_saved'[stack[d]] = context_saved[stack[d]]
  <2>1. stack \in [Cpus -> Tcbs] /\ context_saved \in [Tcbs -> BOOLEAN]
    BY DEF SInv, Types
  <2>2. \A d \in Cpus \ {c} : stack[d] # u
    BY <1>4 DEF SInv, OneStack
  <2>3. QED
    BY <1>3, <1>4, <2>1, <2>2 DEF Switch
<1>6. \A d \in Cpus : (Leaving(d)' <=> Leaving(d)) /\ Pending(d)' = Pending(d) /\ ~Leaving(c) /\ ~Away(c)'
                      /\ (d # c => (Away(d)' <=> Away(d)))
  BY <1>1, <1>2 DEF Leaving, Away, Pending
<1>7. Types'
  BY <1>1, <1>2, <1>5 DEF SInv, Types
<1>8. SchedsOK' /\ QueuedWhereSought' /\ (\A d \in Cpus : QueuedOn(d)' = QueuedOn(d))
      /\ (\A v : (Queued(v)' <=> Queued(v)))
  BY <1>1, QueuesKept DEF SInv
<1>9. CpuOK(c) /\ \A d \in Cpus : CpuOK(d)
  BY DEF SInv, CpusOK
<1>10. CpusOK'
  <2>1. CpuOK(c)'
    <3>1. /\ t \in Threads \union {Idle(c)} /\ wakes[c] = <<>> /\ after[c] \in {"run", "block", "awake"}
          /\ state[t] = "Running" /\ preferred_cpu[t] = c /\ victim[c].tcb = NoTcb
      BY <1>2, <1>3, <1>6, <1>9 DEF CpuOK
    <3>2. current'[c] = t /\ stack'[c] = t /\ pc'[c] = "run" /\ ~Away(c)' /\ victim'[c].tcb = NoTcb
      BY <1>1, <1>2, <1>3, <1>5, <1>6, <3>1
    <3>3. QED
      BY <1>1, <3>1, <3>2 DEF CpuOK
  <2>2. ASSUME NEW d \in Cpus \ {c} PROVE CpuOK(d)'
    <3>1. CpuOK(d) /\ (~Leaving(d) => state[current[d]] = "Running" /\ preferred_cpu[current[d]] = d)
      BY <1>9 DEF CpuOK
    <3>2. QED
      BY <1>1, <1>2, <1>5, <3>1, CpuKept
  <2>3. QED
    BY <2>1, <2>2 DEF CpusOK
<1>11. Claimed' /\ ThreadsOK'
  BY <1>1, <1>6, ClaimsKept, ThreadsKept DEF SInv
<1>12. \A d \in Cpus \ {c} : stack[d] # t
  BY <1>2, <1>3 DEF SInv, StacksOK, StackOK, OnlyHere
<1>13. OneStack'
  <2>1. ASSUME NEW d \in Cpus, NEW e \in Cpus, d # e PROVE stack'[d] # stack'[e]
    <3>1. stack[d] # stack[e]
      BY <2>1 DEF SInv, OneStack
    <3>2. QED
      BY <1>5, <1>12, <2>1, <3>1
  <2>2. QED
    BY <2>1 DEF OneStack
<1>14. PlacesOK'
  BY <1>1, <1>6, <1>8, PlacesKept DEF SInv
<1>15. StacksOK'
  <2>1. state[t] = "Running" /\ ~Queued(t) /\ ~Flying(t) /\ t \notin waiting /\ t \notin sleep_list
    <3>1. state[t] = "Running"
      BY <1>3, <1>6, <1>9 DEF CpuOK
    <3>2. QED
      BY <3>1, RunningFacts
  <2>2. \A d \in Cpus \ {c} : current[d] # t
    <3>1. \A d \in Cpus \ {c} : ~Leaving(d) => current[d] # t
      BY <1>3, <1>6 DEF SInv, Claimed
    <3>2. \A d \in Cpus \ {c} : Leaving(d) => current[d] = stack[d]
      BY <1>9 DEF CpuOK, Leaving, Away
    <3>3. QED
      BY <1>12, <3>1, <3>2
  <2>3. ASSUME NEW d \in Cpus, t \in QueuedOn(d)' \/ \E i \in Pending(d)' : wakes'[d][i].tcb = t PROVE FALSE
    BY <1>1, <1>6, <1>8, <2>1, <2>3 DEF Queued, Flying
  <2>4. ASSUME NEW d \in Cpus \ {c}, pc[d] = "switch" PROVE current[d] # t
    BY <2>2
  <2>5. StackOK(c)'
    <3>1. ~Away(c)' /\ pc'[c] # "switch" /\ stack'[c] = t
      BY <1>2, <1>5, <1>6
    <3>2. OnlyHere(c)'
      BY <1>1, <2>1, <2>2, <2>3, <3>1 DEF OnlyHere
    <3>3. QED
      BY <3>1, <3>2 DEF StackOK
  <2>6. ASSUME NEW d \in Cpus \ {c} PROVE StackOK(d)'
    <3>1. /\ StackOK(d) /\ stack'[d] = stack[d] /\ pc'[d] = pc[d] /\ (Away(d)' <=> Away(d))
          /\ context_saved'[stack[d]] = context_saved[stack[d]]
      BY <1>2, <1>5, <1>6 DEF SInv, StacksOK
    <3>2. OnlyHere(d) => OnlyHere(d)'
      BY <1>1, <1>6, <1>8, <3>1 DEF OnlyHere
    <3>3. pc'[d] = "switch" => \A e \in Cpus \ {d} : stack'[e] # current'[d]
      BY <1>1, <1>5, <2>2, <3>1 DEF StackOK
    <3>4. QED
      BY <3>1, <3>2, <3>3 DEF StackOK
  <2>7. QED
    BY <2>5, <2>6 DEF StacksOK
<1>16. NoMissedWakeup'
  BY <1>1, <1>2, WakeupsKept DEF SInv
<1>17. QED
  BY <1>7, <1>8, <1>10, <1>11, <1>13, <1>14, <1>15, <1>16 DEF SInv

\* What is known of a CPU that can take interrupts.
LEMMA OpenFacts ==
  ASSUME SInv, NEW c \in Cpus, pc[c] \in {"run", "halt"}
  PROVE  /\ ~Leaving(c) /\ ~Away(c) /\ Pending(c) = {} /\ wakes[c] = <<>> /\ victim[c].tcb = NoTcb
         /\ current[c] = stack[c] /\ current[c] \in Threads \union {Idle(c)} /\ current[c] \in Tcbs
         /\ state[current[c]] = "Running" /\ preferred_cpu[current[c]] = c
<1>1. ~Leaving(c) /\ ~Away(c)
  BY DEF Leaving, Away
<1>2. CpuOK(c)
  BY DEF SInv, CpusOK
<1>3. /\ wakes[c] = <<>> /\ victim[c].tcb = NoTcb /\ current[c] = stack[c]
      /\ current[c] \in Threads \union {Idle(c)}
      /\ state[current[c]] = "Running" /\ preferred_cpu[current[c]] = c
  BY <1>1, <1>2 DEF CpuOK
<1>4. Pending(c) = {}
  <2>1. DOMAIN wakes[c] = {}
    BY <1>3, SMT
  <2>2. QED
    BY <2>1 DEF Pending
<1>5. QED
  BY <1>1, <1>3, <1>4, TcbFacts

\* Types, when the steps of a CPU change where it is, its wakeups and the
\* states of threads only.
LEMMA TypesKept ==
  ASSUME Types, pc' \in [Cpus -> PcValues], after' \in [Cpus -> PcValues], wakes' \in [Cpus -> Seq(Wakeup)],
         state' \in [Tcbs -> {"Created", "Ready", "Running", "Blocked", "Stopped", "Exited"}],
         waiting' \subseteq Threads, sleep_list' \subseteq Threads,
         current' = current, stack' = stack, idle_mask' = idle_mask, ipi' = ipi,
         locked' = locked, victim' = victim, freed' = freed, priority' = priority,
         cpu_affinity' = cpu_affinity, preferred_cpu' = preferred_cpu, context_saved' = context_saved
  PROVE  Types'
BY DEF Types

\* CPU c makes the threads of W Ready and is to enqueue them; it may at the
\* same time exit its own thread.
Readies(c, ws, W, v) ==
  /\ pc[c] \in {"run", "halt"} /\ ws \in Seq(Wakeup) /\ ws # <<>>
  /\ W \in SUBSET Threads /\ v \in {"run", "awake", "block"}
  /\ Goto(c, "enqueue") /\ wakes' = [wakes EXCEPT ![c] = ws] /\ after' = [after EXCEPT ![c] = v]
  /\ \A i \in DOMAIN ws : ws[i].tcb \in W /\ ws[i].prio = priority[ws[i].tcb]
  /\ \A u \in W : \E i \in DOMAIN ws : ws[i].tcb = u
  /\ \A i, j \in DOMAIN ws : ws[i].tcb = ws[j].tcb => i = j
  /\ \A u \in W : /\ state[u] \in {"Blocked", "Created", "Stopped"} /\ ~Queued(u) /\ ~Flying(u)
                  /\ \A d \in Cpus : victim[d].tcb # u
  /\ \A i \in DOMAIN ws : \A d \in Cpus :
       context_saved[stack[d]] /\ ws[i].tcb = stack[d] => ws[i].cpu = d
  /\ state' \in [Tcbs -> {"Created", "Ready", "Running", "Blocked", "Stopped", "Exited"}]
  /\ \A u \in W : state'[u] = "Ready"
  /\ \A u \in Tcbs \ W : state'[u] = state[u]
                         \/ (u = stack[c] /\ v = "block" /\ InUser(c) /\ state'[u] = "Exited")
  /\ waiting' \subseteq waiting \ W /\ sleep_list' \subseteq sleep_list \ W /\ IsFiniteSet(sleep_list')
  /\ UNCHANGED <<sched, current, stack, idleVars, callVars, priority, cpu_affinity,
                 preferred_cpu, context_saved>>

\* The invariant through such a step.
LEMMA ReadyStep ==
  ASSUME SInv, NEW c \in Cpus, NEW ws, NEW W, NEW v, Readies(c, ws, W, v)
  PROVE  SInv'
<1>a. /\ pc[c] \in {"run", "halt"} /\ ws \in Seq(Wakeup) /\ ws # <<>>
      /\ W \in SUBSET Threads /\ v \in {"run", "awake", "block"}
  BY DEF Readies
<1>b. Goto(c, "enqueue") /\ wakes' = [wakes EXCEPT ![c] = ws] /\ after' = [after EXCEPT ![c] = v]
  BY DEF Readies
<1>c. /\ \A i \in DOMAIN ws : ws[i].tcb \in W /\ ws[i].prio = priority[ws[i].tcb]
      /\ \A u \in W : \E i \in DOMAIN ws : ws[i].tcb = u
      /\ \A i, j \in DOMAIN ws : ws[i].tcb = ws[j].tcb => i = j
  BY DEF Readies
<1>d. \A u \in W : /\ state[u] \in {"Blocked", "Created", "Stopped"} /\ ~Queued(u) /\ ~Flying(u)
                   /\ \A d \in Cpus : victim[d].tcb # u
  BY DEF Readies
<1>e. \A i \in DOMAIN ws : \A d \in Cpus : context_saved[stack[d]] /\ ws[i].tcb = stack[d] => ws[i].cpu = d
  BY DEF Readies
<1>f. /\ state' \in [Tcbs -> {"Created", "Ready", "Running", "Blocked", "Stopped", "Exited"}]
      /\ \A u \in W : state'[u] = "Ready"
      /\ \A u \in Tcbs \ W : state'[u] = state[u]
                             \/ (u = stack[c] /\ v = "block" /\ InUser(c) /\ state'[u] = "Exited")
  BY DEF Readies
<1>g. waiting' \subseteq waiting \ W /\ sleep_list' \subseteq sleep_list \ W /\ IsFiniteSet(sleep_list')
  BY DEF Readies
<1>1. /\ sched' = sched /\ current' = current /\ stack' = stack /\ idle_mask' = idle_mask /\ ipi' = ipi
      /\ locked' = locked /\ victim' = victim /\ freed' = freed /\ priority' = priority
      /\ cpu_affinity' = cpu_affinity /\ preferred_cpu' = preferred_cpu /\ context_saved' = context_saved
  BY DEF Readies, idleVars, callVars
<1>2. pc' \in [Cpus -> PcValues] /\ pc'[c] = "enqueue" /\ \A d \in Cpus \ {c} : pc'[d] = pc[d]
  BY <1>b, PcStep DEF PcValues
<1>3. /\ wakes' \in [Cpus -> Seq(Wakeup)] /\ wakes'[c] = ws /\ \A d \in Cpus \ {c} : wakes'[d] = wakes[d]
      /\ after' \in [Cpus -> PcValues] /\ after'[c] = v /\ \A d \in Cpus \ {c} : after'[d] = after[d]
  <2>1. wakes \in [Cpus -> Seq(Wakeup)] /\ after \in [Cpus -> PcValues] /\ v \in PcValues
    BY <1>a DEF SInv, Types, PcValues
  <2>2. QED
    BY <1>a, <1>b, <2>1
<1>4. /\ ~Leaving(c) /\ ~Away(c) /\ Pending(c) = {} /\ wakes[c] = <<>> /\ victim[c].tcb = NoTcb
      /\ current[c] = stack[c] /\ state[current[c]] = "Running" /\ preferred_cpu[current[c]] = c
      /\ current[c] \in Threads \union {Idle(c)} /\ current[c] \in Tcbs
  BY <1>a, OpenFacts
<1>5. ~Away(c)' /\ Pending(c)' = DOMAIN ws /\ (Leaving(c)' <=> v = "block")
  BY <1>2, <1>3 DEF Leaving, Away, Pending
<1>6. \A d \in Cpus \ {c} : (Leaving(d)' <=> Leaving(d)) /\ (Away(d)' <=> Away(d)) /\ Pending(d)' = Pending(d)
  BY <1>2, <1>3, CpuStays
<1>7. /\ ~Queued(current[c]) /\ ~Flying(current[c]) /\ current[c] \notin waiting
      /\ current[c] \notin sleep_list /\ \A d \in Cpus : victim[d].tcb # current[c]
  BY <1>4, RunningFacts
<1>8. \A u \in Tcbs : (u \notin W /\ u # current[c]) \/ (u = current[c] /\ v # "block") => state'[u] = state[u]
  <2>1. current[c] \notin W
    BY <1>4, <1>d
  <2>2. QED
    BY <1>4, <1>f, <2>1
<1>9. W \subseteq Tcbs /\ current[c] \notin W
  BY <1>4, <1>a, <1>d, TcbFacts
<1>10. waiting' \subseteq Threads /\ sleep_list' \subseteq Threads
  <2>1. waiting \subseteq Threads /\ sleep_list \subseteq Threads
    BY DEF SInv, Types
  <2>2. QED
    BY <1>g, <2>1
<1>11. Types'
  <2>1. Types
    BY DEF SInv
  <2>2. QED
    BY <1>1, <1>2, <1>3, <1>10, <1>f, <2>1, TypesKept
<1>12. SchedsOK' /\ QueuedWhereSought' /\ (\A d \in Cpus : QueuedOn(d)' = QueuedOn(d))
       /\ (\A u : (Queued(u)' <=> Queued(u)))
  BY <1>1, QueuesKept DEF SInv
<1>13. \A d \in Cpus : /\ CpuOK(d) /\ current[d] \in Tcbs
                       /\ ~Leaving(d) => state[current[d]] = "Running" /\ preferred_cpu[current[d]] = d
  <2>1. current \in [Cpus -> Tcbs] /\ \A d \in Cpus : CpuOK(d)
    BY DEF SInv, CpusOK, Types
  <2>2. QED
    BY <2>1 DEF CpuOK
<1>14. CpusOK'
  <2>1. CpuOK(c)'
    <3>1. v # "block" => state'[current[c]] = "Running"
      BY <1>4, <1>8
    <3>2. CpuOK(c)
      BY <1>13
    <3>3. QED
      BY <1>1, <1>2, <1>3, <1>4, <1>5, <1>a, <3>1, <3>2 DEF CpuOK
  <2>2. ASSUME NEW d \in Cpus \ {c} PROVE CpuOK(d)'
    <3>1. ~Leaving(d) => current[d] \notin W
      BY <1>13, <1>d
    <3>2. ~Leaving(d) => current[d] # current[c]
      BY <1>4 DEF SInv, Claimed
    <3>3. ~Leaving(d) => state'[current[d]] = "Running"
      BY <1>8, <1>13, <3>1, <3>2
    <3>4. QED
      BY <1>1, <1>2, <1>3, <1>13, <3>3, CpuKept
  <2>3. QED
    BY <2>1, <2>2 DEF CpusOK
<1>15. Claimed' /\ OneStack'
  <2>1. \A d \in Cpus : Leaving(d) => Leaving(d)'
    BY <1>4, <1>6
  <2>2. QED
    BY <1>1, <2>1, ClaimsKept DEF SInv, OneStack
<1>16. ThreadsOK'
  <2>1. \A u \in waiting' \union sleep_list' : state'[u] = "Blocked"
    <3>1. \A u \in waiting \union sleep_list : state[u] = "Blocked"
      BY DEF SInv, ThreadsOK
    <3>2. QED
      <4>1. ASSUME NEW u \in waiting' \union sleep_list' PROVE state'[u] = "Blocked"
        <5>1. u \in waiting \union sleep_list /\ u \notin W /\ u \in Tcbs
          BY <1>g, <1>10, TcbFacts
        <5>2. QED
          BY <1>7, <1>8, <3>1, <5>1
      <4>2. QED
        BY <4>1
  <2>2. waiting' \intersect sleep_list' = {}
    <3>1. waiting \intersect sleep_list = {}
      BY DEF SInv, ThreadsOK
    <3>2. QED
      BY <1>g, <3>1
  <2>3. \A d \in Cpus : victim[d].tcb # NoTcb => state'[victim[d].tcb] = state[victim[d].tcb]
    <3>1. \A d \in Cpus : victim[d].tcb # NoTcb => victim[d].tcb \in Threads
      BY DEF SInv, Types
    <3>2. QED
      BY <1>7, <1>8, <1>d, <3>1, TcbFacts
  <2>4. ThreadsOK
    BY DEF SInv
  <2>5. \A d \in Cpus : victim[d].tcb # NoTcb => state'[victim[d].tcb] \in {"Stopped", "Exited"}
    BY <2>3, <2>4 DEF ThreadsOK
  <2>6. QED
    BY <1>1, <1>g, <2>1, <2>2, <2>4, <2>5 DEF ThreadsOK
<1>17. PlacesOK'
  <2>1. \A u : Queued(u) \/ Flying(u) => u \in Tcbs
    BY PlacedInTcbs
  <2>2. \A u : Queued(u) \/ Flying(u) => state'[u] = state[u]
    BY <1>7, <1>8, <1>d, <2>1
  <2>3. \A u : Flying(u)' <=> Flying(u) \/ u \in W
    <3>1. \A u \in W : Flying(u)'
      <4>1. ASSUME NEW u \in W PROVE Flying(u)'
        <5>1. PICK i \in DOMAIN ws : ws[i].tcb = u
          BY <1>c
        <5>2. i \in Pending(c)' /\ wakes'[c][i].tcb = u
          BY <1>3, <1>5, <5>1
        <5>3. QED
          BY <5>2 DEF Flying
      <4>2. QED
        BY <4>1
    <3>2. \A u : Flying(u) => Flying(u)'
      <4>1. ASSUME NEW u, Flying(u) PROVE Flying(u)'
        <5>1. PICK d \in Cpus : \E i \in Pending(d) : wakes[d][i].tcb = u
          BY <4>1 DEF Flying
        <5>2. d # c
          BY <1>4, <5>1
        <5>3. Pending(d)' = Pending(d) /\ wakes'[d] = wakes[d]
          BY <1>3, <1>6, <5>2
        <5>4. QED
          BY <5>1, <5>3 DEF Flying
      <4>2. QED
        BY <4>1
    <3>3. ASSUME NEW u, Flying(u)', ~Flying(u) PROVE u \in W
      <4>1. PICK d \in Cpus : \E i \in Pending(d)' : wakes'[d][i].tcb = u
        BY <3>3 DEF Flying
      <4>2. CASE d = c
        <5>1. PICK i \in Pending(d)' : wakes'[d][i].tcb = u
          BY <4>1
        <5>2. i \in DOMAIN ws /\ ws[i].tcb = u
          BY <1>3, <1>5, <4>2, <5>1
        <5>3. QED
          BY <1>c, <5>2
      <4>3. CASE d # c
        <5>1. Pending(d)' = Pending(d) /\ wakes'[d] = wakes[d]
          BY <1>3, <1>6, <4>3
        <5>2. QED
          BY <3>3, <4>1, <5>1 DEF Flying
      <4>4. QED
        BY <4>2, <4>3
    <3>4. QED
      BY <3>1, <3>2, <3>3
  <2>4. \A t \in Tcbs : Queued(t)' => state'[t] \in {"Ready", "Stopped"}
    BY <1>12, <2>2 DEF SInv, PlacesOK, QueuedReady
  <2>5. ASSUME NEW d \in Cpus, NEW i \in Pending(d)', NEW u, u = wakes'[d][i].tcb
        PROVE  /\ state'[u] \in {"Ready", "Stopped"} /\ wakes'[d][i].prio = priority'[u]
               /\ ~Queued(u)'
    <3>1. CASE d = c
      <4>1. i \in DOMAIN ws /\ wakes'[d][i] = ws[i]
        BY <1>3, <1>5, <3>1
      <4>2. u \in W /\ wakes'[d][i].prio = priority[u]
        BY <1>c, <2>5, <4>1
      <4>3. QED
        BY <1>1, <1>12, <1>d, <1>f, <4>2
    <3>2. CASE d # c
      <4>1. i \in Pending(d) /\ wakes'[d][i] = wakes[d][i]
        BY <1>3, <1>6, <3>2
      <4>2. /\ state[u] \in {"Ready", "Stopped"} /\ wakes'[d][i].prio = priority[u] /\ ~Queued(u)
            /\ Flying(u)
        <5>1. ReadyAt(d, i) /\ Flying(wakes[d][i].tcb)
          BY <4>1, PendingFlies DEF SInv, PlacesOK, PendingReady
        <5>2. QED
          BY <2>5, <4>1, <5>1 DEF ReadyAt
      <4>3. QED
        BY <1>1, <1>12, <2>2, <4>2
    <3>3. QED
      BY <3>1, <3>2
  <2>6. ASSUME NEW d \in Cpus, NEW e \in Cpus, NEW i \in Pending(d)', NEW j \in Pending(e)',
               wakes'[d][i].tcb = wakes'[e][j].tcb
        PROVE  d = e /\ i = j
    <3>1. CASE d = c /\ e = c
      <4>1. i \in DOMAIN ws /\ j \in DOMAIN ws /\ ws[i].tcb = ws[j].tcb
        BY <1>3, <1>5, <2>6, <3>1
      <4>2. QED
        BY <1>c, <3>1, <4>1
    <3>2. CASE d # c /\ e # c
      <4>1. i \in Pending(d) /\ j \in Pending(e) /\ wakes[d][i].tcb = wakes[e][j].tcb
        BY <1>3, <1>6, <2>6, <3>2
      <4>2. QED
        <5>1. Once(d, i, e, j)
          BY <4>1 DEF SInv, PlacesOK, PendingOnce
        <5>2. QED
          BY <4>1, <5>1 DEF Once
    <3>3. CASE d = c /\ e # c
      <4>1. wakes'[d][i].tcb \in W
        BY <1>3, <1>5, <1>c, <3>3
      <4>2. j \in Pending(e) /\ wakes'[e][j] = wakes[e][j]
        BY <1>3, <1>6, <3>3
      <4>3. Flying(wakes'[e][j].tcb)
        BY <4>2, PendingFlies
      <4>4. QED
        BY <1>d, <2>6, <4>1, <4>3
    <3>4. CASE d # c /\ e = c
      <4>1. wakes'[e][j].tcb \in W
        BY <1>3, <1>5, <1>c, <3>4
      <4>2. i \in Pending(d) /\ wakes'[d][i] = wakes[d][i]
        BY <1>3, <1>6, <3>4
      <4>3. Flying(wakes'[d][i].tcb)
        BY <4>2, PendingFlies
      <4>4. QED
        BY <1>d, <2>6, <4>1, <4>3
    <3>5. QED
      BY <3>1, <3>2, <3>3, <3>4
  <2>7. \A t \in Threads : state'[t] = "Ready" => Queued(t)' \/ Flying(t)'
    <3>1. \A t \in Threads : state[t] = "Ready" => Queued(t) \/ Flying(t)
      BY DEF SInv, PlacesOK, ReadyPlaced
    <3>2. \A t \in Threads : state'[t] = "Ready" => t \in W \/ state[t] = "Ready"
      BY <1>f, TcbFacts
    <3>3. QED
      BY <1>12, <2>3, <3>1, <3>2
  <2>8. ASSUME NEW d \in Cpus, NEW u, u = victim'[d].tcb, u # NoTcb PROVE ~Queued(u)' /\ ~Flying(u)'
    <3>1. ~Queued(u) /\ ~Flying(u)
      BY <1>1, <2>8 DEF SInv, PlacesOK, VictimsGone
    <3>2. u \notin W
      BY <1>1, <1>d, <2>8
    <3>3. QED
      BY <1>12, <2>3, <3>1, <3>2
  <2>9. QED
    <3>1. QueuedReady' /\ ReadyPlaced'
      BY <2>4, <2>7 DEF QueuedReady, ReadyPlaced
    <3>2. PendingReady'
      <4>1. ASSUME NEW d \in Cpus, NEW i \in Pending(d)' PROVE ReadyAt(d, i)'
        <5>1. PICK u : u = wakes'[d][i].tcb
          OBVIOUS
        <5>2. state'[u] \in {"Ready", "Stopped"} /\ wakes'[d][i].prio = priority'[u] /\ ~Queued(u)'
          BY <2>5, <5>1
        <5>3. QED
          BY <5>1, <5>2 DEF ReadyAt
      <4>2. QED
        BY <4>1 DEF PendingReady
    <3>3. PendingOnce'
      BY <2>6 DEF PendingOnce, Once
    <3>4. VictimsGone'
      BY <2>8 DEF VictimsGone
    <3>5. QED
      BY <3>1, <3>2, <3>3, <3>4 DEF PlacesOK
<1>18. StacksOK'
  <2>1. ASSUME NEW d \in Cpus PROVE (Away(d)' <=> Away(d)) /\ (pc'[d] = "switch" => pc[d] = "switch")
    <3>0. (Away(c)' <=> Away(c)) /\ pc'[c] # "switch"
      BY <1>2, <1>4, <1>5
    <3>1. CASE d = c
      BY <3>0, <3>1
    <3>2. CASE d # c
      BY <1>2, <1>6, <3>2
    <3>3. QED
      BY <3>1, <3>2
  <2>2. ASSUME NEW d \in Cpus, context_saved[stack[d]], NEW e \in Cpus, NEW i \in Pending(e)',
               wakes'[e][i].tcb = stack[d]
        PROVE  wakes'[e][i].cpu = d
    <3>1. CASE e = c
      BY <1>3, <1>5, <1>e, <2>2, <3>1
    <3>2. CASE e # c
      <4>1. Pending(e)' = Pending(e) /\ wakes'[e] = wakes[e]
        BY <1>3, <1>6, <3>2
      <4>2. OnlyHere(d)
        BY <2>2 DEF SInv, StacksOK, StackOK
      <4>3. QED
        BY <2>2, <4>1, <4>2 DEF OnlyHere
    <3>3. QED
      BY <3>1, <3>2
  <2>3. ASSUME NEW d \in Cpus PROVE StackOK(d)'
    <3>1. StackOK(d)
      BY DEF SInv, StacksOK
    <3>2. ASSUME context_saved[stack[d]] PROVE OnlyHere(d)'
      <4>1. OnlyHere(d)
        BY <3>1, <3>2 DEF StackOK
      <4>2. stack[d] \notin waiting' /\ (stack[d] \in sleep_list' => preferred_cpu[stack[d]] = d)
        BY <1>g, <4>1 DEF OnlyHere
      <4>3. \A e \in Cpus : current[e] = stack[d] \/ stack[d] \in QueuedOn(e) => e = d
        BY <4>1 DEF OnlyHere
      <4>4. \A e \in Cpus : \A i \in Pending(e)' : wakes'[e][i].tcb = stack[d] => wakes'[e][i].cpu = d
        BY <2>2, <3>2
      <4>5. QED
        BY <1>1, <1>12, <4>2, <4>3, <4>4 DEF OnlyHere
    <3>3. QED
      BY <1>1, <2>1, <3>1, <3>2 DEF StackOK
  <2>4. QED
    BY <2>3 DEF StacksOK
<1>19. NoMissedWakeup'
  <2>1. pc'[c] # "halt" /\ pc[c] # "ipi"
    BY <1>2, <1>a
  <2>2. QED
    BY <1>1, <1>2, <1>3, <2>1, WakeupsKept DEF SInv
<1>20. QED
  BY <1>11, <1>12, <1>14, <1>15, <1>16, <1>17, <1>18, <1>19 DEF SInv

-----------------------------------------------------------------------------
(* Wakeups: making threads Ready, enqueue_and_wake, the idle loop.         *)

\* One TCB enters the run queues of CPU k at level p.
EnqueuedAt(k, t, p) ==
  /\ SchedsOK'
  /\ QueuedOn(k)' = QueuedOn(k) \union {t} /\ \A d \in Cpus \ {k} : QueuedOn(d)' = QueuedOn(d)
  /\ \A u : Queued(u)' <=> Queued(u) \/ u = t
  /\ \A d \in Cpus \ {k} : sched'[d] = sched[d]
  /\ \A d \in Cpus, l \in Levels : \A u \in Range(sched'[d].queues[l]) :
       (u = t /\ d = k /\ l = p) \/ (u # t /\ u \in Range(sched[d].queues[l]))

\* What enqueue() does to the run queues of all CPUs.
LEMMA Enqueued ==
  ASSUME SInv, EnqueueFacts, NEW k \in Cpus, NEW t \in Tcbs, NEW p \in Levels, ~Queued(t),
         sched' = [sched EXCEPT ![k] = enqueue(sched[k], t, p)]
  PROVE  EnqueuedAt(k, t, p)
<1>1. sched \in [Cpus -> Scheds] /\ \A d \in Cpus : SchedOK(sched[d])
  BY DEF SInv, SchedsOK
<1>2. \A d \in Cpus : t \notin QueuedOn(d)
  BY DEF Queued
<1>3. \A d \in Cpus, l \in Levels : t \notin Range(sched[d].queues[l])
  BY <1>2 DEF QueuedOn
<1>4. PICK s \in Scheds : s = sched[k] /\ SchedOK(s) /\ t \notin Range(s.queues[p])
  BY <1>1, <1>3
<1>5. PICK r : r = enqueue(s, t, p)
  OBVIOUS
<1>6. /\ SchedOK(r) /\ Range(r.queues[p]) = Range(s.queues[p]) \union {t}
      /\ \A l \in Levels \ {p} : Range(r.queues[l]) = Range(s.queues[l])
  <2>1. Added(s, enqueue(s, t, p), t, p)
    BY <1>4 DEF EnqueueFacts
  <2>2. QED
    BY <1>5, <2>1 DEF Added
<1>7. r \in Scheds
  BY <1>6 DEF SchedOK
<1>8. /\ sched' \in [Cpus -> Scheds] /\ sched'[k] = r /\ \A d \in Cpus \ {k} : sched'[d] = sched[d]
  BY <1>1, <1>4, <1>5, <1>7
<1>9. SchedsOK'
  BY <1>1, <1>6, <1>8 DEF SchedsOK
<1>10. QueuedOn(k)' = QueuedOn(k) \union {t}
  BY <1>4, <1>6, <1>8, SMT DEF QueuedOn
<1>11. \A d \in Cpus \ {k} : QueuedOn(d)' = QueuedOn(d)
  BY <1>8 DEF QueuedOn
<1>12. \A u : Queued(u)' <=> Queued(u) \/ u = t
  BY <1>10, <1>11 DEF Queued
<1>13. \A d \in Cpus, l \in Levels : \A u \in Range(sched'[d].queues[l]) :
              (u = t /\ d = k /\ l = p) \/ (u # t /\ u \in Range(sched[d].queues[l]))
  BY <1>3, <1>4, <1>6, <1>8, SMT
<1>14. QED
  BY <1>8, <1>9, <1>10, <1>11, <1>12, <1>13 DEF EnqueuedAt

\* enqueue_and_wake() under the lock of the target.
LEMMA EnqueueStep ==
  ASSUME SInv, EnqueueFacts, NEW c \in Cpus, enqueue_and_wake(c)
  PROVE  SInv'
<1>1. /\ current' = current /\ stack' = stack /\ after' = after /\ wakes' = wakes
      /\ locked' = locked /\ victim' = victim /\ freed' = freed /\ state' = state
      /\ priority' = priority /\ cpu_affinity' = cpu_affinity
      /\ context_saved' = context_saved /\ waiting' = waiting /\ sleep_list' = sleep_list
      /\ idle_mask' = idle_mask /\ ipi' = ipi
  BY DEF enqueue_and_wake, callVars, wakeVars, idleVars
<1>2. /\ pc' \in [Cpus -> PcValues] /\ pc'[c] = "ipi" /\ \A d \in Cpus \ {c} : pc'[d] = pc[d]
      /\ pc[c] = "enqueue"
  BY PcStep DEF PcValues, enqueue_and_wake
<1>3. wakes[c] \in Seq(Wakeup) /\ wakes[c] # <<>>
  <2>1. wakes \in [Cpus -> Seq(Wakeup)] /\ CpuOK(c)
    BY DEF SInv, Types, CpusOK
  <2>2. QED
    BY <1>2, <2>1 DEF CpuOK
<1>4. PICK w \in Wakeup : w = Head(wakes[c]) /\ w = wakes[c][1] /\ 1 \in DOMAIN wakes[c]
  BY <1>3, SMT
<1>5. PICK t \in Threads, k \in Cpus, p \in Priorities : t = w.tcb /\ k = w.cpu /\ p = w.prio
  BY DEF Wakeup
<1>6. 1 \in Pending(c)
  BY <1>2, <1>4 DEF Pending
<1>7. t \in Tcbs /\ p \in Levels /\ state[t] \in {"Ready", "Stopped"} /\ p = priority[t] /\ ~Queued(t)
      /\ Flying(t)
  <2>1. t \in Tcbs /\ p \in Levels
    BY TcbFacts DEF Levels
  <2>2. state[t] \in {"Ready", "Stopped"} /\ p = priority[t] /\ ~Queued(t)
    <3>1. ReadyAt(c, 1)
      BY <1>6 DEF SInv, PlacesOK, PendingReady
    <3>2. QED
      BY <1>4, <1>5, <3>1 DEF ReadyAt
  <2>3. Flying(t)
    BY <1>4, <1>5, <1>6 DEF Flying
  <2>4. QED
    BY <2>1, <2>2, <2>3
<1>8. sched' = [sched EXCEPT ![k] = enqueue(sched[k], t, p)]
  BY <1>4, <1>5 DEF enqueue_and_wake
<1>9. /\ preferred_cpu' \in [Tcbs -> Cpus] /\ preferred_cpu'[t] = k
      /\ \A u \in Tcbs \ {t} : preferred_cpu'[u] = preferred_cpu[u]
  <2>1. preferred_cpu \in [Tcbs -> Cpus] /\ preferred_cpu' = [preferred_cpu EXCEPT ![t] = k]
    BY <1>4, <1>5 DEF enqueue_and_wake, SInv, Types
  <2>2. QED
    BY <1>7, <2>1
<1>10. /\ SchedsOK'
       /\ QueuedOn(k)' = QueuedOn(k) \union {t} /\ \A d \in Cpus \ {k} : QueuedOn(d)' = QueuedOn(d)
       /\ \A u : Queued(u)' <=> Queued(u) \/ u = t
       /\ \A d \in Cpus \ {k} : sched'[d] = sched[d]
       /\ \A d \in Cpus, l \in Levels : \A u \in Range(sched'[d].queues[l]) :
            (u = t /\ d = k /\ l = p) \/ (u # t /\ u \in Range(sched[d].queues[l]))
  <2>1. EnqueuedAt(k, t, p)
    BY <1>7, <1>8, Enqueued
  <2>2. QED
    BY <2>1 DEF EnqueuedAt
<1>11. /\ \A d \in Cpus : (Leaving(d)' <=> Leaving(d)) /\ (Away(d)' <=> Away(d))
       /\ \A d \in Cpus \ {c} : Pending(d)' = Pending(d)
       /\ Pending(c)' = Pending(c) \ {1}
  <2>1. \A d \in Cpus : (Leaving(d)' <=> Leaving(d)) /\ (Away(d)' <=> Away(d))
    BY <1>1, <1>2, CpuStays DEF Leaving, Away
  <2>2. \A d \in Cpus \ {c} : Pending(d)' = Pending(d)
    BY <1>1, <1>2 DEF Pending
  <2>3. Pending(c)' = Pending(c) \ {1}
    BY <1>1, <1>2 DEF Pending
  <2>4. QED
    BY <2>1, <2>2, <2>3
<1>12. ASSUME NEW d \in Cpus, NEW i \in Pending(d)'
       PROVE  i \in Pending(d) /\ wakes[d][i].tcb # t
  <2>1. i \in Pending(d) /\ ~(d = c /\ i = 1)
    BY <1>11
  <2>2. wakes[c][1].tcb = t
    BY <1>4, <1>5
  <2>3. QED
    <3>1. Once(c, 1, d, i)
      BY <1>6, <2>1 DEF SInv, PlacesOK, PendingOnce
    <3>2. QED
      BY <2>1, <2>2, <3>1 DEF Once
<1>13. \A u : Flying(u)' <=> Flying(u) /\ u # t
  <2>1. ASSUME NEW u, Flying(u)' PROVE Flying(u) /\ u # t
    BY <1>1, <1>12, <2>1 DEF Flying
  <2>2. ASSUME NEW u, Flying(u), u # t PROVE Flying(u)'
    <3>1. PICK d \in Cpus : \E i \in Pending(d) : wakes[d][i].tcb = u
      BY <2>2 DEF Flying
    <3>2. PICK i \in Pending(d) : wakes[d][i].tcb = u
      BY <3>1
    <3>3. i \in Pending(d)'
      BY <1>4, <1>5, <1>11, <2>2, <3>2
    <3>4. QED
      BY <1>1, <3>2, <3>3 DEF Flying
  <2>3. QED
    BY <2>1, <2>2
<1>14. Types'
  <2>1. Types
    BY DEF SInv
  <2>2. QED
    BY <1>1, <1>2, <1>9, <2>1 DEF Types
<1>15. QueuedWhereSought'
  <2>1. ASSUME NEW d \in Cpus, NEW l \in Levels, NEW u \in Range(sched'[d].queues[l])
        PROVE  preferred_cpu'[u] = d /\ priority'[u] = l
    <3>1. CASE u = t /\ d = k /\ l = p
      BY <1>1, <1>7, <1>9, <3>1
    <3>2. CASE u # t /\ u \in Range(sched[d].queues[l])
      <4>1. preferred_cpu[u] = d /\ priority[u] = l
        BY <3>2 DEF SInv, QueuedWhereSought
      <4>2. u \in Tcbs
        BY <3>2, RangeInTcbs DEF SInv
      <4>3. QED
        BY <1>1, <1>9, <3>2, <4>1, <4>2
    <3>3. QED
      BY <1>10, <3>1, <3>2
  <2>2. QED
    BY <2>1 DEF QueuedWhereSought
<1>16. CpusOK'
  <2>1. \A d \in Cpus : CpuOK(d) /\ current[d] \in Tcbs
    <3>1. current \in [Cpus -> Tcbs]
      BY DEF SInv, Types
    <3>2. QED
      BY <3>1 DEF SInv, CpusOK
  <2>2. ASSUME NEW d \in Cpus, ~Leaving(d)
        PROVE  state'[current[d]] = "Running" /\ preferred_cpu'[current[d]] = d
    <3>1. state[current[d]] = "Running" /\ preferred_cpu[current[d]] = d
      BY <2>1, <2>2 DEF CpuOK
    <3>2. QED
      BY <1>1, <1>7, <1>9, <2>1, <3>1
  <2>3. CpuOK(c)'
    <3>1. CpuOK(c)
      BY <2>1
    <3>2. QED
      BY <1>1, <1>2, <1>11, <2>2, <3>1 DEF CpuOK
  <2>4. ASSUME NEW d \in Cpus \ {c} PROVE CpuOK(d)'
    BY <1>1, <1>2, <2>1, <2>2, CpuKept
  <2>5. QED
    BY <2>3, <2>4 DEF CpusOK
<1>17. Claimed' /\ OneStack'
  BY <1>1, <1>11, ClaimsKept DEF SInv, OneStack
<1>18. ThreadsOK'
  <2>1. \A d \in Cpus : preferred_cpu'[Idle(d)] = d
    <3>1. \A d \in Cpus : preferred_cpu[Idle(d)] = d
      BY DEF SInv, ThreadsOK
    <3>2. QED
      BY <1>9, <3>1, TcbFacts
  <2>2. QED
    BY <1>1, <2>1 DEF SInv, ThreadsOK
<1>19. PlacesOK'
  <2>1. \A u \in Tcbs : Queued(u)' => state'[u] \in {"Ready", "Stopped"}
    BY <1>1, <1>7, <1>10 DEF SInv, PlacesOK, QueuedReady
  <2>2. ASSUME NEW d \in Cpus, NEW i \in Pending(d)', NEW u, u = wakes'[d][i].tcb
        PROVE  /\ state'[u] \in {"Ready", "Stopped"} /\ wakes'[d][i].prio = priority'[u]
               /\ ~Queued(u)'
    <3>1. i \in Pending(d) /\ u = wakes[d][i].tcb /\ u # t
      BY <1>1, <1>12, <2>2
    <3>2. state[u] \in {"Ready", "Stopped"} /\ wakes[d][i].prio = priority[u] /\ ~Queued(u)
      BY <3>1 DEF SInv, PlacesOK, PendingReady, ReadyAt
    <3>3. QED
      BY <1>1, <1>10, <3>1, <3>2
  <2>3. ASSUME NEW d \in Cpus, NEW e \in Cpus, NEW i \in Pending(d)', NEW j \in Pending(e)',
               wakes'[d][i].tcb = wakes'[e][j].tcb
        PROVE  d = e /\ i = j
    <3>1. i \in Pending(d) /\ j \in Pending(e)
      BY <1>12
    <3>2. QED
      <4>1. Once(d, i, e, j)
        BY <3>1 DEF SInv, PlacesOK, PendingOnce
      <4>2. QED
        BY <1>1, <2>3, <4>1 DEF Once
  <2>4. \A u \in Threads : state'[u] = "Ready" => Queued(u)' \/ Flying(u)'
    BY <1>1, <1>10, <1>13 DEF SInv, PlacesOK, ReadyPlaced
  <2>5. ASSUME NEW d \in Cpus, NEW u, u = victim'[d].tcb, u # NoTcb PROVE ~Queued(u)' /\ ~Flying(u)'
    <3>1. ~Queued(u) /\ ~Flying(u)
      BY <1>1, <2>5 DEF SInv, PlacesOK, VictimsGone
    <3>2. QED
      BY <1>7, <1>10, <1>13, <3>1
  <2>6. QED
    <3>1. QueuedReady' /\ ReadyPlaced'
      BY <2>1, <2>4 DEF QueuedReady, ReadyPlaced
    <3>2. ASSUME NEW d \in Cpus, NEW i \in Pending(d)' PROVE ReadyAt(d, i)'
      <4>1. PICK u : u = wakes'[d][i].tcb
        OBVIOUS
      <4>2. state'[u] \in {"Ready", "Stopped"} /\ wakes'[d][i].prio = priority'[u] /\ ~Queued(u)'
        BY <2>2, <4>1
      <4>3. QED
        BY <4>1, <4>2 DEF ReadyAt
    <3>3. PendingReady' /\ PendingOnce'
      BY <2>3, <3>2 DEF PendingReady, PendingOnce, Once
    <3>4. VictimsGone'
      BY <2>5 DEF VictimsGone
    <3>5. QED
      BY <3>1, <3>3, <3>4 DEF PlacesOK
<1>20. StacksOK'
  <2>1. \A d \in Cpus : stack[d] \in Tcbs
    BY DEF SInv, Types
  <2>2. ASSUME NEW d \in Cpus, context_saved[stack[d]], NEW e \in Cpus, stack[d] \in QueuedOn(e)'
        PROVE  e = d
    <3>1. CASE stack[d] \in QueuedOn(e)
      BY <2>2, <3>1 DEF SInv, StacksOK, StackOK, OnlyHere
    <3>2. CASE e = k /\ stack[d] = t
      <4>1. OnlyHere(d) /\ wakes[c][1].tcb = t /\ wakes[c][1].cpu = k
        BY <1>4, <1>5, <2>2 DEF SInv, StacksOK, StackOK
      <4>2. QED
        BY <1>6, <3>2, <4>1 DEF OnlyHere
    <3>3. QED
      BY <1>10, <2>2, <3>1, <3>2
  <2>3. ASSUME NEW d \in Cpus, context_saved[stack[d]], stack[d] \in sleep_list
        PROVE  preferred_cpu'[stack[d]] = d
    <3>1. preferred_cpu[stack[d]] = d
      BY <2>3 DEF SInv, StacksOK, StackOK, OnlyHere
    <3>2. state[stack[d]] = "Blocked"
      BY <2>3 DEF SInv, ThreadsOK
    <3>3. QED
      BY <1>7, <1>9, <2>1, <3>1, <3>2
  <2>4. ASSUME NEW d \in Cpus, context_saved[stack[d]], NEW e \in Cpus, NEW i \in Pending(e)',
               wakes[e][i].tcb = stack[d]
        PROVE  wakes[e][i].cpu = d
    <3>1. i \in Pending(e)
      BY <1>12
    <3>2. QED
      BY <2>4, <3>1 DEF SInv, StacksOK, StackOK, OnlyHere
  <2>5. \A d \in Cpus : pc'[d] = "switch" => pc[d] = "switch"
    BY <1>2
  <2>6. ASSUME NEW d \in Cpus
        PROVE  /\ Away(d) => ~context_saved[stack[d]]
               /\ pc[d] = "switch" => \A e \in Cpus \ {d} : stack[e] # current[d]
               /\ context_saved[stack[d]] => \A e \in Cpus : current[e] = stack[d] => e = d
               /\ context_saved[stack[d]] => stack[d] \notin waiting
    BY DEF SInv, StacksOK, StackOK, OnlyHere
  <2>7. QED
    <3>1. ASSUME NEW d \in Cpus, context_saved[stack[d]] PROVE OnlyHere(d)'
      BY <1>1, <2>2, <2>3, <2>4, <2>6, <3>1 DEF OnlyHere
    <3>2. ASSUME NEW d \in Cpus PROVE StackOK(d)'
      BY <1>1, <1>11, <2>5, <2>6, <3>1 DEF StackOK
    <3>3. QED
      BY <3>2 DEF StacksOK
<1>21. NoMissedWakeup'
  <2>1. ASSUME NEW d \in Cpus, pc'[d] = "halt", sched'[d].non_empty # {}, d \notin ipi'
        PROVE  \E e \in Cpus \ {d} : pc'[e] = "ipi" /\ Head(wakes'[e]).cpu = d
    <3>1. CASE d = k
      BY <1>1, <1>2, <1>4, <1>5, <2>1, <3>1
    <3>2. CASE d # k
      <4>1. pc[d] = "halt" /\ sched[d].non_empty # {} /\ d \notin ipi
        BY <1>1, <1>2, <1>10, <2>1, <3>2
      <4>2. PICK e \in Cpus \ {d} : pc[e] = "ipi" /\ Head(wakes[e]).cpu = d
        BY <4>1 DEF SInv, NoMissedWakeup
      <4>3. QED
        BY <1>1, <1>2, <4>2
    <3>3. QED
      BY <3>1, <3>2
  <2>2. QED
    BY <2>1 DEF NoMissedWakeup
<1>22. QED
  BY <1>10, <1>14, <1>15, <1>16, <1>17, <1>18, <1>19, <1>20, <1>21 DEF SInv

\* A queue without its first entry.
LEMMA TailFacts ==
  ASSUME NEW S, NEW r \in Seq(S), r # <<>>
  PROVE  /\ Tail(r) \in Seq(S) /\ (Len(r) = 1 <=> Tail(r) = <<>>) /\ (Len(r) > 1 => Len(r) # 1)
         /\ \A i \in DOMAIN Tail(r) : i + 1 \in DOMAIN r /\ i + 1 # 1 /\ Tail(r)[i] = r[i + 1]
         /\ \A j \in DOMAIN r : j # 1 => \E i \in DOMAIN Tail(r) : j = i + 1
<1>1. /\ Tail(r) \in Seq(S) /\ Len(r) \in Nat /\ Len(Tail(r)) = Len(r) - 1
      /\ DOMAIN r = 1..Len(r) /\ DOMAIN Tail(r) = 1..(Len(r) - 1) /\ Len(r) # 0
  BY SMT
<1>2. \A i \in 1..(Len(r) - 1) : Tail(r)[i] = r[i + 1]
  BY SMT
<1>3. Len(r) = 1 <=> Tail(r) = <<>>
  <2>1. PICK z \in Seq(S) : z = Tail(r)
    BY <1>1
  <2>2. Len(z) = 0 <=> z = <<>>
    BY SMT
  <2>3. Len(z) = Len(r) - 1
    BY <1>1, <2>1
  <2>4. Len(r) = 1 <=> Len(z) = 0
    BY <1>1, <2>3, SMT
  <2>5. QED
    BY <2>1, <2>2, <2>4
<1>4. \A i \in 1..(Len(r) - 1) : i + 1 \in 1..Len(r) /\ i + 1 # 1
  BY <1>1, SMT
<1>5. ASSUME NEW j \in 1..Len(r), j # 1 PROVE \E i \in 1..(Len(r) - 1) : j = i + 1
  <2>1. j - 1 \in 1..(Len(r) - 1) /\ j = (j - 1) + 1
    BY <1>1, <1>5, SMT
  <2>2. QED
    BY <2>1
<1>6. Len(r) > 1 => Len(r) # 1
  <2>1. ~(1 > 1)
    BY SMT
  <2>2. QED
    BY <2>1
<1>7. QED
  BY <1>1, <1>2, <1>3, <1>4, <1>5, <1>6

\* A wakeup that is pending after CPU c has dropped its first was pending
\* before, one place later.
Shifted(c, d, i, j) == wakes'[d][i] = wakes[d][j] /\ (d = c => j = i + 1) /\ (d # c => j = i)

\* enqueue_and_wake() after the lock: the next wakeup, or back to where the
\* CPU was.
LEMMA IpiStep ==
  ASSUME SInv, NEW c \in Cpus, wake_idle_cpu(c)
  PROVE  SInv'
<1>1. /\ sched' = sched /\ current' = current /\ stack' = stack
      /\ locked' = locked /\ victim' = victim /\ freed' = freed /\ state' = state
      /\ priority' = priority /\ cpu_affinity' = cpu_affinity /\ preferred_cpu' = preferred_cpu
      /\ context_saved' = context_saved /\ waiting' = waiting /\ sleep_list' = sleep_list
      /\ idle_mask' = idle_mask /\ pc[c] = "ipi"
  BY DEF wake_idle_cpu, callVars, threadVars
<1>2. /\ CpuOK(c) /\ after[c] \in {"run", "block", "awake"} /\ wakes[c] # <<>>
      /\ wakes[c] \in Seq(Wakeup) /\ victim[c].tcb = NoTcb
  <2>1. CpuOK(c) /\ wakes \in [Cpus -> Seq(Wakeup)]
    BY DEF SInv, CpusOK, Types
  <2>2. QED
    BY <1>1, <2>1 DEF CpuOK
<1>3. PICK w \in Wakeup : w = Head(wakes[c]) /\ w = wakes[c][1]
  BY <1>2, SMT
<1>4. PICK k \in Cpus : k = w.cpu
  BY DEF Wakeup
<1>5. \E v \in PcValues, a \in PcValues :
        /\ Goto(c, v) /\ after' = [after EXCEPT ![c] = a]
        /\ \/ Len(wakes[c]) = 1 /\ v = after[c] /\ a = "run"
           \/ Len(wakes[c]) > 1 /\ v = "enqueue" /\ a = after[c]
  <2>1. after \in [Cpus -> PcValues] /\ after[c] \in PcValues /\ after = [after EXCEPT ![c] = after[c]]
    BY DEF SInv, Types
  <2>2. "run" \in PcValues /\ "enqueue" \in PcValues
    BY DEF PcValues
  <2>3. \/ Len(wakes[c]) = 1 /\ Goto(c, after[c]) /\ after' = [after EXCEPT ![c] = "run"]
        \/ Len(wakes[c]) > 1 /\ Goto(c, "enqueue") /\ after' = after
    BY DEF wake_idle_cpu
  <2>4. QED
    BY <2>1, <2>2, <2>3
<1>6. PICK v \in PcValues, a \in PcValues :
        /\ Goto(c, v) /\ after' = [after EXCEPT ![c] = a]
        /\ \/ Len(wakes[c]) = 1 /\ v = after[c] /\ a = "run"
           \/ Len(wakes[c]) > 1 /\ v = "enqueue" /\ a = after[c]
  BY <1>5
<1>7. pc' \in [Cpus -> PcValues] /\ pc'[c] = v /\ \A d \in Cpus \ {c} : pc'[d] = pc[d]
  BY <1>6, PcStep
<1>8. after' \in [Cpus -> PcValues] /\ after'[c] = a /\ \A d \in Cpus \ {c} : after'[d] = after[d]
  <2>1. after \in [Cpus -> PcValues]
    BY DEF SInv, Types
  <2>2. QED
    BY <1>6, <2>1
<1>9. PICK q \in Seq(Wakeup) :
        /\ q = Tail(wakes[c]) /\ (Len(wakes[c]) = 1 <=> q = <<>>)
        /\ \A i \in DOMAIN q : i + 1 \in DOMAIN wakes[c] /\ i + 1 # 1 /\ q[i] = wakes[c][i + 1]
        /\ \A j \in DOMAIN wakes[c] : j # 1 => \E i \in DOMAIN q : j = i + 1
  <2>1. /\ Tail(wakes[c]) \in Seq(Wakeup) /\ (Len(wakes[c]) = 1 <=> Tail(wakes[c]) = <<>>)
        /\ \A i \in DOMAIN Tail(wakes[c]) :
             i + 1 \in DOMAIN wakes[c] /\ i + 1 # 1 /\ Tail(wakes[c])[i] = wakes[c][i + 1]
        /\ \A j \in DOMAIN wakes[c] : j # 1 => \E i \in DOMAIN Tail(wakes[c]) : j = i + 1
    BY <1>2, TailFacts
  <2>2. QED
    BY <2>1
<1>10. wakes' \in [Cpus -> Seq(Wakeup)] /\ wakes'[c] = q /\ \A d \in Cpus \ {c} : wakes'[d] = wakes[d]
  <2>1. wakes \in [Cpus -> Seq(Wakeup)] /\ wakes' = [wakes EXCEPT ![c] = q]
    BY <1>9 DEF SInv, Types, wake_idle_cpu
  <2>2. QED
    BY <2>1
<1>11. /\ v \in {"run", "block", "awake", "enqueue"} /\ (v = "enqueue" <=> q # <<>>)
       /\ a \in {"run", "block", "awake"}
       /\ (v = "block" \/ (v = "enqueue" /\ a = "block")) <=> after[c] = "block"
  <2>1. after[c] = "run" \/ after[c] = "block" \/ after[c] = "awake"
    BY <1>2
  <2>2. CASE Len(wakes[c]) = 1 /\ v = after[c] /\ a = "run"
    BY <1>9, <2>1, <2>2
  <2>3. CASE Len(wakes[c]) > 1 /\ v = "enqueue" /\ a = after[c]
    <3>1. Len(wakes[c]) # 1
      BY <1>2, <2>3, TailFacts
    <3>2. QED
      BY <1>9, <2>1, <2>3, <3>1
  <2>4. QED
    BY <1>6, <2>2, <2>3
<1>12. /\ \A d \in Cpus \ {c} : (Leaving(d)' <=> Leaving(d)) /\ (Away(d)' <=> Away(d)) /\ Pending(d)' = Pending(d)
       /\ (Leaving(c)' <=> Leaving(c)) /\ (Away(c)' <=> Away(c))
       /\ Pending(c)' = DOMAIN q /\ Pending(c) = {j \in DOMAIN wakes[c] : j # 1}
  <2>1. \A d \in Cpus \ {c} : (Leaving(d)' <=> Leaving(d)) /\ (Away(d)' <=> Away(d)) /\ Pending(d)' = Pending(d)
    BY <1>7, <1>8, <1>10 DEF Leaving, Away, Pending
  <2>2. Leaving(c)' <=> Leaving(c)
    BY <1>1, <1>7, <1>8, <1>11 DEF Leaving
  <2>3. ~Away(c)' /\ ~Away(c)
    BY <1>1, <1>7, <1>11 DEF Away
  <2>4. Pending(c)' = DOMAIN q
    BY <1>7, <1>10, <1>11 DEF Pending
  <2>5. Pending(c) = {j \in DOMAIN wakes[c] : j # 1}
    BY <1>1 DEF Pending
  <2>6. QED
    BY <2>1, <2>2, <2>3, <2>4, <2>5
<1>13. \A d \in Cpus : (Leaving(d)' <=> Leaving(d)) /\ (Away(d)' <=> Away(d))
  BY <1>12
<1>14. ipi \subseteq ipi' /\ ipi' \subseteq Cpus /\ (k # c /\ k \in idle_mask => k \in ipi')
  <2>1. ipi \subseteq Cpus
    BY DEF SInv, Types
  <2>2. ipi' = IF k # c /\ k \in idle_mask THEN ipi \union {k} ELSE ipi
    BY <1>3, <1>4 DEF wake_idle_cpu
  <2>3. QED
    BY <2>1, <2>2
<1>15. ASSUME NEW d \in Cpus, NEW i \in Pending(d)'
       PROVE  \E j \in Pending(d) : Shifted(c, d, i, j)
  <2>1. CASE d = c
    BY <1>9, <1>10, <1>12, <2>1 DEF Shifted
  <2>2. CASE d # c
    BY <1>10, <1>12, <2>2 DEF Shifted
  <2>3. QED
    BY <2>1, <2>2
<1>16. \A u : Flying(u)' <=> Flying(u)
  <2>1. ASSUME NEW u, Flying(u)' PROVE Flying(u)
    <3>1. PICK d \in Cpus : \E i \in Pending(d)' : wakes'[d][i].tcb = u
      BY <2>1 DEF Flying
    <3>2. PICK i \in Pending(d)' : wakes'[d][i].tcb = u
      BY <3>1
    <3>3. \E j \in Pending(d) : wakes[d][j].tcb = u
      BY <1>15, <3>2 DEF Shifted
    <3>4. QED
      BY <3>3 DEF Flying
  <2>2. ASSUME NEW u, Flying(u) PROVE Flying(u)'
    <3>1. PICK d \in Cpus : \E j \in Pending(d) : wakes[d][j].tcb = u
      BY <2>2 DEF Flying
    <3>2. PICK j \in Pending(d) : wakes[d][j].tcb = u
      BY <3>1
    <3>3. \E i \in Pending(d)' : wakes'[d][i].tcb = u
      <4>1. CASE d = c
        <5>1. j \in DOMAIN wakes[c] /\ j # 1
          BY <1>12, <3>2, <4>1
        <5>2. PICK i \in DOMAIN q : j = i + 1 /\ q[i] = wakes[c][j]
          BY <1>9, <5>1
        <5>3. QED
          BY <1>10, <1>12, <3>2, <4>1, <5>2
      <4>2. CASE d # c
        BY <1>10, <1>12, <3>2, <4>2
      <4>3. QED
        BY <4>1, <4>2
    <3>4. QED
      BY <3>3 DEF Flying
  <2>3. QED
    BY <2>1, <2>2
<1>17. Types'
  <2>1. Types
    BY DEF SInv
  <2>2. QED
    BY <1>1, <1>7, <1>8, <1>10, <1>14, <2>1 DEF Types
<1>18. SchedsOK' /\ QueuedWhereSought' /\ (\A d \in Cpus : QueuedOn(d)' = QueuedOn(d))
      /\ (\A t : (Queued(t)' <=> Queued(t)))
  BY <1>1, QueuesKept DEF SInv
<1>19. CpusOK'
  <2>1. \A d \in Cpus : /\ CpuOK(d)
                        /\ ~Leaving(d) => state[current[d]] = "Running" /\ preferred_cpu[current[d]] = d
    BY DEF SInv, CpusOK, CpuOK
  <2>2. CpuOK(c)'
    BY <1>1, <1>2, <1>7, <1>8, <1>10, <1>11, <1>12, <2>1 DEF CpuOK
  <2>3. ASSUME NEW d \in Cpus \ {c} PROVE CpuOK(d)'
    BY <1>1, <1>7, <1>8, <1>10, <2>1, CpuKept
  <2>4. QED
    BY <2>2, <2>3 DEF CpusOK
<1>20. Claimed' /\ ThreadsOK' /\ OneStack'
  BY <1>1, <1>13, ClaimsKept, ThreadsKept DEF SInv, OneStack
<1>21. PlacesOK'
  <2>1. \A u \in Tcbs : Queued(u)' => state'[u] \in {"Ready", "Stopped"}
    BY <1>1, <1>18 DEF SInv, PlacesOK, QueuedReady
  <2>2. ASSUME NEW d \in Cpus, NEW i \in Pending(d)', NEW u, u = wakes'[d][i].tcb
        PROVE  /\ state'[u] \in {"Ready", "Stopped"} /\ wakes'[d][i].prio = priority'[u]
               /\ ~Queued(u)'
    <3>1. PICK j \in Pending(d) : wakes'[d][i] = wakes[d][j]
      BY <1>15 DEF Shifted
    <3>2. state[u] \in {"Ready", "Stopped"} /\ wakes[d][j].prio = priority[u] /\ ~Queued(u)
      <4>1. ReadyAt(d, j)
        BY <3>1 DEF SInv, PlacesOK, PendingReady
      <4>2. QED
        BY <2>2, <3>1, <4>1 DEF ReadyAt
    <3>3. QED
      BY <1>1, <1>18, <3>1, <3>2
  <2>3. ASSUME NEW d \in Cpus, NEW e \in Cpus, NEW i \in Pending(d)', NEW j \in Pending(e)',
               wakes'[d][i].tcb = wakes'[e][j].tcb
        PROVE  d = e /\ i = j
    <3>1. PICK x \in Pending(d) : Shifted(c, d, i, x)
      BY <1>15
    <3>2. PICK y \in Pending(e) : Shifted(c, e, j, y)
      BY <1>15
    <3>3. d = e /\ x = y
      <4>1. Once(d, x, e, y)
        BY <3>1, <3>2 DEF SInv, PlacesOK, PendingOnce
      <4>2. QED
        BY <2>3, <3>1, <3>2, <4>1 DEF Once, Shifted
    <3>4. CASE d = c
      <4>1. i \in DOMAIN q /\ j \in DOMAIN q /\ i + 1 = j + 1
        BY <1>12, <3>1, <3>2, <3>3, <3>4 DEF Shifted
      <4>2. QED
        BY <3>3, <4>1, SMT
    <3>5. CASE d # c
      BY <3>1, <3>2, <3>3, <3>5 DEF Shifted
    <3>6. QED
      BY <3>4, <3>5
  <2>4. \A u \in Threads : state'[u] = "Ready" => Queued(u)' \/ Flying(u)'
    BY <1>1, <1>16, <1>18 DEF SInv, PlacesOK, ReadyPlaced
  <2>5. ASSUME NEW d \in Cpus, NEW u, u = victim'[d].tcb, u # NoTcb PROVE ~Queued(u)' /\ ~Flying(u)'
    <3>1. ~Queued(u) /\ ~Flying(u)
      BY <1>1, <2>5 DEF SInv, PlacesOK, VictimsGone
    <3>2. QED
      BY <1>16, <1>18, <3>1
  <2>6. QED
    <3>1. QueuedReady' /\ ReadyPlaced'
      BY <2>1, <2>4 DEF QueuedReady, ReadyPlaced
    <3>2. ASSUME NEW d \in Cpus, NEW i \in Pending(d)' PROVE ReadyAt(d, i)'
      <4>1. PICK u : u = wakes'[d][i].tcb
        OBVIOUS
      <4>2. state'[u] \in {"Ready", "Stopped"} /\ wakes'[d][i].prio = priority'[u] /\ ~Queued(u)'
        BY <2>2, <4>1
      <4>3. QED
        BY <4>1, <4>2 DEF ReadyAt
    <3>3. PendingReady' /\ PendingOnce'
      BY <2>3, <3>2 DEF PendingReady, PendingOnce, Once
    <3>4. VictimsGone'
      BY <2>5 DEF VictimsGone
    <3>5. QED
      BY <3>1, <3>3, <3>4 DEF PlacesOK
<1>22. StacksOK'
  <2>1. ASSUME NEW d \in Cpus, context_saved[stack[d]], NEW e \in Cpus, NEW i \in Pending(e)',
               wakes'[e][i].tcb = stack[d]
        PROVE  wakes'[e][i].cpu = d
    <3>1. PICK j \in Pending(e) : wakes'[e][i] = wakes[e][j]
      BY <1>15 DEF Shifted
    <3>2. QED
      <4>1. OnlyHere(d)
        BY <2>1 DEF SInv, StacksOK, StackOK
      <4>2. QED
        BY <2>1, <3>1, <4>1 DEF OnlyHere
  <2>2. \A d \in Cpus : pc'[d] = "switch" => pc[d] = "switch"
    BY <1>7, <1>11
  <2>3. QED
    <3>1. ASSUME NEW d \in Cpus PROVE StackOK(d)'
      <4>1. StackOK(d)
        BY DEF SInv, StacksOK
      <4>2. ASSUME context_saved[stack[d]] PROVE OnlyHere(d)'
        <5>1. OnlyHere(d)
          BY <4>1, <4>2 DEF StackOK
        <5>2. \A e \in Cpus : \A i \in Pending(e)' : wakes'[e][i].tcb = stack[d] => wakes'[e][i].cpu = d
          BY <2>1, <4>2
        <5>3. QED
          BY <1>1, <1>18, <5>1, <5>2 DEF OnlyHere
      <4>3. QED
        BY <1>1, <1>13, <2>2, <4>1, <4>2 DEF StackOK
    <3>2. QED
      BY <3>1 DEF StacksOK
<1>23. NoMissedWakeup'
  <2>1. ASSUME NEW d \in Cpus, pc'[d] = "halt", sched'[d].non_empty # {}, d \notin ipi'
        PROVE  \E e \in Cpus \ {d} : pc'[e] = "ipi" /\ Head(wakes'[e]).cpu = d
    <3>1. d # c
      BY <1>7, <1>11, <2>1
    <3>2. pc[d] = "halt" /\ sched[d].non_empty # {} /\ d \notin ipi
      BY <1>1, <1>7, <1>14, <2>1, <3>1
    <3>3. PICK e \in Cpus \ {d} : pc[e] = "ipi" /\ Head(wakes[e]).cpu = d
      BY <3>2 DEF SInv, NoMissedWakeup
    <3>4. e # c
      <4>1. d \in idle_mask
        BY <3>2 DEF SInv, CpusOK, CpuOK
      <4>2. QED
        BY <1>3, <1>4, <1>14, <2>1, <3>1, <3>3, <4>1
    <3>5. QED
      BY <1>7, <1>10, <3>3, <3>4
  <2>2. QED
    BY <2>1 DEF NoMissedWakeup
<1>24. QED
  BY <1>17, <1>18, <1>19, <1>20, <1>21, <1>22, <1>23 DEF SInv

\* Where an interrupt comes and where it returns to, with interrupts off in the
\* idle loop.
LEMMA ResumesAt ==
  ASSUME ~SieStays, NEW c \in Cpus, InterruptsOn(c)
  PROVE  pc[c] \in {"run", "halt"} /\ \A v \in Resumptions(c) : v \in {"run", "awake"}
<1>1. pc[c] \in {"run", "halt"}
  BY DEF InterruptsOn
<1>2. Resumptions(c) = {IF pc[c] = "halt" THEN "awake" ELSE pc[c]}
  BY DEF Resumptions
<1>3. QED
  BY <1>1, <1>2

\* The idle loop, interrupts that end a halt, and the end of a time slice.
LEMMA IdleSteps ==
  ASSUME SInv, ~SieStays, NEW c \in Cpus,
         IdleMark(c) \/ IdleCheck(c) \/ TakeIpi(c) \/ TickHalted(c) \/ IdleAwake(c) \/ Preempt(c)
  PROVE  SInv'
<1>1. idle_mask \subseteq Cpus /\ ipi \subseteq Cpus
  BY DEF SInv, Types
<1>2. CASE IdleMark(c)
  <2>1. /\ pc[c] = "run" /\ Goto(c, "marked") /\ UNCHANGED quietVars /\ ipi' = ipi
        /\ idle_mask' = idle_mask \union {c}
    BY <1>2 DEF IdleMark, idleOnly, callVars, quietVars
  <2>2. idle_mask' \subseteq Cpus /\ ipi' \subseteq Cpus /\ c \in idle_mask'
        /\ \A d \in Cpus \ {c} : (d \in idle_mask => d \in idle_mask') /\ (d \in ipi => d \in ipi')
    BY <1>1, <2>1
  <2>3. QED
    BY <2>1, <2>2, QuietStep
<1>3. CASE IdleCheck(c) /\ sched[c].non_empty # {}
  <2>1. /\ pc[c] = "marked" /\ Goto(c, "resched") /\ UNCHANGED quietVars /\ ipi' = ipi
        /\ idle_mask' = idle_mask \ {c}
    BY <1>3 DEF IdleCheck, idleOnly, callVars, quietVars
  <2>2. idle_mask' \subseteq Cpus /\ ipi' \subseteq Cpus
        /\ \A d \in Cpus \ {c} : (d \in idle_mask => d \in idle_mask') /\ (d \in ipi => d \in ipi')
    BY <1>1, <2>1
  <2>3. QED
    BY <2>1, <2>2, QuietStep
<1>4. CASE IdleCheck(c) /\ sched[c].non_empty = {}
  <2>1. /\ pc[c] = "marked" /\ Goto(c, "halt") /\ UNCHANGED quietVars /\ ipi' = ipi
        /\ idle_mask' = idle_mask
    BY <1>4 DEF IdleCheck, idleOnly, callVars, quietVars
  <2>2. c \in idle_mask'
    BY <2>1 DEF SInv, CpusOK, CpuOK
  <2>3. idle_mask' \subseteq Cpus /\ ipi' \subseteq Cpus
        /\ \A d \in Cpus \ {c} : (d \in idle_mask => d \in idle_mask') /\ (d \in ipi => d \in ipi')
    BY <1>1, <2>1
  <2>4. QED
    BY <1>4, <2>1, <2>2, <2>3, QuietStep
<1>5. CASE TakeIpi(c)
  <2>1. /\ UNCHANGED quietVars /\ ipi' = ipi \ {c} /\ idle_mask' = idle_mask /\ InterruptsOn(c)
    BY <1>5 DEF TakeIpi, idleOnly, callVars, quietVars
  <2>2. PICK v \in Resumptions(c) : Goto(c, v)
    BY <1>5 DEF TakeIpi
  <2>3. pc[c] \in {"run", "halt"} /\ v \in {"run", "awake"}
    BY <2>1, ResumesAt
  <2>4. idle_mask' \subseteq Cpus /\ ipi' \subseteq Cpus
        /\ \A d \in Cpus \ {c} : (d \in idle_mask => d \in idle_mask') /\ (d \in ipi => d \in ipi')
    BY <1>1, <2>1
  <2>5. QED
    BY <2>1, <2>2, <2>3, <2>4, QuietStep
<1>6. CASE TickHalted(c)
  <2>1. /\ pc[c] = "halt" /\ Goto(c, "awake") /\ UNCHANGED quietVars /\ ipi' = ipi /\ idle_mask' = idle_mask
    BY <1>6 DEF TickHalted, idleVars, idleOnly, callVars, quietVars
  <2>2. QED
    BY <1>1, <2>1, QuietStep
<1>7. CASE IdleAwake(c)
  <2>1. /\ pc[c] = "awake" /\ Goto(c, "run") /\ UNCHANGED quietVars /\ ipi' = ipi
        /\ idle_mask' = idle_mask \ {c}
    BY <1>7 DEF IdleAwake, idleOnly, callVars, quietVars
  <2>2. idle_mask' \subseteq Cpus /\ ipi' \subseteq Cpus
        /\ \A d \in Cpus \ {c} : (d \in idle_mask => d \in idle_mask') /\ (d \in ipi => d \in ipi')
    BY <1>1, <2>1
  <2>3. QED
    BY <2>1, <2>2, QuietStep
<1>8. CASE Preempt(c)
  <2>1. pc[c] = "run" /\ Goto(c, "resched") /\ UNCHANGED quietVars /\ ipi' = ipi /\ idle_mask' = idle_mask
    BY <1>8 DEF Preempt, InUser, wakeVars, idleVars, callVars, quietVars
  <2>2. QED
    BY <1>1, <2>1, QuietStep
<1>9. QED
  BY <1>2, <1>3, <1>4, <1>5, <1>6, <1>7, <1>8

\* The running thread blocks, sleeps, stops or exits without waking anybody.
LEMMA GoSteps ==
  ASSUME SInv, FiniteFacts, NEW c \in Cpus,
         Block(c) \/ Sleep(c) \/ StopSelf(c) \/ (Exit(c) /\ pc'[c] = "block")
  PROVE  SInv'
<1>1. /\ InUser(c) /\ stack[c] \in Threads /\ stack[c] \notin waiting /\ stack[c] \notin sleep_list
      /\ IsFiniteSet(sleep_list)
  <2>1. InUser(c)
    BY DEF Block, Sleep, StopSelf, Exit
  <2>2. stack[c] \in Threads /\ stack[c] \in Tcbs /\ state[stack[c]] = "Running"
    BY <2>1, UserFacts
  <2>3. stack[c] \notin waiting /\ stack[c] \notin sleep_list
    BY <2>2, RunningFacts
  <2>4. QED
    BY <2>1, <2>2, <2>3 DEF SInv, ThreadsOK
<1>2. CASE Block(c)
  <2>1. /\ state' = [state EXCEPT ![stack[c]] = "Blocked"]
        /\ context_saved' = [context_saved EXCEPT ![stack[c]] = FALSE]
        /\ waiting' = waiting \union {stack[c]} /\ Goto(c, "block") /\ sleep_list' = sleep_list
        /\ UNCHANGED <<sched, current, stack, wakeVars, callVars, priority, cpu_affinity, preferred_cpu>>
    BY <1>2 DEF Block
  <2>2. /\ waiting' \in {waiting, waiting \union {stack[c]}}
        /\ sleep_list' \in {sleep_list, sleep_list \union {stack[c]}} /\ IsFiniteSet(sleep_list')
        /\ stack[c] \notin waiting' \intersect sleep_list'
    BY <1>1, <2>1
  <2>3. QED
    BY <1>1, <2>1, <2>2, LeaveStep
<1>3. CASE Sleep(c)
  <2>1. /\ state' = [state EXCEPT ![stack[c]] = "Blocked"]
        /\ context_saved' = context_saved /\ waiting' = waiting /\ Goto(c, "block")
        /\ sleep_list' \in {sleep_list, sleep_list \union {stack[c]}}
        /\ UNCHANGED <<sched, current, stack, wakeVars, callVars, priority, cpu_affinity, preferred_cpu>>
    BY <1>3 DEF Sleep
  <2>2. IsFiniteSet(sleep_list')
    BY <1>1, <2>1 DEF FiniteFacts
  <2>3. /\ waiting' \in {waiting, waiting \union {stack[c]}} /\ stack[c] \notin waiting'
        /\ stack[c] \notin waiting' \intersect sleep_list'
    BY <1>1, <2>1
  <2>4. QED
    BY <1>1, <2>1, <2>2, <2>3, LeaveStep
<1>4. ASSUME NEW v \in {"Stopped", "Exited"}, state' = [state EXCEPT ![stack[c]] = v],
             context_saved' = context_saved, waiting' = waiting, Goto(c, "block"), sleep_list' = sleep_list,
             UNCHANGED <<sched, current, stack, wakeVars, callVars, priority, cpu_affinity, preferred_cpu>>
      PROVE  SInv'
  <2>1. /\ waiting' \in {waiting, waiting \union {stack[c]}}
        /\ sleep_list' \in {sleep_list, sleep_list \union {stack[c]}} /\ IsFiniteSet(sleep_list')
        /\ stack[c] \notin waiting' \union sleep_list' /\ stack[c] \notin waiting'
        /\ stack[c] \notin waiting' \intersect sleep_list'
    BY <1>1, <1>4
  <2>2. QED
    BY <1>1, <1>4, <2>1, LeaveStep
<1>5. CASE StopSelf(c)
  BY <1>4, <1>5 DEF StopSelf
<1>6. CASE Exit(c) /\ pc'[c] = "block"
  <2>1. ~Goto(c, "enqueue")
    <3>1. pc \in [Cpus -> PcValues]
      BY DEF SInv, Types
    <3>2. QED
      BY <1>6, <3>1 DEF Goto
  <2>2. QED
    BY <1>4, <1>6, <2>1 DEF Exit, wakeVars
<1>7. QED
  BY <1>2, <1>3, <1>5, <1>6

\* The CPU select_target_cpu() chooses exists.
LEMMA TargetCpu ==
  ASSUME SInv, FiniteFacts, NEW t \in Threads
  PROVE  select_target_cpu(t) \in Cpus
<1>1. cpu_affinity[t] \in Cpus \union {AFFINITY_ANY}
  <2>1. cpu_affinity \in [Tcbs -> Cpus \union {AFFINITY_ANY}]
    BY DEF SInv, Types
  <2>2. QED
    BY <2>1, TcbFacts
<1>2. \A c \in Cpus : sched[c].load \in Nat
  <2>1. LoadMod \in Nat
    BY SchedulerAssumption
  <2>2. \A n \in 0..(LoadMod - 1) : n \in Nat
    BY <2>1, SMT
  <2>3. QED
    BY <2>2 DEF SInv, SchedsOK, Scheds
<1>3. PICK L \in SUBSET Nat : L = {sched[c].load : c \in Cpus}
  BY <1>2
<1>4. PICK S : S = {c \in Cpus : \A d \in Cpus : sched[c].load <= sched[d].load}
  OBVIOUS
<1>5. S # {}
  <2>1. L # {}
    <3>1. sched[0].load \in L
      BY <1>3, TcbFacts
    <3>2. QED
      BY <3>1
  <2>2. Min(L) \in L /\ \A n \in L : Min(L) <= n
    BY <2>1 DEF FiniteFacts
  <2>3. PICK c \in Cpus : sched[c].load = Min(L)
    BY <1>3, <2>2
  <2>4. \A d \in Cpus : sched[c].load <= sched[d].load
    BY <1>3, <2>2, <2>3
  <2>5. QED
    BY <1>4, <2>4
<1>6. S \in SUBSET Nat
  BY <1>4, TcbFacts
<1>7. Min(S) \in S
  BY <1>5, <1>6 DEF FiniteFacts
<1>8. QED
  BY <1>1, <1>4, <1>7 DEF select_target_cpu

\* What may be woken or started.
Wakeable(u) ==
  /\ u \in Threads /\ state[u] \in {"Blocked", "Created", "Stopped"} /\ ~Queued(u) /\ ~Flying(u)
  /\ \A d \in Cpus : victim[d].tcb # u

\* A thread that waits or sleeps can be woken.
LEMMA BlockedFacts ==
  ASSUME SInv, NEW u \in waiting \union sleep_list
  PROVE  Wakeable(u) /\ u \in Tcbs /\ state[u] = "Blocked"
<1>1. u \in Threads /\ u \in Tcbs
  BY TcbFacts DEF SInv, Types
<1>2. state[u] = "Blocked"
  BY DEF SInv, ThreadsOK
<1>3. ~Queued(u)
  BY <1>1, <1>2 DEF SInv, PlacesOK, QueuedReady
<1>4. ~Flying(u)
  BY <1>1, <1>2 DEF SInv, PlacesOK, PendingReady, ReadyAt, Flying
<1>5. \A d \in Cpus : victim[d].tcb # u
  <2>1. \A d \in Cpus : victim[d].tcb # NoTcb => state[victim[d].tcb] \in {"Stopped", "Exited"}
    BY DEF SInv, ThreadsOK
  <2>2. QED
    BY <1>1, <1>2, <2>1, TcbFacts
<1>6. QED
  BY <1>1, <1>2, <1>3, <1>4, <1>5 DEF Wakeable

\* A function on 1..n as a sequence.
LEMMA FunctionSeq ==
  ASSUME NEW S, NEW n \in Nat \ {0}, NEW f \in [1..n -> S]
  PROVE  f \in Seq(S) /\ DOMAIN f = 1..n /\ f # <<>>
<1>1. f \in Seq(S) /\ DOMAIN f = 1..n
  BY SMT
<1>2. 1 \in 1..n
  BY SMT
<1>3. DOMAIN <<>> = {}
  BY SMT
<1>4. QED
  BY <1>1, <1>2, <1>3

\* CPU c makes the n threads of the sequence s Ready.
Awakens(c, n, s, target, v) ==
  /\ pc[c] \in {"run", "halt"} /\ n \in Nat \ {0} /\ s \in [1..n -> Threads] /\ IsInjective(s)
  /\ v \in {"run", "awake"} /\ MakeReady(c, s, target, v)
  /\ \A u \in Range(s) : target[u] \in Cpus /\ Wakeable(u)
  /\ \A u \in Range(s) : \A d \in Cpus : context_saved[stack[d]] /\ u = stack[d] => target[u] = d
  /\ waiting' \subseteq waiting \ Range(s) /\ sleep_list' \subseteq sleep_list \ Range(s)
  /\ IsFiniteSet(sleep_list')
  /\ UNCHANGED <<sched, current, stack, idleVars, callVars, priority, cpu_affinity,
                 preferred_cpu, context_saved>>

\* The invariant through such a step.
LEMMA MakeReadyStep ==
  ASSUME SInv, NEW c \in Cpus, NEW n, NEW s, NEW target, NEW v, Awakens(c, n, s, target, v)
  PROVE  SInv'
<1>a. /\ pc[c] \in {"run", "halt"} /\ n \in Nat \ {0} /\ s \in [1..n -> Threads] /\ IsInjective(s)
      /\ v \in {"run", "awake"} /\ MakeReady(c, s, target, v)
  BY DEF Awakens
<1>b. /\ \A u \in Range(s) : target[u] \in Cpus /\ Wakeable(u)
      /\ \A u \in Range(s) : \A d \in Cpus : context_saved[stack[d]] /\ u = stack[d] => target[u] = d
  BY DEF Awakens
<1>c. /\ waiting' \subseteq waiting \ Range(s) /\ sleep_list' \subseteq sleep_list \ Range(s)
      /\ IsFiniteSet(sleep_list')
      /\ UNCHANGED <<sched, current, stack, idleVars, callVars, priority, cpu_affinity,
                     preferred_cpu, context_saved>>
  BY DEF Awakens
<1>1. PICK W \in SUBSET Threads : W = Range(s)
  BY <1>a DEF Range
<1>2. \A i \in 1..n : s[i] \in W /\ s[i] \in Threads /\ target[s[i]] \in Cpus /\ priority[s[i]] \in Priorities
  <2>1. \A i \in 1..n : s[i] \in W
    BY <1>1, <1>a DEF Range
  <2>2. \A u \in Threads : priority[u] \in Priorities
    BY DEF SInv, ThreadsOK
  <2>3. QED
    BY <1>1, <1>a, <1>b, <2>1, <2>2
<1>3. PICK ws : ws = [i \in 1..n |-> [tcb |-> s[i], cpu |-> target[s[i]], prio |-> priority[s[i]]]]
  OBVIOUS
<1>4. ws \in [1..n -> Wakeup]
  BY <1>2, <1>3 DEF Wakeup
<1>5. ws \in Seq(Wakeup) /\ DOMAIN ws = 1..n /\ ws # <<>>
  BY <1>4, <1>a, FunctionSeq
<1>6. \A i \in 1..n : ws[i].tcb = s[i] /\ ws[i].cpu = target[s[i]] /\ ws[i].prio = priority[s[i]]
  BY <1>3
<1>7. /\ Goto(c, "enqueue") /\ wakes' = [wakes EXCEPT ![c] = ws] /\ after' = [after EXCEPT ![c] = v]
      /\ state' = [t \in Tcbs |-> IF t \in W THEN "Ready" ELSE state[t]]
  <2>1. DOMAIN s = 1..n
    BY <1>a
  <2>2. QED
    BY <1>1, <1>3, <1>a, <2>1 DEF MakeReady
<1>8. /\ state' \in [Tcbs -> {"Created", "Ready", "Running", "Blocked", "Stopped", "Exited"}]
      /\ \A u \in W : state'[u] = "Ready"
      /\ \A u \in Tcbs \ W : state'[u] = state[u]
  <2>1. state \in [Tcbs -> {"Created", "Ready", "Running", "Blocked", "Stopped", "Exited"}]
    BY DEF SInv, Types
  <2>2. QED
    BY <1>7, <2>1, TcbFacts
<1>9. \A u \in W : /\ state[u] \in {"Blocked", "Created", "Stopped"} /\ ~Queued(u) /\ ~Flying(u)
                   /\ \A d \in Cpus : victim[d].tcb # u
  BY <1>1, <1>b DEF Wakeable
<1>10. /\ \A i \in DOMAIN ws : ws[i].tcb \in W /\ ws[i].prio = priority[ws[i].tcb]
       /\ \A u \in W : \E i \in DOMAIN ws : ws[i].tcb = u
       /\ \A i, j \in DOMAIN ws : ws[i].tcb = ws[j].tcb => i = j
       /\ \A i \in DOMAIN ws : \A d \in Cpus :
            context_saved[stack[d]] /\ ws[i].tcb = stack[d] => ws[i].cpu = d
  <2>1. \A u \in W : \E i \in 1..n : s[i] = u
    BY <1>1, <1>a DEF Range
  <2>2. \A i, j \in 1..n : s[i] = s[j] => i = j
    BY <1>a DEF IsInjective
  <2>3. \A i \in DOMAIN ws : ws[i].tcb \in W /\ ws[i].prio = priority[ws[i].tcb]
    BY <1>2, <1>5, <1>6
  <2>4. \A u \in W : \E i \in DOMAIN ws : ws[i].tcb = u
    <3>1. ASSUME NEW u \in W PROVE \E i \in DOMAIN ws : ws[i].tcb = u
      <4>1. PICK i \in 1..n : s[i] = u
        BY <2>1
      <4>2. i \in DOMAIN ws /\ ws[i].tcb = u
        BY <1>5, <1>6, <4>1
      <4>3. QED
        BY <4>2
    <3>2. QED
      BY <3>1
  <2>5. \A i, j \in DOMAIN ws : ws[i].tcb = ws[j].tcb => i = j
    <3>1. ASSUME NEW i \in 1..n, NEW j \in 1..n, ws[i].tcb = ws[j].tcb PROVE i = j
      <4>1. s[i] = s[j]
        BY <1>6, <3>1
      <4>2. QED
        BY <2>2, <4>1
    <3>2. QED
      BY <1>5, <3>1
  <2>6. \A i \in DOMAIN ws : \A d \in Cpus :
          context_saved[stack[d]] /\ ws[i].tcb = stack[d] => ws[i].cpu = d
    <3>1. ASSUME NEW i \in 1..n, NEW d \in Cpus, context_saved[stack[d]], ws[i].tcb = stack[d]
          PROVE  ws[i].cpu = d
      <4>1. s[i] \in Range(s) /\ s[i] = stack[d]
        BY <1>1, <1>2, <1>6, <3>1
      <4>2. QED
        BY <1>6, <1>b, <3>1, <4>1
    <3>2. QED
      BY <1>5, <3>1
  <2>7. QED
    BY <2>3, <2>4, <2>5, <2>6
<1>11. waiting' \subseteq waiting \ W /\ sleep_list' \subseteq sleep_list \ W
  BY <1>1, <1>c
<1>12. Readies(c, ws, W, v)
  BY <1>5, <1>7, <1>8, <1>9, <1>10, <1>11, <1>a, <1>c DEF Readies
<1>13. QED
  BY <1>12, ReadyStep

\* A sequence of one thread.
LEMMA OneThread ==
  ASSUME NEW t \in Threads
  PROVE  <<t>> \in [1..1 -> Threads] /\ IsInjective(<<t>>) /\ Range(<<t>>) = {t} /\ 1 \in Nat \ {0}
<1>1. <<t>> \in [1..1 -> Threads] /\ 1..1 = {1} /\ <<t>>[1] = t /\ DOMAIN <<t>> = 1..1 /\ 1 \in Nat \ {0}
  BY SMT
<1>2. PICK f : f = <<t>> /\ DOMAIN f = {1} /\ f[1] = t
  BY <1>1
<1>3. IsInjective(f) /\ Range(f) = {t}
  BY <1>2 DEF IsInjective, Range
<1>4. QED
  BY <1>1, <1>2, <1>3

\* Waking an IPC waiter, starting a thread, and the sleepers of a timer tick.
LEMMA WakeSteps ==
  ASSUME SInv, FiniteFacts, Settled, ~SieStays, NEW c \in Cpus, NEW t \in Threads,
         Wake(c, t) \/ Start(c, t)
  PROVE  SInv'
<1>1. /\ <<t>> \in [1..1 -> Threads] /\ IsInjective(<<t>>) /\ Range(<<t>>) = {t} /\ 1 \in Nat \ {0}
      /\ [u \in {t} |-> select_target_cpu(u)][t] \in Cpus /\ IsFiniteSet(sleep_list)
  BY OneThread, TargetCpu DEF SInv, ThreadsOK
<1>2. ASSUME NEW v \in {"run", "awake"}, pc[c] \in {"run", "halt"}, Wakeable(t),
             MakeReady(c, <<t>>, [u \in {t} |-> select_target_cpu(u)], v),
             \A d \in Cpus : context_saved[stack[d]] => t # stack[d],
             waiting' = waiting \ {t}, sleep_list' = sleep_list, t \notin sleep_list,
             UNCHANGED <<sched, current, stack, idleVars, callVars, priority, cpu_affinity,
                         preferred_cpu, context_saved>>
      PROVE  SInv'
  <2>1. PICK target : target = [u \in {t} |-> select_target_cpu(u)]
    OBVIOUS
  <2>0. PICK n \in Nat \ {0} : n = 1
    BY <1>1
  <2>2. PICK s \in [1..n -> Threads] : s = <<t>> /\ IsInjective(s) /\ Range(s) = {t}
    BY <1>1, <2>0
  <2>3. /\ \A u \in Range(s) : target[u] \in Cpus
        /\ MakeReady(c, s, target, v)
        /\ \A u \in Range(s) : Wakeable(u)
        /\ \A u \in Range(s) : \A d \in Cpus : context_saved[stack[d]] /\ u = stack[d] => target[u] = d
        /\ waiting' \subseteq waiting \ Range(s) /\ sleep_list' \subseteq sleep_list \ Range(s)
        /\ IsFiniteSet(sleep_list')
    BY <1>1, <1>2, <2>1, <2>2
  <2>4. Awakens(c, n, s, target, v)
    BY <1>2, <2>2, <2>3 DEF Awakens
  <2>5. QED
    BY <2>4, MakeReadyStep
<1>3. CASE Wake(c, t)
  <2>1. /\ InterruptsOn(c) /\ t \in waiting /\ waiting' = waiting \ {t} /\ sleep_list' = sleep_list
        /\ UNCHANGED <<sched, current, stack, idleVars, callVars, priority, cpu_affinity,
                       preferred_cpu, context_saved>>
    BY <1>3 DEF Wake
  <2>0. PICK v \in Resumptions(c) : MakeReady(c, <<t>>, [u \in {t} |-> select_target_cpu(u)], v)
    BY <1>3 DEF Wake
  <2>2. pc[c] \in {"run", "halt"} /\ v \in {"run", "awake"}
    BY <2>1, ResumesAt
  <2>3. Wakeable(t) /\ t \notin sleep_list
    BY <2>1, BlockedFacts DEF SInv, ThreadsOK
  <2>4. \A d \in Cpus : context_saved[stack[d]] => t # stack[d]
    BY <2>1 DEF SInv, StacksOK, StackOK, OnlyHere
  <2>5. QED
    BY <1>2, <2>0, <2>1, <2>2, <2>3, <2>4
<1>4. CASE Start(c, t)
  <2>1. /\ pc[c] = "run" /\ waiting' = waiting /\ sleep_list' = sleep_list
        /\ state[t] \in {"Created", "Stopped"} /\ ~Deleted(t) /\ AtRest(t) /\ OffCpu(t)
        /\ MakeReady(c, <<t>>, [u \in {t} |-> select_target_cpu(u)], "run")
        /\ UNCHANGED <<sched, current, stack, idleVars, callVars, priority, cpu_affinity,
                       preferred_cpu, context_saved>>
    BY <1>4 DEF Start, InUser
  <2>2. t \notin waiting /\ t \notin sleep_list
    BY <2>1, BlockedFacts
  <2>3. ~Queued(t) /\ ~Flying(t)
    BY <2>1 DEF AtRest, InFlight, Queued, Flying, Pending
  <2>4. Wakeable(t)
    BY <2>1, <2>3 DEF Wakeable, Deleted
  <2>5. \A d \in Cpus : context_saved[stack[d]] => t # stack[d]
    BY <2>1 DEF OffCpu
  <2>6. waiting' = waiting \ {t}
    BY <2>1, <2>2
  <2>7. QED
    BY <1>2, <2>1, <2>2, <2>4, <2>5, <2>6
<1>5. QED
  BY <1>3, <1>4

\* The timer wakes the sleepers whose time has come.
LEMMA SleepersStep ==
  ASSUME SInv, FiniteFacts, ~SieStays, sleep_check_wakeups
  PROVE  SInv'
<1>1. PICK E \in (SUBSET sleep_list) \ {{}} : \E s \in Orders(E), v \in Resumptions(0) :
        MakeReady(0, s, preferred_cpu, v) /\ sleep_list' = sleep_list \ E
  BY DEF sleep_check_wakeups
<1>2. PICK s \in Orders(E), v \in Resumptions(0) :
        MakeReady(0, s, preferred_cpu, v) /\ sleep_list' = sleep_list \ E
  BY <1>1
<1>3. /\ 0 \in Cpus /\ InterruptsOn(0) /\ waiting' = waiting
      /\ UNCHANGED <<sched, current, stack, idleVars, callVars, priority, cpu_affinity,
                     preferred_cpu, context_saved>>
  BY TcbFacts DEF sleep_check_wakeups
<1>4. pc[0] \in {"run", "halt"} /\ v \in {"run", "awake"}
  BY <1>3, ResumesAt
<1>5. IsFiniteSet(sleep_list) /\ IsFiniteSet(E) /\ E # {} /\ IsFiniteSet(sleep_list')
  <2>1. IsFiniteSet(sleep_list)
    BY DEF SInv, ThreadsOK
  <2>2. E \in SUBSET sleep_list /\ sleep_list \ E \in SUBSET sleep_list
    OBVIOUS
  <2>3. QED
    BY <1>1, <1>2, <2>1, <2>2 DEF FiniteFacts
<1>6. PICK n \in Nat \ {0} : n = Cardinality(E)
  BY <1>5 DEF FiniteFacts
<1>7. s \in [1..n -> E] /\ IsInjective(s) /\ Range(s) \subseteq E
  <2>1. s \in [1..n -> E] /\ IsInjective(s)
    BY <1>2, <1>6 DEF Orders
  <2>2. QED
    BY <2>1 DEF Range
<1>8. E \subseteq sleep_list /\ E \subseteq Threads /\ E \subseteq Tcbs
  BY TcbFacts DEF SInv, Types
<1>9. s \in [1..n -> Threads]
  BY <1>7, <1>8
<1>10. \A u \in Range(s) : /\ u \in sleep_list /\ u \in Tcbs /\ Wakeable(u)
                           /\ u \notin waiting
  BY <1>7, <1>8, BlockedFacts DEF SInv, ThreadsOK
<1>11. \A u \in Range(s) : preferred_cpu[u] \in Cpus
  <2>1. preferred_cpu \in [Tcbs -> Cpus]
    BY DEF SInv, Types
  <2>2. QED
    BY <1>10, <2>1
<1>12. \A u \in Range(s) : \A d \in Cpus :
         context_saved[stack[d]] /\ u = stack[d] => preferred_cpu[u] = d
  BY <1>10 DEF SInv, StacksOK, StackOK, OnlyHere
<1>13. waiting' \subseteq waiting \ Range(s) /\ sleep_list' \subseteq sleep_list \ Range(s)
       /\ MakeReady(0, s, preferred_cpu, v) /\ \A u \in Range(s) : Wakeable(u)
  BY <1>2, <1>3, <1>4, <1>7, <1>10
<1>14. Awakens(0, n, s, preferred_cpu, v)
  BY <1>3, <1>4, <1>5, <1>7, <1>9, <1>11, <1>12, <1>13 DEF Awakens
<1>15. QED
  BY <1>3, <1>14, MakeReadyStep

\* SYS_THREAD_EXIT with a receiver that waits on the bound event queue.
LEMMA ExitStep ==
  ASSUME SInv, NEW c \in Cpus, Exit(c), pc'[c] # "block"
  PROVE  SInv'
<1>1. /\ InUser(c) /\ sleep_list' = sleep_list
      /\ UNCHANGED <<sched, current, stack, idleVars, callVars, priority, cpu_affinity,
                     preferred_cpu, context_saved>>
  BY DEF Exit
<1>2. /\ pc[c] \in {"run", "halt"} /\ stack[c] \in Threads /\ stack[c] \in Tcbs
      /\ state[stack[c]] = "Running"
  BY <1>1, UserFacts
<1>3. ~Goto(c, "block")
  <2>1. pc \in [Cpus -> PcValues]
    BY DEF SInv, Types
  <2>2. QED
    BY <2>1 DEF Goto
<1>4. PICK w \in waiting :
        /\ state' = [[state EXCEPT ![stack[c]] = "Exited"] EXCEPT ![w] = "Ready"]
        /\ wakes' = [wakes EXCEPT ![c] = <<[tcb |-> w, cpu |-> c, prio |-> priority[w]]>>]
        /\ after' = [after EXCEPT ![c] = "block"] /\ waiting' = waiting \ {w} /\ Goto(c, "enqueue")
  BY <1>3 DEF Exit
<1>5. /\ w \in Threads /\ w \in Tcbs /\ state[w] = "Blocked" /\ w \notin sleep_list /\ w # stack[c]
      /\ ~Queued(w) /\ ~Flying(w) /\ \A d \in Cpus : victim[d].tcb # w
      /\ IsFiniteSet(sleep_list) /\ priority[w] \in Priorities
  <2>1. Wakeable(w) /\ w \in Tcbs /\ state[w] = "Blocked"
    BY BlockedFacts
  <2>2. w \in Threads /\ ~Queued(w) /\ ~Flying(w) /\ \A d \in Cpus : victim[d].tcb # w
    BY <2>1 DEF Wakeable
  <2>3. w \notin sleep_list /\ IsFiniteSet(sleep_list) /\ \A u \in Threads : priority[u] \in Priorities
    BY DEF SInv, ThreadsOK
  <2>4. QED
    BY <1>2, <2>1, <2>2, <2>3
<1>6. PICK x \in Wakeup : x = [tcb |-> w, cpu |-> c, prio |-> priority[w]]
  BY <1>5 DEF Wakeup
<1>7. PICK ws \in Seq(Wakeup) : ws = <<x>> /\ ws # <<>> /\ DOMAIN ws = {1} /\ ws[1] = x
  <2>1. <<x>> \in Seq(Wakeup) /\ DOMAIN <<x>> = 1..1 /\ <<x>>[1] = x
    BY SMT
  <2>2. 1..1 = {1} /\ DOMAIN <<>> = {}
    BY SMT
  <2>3. QED
    BY <2>1, <2>2
<1>8. /\ state' \in [Tcbs -> {"Created", "Ready", "Running", "Blocked", "Stopped", "Exited"}]
      /\ state'[w] = "Ready" /\ state'[stack[c]] = "Exited"
      /\ \A u \in Tcbs \ {w, stack[c]} : state'[u] = state[u]
  <2>1. state \in [Tcbs -> {"Created", "Ready", "Running", "Blocked", "Stopped", "Exited"}]
    BY DEF SInv, Types
  <2>2. PICK g : g = [state EXCEPT ![stack[c]] = "Exited"]
    OBVIOUS
  <2>3. /\ g \in [Tcbs -> {"Created", "Ready", "Running", "Blocked", "Stopped", "Exited"}]
        /\ g[stack[c]] = "Exited" /\ \A u \in Tcbs \ {stack[c]} : g[u] = state[u]
    BY <1>2, <2>1, <2>2
  <2>4. state' = [g EXCEPT ![w] = "Ready"]
    BY <1>4, <2>2
  <2>5. QED
    BY <1>2, <1>5, <2>3, <2>4
<1>9. PICK W \in SUBSET Threads : W = {w}
  BY <1>5
<1>10. /\ \A i \in DOMAIN ws : ws[i].tcb \in W /\ ws[i].prio = priority[ws[i].tcb]
       /\ \A u \in W : \E i \in DOMAIN ws : ws[i].tcb = u
       /\ \A i, j \in DOMAIN ws : ws[i].tcb = ws[j].tcb => i = j
       /\ \A i \in DOMAIN ws : ws[i].tcb = w
  <2>1. ws[1].tcb = w /\ ws[1].prio = priority[w]
    BY <1>6, <1>7
  <2>2. \A i \in DOMAIN ws : ws[i].tcb = w /\ ws[i].prio = priority[w] /\ i = 1
    BY <1>7, <2>1
  <2>3. QED
    BY <1>7, <1>9, <2>1, <2>2
<1>11. \A i \in DOMAIN ws : \A d \in Cpus :
          context_saved[stack[d]] /\ ws[i].tcb = stack[d] => ws[i].cpu = d
  <2>1. \A d \in Cpus : context_saved[stack[d]] => stack[d] # w
    BY DEF SInv, StacksOK, StackOK, OnlyHere
  <2>2. QED
    BY <1>10, <2>1
<1>12. /\ \A u \in W : /\ state[u] \in {"Blocked", "Created", "Stopped"} /\ ~Queued(u) /\ ~Flying(u)
                       /\ \A d \in Cpus : victim[d].tcb # u
       /\ \A u \in W : state'[u] = "Ready"
       /\ waiting' \subseteq waiting \ W /\ sleep_list' \subseteq sleep_list \ W /\ IsFiniteSet(sleep_list')
  BY <1>1, <1>4, <1>5, <1>8, <1>9
<1>13. PICK v \in {"run", "awake", "block"} : v = "block"
  OBVIOUS
<1>14. \A u \in Tcbs \ W : state'[u] = state[u]
                             \/ (u = stack[c] /\ v = "block" /\ InUser(c) /\ state'[u] = "Exited")
  BY <1>1, <1>8, <1>9, <1>13
<1>15. Goto(c, "enqueue") /\ wakes' = [wakes EXCEPT ![c] = ws] /\ after' = [after EXCEPT ![c] = v]
  BY <1>4, <1>6, <1>7, <1>13
<1>16. /\ ws # <<>> /\ state' \in [Tcbs -> {"Created", "Ready", "Running", "Blocked", "Stopped", "Exited"}]
       /\ pc[c] \in {"run", "halt"}
       /\ \A i \in DOMAIN ws : ws[i].tcb \in W /\ ws[i].prio = priority[ws[i].tcb]
       /\ \A u \in W : \E i \in DOMAIN ws : ws[i].tcb = u
       /\ \A i, j \in DOMAIN ws : ws[i].tcb = ws[j].tcb => i = j
  BY <1>2, <1>7, <1>8, <1>10
<1>17. Readies(c, ws, W, v)
  BY <1>1, <1>7, <1>9, <1>11, <1>12, <1>13, <1>14, <1>15, <1>16 DEF Readies
<1>18. QED
  BY <1>17, ReadyStep

\* SYS_THREAD_STOP on a thread that is Ready or waits in an IPC object.
LEMMA StopStep ==
  ASSUME SInv, StopWhat \subseteq {"Ready", "Waiting"}, NEW c \in Cpus, NEW t \in Threads, Stop(c, t)
  PROVE  SInv'
<1>1. /\ sched' = sched /\ current' = current /\ stack' = stack /\ pc' = pc /\ after' = after
      /\ wakes' = wakes /\ locked' = locked /\ victim' = victim /\ freed' = freed
      /\ idle_mask' = idle_mask /\ ipi' = ipi /\ priority' = priority /\ cpu_affinity' = cpu_affinity
      /\ preferred_cpu' = preferred_cpu /\ context_saved' = context_saved /\ sleep_list' = sleep_list
      /\ waiting' = waiting \ {t}
  BY DEF Stop, cpuVars, idleVars
<1>2. state[t] \in {"Ready", "Blocked"} /\ t \notin sleep_list /\ t \in Tcbs
  <2>1. Standing(t) \in {"Ready", "Waiting"}
    BY DEF Stop
  <2>2. CASE state[t] = "Blocked" /\ t \in sleep_list
    BY <2>1, <2>2 DEF Standing
  <2>3. CASE state[t] = "Blocked" /\ t \notin sleep_list
    BY <2>3, TcbFacts
  <2>4. CASE state[t] # "Blocked"
    <3>1. state[t] \in {"Ready", "Waiting"} /\ state[t] \in {"Created", "Ready", "Running", "Blocked", "Stopped", "Exited"}
      BY <2>1, <2>4, TcbFacts DEF Standing, SInv, Types
    <3>2. t \notin sleep_list
      BY <2>4 DEF SInv, ThreadsOK
    <3>3. QED
      BY <3>1, <3>2, TcbFacts
  <2>5. QED
    BY <2>2, <2>3, <2>4
<1>3. /\ state' \in [Tcbs -> {"Created", "Ready", "Running", "Blocked", "Stopped", "Exited"}]
      /\ state'[t] = "Stopped" /\ \A u \in Tcbs \ {t} : state'[u] = state[u]
  <2>1. state \in [Tcbs -> {"Created", "Ready", "Running", "Blocked", "Stopped", "Exited"}]
    BY DEF SInv, Types
  <2>2. QED
    BY <1>2, <2>1 DEF Stop
<1>4. \A d \in Cpus : (Leaving(d)' <=> Leaving(d)) /\ (Away(d)' <=> Away(d)) /\ Pending(d)' = Pending(d)
  BY <1>1 DEF Leaving, Away, Pending
<1>5. Types'
  <2>1. Types
    BY DEF SInv
  <2>2. waiting' \subseteq Threads
    BY <1>1, <2>1 DEF Types
  <2>3. QED
    BY <1>1, <1>3, <2>1, <2>2 DEF Types
<1>6. SchedsOK' /\ QueuedWhereSought' /\ (\A d \in Cpus : QueuedOn(d)' = QueuedOn(d))
      /\ (\A u : (Queued(u)' <=> Queued(u)))
  BY <1>1, QueuesKept DEF SInv
<1>7. CpusOK'
  <2>1. ASSUME NEW d \in Cpus PROVE CpuOK(d)'
    <3>1. CpuOK(d) /\ current[d] \in Tcbs
      BY DEF SInv, CpusOK, Types
    <3>2. ~Leaving(d) => state[current[d]] = "Running" /\ preferred_cpu[current[d]] = d
      BY <3>1 DEF CpuOK
    <3>3. ~Leaving(d) => state'[current[d]] = "Running" /\ preferred_cpu'[current[d]] = d
      BY <1>1, <1>2, <1>3, <3>1, <3>2
    <3>4. QED
      BY <1>1, <3>1, <3>3, CpuKept
  <2>2. QED
    BY <2>1 DEF CpusOK
<1>8. Claimed' /\ OneStack'
  BY <1>1, <1>4, ClaimsKept DEF SInv, OneStack
<1>9. ThreadsOK'
  <2>1. \A u \in waiting' \union sleep_list' : state'[u] = "Blocked"
    <3>1. \A u \in waiting \union sleep_list : state[u] = "Blocked" /\ u \in Tcbs
      BY TcbFacts DEF SInv, ThreadsOK, Types
    <3>2. QED
      BY <1>1, <1>2, <1>3, <3>1
  <2>2. waiting' \intersect sleep_list' = {}
    BY <1>1 DEF SInv, ThreadsOK
  <2>3. \A d \in Cpus : victim[d].tcb # NoTcb => state'[victim[d].tcb] \in {"Stopped", "Exited"}
    <3>1. \A d \in Cpus : victim[d].tcb # NoTcb => victim[d].tcb \in Threads
      BY DEF SInv, Types
    <3>2. \A d \in Cpus : victim[d].tcb # NoTcb => state[victim[d].tcb] \in {"Stopped", "Exited"}
      BY DEF SInv, ThreadsOK
    <3>3. QED
      BY <1>3, <3>1, <3>2, TcbFacts
  <2>4. QED
    BY <1>1, <2>1, <2>2, <2>3 DEF SInv, ThreadsOK
<1>10. PlacesOK'
  <2>1. \A u : Queued(u) \/ Flying(u) => state'[u] \in {state[u], "Stopped"}
    BY <1>3, PlacedInTcbs
  <2>2. \A u \in Threads : state'[u] = "Ready" => state[u] = "Ready"
    BY <1>3, TcbFacts
  <2>3. QED
    BY <1>1, <1>4, <1>6, <2>1, <2>2, PlacesKept DEF SInv
<1>11. StacksOK'
  BY <1>1, <1>4, <1>6, StacksKept DEF SInv
<1>12. NoMissedWakeup'
  BY <1>1, WakeupsKept DEF SInv
<1>13. QED
  BY <1>5, <1>6, <1>7, <1>8, <1>9, <1>10, <1>11, <1>12 DEF SInv

\* CPU c goes on with the deletion of t, which does not run and is in no queue.
Deletes(c, t, v) ==
  /\ pc[c] \in {"run", "lockall", "reap"} /\ v \in {"run", "lockall", "reap"} /\ Goto(c, v)
  /\ state[t] \in {"Stopped", "Exited"} /\ ~Queued(t) /\ ~Flying(t)
  /\ locked' \in [Cpus -> 0..NumCpus]
  /\ victim' \in [Cpus -> [tcb : Threads \union {NoTcb}, on : Cpus]]
  /\ \A d \in Cpus \ {c} : victim'[d] = victim[d]
  /\ victim'[c].tcb \in {t, NoTcb} /\ (v = "run" <=> victim'[c].tcb = NoTcb)
  /\ state' \in [Tcbs -> {"Created", "Ready", "Running", "Blocked", "Stopped", "Exited"}]
  /\ state'[t] \in {"Stopped", "Exited"} /\ \A u \in Tcbs \ {t} : state'[u] = state[u]
  /\ priority' \in [Tcbs -> Levels] /\ priority'[t] \in Priorities
  /\ \A u \in Tcbs \ {t} : priority'[u] = priority[u]
  /\ preferred_cpu' \in [Tcbs -> Cpus] /\ \A u \in Tcbs \ {t} : preferred_cpu'[u] = preferred_cpu[u]
  /\ cpu_affinity' \in [Tcbs -> Cpus \union {AFFINITY_ANY}]
  /\ freed' \subseteq Threads /\ waiting' \subseteq waiting
  /\ UNCHANGED <<sched, current, stack, wakeVars, context_saved, sleep_list>>

\* The invariant through a step of a deletion.
LEMMA DeletionStep ==
  ASSUME SInv, NEW c \in Cpus, NEW t \in Threads, NEW v, Deletes(c, t, v)
  PROVE  SInv'
<1>1. /\ sched' = sched /\ current' = current /\ stack' = stack /\ after' = after
      /\ wakes' = wakes /\ idle_mask' = idle_mask /\ ipi' = ipi
      /\ context_saved' = context_saved /\ sleep_list' = sleep_list /\ waiting' \subseteq waiting
  BY DEF Deletes, wakeVars, idleVars
<1>2. /\ pc' \in [Cpus -> PcValues] /\ pc'[c] = v /\ \A d \in Cpus \ {c} : pc'[d] = pc[d]
      /\ pc[c] \in {"run", "lockall", "reap"} /\ v \in {"run", "lockall", "reap"}
  <2>1. v \in PcValues /\ Goto(c, v)
    BY DEF Deletes, PcValues
  <2>2. QED
    BY <2>1, PcStep DEF Deletes
<1>3. /\ state[t] \in {"Stopped", "Exited"} /\ ~Queued(t) /\ ~Flying(t) /\ t \in Tcbs
      /\ state'[t] \in {"Stopped", "Exited"} /\ \A u \in Tcbs \ {t} : state'[u] = state[u]
      /\ priority'[t] \in Priorities /\ \A u \in Tcbs \ {t} : priority'[u] = priority[u]
      /\ \A u \in Tcbs \ {t} : preferred_cpu'[u] = preferred_cpu[u]
  BY TcbFacts DEF Deletes
<1>4. /\ \A d \in Cpus \ {c} : victim'[d] = victim[d]
      /\ victim'[c].tcb \in {t, NoTcb} /\ (v = "run" <=> victim'[c].tcb = NoTcb)
  BY DEF Deletes
<1>5. \A d \in Cpus : (Leaving(d)' <=> Leaving(d)) /\ (Away(d)' <=> Away(d)) /\ Pending(d)' = Pending(d)
  <2>1. Pending(c)' = Pending(c)
    BY <1>1, <1>2, PendingStays
  <2>2. ~Leaving(c) /\ ~Leaving(c)' /\ ~Away(c) /\ ~Away(c)'
    BY <1>2 DEF Leaving, Away
  <2>3. QED
    BY <1>1, <1>2, <2>1, <2>2, CpuStays
<1>6. Types'
  <2>1. Types
    BY DEF SInv
  <2>2. waiting' \subseteq Threads
    BY <1>1, <2>1 DEF Types
  <2>3. /\ locked' \in [Cpus -> 0..NumCpus] /\ victim' \in [Cpus -> [tcb : Threads \union {NoTcb}, on : Cpus]]
        /\ state' \in [Tcbs -> {"Created", "Ready", "Running", "Blocked", "Stopped", "Exited"}]
        /\ priority' \in [Tcbs -> Levels] /\ preferred_cpu' \in [Tcbs -> Cpus]
        /\ cpu_affinity' \in [Tcbs -> Cpus \union {AFFINITY_ANY}] /\ freed' \subseteq Threads
    BY DEF Deletes
  <2>4. QED
    BY <1>1, <1>2, <2>1, <2>2, <2>3 DEF Types
<1>7. SchedsOK' /\ QueuedWhereSought' /\ (\A d \in Cpus : QueuedOn(d)' = QueuedOn(d))
      /\ (\A u : (Queued(u)' <=> Queued(u)))
  <2>1. \A u \in Tcbs : Queued(u) => preferred_cpu'[u] = preferred_cpu[u] /\ priority'[u] = priority[u]
    BY <1>3
  <2>2. QED
    BY <1>1, <2>1, QueuesKept DEF SInv
<1>8. CpusOK'
  <2>1. ASSUME NEW d \in Cpus
        PROVE  /\ CpuOK(d)
               /\ ~Leaving(d) => state'[current[d]] = "Running" /\ preferred_cpu'[current[d]] = d
    <3>1. CpuOK(d) /\ current[d] \in Tcbs
      BY DEF SInv, CpusOK, Types
    <3>2. ~Leaving(d) => state[current[d]] = "Running" /\ preferred_cpu[current[d]] = d
      BY <3>1 DEF CpuOK
    <3>3. QED
      BY <1>3, <3>1, <3>2
  <2>2. CpuOK(c)'
    <3>1. CpuOK(c) /\ ~Leaving(c) /\ ((Away(c)' <=> Away(c))) /\ ((Leaving(c)' <=> Leaving(c)))
          /\ state'[current[c]] = "Running" /\ preferred_cpu'[current[c]] = c
      BY <1>2, <1>5, <2>1 DEF Leaving
    <3>2. wakes[c] = <<>>
      BY <1>2, <3>1 DEF CpuOK
    <3>3. pc'[c] \in {"lockall", "reap"} <=> victim'[c].tcb # NoTcb
      BY <1>2, <1>4
    <3>4. QED
      BY <1>1, <1>2, <3>1, <3>2, <3>3 DEF CpuOK
  <2>3. ASSUME NEW d \in Cpus \ {c} PROVE CpuOK(d)'
    BY <1>1, <1>2, <1>4, <2>1, CpuKept
  <2>4. QED
    BY <2>2, <2>3 DEF CpusOK
<1>9. Claimed' /\ OneStack'
  BY <1>1, <1>5, ClaimsKept DEF SInv, OneStack
<1>10. ThreadsOK'
  <2>1. \A u \in Threads : priority'[u] \in Priorities
    BY <1>3, TcbFacts DEF SInv, ThreadsOK
  <2>2. \A d \in Cpus : priority'[Idle(d)] = 0 /\ preferred_cpu'[Idle(d)] = d
    <3>1. \A d \in Cpus : priority[Idle(d)] = 0 /\ preferred_cpu[Idle(d)] = d
      BY DEF SInv, ThreadsOK
    <3>2. \A d \in Cpus : Idle(d) \in Tcbs \ {t}
      BY TcbFacts
    <3>3. QED
      BY <1>3, <3>1, <3>2
  <2>3. \A u \in waiting' \union sleep_list' : state'[u] = "Blocked"
    <3>1. \A u \in waiting \union sleep_list : state[u] = "Blocked" /\ u \in Tcbs
      BY TcbFacts DEF SInv, ThreadsOK, Types
    <3>2. QED
      BY <1>1, <1>3, <3>1
  <2>4. waiting' \intersect sleep_list' = {} /\ IsFiniteSet(sleep_list')
    BY <1>1 DEF SInv, ThreadsOK
  <2>5. ASSUME NEW d \in Cpus, victim'[d].tcb # NoTcb
        PROVE  state'[victim'[d].tcb] \in {"Stopped", "Exited"}
    <3>1. CASE d = c
      BY <1>3, <1>4, <2>5, <3>1
    <3>2. CASE d # c
      <4>1. victim'[d] = victim[d]
        BY <1>4, <3>2
      <4>2. victim[d].tcb \in Threads /\ state[victim[d].tcb] \in {"Stopped", "Exited"}
        <5>1. victim[d].tcb # NoTcb
          BY <2>5, <4>1
        <5>2. victim[d].tcb \in Threads
          BY <5>1 DEF SInv, Types
        <5>3. QED
          BY <5>1, <5>2 DEF SInv, ThreadsOK
      <4>3. QED
        BY <1>3, <4>1, <4>2, TcbFacts
    <3>3. QED
      BY <3>1, <3>2
  <2>6. QED
    BY <2>1, <2>2, <2>3, <2>4, <2>5 DEF ThreadsOK
<1>11. PlacesOK'
  <2>1. \A u : (Flying(u)' <=> Flying(u))
    BY <1>1, <1>5 DEF Flying
  <2>2. \A u \in Tcbs : Queued(u)' => state'[u] \in {"Ready", "Stopped"}
    BY <1>3, <1>7 DEF SInv, PlacesOK, QueuedReady
  <2>3. ASSUME NEW d \in Cpus, NEW i \in Pending(d)', NEW u, u = wakes'[d][i].tcb
        PROVE  /\ state'[u] \in {"Ready", "Stopped"} /\ wakes'[d][i].prio = priority'[u] /\ ~Queued(u)'
    <3>1. i \in Pending(d) /\ u = wakes[d][i].tcb
      BY <1>1, <1>5, <2>3
    <3>2. Flying(u) /\ u \in Tcbs \ {t}
      BY <1>3, <3>1, PlacedInTcbs DEF Flying
    <3>3. state[u] \in {"Ready", "Stopped"} /\ wakes[d][i].prio = priority[u] /\ ~Queued(u)
      BY <3>1 DEF SInv, PlacesOK, PendingReady, ReadyAt
    <3>4. QED
      BY <1>1, <1>3, <1>7, <3>2, <3>3
  <2>4. ASSUME NEW d \in Cpus, NEW e \in Cpus, NEW i \in Pending(d)', NEW j \in Pending(e)',
               wakes'[d][i].tcb = wakes'[e][j].tcb
        PROVE  d = e /\ i = j
    <3>1. i \in Pending(d) /\ j \in Pending(e)
      BY <1>5
    <3>2. QED
      <4>1. Once(d, i, e, j)
        BY <3>1 DEF SInv, PlacesOK, PendingOnce
      <4>2. QED
        BY <1>1, <2>4, <4>1 DEF Once
  <2>5. \A u \in Threads : state'[u] = "Ready" => Queued(u)' \/ Flying(u)'
    <3>1. \A u \in Threads : state'[u] = "Ready" => state[u] = "Ready"
      BY <1>3, TcbFacts
    <3>2. QED
      BY <1>7, <2>1, <3>1 DEF SInv, PlacesOK, ReadyPlaced
  <2>6. ASSUME NEW d \in Cpus, NEW u, u = victim'[d].tcb, u # NoTcb PROVE ~Queued(u)' /\ ~Flying(u)'
    <3>1. u = t \/ u = victim[d].tcb
      BY <1>4, <2>6
    <3>2. ~Queued(u) /\ ~Flying(u)
      BY <1>3, <2>6, <3>1 DEF SInv, PlacesOK, VictimsGone
    <3>3. QED
      BY <1>7, <2>1, <3>2
  <2>7. QED
    <3>1. QueuedReady' /\ ReadyPlaced'
      BY <2>2, <2>5 DEF QueuedReady, ReadyPlaced
    <3>2. ASSUME NEW d \in Cpus, NEW i \in Pending(d)' PROVE ReadyAt(d, i)'
      <4>1. PICK u : u = wakes'[d][i].tcb
        OBVIOUS
      <4>2. state'[u] \in {"Ready", "Stopped"} /\ wakes'[d][i].prio = priority'[u] /\ ~Queued(u)'
        BY <2>3, <4>1
      <4>3. QED
        BY <4>1, <4>2 DEF ReadyAt
    <3>3. PendingReady' /\ PendingOnce'
      BY <2>4, <3>2 DEF PendingReady, PendingOnce, Once
    <3>4. VictimsGone'
      BY <2>6 DEF VictimsGone
    <3>5. QED
      BY <3>1, <3>3, <3>4 DEF PlacesOK
<1>12. StacksOK'
  <2>1. \A d \in Cpus : /\ (Away(d)' <=> Away(d)) /\ Pending(d)' = Pending(d)
                        /\ QueuedOn(d)' = QueuedOn(d) /\ (pc'[d] = "switch" => pc[d] = "switch")
    BY <1>2, <1>5, <1>7
  <2>2. ASSUME NEW d \in Cpus, stack[d] \in sleep_list'
        PROVE  stack[d] \in sleep_list /\ preferred_cpu'[stack[d]] = preferred_cpu[stack[d]]
    <3>1. stack[d] \in Tcbs /\ state[stack[d]] = "Blocked"
      BY <1>1, <2>2 DEF SInv, Types, ThreadsOK
    <3>2. QED
      BY <1>1, <1>3, <2>2, <3>1
  <2>3. QED
    BY <1>1, <2>1, <2>2, StacksKept DEF SInv
<1>13. NoMissedWakeup'
  BY <1>1, <1>2, WakeupsKept DEF SInv
<1>14. QED
  BY <1>6, <1>7, <1>8, <1>9, <1>10, <1>11, <1>12, <1>13 DEF SInv

\* What is known of the thread a CPU is deleting.
LEMMA VictimFacts ==
  ASSUME SInv, NEW c \in Cpus, pc[c] \in {"lockall", "reap"}
  PROVE  /\ victim[c].tcb \in Threads /\ victim[c].tcb \in Tcbs
         /\ state[victim[c].tcb] \in {"Stopped", "Exited"}
         /\ ~Queued(victim[c].tcb) /\ ~Flying(victim[c].tcb)
<1>1. victim[c].tcb # NoTcb
  BY DEF SInv, CpusOK, CpuOK
<1>2. victim[c].tcb \in Threads
  BY <1>1 DEF SInv, Types
<1>3. QED
  BY <1>1, <1>2, TcbFacts DEF SInv, ThreadsOK, PlacesOK, VictimsGone

\* Out of the types: what a step of the deletion may leave alone.
LEMMA TypeFacts ==
  ASSUME SInv
  PROVE  /\ locked \in [Cpus -> 0..NumCpus]
         /\ victim \in [Cpus -> [tcb : Threads \union {NoTcb}, on : Cpus]]
         /\ state \in [Tcbs -> {"Created", "Ready", "Running", "Blocked", "Stopped", "Exited"}]
         /\ priority \in [Tcbs -> Levels] /\ preferred_cpu \in [Tcbs -> Cpus]
         /\ cpu_affinity \in [Tcbs -> Cpus \union {AFFINITY_ANY}] /\ freed \subseteq Threads
         /\ \A u \in Threads : priority[u] \in Priorities
BY DEF SInv, Types, ThreadsOK

\* A record of the deletion in progress.
LEMMA VictimTypes ==
  ASSUME NEW x \in [tcb : Threads \union {NoTcb}, on : Cpus]
  PROVE  /\ x = [tcb |-> x.tcb, on |-> x.on] /\ x.on \in Cpus
         /\ \A d \in Cpus : [x EXCEPT !.on = d] = [tcb |-> x.tcb, on |-> d]
         /\ [x EXCEPT !.tcb = NoTcb] = [tcb |-> NoTcb, on |-> x.on]
BY SMT

\* A deletion begins.
LEMMA DeleteStep ==
  ASSUME SInv, Settled, DeleteWhat \subseteq {"Stopped", "Exited"}, NEW c \in Cpus, NEW t \in Threads,
         Delete(c, t)
  PROVE  SInv'
<1>1. /\ victim' = [victim EXCEPT ![c] = [tcb |-> t, on |-> c]] /\ Goto(c, "lockall")
      /\ locked' = locked /\ freed' = freed /\ state' = state /\ priority' = priority
      /\ preferred_cpu' = preferred_cpu /\ cpu_affinity' = cpu_affinity /\ waiting' = waiting
      /\ UNCHANGED <<sched, current, stack, wakeVars, context_saved, sleep_list>>
  BY DEF Delete, threadVars
<1>2. pc[c] = "run" /\ AtRest(t) /\ (IF t = stack[c] THEN "Self" ELSE Standing(t)) \in {"Stopped", "Exited"}
  BY DEF Delete, InUser
<1>3. state[t] \in {"Stopped", "Exited"}
  <2>1. Standing(t) \in {"Stopped", "Exited"}
    BY <1>2
  <2>2. CASE state[t] = "Blocked"
    BY <2>1, <2>2 DEF Standing
  <2>3. CASE state[t] # "Blocked"
    BY <2>1, <2>3 DEF Standing
  <2>4. QED
    BY <2>2, <2>3
<1>4. ~Queued(t) /\ ~Flying(t)
  BY <1>2 DEF AtRest, InFlight, Queued, Flying, Pending
<1>5. PICK x \in [tcb : Threads \union {NoTcb}, on : Cpus] : x = [tcb |-> t, on |-> c] /\ x.tcb = t
  <2>1. [tcb |-> t, on |-> c] \in [tcb : Threads \union {NoTcb}, on : Cpus]
    OBVIOUS
  <2>2. [tcb |-> t, on |-> c].tcb = t
    OBVIOUS
  <2>3. QED
    BY <2>1, <2>2
<1>6. /\ victim' \in [Cpus -> [tcb : Threads \union {NoTcb}, on : Cpus]] /\ victim'[c] = x
      /\ \A d \in Cpus \ {c} : victim'[d] = victim[d]
  <2>1. victim \in [Cpus -> [tcb : Threads \union {NoTcb}, on : Cpus]] /\ victim' = [victim EXCEPT ![c] = x]
    BY <1>1, <1>5, TypeFacts
  <2>2. QED
    BY <2>1
<1>7. victim'[c].tcb \in {t, NoTcb} /\ victim'[c].tcb # NoTcb
  BY <1>5, <1>6, TcbFacts
<1>8. Deletes(c, t, "lockall")
  BY <1>1, <1>2, <1>3, <1>4, <1>6, <1>7, TypeFacts, TcbFacts DEF Deletes
<1>9. QED
  BY <1>8, DeletionStep

\* The next scheduler lock.
LEMMA LockStep ==
  ASSUME SInv, NEW c \in Cpus, LockNext(c)
  PROVE  SInv'
<1>1. /\ pc[c] = "lockall" /\ pc' = pc /\ victim' = victim
      /\ freed' = freed /\ state' = state /\ priority' = priority
      /\ preferred_cpu' = preferred_cpu /\ cpu_affinity' = cpu_affinity /\ waiting' = waiting
      /\ UNCHANGED <<sched, current, stack, wakeVars, context_saved, sleep_list>>
  BY DEF LockNext, threadVars
<1>2. Goto(c, "lockall")
  <2>1. pc \in [Cpus -> PcValues]
    BY DEF SInv, Types
  <2>2. pc = [pc EXCEPT ![c] = "lockall"]
    BY <1>1, <2>1
  <2>3. QED
    BY <1>1, <2>2 DEF Goto
<1>3. PICK t \in Threads : /\ t = victim[c].tcb /\ t \in Tcbs /\ state[t] \in {"Stopped", "Exited"}
                           /\ ~Queued(t) /\ ~Flying(t)
  BY <1>1, VictimFacts
<1>4. locked' \in [Cpus -> 0..NumCpus]
  <2>1. locked \in [Cpus -> 0..NumCpus] /\ locked[c] < NumCpus /\ locked' = [locked EXCEPT ![c] = locked[c] + 1]
    BY TypeFacts DEF LockNext
  <2>2. NumCpus \in Nat
    BY SchedulerAssumption
  <2>3. \A n \in 0..NumCpus : n < NumCpus => n + 1 \in 0..NumCpus
    BY <2>2, SMT
  <2>4. locked[c] + 1 \in 0..NumCpus
    BY <2>1, <2>3
  <2>5. QED
    BY <2>1, <2>4
<1>5. victim'[c].tcb \in {t, NoTcb} /\ victim'[c].tcb # NoTcb
  BY <1>1, <1>3, TcbFacts
<1>6. Deletes(c, t, "lockall")
  BY <1>1, <1>2, <1>3, <1>4, <1>5, TypeFacts DEF Deletes
<1>7. QED
  BY <1>6, DeletionStep

\* The memory of a thread goes back to the heap.
LEMMA FreedTypes ==
  ASSUME SInv, FiniteFacts, NEW t \in Threads, FreeTcb(t)
  PROVE  /\ priority' \in [Tcbs -> Levels] /\ priority'[t] \in Priorities
         /\ \A u \in Tcbs \ {t} : priority'[u] = priority[u]
         /\ preferred_cpu' \in [Tcbs -> Cpus] /\ \A u \in Tcbs \ {t} : preferred_cpu'[u] = preferred_cpu[u]
         /\ cpu_affinity' \in [Tcbs -> Cpus \union {AFFINITY_ANY}]
         /\ freed' \subseteq Threads /\ waiting' \subseteq waiting
<1>1. PICK m \in Priorities : m = Min(Priorities)
  <2>1. Priorities # {}
    BY TypeFacts
  <2>2. Priorities \in SUBSET Nat
    <3>1. \A n \in 1..(32 - 1) : n \in Nat
      BY SMT
    <3>2. QED
      BY <3>1, SchedulerAssumption DEF NUM_PRIORITY_LEVELS
  <2>3. QED
    BY <2>1, <2>2 DEF FiniteFacts
<1>2. /\ priority' = [priority EXCEPT ![t] = m] /\ cpu_affinity' = [cpu_affinity EXCEPT ![t] = AFFINITY_ANY]
      /\ preferred_cpu' = [preferred_cpu EXCEPT ![t] = 0]
      /\ freed' = freed \union {t} /\ waiting' = waiting \ {t}
  BY <1>1 DEF FreeTcb
<1>3. /\ priority \in [Tcbs -> Levels] /\ preferred_cpu \in [Tcbs -> Cpus] /\ t \in Tcbs /\ 0 \in Cpus
      /\ cpu_affinity \in [Tcbs -> Cpus \union {AFFINITY_ANY}] /\ freed \subseteq Threads /\ m \in Levels
  BY TypeFacts, TcbFacts DEF Levels
<1>4. /\ priority' \in [Tcbs -> Levels] /\ priority'[t] \in Priorities
      /\ \A u \in Tcbs \ {t} : priority'[u] = priority[u]
  BY <1>2, <1>3
<1>5. preferred_cpu' \in [Tcbs -> Cpus] /\ \A u \in Tcbs \ {t} : preferred_cpu'[u] = preferred_cpu[u]
  BY <1>2, <1>3
<1>6. cpu_affinity' \in [Tcbs -> Cpus \union {AFFINITY_ANY}]
  BY <1>2, <1>3
<1>7. freed' \subseteq Threads /\ waiting' \subseteq waiting
  BY <1>2, <1>3
<1>8. QED
  BY <1>4, <1>5, <1>6, <1>7

\* The CPU the deleted thread ran on has another current thread.
LEMMA ReapStep ==
  ASSUME SInv, FiniteFacts, NEW c \in Cpus, Reap(c)
  PROVE  SInv'
<1>1. /\ pc[c] = "reap" /\ Goto(c, "run") /\ FreeTcb(victim[c].tcb) /\ locked' = locked /\ state' = state
      /\ victim' = [victim EXCEPT ![c].tcb = NoTcb]
      /\ UNCHANGED <<sched, current, stack, wakeVars, context_saved, sleep_list>>
  BY DEF Reap
<1>2. PICK t \in Threads : /\ t = victim[c].tcb /\ t \in Tcbs /\ state[t] \in {"Stopped", "Exited"}
                           /\ ~Queued(t) /\ ~Flying(t)
  BY <1>1, VictimFacts
<1>3. FreeTcb(t)
  BY <1>1, <1>2
<1>4. PICK x \in [tcb : Threads \union {NoTcb}, on : Cpus] : x = [victim[c] EXCEPT !.tcb = NoTcb] /\ x.tcb = NoTcb
  <2>1. victim[c] \in [tcb : Threads \union {NoTcb}, on : Cpus]
    BY TypeFacts
  <2>2. [victim[c] EXCEPT !.tcb = NoTcb] = [tcb |-> NoTcb, on |-> victim[c].on] /\ victim[c].on \in Cpus
    BY <2>1, VictimTypes
  <2>3. QED
    BY <2>2
<1>5. /\ victim' \in [Cpus -> [tcb : Threads \union {NoTcb}, on : Cpus]] /\ victim'[c] = x
      /\ \A d \in Cpus \ {c} : victim'[d] = victim[d]
  <2>1. victim \in [Cpus -> [tcb : Threads \union {NoTcb}, on : Cpus]] /\ victim' = [victim EXCEPT ![c] = x]
    BY <1>1, <1>4, TypeFacts
  <2>2. QED
    BY <2>1
<1>6. victim'[c].tcb \in {t, NoTcb} /\ victim'[c].tcb = NoTcb
  BY <1>4, <1>5
<1>7. /\ priority' \in [Tcbs -> Levels] /\ priority'[t] \in Priorities
      /\ \A u \in Tcbs \ {t} : priority'[u] = priority[u]
      /\ preferred_cpu' \in [Tcbs -> Cpus] /\ \A u \in Tcbs \ {t} : preferred_cpu'[u] = preferred_cpu[u]
      /\ cpu_affinity' \in [Tcbs -> Cpus \union {AFFINITY_ANY}]
      /\ freed' \subseteq Threads /\ waiting' \subseteq waiting
  BY <1>3, FreedTypes
<1>8. Deletes(c, t, "run")
  BY <1>1, <1>2, <1>5, <1>6, <1>7, TypeFacts DEF Deletes
<1>9. QED
  BY <1>8, DeletionStep

\* With all scheduler locks.
LEMMA MarkStep ==
  ASSUME SInv, FiniteFacts, RemoveFacts, NEW c \in Cpus, MarkExited(c)
  PROVE  SInv'
<1>1. /\ pc[c] = "lockall" /\ state' = [state EXCEPT ![victim[c].tcb] = "Exited"]
      /\ sched' = [k \in Cpus |-> remove_from_queue(sched[k], victim[c].tcb, priority[victim[c].tcb])]
      /\ locked' = [locked EXCEPT ![c] = 0]
      /\ UNCHANGED <<current, stack, wakeVars, context_saved, sleep_list>>
  BY DEF MarkExited
<1>2. PICK t \in Threads : /\ t = victim[c].tcb /\ t \in Tcbs /\ state[t] \in {"Stopped", "Exited"}
                           /\ ~Queued(t) /\ ~Flying(t)
  BY <1>1, VictimFacts
<1>3. sched' = sched
  <2>1. sched \in [Cpus -> Scheds] /\ \A k \in Cpus : SchedOK(sched[k])
    BY DEF SInv, SchedsOK
  <2>2. priority[t] \in Levels
    BY <1>2, TypeFacts
  <2>3. \A k \in Cpus : t \notin Range(sched[k].queues[priority[t]])
    BY <1>2, <2>2 DEF Queued, QueuedOn
  <2>4. \A k \in Cpus : remove_from_queue(sched[k], t, priority[t]) = sched[k]
    BY <1>2, <2>1, <2>2, <2>3 DEF RemoveFacts
  <2>5. sched' = [k \in Cpus |-> remove_from_queue(sched[k], t, priority[t])]
    BY <1>1, <1>2
  <2>6. QED
    BY <2>1, <2>4, <2>5
<1>4. /\ state' \in [Tcbs -> {"Created", "Ready", "Running", "Blocked", "Stopped", "Exited"}]
      /\ state'[t] \in {"Stopped", "Exited"} /\ \A u \in Tcbs \ {t} : state'[u] = state[u]
  <2>1. /\ state \in [Tcbs -> {"Created", "Ready", "Running", "Blocked", "Stopped", "Exited"}]
        /\ state' = [state EXCEPT ![t] = "Exited"]
    BY <1>1, <1>2, TypeFacts
  <2>2. QED
    BY <1>2, <2>1
<1>5. locked' \in [Cpus -> 0..NumCpus]
  <2>1. 0 \in 0..NumCpus
    <3>1. NumCpus \in Nat
      BY SchedulerAssumption
    <3>2. QED
      BY <3>1, SMT
  <2>2. QED
    BY <1>1, <2>1, TypeFacts
<1>6. victim[c] \in [tcb : Threads \union {NoTcb}, on : Cpus]
      /\ victim \in [Cpus -> [tcb : Threads \union {NoTcb}, on : Cpus]]
  BY TypeFacts
<1>7. PICK R \in SUBSET Cpus : R = {k \in Cpus : current[k] = t}
  OBVIOUS
<1>8. CASE R # {}
  <2>1. /\ victim' = [victim EXCEPT ![c].on = Min(R)] /\ Goto(c, "reap") /\ freed' = freed /\ waiting' = waiting
        /\ priority' = priority /\ cpu_affinity' = cpu_affinity /\ preferred_cpu' = preferred_cpu
    BY <1>2, <1>7, <1>8 DEF MarkExited
  <2>2. PICK d \in Cpus : d = Min(R)
    <3>1. R \in SUBSET Nat
      BY TcbFacts
    <3>2. QED
      BY <1>8, <3>1 DEF FiniteFacts
  <2>3. PICK x \in [tcb : Threads \union {NoTcb}, on : Cpus] : x = [victim[c] EXCEPT !.on = d] /\ x.tcb = t
    <3>1. [victim[c] EXCEPT !.on = d] = [tcb |-> t, on |-> d]
      BY <1>2, <1>6, VictimTypes
    <3>2. [tcb |-> t, on |-> d] \in [tcb : Threads \union {NoTcb}, on : Cpus]
      OBVIOUS
    <3>3. [tcb |-> t, on |-> d].tcb = t
      OBVIOUS
    <3>4. QED
      BY <3>1, <3>2, <3>3
  <2>4. /\ victim' \in [Cpus -> [tcb : Threads \union {NoTcb}, on : Cpus]] /\ victim'[c] = x
        /\ \A k \in Cpus \ {c} : victim'[k] = victim[k]
    <3>1. victim' = [victim EXCEPT ![c] = x]
      BY <2>1, <2>2, <2>3
    <3>2. QED
      BY <1>6, <3>1
  <2>5. victim'[c].tcb \in {t, NoTcb} /\ victim'[c].tcb # NoTcb
    BY <2>3, <2>4, TcbFacts
  <2>6. Deletes(c, t, "reap")
    BY <1>1, <1>2, <1>3, <1>4, <1>5, <2>1, <2>4, <2>5, TypeFacts DEF Deletes
  <2>7. QED
    BY <2>6, DeletionStep
<1>9. CASE R = {}
  <2>1. victim' = [victim EXCEPT ![c].tcb = NoTcb] /\ Goto(c, "run") /\ FreeTcb(t)
    BY <1>2, <1>7, <1>9 DEF MarkExited
  <2>2. PICK x \in [tcb : Threads \union {NoTcb}, on : Cpus] : x = [victim[c] EXCEPT !.tcb = NoTcb] /\ x.tcb = NoTcb
    <3>1. [victim[c] EXCEPT !.tcb = NoTcb] = [tcb |-> NoTcb, on |-> victim[c].on] /\ victim[c].on \in Cpus
      BY <1>6, VictimTypes
    <3>2. QED
      BY <3>1
  <2>3. /\ victim' \in [Cpus -> [tcb : Threads \union {NoTcb}, on : Cpus]] /\ victim'[c] = x
        /\ \A k \in Cpus \ {c} : victim'[k] = victim[k]
    <3>1. victim' = [victim EXCEPT ![c] = x]
      BY <2>1, <2>2
    <3>2. QED
      BY <1>6, <3>1
  <2>4. victim'[c].tcb \in {t, NoTcb} /\ victim'[c].tcb = NoTcb
    BY <2>2, <2>3
  <2>5. /\ priority' \in [Tcbs -> Levels] /\ priority'[t] \in Priorities
        /\ \A u \in Tcbs \ {t} : priority'[u] = priority[u]
        /\ preferred_cpu' \in [Tcbs -> Cpus] /\ \A u \in Tcbs \ {t} : preferred_cpu'[u] = preferred_cpu[u]
        /\ cpu_affinity' \in [Tcbs -> Cpus \union {AFFINITY_ANY}]
        /\ freed' \subseteq Threads /\ waiting' \subseteq waiting
    BY <2>1, FreedTypes
  <2>6. Deletes(c, t, "run")
    BY <1>1, <1>2, <1>3, <1>4, <1>5, <2>1, <2>3, <2>4, <2>5 DEF Deletes
  <2>7. QED
    BY <2>6, DeletionStep
<1>10. QED
  BY <1>8, <1>9

\* SYS_THREAD_SET_AFFINITY.
LEMMA AffinityStep ==
  ASSUME SInv, NEW c \in Cpus, NEW t \in Threads, NEW a \in Affinities, SetAffinity(c, t, a)
  PROVE  SInv'
<1>1. /\ sched' = sched /\ current' = current /\ stack' = stack /\ pc' = pc /\ after' = after
      /\ wakes' = wakes /\ locked' = locked /\ victim' = victim /\ freed' = freed
      /\ idle_mask' = idle_mask /\ ipi' = ipi /\ priority' = priority /\ state' = state
      /\ preferred_cpu' = preferred_cpu /\ context_saved' = context_saved /\ sleep_list' = sleep_list
      /\ waiting' = waiting
  BY DEF SetAffinity, cpuVars, idleVars
<1>2. cpu_affinity' \in [Tcbs -> Cpus \union {AFFINITY_ANY}]
  <2>1. a \in Cpus \union {AFFINITY_ANY} /\ cpu_affinity \in [Tcbs -> Cpus \union {AFFINITY_ANY}]
    BY SchedulerAssumption, TypeFacts
  <2>2. cpu_affinity' = [cpu_affinity EXCEPT ![t] = a]
    BY DEF SetAffinity
  <2>3. QED
    BY <2>1, <2>2
<1>3. \A d \in Cpus : /\ (Leaving(d)' <=> Leaving(d)) /\ (Away(d)' <=> Away(d)) /\ Pending(d)' = Pending(d)
                      /\ QueuedOn(d)' = QueuedOn(d)
  BY <1>1 DEF Leaving, Away, Pending, QueuedOn
<1>4. \A u : (Queued(u)' <=> Queued(u)) /\ (Flying(u)' <=> Flying(u))
  BY <1>1, <1>3 DEF Queued, Flying
<1>5. Types'
  <2>1. Types
    BY DEF SInv
  <2>2. QED
    BY <1>1, <1>2, <2>1 DEF Types
<1>6. SchedsOK' /\ QueuedWhereSought' /\ Claimed' /\ OneStack' /\ ThreadsOK' /\ NoMissedWakeup'
  <2>1. SchedsOK' /\ QueuedWhereSought'
    <3>1. \A u \in Tcbs : Queued(u) => preferred_cpu'[u] = preferred_cpu[u] /\ priority'[u] = priority[u]
      BY <1>1
    <3>2. QED
      BY <1>1, <3>1, QueuesKept DEF SInv
  <2>2. Claimed' /\ OneStack'
    BY <1>1, <1>3 DEF SInv, Claimed, OneStack
  <2>3. ThreadsOK' /\ NoMissedWakeup'
    BY <1>1 DEF SInv, ThreadsOK, NoMissedWakeup
  <2>4. QED
    BY <2>1, <2>2, <2>3
<1>7. CpusOK'
  BY <1>1, <1>3 DEF SInv, CpusOK, CpuOK
<1>8. PlacesOK'
  BY <1>1, <1>3, <1>4, PlacesKept DEF SInv
<1>9. StacksOK'
  BY <1>1, <1>3, StacksKept DEF SInv
<1>10. QED
  BY <1>5, <1>6, <1>7, <1>8, <1>9 DEF SInv

\* The first half of SYS_THREAD_SET_PRIORITY: a thread in no run queue and on
\* its way to none gets another priority.
Reprioritises(c, t, p) ==
  /\ t \in Threads /\ p \in Priorities /\ ~Flying(t) /\ ~Queued(t)
  /\ pc[c] = "run" /\ Goto(c, "priority")
  /\ priority' = [priority EXCEPT ![t] = p]
  /\ UNCHANGED <<sched, current, stack, wakeVars, locked, victim, freed, state, cpu_affinity,
                 preferred_cpu, context_saved, waiting, sleep_list>>

\* The invariant through a change of priority.
LEMMA PriorityStep ==
  ASSUME SInv, NEW c \in Cpus, NEW t, NEW p, Reprioritises(c, t, p)
  PROVE  SInv'
<1>1. /\ sched' = sched /\ current' = current /\ stack' = stack /\ after' = after
      /\ wakes' = wakes /\ locked' = locked /\ victim' = victim /\ freed' = freed
      /\ idle_mask' = idle_mask /\ ipi' = ipi /\ cpu_affinity' = cpu_affinity /\ state' = state
      /\ preferred_cpu' = preferred_cpu /\ context_saved' = context_saved /\ sleep_list' = sleep_list
      /\ waiting' = waiting
  BY DEF Reprioritises, wakeVars, idleVars
<1>2. t \in Threads /\ t \in Tcbs /\ p \in Priorities /\ p \in Levels /\ ~Flying(t) /\ ~Queued(t)
  BY TcbFacts DEF Reprioritises, Levels
<1>3. /\ priority' \in [Tcbs -> Levels] /\ priority'[t] = p
      /\ \A u \in Tcbs \ {t} : priority'[u] = priority[u]
  <2>1. priority \in [Tcbs -> Levels] /\ priority' = [priority EXCEPT ![t] = p]
    BY TypeFacts DEF Reprioritises
  <2>2. QED
    BY <1>2, <2>1
<1>4. /\ pc' \in [Cpus -> PcValues] /\ pc'[c] = "priority" /\ pc[c] = "run"
       /\ \A d \in Cpus \ {c} : pc'[d] = pc[d]
  BY PcStep DEF PcValues, Reprioritises
<1>5. \A d \in Cpus : (Leaving(d)' <=> Leaving(d)) /\ (Away(d)' <=> Away(d)) /\ Pending(d)' = Pending(d)
  <2>1. Pending(c)' = Pending(c)
    BY <1>1, <1>4, PendingStays
  <2>2. ~Leaving(c) /\ ~Leaving(c)' /\ ~Away(c) /\ ~Away(c)'
    BY <1>4 DEF Leaving, Away
  <2>3. QED
    BY <1>1, <1>4, <2>1, <2>2, CpuStays
<1>6. SchedsOK' /\ QueuedWhereSought' /\ \A d \in Cpus : QueuedOn(d)' = QueuedOn(d)
  <2>1. \A u \in Tcbs : Queued(u) => preferred_cpu'[u] = preferred_cpu[u] /\ priority'[u] = priority[u]
    BY <1>1, <1>2, <1>3
  <2>2. QED
    BY <1>1, <2>1, QueuesKept DEF SInv
<1>7. \A u : (Queued(u)' <=> Queued(u)) /\ (Flying(u)' <=> Flying(u))
  BY <1>1, <1>5, <1>6 DEF Queued, Flying
<1>8. Types'
  <2>1. Types
    BY DEF SInv
  <2>2. QED
    BY <1>1, <1>3, <1>4, <2>1 DEF Types
<1>9. Claimed' /\ OneStack'
  BY <1>1, <1>5 DEF SInv, Claimed, OneStack
<1>10. CpusOK'
  <2>1. CpuOK(c)'
    BY <1>1, <1>5, <1>4 DEF SInv, CpusOK, CpuOK
  <2>2. ASSUME NEW d \in Cpus \ {c} PROVE CpuOK(d)'
    <3>1. CpuOK(d) /\ (~Leaving(d) => state[current[d]] = "Running" /\ preferred_cpu[current[d]] = d)
      BY DEF SInv, CpusOK, CpuOK
    <3>2. QED
      BY <1>1, <1>4, <3>1, CpuKept
  <2>3. QED
    BY <2>1, <2>2 DEF CpusOK
<1>11. ThreadsOK'
  <2>1. \A u \in Threads : priority'[u] \in Priorities
    BY <1>2, <1>3, TcbFacts DEF SInv, ThreadsOK
  <2>2. \A d \in Cpus : priority'[Idle(d)] = 0
    <3>1. \A d \in Cpus : priority[Idle(d)] = 0 /\ Idle(d) \in Tcbs \ {t}
      BY <1>2, TcbFacts DEF SInv, ThreadsOK
    <3>2. QED
      BY <1>3, <3>1
  <2>3. QED
    BY <1>1, <2>1, <2>2 DEF SInv, ThreadsOK
<1>12. PlacesOK'
  <2>1. \A u \in Tcbs : Queued(u)' => state'[u] \in {"Ready", "Stopped"}
    BY <1>1, <1>7 DEF SInv, PlacesOK, QueuedReady
  <2>2. ASSUME NEW d \in Cpus, NEW i \in Pending(d)', NEW u, u = wakes'[d][i].tcb
        PROVE  /\ state'[u] \in {"Ready", "Stopped"} /\ wakes'[d][i].prio = priority'[u] /\ ~Queued(u)'
    <3>1. i \in Pending(d) /\ u = wakes[d][i].tcb
      BY <1>1, <1>5, <2>2
    <3>2. Flying(u) /\ u \in Tcbs \ {t}
      BY <1>2, <3>1, PlacedInTcbs DEF Flying
    <3>3. state[u] \in {"Ready", "Stopped"} /\ wakes[d][i].prio = priority[u] /\ ~Queued(u)
      BY <3>1 DEF SInv, PlacesOK, PendingReady, ReadyAt
    <3>4. QED
      BY <1>1, <1>3, <1>7, <3>2, <3>3
  <2>3. ASSUME NEW d \in Cpus, NEW e \in Cpus, NEW i \in Pending(d)', NEW j \in Pending(e)',
               wakes'[d][i].tcb = wakes'[e][j].tcb
        PROVE  d = e /\ i = j
    <3>1. i \in Pending(d) /\ j \in Pending(e)
      BY <1>5
    <3>2. QED
      <4>1. Once(d, i, e, j)
        BY <3>1 DEF SInv, PlacesOK, PendingOnce
      <4>2. QED
        BY <1>1, <2>3, <4>1 DEF Once
  <2>4. \A u \in Threads : state'[u] = "Ready" => Queued(u)' \/ Flying(u)'
    BY <1>1, <1>7 DEF SInv, PlacesOK, ReadyPlaced
  <2>5. ASSUME NEW d \in Cpus, NEW u, u = victim'[d].tcb, u # NoTcb PROVE ~Queued(u)' /\ ~Flying(u)'
    <3>1. ~Queued(u) /\ ~Flying(u)
      BY <1>1, <2>5 DEF SInv, PlacesOK, VictimsGone
    <3>2. QED
      BY <1>7, <3>1
  <2>6. QED
    <3>1. QueuedReady' /\ ReadyPlaced'
      BY <2>1, <2>4 DEF QueuedReady, ReadyPlaced
    <3>2. ASSUME NEW d \in Cpus, NEW i \in Pending(d)' PROVE ReadyAt(d, i)'
      <4>1. PICK u : u = wakes'[d][i].tcb
        OBVIOUS
      <4>2. state'[u] \in {"Ready", "Stopped"} /\ wakes'[d][i].prio = priority'[u] /\ ~Queued(u)'
        BY <2>2, <4>1
      <4>3. QED
        BY <4>1, <4>2 DEF ReadyAt
    <3>3. PendingReady' /\ PendingOnce'
      BY <2>3, <3>2 DEF PendingReady, PendingOnce, Once
    <3>4. VictimsGone'
      BY <2>5 DEF VictimsGone
    <3>5. QED
      BY <3>1, <3>3, <3>4 DEF PlacesOK
<1>13. StacksOK'
  BY <1>1, <1>5, <1>4, <1>6, StacksKept DEF SInv
<1>14. NoMissedWakeup'
  BY <1>1, <1>4, WakeupsKept DEF SInv
<1>15. QED
  BY <1>6, <1>8, <1>9, <1>10, <1>11, <1>12, <1>13, <1>14 DEF SInv

\* SYS_THREAD_SET_PRIORITY, by the caller on itself or on a thread at rest.
LEMMA SetPriorityStep ==
  ASSUME SInv, Settled, PriorityWhat \subseteq {"Self", "Created", "Stopped"}, NEW c \in Cpus,
         NEW t \in Threads, NEW p \in Priorities, SetPriority(c, t, p)
  PROVE  SInv'
<1>1. /\ InUser(c) /\ (AtRest(t) \/ state[t] = "Ready")
      /\ (IF t = stack[c] THEN "Self" ELSE Standing(t)) \in {"Self", "Created", "Stopped"}
  BY DEF SetPriority
<1>2. state[t] # "Ready"
  <2>1. CASE t = stack[c]
    BY <1>1, <2>1, UserFacts
  <2>2. CASE t # stack[c] /\ state[t] = "Ready"
    <3>1. Standing(t) = "Ready"
      BY <2>2 DEF Standing
    <3>2. QED
      BY <1>1, <2>2, <3>1
  <2>3. QED
    BY <2>1, <2>2
<1>3. ~Flying(t) /\ ~Queued(t)
  BY <1>1, <1>2 DEF AtRest, InFlight, Flying, Pending, Queued
<1>4. Reprioritises(c, t, p)
  BY <1>3 DEF SetPriority, InUser, Reprioritises
<1>5. QED
  BY <1>4, PriorityStep

\* Its second half, for a thread that is not Ready.
LEMMA SetPriorityDoneStep ==
  ASSUME SInv, NEW c \in Cpus, SetPriorityDone(c)
  PROVE  SInv'
<1>1. /\ pc[c] = "priority" /\ Goto(c, "run") /\ UNCHANGED quietVars
      /\ idle_mask' = idle_mask /\ ipi' = ipi
  BY DEF SetPriorityDone, quietVars, wakeVars, idleVars
<1>2. idle_mask \subseteq Cpus /\ ipi \subseteq Cpus
  BY DEF SInv, Types
<1>3. QED
  BY <1>1, <1>2, QuietStep

-----------------------------------------------------------------------------
(* schedule().                                                             *)

\* CPU c may continue u: nobody else runs it, wakes it or has it queued, and
\* who is still on its stack has not saved its registers.
Pickable(c, u) ==
  /\ u \in Threads \union {Idle(c)} /\ u \in Tcbs /\ preferred_cpu[u] = c
  /\ ~Flying(u) /\ u \notin waiting /\ u \notin sleep_list
  /\ \A d \in Cpus : victim[d].tcb # u
  /\ \A d \in Cpus \ {c} : /\ ~Leaving(d) => current[d] # u
                           /\ u \notin QueuedOn(d)
                           /\ stack[d] = u => ~context_saved[u]

\* The run queues s and states st with which CPU c looks for the next thread.
Prepared(c, s, st) ==
  /\ s \in Scheds /\ SchedOK(s)
  /\ st \in [Tcbs -> {"Created", "Ready", "Running", "Blocked", "Stopped", "Exited"}]
  /\ \A u \in Tcbs : state[u] # "Running" => st[u] = state[u]
  /\ \A d \in Cpus \ {c} : ~Leaving(d) => st[current[d]] = "Running"
  /\ \A l \in Levels : \A u \in Range(s.queues[l]) :
       Pickable(c, u) /\ priority[u] = l /\ st[u] \in {"Ready", "Stopped"}
  /\ \A u \in Threads : st[u] = "Ready" =>
       \/ Flying(u) \/ (\E d \in Cpus \ {c} : u \in QueuedOn(d))
       \/ \E l \in Levels : u \in Range(s.queues[l])

\* A queued TCB is queued on the CPU and at the priority it names.
LEMMA QueuedAt ==
  ASSUME SInv, NEW c \in Cpus, NEW l \in Levels, NEW u \in Range(sched[c].queues[l])
  PROVE  u \in QueuedOn(c) /\ preferred_cpu[u] = c /\ priority[u] = l
<1>1. u \in QueuedOn(c)
  BY DEF QueuedOn
<1>2. preferred_cpu[u] = c /\ priority[u] = l
  BY DEF SInv, QueuedWhereSought
<1>3. QED
  BY <1>1, <1>2

\* A queued TCB is queued on the CPU it names.
LEMMA QueuedThere ==
  ASSUME SInv, NEW c \in Cpus, NEW u, u \in QueuedOn(c)
  PROVE  preferred_cpu[u] = c
<1>1. PICK l \in Levels : u \in Range(sched[c].queues[l])
  BY DEF QueuedOn
<1>2. QED
  BY <1>1, QueuedAt

\* A CPU may continue what is in its run queues.
LEMMA PickableQueued ==
  ASSUME SInv, NEW c \in Cpus, NEW u \in QueuedOn(c)
  PROVE  Pickable(c, u) /\ state[u] \in {"Ready", "Stopped"}
<1>1. PICK l \in Levels : u \in Range(sched[c].queues[l])
  BY DEF QueuedOn
<1>2. u \in Tcbs /\ preferred_cpu[u] = c /\ Queued(u)
  BY <1>1, RangeInTcbs DEF SInv, QueuedWhereSought, Queued
<1>3. state[u] \in {"Ready", "Stopped"}
  BY <1>2 DEF SInv, PlacesOK, QueuedReady
<1>4. u \in Threads \union {Idle(c)}
  <2>1. ASSUME NEW d \in Cpus, u = Idle(d) PROVE d = c
    BY <1>2, <2>1 DEF SInv, ThreadsOK
  <2>2. QED
    BY <1>2, <2>1 DEF Tcbs
<1>5. ~Flying(u)
  <2>1. \A d \in Cpus : \A i \in Pending(d) : ReadyAt(d, i)
    BY DEF SInv, PlacesOK, PendingReady
  <2>2. QED
    BY <1>2, <2>1 DEF Flying, ReadyAt
<1>6. u \notin waiting /\ u \notin sleep_list
  BY <1>3 DEF SInv, ThreadsOK
<1>7. \A d \in Cpus : victim[d].tcb # u
  <2>1. \A d \in Cpus : victim[d].tcb # NoTcb => ~Queued(victim[d].tcb)
    BY DEF SInv, PlacesOK, VictimsGone
  <2>2. QED
    BY <1>2, <2>1, TcbFacts
<1>8. \A d \in Cpus \ {c} : ~Leaving(d) => current[d] # u
  BY <1>3 DEF SInv, CpusOK, CpuOK
<1>9. \A d \in Cpus \ {c} : u \notin QueuedOn(d)
  BY <1>2, QueuedThere
<1>10. \A d \in Cpus \ {c} : stack[d] = u => ~context_saved[u]
  BY DEF SInv, StacksOK, StackOK, OnlyHere
<1>11. QED
  BY <1>2, <1>3, <1>4, <1>5, <1>6, <1>7, <1>8, <1>9, <1>10 DEF Pickable

\* A CPU may continue its idle thread.
LEMMA PickableIdle ==
  ASSUME SInv, NEW c \in Cpus
  PROVE  Pickable(c, Idle(c))
<1>1. Idle(c) \in Tcbs /\ Idle(c) \notin Threads /\ NoTcb # Idle(c)
  BY TcbFacts
<1>2. preferred_cpu[Idle(c)] = c
  BY DEF SInv, ThreadsOK
<1>3. ~Flying(Idle(c))
  <2>1. ASSUME NEW d \in Cpus, NEW i \in DOMAIN wakes[d] PROVE wakes[d][i].tcb \in Threads
    <3>1. wakes[d] \in Seq(Wakeup)
      BY DEF SInv, Types
    <3>2. wakes[d][i] \in Wakeup
      BY <3>1, SMT
    <3>3. QED
      BY <3>2 DEF Wakeup
  <2>2. QED
    BY <1>1, <2>1 DEF Flying, Pending
<1>4. Idle(c) \notin waiting /\ Idle(c) \notin sleep_list
  BY <1>1 DEF SInv, Types
<1>5. \A d \in Cpus : victim[d].tcb # Idle(c)
  <2>1. \A d \in Cpus : victim[d].tcb \in Threads \union {NoTcb}
    BY DEF SInv, Types
  <2>2. QED
    BY <1>1, <2>1
<1>6. \A d \in Cpus \ {c} : current[d] # Idle(c) /\ stack[d] # Idle(c)
  <2>1. \A d \in Cpus : current[d] \in Threads \union {Idle(d)} /\ stack[d] \in Threads \union {Idle(d)}
    BY DEF SInv, CpusOK, CpuOK
  <2>2. QED
    BY <1>1, <2>1, TcbFacts
<1>7. \A d \in Cpus \ {c} : Idle(c) \notin QueuedOn(d)
  BY <1>2, QueuedThere
<1>8. QED
  BY <1>1, <1>2, <1>3, <1>4, <1>5, <1>6, <1>7 DEF Pickable

\* What is known of a CPU in schedule(true).
LEMMA PickableCurrent ==
  ASSUME SInv, NEW c \in Cpus, pc[c] = "resched"
  PROVE  /\ Pickable(c, current[c]) /\ state[current[c]] = "Running" /\ ~Queued(current[c])
         /\ current[c] = stack[c]
<1>1. ~Leaving(c) /\ ~Away(c)
  BY DEF Leaving, Away
<1>2. /\ current[c] \in Threads \union {Idle(c)} /\ state[current[c]] = "Running"
      /\ preferred_cpu[current[c]] = c /\ current[c] = stack[c]
  BY <1>1 DEF SInv, CpusOK, CpuOK
<1>3. current[c] \in Tcbs
  BY <1>2, TcbFacts
<1>4. /\ ~Queued(current[c]) /\ ~Flying(current[c]) /\ current[c] \notin waiting
      /\ current[c] \notin sleep_list /\ \A d \in Cpus : victim[d].tcb # current[c]
  BY <1>2, <1>3, RunningFacts
<1>5. \A d \in Cpus \ {c} : (~Leaving(d) => current[d] # current[c]) /\ stack[d] # current[c]
  BY <1>1, <1>2 DEF SInv, Claimed, OneStack
<1>6. \A d \in Cpus : current[c] \notin QueuedOn(d)
  BY <1>4 DEF Queued
<1>7. Pickable(c, current[c])
  BY <1>2, <1>3, <1>4, <1>5, <1>6 DEF Pickable
<1>8. QED
  BY <1>2, <1>4, <1>7

\* schedule(false): run queues and states as they are.
LEMMA PreparedStay ==
  ASSUME SInv, NEW c \in Cpus
  PROVE  Prepared(c, sched[c], state)
<1>1. sched[c] \in Scheds /\ SchedOK(sched[c])
      /\ state \in [Tcbs -> {"Created", "Ready", "Running", "Blocked", "Stopped", "Exited"}]
  BY DEF SInv, SchedsOK, Types
<1>2. \A d \in Cpus \ {c} : ~Leaving(d) => state[current[d]] = "Running"
  BY DEF SInv, CpusOK, CpuOK
<1>3. ASSUME NEW l \in Levels, NEW u \in Range(sched[c].queues[l])
      PROVE  Pickable(c, u) /\ priority[u] = l /\ state[u] \in {"Ready", "Stopped"}
  <2>1. u \in QueuedOn(c) /\ priority[u] = l
    BY DEF QueuedOn, SInv, QueuedWhereSought
  <2>2. QED
    BY <2>1, PickableQueued
<1>4. \A u \in Threads : state[u] = "Ready" =>
        \/ Flying(u) \/ (\E d \in Cpus \ {c} : u \in QueuedOn(d))
        \/ \E l \in Levels : u \in Range(sched[c].queues[l])
  <2>1. \A u \in Threads : state[u] = "Ready" => Queued(u) \/ Flying(u)
    BY DEF SInv, PlacesOK, ReadyPlaced
  <2>2. \A u : u \in QueuedOn(c) => \E l \in Levels : u \in Range(sched[c].queues[l])
    BY DEF QueuedOn
  <2>3. QED
    BY <2>1, <2>2 DEF Queued
<1>5. QED
  BY <1>1, <1>2, <1>3, <1>4 DEF Prepared

\* schedule(true): the current thread is Ready and at the end of its queue.
LEMMA PreparedRequeue ==
  ASSUME SInv, EnqueueFacts, NEW c \in Cpus, pc[c] = "resched",
         NEW cur, cur = current[c]
  PROVE  Prepared(c, enqueue(sched[c], cur, priority[cur]), [state EXCEPT ![cur] = "Ready"])
<1>1. /\ Pickable(c, cur) /\ state[cur] = "Running" /\ ~Queued(cur) /\ cur = stack[c] /\ cur \in Tcbs
  BY PickableCurrent DEF Pickable
<1>2. PICK p \in Levels : p = priority[cur]
  BY <1>1, TypeFacts
<1>3. \A d \in Cpus, l \in Levels : cur \notin Range(sched[d].queues[l])
  BY <1>1 DEF Queued, QueuedOn
<1>4. PICK s0 \in Scheds : s0 = sched[c] /\ SchedOK(s0) /\ cur \notin Range(s0.queues[p])
  BY <1>3 DEF SInv, SchedsOK
<1>5. PICK s : s = enqueue(s0, cur, p)
  OBVIOUS
<1>6. /\ SchedOK(s) /\ Range(s.queues[p]) = Range(s0.queues[p]) \union {cur}
      /\ \A l \in Levels \ {p} : Range(s.queues[l]) = Range(s0.queues[l])
  <2>1. Added(s0, enqueue(s0, cur, p), cur, p)
    BY <1>1, <1>4 DEF EnqueueFacts
  <2>2. QED
    BY <1>5, <2>1 DEF Added
<1>7. s \in Scheds
  BY <1>6 DEF SchedOK
<1>8. PICK st : st = [state EXCEPT ![cur] = "Ready"]
  OBVIOUS
<1>9. /\ st \in [Tcbs -> {"Created", "Ready", "Running", "Blocked", "Stopped", "Exited"}]
      /\ st[cur] = "Ready" /\ \A u \in Tcbs \ {cur} : st[u] = state[u]
  <2>1. state \in [Tcbs -> {"Created", "Ready", "Running", "Blocked", "Stopped", "Exited"}]
    BY TypeFacts
  <2>2. QED
    BY <1>1, <1>8, <2>1
<1>10. ASSUME NEW d \in Cpus \ {c}, ~Leaving(d) PROVE st[current[d]] = "Running"
  <2>1. current[d] # cur
    BY <1>1, <1>10 DEF Pickable
  <2>2. current[d] \in Tcbs
    BY DEF SInv, Types
  <2>3. state[current[d]] = "Running"
    BY <1>10 DEF SInv, CpusOK, CpuOK
  <2>4. QED
    BY <1>9, <2>1, <2>2, <2>3
<1>11. ASSUME NEW l \in Levels, NEW u \in Range(s.queues[l])
       PROVE  Pickable(c, u) /\ priority[u] = l /\ st[u] \in {"Ready", "Stopped"}
  <2>1. CASE u = cur
    <3>1. l = p
      BY <1>3, <1>4, <1>6, <2>1
    <3>2. QED
      BY <1>1, <1>2, <1>9, <2>1, <3>1
  <2>2. CASE u # cur
    <3>1. u \in Range(sched[c].queues[l])
      BY <1>4, <1>6, <2>2
    <3>2. Prepared(c, sched[c], state)
      BY PreparedStay
    <3>3. Pickable(c, u) /\ priority[u] = l /\ state[u] \in {"Ready", "Stopped"}
      BY <3>1, <3>2 DEF Prepared
    <3>4. u \in Tcbs
      BY <3>3 DEF Pickable
    <3>5. QED
      BY <1>9, <2>2, <3>3, <3>4
  <2>3. QED
    BY <2>1, <2>2
<1>12. ASSUME NEW u \in Threads, st[u] = "Ready"
       PROVE  \/ Flying(u) \/ (\E d \in Cpus \ {c} : u \in QueuedOn(d))
              \/ \E l \in Levels : u \in Range(s.queues[l])
  <2>1. CASE u = cur
    BY <1>6, <2>1
  <2>2. CASE u # cur
    <3>1. state[u] = "Ready"
      BY <1>9, <1>12, <2>2, TcbFacts
    <3>2. Queued(u) \/ Flying(u)
      BY <3>1 DEF SInv, PlacesOK, ReadyPlaced
    <3>3. u \in QueuedOn(c) => \E l \in Levels : u \in Range(s.queues[l])
      BY <1>4, <1>6 DEF QueuedOn
    <3>4. QED
      BY <3>2, <3>3 DEF Queued
  <2>3. QED
    BY <2>1, <2>2
<1>13. \A u \in Tcbs : state[u] # "Running" => st[u] = state[u]
  BY <1>1, <1>9
<1>14. Prepared(c, s, st)
  BY <1>6, <1>7, <1>9, <1>10, <1>11, <1>12, <1>13 DEF Prepared
<1>15. QED
  BY <1>2, <1>4, <1>5, <1>8, <1>14

\* CPU c has dequeued from the run queues s until it found n; r is what is left.
Picks(c, s, st, n, r) ==
  /\ pc[c] \in {"resched", "block"} /\ Prepared(c, s, st) /\ Pickable(c, n) /\ SchedOK(r)
  /\ \A l \in Levels : Range(r.queues[l]) \subseteq Range(s.queues[l]) /\ n \notin Range(r.queues[l])
  /\ \A l \in Levels : \A u \in Range(s.queues[l]) \ Range(r.queues[l]) : u = n \/ ~Runs(st, u)
  /\ sched' = [sched EXCEPT ![c] = r] /\ state' = [st EXCEPT ![n] = "Running"]
  /\ \/ n = current[c] /\ Goto(c, "run") /\ UNCHANGED <<current, preferred_cpu, context_saved>>
     \/ /\ n # current[c]
        /\ current' = [current EXCEPT ![c] = n]
        /\ preferred_cpu' = [preferred_cpu EXCEPT ![n] = c]
        /\ context_saved' = [context_saved EXCEPT ![current[c]] = FALSE]
        /\ Goto(c, IF n = Idle(c) THEN "switch" ELSE "spin")
  /\ UNCHANGED <<stack, wakeVars, callVars, priority, cpu_affinity, waiting, sleep_list>>

\* The invariant when CPU c continues the thread it found.
LEMMA PickCore ==
  ASSUME SInv, NEW c \in Cpus, NEW s, NEW st, NEW n, NEW r, Picks(c, s, st, n, r)
  PROVE  SInv'
<1>1. /\ stack' = stack /\ after' = after /\ wakes' = wakes /\ idle_mask' = idle_mask /\ ipi' = ipi
      /\ locked' = locked /\ victim' = victim /\ freed' = freed /\ priority' = priority
      /\ cpu_affinity' = cpu_affinity /\ waiting' = waiting /\ sleep_list' = sleep_list
  BY DEF Picks, wakeVars, idleVars, callVars
<1>2. pc[c] \in {"resched", "block"} /\ Prepared(c, s, st) /\ Pickable(c, n) /\ SchedOK(r)
      /\ \A l \in Levels : Range(r.queues[l]) \subseteq Range(s.queues[l]) /\ n \notin Range(r.queues[l])
  BY DEF Picks
<1>3. /\ n \in Threads \union {Idle(c)} /\ n \in Tcbs /\ preferred_cpu[n] = c
      /\ ~Flying(n) /\ n \notin waiting /\ n \notin sleep_list
      /\ \A d \in Cpus : victim[d].tcb # n
      /\ \A d \in Cpus \ {c} : /\ ~Leaving(d) => current[d] # n
                               /\ n \notin QueuedOn(d)
                               /\ stack[d] = n => ~context_saved[n]
  BY <1>2 DEF Pickable
<1>4. ~Away(c) /\ CpuOK(c) /\ wakes[c] = <<>> /\ victim[c].tcb = NoTcb
      /\ stack[c] = current[c] /\ current[c] \in Tcbs
  <2>1. ~Away(c) /\ CpuOK(c) /\ current[c] \in Tcbs
    BY <1>2 DEF SInv, CpusOK, Types, Away
  <2>2. QED
    BY <1>2, <2>1 DEF CpuOK
<1>5. /\ pc' \in [Cpus -> PcValues] /\ pc'[c] \in {"run", "switch", "spin"}
      /\ \A d \in Cpus \ {c} : pc'[d] = pc[d]
      /\ pc'[c] = "run" => n = current[c] /\ current' = current /\ preferred_cpu' = preferred_cpu
                           /\ context_saved' = context_saved
      /\ pc'[c] # "run" => n # current[c] /\ (pc'[c] = "switch" => n = Idle(c))
                           /\ current' = [current EXCEPT ![c] = n]
                           /\ preferred_cpu' = [preferred_cpu EXCEPT ![n] = c]
                           /\ context_saved' = [context_saved EXCEPT ![current[c]] = FALSE]
  <2>1. CASE n = current[c]
    <3>1. Goto(c, "run") /\ "run" \in PcValues
      BY <2>1 DEF Picks, PcValues
    <3>2. pc' \in [Cpus -> PcValues] /\ pc'[c] = "run" /\ \A d \in Cpus \ {c} : pc'[d] = pc[d]
      BY <3>1, PcStep
    <3>3. QED
      BY <2>1, <3>2 DEF Picks
  <2>2. CASE n # current[c]
    <3>1. PICK v \in {"switch", "spin"} : Goto(c, v) /\ (v = "switch" => n = Idle(c))
      BY <2>2 DEF Picks
    <3>2. v \in PcValues /\ v # "run"
      BY DEF PcValues
    <3>3. pc' \in [Cpus -> PcValues] /\ pc'[c] = v /\ \A d \in Cpus \ {c} : pc'[d] = pc[d]
      BY <3>1, <3>2, PcStep
    <3>4. QED
      BY <2>2, <3>1, <3>2, <3>3 DEF Picks
  <2>3. QED
    BY <2>1, <2>2
<1>6. /\ current' \in [Cpus -> Tcbs] /\ current'[c] = n /\ \A d \in Cpus \ {c} : current'[d] = current[d]
      /\ preferred_cpu' \in [Tcbs -> Cpus] /\ \A u \in Tcbs : preferred_cpu'[u] = preferred_cpu[u]
      /\ context_saved' \in [Tcbs -> BOOLEAN]
      /\ \A u \in Tcbs : context_saved'[u] => context_saved[u]
      /\ pc'[c] # "run" => ~context_saved'[current[c]]
  <2>1. /\ current \in [Cpus -> Tcbs] /\ preferred_cpu \in [Tcbs -> Cpus]
        /\ context_saved \in [Tcbs -> BOOLEAN]
    BY DEF SInv, Types
  <2>2. CASE pc'[c] = "run"
    BY <1>3, <1>5, <2>1, <2>2
  <2>3. CASE pc'[c] # "run"
    <3>1. current' \in [Cpus -> Tcbs] /\ current'[c] = n /\ \A d \in Cpus \ {c} : current'[d] = current[d]
      <4>1. current' = [current EXCEPT ![c] = n] /\ n \in Tcbs
        BY <1>3, <1>5, <2>3
      <4>2. QED
        BY <2>1, <4>1
    <3>2. preferred_cpu' \in [Tcbs -> Cpus] /\ \A u \in Tcbs : preferred_cpu'[u] = preferred_cpu[u]
      BY <1>3, <1>5, <2>1, <2>3
    <3>3. /\ context_saved' \in [Tcbs -> BOOLEAN] /\ ~context_saved'[current[c]]
          /\ \A u \in Tcbs : context_saved'[u] => context_saved[u]
      BY <1>4, <1>5, <2>1, <2>3
    <3>4. QED
      BY <3>1, <3>2, <3>3
  <2>4. QED
    BY <2>2, <2>3
<1>7. /\ SchedOK(s) /\ r \in Scheds
      /\ st \in [Tcbs -> {"Created", "Ready", "Running", "Blocked", "Stopped", "Exited"}]
      /\ \A u \in Tcbs : state[u] # "Running" => st[u] = state[u]
      /\ \A d \in Cpus \ {c} : ~Leaving(d) => st[current[d]] = "Running"
  BY <1>2 DEF Prepared, SchedOK
<1>8. ASSUME NEW l \in Levels, NEW u \in Range(r.queues[l])
      PROVE  u # n /\ Pickable(c, u) /\ priority[u] = l /\ st[u] \in {"Ready", "Stopped"} /\ u \in Tcbs
  <2>1. u \in Range(s.queues[l]) /\ u # n
    BY <1>2
  <2>2. Pickable(c, u) /\ priority[u] = l /\ st[u] \in {"Ready", "Stopped"}
    BY <1>2, <2>1 DEF Prepared
  <2>3. QED
    BY <2>1, <2>2 DEF Pickable
<1>9. /\ state' \in [Tcbs -> {"Created", "Ready", "Running", "Blocked", "Stopped", "Exited"}]
      /\ state'[n] = "Running" /\ \A u \in Tcbs \ {n} : state'[u] = st[u]
  <2>1. state' = [st EXCEPT ![n] = "Running"]
    BY DEF Picks
  <2>2. QED
    BY <1>3, <1>7, <2>1
<1>10. /\ \A d \in Cpus \ {c} : (Leaving(d)' <=> Leaving(d)) /\ (Away(d)' <=> Away(d))
       /\ \A d \in Cpus : Pending(d)' = Pending(d)
       /\ ~Leaving(c)' /\ (Away(c)' <=> pc'[c] # "run")
  <2>1. \A d \in Cpus \ {c} : (Leaving(d)' <=> Leaving(d)) /\ (Away(d)' <=> Away(d)) /\ Pending(d)' = Pending(d)
    BY <1>1, <1>5 DEF Leaving, Away, Pending
  <2>2. Pending(c)' = Pending(c)
    <3>1. pc[c] # "ipi" /\ pc'[c] # "ipi"
      BY <1>2, <1>5
    <3>2. QED
      BY <1>1, <3>1 DEF Pending
  <2>3. ~Leaving(c)' /\ (Away(c)' <=> pc'[c] # "run")
    BY <1>5 DEF Leaving, Away
  <2>4. QED
    BY <2>1, <2>2, <2>3
<1>11. /\ sched' \in [Cpus -> Scheds] /\ sched'[c] = r /\ \A d \in Cpus \ {c} : sched'[d] = sched[d]
       /\ \A d \in Cpus : SchedOK(sched[d])
  <2>1. sched \in [Cpus -> Scheds] /\ \A d \in Cpus : SchedOK(sched[d])
    BY DEF SInv, SchedsOK
  <2>2. sched' = [sched EXCEPT ![c] = r]
    BY DEF Picks
  <2>3. QED
    BY <1>7, <2>1, <2>2
<1>12. SchedsOK'
  BY <1>2, <1>11 DEF SchedsOK
<1>13. /\ \A d \in Cpus \ {c} : QueuedOn(d)' = QueuedOn(d)
       /\ \A u : u \in QueuedOn(c)' <=> \E l \in Levels : u \in Range(r.queues[l])
       /\ \A u : (Flying(u)' <=> Flying(u))
  BY <1>1, <1>10, <1>11 DEF QueuedOn, Flying
<1>14. Types'
  <2>1. Types
    BY DEF SInv
  <2>2. QED
    BY <1>1, <1>5, <1>6, <1>9, <2>1 DEF Types
<1>15. QueuedWhereSought'
  <2>1. ASSUME NEW d \in Cpus, NEW l \in Levels, NEW u \in Range(sched'[d].queues[l])
        PROVE  preferred_cpu'[u] = d /\ priority'[u] = l
    <3>1. CASE d = c
      <4>1. u \in Range(r.queues[l])
        BY <1>11, <2>1, <3>1
      <4>2. u \in Tcbs /\ Pickable(c, u) /\ priority[u] = l
        BY <1>8, <4>1
      <4>3. preferred_cpu[u] = c
        BY <4>2 DEF Pickable
      <4>4. QED
        BY <1>1, <1>6, <3>1, <4>2, <4>3
    <3>2. CASE d # c
      <4>1. u \in Range(sched[d].queues[l])
        BY <1>11, <3>2
      <4>2. u \in Tcbs /\ preferred_cpu[u] = d /\ priority[u] = l
        BY <4>1, RangeInTcbs DEF SInv, QueuedWhereSought
      <4>3. QED
        BY <1>1, <1>6, <4>2
    <3>3. QED
      BY <3>1, <3>2
  <2>2. QED
    BY <2>1 DEF QueuedWhereSought
<1>16. CpusOK'
  <2>1. CpuOK(c)'
    <3>1. /\ current'[c] \in Threads \union {Idle(c)} /\ stack'[c] \in Threads \union {Idle(c)}
          /\ after'[c] \in {"run", "block", "awake"} /\ wakes'[c] = <<>> /\ victim'[c].tcb = NoTcb
      BY <1>1, <1>3, <1>4, <1>6 DEF CpuOK
    <3>2. Away(c)' <=> stack'[c] # current'[c]
      BY <1>1, <1>4, <1>5, <1>6, <1>10
    <3>3. state'[n] = "Running" /\ preferred_cpu'[n] = c
      BY <1>3, <1>6, <1>9
    <3>4. QED
      BY <1>5, <1>6, <3>1, <3>2, <3>3 DEF CpuOK
  <2>2. ASSUME NEW d \in Cpus \ {c} PROVE CpuOK(d)'
    <3>1. CpuOK(d) /\ current[d] \in Tcbs
      BY DEF SInv, CpusOK, Types
    <3>2. ~Leaving(d) => preferred_cpu[current[d]] = d /\ st[current[d]] = "Running" /\ current[d] # n
      BY <1>3, <1>7, <3>1 DEF CpuOK
    <3>3. ~Leaving(d) => state'[current[d]] = "Running" /\ preferred_cpu'[current[d]] = d
      BY <1>6, <1>9, <3>1, <3>2
    <3>4. QED
      BY <1>1, <1>5, <1>6, <3>1, <3>3, CpuKept
  <2>3. QED
    BY <2>1, <2>2 DEF CpusOK
<1>17. Claimed' /\ OneStack'
  <2>1. Claimed'
    <3>1. ASSUME NEW d \in Cpus, NEW e \in Cpus, d # e, ~Leaving(d)', ~Leaving(e)' PROVE current'[d] # current'[e]
      <4>1. CASE d = c
        BY <1>3, <1>6, <1>10, <3>1, <4>1
      <4>2. CASE e = c
        BY <1>3, <1>6, <1>10, <3>1, <4>2
      <4>3. CASE d # c /\ e # c
        BY <1>6, <1>10, <3>1, <4>3 DEF SInv, Claimed
      <4>4. QED
        BY <4>1, <4>2, <4>3
    <3>2. QED
      BY <3>1 DEF Claimed
  <2>2. OneStack'
    BY <1>1 DEF SInv, OneStack
  <2>3. QED
    BY <2>1, <2>2
<1>18. ThreadsOK'
  <2>1. \A u \in waiting \union sleep_list : state'[u] = "Blocked"
    <3>1. \A u \in waiting \union sleep_list : state[u] = "Blocked" /\ u \in Tcbs
      BY TcbFacts DEF SInv, ThreadsOK, Types
    <3>2. QED
      BY <1>3, <1>7, <1>9, <3>1
  <2>2. ASSUME NEW d \in Cpus, victim[d].tcb # NoTcb PROVE state'[victim[d].tcb] \in {"Stopped", "Exited"}
    <3>1. victim[d].tcb \in Threads
      BY <2>2 DEF SInv, Types
    <3>2. state[victim[d].tcb] \in {"Stopped", "Exited"}
      BY <2>2 DEF SInv, ThreadsOK
    <3>3. QED
      BY <1>3, <1>7, <1>9, <3>1, <3>2, TcbFacts
  <2>3. \A d \in Cpus : preferred_cpu'[Idle(d)] = d
    BY <1>6, TcbFacts DEF SInv, ThreadsOK
  <2>4. QED
    BY <1>1, <2>1, <2>2, <2>3 DEF SInv, ThreadsOK
<1>19. PlacesOK'
  <2>1. \A u \in Tcbs : Queued(u)' => state'[u] \in {"Ready", "Stopped"}
    <3>1. ASSUME NEW u \in Tcbs, NEW d \in Cpus, u \in QueuedOn(d)' PROVE state'[u] \in {"Ready", "Stopped"}
      <4>1. CASE d = c
        <5>1. PICK l \in Levels : u \in Range(r.queues[l])
          BY <1>13, <3>1, <4>1
        <5>2. u # n /\ st[u] \in {"Ready", "Stopped"}
          BY <1>8, <5>1
        <5>3. QED
          BY <1>9, <5>2
      <4>2. CASE d # c
        <5>1. u \in QueuedOn(d) /\ u # n
          BY <1>3, <1>13, <3>1, <4>2
        <5>2. state[u] \in {"Ready", "Stopped"}
          BY <5>1, PickableQueued
        <5>3. QED
          BY <1>7, <1>9, <5>1, <5>2
      <4>3. QED
        BY <4>1, <4>2
    <3>2. QED
      BY <3>1 DEF Queued
  <2>2. \A u : Flying(u) => ~Queued(u)'
    <3>1. \A l \in Levels : \A u \in Range(r.queues[l]) : ~Flying(u)
      BY <1>8 DEF Pickable
    <3>2. \A u : Flying(u) => ~Queued(u)
      <4>1. \A d \in Cpus : \A i \in Pending(d) : ReadyAt(d, i)
        BY DEF SInv, PlacesOK, PendingReady
      <4>2. QED
        BY <4>1 DEF Flying, ReadyAt
    <3>3. QED
      BY <1>13, <3>1, <3>2 DEF Queued
  <2>3. ASSUME NEW d \in Cpus, NEW i \in Pending(d)', NEW u, u = wakes'[d][i].tcb
        PROVE  /\ state'[u] \in {"Ready", "Stopped"} /\ wakes'[d][i].prio = priority'[u] /\ ~Queued(u)'
    <3>1. i \in Pending(d) /\ u = wakes[d][i].tcb
      BY <1>1, <1>10, <2>3
    <3>2. Flying(u) /\ u \in Tcbs /\ u # n
      BY <1>3, <3>1, PlacedInTcbs DEF Flying
    <3>3. state[u] \in {"Ready", "Stopped"} /\ wakes[d][i].prio = priority[u]
      BY <3>1 DEF SInv, PlacesOK, PendingReady, ReadyAt
    <3>4. QED
      BY <1>1, <1>7, <1>9, <2>2, <3>2, <3>3
  <2>4. ASSUME NEW d \in Cpus, NEW e \in Cpus, NEW i \in Pending(d)', NEW j \in Pending(e)',
               wakes'[d][i].tcb = wakes'[e][j].tcb
        PROVE  d = e /\ i = j
    <3>1. i \in Pending(d) /\ j \in Pending(e)
      BY <1>10
    <3>2. QED
      <4>1. Once(d, i, e, j)
        BY <3>1 DEF SInv, PlacesOK, PendingOnce
      <4>2. QED
        BY <1>1, <2>4, <4>1 DEF Once
  <2>5. ASSUME NEW u \in Threads, state'[u] = "Ready" PROVE Queued(u)' \/ Flying(u)'
    <3>1. u # n /\ st[u] = "Ready"
      BY <1>9, <2>5, TcbFacts
    <3>2. Flying(u) \/ (\E d \in Cpus \ {c} : u \in QueuedOn(d)) \/ \E l \in Levels : u \in Range(s.queues[l])
      BY <1>2, <3>1 DEF Prepared
    <3>3. Runs(st, u)
      BY <3>1 DEF Runs
    <3>4. \A l \in Levels : u \in Range(s.queues[l]) => u \in Range(r.queues[l])
      BY <3>1, <3>3 DEF Picks
    <3>5. QED
      BY <1>13, <3>2, <3>4 DEF Queued
  <2>6. ASSUME NEW d \in Cpus, NEW u, u = victim'[d].tcb, u # NoTcb PROVE ~Queued(u)' /\ ~Flying(u)'
    <3>1. ~Queued(u) /\ ~Flying(u) /\ u = victim[d].tcb
      BY <1>1, <2>6 DEF SInv, PlacesOK, VictimsGone
    <3>2. \A l \in Levels : u \notin Range(r.queues[l])
      <4>1. \A l \in Levels : \A w \in Range(r.queues[l]) : victim[d].tcb # w
        <5>1. ASSUME NEW l \in Levels, NEW w \in Range(r.queues[l]) PROVE Pickable(c, w)
          BY <1>8
        <5>2. QED
          BY <5>1 DEF Pickable
      <4>2. QED
        BY <3>1, <4>1
    <3>3. QED
      BY <1>13, <3>1, <3>2 DEF Queued
  <2>7. QED
    <3>1. QueuedReady' /\ ReadyPlaced'
      BY <2>1, <2>5 DEF QueuedReady, ReadyPlaced
    <3>2. ASSUME NEW d \in Cpus, NEW i \in Pending(d)' PROVE ReadyAt(d, i)'
      <4>1. PICK u : u = wakes'[d][i].tcb
        OBVIOUS
      <4>2. state'[u] \in {"Ready", "Stopped"} /\ wakes'[d][i].prio = priority'[u] /\ ~Queued(u)'
        BY <2>3, <4>1
      <4>3. QED
        BY <4>1, <4>2 DEF ReadyAt
    <3>3. PendingReady' /\ PendingOnce'
      BY <2>4, <3>2 DEF PendingReady, PendingOnce, Once
    <3>4. VictimsGone'
      BY <2>6 DEF VictimsGone
    <3>5. QED
      BY <3>1, <3>3, <3>4 DEF PlacesOK
<1>20. StacksOK'
  <2>1. \A d \in Cpus : stack[d] \in Tcbs
    BY DEF SInv, Types
  <2>2. ASSUME NEW x \in Cpus
        PROVE  /\ Away(x) => ~context_saved[stack[x]]
               /\ pc[x] = "switch" => \A d \in Cpus \ {x} : stack[d] # current[x]
               /\ context_saved[stack[x]] =>
                    /\ \A d \in Cpus : current[d] = stack[x] \/ stack[x] \in QueuedOn(d) => d = x
                    /\ stack[x] \notin waiting
                    /\ stack[x] \in sleep_list => preferred_cpu[stack[x]] = x
                    /\ \A d \in Cpus : \A i \in Pending(d) : wakes[d][i].tcb = stack[x] => wakes[d][i].cpu = x
    BY DEF SInv, StacksOK, StackOK, OnlyHere
  <2>3. ASSUME NEW x \in Cpus, Away(x)' PROVE ~context_saved'[stack[x]]
    <3>1. CASE x = c
      BY <1>4, <1>6, <1>10, <2>3, <3>1
    <3>2. CASE x # c
      BY <1>6, <1>10, <2>1, <2>2, <2>3, <3>2
    <3>3. QED
      BY <3>1, <3>2
  <2>4. ASSUME NEW x \in Cpus, pc'[x] = "switch", NEW d \in Cpus \ {x} PROVE stack[d] # current'[x]
    <3>1. CASE x = c
      <4>1. n = Idle(c)
        BY <1>5, <2>4, <3>1
      <4>2. stack[d] \in Threads \union {Idle(d)}
        BY DEF SInv, CpusOK, CpuOK
      <4>3. QED
        BY <1>6, <3>1, <4>1, <4>2, TcbFacts
    <3>2. CASE x # c
      BY <1>5, <1>6, <2>2, <2>4, <3>2
    <3>3. QED
      BY <3>1, <3>2
  <2>5. ASSUME NEW x \in Cpus, context_saved'[stack[x]], NEW d \in Cpus,
               current'[d] = stack[x] \/ stack[x] \in QueuedOn(d)'
        PROVE  d = x
    <3>1. context_saved[stack[x]]
      BY <1>6, <2>1, <2>5
    <3>2. CASE d # c
      <4>1. current[d] = stack[x] \/ stack[x] \in QueuedOn(d)
        BY <1>6, <1>13, <2>5, <3>2
      <4>2. QED
        BY <2>2, <3>1, <4>1
    <3>3. CASE d = c /\ current'[d] = stack[x]
      BY <1>3, <1>6, <3>1, <3>3
    <3>4. CASE d = c /\ stack[x] \in QueuedOn(d)'
      <4>1. PICK l \in Levels : stack[x] \in Range(r.queues[l])
        BY <1>13, <3>4
      <4>2. Pickable(c, stack[x])
        BY <1>8, <4>1
      <4>3. QED
        BY <3>1, <3>4, <4>2 DEF Pickable
    <3>5. QED
      BY <2>5, <3>2, <3>3, <3>4
  <2>6. ASSUME NEW x \in Cpus, context_saved'[stack[x]]
        PROVE  /\ stack[x] \notin waiting
               /\ stack[x] \in sleep_list => preferred_cpu'[stack[x]] = x
               /\ \A d \in Cpus : \A i \in Pending(d) : wakes[d][i].tcb = stack[x] => wakes[d][i].cpu = x
    BY <1>6, <2>1, <2>2, <2>6
  <2>7. QED
    <3>1. ASSUME NEW x \in Cpus, context_saved'[stack[x]] PROVE OnlyHere(x)'
      <4>1. \A d \in Cpus : current'[d] = stack[x] \/ stack[x] \in QueuedOn(d)' => d = x
        BY <2>5, <3>1
      <4>2. QED
        <5>1. /\ stack[x] \notin waiting
              /\ stack[x] \in sleep_list => preferred_cpu'[stack[x]] = x
              /\ \A d \in Cpus : \A i \in Pending(d) : wakes[d][i].tcb = stack[x] => wakes[d][i].cpu = x
          BY <2>6, <3>1
        <5>2. \A d \in Cpus : \A i \in Pending(d)' : wakes'[d][i].tcb = stack[x] => wakes'[d][i].cpu = x
          BY <1>1, <1>10, <5>1
        <5>3. QED
          BY <1>1, <4>1, <5>1, <5>2 DEF OnlyHere
    <3>2. ASSUME NEW x \in Cpus PROVE StackOK(x)'
      BY <1>1, <2>3, <2>4, <3>1 DEF StackOK
    <3>3. QED
      BY <3>2 DEF StacksOK
<1>21. NoMissedWakeup'
  <2>1. \A d \in Cpus : /\ pc'[d] = "halt" /\ sched'[d].non_empty # {} => pc[d] = "halt" /\ sched[d].non_empty # {}
                        /\ pc[d] = "ipi" => pc'[d] = "ipi" /\ wakes'[d] = wakes[d]
    BY <1>1, <1>2, <1>5, <1>11
  <2>2. QED
    BY <1>1, <2>1, WakeupsKept DEF SInv
<1>22. QED
  BY <1>12, <1>14, <1>15, <1>16, <1>17, <1>18, <1>19, <1>20, <1>21 DEF SInv

\* What the search finds may be continued, and is in no queue any more.
LEMMA FoundPickable ==
  ASSUME SInv, NEW c \in Cpus, NEW s, NEW st, NEW n, NEW r,
         Prepared(c, s, st), Taken(s, r, st, n, Idle(c))
  PROVE  Pickable(c, n) /\ \A l \in Levels : n \notin Range(r.queues[l])
<1>1. CASE n = Idle(c) /\ \A l \in Levels : \A t \in Range(s.queues[l]) : ~Runs(st, t)
  <2>1. Pickable(c, n)
    BY <1>1, PickableIdle
  <2>2. Runs(st, n)
    BY <1>1, TcbFacts DEF Runs
  <2>3. QED
    BY <1>1, <2>1, <2>2 DEF Taken
<1>2. CASE \E l \in Levels : n \in Range(s.queues[l]) /\ n \notin Range(r.queues[l])
  <2>1. PICK l \in Levels : n \in Range(s.queues[l]) /\ n \notin Range(r.queues[l])
    BY <1>2
  <2>2. Pickable(c, n) /\ priority[n] = l
    BY <2>1 DEF Prepared
  <2>3. ASSUME NEW k \in Levels, n \in Range(r.queues[k]) PROVE FALSE
    <3>1. n \in Range(s.queues[k])
      BY <2>3 DEF Taken
    <3>2. priority[n] = k
      BY <3>1 DEF Prepared
    <3>3. QED
      BY <2>1, <2>2, <2>3, <3>2
  <2>4. QED
    BY <2>2, <2>3
<1>3. QED
  BY <1>1, <1>2 DEF Taken

\* schedule(): requeue the current thread or not, search, switch.
LEMMA PickStep ==
  ASSUME SInv, EnqueueFacts, DequeueFacts, NEW c \in Cpus, Pick(c)
  PROVE  SInv'
<1> DEFINE cur == current[c]
           requeue == pc[c] = "resched" /\ state[cur] \notin {"Exited", "Stopped"}
           st0 == IF requeue THEN [state EXCEPT ![cur] = "Ready"] ELSE state
           s0 == IF requeue THEN enqueue(sched[c], cur, priority[cur]) ELSE sched[c]
<1>1. PICK st : st = st0
  OBVIOUS
<1>2. PICK s : s = s0
  OBVIOUS
<1>3. PICK n : n = dequeue_highest(s0, st0, Idle(c))
  OBVIOUS
<1>4. PICK r : r = Dequeued(s0, st0)
  OBVIOUS
<1>5. pc[c] \in {"resched", "block"}
  BY DEF Pick
<1>6. Prepared(c, s, st)
  <2>1. CASE pc[c] = "resched"
    <3>1. state[cur] = "Running"
      <4>1. ~Leaving(c) /\ CpuOK(c)
        BY <2>1 DEF SInv, CpusOK, Leaving
      <4>2. QED
        BY <4>1 DEF CpuOK
    <3>2. requeue
      BY <2>1, <3>1
    <3>3. s = enqueue(sched[c], cur, priority[cur]) /\ st = [state EXCEPT ![cur] = "Ready"]
      BY <1>1, <1>2, <3>2
    <3>4. Prepared(c, enqueue(sched[c], cur, priority[cur]), [state EXCEPT ![cur] = "Ready"])
      BY <2>1, PreparedRequeue
    <3>5. QED
      BY <3>3, <3>4
  <2>2. CASE pc[c] = "block"
    <3>1. ~requeue
      BY <2>2
    <3>2. s = sched[c] /\ st = state
      BY <1>1, <1>2, <3>1
    <3>3. Prepared(c, sched[c], state)
      BY <2>2, PreparedStay
    <3>4. QED
      BY <3>2, <3>3
  <2>3. QED
    BY <1>5, <2>1, <2>2
<1>7. Taken(s, r, st, n, Idle(c))
  <2>1. s \in Scheds /\ SchedOK(s)
    BY <1>6 DEF Prepared
  <2>2. Taken(s, Dequeued(s, st), st, dequeue_highest(s, st, Idle(c)), Idle(c))
    BY <2>1 DEF DequeueFacts
  <2>3. r = Dequeued(s, st) /\ n = dequeue_highest(s, st, Idle(c))
    BY <1>1, <1>2, <1>3, <1>4
  <2>4. QED
    BY <2>2, <2>3
<1>8. Pickable(c, n) /\ \A l \in Levels : n \notin Range(r.queues[l])
  BY <1>6, <1>7, FoundPickable
<1>9. /\ sched' = [sched EXCEPT ![c] = r] /\ state' = [st EXCEPT ![n] = "Running"]
      /\ \/ n = current[c] /\ Goto(c, "run") /\ UNCHANGED <<current, preferred_cpu, context_saved>>
         \/ /\ n # current[c]
            /\ current' = [current EXCEPT ![c] = n]
            /\ preferred_cpu' = [preferred_cpu EXCEPT ![n] = c]
            /\ context_saved' = [context_saved EXCEPT ![current[c]] = FALSE]
            /\ Goto(c, IF n = Idle(c) THEN "switch" ELSE "spin")
      /\ UNCHANGED <<stack, wakeVars, callVars, priority, cpu_affinity, waiting, sleep_list>>
  BY <1>1, <1>3, <1>4 DEF Pick
<1>10. Picks(c, s, st, n, r)
  BY <1>5, <1>6, <1>7, <1>8, <1>9 DEF Picks, Taken
<1>11. QED
  BY <1>10, PickCore

-----------------------------------------------------------------------------
(* Arithmetic of the wrapping load counter.                                *)

\* A remainder is determined by its range.
LEMMA ModValue ==
  ASSUME NEW a \in Int, NEW m \in Nat \ {0}, NEW q \in Int, NEW r \in 0..(m - 1),
         a = m * q + r
  PROVE  a % m = r
BY SMT

\* A number is a multiple of the modulus and its remainder.
LEMMA ModParts ==
  ASSUME NEW a \in Int, NEW m \in Nat \ {0}
  PROVE  /\ a % m \in 0..(m - 1)
         /\ \E q \in Int : a = m * q + (a % m)
<1>1. a % m \in 0..(m - 1)
  BY SMT
<1>2. a \div m \in Int /\ a = m * (a \div m) + (a % m)
  BY SMT
<1>3. QED
  BY <1>1, <1>2

\* Adding to a wrapped counter wraps the sum.
LEMMA ModAdd ==
  ASSUME NEW a \in Int, NEW b \in Int, NEW m \in Nat \ {0}
  PROVE  ((a % m) + b) % m = (a + b) % m
<1>1. PICK q \in Int : a = m * q + (a % m)
  BY ModParts
<1>2. PICK r \in 0..(m - 1) : r = a % m
  BY ModParts
<1>3. PICK s \in 0..(m - 1) : s = (r + b) % m
  BY ModParts, SMT
<1>4. PICK k \in Int : r + b = m * k + s
  <2>1. r + b \in Int
    BY SMT
  <2>2. QED
    BY <1>3, <2>1, ModParts
<1>5. a + b = m * (q + k) + s
  BY <1>1, <1>2, <1>4, SMT
<1>6. (a + b) % m = s
  <2>1. a + b \in Int /\ q + k \in Int
    BY SMT
  <2>2. QED
    BY <1>5, <2>1, ModValue
<1>7. QED
  BY <1>2, <1>3, <1>6

-----------------------------------------------------------------------------
(* The run queues of one CPU.                                              *)

\* The entries of a queue by index.
LEMMA QueueIndex ==
  ASSUME Library, NEW q \in Seq(Tcbs)
  PROVE  /\ DOMAIN q = 1..Len(q) /\ Len(q) \in Nat
         /\ Range(q) = {q[i] : i \in 1..Len(q)} /\ Range(q) \subseteq Tcbs
         /\ q = <<>> <=> Range(q) = {}
<1>1. Indexed(q)
  BY DEF Library, QueueFacts
<1>2. QED
  BY <1>1 DEF Indexed

\* The empty queue.
LEMMA NoQueue ==
  ASSUME Library
  PROVE  <<>> \in Seq(Tcbs) /\ IsInjective(<<>>) /\ Range(<<>>) = {}
BY DEF Library, QueueFacts

\* A TCB at the tail of a queue.
LEMMA QueueAppend ==
  ASSUME Library, NEW q \in Seq(Tcbs), IsInjective(q), NEW x \in Tcbs, x \notin Range(q)
  PROVE  /\ Append(q, x) \in Seq(Tcbs) /\ IsInjective(Append(q, x)) /\ Append(q, x) # <<>>
         /\ Range(Append(q, x)) = Range(q) \union {x} /\ Len(Append(q, x)) = Len(q) + 1
BY DEF Library, QueueFacts

\* A queue without one entry.
LEMMA QueueCut ==
  ASSUME Library, NEW q \in Seq(Tcbs), IsInjective(q), NEW i \in 1..Len(q)
  PROVE  /\ Cut(q, i) \in Seq(Tcbs) /\ IsInjective(Cut(q, i))
         /\ Range(Cut(q, i)) = Range(q) \ {q[i]} /\ Len(Cut(q, i)) = Len(q) - 1
BY DEF Library, QueueFacts

\* A queue without its first entries.
LEMMA QueueSuffix ==
  ASSUME Library, NEW q \in Seq(Tcbs), IsInjective(q), NEW i \in 1..Len(q)
  PROVE  /\ SubSeq(q, i + 1, Len(q)) \in Seq(Tcbs) /\ IsInjective(SubSeq(q, i + 1, Len(q)))
         /\ Range(SubSeq(q, i + 1, Len(q))) = {q[j] : j \in (i + 1)..Len(q)}
BY DEF Library, QueueFacts

\* Min, on sets of numbers.
LEMMA Least ==
  ASSUME Library, NEW S \in SUBSET Nat, S # {}
  PROVE  Min(S) \in S /\ \A n \in S : Min(S) <= n
BY DEF Library, FiniteFacts

\* One entry more in one level.
LEMMA LengthOne ==
  ASSUME Library, NEW s, s.queues \in [Levels -> Seq(Tcbs)],
         NEW r, r.queues \in [Levels -> Seq(Tcbs)],
         NEW p \in Levels, Len(r.queues[p]) = Len(s.queues[p]) + 1,
         \A l \in Levels \ {p} : Len(r.queues[l]) = Len(s.queues[l])
  PROVE  QueueLength(r) = QueueLength(s) + 1
BY DEF Library, CountFacts

\* QueueLength counts.
LEMMA LengthNat ==
  ASSUME Library, NEW s, s.queues \in [Levels -> Seq(Tcbs)]
  PROVE  QueueLength(s) \in Nat
BY DEF Library, CountFacts

\* Levels are numbered from 0.
LEMMA LevelsRange ==
  /\ Levels \subseteq 0..31 /\ Levels \subseteq Nat /\ 0 \in Levels
  /\ Priorities \subseteq Levels /\ 0 \notin Priorities
<1>1. Levels \subseteq 0..31
  BY SchedulerAssumption, SMT DEF Levels, NUM_PRIORITY_LEVELS
<1>2. QED
  BY <1>1, SchedulerAssumption, SMT DEF Levels, NUM_PRIORITY_LEVELS

\* The fields of a scheduler.
LEMMA SchedTypes ==
  ASSUME NEW s \in Scheds
  PROVE  /\ s.queues \in [Levels -> Seq(Tcbs)] /\ s.non_empty \subseteq Levels
         /\ s.load \in 0..(LoadMod - 1) /\ LoadMod \in Nat \ {0}
         /\ s = [queues |-> s.queues, non_empty |-> s.non_empty, load |-> s.load]
BY SchedulerAssumption DEF Scheds

\* enqueue() of a TCB that is not in that queue.
LEMMA EnqueueOK ==
  ASSUME Library, NEW s, SchedOK(s), NEW t \in Tcbs, NEW p \in Levels, t \notin Range(s.queues[p])
  PROVE  Added(s, enqueue(s, t, p), t, p)
<1>1. /\ s.queues \in [Levels -> Seq(Tcbs)] /\ s.non_empty \subseteq Levels
      /\ s.load \in 0..(LoadMod - 1) /\ LoadMod \in Nat \ {0}
      /\ s = [queues |-> s.queues, non_empty |-> s.non_empty, load |-> s.load]
  BY SchedTypes DEF SchedOK
<1>2. /\ Append(s.queues[p], t) \in Seq(Tcbs) /\ IsInjective(Append(s.queues[p], t))
      /\ Range(Append(s.queues[p], t)) = Range(s.queues[p]) \union {t}
  BY <1>1, QueueAppend DEF SchedOK
<1>3. Append(s.queues[p], t) # <<>> /\ Len(Append(s.queues[p], t)) = Len(s.queues[p]) + 1
  BY <1>1, QueueAppend DEF SchedOK
<1>4. PICK r : r = enqueue(s, t, p)
  OBVIOUS
<1>5. /\ r.queues = [s.queues EXCEPT ![p] = Append(s.queues[p], t)]
      /\ r.non_empty = s.non_empty \union {p} /\ r.load = (s.load + 1) % LoadMod
      /\ r = [queues |-> r.queues, non_empty |-> r.non_empty, load |-> r.load]
  BY <1>1, <1>4 DEF enqueue
<1>6. r.queues \in [Levels -> Seq(Tcbs)]
  BY <1>1, <1>2, <1>5
<1>7. /\ r.queues[p] = Append(s.queues[p], t)
      /\ \A l \in Levels \ {p} : r.queues[l] = s.queues[l]
  BY <1>1, <1>5
<1>8. r.load = QueueLength(r) % LoadMod
  <2>1. QueueLength(r) = QueueLength(s) + 1
    BY <1>1, <1>3, <1>6, <1>7, LengthOne
  <2>2. PICK n \in Int : n = QueueLength(s)
    BY <1>1, LengthNat, SMT
  <2>3. r.load = ((n % LoadMod) + 1) % LoadMod
    BY <1>5, <2>2 DEF SchedOK
  <2>4. 1 \in Int
    BY SMT
  <2>5. ((n % LoadMod) + 1) % LoadMod = (n + 1) % LoadMod
    BY <1>1, <2>4, ModAdd
  <2>6. QED
    BY <2>1, <2>2, <2>3, <2>5
<1>9. r.load \in 0..(LoadMod - 1)
  <2>1. s.load + 1 \in Int
    BY <1>1, SMT
  <2>2. QED
    BY <1>1, <1>5, <2>1, ModParts
<1>10. r \in Scheds
  BY <1>1, <1>5, <1>6, <1>9 DEF Scheds
<1>11. SchedOK(r)
  BY <1>2, <1>3, <1>5, <1>7, <1>8, <1>10 DEF SchedOK
<1>12. Added(s, r, t, p)
  BY <1>2, <1>7, <1>11 DEF Added
<1>13. QED
  BY <1>4, <1>12

\* The first entry for a TCB in a queue that holds it.
LEMMA UnlinkedQueue ==
  ASSUME Library, NEW q \in Seq(Tcbs), IsInjective(q), NEW t
  PROVE  /\ t \notin Range(q) => Unlinked(q, t) = q
         /\ t \in Range(q) =>
              /\ Unlinked(q, t) \in Seq(Tcbs) /\ IsInjective(Unlinked(q, t))
              /\ Range(Unlinked(q, t)) = Range(q) \ {t}
              /\ Len(q) = Len(Unlinked(q, t)) + 1
<1> DEFINE found == {i \in DOMAIN q : q[i] = t}
<1>1. DOMAIN q = 1..Len(q) /\ Len(q) \in Nat /\ Range(q) = {q[i] : i \in 1..Len(q)}
  BY QueueIndex
<1>2. ASSUME t \notin Range(q) PROVE Unlinked(q, t) = q
  <2>1. found = {}
    BY <1>1, <1>2
  <2>2. QED
    BY <2>1 DEF Unlinked
<1>3. ASSUME t \in Range(q)
      PROVE  /\ Unlinked(q, t) \in Seq(Tcbs) /\ IsInjective(Unlinked(q, t))
             /\ Range(Unlinked(q, t)) = Range(q) \ {t}
             /\ Len(q) = Len(Unlinked(q, t)) + 1
  <2>1. found # {} /\ found \in SUBSET Nat
    BY <1>1, <1>3, SMT
  <2>2. PICK i \in found : i = Min(found)
    <3> HIDE DEF found
    <3>1. Min(found) \in found
      BY <2>1, Least
    <3>2. QED
      BY <3>1
  <2>3. Unlinked(q, t) = Cut(q, i)
    BY <2>1, <2>2 DEF Unlinked, Cut
  <2>4. i \in 1..Len(q) /\ q[i] = t
    BY <1>1
  <2> HIDE DEF found
  <2>5. /\ Cut(q, i) \in Seq(Tcbs) /\ IsInjective(Cut(q, i))
        /\ Range(Cut(q, i)) = Range(q) \ {q[i]}
    BY <2>4, QueueCut
  <2>6. Len(Cut(q, i)) = Len(q) - 1
    BY <2>4, QueueCut
  <2>7. QED
    BY <1>1, <2>3, <2>4, <2>5, <2>6, SMT
<1>4. QED
  BY <1>2, <1>3

\* remove_from_queue() of a TCB that is not in that queue.
LEMMA RemoveAbsent ==
  ASSUME Library, NEW s, SchedOK(s), NEW t, NEW p \in Levels, t \notin Range(s.queues[p])
  PROVE  remove_from_queue(s, t, p) = s
<1>1. /\ s.queues \in [Levels -> Seq(Tcbs)] /\ s.non_empty \subseteq Levels
      /\ s = [queues |-> s.queues, non_empty |-> s.non_empty, load |-> s.load]
  BY SchedTypes DEF SchedOK
<1>2. Unlinked(s.queues[p], t) = s.queues[p]
  BY <1>1, UnlinkedQueue DEF SchedOK
<1>3. QED
  BY <1>1, <1>2 DEF remove_from_queue

\* change_priority() of a queued TCB moves it to another level.
LEMMA ChangeOK ==
  ASSUME Library, NEW s, SchedOK(s), NEW t \in Tcbs, NEW old \in Levels, NEW new \in Levels,
         old # new, t \in Range(s.queues[old]), t \notin Range(s.queues[new])
  PROVE  Moved(s, change_priority(s, t, old, new), t, old, new)
<1>1. /\ s.queues \in [Levels -> Seq(Tcbs)] /\ s.non_empty \subseteq Levels
      /\ s.load \in 0..(LoadMod - 1) /\ LoadMod \in Nat \ {0}
      /\ s = [queues |-> s.queues, non_empty |-> s.non_empty, load |-> s.load]
  BY SchedTypes DEF SchedOK
<1>2. PICK q \in Seq(Tcbs) :
        /\ q = Unlinked(s.queues[old], t) /\ IsInjective(q)
        /\ Range(q) = Range(s.queues[old]) \ {t} /\ Len(s.queues[old]) = Len(q) + 1
  BY <1>1, UnlinkedQueue DEF SchedOK
<1>3. PICK u : u = remove_from_queue(s, t, old)
  OBVIOUS
<1>4. s.queues[old] # <<>>
  BY <1>1, QueueIndex
<1>5. /\ u.queues = [s.queues EXCEPT ![old] = q]
      /\ u.non_empty = IF q = <<>> THEN s.non_empty \ {old} ELSE s.non_empty
      /\ u.load = s.load
      /\ u = [queues |-> u.queues, non_empty |-> u.non_empty, load |-> u.load]
  BY <1>1, <1>2, <1>3, <1>4 DEF remove_from_queue
<1>6. /\ Append(s.queues[new], t) \in Seq(Tcbs) /\ IsInjective(Append(s.queues[new], t))
      /\ Range(Append(s.queues[new], t)) = Range(s.queues[new]) \union {t}
  BY <1>1, QueueAppend DEF SchedOK
<1>7. Append(s.queues[new], t) # <<>> /\ Len(Append(s.queues[new], t)) = Len(s.queues[new]) + 1
  BY <1>1, QueueAppend DEF SchedOK
<1>8. /\ u.queues \in [Levels -> Seq(Tcbs)] /\ u.queues[new] = s.queues[new]
      /\ u.queues[old] = q /\ \A l \in Levels \ {old} : u.queues[l] = s.queues[l]
  BY <1>1, <1>5
<1>9. PICK r : r = change_priority(s, t, old, new)
  OBVIOUS
<1>10. /\ r.queues = [u.queues EXCEPT ![new] = Append(s.queues[new], t)]
       /\ r.non_empty = u.non_empty \union {new} /\ r.load = s.load
       /\ r = [queues |-> r.queues, non_empty |-> r.non_empty, load |-> r.load]
  BY <1>3, <1>5, <1>8, <1>9 DEF change_priority
<1>11. /\ r.queues \in [Levels -> Seq(Tcbs)]
       /\ r.queues[new] = Append(s.queues[new], t) /\ r.queues[old] = q
       /\ \A l \in Levels \ {old, new} : r.queues[l] = s.queues[l]
  BY <1>6, <1>8, <1>10
<1>12. QueueLength(r) = QueueLength(s)
  <2>1. QueueLength(s) = QueueLength(u) + 1
    BY <1>1, <1>2, <1>8, LengthOne
  <2>2. \A l \in Levels \ {new} : r.queues[l] = u.queues[l]
    BY <1>8, <1>11
  <2>3. QueueLength(r) = QueueLength(u) + 1
    BY <1>7, <1>8, <1>11, <2>2, LengthOne
  <2>4. QED
    BY <2>1, <2>3
<1>13. r \in Scheds
  BY <1>1, <1>5, <1>10, <1>11 DEF Scheds
<1>14. \A l \in Levels : IsInjective(r.queues[l])
  BY <1>2, <1>6, <1>11 DEF SchedOK
<1>15. \A l \in Levels : l \in r.non_empty <=> r.queues[l] # <<>>
  BY <1>4, <1>5, <1>7, <1>10, <1>11 DEF SchedOK
<1>16. SchedOK(r)
  BY <1>10, <1>12, <1>13, <1>14, <1>15 DEF SchedOK
<1>17. Moved(s, r, t, old, new)
  BY <1>2, <1>6, <1>11, <1>16 DEF Moved
<1>18. QED
  BY <1>9, <1>17

\* The queues after any number of dequeues, with the counter brought along.
LEMMA DequeuesOK ==
  ASSUME Library, NEW s, SchedOK(s), NEW left \in [Levels -> Seq(Tcbs)], NEW ne \in SUBSET Levels,
         \A l \in Levels : IsInjective(left[l]) /\ (l \in ne <=> left[l] # <<>>),
         NEW r, r = [queues |-> left, non_empty |-> ne,
                     load |-> (s.load - (QueueLength(s) - QueueLength([s EXCEPT !.queues = left])))
                                % LoadMod]
  PROVE  SchedOK(r)
<1>1. /\ s.queues \in [Levels -> Seq(Tcbs)] /\ LoadMod \in Nat \ {0}
      /\ s = [queues |-> s.queues, non_empty |-> s.non_empty, load |-> s.load]
  BY SchedTypes DEF SchedOK
<1>2. r.queues = left /\ r.non_empty = ne
  OBVIOUS
<1>3. QueueLength([s EXCEPT !.queues = left]) = QueueLength(r)
  <2>1. [s EXCEPT !.queues = left].queues = left
    BY <1>1
  <2>2. QED
    BY <1>2, <2>1 DEF QueueLength
<1>4. PICK a \in Int : a = QueueLength(s)
  BY <1>1, LengthNat, SMT
<1>5. PICK b \in Int : b = QueueLength(r)
  BY <1>2, LengthNat, SMT
<1>6. r.load = ((a % LoadMod) - (a - b)) % LoadMod
  BY <1>3, <1>4, <1>5 DEF SchedOK
<1>7. PICK e \in Int : e = b - a
  BY SMT
<1>8. a % LoadMod \in Int
  BY <1>1, ModParts, SMT
<1>9. r.load = ((a % LoadMod) + e) % LoadMod
  <2>1. (a % LoadMod) - (a - b) = (a % LoadMod) + e
    BY <1>7, <1>8, SMT
  <2>2. QED
    BY <1>6, <2>1
<1>10. r.load = (a + e) % LoadMod
  BY <1>1, <1>9, ModAdd
<1>11. a + e = b
  BY <1>7, SMT
<1>12. r.load = QueueLength(r) % LoadMod
  BY <1>5, <1>10, <1>11
<1>13. r.load \in 0..(LoadMod - 1)
  BY <1>1, <1>5, <1>12, ModParts
<1>14. r \in Scheds
  BY <1>13 DEF Scheds
<1>15. QED
  BY <1>2, <1>12, <1>14 DEF SchedOK

\* What schedule() picks and what it leaves in the queues.
LEMMA DequeueOK ==
  ASSUME Library, NEW s, SchedOK(s), NEW st, NEW idle,
         NEW n, n = dequeue_highest(s, st, idle), NEW r, r = Dequeued(s, st)
  PROVE  /\ SchedOK(r)
         /\ \A l \in Levels : Range(r.queues[l]) \subseteq Range(s.queues[l])
         /\ \A l \in Levels : \A t \in Range(s.queues[l]) \ Range(r.queues[l]) : t = n \/ ~Runs(st, t)
         /\ \/ n = idle /\ \A l \in Levels : \A t \in Range(s.queues[l]) : ~Runs(st, t)
            \/ /\ Runs(st, n)
               /\ \E l \in Levels : n \in Range(s.queues[l]) /\ n \notin Range(r.queues[l])
<1>1. /\ s.queues \in [Levels -> Seq(Tcbs)] /\ s.non_empty \subseteq Levels
      /\ \A l \in Levels : IsInjective(s.queues[l]) /\ (l \in s.non_empty <=> s.queues[l] # <<>>)
  BY SchedTypes DEF SchedOK
<1>2. \A l \in Levels : /\ Len(s.queues[l]) \in Nat /\ DOMAIN s.queues[l] = 1..Len(s.queues[l])
                        /\ Range(s.queues[l]) = {s.queues[l][i] : i \in 1..Len(s.queues[l])}
  BY <1>1, QueueIndex
<1>3. <<>> \in Seq(Tcbs) /\ IsInjective(<<>>) /\ Range(<<>>) = {}
  BY NoQueue
<1> DEFINE R == RunnableLevels(s, st)
           Left(p, i) == [l \in Levels |->
                 CASE l \notin s.non_empty \/ l < p -> s.queues[l]
                   [] l = p -> SubSeq(s.queues[l], i + 1, Len(s.queues[l]))
                   [] OTHER -> <<>>]
<1>4. \A l \in Levels : l \in R <=> \E t \in Range(s.queues[l]) : Runs(st, t)
  <2> TAKE l \in Levels
  <2>1. (\E t \in Range(s.queues[l]) : Runs(st, t)) => l \in s.non_empty
    BY <1>1, <1>3
  <2>2. (\E t \in Range(s.queues[l]) : Runs(st, t)) <=>
        (\E i \in DOMAIN s.queues[l] : Runs(st, s.queues[l][i]))
    BY <1>2
  <2>3. QED
    BY <2>1, <2>2 DEF RunnableLevels
<1>5. R \subseteq Levels
  BY <1>1 DEF RunnableLevels
<1>6. CASE R = {}
  <2>1. PickLevel(s, st) = -1 /\ n = idle
    BY <1>6 DEF PickLevel, dequeue_highest
  <2> DEFINE left == Left(-1, PickIndex(s, st))
             ne == {l \in s.non_empty : l < -1 \/ left[l] # <<>>}
  <2>2. \A l \in Levels : left[l] = <<>>
    <3> TAKE l \in Levels
    <3>1. ~(l < -1) /\ l # -1
      BY LevelsRange, SMT
    <3>2. QED
      BY <1>1, <3>1
  <2>3. left \in [Levels -> Seq(Tcbs)] /\ ne \in SUBSET Levels /\ \A l \in Levels : l \notin ne
    BY <1>1, <1>3, <2>2, LevelsRange, SMT
  <2>4. r = [queues |-> left, non_empty |-> ne,
             load |-> (s.load - (QueueLength(s) - QueueLength([s EXCEPT !.queues = left]))) % LoadMod]
    BY <2>1, SMT DEF Dequeued
  <2> HIDE DEF left, ne, Left
  <2>5. SchedOK(r)
    BY <1>3, <2>2, <2>3, <2>4, DequeuesOK
  <2>6. \A l \in Levels : Range(r.queues[l]) = {}
    BY <1>3, <2>2, <2>4, SMT
  <2> QED
    BY <1>4, <1>6, <2>1, <2>5, <2>6
<1>7. CASE R # {}
  <2>1. PICK p \in R : p = PickLevel(s, st) /\ \A l \in R : l <= p
    <3> DEFINE D == {31 - l : l \in R}
    <3>0. \A l \in R : l \in 0..31
      BY <1>5, LevelsRange
    <3>1. D \in SUBSET Nat /\ D # {}
      <4> HIDE DEF R
      <4> QED
        BY <1>7, <3>0, SMT
    <3>2. PICK d \in D : \A e \in D : d <= e
      <4> HIDE DEF D
      <4>1. Min(D) \in D /\ \A e \in D : Min(D) <= e
        BY <3>1, Least
      <4> QED
        BY <4>1
    <3>3. PICK p \in R : d = 31 - p
      OBVIOUS
    <3>4. \A l \in R : p >= l
      <4> HIDE DEF R
      <4> TAKE l \in R
      <4>1. 31 - l \in D
        OBVIOUS
      <4>2. 31 - p <= 31 - l
        BY <3>2, <3>3, <4>1
      <4>3. p \in 0..31 /\ l \in 0..31
        BY <3>0
      <4> QED
        BY <4>2, <4>3, SMT
    <3>5. Max(R) \in R /\ \A l \in R : Max(R) >= l
      <4> HIDE DEF R
      <4> QED
        BY <3>4 DEF Max
    <3>6. PickLevel(s, st) = Max(R)
      BY <1>7 DEF PickLevel
    <3> HIDE DEF R
    <3> QED
      BY <1>5, <3>5, <3>6, LevelsRange
  <2>2. p \in Levels /\ p \in s.non_empty /\ p # -1 /\ p \in Nat
    <3>1. p \in s.non_empty
      BY DEF RunnableLevels
    <3>2. p \in Levels /\ p \in Nat
      BY <1>5, LevelsRange
    <3>3. p # -1
      BY <3>2, SMT
    <3> QED
      BY <3>1, <3>2, <3>3
  <2> DEFINE found == {i \in DOMAIN s.queues[p] : Runs(st, s.queues[p][i])}
  <2>3. found \in SUBSET Nat /\ found # {} /\ found \subseteq 1..Len(s.queues[p])
    BY <1>2, <2>2, SMT DEF RunnableLevels
  <2>4. PICK i \in found : i = PickIndex(s, st) /\ \A j \in found : i <= j
    <3>1. PickIndex(s, st) = Min(found)
      BY <2>1 DEF PickIndex
    <3> HIDE DEF found
    <3>2. Min(found) \in found /\ \A j \in found : Min(found) <= j
      BY <2>3, Least
    <3>3. QED
      BY <3>1, <3>2
  <2>5. i \in 1..Len(s.queues[p]) /\ Runs(st, s.queues[p][i]) /\ n = s.queues[p][i]
    BY <2>1, <2>2, <2>3, <2>4 DEF dequeue_highest
  <2>6. \A j \in 1..Len(s.queues[p]) : Runs(st, s.queues[p][j]) => i <= j
    BY <1>2, <2>2, <2>4
  <2> DEFINE left == Left(p, i)
             ne == {l \in s.non_empty : l < p \/ left[l] # <<>>}
  <2> HIDE DEF R, found
  <2>7. PICK q \in Seq(Tcbs) : /\ q = SubSeq(s.queues[p], i + 1, Len(s.queues[p])) /\ IsInjective(q)
                               /\ Range(q) = {s.queues[p][j] : j \in (i + 1)..Len(s.queues[p])}
    <3>1. s.queues[p] \in Seq(Tcbs) /\ IsInjective(s.queues[p])
      BY <1>1, <2>2
    <3>2. QED
      BY <2>5, <3>1, QueueSuffix
  <2>8. /\ left[p] = q
        /\ \A l \in Levels : l < p \/ l \notin s.non_empty => left[l] = s.queues[l]
        /\ \A l \in Levels : ~(l < p) /\ l # p => left[l] = <<>>
    <3>1. ~(p < p)
      BY <2>2, SMT
    <3>2. QED
      BY <1>1, <2>2, <2>7, <3>1
  <2>9. left \in [Levels -> Seq(Tcbs)] /\ ne \in SUBSET Levels
    <3>1. \A l \in Levels : left[l] \in Seq(Tcbs)
      BY <1>1, <1>3, <2>7, <2>8
    <3>2. QED
      BY <1>1, <3>1
  <2>10. r = [queues |-> left, non_empty |-> ne,
             load |-> (s.load - (QueueLength(s) - QueueLength([s EXCEPT !.queues = left]))) % LoadMod]
    BY <2>1, <2>4, SMT DEF Dequeued
  <2>11. \A l \in Levels : IsInjective(left[l]) /\ (l \in ne <=> left[l] # <<>>)
    <3> HIDE DEF Left
    <3> QED
      BY <1>1, <1>3, <2>7, <2>8
  <2> HIDE DEF left, ne, Left
  <2>12. SchedOK(r)
    BY <2>9, <2>10, <2>11, DequeuesOK
  <2>13. r.queues = left
    BY <2>10, SMT
  <2>14. n \in Range(s.queues[p]) /\ n \notin Range(q)
    <3>1. \A j \in (i + 1)..Len(s.queues[p]) : j \in 1..Len(s.queues[p]) /\ j # i
      BY <1>2, <2>2, <2>5, SMT
    <3>2. \A j \in 1..Len(s.queues[p]) : s.queues[p][j] = s.queues[p][i] => j = i
      BY <1>1, <1>2, <2>2, <2>5, SMT DEF IsInjective
    <3>3. n \in Range(s.queues[p])
      BY <1>2, <2>2, <2>5
    <3>4. ASSUME n \in Range(q) PROVE FALSE
      <4>1. PICK j \in (i + 1)..Len(s.queues[p]) : n = s.queues[p][j]
        BY <2>7, <3>4
      <4>2. QED
        BY <2>5, <3>1, <3>2, <4>1
    <3>5. QED
      BY <3>3, <3>4
  <2>15. Range(q) \subseteq Range(s.queues[p]) /\
         \A t \in Range(s.queues[p]) \ Range(q) : t = n \/ ~Runs(st, t)
    <3>1. \A j \in (i + 1)..Len(s.queues[p]) : j \in 1..Len(s.queues[p])
      BY <1>2, <2>2, <2>5, SMT
    <3>2. ASSUME NEW t \in Range(s.queues[p]) \ Range(q) PROVE t = n \/ ~Runs(st, t)
      <4>1. PICK j \in 1..Len(s.queues[p]) : t = s.queues[p][j]
        BY <1>2, <2>2
      <4>2. j \notin (i + 1)..Len(s.queues[p])
        BY <2>7, <3>2, <4>1
      <4>3. j <= i
        BY <1>2, <2>2, <2>5, <4>2, SMT
      <4>4. j = i \/ ~Runs(st, s.queues[p][j])
        BY <1>2, <2>2, <2>5, <2>6, <4>3, SMT
      <4>5. QED
        BY <2>5, <4>1, <4>4
    <3>3. QED
      BY <1>2, <2>2, <2>7, <3>1, <3>2
  <2>16. \A l \in Levels : ~(l < p) /\ l # p => \A t \in Range(s.queues[l]) : ~Runs(st, t)
    <3>1. \A l \in Levels : ~(l < p) /\ l # p => l \notin R
      BY <2>1, <2>2, LevelsRange, SMT
    <3>2. QED
      BY <1>4, <3>1
  <2> QED
    BY <1>3, <2>2, <2>5, <2>8, <2>12, <2>13, <2>14, <2>15, <2>16
<1>8. QED
  BY <1>6, <1>7

\* What the steps use of enqueue, dequeue_highest, change_priority and
\* remove_from_queue.
LEMMA RunQueueLemma ==
  ASSUME Library
  PROVE  EnqueueFacts /\ RemoveFacts /\ ChangeFacts /\ DequeueFacts
<1>1. EnqueueFacts
  <2>1. ASSUME NEW s \in Scheds, NEW t \in Tcbs, NEW p \in Levels, SchedOK(s), t \notin Range(s.queues[p])
        PROVE  Added(s, enqueue(s, t, p), t, p)
    BY <2>1, EnqueueOK
  <2>2. QED
    BY <2>1 DEF EnqueueFacts
<1>2. RemoveFacts
  BY RemoveAbsent DEF RemoveFacts
<1>3. ChangeFacts
  <2>1. ASSUME NEW s \in Scheds, NEW t \in Tcbs, NEW old \in Levels, NEW new \in Levels,
               SchedOK(s), old # new, t \in Range(s.queues[old]), t \notin Range(s.queues[new])
        PROVE  Moved(s, change_priority(s, t, old, new), t, old, new)
    BY <2>1, ChangeOK
  <2>2. QED
    BY <2>1 DEF ChangeFacts
<1>4. DequeueFacts
  <2>1. ASSUME NEW s \in Scheds, NEW st, NEW idle, SchedOK(s)
        PROVE  Taken(s, Dequeued(s, st), st, dequeue_highest(s, st, idle), idle)
    <3>1. PICK r : r = Dequeued(s, st)
      OBVIOUS
    <3>2. PICK n : n = dequeue_highest(s, st, idle)
      OBVIOUS
    <3>3. /\ SchedOK(r)
          /\ \A l \in Levels : Range(r.queues[l]) \subseteq Range(s.queues[l])
          /\ \A l \in Levels : \A t \in Range(s.queues[l]) \ Range(r.queues[l]) : t = n \/ ~Runs(st, t)
          /\ \/ n = idle /\ \A l \in Levels : \A t \in Range(s.queues[l]) : ~Runs(st, t)
             \/ /\ Runs(st, n)
                /\ \E l \in Levels : n \in Range(s.queues[l]) /\ n \notin Range(r.queues[l])
      BY <2>1, <3>1, <3>2, DequeueOK, SMT
    <3>4. Taken(s, r, st, n, idle)
      BY <3>3 DEF Taken
    <3>5. QED
      BY <3>1, <3>2, <3>4
  <2>2. QED
    BY <2>1 DEF DequeueFacts
<1>5. QED
  BY <1>1, <1>2, <1>3, <1>4

\* Every queue is empty.
LEMMA EmptyOK ==
  ASSUME Library
  PROVE  EmptyScheduler \in Scheds /\ SchedOK(EmptyScheduler)
<1>1. PICK s : s = EmptyScheduler
  OBVIOUS
<1>2. LoadMod \in Nat \ {0} /\ 0 \in 0..(LoadMod - 1) /\ 0 % LoadMod = 0
  BY SchedulerAssumption, SMT
<1>3. <<>> \in Seq(Tcbs) /\ IsInjective(<<>>)
  BY NoQueue
<1>4. /\ s.queues = [p \in Levels |-> <<>>] /\ s.non_empty = {} /\ s.load = 0 /\ s \in Scheds
  BY <1>1, <1>2, <1>3, SMT DEF EmptyScheduler, Scheds
<1>5. QueueLength(s) = 0
  BY <1>4 DEF Library, CountFacts
<1>6. SchedOK(s)
  BY <1>2, <1>3, <1>4, <1>5 DEF SchedOK
<1>7. QED
  BY <1>1, <1>4, <1>6

-----------------------------------------------------------------------------
(* The invariant holds from the start, is kept, and implies the properties.*)

\* After boot.
LEMMA InitInvariant ==
  ASSUME Library, Init
  PROVE  SInv
<1>1. PICK boot \in Threads :
        /\ sched = [c \in Cpus |-> EmptyScheduler]
        /\ current = [c \in Cpus |-> IF c = 0 THEN boot ELSE Idle(c)]
        /\ stack = current
        /\ pc = [c \in Cpus |-> "run"] /\ after = [c \in Cpus |-> "run"]
        /\ wakes = [c \in Cpus |-> <<>>]
        /\ locked = [c \in Cpus |-> 0] /\ victim = [c \in Cpus |-> [tcb |-> NoTcb, on |-> c]]
        /\ idle_mask = {} /\ ipi = {}
        /\ state = [t \in Tcbs |-> IF t \in Threads \ {boot} THEN "Created" ELSE "Running"]
        /\ priority \in [Tcbs -> Levels]
        /\ \A t \in Tcbs : (priority[t] = 0) <=> (t \notin Threads)
        /\ cpu_affinity = [t \in Tcbs |-> IF t \in Threads THEN AFFINITY_ANY ELSE t[2]]
        /\ preferred_cpu = [t \in Tcbs |-> IF t \in Threads THEN 0 ELSE t[2]]
        /\ context_saved = [t \in Tcbs |-> TRUE]
        /\ waiting = {} /\ sleep_list = {} /\ freed = {}
  BY DEF Init
<1>2. /\ 0 \in Cpus /\ boot \in Tcbs /\ \A c \in Cpus : boot # Idle(c)
  BY TcbFacts
<1>3. \A c \in Cpus : /\ current[c] = IF c = 0 THEN boot ELSE Idle(c)
                      /\ current[c] \in Threads \union {Idle(c)} /\ current[c] \in Tcbs
                      /\ stack[c] = current[c] /\ pc[c] = "run" /\ after[c] = "run"
                      /\ wakes[c] = <<>> /\ victim[c] = [tcb |-> NoTcb, on |-> c]
                      /\ sched[c] = EmptyScheduler
  BY <1>1, <1>2, TcbFacts
<1>4. \A c \in Cpus : victim[c].tcb = NoTcb /\ Idle(c)[2] = c
  <2>1. \A c \in Cpus : Idle(c)[2] = c
    BY SMT DEF Idle
  <2>2. ASSUME NEW c \in Cpus PROVE victim[c].tcb = NoTcb
    <3>1. victim[c] = [tcb |-> NoTcb, on |-> c]
      BY <1>3
    <3>2. QED
      BY <3>1, SMT
  <2>3. QED
    BY <2>1, <2>2
<1>5. \A c \in Cpus : preferred_cpu[Idle(c)] = c
  BY <1>1, <1>4, TcbFacts
<1>6. \A t \in Tcbs : preferred_cpu[t] \in Cpus /\ cpu_affinity[t] \in Cpus \union {AFFINITY_ANY}
  <2>1. \A t \in Threads : preferred_cpu[t] = 0 /\ cpu_affinity[t] = AFFINITY_ANY
    BY <1>1, TcbFacts
  <2>2. \A c \in Cpus : cpu_affinity[Idle(c)] = c
    BY <1>1, <1>4, TcbFacts
  <2>3. QED
    BY <1>2, <1>5, <2>1, <2>2 DEF Tcbs
<1>7. Types
  <2>1. 0 \in 0..NumCpus
    BY SchedulerAssumption, SMT
  <2>2. "run" \in PcValues
    BY DEF PcValues
  <2>3. <<>> \in Seq(Wakeup)
    BY SMT
  <2>4. current \in [Cpus -> Tcbs] /\ stack \in [Cpus -> Tcbs]
    BY <1>1, <1>3
  <2>5. pc \in [Cpus -> PcValues] /\ after \in [Cpus -> PcValues] /\ wakes \in [Cpus -> Seq(Wakeup)]
    BY <1>1, <2>2, <2>3
  <2>6. locked \in [Cpus -> 0..NumCpus] /\ victim \in [Cpus -> [tcb : Threads \union {NoTcb}, on : Cpus]]
    <3>1. \A c \in Cpus : [tcb |-> NoTcb, on |-> c] \in [tcb : Threads \union {NoTcb}, on : Cpus]
      BY SMT
    <3>2. QED
      BY <1>1, <2>1, <3>1
  <2>7. state \in [Tcbs -> {"Created", "Ready", "Running", "Blocked", "Stopped", "Exited"}]
    BY <1>1
  <2>8. preferred_cpu \in [Tcbs -> Cpus] /\ cpu_affinity \in [Tcbs -> Cpus \union {AFFINITY_ANY}]
    <3>1. PICK pref : pref = preferred_cpu
      OBVIOUS
    <3>2. PICK aff : aff = cpu_affinity
      OBVIOUS
    <3>3. DOMAIN pref = Tcbs /\ pref = [t \in Tcbs |-> pref[t]] /\ \A t \in Tcbs : pref[t] \in Cpus
      BY <1>1, <1>6, <3>1
    <3>4. aff = [t \in Tcbs |-> aff[t]] /\ \A t \in Tcbs : aff[t] \in Cpus \union {AFFINITY_ANY}
      BY <1>1, <1>6, <3>2
    <3>5. pref \in [Tcbs -> Cpus] /\ aff \in [Tcbs -> Cpus \union {AFFINITY_ANY}]
      BY <3>3, <3>4
    <3>6. QED
      BY <3>1, <3>2, <3>5
  <2>9. context_saved \in [Tcbs -> BOOLEAN]
    BY <1>1
  <2>10. QED
    BY <1>1, <2>4, <2>5, <2>6, <2>7, <2>8, <2>9 DEF Types
<1>8. EmptyScheduler \in Scheds /\ SchedOK(EmptyScheduler)
  BY EmptyOK
<1>9. \A c \in Cpus : \A p \in Levels : sched[c].queues[p] = <<>> /\ Range(sched[c].queues[p]) = {}
  <2>1. EmptyScheduler.queues = [p \in Levels |-> <<>>]
    BY DEF EmptyScheduler
  <2>2. Range(<<>>) = {}
    BY NoQueue
  <2>3. \A p \in Levels : EmptyScheduler.queues[p] = <<>>
    BY <2>1
  <2>4. QED
    BY <1>3, <2>2, <2>3
<1>10. SchedsOK /\ QueuedWhereSought
  BY <1>1, <1>3, <1>8, <1>9 DEF SchedsOK, QueuedWhereSought
<1>11. \A c \in Cpus : ~Leaving(c) /\ ~Away(c) /\ Pending(c) = {} /\ QueuedOn(c) = {}
  <2>1. \A c \in Cpus : ~Leaving(c) /\ ~Away(c)
    BY <1>3 DEF Leaving, Away
  <2>2. \A c \in Cpus : DOMAIN wakes[c] = {}
    <3>1. DOMAIN <<>> = {}
      BY SMT
    <3>2. QED
      BY <1>3, <3>1
  <2>3. QED
    BY <1>9, <2>1, <2>2 DEF Pending, QueuedOn
<1>12. \A t : ~Queued(t) /\ ~Flying(t)
  BY <1>11 DEF Queued, Flying
<1>13. \A c \in Cpus : state[current[c]] = "Running" /\ preferred_cpu[current[c]] = c
  <2>1. ASSUME NEW c \in Cpus, c = 0 PROVE state[current[c]] = "Running" /\ preferred_cpu[current[c]] = c
    <3>1. current[c] = boot
      BY <1>3, <2>1
    <3>2. state[boot] = "Running" /\ preferred_cpu[boot] = 0
      BY <1>1, <1>2
    <3>3. QED
      BY <2>1, <3>1, <3>2
  <2>2. ASSUME NEW c \in Cpus, c # 0 PROVE state[current[c]] = "Running" /\ preferred_cpu[current[c]] = c
    <3>1. current[c] = Idle(c)
      BY <1>3, <2>2
    <3>2. state[Idle(c)] = "Running"
      BY <1>1, TcbFacts
    <3>3. QED
      BY <1>5, <3>1, <3>2
  <2>3. QED
    BY <2>1, <2>2
<1>14. CpusOK
  <2>1. ASSUME NEW c \in Cpus PROVE CpuOK(c)
    BY <1>3, <1>4, <1>11, <1>13 DEF CpuOK
  <2>2. QED
    BY <2>1 DEF CpusOK
<1>15. Claimed /\ OneStack
  <2>1. current[0] = boot /\ \A c \in Cpus : c # 0 => current[c] = Idle(c)
    BY <1>2, <1>3
  <2>2. \A c, d \in Cpus : current[c] = current[d] => c = d
    <3>1. \A c, d \in Cpus : Idle(c) = Idle(d) => c = d
      BY TcbFacts
    <3>2. QED
      BY <1>2, <2>1, <3>1
  <2>3. stack = current
    BY <1>1
  <2>4. QED
    BY <2>2, <2>3 DEF Claimed, OneStack
<1>16. ThreadsOK
  <2>1. \A t \in Threads : priority[t] \in Priorities
    BY <1>1, TcbFacts DEF Levels
  <2>2. \A c \in Cpus : priority[Idle(c)] = 0
    BY <1>1, TcbFacts
  <2>3. IsFiniteSet({})
    BY DEF Library
  <2>4. QED
    BY <1>1, <1>4, <1>5, <2>1, <2>2, <2>3 DEF ThreadsOK
<1>17. PlacesOK
  <2>1. \A t \in Threads : state[t] # "Ready"
    BY <1>1, TcbFacts
  <2>2. QED
    BY <1>4, <1>11, <1>12, <2>1 DEF PlacesOK, QueuedReady, PendingReady, ReadyAt, PendingOnce, Once, ReadyPlaced, VictimsGone
<1>18. StacksOK
  <2>1. \A c, d \in Cpus : current[d] = stack[c] => d = c
    <3>1. \A c \in Cpus : stack[c] = current[c]
      BY <1>3
    <3>2. QED
      BY <1>15, <3>1 DEF OneStack
  <2>2. \A c \in Cpus : pc[c] # "switch"
    BY <1>3
  <2>3. QED
    BY <1>1, <1>11, <2>1, <2>2 DEF StacksOK, StackOK, OnlyHere
<1>19. NoMissedWakeup
  <2>1. \A c \in Cpus : pc[c] # "halt"
    BY <1>3
  <2>2. QED
    BY <2>1 DEF NoMissedWakeup
<1>20. QED
  BY <1>7, <1>10, <1>14, <1>15, <1>16, <1>17, <1>18, <1>19 DEF SInv

\* A step changes nothing.
LEMMA StutterStep ==
  ASSUME SInv, UNCHANGED vars
  PROVE  SInv'
<1>1. /\ sched' = sched /\ current' = current /\ stack' = stack /\ pc' = pc /\ after' = after
      /\ wakes' = wakes /\ locked' = locked /\ victim' = victim /\ idle_mask' = idle_mask /\ ipi' = ipi
      /\ state' = state /\ priority' = priority /\ cpu_affinity' = cpu_affinity
      /\ preferred_cpu' = preferred_cpu /\ context_saved' = context_saved
      /\ waiting' = waiting /\ sleep_list' = sleep_list /\ freed' = freed
  BY DEF vars, cpuVars, idleVars, threadVars
<1>2. Types' /\ SchedsOK'
  BY <1>1 DEF SInv, Types, SchedsOK
<1>3. /\ \A d \in Cpus : (Leaving(d)' <=> Leaving(d)) /\ (Away(d)' <=> Away(d)) /\ Pending(d)' = Pending(d)
                         /\ QueuedOn(d)' = QueuedOn(d)
      /\ \A t : (Queued(t)' <=> Queued(t)) /\ (Flying(t)' <=> Flying(t))
  BY <1>1 DEF Leaving, Away, Pending, QueuedOn, Queued, Flying
<1>4. CpusOK'
  BY <1>1, <1>3 DEF SInv, CpusOK, CpuOK
<1>5. Claimed' /\ QueuedWhereSought' /\ ThreadsOK' /\ OneStack' /\ NoMissedWakeup'
  <2>1. Claimed' /\ OneStack'
    BY <1>1, <1>3 DEF SInv, Claimed, OneStack
  <2>2. ThreadsOK' /\ NoMissedWakeup'
    BY <1>1 DEF SInv, ThreadsOK, NoMissedWakeup
  <2>3. QueuedWhereSought'
    <3>1. \A u \in Tcbs : Queued(u) => preferred_cpu'[u] = preferred_cpu[u] /\ priority'[u] = priority[u]
      BY <1>1
    <3>2. QED
      BY <1>1, <3>1, QueuesKept DEF SInv
  <2>4. QED
    BY <2>1, <2>2, <2>3
<1>6. PlacesOK'
  BY <1>1, <1>3, PlacesKept DEF SInv
<1>7. StacksOK'
  BY <1>1, <1>3, StacksKept DEF SInv
<1>8. QED
  BY <1>2, <1>4, <1>5, <1>6, <1>7 DEF SInv

\* Every step keeps the invariant.
LEMMA NextInvariant ==
  ASSUME Library, SettledCalls, SInv, [Next]_vars
  PROVE  SInv'
<1>1. EnqueueFacts /\ RemoveFacts /\ DequeueFacts /\ FiniteFacts
  BY RunQueueLemma DEF Library
<1>2. /\ Settled /\ ~SieStays /\ PriorityWhat \subseteq {"Self", "Created", "Stopped"}
      /\ StopWhat \subseteq {"Ready", "Waiting"} /\ DeleteWhat \subseteq {"Stopped", "Exited"}
  BY DEF SettledCalls
<1>3. CASE sleep_check_wakeups
  BY <1>1, <1>2, <1>3, SleepersStep
<1>4. ASSUME NEW c \in Cpus, CpuStep(c) \/ TickHalted(c) \/ Preempt(c) PROVE SInv'
  <2>1. CASE IdleMark(c) \/ IdleCheck(c) \/ TakeIpi(c) \/ TickHalted(c) \/ IdleAwake(c) \/ Preempt(c)
    BY <1>2, <2>1, IdleSteps
  <2>2. CASE Pick(c) \/ Spin(c) \/ Switch(c) \/ enqueue_and_wake(c) \/ wake_idle_cpu(c)
    BY <1>1, <2>2, PickStep, SpinStep, SwitchStep, EnqueueStep, IpiStep
  <2>3. QED
    BY <1>4, <2>1, <2>2 DEF CpuStep
<1>5. ASSUME NEW c \in Cpus, Block(c) \/ Sleep(c) \/ StopSelf(c) PROVE SInv'
  BY <1>1, <1>5, GoSteps
<1>6. ASSUME NEW c \in Cpus, Exit(c) PROVE SInv'
  BY <1>1, <1>6, GoSteps, ExitStep
<1>7. ASSUME NEW c \in Cpus, LockNext(c) \/ MarkExited(c) \/ Reap(c) PROVE SInv'
  BY <1>1, <1>7, LockStep, MarkStep, ReapStep
<1>8. ASSUME NEW c \in Cpus, NEW t \in Threads, Wake(c, t) \/ Start(c, t) PROVE SInv'
  BY <1>1, <1>2, <1>8, WakeSteps
<1>9. ASSUME NEW c \in Cpus, NEW t \in Threads, Stop(c, t) \/ Delete(c, t) PROVE SInv'
  BY <1>2, <1>9, StopStep, DeleteStep
<1>10. ASSUME NEW c \in Cpus, NEW t \in Threads, NEW p \in Priorities, SetPriority(c, t, p) PROVE SInv'
  BY <1>2, <1>10, SetPriorityStep
<1>11. ASSUME NEW c \in Cpus, SetPriorityDone(c) PROVE SInv'
  BY <1>11, SetPriorityDoneStep
<1>12. ASSUME NEW c \in Cpus, NEW t \in Threads, NEW a \in Affinities, SetAffinity(c, t, a) PROVE SInv'
  BY <1>12, AffinityStep
<1>13. CASE UNCHANGED vars
  BY <1>13, StutterStep
<1>14. QED
  BY <1>3, <1>4, <1>5, <1>6, <1>7, <1>8, <1>9, <1>10, <1>11, <1>12, <1>13 DEF Next

\* The invariant implies the properties of the run.
LEMMA InvariantImplies ==
  ASSUME SInv
  PROVE  (CallTypes => QueuesInv) /\ OneStack /\ NoMissedWakeup
<1>1. CallTypes => TypeOK
  BY TypeParts DEF SInv, SchedsOK
<1>2. QueuedOnce
  BY DEF SInv, SchedsOK, SchedOK, QueuedOnce
<1>3. BitmapAndLoad
  <2>1. ASSUME NEW c \in Cpus
        PROVE  /\ sched[c].non_empty = {p \in Levels : sched[c].queues[p] # <<>>}
               /\ sched[c].load = QueueLength(sched[c]) % LoadMod
    <3>1. SchedOK(sched[c]) /\ sched[c] \in Scheds
      BY DEF SInv, SchedsOK
    <3>2. sched[c].non_empty \subseteq Levels
      BY <3>1, SMT DEF Scheds
    <3>3. QED
      BY <3>1, <3>2 DEF SchedOK
  <2>2. QED
    BY <2>1 DEF BitmapAndLoad
<1>4. ReadyNotLost
  <2>1. \A t : Flying(t) => InFlight(t)
    BY DEF Flying, InFlight, Pending
  <2>2. \A t \in Threads : state[t] = "Ready" => Queued(t) \/ Flying(t)
    BY DEF SInv, PlacesOK, ReadyPlaced
  <2>3. QED
    BY <2>1, <2>2 DEF ReadyNotLost, Queued
<1>5. QED
  BY <1>1, <1>2, <1>3, <1>4 DEF SInv, QueuesInv

-----------------------------------------------------------------------------
(* Queues held as sequences.                                               *)

\* The members of a sequence, by index.
LEMMA RangeIndex ==
  ASSUME NEW S, NEW q \in Seq(S)
  PROVE  /\ DOMAIN q = 1..Len(q) /\ Len(q) \in Nat
         /\ Range(q) = {q[i] : i \in 1..Len(q)} /\ Range(q) \subseteq S
         /\ q = <<>> <=> Range(q) = {}
<1>1. DOMAIN q = 1..Len(q) /\ Len(q) \in Nat /\ \A i \in 1..Len(q) : q[i] \in S
  BY SMT
<1>2. Range(q) = {q[i] : i \in 1..Len(q)}
  BY <1>1, SMT DEF Range
<1>3. q # <<>> => 1 \in 1..Len(q)
  BY <1>1, SMT
<1>4. q = <<>> => Range(q) = {}
  BY <1>2, SMT
<1>5. QED
  BY <1>1, <1>2, <1>3, <1>4, SMT

\* The empty queue.
LEMMA EmptyQueue ==
  ASSUME NEW S
  PROVE  <<>> \in Seq(S) /\ IsInjective(<<>>) /\ Range(<<>>) = {}
BY SMT DEF IsInjective, Range

\* A thread enqueued at the tail of a wait queue.
LEMMA AppendQueue ==
  ASSUME NEW S, NEW q \in Seq(S), IsInjective(q), NEW x \in S, x \notin Range(q)
  PROVE  /\ Append(q, x) \in Seq(S) /\ IsInjective(Append(q, x))
         /\ Range(Append(q, x)) = Range(q) \union {x} /\ Len(Append(q, x)) = Len(q) + 1
<1>1. /\ Append(q, x) \in Seq(S) /\ Len(Append(q, x)) = Len(q) + 1
      /\ \A i \in 1..Len(q) : Append(q, x)[i] = q[i]
      /\ Append(q, x)[Len(q) + 1] = x /\ Len(q) \in Nat
  BY SMT
<1>2. /\ Range(q) = {q[i] : i \in 1..Len(q)} /\ DOMAIN q = 1..Len(q)
      /\ Range(Append(q, x)) = {Append(q, x)[i] : i \in 1..(Len(q) + 1)}
      /\ DOMAIN Append(q, x) = 1..(Len(q) + 1)
  <2>1. PICK r \in Seq(S) : r = Append(q, x) /\ Len(r) = Len(q) + 1
    BY <1>1, ZenonT(30)
  <2>2. Range(r) = {r[i] : i \in 1..Len(r)} /\ DOMAIN r = 1..Len(r)
        /\ Range(q) = {q[i] : i \in 1..Len(q)} /\ DOMAIN q = 1..Len(q)
    BY RangeIndex, SMT
  <2>3. QED
    BY <2>1, <2>2
<1>3. \A i \in 1..(Len(q) + 1) : i \in 1..Len(q) \/ i = Len(q) + 1
  BY <1>1, SMT
<1>4. \A i \in 1..Len(q) : q[i] # x
  BY <1>2, SMT
<1>5. IsInjective(Append(q, x))
  BY <1>1, <1>2, <1>3, <1>4, SMT DEF IsInjective
<1>6. QED
  BY <1>1, <1>2, <1>3, <1>5, SMT

\* What is left of a sequence when one entry is taken out.
LEMMA WithoutValue ==
  ASSUME NEW S, NEW q \in Seq(S), NEW i \in 1..Len(q)
  PROVE  /\ Cut(q, i) \in Seq(S) /\ Len(Cut(q, i)) = Len(q) - 1
         /\ \A j \in 1..(Len(q) - 1) :
              Cut(q, i)[j] = IF j < i THEN q[j] ELSE q[j + 1]
<1>0. Len(q) \in Nat /\ \A j \in 1..Len(q) : q[j] \in S
  BY SMT
<1> DEFINE a == SubSeq(q, 1, i - 1)
           b == SubSeq(q, i + 1, Len(q))
<1>1. /\ a \in Seq(S) /\ Len(a) = i - 1
      /\ \A j \in 1..(i - 1) : a[j] = q[j]
  <2>1. \A j \in 1..(i - 1) : q[j] \in S
    BY <1>0, SMT
  <2>2. /\ a \in Seq(S) /\ Len(a) = IF 1 <= i - 1 THEN i - 1 - 1 + 1 ELSE 0
        /\ \A j \in 1..(i - 1 - 1 + 1) : a[j] = q[1 + j - 1]
    BY <1>0, <2>1, SMT
  <2>3. QED
    BY <1>0, <2>2, SMT
<1>2. /\ b \in Seq(S) /\ Len(b) = Len(q) - i
      /\ \A j \in 1..(Len(q) - i) : b[j] = q[i + j]
  <2>1. \A j \in (i + 1)..Len(q) : q[j] \in S
    BY <1>0, SMT
  <2>2. /\ b \in Seq(S)
        /\ Len(b) = IF i + 1 <= Len(q) THEN Len(q) - (i + 1) + 1 ELSE 0
        /\ \A j \in 1..(Len(q) - (i + 1) + 1) : b[j] = q[(i + 1) + j - 1]
    BY <1>0, <2>1, SMT
  <2>3. QED
    BY <1>0, <2>2, SMT
<1>3. /\ a \o b \in Seq(S) /\ Len(a \o b) = Len(a) + Len(b)
      /\ \A j \in 1..(Len(a) + Len(b)) :
           (a \o b)[j] = IF j <= Len(a) THEN a[j] ELSE b[j - Len(a)]
  <2>1. a \in Seq(S) /\ b \in Seq(S)
    BY <1>1, <1>2
  <2> HIDE DEF a, b
  <2>2. QED
    BY <2>1, SMT
<1>4. Cut(q, i) = a \o b
  BY SMT DEF Cut
<1> HIDE DEF a, b
<1>5. \A j \in 1..(Len(q) - 1) :
        (a \o b)[j] = IF j < i THEN q[j] ELSE q[j + 1]
  <2> SUFFICES ASSUME NEW j \in 1..(Len(q) - 1)
               PROVE  (a \o b)[j] = IF j < i THEN q[j] ELSE q[j + 1]
    OBVIOUS
  <2>1. (a \o b)[j] = IF j <= i - 1 THEN a[j] ELSE b[j - (i - 1)]
    <3>1. (i - 1) + (Len(q) - i) = Len(q) - 1
      BY <1>0, SMT
    <3>2. Len(a) + Len(b) = Len(q) - 1 /\ Len(a) = i - 1
      BY <1>1, <1>2, <3>1
    <3>3. (a \o b)[j] = IF j <= Len(a) THEN a[j] ELSE b[j - Len(a)]
      BY <1>3, <3>2
    <3>4. QED
      BY <3>2, <3>3
  <2>2. CASE j < i
    BY <1>0, <1>1, <2>1, <2>2, SMT
  <2>3. CASE j >= i
    <3>1. j - (i - 1) \in 1..(Len(q) - i) /\ i + (j - (i - 1)) = j + 1
      BY <1>0, <2>3, SMT
    <3>2. QED
      BY <1>0, <1>2, <2>1, <2>3, <3>1, SMT
  <2>4. j < i \/ j >= i
    BY <1>0, SMT
  <2>5. QED
    BY <2>2, <2>3, <2>4
<1>6. QED
  BY <1>0, <1>1, <1>2, <1>3, <1>4, <1>5, SMT

\* An entry unlinked from a queue in which no entry is twice.
LEMMA WithoutQueue ==
  ASSUME NEW S, NEW q \in Seq(S), IsInjective(q), NEW i \in 1..Len(q)
  PROVE  /\ Cut(q, i) \in Seq(S) /\ IsInjective(Cut(q, i))
         /\ Range(Cut(q, i)) = Range(q) \ {q[i]}
<1>0. i \in 1..Len(q)
  BY SMT
<1>1. /\ DOMAIN q = 1..Len(q) /\ Len(q) \in Nat
      /\ Range(q) = {q[k] : k \in 1..Len(q)}
  BY RangeIndex, SMT
<1>2. PICK r \in Seq(S) :
      /\ r = Cut(q, i) /\ Len(r) = Len(q) - 1
      /\ \A j \in 1..(Len(q) - 1) : r[j] = IF j < i THEN q[j] ELSE q[j + 1]
  BY WithoutValue
<1>3. Range(r) = {r[j] : j \in 1..Len(r)} /\ DOMAIN r = 1..Len(r)
  BY <1>2, RangeIndex, SMT
<1>4. \A j \in 1..Len(q) : q[j] = q[i] => j = i
  BY <1>1, <1>0, SMT DEF IsInjective
<1>5. IsInjective(r)
  <2> SUFFICES ASSUME NEW j \in 1..(Len(q) - 1), NEW k \in 1..(Len(q) - 1),
                      r[j] = r[k]
               PROVE  j = k
    BY <1>2, <1>3, SMT DEF IsInjective
  <2>1. \A m, n \in 1..Len(q) : q[m] = q[n] => m = n
    BY <1>1, SMT DEF IsInjective
  <2>2. /\ r[j] = IF j < i THEN q[j] ELSE q[j + 1]
        /\ r[k] = IF k < i THEN q[k] ELSE q[k + 1]
    BY <1>2, SMT
  <2>0. \A n \in 1..(Len(q) - 1) : n \in 1..Len(q) /\ n + 1 \in 1..Len(q)
    BY <1>1, SMT
  <2>3. PICK m \in 1..Len(q) : r[j] = q[m] /\ m = IF j < i THEN j ELSE j + 1
    BY <2>0, <2>2
  <2>4. PICK n \in 1..Len(q) : r[k] = q[n] /\ n = IF k < i THEN k ELSE k + 1
    BY <2>0, <2>2
  <2>5. m = n
    BY <2>1, <2>3, <2>4
  <2>6. QED
    BY <1>1, <1>0, <2>3, <2>4, <2>5, SMT
<1>6. ASSUME NEW y \in Range(r) PROVE y \in Range(q) /\ y # q[i]
  <2>1. PICK j \in 1..(Len(q) - 1) : y = IF j < i THEN q[j] ELSE q[j + 1]
    BY <1>2, <1>3, SMT
  <2>2. PICK k \in 1..Len(q) : y = q[k] /\ k # i
    BY <1>1, <1>0, <2>1, SMT
  <2>3. QED
    BY <1>1, <1>4, <2>2, SMT
<1>7. ASSUME NEW y \in Range(q), y # q[i] PROVE y \in Range(r)
  <2>1. PICK k \in 1..Len(q) : y = q[k]
    BY <1>1, SMT
  <2>2. k # i
    BY <1>0, <1>7, <2>1, SMT
  <2>3. PICK j \in 1..(Len(q) - 1) : k = IF j < i THEN j ELSE j + 1
    <3>1. CASE k < i
      BY <1>1, <1>0, <3>1, SMT
    <3>2. CASE k > i
      <4>1. k - 1 \in 1..(Len(q) - 1) /\ (k - 1) + 1 = k /\ ~(k - 1 < i)
        BY <1>1, <1>0, <3>2, SMT
      <4>2. QED
        BY <4>1, SMT
    <3>3. QED
      BY <1>1, <1>0, <2>2, <3>1, <3>2, SMT
  <2>4. r[j] = y
    BY <1>2, <2>1, <2>3, SMT
  <2>5. QED
    BY <1>2, <1>3, <2>4, SMT
<1>8. QED
  BY <1>2, <1>5, <1>6, <1>7, SMT

\* What is left of a queue after its first k entries were taken.
LEMMA SuffixQueue ==
  ASSUME NEW S, NEW q \in Seq(S), IsInjective(q), NEW k \in 1..Len(q)
  PROVE  /\ SubSeq(q, k + 1, Len(q)) \in Seq(S) /\ IsInjective(SubSeq(q, k + 1, Len(q)))
         /\ Range(SubSeq(q, k + 1, Len(q))) = {q[i] : i \in (k + 1)..Len(q)}
<1>1. Len(q) \in Nat /\ DOMAIN q = 1..Len(q) /\ \A i \in 1..Len(q) : q[i] \in S
  BY SMT
<1>2. \A i \in (k + 1)..Len(q) : q[i] \in S
  BY <1>1, SMT
<1>3. PICK n \in Nat : n = Len(q) /\ k \in 1..n
  BY <1>1
<1> DEFINE m == k + 1
<1>4. PICK r \in Seq(S) : /\ r = SubSeq(q, k + 1, Len(q)) /\ Len(r) = Len(q) - k
                          /\ \A i \in 1..(Len(q) - k) : r[i] = q[k + i]
  <2>1. /\ SubSeq(q, m, n) \in Seq(S)
        /\ Len(SubSeq(q, m, n)) = IF m <= n THEN n - m + 1 ELSE 0
        /\ \A i \in 1..(n - m + 1) : SubSeq(q, m, n)[i] = q[m + i - 1]
    <3>1. m \in Int /\ n \in Int
      BY <1>3, SMT
    <3>2. \A i \in m..n : q[i] \in S
      BY <1>2, <1>3
    <3> HIDE DEF m
    <3>3. QED
      BY <3>1, <3>2, SMT
  <2>2. PICK r \in Seq(S) :
          /\ r = SubSeq(q, k + 1, Len(q))
          /\ Len(r) = IF m <= n THEN n - m + 1 ELSE 0
          /\ \A i \in 1..(n - m + 1) : r[i] = q[m + i - 1]
    BY <1>3, <2>1
  <2>3. Len(r) = Len(q) - k
    <3>1. (IF m <= n THEN n - m + 1 ELSE 0) = n - k
      BY <1>3, SMT
    <3>2. QED
      BY <1>3, <2>2, <3>1
  <2>4. ASSUME NEW i \in 1..(Len(q) - k) PROVE r[i] = q[k + i]
    <3>1. i \in 1..(n - m + 1) /\ m + i - 1 = k + i
      BY <1>1, <1>3, SMT
    <3>2. QED
      BY <2>2, <3>1, SMT
  <2>5. QED
    BY <2>2, <2>3, <2>4
<1>5. DOMAIN r = 1..Len(r) /\ Range(r) = {r[i] : i \in 1..Len(r)}
  BY RangeIndex, SMT
<1>6. IsInjective(r)
  <2> SUFFICES ASSUME NEW i \in 1..(Len(q) - k), NEW j \in 1..(Len(q) - k), r[i] = r[j]
               PROVE  i = j
    BY <1>4, <1>5, SMT DEF IsInjective
  <2>0. k + i \in 1..Len(q) /\ k + j \in 1..Len(q)
    BY <1>3, SMT
  <2>1. q[k + i] = q[k + j]
    BY <1>4
  <2>2. k + i = k + j
    BY <1>1, <2>0, <2>1 DEF IsInjective
  <2>3. QED
    BY <2>2, SMT
<1>7. Range(r) = {q[i] : i \in (k + 1)..Len(q)}
  <2>1. ASSUME NEW y \in Range(r) PROVE \E i \in (k + 1)..Len(q) : y = q[i]
    <3>1. PICK i \in 1..(Len(q) - k) : y = q[k + i]
      BY <1>4, <1>5
    <3>2. k + i \in (k + 1)..Len(q)
      BY <1>1, SMT
    <3>3. QED
      BY <3>1, <3>2, SMT
  <2>2. ASSUME NEW i \in (k + 1)..Len(q) PROVE q[i] \in Range(r)
    <3>1. i - k \in 1..(Len(q) - k) /\ k + (i - k) = i
      BY <1>1, SMT
    <3>2. QED
      BY <1>4, <1>5, <3>1
  <2>3. QED
    BY <2>1, <2>2, SMT
<1>8. QED
  BY <1>4, <1>6, <1>7, SMT

\* What the run queues use of sequences.
LEMMA QueueLemma == QueueFacts
<1>1. <<>> \in Seq(Tcbs) /\ IsInjective(<<>>) /\ Range(<<>>) = {}
  BY EmptyQueue
<1>2. ASSUME NEW q \in Seq(Tcbs) PROVE Indexed(q)
  BY RangeIndex DEF Indexed
<1>3. ASSUME NEW q \in Seq(Tcbs), NEW x \in Tcbs, IsInjective(q), x \notin Range(q)
      PROVE  /\ Append(q, x) \in Seq(Tcbs) /\ IsInjective(Append(q, x)) /\ Append(q, x) # <<>>
             /\ Range(Append(q, x)) = Range(q) \union {x} /\ Len(Append(q, x)) = Len(q) + 1
  <2>1. /\ Append(q, x) \in Seq(Tcbs) /\ IsInjective(Append(q, x))
        /\ Range(Append(q, x)) = Range(q) \union {x} /\ Len(Append(q, x)) = Len(q) + 1
    BY <1>3, AppendQueue
  <2>2. Append(q, x) # <<>>
    BY <1>1, <2>1
  <2>3. QED
    BY <2>1, <2>2
<1>4. ASSUME NEW q \in Seq(Tcbs), NEW i \in 1..Len(q), IsInjective(q)
      PROVE  /\ Cut(q, i) \in Seq(Tcbs) /\ IsInjective(Cut(q, i))
             /\ Range(Cut(q, i)) = Range(q) \ {q[i]} /\ Len(Cut(q, i)) = Len(q) - 1
  <2>1. /\ Cut(q, i) \in Seq(Tcbs) /\ IsInjective(Cut(q, i))
        /\ Range(Cut(q, i)) = Range(q) \ {q[i]}
    BY <1>4, WithoutQueue
  <2>2. Len(Cut(q, i)) = Len(q) - 1
    BY WithoutValue
  <2>3. QED
    BY <2>1, <2>2
<1>5. ASSUME NEW q \in Seq(Tcbs), NEW i \in 1..Len(q), IsInjective(q)
      PROVE  /\ SubSeq(q, i + 1, Len(q)) \in Seq(Tcbs) /\ IsInjective(SubSeq(q, i + 1, Len(q)))
             /\ Range(SubSeq(q, i + 1, Len(q))) = {q[j] : j \in (i + 1)..Len(q)}
  BY <1>5, SuffixQueue
<1>6. QED
  BY <1>1, <1>2, <1>3, <1>4, <1>5 DEF QueueFacts
=============================================================================
