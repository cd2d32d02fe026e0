# Seraph: TLA+ models, model checks and proofs

Seraph is a microkernel with its boot loader and userspace services, for x86_64 and
riscv64. The kernel offers threads, address spaces, capabilities and four kinds of IPC
object; everything else (process manager, service manager, device manager, file systems,
drivers) is a server in user space. This directory holds TLA+ models translated from the
Rust source, TLC configurations that check them on small instances, and proofs checked by
TLAPS for every value of the constants.

`PROJECT.json` is the index: components, runs, the definition-to-source map, mutants,
hazards and theorems. Paths below are relative to `src/`.

## 1. Inventory

| part | state | operations | what makes it hard |
|---|---|---|---|
| ticket spinlock (`kernel/src/sync.rs`) | two 32-bit counters, saved interrupt flag | lock_raw, unlock_raw, release_lock_only | counters wrap; interrupt handlers take the same locks |
| event queues (`ipc/event_queue.rs`) | ring, indices, one waiter | post, recv, drop | post racing a receiver that is about to sleep |
| signals (`ipc/signal.rs`) | bit mask, observer flag, waiter | send (lock-free fast path), wait, drop | store/load ordering between the two sides |
| wait sets (`ipc/wait_set.rs`) | members, ready ring, back-pointers | add, remove, wait, notify | no lock of its own; edge-triggered sources |
| endpoints (`ipc/endpoint.rs`, `syscall/ipc.rs`) | send and receive queue, reply pointers | call, recv, reply, drop | threads stopped, objects destroyed, transfers failing in the middle |
| scheduler (`sched/`) | per-CPU queues, idle mask, sleep list, `context_saved` | schedule, enqueue, sleep, thread calls | stacks change CPU; missed wakeup interrupts; deletion of a running thread |
| capabilities (`cap/`, `syscall/cap.rs`) | slot directories, free lists, derivation links, reference counts | create, copy, derive, move, delete, revoke, transfer | parts of two calls interleave around `DERIVATION_LOCK`; CSpaces die |
| TLB shootdown (`mm/tlb_shootdown.rs`, `mm/address_space.rs`) | page tables, TLBs, one request record | map, unmap, protect, interrupt handler | concurrent requests, late interrupts, lazily switched address spaces |
| kernel memory (`mm/buddy.rs`, `mm/init.rs`, `mm/slab.rs`, `mm/heap.rs`, `mm/paging.rs`, `arch/*/paging.rs`, `syscall/mem.rs`) | frames, slabs, page-table trees, Frame capabilities | intake, allocation, boot tables, drain, map, unmap, protect, split | merging, exhaustion in the middle of a call, devices in and beside memory |
| boot (`boot/src`, `kernel/src/main.rs`, `platform.rs`, `cap/mod.rs`, `ap_trampoline.rs`) | memory map, loaded files, resources, root CSpace, InitInfo, other CPUs | ten loader steps, nine kernel phases, start of CPUs | the firmware's map changes; tables overlap; CPUs share one trampoline |
| block driver (`drivers/virtio`), interrupt routing (`irq.rs`, `syscall/hw.rs`) | virtqueue, DMA page, line and signal, partitions | request, wait, completion, dispatch, acknowledgement | wrapping indices, stale and lost interrupts, time-out |
| services (`init`, `procmgr`, `svcmgr`, `devmgr`, `vfsd`, `fs/fat`, `base`) | tables, frame pools, mounts, open files | IPC handlers, bootstrap rounds, restart | servers that call each other, children that die, failures at any call |
| runtime (`shared/`) | heap, log buffer | bootstrap, heap growth, calls | |
| console, build tool, `ktest` | | | not modelled; section 8 |

Interactions: the loader hands the kernel a memory map and platform resources, from which
the kernel makes frames, page tables and the capabilities of init. Every blocking object
hands threads to the scheduler (state set under the object's lock, run queue entered
later, kernel stack left later still). Sources notify wait sets; interrupts send signals;
thread exit posts to an event queue; messages move capabilities; deleting the last
capability destroys objects, which wakes their waiters. Init starts the services, which use
endpoints for calls, signals for interrupts, and an event queue per child for its death.

## 2. Modules

| module | models | refines / used by |
|---|---|---|
| `Spinlock` | the ticket lock with interrupt contexts, one step per atomic access | `FifoLock` (first come, first served) |
| `EventQueue` | the ring with its waiter and the hand-over to the run queue | `EventFifo` (bounded queue) |
| `Signal` | every access of send and wait to `bits` and `has_observer`, the lock, and wait-set membership | |
| `WaitSet` | member table, ready ring, back-pointers, one source of each kind | |
| `Endpoint` | call, recv, reply, stop/start and destruction for several clients and servers | |
| `Scheduler` | per-CPU run queues, `schedule`, `enqueue_and_wake`, idle loop, sleep list, thread calls, deletion | `Block`/`Wake` stand for the IPC modules |
| `CSpace` | slot directory, free list, derivation links as pure operators | `Capabilities`, `Memory` |
| `Capabilities` | capability system calls split at `DERIVATION_LOCK`, message transfer, end of a CSpace | `CapForest` (a forest of capabilities) |
| `TlbShootdown` | page-table changes, the request record, both interrupt handlers, address-space switch | |
| `Buddy` | node pool, free lists, memory-map intake, drain, as operators on a record | `Memory`, `KernelEntry` |
| `KernelHeap` | slabs, size classes, large blocks, as operators | `Memory` |
| `PageTables` | walks, table allocation, boot tables of both architectures, as operators on a tree | `Memory` |
| `Memory` | the kernel's memory: start-up from a memory map, frames and heap in use, Frame and MMIO capabilities, the mapping calls of two threads page by page | |
| `BootLoader` | the loader's steps over an unreliable firmware, up to ExitBootServices | |
| `KernelEntry` | the kernel from its entry to the scheduler on every CPU; composes `BootLoader` and `Buddy` | |
| `Virtqueue`, `Partitions` | split virtqueue, partition bounds, as operators | `VirtioBlk`, `BlockDevice` |
| `Calls` | synchronous calls between servers, as `Endpoint` provides them | |
| `VirtioBlk` | block driver, device, interrupt line, dispatch, signal and acknowledgement | `BlockDevice` (a request is answered with its sector) |
| `Processes` | threads, bootstrap protocol, failures, on top of `BlockDevice` | the services |
| `Procmgr` | the process manager, and the loader: ELF segments, pages and what is copied into them | `InitProc` uses the loader |
| `Devmgr` | PCI enumeration and BAR windows; the device manager | |
| `FatFs` | the FAT on disk as operators; the file-system server | |
| `Svcmgr`, `Vfsd`, `InitProc`, `Programs` | the other servers, init, and the programs around them | |
| `UserSpace` | the composition of all of them and its properties | |
| `MC*` | machines, disks, symmetry sets and constants for TLC | |
| `EventQueueProofs`, `SignalProofs`, `SpinlockProofs`, `TlbShootdownProofs`, `WaitSetProofs`, `EndpointProofs`, `SchedulerProofs` | theorems about the module of that name | |
| `SchedulerInvariant` | the inductive invariant of `Scheduler` and the proof that every step keeps it | `SchedulerProofs` |

State and actions keep the names of the code. In the kernel modules a step is a critical
section, or a single access where other CPUs can see the code between two accesses. A woken
thread passes through the same stages in all IPC modules: state set to Ready (under the
object's lock), entered into a run queue (`EnqueueWoken`), dispatched (`Resume`); a blocking
thread is marked Blocked before it calls `schedule` and leaves its stack (`SwitchOut`) after
that. The other modules choose their steps as follows.

* Memory. Frame and heap calls are atomic, because `FRAME_ALLOC_LOCK` and the heap lock are
  held throughout. `sys_mem_map`, `sys_mem_unmap` and `sys_mem_protect` take the page-table
  lock for each page, so a page is a step and the calls of two threads interleave between
  pages. A call that fails before it changes anything is no step. It is assumed that an address
  space is not deleted while a call works on it.
* Boot. One CPU runs, so a loader step or kernel phase is one step; steps of the firmware
  (its map changes, up to `machine.events` times) come between the attempts to leave boot services, and
  the steps of the other CPUs run beside those of the boot CPU. On a `flaky` machine any
  firmware call may fail. Files, ACPI tables and the device tree are records of the fields the
  loader reads. What phases 3 and 4 do to page tables and heap is in `Memory`.
* Block driver. The device takes, fills and returns a request and raises its line in steps of
  its own; the kernel's dispatch, the driver's waits, acknowledgements and reads of the used ring interleave with
  them. Another device may raise the line too, and the controller may lose an interrupt it has latched, as the comments
  of `submit_and_wait` report of the PLIC.
* Services. A server runs from one blocking call to the next in one step, since nobody
  shares its memory (vfsd's two threads share one record, whose accesses are in the steps of each). The
  kernel calls in between either work or use up the one failure a machine may have.
  Lines of log are left out, except the first of devmgr and of vfsd, which wait for the log
  thread. A reply that carries capabilities is assumed to be delivered. The wait set of the service manager announces what
  the kernel's does: `sv.silent` holds the members that are ready and were not announced, and svcmgr does not look at those.

Constants of two kinds occur: sizes (CPUs, threads, rings, tables, memory), and switches
that select how the code is used. The passing runs have the switches in the position the
code copes with; section 7 has the other positions, and what goes wrong there:

* `Settled`: start, priority and affinity calls and deletion meet a thread that is not on its
  way into a run queue (and, for start, has left its stack).
* `StopWhat`, `StopStates`, `DeleteWhat`, `PriorityWhat`: what the threads that are stopped or deleted, or get another priority, are doing.
* `SieStays`: the idle loop checks its queue with interrupts on (riscv64) or off (x86_64).
* `OneThread`, `DistinctCaps`, `RoomToCreate`: no two calls at once on one CSpace (the run has one
  CPU, hence one call at a time), no slot named twice in a message, objects created only when a slot is left.
* `CSpaceDeaths`: a CSpace dies only when no derivation link leads out of it (`"isolated"`).
* `HandlerChecks`: the riscv64 interrupt handler (it looks whether it is asked) or the x86_64 one.
* `Triggers`: how the controller latches the line of the block device. The run has two PLICs, one that takes the completion of a
  masked source (`"level"`) and one that ignores it, as its specification says (`"strict"`); `"edge"` is the IOAPIC. `MaxLost` interrupts are lost.

## 3. Runs

| run | instance | properties |
|---|---|---|
| `event_queue` | ring of 3, 2 posters, 1 receiver | `NoLostWakeup` between queue lock and run queue; `RefinesFifo`: the ring with its direct hand-over implements `EventFifo` |
| `signal` | 3 senders, 1 waiter, member of a wait set or not | `NoLostWakeup`, `BitsDelivered`: the fast path loses neither a wakeup nor a bit |
| `spinlock` | 3 CPUs, tickets modulo 4 | `ServedInOrder` (refines `FifoLock`), `Served`: every ticket is served |
| `wait_set` | one source of each kind, posts between the two steps of a wait and of an add | `WaitSetInv`: member table and back-pointers agree through slot reuse, and a waiter sleeps on an empty ring unless a post overtook it; `ReadinessRemembered` |
| `endpoint` | 2 clients, 1 server, threads stopped while blocked, requests whose capabilities cannot be moved, endpoint destroyed | `QueuesInv`: rendezvous queues, reply targets, Ready threads queued; `ReplyMatches`; `CallReturns` |
| `scheduler` | 2 CPUs, 2 threads, 2 levels, all thread calls and deletion | `QueuesInv`: queues, bitmap, load, no Ready thread lost; `OneStack`; `NoMissedWakeup` of a halted CPU; `SpinAnswered`: a CPU that spins for `context_saved` under its lock spins for a thread another CPU is leaving |
| `capabilities` | 2 CSpaces of 2 x 2 slots, one of them destroyed | `SlotsInv`: tree pointers and exact free lists; `TransferAllOrNothing`; `RefCountExact`; `ImplementsForest` |
| `tlb_shootdown` | 2 harts, 2 address spaces, riscv64 handler | `NoStaleTranslation` after a call returns; `ChangeCompletes` |
| `memory` | 17 machines of both architectures: memory maps with holes, frames and heap used up, two threads that map, devices in and above memory | `BlocksInv`: every page in exactly one place; `NoFalseShortage`; `HeapSound`: live objects disjoint and inside their slabs; `UserView`: a translation leads to the page and the rights that were asked for, and to memory of the user's capabilities only; `KernelMapped`: image, direct map and devices where and with the rights the kernel relies on |
| `boot` | 46 machines: ACPI and device tree, broken configuration, files and tables, little memory, failing firmware calls, a firmware map that changes during the exit, missing CPUs | `OnlyFreeMemory`: the frames the kernel hands out hold nothing that is still needed; `InitInfoRight`: init reads, through its own mapping, the capabilities it has; `DevicesDisjoint`; `ApsAreThemselves`: each CPU enters with its own number and stack; `SchedulerEntered` |
| `block` | 4 descriptors, indices modulo 4, 3 sectors, 2 clients, one device error, one foreign and one lost interrupt, failures at start, two kinds of PLIC | `DescriptorsAccounted`; `CompletionWakes`: a driver that sleeps with its request answered will be woken, unless the controller lost the interrupt since the poll burst or refuses the source, and a loss the burst hid does not reach the next request; `ImplementsBlockDevice` |
| `services` | 15 machines over a disk with two FAT volumes and a bus with one virtio block device: application scripts, one failure anywhere, little memory | `BootCompletes`: a machine with enough memory and no failure ends with all services up and the hand-over done, or with svcmgr asleep on a request it was not told of (section 7), and in no other way; `RightCapabilities`: every child gets the capabilities meant for it, in order; `MountsRight`; `ReadRight`: what is read, and every loaded image, is what the files contain; `DeathNoticed`; `FramesOwnedOnce` |

Every behaviour of `UserSpace` ends, because scripts, restarts and retries are bounded, so
`BootCompletes` is an invariant on the states in which nobody can go on. Every property of a
run has a mutant: a definition changed as a plausible bug would change it, under which TLC
reports that property violated.

## 4. Bounds

* Two CPUs are the least that interleave. Three matter where a cycle needs a bystander:
  `spinlock` has them, and section 7 says what three CPUs do to `Scheduler`.
* Ticket counters wrap after 4 instead of 2^32; this keeps the code's condition that the
  modulus exceeds the number of contenders, which the proof shows to be all that is needed.
* Rings are passed around more than once; payload 0 is included because the code also uses 0 as
  a neutral value.
* `wait_set` uses `VIEW RingView`: states that differ only in where the ready ring starts, or in what its free places hold, are one
  state. No action and no property looks at either.
* CSpaces have directories of 2 x 2 slots, so that growth, the quota and exhaustion all occur.
* `memory`: pages of 4 bytes, blocks of up to 4 pages, 13 pages of frames, trees of 3 levels of 8
  entries, three size classes. Byte addresses make rounding occur; the maps have holes, unaligned ends and
  overlapping exclusions; there is too little memory for every request, and `MaxCalls` (3) capability or mapping
  calls are enough for two calls to overlap on one page and for one to run out of tables.
* `boot`: 112 pages of 8 bytes and four CPUs at most. Tables and files are the shortest in which every
  branch of the loader is taken; two changes of the firmware's map exhaust its one retry.
* `block`: indices modulo 4 wrap every four requests. Nine attempts stand for the 1000 of
  the driver: more than stale wakeups can use up, of which level triggering leaves up to six per completion and
  the foreign interrupt adds its own.
* `services`: sectors of 5 words, pages of 8 and chunks of 4 do not divide each other, so all the
  copying loops meet at odd places; every table holds one or two entries more than the boot needs, or is filled by a script.
* `MaxChanges`, `MaxSwitches`, `MaxWakeups`, `MaxSenders`, `MaxForeign`, `MaxLost`, `MaxFaults` cap what would repeat for ever;
  one thread is deleted at a time.
* `CHECK_DEADLOCK FALSE` is used where the system may really stop: all work done, the
  object destroyed, or the boot given up.

## 5. Fairness

Weak fairness of steps inside the kernel: interrupts are off there, so a CPU that is in a
system call goes on. Strong fairness of lock acquisition: the lock is the ticket lock, which
`spinlock` shows to serve everyone. Weak fairness of dispatch in the IPC modules:
`ReadyRuns` of `Scheduler` states it under `FairSpec` (timer ticks end time slices, no tick is assumed to end a halt);
TLC confirms it for 2 CPUs and 2 threads of one priority level, with `Affinities`, `StopWhat` and `DeleteWhat` empty. The code
runs strictly by priority, so it holds for no more than that. Servers are assumed to keep
receiving and replying; clients and senders owe nothing. In `boot` only the start of the CPUs (`Smp`) is weakly
fair: a CPU that was started runs. `services` and `block` assume no fairness.

## 6. Proofs

TLAPS checks, without bounds on the number of threads or the size of the ring:

* `EventQueueProofs`. The indices, count and waiter (`RingInv`: type, index equation
  `write_idx = (read_idx + count) % (Capacity + 1)`, a waiter only on an empty ring) are inductive for any number of
  posters and receivers. `NoLostWakeup` and the refinement of `EventFifo` need the
  documented condition of one receiver (`SingleReceiver`). The refinement rests on lemmas about
  stepping around the ring: a slot written is not one of the slots still to be read.
* `SignalProofs`. `NoLostWakeup` is not inductive by itself. `SignalInv` adds where each thread
  is relative to the lock (`StageInv`), that the waiter pointer and the Blocked state agree
  (`WaiterInv`), that the observer flag is false only when nobody is registered
  (`ObserverInv`), and that a woken thread is in exactly one hand (`WokenInv`). From it:
  `NoLostWakeup`, `PendingAnnounced`, `WokenOnce`, `OneStack` and the type, for any number of senders and any mask,
  under the documented condition of one waiter (`OneWaiter`).

* `SpinlockProofs`. `LockInv` is inductive for any finite set of CPUs and any ticket modulus above
  their number. Mutual exclusion alone says nothing of the tickets still queued, so `TicketInv`
  adds that the tickets handed out are exactly those from `now_serving` up to `next_ticket` around
  the modulus, as many as CPUs hold one, and each held by one CPU; `FlagInv` follows the interrupt flag and its saved
  copies through nested sections. From it: the type, `MutualExclusion`, `NoSelfDeadlock`,
  `FlagRestored`, and the refinement of `FifoLock` (`ServedInOrder`).
* `TlbShootdownProofs`, for the riscv64 handler (`HandlerChecks`; section 7 says what the x86_64 one does), any number of harts, spaces and pages. `NoStaleTranslation` says nothing of how a running call knows the harts it waits
  for. `ShootdownInv` adds that a hart is marked active from before it loads a
  root until after it has left it (`ActiveInv`), that the request record belongs to the holder of
  `SHOOTDOWN_LOCK` and a handler past its check has its bit set (`RequestInv`), and that every
  stale translation is covered: its hart is in the mask the call is about to read, has read, or
  has stored in `pending_cpus` (`Covers`). From it: `NoStaleTranslation` and `AckMeansFlushed`.
  `pt_lock` plays no part in the argument.
* `WaitSetProofs`, for every size of the member table, any sets of sources and any number of callers and events,
  with posts at any moment, those between the two steps of a wait and of an add included. `WaitSetInv` speaks of the
  waiter and the ring; what makes it inductive is where the consumer is (`ConsumerOK`): it is Blocked exactly when it is
  registered, and between its look at the ring and its registration the ring stays empty or the consumer is `overtaken`. `AddOK`
  says that a source being added has no back-pointer yet. `ReadinessRemembered` is
  proved from that and from lemmas about the ring: push_ready keeps every live entry or records the loss, and
  pop_ready skips only entries of removed members. It is stated up to the losses the code has: a full ring
  (`dropped`), a consumer that read a source once and left it non-empty, and a source that became ready in the middle of its
  own add (both `silent`).
* `EndpointProofs`, for any number of clients and servers, when servers reply before they receive again (`~Deferring`)
  and stop and start meet no thread in the middle of a system call (`Settled`). `EInv` adds to the queues where each thread executes
  (`PlacesOK`), that a Ready thread is in one run queue or in the hands of one waker (`WakersOK`), that a thread is
  Blocked exactly when it waits in the endpoint (`BlockedOK`), and which message is on its way (`MessagesOK`). From it: `QueuesInv` and
  `ReplyMatches`. They rest on lemmas about queues without duplicates: appending, removing the first, unlinking.
* `SchedulerInvariant` and `SchedulerProofs`, for any number of CPUs, threads and levels, any size of the sleep list and
  any modulus of the load counter, when stop, delete and set_priority meet threads at rest and the idle loop checks with interrupts off (`SettledCalls`: the constants `Settled`,
  `StopWhat`, `DeleteWhat`, `PriorityWhat` and `SieStays` as in the run; section 7 says what happens without). `OneStack` alone is far from
  inductive: a CPU may switch to a thread that another CPU has given up but not yet left. `SInv` adds what a CPU is doing (`CpusOK`: between
  picking a thread and the switch it is on the old stack), that only one CPU claims a thread (`Claimed`), that a
  thread is in one place only, a run queue or one pending wakeup (`PlacesOK`), where waiting, sleeping and deleted threads are not
  (`ThreadsOK`), and the core of the argument (`StacksOK`): while `context_saved` of the thread whose stack a CPU is on is set, nothing
  can lead another CPU to that thread, so the spin in schedule() is reached exactly when it is needed. `SchedsOK` and
  `QueuedWhereSought` say that bitmap, load counter and queues agree. From it: `QueuesInv`, `OneStack`,
  `NoMissedWakeup` and `SpinAnswered`: nobody spins for registers that no CPU is going to save. The run-queue operations (enqueue, dequeue_highest, remove_from_queue,
  change_priority) have lemmas of their own (`EnqueueFacts`, `DequeueFacts`, `RemoveFacts`, `ChangeFacts`); `ChangePriorityMoves` is what sys_thread_set_priority would do to a run queue if it took its lock. What they need of
  sequences and cardinalities is the hypothesis `Library` in `SchedulerInvariant`; `SchedulerProofs` proves it from the library's theorems. It is in a
  module apart only because those theorems would slow every other step down.

The assumptions are those named in the modules (`CapacityAssumption`, `PayloadsAssumption`,
`NoThreadAssumption`, `ThreadsAssumption`, `TicketAssumption`, `ShootdownAssumption`, `MembersAssumption`,
`LimitsAssumption`, `NoSourceAssumption`, `SchedulerAssumption`); TLC evaluates them in the runs.

The invariants that are theorems and in no run (`RingInv`, `PendingAnnounced`, `MutualExclusion`, `NoSelfDeadlock`,
`FlagRestored`, `ShootdownInv`, `AckMeansFlushed`, `OneStack` of `Signal`) hold on the instances of the runs too.

Only model-checked: all liveness properties (the prover has no rule for fairness with ENABLED), what
recursive definitions compute (page-table walks, buddy splits, FAT chains; it has no induction over data), and the
remaining modules: the capability tree, the buddy lists and the memory calls are pointer structures that
`Capabilities` and `Memory` describe with recursion and folds, and `UserSpace`, `VirtioBlk` and `KernelEntry` are compositions of many
programs, whose invariants speak of each of their steps.

## 7. Disagreements

The modules state the following sentences of the repository, which the code does not keep.
Each is shown by TLC when the constants of the module's run are changed as given
and the property is made the only one (with `SPECIFICATION Spec` unless another is named).

* `WokenWithBits` (`Signal`, `Senders = {s1, s2}`), `kernel/src/ipc/signal.rs:130`. signal_send ORs its bits in before it takes the lock. If the waiter harvests them and blocks again before the sender gets the lock, the sender swaps out an empty mask and wakes the waiter with 0, which sys_signal_wait returns as success; kernel/docs/syscalls.md:326 says "the bitmask that was set (positive, non-zero) on success".
* `SingleWaiter` (`Signal`, `Senders = {s1, s2}`, `Waiters = {w1, w2}`), `kernel/src/ipc/signal.rs:215`. signal_wait stores the caller in waiter without looking at an earlier waiter, which then sleeps with nobody to wake it; kernel/src/ipc/signal.rs:13 says "Only one thread may wait on a signal at a time (single-waiter invariant)."
* `ReadyReported \/ overtaken` (`WaitSet`, `Signals = EventQueues = {}`; TLC may also show the gap of an add, below), `kernel/src/ipc/endpoint.rs:225`. endpoint_call and event_queue_post notify the wait set only when the queue was empty, and a token is handed out once per notification, so a consumer that receives one message per token blocks while a second one is queued; kernel/docs/syscalls.md:973 says "If multiple sources are ready simultaneously, subsequent calls return them without blocking", and kernel/src/ipc/wait_set.rs:15 defines ready as "has at least one pending sender".
* `ReadyReported \/ overtaken \/ silent # {}` (`WaitSet`, `Endpoints = {}`), `kernel/src/ipc/wait_set.rs:156`. push_ready drops the notification when the ring is full, and every send to a signal takes a slot, so the one notification of an event queue can be lost; kernel/docs/ipc-internals.md:422 says "This prevents readiness loss — any number of readiness events are remembered."
* `ReadyReported` (`WaitSet`, `Endpoints = Signals = {}`), `kernel/src/ipc/wait_set.rs:249`. waitset_wait looks at the ready ring and then registers the waiter without any lock, while a post on another CPU pushes to the ring in between; kernel/src/ipc/wait_set.rs:27 says "All operations must be called with the scheduler lock held", which no caller does, and line 10 that the caller "is woken when any member becomes ready". SYS_WAIT_SET_ADD leaves the same gap between its look at the source and the back-pointer (`syscall/ipc.rs:1086-1127`). Two notifications at once from two CPUs, and two threads that add or remove at once, are outside the model.
* `TokenOfReady` (`WaitSet`, `Endpoints = EventQueues = {}`), `kernel/src/ipc/signal.rs:158`. Each send to a registered signal pushes its index again, and one read takes all the bits, so later waits return the token of a signal with no bits set; kernel/docs/syscalls.md:971 says the call returns the "token of the ready source (valid on success)".
* `ReplyTargets` (`Endpoint`, `Deferring = TRUE`, `StopStates = {}`), `kernel/src/ipc/endpoint.rs:264`. endpoint_recv stores the new caller in the server's single reply_tcb whatever it held, so a caller received earlier and not yet answered can never be answered; docs/ipc-design.md:36 says "A server that needs to delegate work may save its reply capability and reply after".
* `ReadyIsQueued` (`Endpoint`, `FaultSpec`, one client, `StopStates = {}`), `kernel/src/syscall/ipc.rs:659`. sys_ipc_reply calls endpoint_reply, which makes the caller Ready, then returns with ? when transfer_caps fails, before enqueue_and_wake; kernel/src/sched/thread.rs:71 says of Ready "Runnable; in a CPU run queue." A receive whose transfer fails is in the run (`RecvCapsFail`): the server gets the error and does not know of the caller, which "stays blocked on reply" (`syscall/ipc.rs:488`, with a TODO); when it is stopped it takes the reply target of the server's next caller with it. `CallReturns`, `ReplyTargets` and `ReplyMatches` exempt such callers (`orphans`).
* `StopInterrupts` (`Endpoint`, one client), `kernel/src/syscall/thread.rs:401`. cancel_ipc_block writes Interrupted into the trap frame, but the thread resumes inside sys_ipc_call or sys_ipc_recv, which return Ok(0), and dispatch (kernel/src/syscall/mod.rs:137) overwrites the register; kernel/src/syscall/thread.rs:182 says "(the stopped thread's blocked syscall returns `Interrupted`)".
* `DropWakesEmpty` (`Endpoint`, one client, `StopStates = {}`), `kernel/src/cap/object.rs:716`. dealloc_object does not touch ipc_msg of the threads it wakes, so a queued caller returns success with its own request as the reply; kernel/src/cap/object.rs:705 says they resume "reading a zero-length message (effectively an ObjectGone hint)".
* `ResumedWithCaller` (`Endpoint`, one client), `kernel/src/syscall/ipc.rs:541`. After schedule() returns, sys_ipc_recv dereferences reply_tcb when the message carries capabilities; cancel_ipc_block may have cleared it meanwhile. kernel/src/syscall/ipc.rs:542 says "SAFETY: caller is valid TCB from reply_tcb."
* `QueuedOnce` (`Endpoint`, `FaultSpec`, one client, `StopStates = {"Ready"}`), `kernel/src/syscall/thread.rs:172`. sys_thread_stop leaves a Ready thread linked in its run queue until the scheduler skips it, and sys_thread_start enqueues it again; run_queue_next is one link, and kernel/src/sched/thread.rs:113 says "Intrusive run-queue link — next TCB at the same priority."
* `NoCircularWait` (`Scheduler`, one CPU, one thread, `DeleteWhat = {"Self"}`), `kernel/src/cap/object.rs:475`. dealloc_object spins until the thread is no longer current on the CPU it runs on, also when that CPU is the one that spins, with interrupts off; kernel/src/cap/object.rs:470 says "If the thread is mid-context-switch on another CPU, spin until it finishes."
* `FreedNotOnStack` (`Scheduler`, `DeleteWhat = {"Exited"}`, `StopWhat = {}`), `kernel/src/cap/object.rs:480`. The deletion waits until sched.current differs, but on x86-64 schedule() changes current and releases its lock before switch() has left the old stack and written the old TCB; kernel/src/cap/object.rs:409 says "we must wait for the context switch to complete before freeing".
* `FreedNotQueued` (`Scheduler`, one CPU, `StopWhat = {"Ready"}`, `DeleteWhat = {"Stopped"}`, `Settled = FALSE`), `kernel/src/syscall/thread.rs:481`. sys_thread_set_priority moves only a Ready thread, a Stopped one keeps its place at the old level, and dealloc_object looks only at the level of the new priority; kernel/src/sched/run_queue.rs:303 says "the TCB must be removed from the run queue before its memory is freed."
* `SleepersBlocked` (`Scheduler`, `StopWhat = {"Asleep"}`), `kernel/src/sched/mod.rs:213`. sys_thread_stop does not take a sleeping thread off the sleep list (its ipc_state is None) and sleep_check_wakeups makes it Ready whatever its state; kernel/src/sched/mod.rs:237 says "SAFETY: tcb is valid; was in Blocked state, now Ready."
* `BlockedCanWake` (`Scheduler`, one CPU, `MaxSleeping = 1`), `kernel/src/sched/mod.rs:175`. sleep_list_add drops the thread when the list is full and sys_thread_sleep blocks all the same; kernel/src/syscall/mod.rs:199 says "The timer tick handler wakes it when `current_tick() >= deadline`."
* `OneStack` (`Scheduler`, `StopWhat = {"Running"}`), `kernel/src/syscall/thread.rs:246`. sys_thread_stop only sets the state of a thread running on another CPU, and sys_thread_start enqueues it at once; its context_saved is still set from an earlier switch, so the second CPU does not wait. kernel/docs/syscalls.md:769 says "If the thread is running on another CPU, an inter-processor interrupt is sent to force it out of userspace."
* `QueuesInv` (`Scheduler`, `AllSpec`, `PriorityWhat = {"Self", "Ready"}`), and `QueuedOnce` with `Settled = FALSE` too, `kernel/src/syscall/thread.rs:487`. sys_thread_set_priority calls change_priority on the run queue of any Ready thread without its lock: what the owner does between the read and the write of the links is undone, a thread that runs by then is linked in again, and one that was made Ready and not yet enqueued is linked in by both. `ReadQueue` and `WriteQueue` are the two halves. kernel/src/sched/mod.rs:503 says "No concurrent mutable access may occur without holding the scheduler lock".
* `AffinityKept` (`Scheduler`, `Affinities = {0, 1}`), `kernel/src/sched/mod.rs:215`. sleep_check_wakeups enqueues on preferred_cpu and post_death_notification on the current CPU, whatever cpu_affinity says; kernel/docs/scheduler.md:453 says "Wakeups always enqueue the thread on the specified CPU's run queue."
* `BitmapAndLoad` (`Scheduler`, one CPU, `DeleteWhat = {"Ready"}`, `Settled = FALSE`), `kernel/src/sched/run_queue.rs:307`. remove_from_queue does not decrement CPU_LOAD, which select_target_cpu compares, so the counter of a CPU drifts up with every Ready thread deleted on it; kernel/src/sched/run_queue.rs:33 says "Per-CPU load counters (number of Ready + Running threads)." (Running threads are not counted either: dequeue_highest decrements.)
* `NoMissedWakeup` (`Scheduler`, `AllSpec`, `SieStays = TRUE`), `kernel/src/sched/mod.rs:316`. On riscv64 the idle loop runs with interrupts on; a wakeup interrupt taken after the look at the queue and at `reschedule_pending` and before `wfi` is consumed, and the hart halts with work in its queue. kernel/src/sched/mod.rs:291 says "The reschedule_pending flag catches IPIs consumed between the check and wfi"; `arch/riscv64/cpu.rs:21` grants the window and relies on the next timer tick (10 ms) to end it. The consumer of the flag in `trap_dispatch` that `sched/mod.rs:110-123` describes does not exist.
* `FreeListExact` (`Capabilities`, `CSpaceDeaths = "any"`, `Quota`), `kernel/src/cap/object.rs:654`. Destroying a CSpace leaves its slots linked into the derivation lists of other CSpaces. Deleting, deriving and moving in the survivor then make a capability its own parent, and the next delete stores a parent pointer in a free slot, whose deriv_parent is the free-list link: the list loops. kernel/src/cap/object.rs:656 says the references "become stale, which is harmless unless cap_revoke traverses them."
* `RevokeComplete` (`Capabilities`, `CSpaceDeaths = "any"`, `Quota`), `kernel/src/cap/derivation.rs:372`. revoke_subtree walks a sibling list through resolve_slot_mut, which ends at a slot of a destroyed CSpace; older children behind it stay. docs/capability-model.md:209 says revocation "Recursively invalidates all capabilities derived from it, in all processes".
* `RevokeTakesTarget` (`Capabilities`), `kernel/src/syscall/cap.rs:852`. sys_cap_revoke clears the descendants and keeps the target slot; kernel/docs/capability-internals.md:277 says it works on the target slot, "invalidating all descendants before the target itself" (and line 330, "This destroys C1 and C2").
* `TransferAllOrNothing` (`Capabilities`, `DistinctCaps = FALSE`), `kernel/src/syscall/ipc.rs:246`. transfer_caps validates each slot by itself before the moves; for a slot that is named twice the second move finds it empty after the first was done, and index 0 is delivered. kernel/src/syscall/ipc.rs:165 says "All-or-nothing: if any slot is null/invalid or the destination is full ... no caps are transferred".
* `RefCountExact` (`Capabilities`, `RoomToCreate = FALSE`), `kernel/src/syscall/cap.rs:83`. The create calls allocate the object first and return OutOfMemory when insert_cap fails, without freeing it; docs/capability-model.md:239 says "Objects do not outlive all references to them."
* `LinksLive` (`Capabilities`, `Cpus = {1, 2}`, `OneThread = TRUE`), `kernel/src/syscall/cap.rs:522`. sys_cap_copy inserts the new capability, and looks at the source, before it takes DERIVATION_LOCK, and link_child does not look at the slots again; the destination's thread or a revocation may have emptied either slot. kernel/src/cap/derivation.rs:152 says "`parent` and `child` must be valid, live capability slots (not Null)."
* `FreeListExact` (`Capabilities`, `Cpus = {1, 2}`), `kernel/src/syscall/cap.rs:764`. sys_cap_delete reads the slot before DERIVATION_LOCK, frees it after, and never takes the CSpace lock; kernel/src/cap/cspace.rs:85 says "All operations are protected by an internal spinlock to allow safe concurrent access from multiple CPUs".
* `NoCircularWait` (`Scheduler`, `NumCpus = 3`, one level, `DeleteWhat = StopWhat = {}`), `kernel/src/sched/mod.rs:962`. schedule() waits for context_saved of the next thread while it holds its scheduler lock and before it has saved its own current thread; two CPUs that picked each other's outgoing thread (both woken by a third CPU before they called schedule) wait for ever. kernel/docs/scheduler.md:440 says "Spinlock-hold intervals are bounded by policy."
* `NoStaleTranslation` (`TlbShootdown`, `HandlerChecks = FALSE`, one space, two pages, `MaxChanges = 4`), `kernel/src/arch/x86_64/idt.rs:672`. The x86_64 handler clears its bit of pending_cpus without looking whether it is set for the request it read. shootdown sends interrupts repeatedly, so one may be left over when a request completes; taken while the next initiator stores its request, the handler flushes the old page and clears the bit of the new request, and the initiator returns before the new page is flushed. kernel/docs/syscalls.md:1360 says "After `SYS_MEM_MAP` or `SYS_MEM_UNMAP` returns, all CPUs see the updated mapping (TLB shootdowns complete before return)."
* `hung` of `Buddy` (`Memory`, `POOL_SIZE = 3`), `kernel/src/mm/buddy.rs:284`. push_block on an exhausted node pool prints a line and spins for ever with FRAME_ALLOC_LOCK held (only the host-test build returns); its doc comment, kernel/src/mm/buddy.rs:268, says it "Silently drops the block if the pool is exhausted".

The following were met while modelling. The model does what the code does; no property is
stated, or it is stated for the rest.

Memory and boot:

* `AddressSpace::new_user` stops the kernel when there is no frame for the root table (`mm/address_space.rs:157`);
  `kernel/docs/syscalls.md:459` lists `OutOfMemory`. Unmapping a page that is not mapped succeeds, where the document has InvalidArgument.
* Deleting an address space frees its root table only. A split without a free slot, and an address space created without one, leave their objects behind.
* init's segment frames are recorded with their byte size, not rounded to pages (`kernel/src/main.rs:349`).
* The retry of ExitBootServices passes the size the first GetMemoryMap returned as the size of the buffer (`boot/src/uefi.rs:811`), so a map that has grown
  by an entry ends the boot although the buffer has room.
* If a CPU refuses to start, the loop goes on (`kernel/src/main.rs:707`), but the next CPU is waited for until the number of CPUs up reaches its own
  index, which it never does. A MADT entry that is only "online-capable" is counted as a CPU. `SchedulerEntered` assumes that every listed CPU answers.
* InitInfo has four pages below init's stack (`abi/init-protocol/src/lib.rs:42-59`): the first two fill the space up to the page the comment calls a
  guard page, the others are mapped over by the stack, from some 338 capability descriptors on. `InitInfoRight` is stated for what lies below the stack.
* A framebuffer inside the guessed PCI window is dropped as an overlap; the memory map is cut at 682 entries.

Block driver and interrupts:

* The IOAPIC entries are edge-triggered (`kernel/src/arch/x86_64/ioapic.rs:155-187`), while `drivers/virtio/blk/src/io.rs:124-128` describes a level-triggered line.
  An edge that arrives while the entry is masked is lost; a completion slower than all attempts of the driver is then not seen, and the wait
  that ran out is answered with the status byte (`io.rs:204`, `main.rs:488`), which by then may say SUCCESS, and no data. `block` has the two kinds of PLIC (below).
* On riscv64 an interrupt that "is occasionally not observed by any hart" (`io.rs:159`) and arrives after the poll burst leaves the driver asleep in
  signal_wait, which has no time-out: the burst covers a loss only while it lasts. `CompletionWakes` excepts it (`irq.lost`) until the next read of the ISR.
* dispatch_device_irq masks the source before it completes it (`kernel/src/irq.rs:171,179`), which on the PLIC disables it; by the PLIC's specification the completion of a source that
  is not enabled for the context is ignored, and the comment there says that without the completion "the PLIC keeps the interrupt 'in-service' indefinitely". With such a
  controller (`"strict"`) no second interrupt of the source arrives and every request has to complete within a burst; `CompletionWakes` excepts it too (`~irq.open`).

Services:

* FS_READ of a whole sector puts 512 bytes after a word of length; the kernel passes on 64 words (`kernel/src/syscall/ipc.rs:594`), so the last 8 bytes are lost.
  `fs/docs/fs-driver-protocol.md:118` allows 512. procmgr asks for 504; init asks for a whole buffer and its files are shorter.
* The end marker of a FAT directory ends the scan of its sector only (`fs/fat/src/dir.rs:396`). Opening the root of a mount fails with NOT_FOUND. A name that does not
  fit is compared by its first 8.3 characters.
* devmgr reports the block driver as started when `spawn_driver` has given up (`devmgr/src/main.rs:257-263`), and vfsd's first read then waits for ever;
  a vfsd that could not start its worker idles without serving, and callers wait for ever too.
* procmgr does not close the file, nor give the frames back, on every error path of a load; a read that fails in a segment ends the copy and the process is
  started with the rest zero (`procmgr/src/process.rs:503`); a full process table is not reported. `ReadRight` allows the missing words after a disk failure.
* svcmgr starts and serves a restarted service before it binds the death notification (`svcmgr/src/restart.rs:124,171,187`). A death in between is not noticed, and a child that dies before it asks
  blocks svcmgr. `DeathNoticed` holds because crasher calls svcmgr before it dies.
* svcmgr receives one message for each token of its wait set (`svcmgr/src/main.rs:323-347`), and the endpoint announces a message only where none was queued
  (`kernel/src/ipc/endpoint.rs:206,226`). If a second caller queues before svcmgr has received from the first, its message and all later ones are left
  unanswered, the hand-over of init included; a caller that comes between the look and the back-pointer of wait_set_add, at the start of svcmgr, has the same effect, and a
  death that is posted in that window of its queue is not noticed. `BootCompletes` admits exactly these endings: the callers queued at svcmgr, svcmgr not told of them,
  and everybody else as far as that lets them.
* A MOUNT handled by vfsd while procmgr loads a file from it would make each wait for the other; init does one after the other, and so does every script.
* If a capability for the log cannot be derived, init's registration of a service passes the later capabilities one place too early (`init/src/service.rs:825-840`).
* Mount paths are matched as byte prefixes (`vfsd/src/mount.rs:48`): `/espresso` is looked up in `/esp`.

## 8. Not modelled

* Console, framebuffer and serial output, record layouts and system-call stubs have no behaviour to check. `ktest` is a
  test program, `xtask` a host tool that runs cargo and QEMU. `logd`, `netd`, `libc` and `ruststd` have no code yet.
* Byte formats: configuration text, ELF, ACPI, device tree, GPT and FAT are records of the fields the code reads. Checksums, endianness and
  the assembly of names from UTF-16 pieces are in the tests of the repository.
* Inside the process heap: block splitting and joining of `shared/runtime/src/heap.rs` (its growth through procmgr is modelled).
  The pieces of a log line and the one buffer of the log thread.
* The programming of interrupt controllers, timers and descriptor tables, context-switch assembly; they appear as the
  steps that scheduler, shootdown and the block driver see. Deletion of a signal while an interrupt is dispatched to it.
* Deletion of threads that are reply targets: `Endpoint` has threads stopped and `Scheduler` threads deleted; the composition is
  beyond TLC at bounds where both happen. `FaultSpec` of `Endpoint` (a stopped runnable thread, a reply whose transfer fails) and `AllSpec` of `Scheduler` (a Ready
  thread's priority, the riscv64 idle loop) are for the disagreements of section 7.
* `sys_ioport_bind`, `sys_dma_grant`, `sys_aspace_query` and the information calls.
* Memory ordering is modelled as program order where the code uses Acquire/Release or a sequentially consistent fence, and by separate
  steps otherwise; weaker orders are not.
