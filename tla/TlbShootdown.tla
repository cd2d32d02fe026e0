---------------------------- MODULE TlbShootdown ----------------------------
(***************************************************************************)
(* Page-table changes on several CPUs: AddressSpace::map_page, unmap_page  *)
(* and protect_page (kernel/src/mm/address_space.rs), the shootdown that   *)
(* makes the other CPUs drop the old translation                           *)
(* (kernel/src/mm/tlb_shootdown.rs), its interrupt handler on both         *)
(* architectures, and the address-space part of schedule().                *)
(*                                                                         *)
(* A translation (frame and permissions) is one opaque value.  Every       *)
(* atomic operation of the code is a step of its own; the loads and stores *)
(* of the request are Acquire/Release, so they are taken in program order. *)
(* A system call over several pages is a sequence of single-page changes.  *)
(***************************************************************************)
EXTENDS Naturals, FiniteSets

CONSTANTS
    Cpus,           \* the online CPUs
    Spaces,         \* the user address spaces
    Pages,          \* user virtual pages
    Translations,   \* what a leaf entry may hold
    None,           \* no translation, no owner, no address space (idle)
    HandlerChecks,  \* TRUE: riscv64 handler (looks at pending_cpus first);
                    \* FALSE: x86_64 handler (acknowledges every interrupt)
    MaxChanges,     \* bound: page-table changes in a behaviour
    MaxSwitches,    \* bound: address-space switches in a behaviour
    MaxWakeups      \* bound: wakeup interrupts that share the riscv64 line

ASSUME ShootdownAssumption ==
    /\ None \notin Cpus \cup Spaces \cup Pages \cup Translations
    /\ HandlerChecks \in BOOLEAN
    /\ {MaxChanges, MaxSwitches, MaxWakeups} \subseteq Nat

VARIABLES
    pte,            \* leaf entries, per space and page
    tlb,            \* cached translations, per CPU and page
    active_cpus,    \* per space: CPUs that run in it
    pt_lock,        \* per space: the CPU that holds its lock, or None
    shootdown_lock, \* the CPU that holds SHOOTDOWN_LOCK, or None
    flush_va,       \* TLB_SHOOTDOWN.flush_va; None is u64::MAX, flush all
    pending_cpus,   \* TLB_SHOOTDOWN.pending_cpus
    ipi,            \* CPUs with an undelivered shootdown interrupt
    at,             \* where each CPU is in its current activity
    space,          \* the space whose root the CPU has loaded
    job,            \* the change, or the switch, a CPU is working on
    handler,        \* where each CPU is in the interrupt handler
    left            \* what remains of the bounds

vars == <<pte, tlb, active_cpus, pt_lock, shootdown_lock, flush_va,
          pending_cpus, ipi, at, space, job, handler, left>>
memory == <<pte, tlb, active_cpus, pt_lock>>
request == <<shootdown_lock, flush_va, pending_cpus, ipi>>

Kinds == {"map", "unmap", "protect"}
NoJob == [kind |-> "none", space |-> None, page |-> None, to |-> None, mask |-> {}]

Places == {"user", "idle", "pt_lock", "pt_spin", "write", "mask", "sd_lock",
           "store_va", "store_pending", "send", "wait", "flush",
           "leave", "enter", "activate"}

(* The spin loops that forget to take interrupts (used as a mutant). *)
InterruptibleUncontended == {"user", "idle", "sd_lock", "store_va", "store_pending", "send", "wait"}

(* Where a CPU runs with interrupts enabled: outside the kernel, in the    *)
(* contended loop of pt_lock and from the start to the end of shootdown.   *)
Interruptible == {"user", "idle", "pt_spin", "sd_lock", "store_va",
                  "store_pending", "send", "wait"}

Init ==
    /\ pte = [s \in Spaces |-> [v \in Pages |-> None]]
    /\ tlb = [c \in Cpus |-> [v \in Pages |-> None]]
    /\ active_cpus = [s \in Spaces |-> {}]
    /\ pt_lock = [s \in Spaces |-> None]
    /\ shootdown_lock = None
    /\ flush_va = None
    /\ pending_cpus = {}
    /\ ipi = {}
    /\ at = [c \in Cpus |-> "idle"]
    /\ space = [c \in Cpus |-> None]
    /\ job = [c \in Cpus |-> NoJob]
    /\ handler = [c \in Cpus |-> "none"]
    /\ left = [changes |-> MaxChanges, switches |-> MaxSwitches, wakeups |-> MaxWakeups]

(* CPU c, not in an interrupt handler, goes on from place p to place q. *)
Step(c, p, q) ==
    /\ at[c] = p
    /\ handler[c] = "none"
    /\ at' = [at EXCEPT ![c] = q]

-----------------------------------------------------------------------------
(* User code and the page walker.                                          *)

(* A user access that misses: the walker caches what the leaf entry says. *)
Access(c, v) ==
    /\ Step(c, "user", "user")
    /\ tlb[c][v] = None
    /\ pte[space[c]][v] # None
    /\ tlb' = [tlb EXCEPT ![c][v] = pte[space[c]][v]]
    /\ UNCHANGED <<pte, active_cpus, pt_lock, request, space, job, handler, left>>

-----------------------------------------------------------------------------
(* map_page, unmap_page, protect_page.                                     *)

(* A system call asks for one change; interrupts are off in a system call. *)
Begin(c, k, s, v, t) ==
    /\ left.changes > 0
    /\ Step(c, "user", "pt_lock")
    /\ (k = "unmap") <=> (t = None)
    /\ job' = [job EXCEPT ![c] = [kind |-> k, space |-> s, page |-> v, to |-> t, mask |-> {}]]
    /\ left' = [left EXCEPT !.changes = @ - 1]
    /\ UNCHANGED <<memory, request, space, handler>>

(* AddressSpace::pt_lock: the first compare_exchange, or one of the loop. *)
PtLock(c) ==
    /\ \E p \in {"pt_lock", "pt_spin"} : Step(c, p, "write")
    /\ pt_lock[job[c].space] = None
    /\ pt_lock' = [pt_lock EXCEPT ![job[c].space] = c]
    /\ UNCHANGED <<pte, tlb, active_cpus, request, space, job, handler, left>>

(* The first compare_exchange fails: spin with interrupts enabled. *)
PtContend(c) ==
    /\ Step(c, "pt_lock", "pt_spin")
    /\ pt_lock[job[c].space] # None
    /\ UNCHANGED <<memory, request, space, job, handler, left>>

Unlocked(c) == [pt_lock EXCEPT ![job[c].space] = None]

(* map_user_page, unmap_user_page or protect_user_page succeeds.  The last *)
(* two flush the page on this CPU themselves.                              *)
Write(c) ==
    LET s == job[c].space
        v == job[c].page
    IN /\ job[c].kind = "protect" => pte[s][v] # None
       /\ Step(c, "write", "mask")
       /\ pte' = [pte EXCEPT ![s][v] = job[c].to]
       /\ tlb' = IF job[c].kind = "map" THEN tlb ELSE [tlb EXCEPT ![c][v] = None]
       /\ UNCHANGED <<active_cpus, pt_lock, request, space, job, handler, left>>

(* No frame for an intermediate table, or nothing mapped to protect: the   *)
(* call unlocks and returns an error.                                      *)
WriteFails(c) ==
    /\ \/ job[c].kind = "map"
       \/ job[c].kind = "protect" /\ pte[job[c].space][job[c].page] = None
    /\ Step(c, "write", "user")
    /\ pt_lock' = Unlocked(c)
    /\ job' = [job EXCEPT ![c] = NoJob]
    /\ UNCHANGED <<pte, tlb, active_cpus, request, space, handler, left>>

(* active_cpu_mask without this CPU; shootdown returns at once on an empty *)
(* mask and enables interrupts otherwise.                                  *)
ReadMask(c) ==
    LET remote == active_cpus[job[c].space] \ {c}
    IN /\ Step(c, "mask", IF remote = {} THEN "flush" ELSE "sd_lock")
       /\ job' = [job EXCEPT ![c].mask = remote]
       /\ UNCHANGED <<memory, request, space, handler, left>>

(* The local flush, pt_unlock, and back to user code. *)
Flush(c) ==
    /\ Step(c, "flush", "user")
    /\ tlb' = [tlb EXCEPT ![c][job[c].page] = None]
    /\ pt_lock' = Unlocked(c)
    /\ job' = [job EXCEPT ![c] = NoJob]
    /\ UNCHANGED <<pte, active_cpus, request, space, handler, left>>

-----------------------------------------------------------------------------
(* tlb_shootdown::shootdown.                                               *)

ShootdownLock(c) ==
    /\ shootdown_lock = None
    /\ Step(c, "sd_lock", "store_va")
    /\ shootdown_lock' = c
    /\ UNCHANGED <<memory, flush_va, pending_cpus, ipi, space, job, handler, left>>

StoreVa(c) ==
    /\ Step(c, "store_va", "store_pending")
    /\ flush_va' = job[c].page
    /\ UNCHANGED <<memory, shootdown_lock, pending_cpus, ipi, space, job, handler, left>>

StorePending(c) ==
    /\ Step(c, "store_pending", "send")
    /\ pending_cpus' = job[c].mask
    /\ UNCHANGED <<memory, shootdown_lock, flush_va, ipi, space, job, handler, left>>

(* One volley of interrupts, to the CPUs of the mask read before it. *)
Send(c) ==
    /\ Step(c, "send", "wait")
    /\ ipi' = ipi \cup job[c].mask
    /\ UNCHANGED <<memory, shootdown_lock, flush_va, pending_cpus, space, job, handler, left>>

(* Somebody has not answered yet: read the mask again for another volley. *)
Resend(c) ==
    /\ pending_cpus # {}
    /\ Step(c, "wait", "send")
    /\ job' = [job EXCEPT ![c].mask = pending_cpus]
    /\ UNCHANGED <<memory, request, space, handler, left>>

(* Everybody answered: unlock, interrupts off again. *)
Done(c) ==
    /\ pending_cpus = {}
    /\ Step(c, "wait", "flush")
    /\ shootdown_lock' = None
    /\ UNCHANGED <<memory, flush_va, pending_cpus, ipi, space, job, handler, left>>

-----------------------------------------------------------------------------
(* The interrupt: ipi_tlb_shootdown_handler (x86_64) and                   *)
(* handle_software_interrupt (riscv64).                                    *)

HandlerGoes(c, p, q) ==
    /\ handler[c] = p
    /\ handler' = [handler EXCEPT ![c] = q]
    /\ UNCHANGED <<pte, active_cpus, pt_lock, shootdown_lock, flush_va, at, space, job, left>>

(* The interrupt is taken where interrupts are enabled; the pending bit of *)
(* the controller is cleared on entry, so one more can be latched.         *)
Interrupt(c) ==
    /\ c \in ipi
    /\ at[c] \in Interruptible
    /\ HandlerGoes(c, "none", IF HandlerChecks THEN "check" ELSE "flush")
    /\ ipi' = ipi \ {c}
    /\ UNCHANGED <<tlb, pending_cpus>>

(* riscv64 only: is this hart asked to flush, or only woken up? *)
HandlerCheck(c) ==
    /\ HandlerGoes(c, "check", IF c \in pending_cpus THEN "flush" ELSE "none")
    /\ UNCHANGED <<tlb, pending_cpus, ipi>>

(* Load flush_va and drop that page, or every page. *)
HandlerFlush(c) ==
    /\ HandlerGoes(c, "flush", "ack")
    /\ tlb' = [tlb EXCEPT ![c] =
                 [v \in Pages |-> IF flush_va \in {v, None} THEN None ELSE tlb[c][v]]]
    /\ UNCHANGED <<pending_cpus, ipi>>

HandlerAck(c) ==
    /\ HandlerGoes(c, "ack", "none")
    /\ pending_cpus' = pending_cpus \ {c}
    /\ UNCHANGED <<tlb, ipi>>

(* riscv64 only: wake_idle_cpu sends the same interrupt, to a hart that    *)
(* was idle when it looked.                                                *)
Wakeup(c) ==
    /\ HandlerChecks
    /\ left.wakeups > 0
    /\ c \notin ipi
    /\ ipi' = ipi \cup {c}
    /\ left' = [left EXCEPT !.wakeups = @ - 1]
    /\ UNCHANGED <<memory, shootdown_lock, flush_va, pending_cpus, at, space, job, handler>>

-----------------------------------------------------------------------------
(* schedule(): the address-space part, with interrupts disabled.           *)

(* The next thread runs in s (None: the idle thread).  Nothing happens for *)
(* a thread of the same space; otherwise the old space is marked inactive. *)
Leave(c, s) ==
    /\ left.switches > 0
    /\ s # space[c]
    /\ \E p \in {"user", "idle"} : Step(c, p, IF s = None THEN "leave" ELSE "enter")
    /\ active_cpus' = [r \in Spaces |-> active_cpus[r] \ IF r = space[c] THEN {c} ELSE {}]
    /\ job' = [job EXCEPT ![c].space = s]
    /\ left' = [left EXCEPT !.switches = @ - 1]
    /\ UNCHANGED <<pte, tlb, pt_lock, request, space, handler>>

(* write_satp_no_fence: riscv64 keeps the cached translations, a CR3 write *)
(* drops them.                                                             *)
LoadKernelRoot(c) ==
    /\ Step(c, "leave", "idle")
    /\ tlb' = IF HandlerChecks THEN tlb ELSE [tlb EXCEPT ![c] = [v \in Pages |-> None]]
    /\ space' = [space EXCEPT ![c] = None]
    /\ job' = [job EXCEPT ![c] = NoJob]
    /\ UNCHANGED <<pte, active_cpus, pt_lock, request, handler, left>>

MarkActive(c) ==
    /\ Step(c, "enter", "activate")
    /\ active_cpus' = [active_cpus EXCEPT ![job[c].space] = @ \cup {c}]
    /\ UNCHANGED <<pte, tlb, pt_lock, request, space, job, handler, left>>

(* Keeps what the CPU cached before it went idle (used as a mutant). *)
ActivateKeeps(c) ==
    /\ Step(c, "activate", "user")
    /\ UNCHANGED tlb
    /\ space' = [space EXCEPT ![c] = job[c].space]
    /\ job' = [job EXCEPT ![c] = NoJob]
    /\ UNCHANGED <<pte, active_cpus, pt_lock, request, handler, left>>

(* AddressSpace::activate loads the root and flushes the whole TLB. *)
Activate(c) ==
    /\ Step(c, "activate", "user")
    /\ tlb' = [tlb EXCEPT ![c] = [v \in Pages |-> None]]
    /\ space' = [space EXCEPT ![c] = job[c].space]
    /\ job' = [job EXCEPT ![c] = NoJob]
    /\ UNCHANGED <<pte, active_cpus, pt_lock, request, handler, left>>

-----------------------------------------------------------------------------
(* What a CPU does on its own once it is in the kernel. *)
KernelStep(c) ==
    \/ PtLock(c) \/ PtContend(c) \/ Write(c) \/ WriteFails(c) \/ ReadMask(c) \/ Flush(c)
    \/ ShootdownLock(c) \/ StoreVa(c) \/ StorePending(c) \/ Send(c) \/ Resend(c) \/ Done(c)
    \/ LoadKernelRoot(c) \/ MarkActive(c) \/ Activate(c)

HandlerStep(c) == HandlerCheck(c) \/ HandlerFlush(c) \/ HandlerAck(c)

Next == \E c \in Cpus :
    \/ KernelStep(c)
    \/ Interrupt(c)
    \/ HandlerStep(c)
    \/ Wakeup(c)
    \/ \E v \in Pages : Access(c, v)
    \/ \E s \in Spaces \cup {None} : Leave(c, s)
    \/ \E k \in Kinds, s \in Spaces, v \in Pages, t \in Translations \cup {None} :
           Begin(c, k, s, v, t)

Spec == Init /\ [][Next]_vars

(* A CPU in the kernel or in the handler goes on, and an interrupt that    *)
(* stays pending is taken in one of the spells with interrupts enabled.    *)
LiveSpec ==
    /\ Spec
    /\ \A c \in Cpus : WF_vars(KernelStep(c)) /\ WF_vars(HandlerStep(c)) /\ SF_vars(Interrupt(c))

-----------------------------------------------------------------------------
Jobs == [kind : Kinds \cup {"none"}, space : Spaces \cup {None}, page : Pages \cup {None},
         to : Translations \cup {None}, mask : SUBSET Cpus]
Bounds == [changes : 0..MaxChanges, switches : 0..MaxSwitches, wakeups : 0..MaxWakeups]

TypeOK ==
    /\ pte \in [Spaces -> [Pages -> Translations \cup {None}]]
    /\ tlb \in [Cpus -> [Pages -> Translations \cup {None}]]
    /\ active_cpus \in [Spaces -> SUBSET Cpus]
    /\ pt_lock \in [Spaces -> Cpus \cup {None}]
    /\ shootdown_lock \in Cpus \cup {None}
    /\ flush_va \in Pages \cup {None}
    /\ pending_cpus \in SUBSET Cpus
    /\ ipi \in SUBSET Cpus
    /\ at \in [Cpus -> Places]
    /\ space \in [Cpus -> Spaces \cup {None}]
    /\ job \in [Cpus -> Jobs]
    /\ handler \in [Cpus -> {"none", "check", "flush", "ack"}]
    /\ left \in Bounds

(* Where a CPU is between its write to the table and its local flush.      *)
ChangingPlaces == {"mask", "sd_lock", "store_va", "store_pending", "send", "wait", "flush"}

(* CPU d has changed page v of space s and has not returned from the call. *)
Changing(d, s, v) ==
    /\ at[d] \in ChangingPlaces
    /\ job[d].space = s
    /\ job[d].page = v

(* No user code runs on a translation that differs from the page table,    *)
(* except while the call that changed the entry is still under way: when   *)
(* map_page, unmap_page or protect_page returns, every CPU sees the new    *)
(* mapping, whatever it was doing (running, switching, idle, changing      *)
(* pages itself).                                                          *)
NoStaleTranslation ==
    \A c \in Cpus : at[c] = "user" =>
        \A v \in Pages : tlb[c][v] \notin {None, pte[space[c]][v]} =>
            \E d \in Cpus : Changing(d, space[c], v)

(* Where a CPU changes a page, and where it runs in a user space. *)
Working == {"pt_lock", "pt_spin", "write", "mask", "sd_lock", "store_va", "store_pending",
            "send", "wait", "flush"}
InSpace == {"user"} \cup Working

(* A CPU is marked active in a space from before it loads its root until   *)
(* after it has left user mode for another one.                            *)
ActiveAt(c) ==
    /\ at[c] \in Working => job[c].space \in Spaces /\ job[c].page \in Pages
    /\ at[c] \in {"enter", "activate"} => job[c].space \in Spaces
    /\ at[c] = "activate" => c \in active_cpus[job[c].space]
    /\ at[c] \in InSpace => space[c] \in Spaces /\ c \in active_cpus[space[c]]

ActiveInv == \A c \in Cpus : ActiveAt(c)

(* The request record belongs to the holder of SHOOTDOWN_LOCK; a handler   *)
(* past its check has its bit set, and answers after it has flushed.       *)
RequestInv ==
    /\ \A c \in Cpus : at[c] \in {"store_va", "store_pending", "send", "wait"} <=> shootdown_lock = c
    /\ \A c \in Cpus : at[c] \in {"store_pending", "send", "wait"} => flush_va = job[c].page
    /\ pending_cpus # {} => \E c \in Cpus : at[c] \in {"send", "wait"}
    /\ \A c \in Cpus : handler[c] \in {"flush", "ack"} => c \in pending_cpus
    /\ \A c \in Cpus : handler[c] = "ack" => tlb[c][flush_va] = None

(* The call of d will not return before c has dropped page v of its space. *)
Covers(d, c, v) ==
    /\ Changing(d, space[c], v)
    /\ \/ c = d
       \/ at[d] = "mask"
       \/ at[d] \in {"sd_lock", "store_va", "store_pending"} /\ c \in job[d].mask
       \/ at[d] \in {"send", "wait"} /\ c \in pending_cpus

Coherent(c, v) == tlb[c][v] \in {None, pte[space[c]][v]} \/ \E d \in Cpus : Covers(d, c, v)

(* With the riscv64 handler every stale translation of a CPU in a space is *)
(* known to a call that is still under way: the inductive form of          *)
(* NoStaleTranslation, through the mask, the request and the answers.      *)
ShootdownInv ==
    /\ TypeOK
    /\ ActiveInv
    /\ RequestInv
    /\ \A c \in Cpus, v \in Pages : at[c] \in InSpace => Coherent(c, v)

(* Every CPU that leaves pending_cpus is in its own answer.                *)
Answered ==
    \A c \in pending_cpus \ pending_cpus' : handler[c] = "ack" /\ tlb[c][flush_va] = None

(* A CPU leaves pending_cpus only by its own answer, and only when its TLB *)
(* no longer holds the page of the request: no initiator overwrites        *)
(* another one's request and no answer belongs to an earlier request.      *)
AckMeansFlushed == [][Answered]_vars

(* Every system call that changes a page returns, also when two CPUs shoot *)
(* each other down, or wait for the lock of a CPU that waits for them.     *)
ChangeCompletes ==
    \A c \in Cpus : at[c] \in {"pt_lock", "sd_lock", "wait"} ~> at[c] = "user"

=============================================================================
