------------------------------ MODULE Spinlock ------------------------------
(***************************************************************************)
(* The ticket spinlock of kernel/src/sync.rs.  Each CPU runs a thread that *)
(* takes the lock and can be interrupted, whenever its interrupts are      *)
(* enabled, by a handler that takes the same lock (the scheduler lock is   *)
(* taken by the timer tick, a signal's lock by a device interrupt).  The   *)
(* handler runs to completion before the thread continues.                 *)
(***************************************************************************)
EXTENDS Naturals, FiniteSets, Sequences

CONSTANTS
  CPUs,
  TicketMod    \* number of values of a ticket counter: 2^32 in the code

\* The counters may wrap, but not onto a ticket that is still out.
ASSUME TicketAssumption ==
  /\ IsFiniteSet(CPUs)
  /\ TicketMod \in Nat
  /\ TicketMod > Cardinality(CPUs)

VARIABLES
  next_ticket, now_serving,   \* Spinlock
  irq_enabled,                \* the interrupt flag of each CPU
  mode,                       \* "user" or "kernel", outside of interrupts
  pc, ticket, saved           \* locals of lock_raw / unlock_raw per context

vars == <<next_ticket, now_serving, irq_enabled, mode, pc, ticket, saved>>

Contexts == CPUs \X {"thread", "isr"}

InIsr(cpu) == pc[<<cpu, "isr">>] # "idle"

\* A context that can execute: the handler, or the thread it does not interrupt.
Active(c) == c[2] = "thread" => ~InIsr(c[1])

Init ==
  /\ next_ticket = 0
  /\ now_serving = 0
  /\ irq_enabled = [c \in CPUs |-> TRUE]
  /\ mode = [c \in CPUs |-> "user"]
  /\ pc = [c \in Contexts |-> "idle"]
  /\ ticket = [c \in Contexts |-> 0]
  /\ saved = [c \in Contexts |-> FALSE]

-----------------------------------------------------------------------------
(* Mutations.                                                              *)

\* The spin loop waits for a free lock instead of its own ticket.
Barge(c) ==
  /\ Active(c)
  /\ pc[c] = "spin"
  /\ \A d \in Contexts : pc[d] # "critical"
  /\ pc' = [pc EXCEPT ![c] = "critical"]
  /\ UNCHANGED <<next_ticket, now_serving, irq_enabled, mode, ticket, saved>>

\* The counter is left alone on release.
ForgetServing(c) ==
  /\ pc[c] = "critical"
  /\ pc' = [pc EXCEPT ![c] = "released"]
  /\ UNCHANGED <<next_ticket, now_serving, irq_enabled, mode, ticket, saved>>

-----------------------------------------------------------------------------
\* A thread enters the kernel (interrupts off) or goes back to user mode.
SwitchMode(cpu) ==
  /\ ~InIsr(cpu)
  /\ pc[<<cpu, "thread">>] = "idle"
  /\ \/ mode[cpu] = "user" /\ mode' = [mode EXCEPT ![cpu] = "kernel"]
     \/ mode[cpu] = "kernel" /\ mode' = [mode EXCEPT ![cpu] = "user"]
  /\ irq_enabled' = [irq_enabled EXCEPT ![cpu] = mode'[cpu] = "user"]
  /\ UNCHANGED <<next_ticket, now_serving, pc, ticket, saved>>

\* The interrupt is taken: the CPU clears its flag and starts the handler.
Interrupt(cpu) ==
  /\ irq_enabled[cpu]
  /\ ~InIsr(cpu)
  /\ irq_enabled' = [irq_enabled EXCEPT ![cpu] = FALSE]
  /\ pc' = [pc EXCEPT ![<<cpu, "isr">>] = "want"]
  /\ UNCHANGED <<next_ticket, now_serving, mode, ticket, saved>>

\* The handler returns: the flag goes back to what it was when it was taken.
InterruptReturn(cpu) ==
  /\ pc[<<cpu, "isr">>] = "iret"
  /\ irq_enabled' = [irq_enabled EXCEPT ![cpu] = TRUE]
  /\ pc' = [pc EXCEPT ![<<cpu, "isr">>] = "idle"]
  /\ UNCHANGED <<next_ticket, now_serving, mode, ticket, saved>>

\* The thread calls lock_raw.
Call(cpu) ==
  /\ Active(<<cpu, "thread">>)
  /\ pc[<<cpu, "thread">>] = "idle"
  /\ pc' = [pc EXCEPT ![<<cpu, "thread">>] = "want"]
  /\ UNCHANGED <<next_ticket, now_serving, irq_enabled, mode, ticket, saved>>

\* save_and_disable_interrupts.
Disable(c) ==
  /\ Active(c)
  /\ pc[c] = "want"
  /\ saved' = [saved EXCEPT ![c] = irq_enabled[c[1]]]
  /\ irq_enabled' = [irq_enabled EXCEPT ![c[1]] = FALSE]
  /\ pc' = [pc EXCEPT ![c] = "disabled"]
  /\ UNCHANGED <<next_ticket, now_serving, mode, ticket>>

\* next_ticket.fetch_add(1).
Take(c) ==
  /\ Active(c)
  /\ pc[c] = "disabled"
  /\ ticket' = [ticket EXCEPT ![c] = next_ticket]
  /\ next_ticket' = (next_ticket + 1) % TicketMod
  /\ pc' = [pc EXCEPT ![c] = "spin"]
  /\ UNCHANGED <<now_serving, irq_enabled, mode, saved>>

\* The spin loop ends when now_serving is this context's ticket.
Acquire(c) ==
  /\ Active(c)
  /\ pc[c] = "spin"
  /\ now_serving = ticket[c]
  /\ pc' = [pc EXCEPT ![c] = "critical"]
  /\ UNCHANGED <<next_ticket, now_serving, irq_enabled, mode, ticket, saved>>

\* now_serving.fetch_add(1): release_lock_only, and the first half of
\* unlock_raw.  The ticket, a local of lock_raw, is gone.
Release(c) ==
  /\ Active(c)
  /\ pc[c] = "critical"
  /\ now_serving' = (now_serving + 1) % TicketMod
  /\ ticket' = [ticket EXCEPT ![c] = 0]
  /\ pc' = [pc EXCEPT ![c] = "released"]
  /\ UNCHANGED <<next_ticket, irq_enabled, mode, saved>>

\* restore_interrupts: the second half of unlock_raw, or the call of
\* restore_interrupts_from that follows a release_lock_only later.
Restore(c) ==
  /\ Active(c)
  /\ pc[c] = "released"
  /\ irq_enabled' = [irq_enabled EXCEPT ![c[1]] = saved[c]]
  /\ saved' = [saved EXCEPT ![c] = FALSE]
  /\ pc' = [pc EXCEPT ![c] = IF c[2] = "isr" THEN "iret" ELSE "idle"]
  /\ UNCHANGED <<next_ticket, now_serving, mode, ticket>>

Next ==
  \/ \E cpu \in CPUs :
       SwitchMode(cpu) \/ Interrupt(cpu) \/ InterruptReturn(cpu) \/ Call(cpu)
  \/ \E c \in Contexts :
       Disable(c) \/ Take(c) \/ Acquire(c) \/ Release(c) \/ Restore(c)

Spec == Init /\ [][Next]_vars

\* A CPU that is executing kernel code goes on executing it.
FairSpec ==
  /\ Spec
  /\ \A c \in Contexts :
       WF_vars(Disable(c) \/ Take(c) \/ Acquire(c) \/ Release(c) \/ Restore(c))
  /\ \A cpu \in CPUs : WF_vars(InterruptReturn(cpu))

-----------------------------------------------------------------------------
TypeOK ==
  /\ next_ticket \in 0..(TicketMod - 1)
  /\ now_serving \in 0..(TicketMod - 1)
  /\ irq_enabled \in [CPUs -> BOOLEAN]
  /\ mode \in [CPUs -> {"user", "kernel"}]
  /\ pc \in [Contexts -> {"idle", "want", "disabled", "spin", "critical",
                          "released", "iret"}]
  /\ ticket \in [Contexts -> 0..(TicketMod - 1)]
  /\ saved \in [Contexts -> BOOLEAN]

\* At most one context is between lock_raw and unlock_raw, also after the
\* 32-bit counters have wrapped.
MutualExclusion ==
  \A c, d \in Contexts : pc[c] = "critical" /\ pc[d] = "critical" => c = d

\* A handler never runs on top of a thread that has drawn a ticket on the
\* same CPU: it would spin for a lock its own CPU cannot release.  "Preventing
\* deadlock from timer preemption" is why lock_raw disables interrupts first.
NoSelfDeadlock ==
  \A cpu \in CPUs :
    InIsr(cpu) => pc[<<cpu, "thread">>] \notin {"disabled", "spin", "critical"}

\* A lock/unlock pair leaves the interrupt flag as it found it, nested in a
\* system call (interrupts off) as well as outside of one.
FlagRestored ==
  \A cpu \in CPUs :
    ~InIsr(cpu) /\ pc[<<cpu, "thread">>] = "idle" =>
      irq_enabled[cpu] = (mode[cpu] = "user")

\* Refinement: the line is the tickets from now_serving up to next_ticket.
Outstanding == (next_ticket + TicketMod - now_serving) % TicketMod

Line ==
  [i \in 1..Outstanding |->
     CHOOSE c \in Contexts :
       pc[c] \in {"spin", "critical"} /\ ticket[c] = (now_serving + i - 1) % TicketMod]

Fifo == INSTANCE FifoLock
          WITH line <- Line, inside <- {c \in Contexts : pc[c] = "critical"}

\* The ticket lock is a first-come first-served lock: tickets that wrap are
\* still served in the order they were drawn.
ServedInOrder == Fifo!Spec

\* Whoever draws a ticket gets the lock.
Served == \A c \in Contexts : pc[c] = "spin" ~> pc[c] = "critical"
=============================================================================
