--------------------------- MODULE SpinlockProofs ---------------------------
(***************************************************************************)
(* Proofs about the ticket spinlock for any set of CPUs and any ticket     *)
(* modulus larger than their number.  Two invariants carry them: FlagInv   *)
(* says what the interrupt flag is wherever a CPU is, TicketInv that the   *)
(* tickets that are out are the ones from now_serving up to next_ticket.   *)
(***************************************************************************)
EXTENDS Spinlock, FiniteSetTheorems, SequenceTheorems, TLAPS

Kinds == {"thread", "isr"}
Disabled == {"disabled", "spin", "critical", "released"}

Holding(c) == pc[c] \in {"spin", "critical"}

\* How far a ticket is from being served, with the wrap resolved.
Dist(x) == IF x >= now_serving THEN x - now_serving ELSE x + TicketMod - now_serving

HoldCpus == {cpu \in CPUs : \E k \in Kinds : Holding(<<cpu, k>>)}

\* fetch_add(1) on a counter.
Inc(x) == (x + 1) % TicketMod

FlagOK(cpu) ==
  /\ pc[<<cpu, "thread">>] # "iret"
  /\ InIsr(cpu) => /\ pc[<<cpu, "thread">>] \in {"idle", "want"}
                   /\ mode[cpu] = "user"
                   /\ ~irq_enabled[cpu]
  /\ pc[<<cpu, "isr">>] \in Disabled => ~saved[<<cpu, "isr">>]
  /\ pc[<<cpu, "thread">>] \in Disabled =>
       ~irq_enabled[cpu] /\ (saved[<<cpu, "thread">>] <=> mode[cpu] = "user")
  /\ ~InIsr(cpu) /\ pc[<<cpu, "thread">>] \in {"idle", "want"} =>
       (irq_enabled[cpu] <=> mode[cpu] = "user")

FlagInv == \A cpu \in CPUs : FlagOK(cpu)

TicketInv ==
  /\ \A c \in Contexts : Holding(c) => Dist(ticket[c]) < Dist(next_ticket)
  /\ \A c, d \in Contexts :
       Holding(c) /\ Holding(d) /\ c # d => ticket[c] # ticket[d]
  /\ \A c \in Contexts : pc[c] = "critical" => ticket[c] = now_serving
  /\ Cardinality(HoldCpus) = Dist(next_ticket)
  /\ \A x \in 0..(TicketMod - 1) : Dist(x) < Dist(next_ticket) =>
       \E c \in Contexts : Holding(c) /\ ticket[c] = x

LockInv == TypeOK /\ FlagInv /\ TicketInv

\* There is at least one ticket value.
LEMMA ModPositive == TicketMod \in Nat /\ TicketMod > 0
<1>1. Cardinality(CPUs) \in Nat
  BY TicketAssumption, FS_CardinalityType, Zenon
<1>2. QED
  BY <1>1, TicketAssumption

\* A counter that is incremented stays below the modulus and wraps to 0.
LEMMA IncValue ==
  ASSUME NEW x \in 0..(TicketMod - 1)
  PROVE  /\ Inc(x) = IF x = TicketMod - 1 THEN 0 ELSE x + 1
         /\ Inc(x) \in 0..(TicketMod - 1)
<1>0. TicketMod \in Nat /\ TicketMod > 0
  BY ModPositive, Zenon
<1>1. CASE x = TicketMod - 1
  <2>1. (x + 1) % TicketMod = 0
    BY <1>0, <1>1
  <2>2. QED
    BY <1>0, <1>1, <2>1 DEF Inc
<1>2. CASE x # TicketMod - 1
  <2>1. (x + 1) % TicketMod = x + 1
    BY <1>0, <1>2
  <2>2. QED
    BY <1>0, <1>2, <2>1 DEF Inc
<1>3. QED
  BY <1>1, <1>2, Zenon

\* A new lock, with every CPU in user mode, satisfies the invariant.
LEMMA LockInvInit == Init => LockInv
<1> SUFFICES ASSUME Init PROVE LockInv
  BY Zenon
<1>0. TicketMod \in Nat /\ TicketMod > 0
  BY ModPositive, Zenon
<1>1. TypeOK
  BY <1>0 DEF Init, TypeOK
<1>2. FlagInv
  BY Zenon DEF Init, FlagInv, FlagOK, InIsr, Contexts, Disabled
<1>3. HoldCpus = {}
  BY Zenon DEF Init, HoldCpus, Holding, Contexts, Kinds
<1>4. Cardinality(HoldCpus) = 0
  BY <1>3, FS_EmptySet, Zenon
<1>5. TicketInv
  BY <1>0, <1>4 DEF Init, TicketInv, Dist, Holding
<1>6. QED
  BY <1>1, <1>2, <1>5, Zenon DEF LockInv

\* Every step keeps the types; the counters stay below the modulus.
LEMMA TypeStep == TypeOK /\ [Next]_vars => TypeOK'
<1> SUFFICES ASSUME TypeOK, [Next]_vars PROVE TypeOK'
  BY Zenon
<1> USE DEF TypeOK
<1>1. ASSUME NEW cpu \in CPUs, SwitchMode(cpu) PROVE TypeOK'
  BY <1>1, Zenon DEF SwitchMode
<1>2. ASSUME NEW cpu \in CPUs, Interrupt(cpu) PROVE TypeOK'
  BY <1>2, Zenon DEF Interrupt, Contexts
<1>3. ASSUME NEW cpu \in CPUs, InterruptReturn(cpu) PROVE TypeOK'
  BY <1>3, Zenon DEF InterruptReturn, Contexts
<1>4. ASSUME NEW cpu \in CPUs, Call(cpu) PROVE TypeOK'
  BY <1>4, Zenon DEF Call, Contexts
<1>5. ASSUME NEW c \in Contexts, Disable(c) PROVE TypeOK'
  BY <1>5, Zenon DEF Disable, Contexts
<1>6. ASSUME NEW c \in Contexts, Take(c) PROVE TypeOK'
  <2>1. next_ticket' \in 0..(TicketMod - 1)
    BY <1>6, IncValue, Zenon DEF Take, Inc
  <2>2. QED
    BY <1>6, <2>1, Zenon DEF Take
<1>7. ASSUME NEW c \in Contexts, Acquire(c) PROVE TypeOK'
  BY <1>7, Zenon DEF Acquire
<1>8. ASSUME NEW c \in Contexts, Release(c) PROVE TypeOK'
  <2>1. now_serving' \in 0..(TicketMod - 1)
    BY <1>8, IncValue, Zenon DEF Release, Inc
  <2>2. 0 \in 0..(TicketMod - 1)
    BY ModPositive
  <2>3. QED
    BY <1>8, <2>1, <2>2, Zenon DEF Release
<1>9. ASSUME NEW c \in Contexts, Restore(c) PROVE TypeOK'
  BY <1>9, Zenon DEF Restore, Contexts
<1>10. CASE UNCHANGED vars
  BY <1>10, Zenon DEF vars
<1>11. QED
  BY <1>1, <1>2, <1>3, <1>4, <1>5, <1>6, <1>7, <1>8, <1>9, <1>10 DEF Next

\* What happens on one CPU leaves the flag invariant of the others alone.
LEMMA FlagOther ==
  ASSUME TypeOK, NEW q \in CPUs, FlagOK(q),
         pc'[<<q, "thread">>] = pc[<<q, "thread">>],
         pc'[<<q, "isr">>] = pc[<<q, "isr">>],
         saved'[<<q, "thread">>] = saved[<<q, "thread">>],
         saved'[<<q, "isr">>] = saved[<<q, "isr">>],
         irq_enabled'[q] = irq_enabled[q],
         mode'[q] = mode[q]
  PROVE  FlagOK(q)'
  BY Zenon DEF FlagOK, InIsr

\* Every step keeps what FlagInv says of the interrupt flag and the mode of
\* each CPU: the CPU of the context that moves is the only one that changes.
LEMMA FlagStep == TypeOK /\ FlagInv /\ [Next]_vars => FlagInv'
<1> SUFFICES ASSUME TypeOK, FlagInv, [Next]_vars, NEW q \in CPUs PROVE FlagOK(q)'
  BY Zenon DEF FlagInv
<1>0. FlagOK(q)
  BY Zenon DEF FlagInv
<1>01. <<q, "thread">> \in Contexts /\ <<q, "isr">> \in Contexts
  BY Zenon DEF Contexts
<1>02. <<q, "thread">> # <<q, "isr">>
  BY Zenon
<1>03. ASSUME NEW c \in Contexts
       PROVE  \/ c[1] # q /\ c # <<q, "thread">> /\ c # <<q, "isr">>
              \/ c = <<q, "thread">> /\ c[1] = q /\ c[2] = "thread"
              \/ c = <<q, "isr">> /\ c[1] = q /\ c[2] = "isr"
  BY DEF Contexts
<1>04. ASSUME NEW c \in Contexts PROVE c[1] \in CPUs
  BY Zenon DEF Contexts
<1> USE DEF TypeOK
<1>1. ASSUME NEW cpu \in CPUs, SwitchMode(cpu) PROVE FlagOK(q)'
  <2>1. CASE cpu = q
    BY <1>0, <1>1, <2>1, Zenon DEF SwitchMode, FlagOK, InIsr, Disabled
  <2>2. CASE cpu # q
    BY <1>0, <1>1, <2>2, FlagOther, Zenon DEF SwitchMode
  <2>3. QED
    BY <2>1, <2>2, Zenon
<1>2. ASSUME NEW cpu \in CPUs, Interrupt(cpu) PROVE FlagOK(q)'
  <2>1. CASE cpu = q
    BY <1>0, <1>01, <1>02, <1>2, <2>1, Zenon DEF Interrupt, FlagOK, InIsr, Disabled
  <2>2. CASE cpu # q
    BY <1>0, <1>01, <1>2, <2>2, FlagOther, Zenon DEF Interrupt
  <2>3. QED
    BY <2>1, <2>2
<1>3. ASSUME NEW cpu \in CPUs, InterruptReturn(cpu) PROVE FlagOK(q)'
  <2>1. CASE cpu = q
    BY <1>0, <1>01, <1>02, <1>3, <2>1, Zenon DEF InterruptReturn, FlagOK, InIsr, Disabled
  <2>2. CASE cpu # q
    BY <1>0, <1>01, <1>3, <2>2, FlagOther DEF InterruptReturn
  <2>3. QED
    BY <2>1, <2>2
<1>4. ASSUME NEW cpu \in CPUs, Call(cpu) PROVE FlagOK(q)'
  <2>1. CASE cpu = q
    BY <1>0, <1>01, <1>02, <1>4, <2>1, Zenon DEF Call, Active, FlagOK, InIsr, Disabled
  <2>2. CASE cpu # q
    BY <1>0, <1>01, <1>4, <2>2, FlagOther, Zenon DEF Call
  <2>3. QED
    BY <2>1, <2>2
<1>5. ASSUME NEW c \in Contexts, Disable(c) PROVE FlagOK(q)'
  <2>1. CASE c = <<q, "thread">> /\ c[1] = q /\ c[2] = "thread"
    BY <1>0, <1>01, <1>02, <1>5, <2>1, Zenon DEF Disable, Active, FlagOK, InIsr, Disabled
  <2>2. CASE c = <<q, "isr">> /\ c[1] = q /\ c[2] = "isr"
    BY <1>0, <1>01, <1>02, <1>5, <2>2, Zenon DEF Disable, Active, FlagOK, InIsr, Disabled
  <2>3. CASE c[1] # q /\ c # <<q, "thread">> /\ c # <<q, "isr">>
    BY <1>0, <1>01, <1>04, <1>5, <2>3, FlagOther DEF Disable
  <2>4. QED
    BY <1>03, <2>1, <2>2, <2>3, Zenon
<1>6. ASSUME NEW c \in Contexts, Take(c) PROVE FlagOK(q)'
  <2>1. CASE c = <<q, "thread">> /\ c[1] = q /\ c[2] = "thread"
    BY <1>0, <1>01, <1>02, <1>6, <2>1, Zenon DEF Take, FlagOK, InIsr, Disabled
  <2>2. CASE c = <<q, "isr">> /\ c[1] = q /\ c[2] = "isr"
    BY <1>0, <1>01, <1>02, <1>6, <2>2, Zenon DEF Take, FlagOK, InIsr, Disabled
  <2>3. CASE c[1] # q /\ c # <<q, "thread">> /\ c # <<q, "isr">>
    BY <1>0, <1>01, <1>04, <1>6, <2>3, FlagOther DEF Take
  <2>4. QED
    BY <1>03, <2>1, <2>2, <2>3
<1>7. ASSUME NEW c \in Contexts, Acquire(c) PROVE FlagOK(q)'
  <2>1. CASE c = <<q, "thread">> /\ c[1] = q /\ c[2] = "thread"
    BY <1>0, <1>01, <1>02, <1>7, <2>1, Zenon DEF Acquire, FlagOK, InIsr, Disabled
  <2>2. CASE c = <<q, "isr">> /\ c[1] = q /\ c[2] = "isr"
    BY <1>0, <1>01, <1>02, <1>7, <2>2, Zenon DEF Acquire, FlagOK, InIsr, Disabled
  <2>3. CASE c[1] # q /\ c # <<q, "thread">> /\ c # <<q, "isr">>
    BY <1>0, <1>01, <1>04, <1>7, <2>3, FlagOther DEF Acquire
  <2>4. QED
    BY <1>03, <2>1, <2>2, <2>3
<1>8. ASSUME NEW c \in Contexts, Release(c) PROVE FlagOK(q)'
  <2>1. CASE c = <<q, "thread">> /\ c[1] = q /\ c[2] = "thread"
    BY <1>0, <1>01, <1>02, <1>8, <2>1, Zenon DEF Release, FlagOK, InIsr, Disabled
  <2>2. CASE c = <<q, "isr">> /\ c[1] = q /\ c[2] = "isr"
    BY <1>0, <1>01, <1>02, <1>8, <2>2, Zenon DEF Release, FlagOK, InIsr, Disabled
  <2>3. CASE c[1] # q /\ c # <<q, "thread">> /\ c # <<q, "isr">>
    BY <1>0, <1>01, <1>04, <1>8, <2>3, FlagOther DEF Release
  <2>4. QED
    BY <1>03, <2>1, <2>2, <2>3
<1>9. ASSUME NEW c \in Contexts, Restore(c) PROVE FlagOK(q)'
  <2>1. CASE c = <<q, "thread">> /\ c[1] = q /\ c[2] = "thread"
    BY <1>0, <1>01, <1>02, <1>9, <2>1, Zenon DEF Restore, Active, FlagOK, InIsr, Disabled
  <2>2. CASE c = <<q, "isr">> /\ c[1] = q /\ c[2] = "isr"
    BY <1>0, <1>01, <1>02, <1>9, <2>2, Zenon DEF Restore, Active, FlagOK, InIsr, Disabled
  <2>3. CASE c[1] # q /\ c # <<q, "thread">> /\ c # <<q, "isr">>
    BY <1>0, <1>01, <1>04, <1>9, <2>3, FlagOther DEF Restore
  <2>4. QED
    BY <1>03, <2>1, <2>2, <2>3
<1>10. CASE UNCHANGED vars
  BY <1>0, <1>10, FlagOther, Zenon DEF vars
<1>11. QED
  BY <1>1, <1>2, <1>3, <1>4, <1>5, <1>6, <1>7, <1>8, <1>9, <1>10, Zenon DEF Next

\* While one context of a CPU has interrupts disabled on its way through the
\* lock, the other one has no ticket.
LEMMA OnePerCpu ==
  ASSUME TypeOK, FlagInv, NEW c \in Contexts, NEW d \in Contexts,
         Active(c), pc[c] \in Disabled, d[1] = c[1], d # c
  PROVE  ~Holding(d)
<1> USE DEF TypeOK
<1>1. PICK cpu \in CPUs : c \in {<<cpu, "thread">>, <<cpu, "isr">>} /\ c[1] = cpu
  BY DEF Contexts
<1>2. d \in {<<cpu, "thread">>, <<cpu, "isr">>}
  BY <1>1 DEF Contexts
<1>3. FlagOK(cpu)
  BY Zenon DEF FlagInv
<1>4. CASE c = <<cpu, "thread">>
  BY <1>2, <1>4, Zenon DEF Active, InIsr, Holding
<1>5. CASE c = <<cpu, "isr">>
  <2>1. InIsr(cpu)
    BY <1>5, Zenon DEF InIsr, Disabled
  <2>2. QED
    BY <1>2, <1>3, <1>5, <2>1 DEF FlagOK, Holding
<1>6. QED
  BY <1>1, <1>4, <1>5, Zenon

\* A step that touches neither counter, ticket nor who holds one.
LEMMA TicketSame ==
  ASSUME TypeOK, TicketInv,
         UNCHANGED <<next_ticket, now_serving, ticket>>,
         \A c \in Contexts : Holding(c)' <=> Holding(c),
         \A c \in Contexts : pc'[c] = "critical" => pc[c] = "critical"
  PROVE  TicketInv'
<1>1. HoldCpus' = HoldCpus
  BY Zenon DEF HoldCpus, Contexts, Kinds
<1>2. QED
  BY <1>1, Zenon DEF TicketInv, Dist

\* Drawing a ticket: there is one CPU more in the line, and the line is still
\* shorter than the counters can tell apart.
LEMMA TicketTake ==
  ASSUME TypeOK, FlagInv, TicketInv, NEW c \in Contexts, Take(c)
  PROVE  TicketInv'
<1> USE DEF TypeOK
<1>0. PICK cpu \in CPUs, k \in Kinds : c = <<cpu, k>> /\ c[1] = cpu
  BY DEF Contexts, Kinds
<1>1. \A d \in Contexts : Holding(d)' <=> (Holding(d) \/ d = c)
  BY Zenon DEF Take, Holding
<1>2. HoldCpus' = HoldCpus \cup {cpu}
  BY <1>0, <1>1, Zenon DEF HoldCpus, Contexts, Kinds
<1>3. cpu \notin HoldCpus
  <2>1. \A d \in Contexts : d[1] = cpu => ~Holding(d)
    BY <1>0, OnePerCpu, Zenon DEF Take, Disabled, Holding
  <2>2. QED
    BY <2>1, Zenon DEF HoldCpus, Contexts, Kinds
<1>4. IsFiniteSet(HoldCpus) /\ HoldCpus \cup {cpu} \in SUBSET CPUs
  BY TicketAssumption, FS_Subset, Zenon DEF HoldCpus
<1>5. /\ Cardinality(HoldCpus') = Cardinality(HoldCpus) + 1
      /\ Cardinality(HoldCpus \cup {cpu}) <= Cardinality(CPUs)
  BY <1>2, <1>3, <1>4, TicketAssumption, FS_AddElement, FS_Subset, Zenon
<1>6. Cardinality(CPUs) \in Nat /\ TicketMod \in Nat /\ TicketMod > Cardinality(CPUs)
  BY TicketAssumption, FS_CardinalityType, Zenon
<1>7. Dist(next_ticket) + 1 < TicketMod
  BY <1>2, <1>5, <1>6 DEF TicketInv, Dist
<1>8. next_ticket' = IF next_ticket = TicketMod - 1 THEN 0 ELSE next_ticket + 1
  BY IncValue, Zenon DEF Take, Inc
<1>9. Dist(next_ticket)' = Dist(next_ticket) + 1
  BY <1>6, <1>7, <1>8 DEF Dist, Take
<1>10. \A d \in Contexts : d # c => ticket'[d] = ticket[d]
  BY Zenon DEF Take
<1>11. ticket'[c] = next_ticket /\ now_serving' = now_serving
  BY Zenon DEF Take
<1>12. ASSUME NEW d \in Contexts, Holding(d)' PROVE (Dist(ticket[d]) < Dist(next_ticket))'
  BY <1>1, <1>6, <1>9, <1>10, <1>11, <1>12 DEF TicketInv, Dist
<1>13. ASSUME NEW d \in Contexts, NEW e \in Contexts, Holding(d)', Holding(e)', d # e
       PROVE  ticket'[d] # ticket'[e]
  <2>1. \A g \in Contexts : Holding(g) => ticket[g] # next_ticket
    BY <1>6 DEF TicketInv, Dist
  <2>2. QED
    BY <1>1, <1>10, <1>11, <1>13, <2>1 DEF TicketInv
<1>14. ASSUME NEW d \in Contexts, pc'[d] = "critical" PROVE ticket'[d] = now_serving'
  BY <1>10, <1>11, <1>14 DEF TicketInv, Take
<1>15. Cardinality(HoldCpus') = Dist(next_ticket)'
  BY <1>5, <1>9, Zenon DEF TicketInv
<1>16. ASSUME NEW x \in 0..(TicketMod - 1), (Dist(x) < Dist(next_ticket))'
       PROVE  \E d \in Contexts : Holding(d)' /\ ticket'[d] = x
  <2>1. CASE x = next_ticket
    BY <1>1, <1>11, <2>1
  <2>2. CASE x # next_ticket
    <3>1. Dist(x) < Dist(next_ticket)
      BY <1>6, <1>9, <1>11, <1>16, <2>2 DEF Dist
    <3>2. PICK d \in Contexts : Holding(d) /\ ticket[d] = x
      BY <3>1 DEF TicketInv
    <3>3. d # c
      BY <3>2 DEF Take, Holding
    <3>4. QED
      BY <1>1, <1>10, <3>2, <3>3
  <2>3. QED
    BY <2>1, <2>2, Zenon
<1>17. QED
  BY <1>12, <1>13, <1>14, <1>15, <1>16 DEF TicketInv

\* Releasing the lock: the line loses its first, and everybody moves up.
LEMMA TicketRelease ==
  ASSUME TypeOK, FlagInv, TicketInv, NEW c \in Contexts, Release(c)
  PROVE  TicketInv'
<1> USE DEF TypeOK
<1>0. PICK cpu \in CPUs, k \in Kinds : c = <<cpu, k>> /\ c[1] = cpu
  BY DEF Contexts, Kinds
<1>1. \A d \in Contexts : Holding(d)' <=> (Holding(d) /\ d # c)
  BY Zenon DEF Release, Holding
<1>2. HoldCpus' = HoldCpus \ {cpu} /\ cpu \in HoldCpus
  <2>1. \A d \in Contexts : d[1] = cpu /\ d # c => ~Holding(d)
    BY <1>0, OnePerCpu DEF Release, Disabled
  <2>2. Holding(c)
    BY Zenon DEF Release, Holding
  <2>3. QED
    BY <1>0, <1>1, <2>1, <2>2 DEF HoldCpus, Contexts, Kinds
<1>3. Cardinality(HoldCpus') = Cardinality(HoldCpus) - 1
  <2>1. IsFiniteSet(HoldCpus)
    BY TicketAssumption, FS_Subset DEF HoldCpus
  <2>2. QED
    BY <1>2, <2>1, FS_RemoveElement
<1>4. TicketMod \in Nat /\ TicketMod > 0
  BY ModPositive
<1>5. now_serving' = IF now_serving = TicketMod - 1 THEN 0 ELSE now_serving + 1
  BY IncValue DEF Release, Inc
<1>6. ticket[c] = now_serving /\ Holding(c)
  BY Zenon DEF Release, Holding, TicketInv
<1>7. ASSUME NEW x \in 0..(TicketMod - 1), x # now_serving
      PROVE  Dist(x)' = Dist(x) - 1
  BY <1>4, <1>5, <1>7 DEF Dist
<1>8. next_ticket # now_serving /\ next_ticket' = next_ticket
  BY <1>4, <1>6 DEF TicketInv, Dist, Release
<1>9. Dist(next_ticket)' = Dist(next_ticket) - 1
  BY <1>7, <1>8, Zenon DEF Dist
<1>10. \A d \in Contexts : d # c => ticket'[d] = ticket[d]
  BY Zenon DEF Release
<1>11. ASSUME NEW d \in Contexts, Holding(d)' PROVE (Dist(ticket[d]) < Dist(next_ticket))'
  <2>1. Holding(d) /\ d # c
    BY <1>1, <1>11, Zenon
  <2>2. ticket[d] # now_serving /\ ticket[d] \in 0..(TicketMod - 1)
    BY <1>6, <2>1 DEF TicketInv
  <2>3. Dist(ticket[d])' = Dist(ticket[d]) - 1
    BY <1>4, <1>5, <1>10, <2>1, <2>2 DEF Dist
  <2>4. QED
    BY <1>4, <1>9, <2>1, <2>3 DEF TicketInv, Dist
<1>12. ASSUME NEW d \in Contexts, NEW e \in Contexts, Holding(d)', Holding(e)', d # e
       PROVE  ticket'[d] # ticket'[e]
  BY <1>1, <1>10, <1>12, Zenon DEF TicketInv
<1>13. ASSUME NEW d \in Contexts, pc'[d] = "critical" PROVE FALSE
  <2>1. pc[d] = "critical" /\ d # c
    BY <1>13, Zenon DEF Release
  <2>2. QED
    BY <1>6, <2>1 DEF TicketInv, Holding
<1>14. Cardinality(HoldCpus') = Dist(next_ticket)'
  BY <1>3, <1>9, Zenon DEF TicketInv
<1>15. ASSUME NEW x \in 0..(TicketMod - 1), (Dist(x) < Dist(next_ticket))'
       PROVE  \E d \in Contexts : Holding(d)' /\ ticket'[d] = x
  <2>1. x # now_serving
    BY <1>4, <1>5, <1>8, <1>15 DEF Dist
  <2>2. Dist(x) < Dist(next_ticket)
    BY <1>4, <1>7, <1>9, <1>15, <2>1 DEF Dist
  <2>3. PICK d \in Contexts : Holding(d) /\ ticket[d] = x
    BY <2>2 DEF TicketInv
  <2>4. QED
    BY <1>1, <1>6, <1>10, <2>1, <2>3, Zenon
<1>16. QED
  BY <1>11, <1>12, <1>13, <1>14, <1>15 DEF TicketInv

\* Every step keeps the line of tickets: only Take and Release change it.
LEMMA TicketStep == TypeOK /\ FlagInv /\ TicketInv /\ [Next]_vars => TicketInv'
<1> SUFFICES ASSUME TypeOK, FlagInv, TicketInv, [Next]_vars PROVE TicketInv'
  BY Zenon
<1> USE DEF TypeOK
<1>1. ASSUME NEW cpu \in CPUs, SwitchMode(cpu) PROVE TicketInv'
  BY <1>1, TicketSame DEF SwitchMode, Holding
<1>2. ASSUME NEW cpu \in CPUs, Interrupt(cpu) PROVE TicketInv'
  BY <1>2, TicketSame DEF Interrupt, InIsr, Holding, Contexts
<1>3. ASSUME NEW cpu \in CPUs, InterruptReturn(cpu) PROVE TicketInv'
  BY <1>3, TicketSame DEF InterruptReturn, Holding, Contexts
<1>4. ASSUME NEW cpu \in CPUs, Call(cpu) PROVE TicketInv'
  BY <1>4, TicketSame DEF Call, Holding, Contexts
<1>5. ASSUME NEW c \in Contexts, Disable(c) PROVE TicketInv'
  BY <1>5, TicketSame, Zenon DEF Disable, Holding
<1>6. ASSUME NEW c \in Contexts, Take(c) PROVE TicketInv'
  BY <1>6, TicketTake, Zenon
<1>7. ASSUME NEW c \in Contexts, Acquire(c) PROVE TicketInv'
  <2>1. \A d \in Contexts : Holding(d)' <=> Holding(d)
    BY <1>7, Zenon DEF Acquire, Holding
  <2>2. HoldCpus' = HoldCpus
    BY <2>1, Zenon DEF HoldCpus, Contexts, Kinds
  <2>3. \A d \in Contexts : pc'[d] = "critical" => ticket'[d] = now_serving'
    BY <1>7 DEF Acquire, TicketInv
  <2>4. UNCHANGED <<next_ticket, now_serving, ticket>>
    BY <1>7, Zenon DEF Acquire
  <2>5. QED
    BY <2>1, <2>2, <2>3, <2>4 DEF TicketInv, Dist
<1>8. ASSUME NEW c \in Contexts, Release(c) PROVE TicketInv'
  BY <1>8, TicketRelease
<1>9. ASSUME NEW c \in Contexts, Restore(c) PROVE TicketInv'
  BY <1>9, TicketSame DEF Restore, Holding
<1>10. CASE UNCHANGED vars
  BY <1>10, TicketSame DEF vars, Holding
<1>11. QED
  BY <1>1, <1>2, <1>3, <1>4, <1>5, <1>6, <1>7, <1>8, <1>9, <1>10 DEF Next

\* The inductive invariant holds in every reachable state.
LEMMA LockInvariant == Spec => []LockInv
<1>1. LockInv /\ [Next]_vars => LockInv'
  BY TypeStep, FlagStep, TicketStep, Zenon DEF LockInv
<1>2. QED
  BY <1>1, LockInvInit, PTL DEF Spec

\* The counters of the spinlock stay below the modulus and every context is
\* at one of the points of lock_raw, unlock_raw or the interrupt handler.
THEOREM SpinlockTypeOK == Spec => []TypeOK
<1>1. LockInv => TypeOK
  BY DEF LockInv
<1>2. QED
  BY <1>1, LockInvariant, PTL

\* The ticket lock excludes, for any number of CPUs, interrupt handlers that
\* take it included, and through every wrap of its counters.
THEOREM SpinlockMutualExclusion == Spec => []MutualExclusion
<1>1. LockInv => MutualExclusion
  BY DEF LockInv, TicketInv, MutualExclusion, Holding
<1>2. QED
  BY <1>1, LockInvariant, PTL

\* No interrupt handler runs on top of a thread that has drawn a ticket:
\* lock_raw has disabled the interrupts of its CPU before.
THEOREM SpinlockNoSelfDeadlock == Spec => []NoSelfDeadlock
<1>1. LockInv => NoSelfDeadlock
  BY Zenon DEF LockInv, FlagInv, FlagOK, NoSelfDeadlock
<1>2. QED
  BY <1>1, LockInvariant, PTL

\* Outside of lock_raw and unlock_raw the interrupt flag is what the mode of
\* the thread demands: the pair restores what it found.
THEOREM SpinlockFlagRestored == Spec => []FlagRestored
<1>1. LockInv => FlagRestored
  <2> SUFFICES ASSUME LockInv, NEW cpu \in CPUs, ~InIsr(cpu),
                      pc[<<cpu, "thread">>] = "idle"
               PROVE  irq_enabled[cpu] = (mode[cpu] = "user")
    BY Zenon DEF FlagRestored
  <2>1. irq_enabled[cpu] <=> mode[cpu] = "user"
    BY Zenon DEF LockInv, FlagInv, FlagOK
  <2>2. irq_enabled[cpu] \in BOOLEAN
    BY Zenon DEF LockInv, TypeOK
  <2>3. QED
    BY <2>1, <2>2, Zenon
<1>2. QED
  BY <1>1, LockInvariant, PTL

-----------------------------------------------------------------------------
(* The ticket lock implements the first-come first-served lock.            *)

Wrap(n) == n % TicketMod
Inside == {c \in Contexts : pc[c] = "critical"}
Holder(x) == CHOOSE c \in Contexts : pc[c] \in {"spin", "critical"} /\ ticket[c] = x

\* The ticket i places into the line.
At(i) == Wrap(now_serving + i - 1)

\* A sum of two tickets wraps at most once.
LEMMA WrapValue ==
  ASSUME NEW n \in 0..(2 * TicketMod - 1)
  PROVE  Wrap(n) = IF n < TicketMod THEN n ELSE n - TicketMod
<1>1. CASE n < TicketMod
  BY <1>1, ModPositive DEF Wrap
<1>2. CASE n >= TicketMod
  BY <1>2, ModPositive DEF Wrap
<1>3. QED
  BY <1>1, <1>2, ModPositive

\* At(i) is the ticket at distance i - 1.
PlacesOK ==
  /\ Outstanding = Dist(next_ticket)
  /\ Outstanding \in 0..(TicketMod - 1)
  /\ \A i \in 1..TicketMod :
       /\ At(i) \in 0..(TicketMod - 1)
       /\ At(i) = IF now_serving + i - 1 < TicketMod
                  THEN now_serving + i - 1 ELSE now_serving + i - 1 - TicketMod
       /\ Dist(At(i)) = i - 1

\* The line names, place by place, the context that holds the ticket.
LineOK ==
  /\ Line \in Seq(Contexts)
  /\ Len(Line) = Outstanding
  /\ \A i \in 1..Outstanding :
       Line[i] \in Contexts /\ Holding(Line[i]) /\ ticket[Line[i]] = At(i)

\* The places of the line are the tickets from now_serving to next_ticket.
LEMMA LinePlaces == LockInv => PlacesOK
<1> SUFFICES ASSUME LockInv PROVE PlacesOK
  OBVIOUS
<1> USE DEF LockInv, TypeOK
<1>0. TicketMod \in Nat /\ TicketMod > 0
  BY ModPositive
<1>1. Outstanding = Wrap(next_ticket + TicketMod - now_serving)
  BY Zenon DEF Outstanding, Wrap
<1>2. next_ticket + TicketMod - now_serving \in 0..(2 * TicketMod - 1)
  BY <1>0
<1>3. Outstanding = Dist(next_ticket) /\ Outstanding \in 0..(TicketMod - 1)
  BY <1>0, <1>1, <1>2, WrapValue DEF Dist
<1>4. ASSUME NEW i \in 1..TicketMod
      PROVE  /\ At(i) \in 0..(TicketMod - 1)
             /\ At(i) = IF now_serving + i - 1 < TicketMod
                        THEN now_serving + i - 1 ELSE now_serving + i - 1 - TicketMod
             /\ Dist(At(i)) = i - 1
  <2>1. now_serving + i - 1 \in 0..(2 * TicketMod - 1)
    BY <1>0
  <2>2. At(i) = IF now_serving + i - 1 < TicketMod
                THEN now_serving + i - 1 ELSE now_serving + i - 1 - TicketMod
    BY <1>0, <2>1, WrapValue DEF At
  <2>3. QED
    BY <1>0, <2>2 DEF Dist
<1>5. QED
  BY <1>3, <1>4, Zenon DEF PlacesOK

\* Every place of the line has its context.
LEMMA LineHolders == LockInv => LineOK
<1> SUFFICES ASSUME LockInv PROVE LineOK
  OBVIOUS
<1>0. Outstanding \in 0..(TicketMod - 1) /\ Outstanding = Dist(next_ticket)
  BY LinePlaces DEF PlacesOK
<1>1. Line = [i \in 1..Outstanding |-> Holder(At(i))]
  BY Zenon DEF Line, Holder, At, Wrap
<1>2. ASSUME NEW i \in 1..Outstanding
      PROVE  Holder(At(i)) \in Contexts /\ Holding(Holder(At(i))) /\ ticket[Holder(At(i))] = At(i)
  <2>1. i \in 1..TicketMod /\ i - 1 < Dist(next_ticket)
    BY <1>0, ModPositive
  <2>2. At(i) \in 0..(TicketMod - 1) /\ Dist(At(i)) < Dist(next_ticket)
    BY <2>1, LinePlaces DEF PlacesOK
  <2>3. \E c \in Contexts : pc[c] \in {"spin", "critical"} /\ ticket[c] = At(i)
    BY <2>2 DEF LockInv, TicketInv, Holding
  <2>4. QED
    BY <2>3 DEF Holder, Holding
<1>3. Outstanding \in Nat
  BY <1>0, ModPositive
<1>4. QED
  BY <1>1, <1>2, <1>3 DEF LineOK

\* The lock starts with nobody in line.
LEMMA LineInit == Init => Fifo!Init
<1> SUFFICES ASSUME Init PROVE Fifo!Init
  OBVIOUS
<1>1. LockInv
  BY LockInvInit, Zenon
<1>2. Outstanding = 0
  BY <1>1, LinePlaces, ModPositive DEF Init, Dist, PlacesOK
<1>3. Line = <<>>
  BY <1>1, <1>2, LineHolders DEF LineOK
<1>4. {c \in Contexts : pc[c] = "critical"} = {}
  BY Zenon DEF Init
<1>5. QED
  BY <1>3, <1>4 DEF Fifo!Init

\* A step that leaves the tickets and their holders alone leaves the line.
LEMMA LineSame ==
  ASSUME LockInv, LineOK, LineOK', UNCHANGED <<next_ticket, now_serving, ticket>>,
         \A c \in Contexts : Holding(c)' <=> Holding(c)
  PROVE  Line' = Line
<1>1. Outstanding' = Outstanding /\ \A i \in 1..Outstanding : At(i)' = At(i)
  BY Zenon DEF Outstanding, At, Wrap
<1>2. ASSUME NEW i \in 1..Outstanding PROVE Line'[i] = Line[i]
  <2>1. Line'[i] \in Contexts /\ Holding(Line[i])' /\ ticket'[Line'[i]] = At(i)
    BY <1>1, Zenon DEF LineOK
  <2>2. Line[i] \in Contexts /\ Holding(Line[i]) /\ ticket[Line[i]] = At(i)
    BY Zenon DEF LineOK
  <2>3. Holding(Line'[i])
    BY <2>1, Zenon DEF Holding
  <2>4. QED
    BY <2>1, <2>2, <2>3 DEF LockInv, TicketInv
<1>3. QED
  BY <1>1, <1>2 DEF LineOK

\* fetch_add on next_ticket puts the context at the end of the line.
LEMMA TakeAppends ==
  ASSUME LockInv, PlacesOK, LineOK, PlacesOK', LineOK', LockInv',
         NEW c \in Contexts, Take(c)
  PROVE  Line' = Append(Line, c) /\ \A i \in DOMAIN Line : Line[i] # c
<1> USE DEF LockInv, TypeOK
<1>0. TicketMod \in Nat /\ TicketMod > 0
  BY ModPositive
<1>1. \A d \in Contexts : Holding(d)' <=> (Holding(d) \/ d = c)
  BY DEF Take, Holding
<1>2. ~Holding(c) /\ Holding(c)' /\ ticket'[c] = next_ticket /\ now_serving' = now_serving
  BY DEF Take, Holding
<1>3. \A d \in Contexts : d # c => ticket'[d] = ticket[d]
  BY DEF Take
<1>4. DOMAIN Line = 1..Outstanding /\ Outstanding \in Nat
  BY <1>0 DEF LineOK, PlacesOK
<1>5. \A i \in DOMAIN Line : Line[i] # c
  BY <1>2, <1>4 DEF LineOK
<1>6. PICK n \in Nat : n = Outstanding
  BY <1>4, Zenon
<1>7. Outstanding' = n + 1
  <2>1. next_ticket' = IF next_ticket = TicketMod - 1 THEN 0 ELSE next_ticket + 1
    BY IncValue DEF Take, Inc
  <2>2. Dist(ticket[c])' < Dist(next_ticket)'
    BY <1>2 DEF TicketInv
  <2>3. now_serving' \in Nat /\ next_ticket' \in Nat /\ ticket'[c] \in 0..(TicketMod - 1)
    BY <1>0, <1>2
  <2>4. Dist(next_ticket)' = Dist(next_ticket) + 1
    BY <1>0, <1>2, <2>1, <2>2, <2>3 DEF Dist
  <2>5. QED
    BY <1>6, <2>4 DEF PlacesOK
<1>8. ASSUME NEW i \in 1..n PROVE Line'[i] = Line[i]
  <2>1. i \in 1..Outstanding' /\ i \in 1..Outstanding
    BY <1>6, <1>7
  <2>2. At(i)' = At(i)
    BY <1>2, Zenon DEF At, Wrap
  <2>3. /\ Line'[i] \in Contexts
        /\ pc'[Line'[i]] \in {"spin", "critical"}
        /\ ticket'[Line'[i]] = At(i)
    BY <2>1, <2>2 DEF LineOK, Holding
  <2>4. Line[i] \in Contexts /\ Holding(Line[i]) /\ ticket[Line[i]] = At(i) /\ Line[i] # c
    BY <1>4, <1>5, <2>1 DEF LineOK
  <2>5. pc'[Line[i]] \in {"spin", "critical"} /\ ticket'[Line[i]] = At(i)
    BY <2>4 DEF Take, Holding
  <2>6. QED
    BY <2>3, <2>4, <2>5 DEF TicketInv, Holding
<1>9. Line'[n + 1] = c
  <2>1. n + 1 \in 1..Outstanding' /\ n + 1 \in 1..TicketMod
    BY <1>0, <1>6, <1>7 DEF PlacesOK
  <2>2. /\ Line'[n + 1] \in Contexts
        /\ pc'[Line'[n + 1]] \in {"spin", "critical"}
        /\ ticket'[Line'[n + 1]] = At(n + 1)'
    BY <2>1, Zenon DEF LineOK, Holding
  <2>3. At(n + 1) = next_ticket
    BY <1>0, <1>6, <2>1 DEF PlacesOK, Dist
  <2>4. At(n + 1)' = next_ticket
    BY <1>2, <2>3, Zenon DEF At
  <2>5. QED
    BY <1>2, <2>2, <2>4 DEF TicketInv, Holding
<1>10. Line' = Append(Line, c)
  BY <1>4, <1>6, <1>7, <1>8, <1>9 DEF LineOK
<1>11. QED
  BY <1>5, <1>10, Zenon

\* fetch_add on now_serving takes the head off the line.
LEMMA ReleaseTakesHead ==
  ASSUME LockInv, PlacesOK, LineOK, PlacesOK', LineOK', LockInv',
         NEW c \in Contexts, Release(c)
  PROVE  Line' = Tail(Line)
<1> USE DEF LockInv, TypeOK
<1>0. TicketMod \in Nat /\ TicketMod > 0
  BY ModPositive
<1>1. \A d \in Contexts : pc'[d] \in {"spin", "critical"} => Holding(d) /\ d # c
  BY DEF Release, Holding
<1>2. \A d \in Contexts : d # c => ticket'[d] = ticket[d]
  BY DEF Release
<1>3. Outstanding \in Nat
  BY <1>0 DEF PlacesOK
<1>4. PICK n \in Nat : n = Outstanding
  BY <1>3, Zenon
<1>5. now_serving' = IF now_serving = TicketMod - 1 THEN 0 ELSE now_serving + 1
  BY IncValue DEF Release, Inc
<1>6. Holding(c) /\ ticket[c] = now_serving /\ next_ticket' = next_ticket
  BY DEF Release, Holding, TicketInv
<1>7. n > 0 /\ n < TicketMod /\ Outstanding' = n - 1
  <2>1. Dist(ticket[c]) < Dist(next_ticket)
    BY <1>6, Zenon DEF TicketInv
  <2>2. Dist(next_ticket)' = Dist(next_ticket) - 1 /\ Dist(next_ticket) > 0
    BY <1>0, <1>5, <1>6, <2>1 DEF Dist
  <2>3. QED
    BY <1>0, <1>4, <2>2 DEF PlacesOK
<1>8. ASSUME NEW i \in 1..(n - 1) PROVE Line'[i] = Line[i + 1]
  <2>1. i \in 1..Outstanding' /\ i + 1 \in 1..Outstanding /\ i \in 1..TicketMod /\ i + 1 \in 1..TicketMod
    BY <1>0, <1>4, <1>7
  <2>2. At(i)' = At(i + 1)
    <3>1. At(i)' = IF now_serving' + i - 1 < TicketMod
                   THEN now_serving' + i - 1 ELSE now_serving' + i - 1 - TicketMod
      BY <2>1 DEF PlacesOK
    <3>2. At(i + 1) = IF now_serving + (i + 1) - 1 < TicketMod
                      THEN now_serving + (i + 1) - 1 ELSE now_serving + (i + 1) - 1 - TicketMod
      BY <2>1 DEF PlacesOK
    <3>3. QED
      BY <1>0, <1>5, <1>7, <3>1, <3>2
  <2>3. /\ Line'[i] \in Contexts
        /\ pc'[Line'[i]] \in {"spin", "critical"}
        /\ ticket'[Line'[i]] = At(i + 1)
    BY <2>1, <2>2 DEF LineOK, Holding
  <2>4. /\ Line[i + 1] \in Contexts /\ Holding(Line[i + 1])
        /\ ticket[Line[i + 1]] = At(i + 1)
    BY <2>1 DEF LineOK
  <2>5. Holding(Line'[i]) /\ ticket[Line'[i]] = At(i + 1)
    BY <1>1, <1>2, <2>3
  <2>6. QED
    BY <2>3, <2>4, <2>5, SMTT(30) DEF TicketInv
<1>9. Line \in Seq(Contexts) /\ Len(Line) = n /\ Line' \in Seq(Contexts) /\ Len(Line') = n - 1
  BY <1>4, <1>7 DEF LineOK
<1>10. /\ Tail(Line) \in Seq(Contexts) /\ Len(Tail(Line)) = n - 1
       /\ \A i \in 1..(n - 1) : Tail(Line)[i] = Line[i + 1]
  BY <1>7, <1>9
<1>11. \A i \in 1..Len(Line') : Line'[i] = Tail(Line)[i]
  BY <1>8, <1>9, <1>10, Zenon
<1>12. QED
  BY <1>9, <1>10, <1>11, SeqEqual, Zenon

\* Every step of the ticket lock is a step of the first-come lock or none.
LEMMA StepRefines ==
  LockInv /\ PlacesOK /\ LineOK /\ LockInv' /\ PlacesOK' /\ LineOK' /\ [Next]_vars
    => [Fifo!Next]_(Fifo!lockVars)
<1> SUFFICES ASSUME LockInv, PlacesOK, LineOK, LockInv', PlacesOK', LineOK', [Next]_vars
             PROVE  [Fifo!Next]_(Fifo!lockVars)
  OBVIOUS
<1> USE DEF LockInv, TypeOK
<1>1. ASSUME UNCHANGED <<next_ticket, now_serving, ticket>>,
             \A c \in Contexts : Holding(c)' <=> Holding(c),
             \A c \in Contexts : pc'[c] = "critical" <=> pc[c] = "critical"
      PROVE  [Fifo!Next]_(Fifo!lockVars)
  <2>1. Line' = Line
    BY <1>1, LineSame
  <2>2. {c \in Contexts : pc'[c] = "critical"} = {c \in Contexts : pc[c] = "critical"}
    BY <1>1
  <2>3. QED
    BY <2>1, <2>2 DEF Fifo!lockVars
<1>2. ASSUME NEW cpu \in CPUs,
             SwitchMode(cpu) \/ Interrupt(cpu) \/ InterruptReturn(cpu) \/ Call(cpu)
      PROVE  [Fifo!Next]_(Fifo!lockVars)
  <2>1. UNCHANGED <<next_ticket, now_serving, ticket>>
    BY <1>2 DEF SwitchMode, Interrupt, InterruptReturn, Call
  <2>2. ASSUME NEW c \in Contexts
        PROVE  /\ pc[c] \in {"spin", "critical"} <=> pc'[c] \in {"spin", "critical"}
               /\ pc[c] = "critical" <=> pc'[c] = "critical"
    BY <1>2 DEF SwitchMode, Interrupt, InterruptReturn, Call, InIsr, Contexts
  <2>3. QED
    BY <1>1, <2>1, <2>2 DEF Holding
<1>3. ASSUME NEW c \in Contexts, Disable(c) \/ Restore(c)
      PROVE  [Fifo!Next]_(Fifo!lockVars)
  BY <1>1, <1>3 DEF Disable, Restore, Holding
<1>4. ASSUME NEW c \in Contexts, Take(c) PROVE [Fifo!Next]_(Fifo!lockVars)
  <2>1. {d \in Contexts : pc'[d] = "critical"} = {d \in Contexts : pc[d] = "critical"}
    BY <1>4 DEF Take
  <2>2. Fifo!Ask(c)
    BY <1>4, <2>1, TakeAppends DEF Fifo!Ask
  <2>3. QED
    BY <2>2 DEF Fifo!Next
<1>5. ASSUME NEW c \in Contexts, Acquire(c) PROVE [Fifo!Next]_(Fifo!lockVars)
  <2>1. Line' = Line
    BY <1>5, LineSame DEF Acquire, Holding
  <2>2. Holding(c) /\ ticket[c] = now_serving
    BY <1>5 DEF Acquire, Holding
  <2>3. \A d \in Contexts : pc[d] # "critical"
    BY <1>5, <2>2 DEF TicketInv, Holding, Acquire
  <2>4. Outstanding > 0 /\ 1 \in 1..Outstanding /\ 1 \in 1..TicketMod /\ Outstanding \in Nat
    BY <2>2, ModPositive, SMTT(30) DEF TicketInv, PlacesOK, Dist
  <2>5. Line # <<>> /\ Line[1] = c
    <3>1. Line[1] \in Contexts /\ Holding(Line[1]) /\ ticket[Line[1]] = At(1)
      BY <2>4 DEF LineOK
    <3>2. At(1) = now_serving
      BY <2>4, ModPositive DEF PlacesOK
    <3>3. QED
      BY <2>2, <2>4, <3>1, <3>2, SMTT(30) DEF TicketInv, LineOK
  <2>6. {d \in Contexts : pc[d] = "critical"} = {} /\ {d \in Contexts : pc'[d] = "critical"} = {c}
    BY <1>5, <2>3 DEF Acquire
  <2>7. Fifo!Enter(c)
    BY <2>1, <2>5, <2>6 DEF Fifo!Enter, LineOK
  <2>8. QED
    BY <2>7 DEF Fifo!Next
<1>6. ASSUME NEW c \in Contexts, Release(c) PROVE [Fifo!Next]_(Fifo!lockVars)
  <2>1. \A d \in Contexts : pc[d] = "critical" => d = c
    BY <1>6 DEF Release, TicketInv, Holding
  <2>2. {d \in Contexts : pc[d] = "critical"} = {c} /\ {d \in Contexts : pc'[d] = "critical"} = {}
    BY <1>6, <2>1 DEF Release
  <2>3. Fifo!Leave(c)
    BY <1>6, <2>2, ReleaseTakesHead, Zenon DEF Fifo!Leave
  <2>4. QED
    BY <2>3, Zenon DEF Fifo!Next
<1>7. CASE UNCHANGED vars
  BY <1>1, <1>7 DEF vars, Holding
<1>8. QED
  BY <1>2, <1>3, <1>4, <1>5, <1>6, <1>7 DEF Next

\* "Waiters are served in acquisition order" (sync.rs): the ticket lock
\* implements the first-come first-served lock, for any number of CPUs and
\* through every wrap of the 32-bit counters.
THEOREM SpinlockServedInOrder == Spec => ServedInOrder
<1>1. LockInv /\ LockInv' /\ [Next]_vars => [Fifo!Next]_(Fifo!lockVars)
  <2>1. LockInv => PlacesOK /\ LineOK
    BY LinePlaces, LineHolders
  <2>2. LockInv' => PlacesOK' /\ LineOK'
    BY <2>1, PTL
  <2>3. QED
    BY <2>1, <2>2, StepRefines
<1>2. QED
  BY <1>1, LineInit, LockInvariant, PTL DEF Spec, ServedInOrder, Fifo!Spec

=============================================================================
