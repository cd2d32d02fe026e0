------------------------ MODULE TlbShootdownProofs ------------------------
(***************************************************************************)
(* With the interrupt handler of riscv64, which looks whether it is asked, *)
(* the shootdown keeps every CPU coherent with the page tables, for any    *)
(* number of CPUs, address spaces and pages.                               *)
(***************************************************************************)
EXTENDS TlbShootdown, TLAPS

-----------------------------------------------------------------------------
(* The actions, one lemma per conjunct of the invariant.                   *)

\* At boot every CPU is idle and nothing is mapped or cached.
LEMMA ShootdownInvInit == Init => ShootdownInv
  BY ShootdownAssumption
  DEF Init, ShootdownInv, TypeOK, Jobs, Bounds, ActiveInv, ActiveAt, RequestInv, Working, InSpace, Places, NoJob

\* Using up one of what a bound of the model allows leaves a bound.
LEMMA CountDown ==
  \A b \in Bounds :
    /\ b.changes > 0 => [b EXCEPT !.changes = @ - 1] \in Bounds
    /\ b.switches > 0 => [b EXCEPT !.switches = @ - 1] \in Bounds
    /\ b.wakeups > 0 => [b EXCEPT !.wakeups = @ - 1] \in Bounds
<1>1. MaxChanges \in Nat /\ MaxSwitches \in Nat /\ MaxWakeups \in Nat
  BY ShootdownAssumption, Zenon
<1>2. QED
  BY <1>1 DEF Bounds

\* A job stays a job when its space or its mask is set.
LEMMA JobChange ==
  \A j \in Jobs :
    /\ \A s \in Spaces \cup {None} : [j EXCEPT !.space = s] \in Jobs
    /\ \A m \in SUBSET Cpus : [j EXCEPT !.mask = m] \in Jobs
  BY DEF Jobs

\* Every step of a page-table change, of the shootdown, of the handler and of
\* a switch keeps the state well typed.
LEMMA TypeStep == TypeOK /\ ActiveInv /\ Next => TypeOK'
<1> SUFFICES ASSUME TypeOK, ActiveInv, NEW c \in Cpus,
                    \/ KernelStep(c) \/ Interrupt(c) \/ HandlerStep(c) \/ Wakeup(c)
                    \/ \E v \in Pages : Access(c, v)
                    \/ \E s \in Spaces \cup {None} : Leave(c, s)
                    \/ \E k \in Kinds, s \in Spaces, v \in Pages, t \in Translations \cup {None} :
                           Begin(c, k, s, v, t)
             PROVE  TypeOK'
  BY Zenon DEF Next
<1> USE DEF TypeOK, Step, HandlerGoes, Places, NoJob, memory, request
<1>1. ASSUME NEW v \in Pages, Access(c, v) PROVE TypeOK'
  BY <1>1 DEF Access, ActiveInv, ActiveAt, InSpace
<1>2. ASSUME NEW k \in Kinds, NEW s \in Spaces, NEW v \in Pages,
             NEW t \in Translations \cup {None}, Begin(c, k, s, v, t)
      PROVE  TypeOK'
  <2>1. left' \in Bounds
    BY <1>2, CountDown, Zenon DEF Begin
  <2>2. job' = [job EXCEPT ![c] = [kind |-> k, space |-> s, page |-> v, to |-> t, mask |-> {}]]
    BY <1>2, Zenon DEF Begin
  <2>3. QED
    BY <1>2, <2>1, <2>2 DEF Begin, Jobs
<1>3. ASSUME NEW s \in Spaces \cup {None}, Leave(c, s) PROVE TypeOK'
  <2>1. left' \in Bounds
    BY <1>3, CountDown, Zenon DEF Leave
  <2>2. job' = [job EXCEPT ![c] = [job[c] EXCEPT !.space = s]]
    BY <1>3, Zenon DEF Leave
  <2>3. active_cpus' \in [Spaces -> SUBSET Cpus]
    BY <1>3, Zenon DEF Leave
  <2>4. at' \in [Cpus -> Places]
    BY <1>3 DEF Leave
  <2>5. UNCHANGED <<pte, tlb, pt_lock, request, space, handler>>
    BY <1>3, Zenon DEF Leave
  <2>6. job' \in [Cpus -> Jobs]
    BY <2>2, JobChange, Zenon
  <2>7. QED
    BY <2>1, <2>3, <2>4, <2>5, <2>6, Zenon
<1>4. CASE PtLock(c)
  BY <1>4 DEF PtLock, ActiveInv, ActiveAt, Working
<1>5. CASE PtContend(c)
  BY <1>5, Zenon DEF PtContend
<1>6. CASE Write(c)
  BY <1>6, Zenon DEF Write, Jobs
<1>7. CASE WriteFails(c)
  BY <1>7, Zenon DEF WriteFails, Unlocked, Jobs
<1>8. CASE ReadMask(c)
  <2>1. job' = [job EXCEPT ![c] = [job[c] EXCEPT !.mask = active_cpus[job[c].space] \ {c}]]
    BY <1>8, Zenon DEF ReadMask
  <2>2. active_cpus[job[c].space] \ {c} \in SUBSET Cpus
    BY <1>8, Zenon DEF ReadMask, ActiveInv, ActiveAt, Working
  <2>3. job' \in [Cpus -> Jobs]
    BY <2>1, <2>2, JobChange, Zenon
  <2>4. at' \in [Cpus -> Places]
    BY <1>8, Zenon DEF ReadMask
  <2>5. QED
    BY <1>8, <2>3, <2>4, Zenon DEF ReadMask
<1>9. CASE Flush(c)
  BY <1>9, Zenon DEF Flush, Unlocked, Jobs
<1>10. CASE ShootdownLock(c)
  BY <1>10, Zenon DEF ShootdownLock
<1>11. CASE StoreVa(c)
  BY <1>11, Zenon DEF StoreVa, Jobs
<1>12. CASE StorePending(c)
  BY <1>12, Zenon DEF StorePending, Jobs
<1>13. CASE Send(c)
  BY <1>13, Zenon DEF Send, Jobs
<1>14. CASE Resend(c)
  <2>1. job' = [job EXCEPT ![c] = [job[c] EXCEPT !.mask = pending_cpus]]
    BY <1>14, Zenon DEF Resend
  <2>2. job' \in [Cpus -> Jobs]
    BY <2>1, JobChange, Zenon
  <2>3. QED
    BY <1>14, <2>2, Zenon DEF Resend
<1>15. CASE Done(c)
  BY <1>15, Zenon DEF Done
<1>16. CASE LoadKernelRoot(c)
  BY <1>16, Zenon DEF LoadKernelRoot, Jobs
<1>17. CASE MarkActive(c)
  BY <1>17, Zenon DEF MarkActive, Jobs
<1>18. CASE Activate(c)
  BY <1>18, Zenon DEF Activate, Jobs
<1>19. CASE Interrupt(c)
  BY <1>19, Zenon DEF Interrupt
<1>20. CASE HandlerStep(c)
  <2>1. CASE HandlerCheck(c)
    BY <2>1, Zenon DEF HandlerCheck
  <2>2. CASE HandlerFlush(c)
    BY <2>2 DEF HandlerFlush
  <2>3. CASE HandlerAck(c)
    BY <2>3, Zenon DEF HandlerAck
  <2>4. QED
    BY <1>20, <2>1, <2>2, <2>3, Zenon DEF HandlerStep
<1>21. CASE Wakeup(c)
  <2>1. left' \in Bounds
    BY <1>21, CountDown, Zenon DEF Wakeup
  <2>2. QED
    BY <1>21, <2>1, Zenon DEF Wakeup
<1>22. QED
  BY <1>1, <1>2, <1>3, <1>4, <1>5, <1>6, <1>7, <1>8, <1>9, <1>10, <1>11, <1>12, <1>13, <1>14,
     <1>15, <1>16, <1>17, <1>18, <1>19, <1>20, <1>21, Zenon DEF KernelStep

\* Every step keeps the CPUs that run in a space, and those that are about to,
\* marked active in it.
LEMMA ActiveStep == TypeOK /\ ActiveInv /\ Next => ActiveInv'
<1> SUFFICES ASSUME TypeOK, ActiveInv, NEW c \in Cpus, NEW d \in Cpus,
                    \/ KernelStep(c) \/ Interrupt(c) \/ HandlerStep(c) \/ Wakeup(c)
                    \/ \E v \in Pages : Access(c, v)
                    \/ \E s \in Spaces \cup {None} : Leave(c, s)
                    \/ \E k \in Kinds, s \in Spaces, v \in Pages, t \in Translations \cup {None} :
                           Begin(c, k, s, v, t)
             PROVE  ActiveAt(d)'
  BY Zenon DEF Next, ActiveInv
<1> USE DEF TypeOK, ActiveInv, ActiveAt, Step, HandlerGoes, NoJob, memory, request, Working, InSpace
<1>1. ASSUME NEW v \in Pages, Access(c, v) PROVE ActiveAt(d)'
  BY <1>1, Zenon DEF Access
<1>2. ASSUME NEW k \in Kinds, NEW s \in Spaces, NEW v \in Pages,
             NEW t \in Translations \cup {None}, Begin(c, k, s, v, t)
      PROVE  ActiveAt(d)'
  BY <1>2 DEF Begin
<1>3. ASSUME NEW s \in Spaces \cup {None}, Leave(c, s) PROVE ActiveAt(d)'
  BY <1>3 DEF Leave
<1>4. CASE PtLock(c)
  BY <1>4 DEF PtLock
<1>5. CASE PtContend(c)
  BY <1>5 DEF PtContend
<1>6. CASE Write(c)
  BY <1>6 DEF Write
<1>7. CASE WriteFails(c)
  BY <1>7 DEF WriteFails
<1>8. CASE ReadMask(c)
  BY <1>8 DEF ReadMask
<1>9. CASE Flush(c)
  BY <1>9, Zenon DEF Flush
<1>10. CASE ShootdownLock(c)
  BY <1>10, Zenon DEF ShootdownLock
<1>11. CASE StoreVa(c)
  BY <1>11, Zenon DEF StoreVa
<1>12. CASE StorePending(c)
  BY <1>12, Zenon DEF StorePending
<1>13. CASE Send(c)
  BY <1>13, Zenon DEF Send
<1>14. CASE Resend(c)
  BY <1>14 DEF Resend
<1>15. CASE Done(c)
  BY <1>15 DEF Done
<1>16. CASE LoadKernelRoot(c)
  BY <1>16 DEF LoadKernelRoot
<1>17. CASE MarkActive(c)
  BY <1>17, Zenon DEF MarkActive
<1>18. CASE Activate(c)
  BY <1>18 DEF Activate
<1>19. CASE Interrupt(c)
  BY <1>19, Zenon DEF Interrupt
<1>20. CASE HandlerCheck(c)
  BY <1>20, Zenon DEF HandlerCheck
<1>21. CASE HandlerFlush(c)
  BY <1>21, Zenon DEF HandlerFlush
<1>22. CASE HandlerAck(c)
  BY <1>22, Zenon DEF HandlerAck
<1>23. CASE Wakeup(c)
  BY <1>23, Zenon DEF Wakeup
<1>24. QED
  BY <1>1, <1>2, <1>3, <1>4, <1>5, <1>6, <1>7, <1>8, <1>9, <1>10, <1>11, <1>12, <1>13,
     <1>14, <1>15, <1>16, <1>17, <1>18, <1>19, <1>20, <1>21, <1>22, <1>23, Zenon
  DEF KernelStep, HandlerStep

\* With the riscv64 handler, every step keeps the request record in the hands of
\* the holder of SHOOTDOWN_LOCK and every answer tied to the present request.
LEMMA RequestStep ==
  ASSUME HandlerChecks
  PROVE  TypeOK /\ ActiveInv /\ RequestInv /\ Next => RequestInv'
<1> SUFFICES ASSUME TypeOK, ActiveInv, RequestInv, NEW c \in Cpus,
                    \/ KernelStep(c) \/ Interrupt(c) \/ HandlerStep(c) \/ Wakeup(c)
                    \/ \E v \in Pages : Access(c, v)
                    \/ \E s \in Spaces \cup {None} : Leave(c, s)
                    \/ \E k \in Kinds, s \in Spaces, v \in Pages, t \in Translations \cup {None} :
                           Begin(c, k, s, v, t)
             PROVE  RequestInv'
  BY Zenon DEF Next
<1>0. None \notin Cpus /\ None \notin Pages
  BY ShootdownAssumption, Zenon
<1> USE DEF TypeOK, RequestInv, Step, HandlerGoes, NoJob, memory, request
<1>1. ASSUME NEW v \in Pages, Access(c, v) PROVE RequestInv'
  BY <1>0, <1>1 DEF Access
<1>2. ASSUME NEW k \in Kinds, NEW s \in Spaces, NEW v \in Pages,
             NEW t \in Translations \cup {None}, Begin(c, k, s, v, t)
      PROVE  RequestInv'
  BY <1>0, <1>2 DEF Begin
<1>3. ASSUME NEW s \in Spaces \cup {None}, Leave(c, s) PROVE RequestInv'
  BY <1>0, <1>3 DEF Leave
<1>4. CASE PtLock(c)
  BY <1>0, <1>4 DEF PtLock
<1>5. CASE PtContend(c)
  BY <1>0, <1>5 DEF PtContend
<1>6. CASE Write(c)
  BY <1>0, <1>6 DEF Write
<1>7. CASE WriteFails(c)
  BY <1>0, <1>7 DEF WriteFails
<1>8. CASE ReadMask(c)
  BY <1>0, <1>8 DEF ReadMask
<1>9. CASE Flush(c)
  BY <1>0, <1>9 DEF Flush
<1>10. CASE ShootdownLock(c)
  BY <1>0, <1>10 DEF ShootdownLock
<1>11. CASE StoreVa(c)
  BY <1>0, <1>11 DEF StoreVa
<1>12. CASE StorePending(c)
  BY <1>0, <1>12 DEF StorePending
<1>13. CASE Send(c)
  BY <1>0, <1>13 DEF Send
<1>14. CASE Resend(c)
  BY <1>0, <1>14 DEF Resend
<1>15. CASE Done(c)
  BY <1>0, <1>15 DEF Done
<1>16. CASE LoadKernelRoot(c)
  BY <1>0, <1>16 DEF LoadKernelRoot
<1>17. CASE MarkActive(c)
  BY <1>0, <1>17 DEF MarkActive
<1>18. CASE Activate(c)
  BY <1>0, <1>18 DEF Activate
<1>19. CASE Interrupt(c)
  BY <1>0, <1>19 DEF Interrupt
<1>20. CASE HandlerCheck(c)
  BY <1>0, <1>20 DEF HandlerCheck
<1>21. CASE HandlerFlush(c)
  <2>1. PICK d \in Cpus : at[d] \in {"send", "wait"}
    BY <1>21, Zenon DEF HandlerFlush
  <2>2. flush_va \in Pages
    BY <2>1 DEF ActiveInv, ActiveAt, Working
  <2>3. tlb'[c][flush_va] = None
    BY <1>21, <2>2 DEF HandlerFlush
  <2>4. \A e \in Cpus \ {c} : tlb'[e] = tlb[e] /\ handler'[e] = handler[e]
    BY <1>21 DEF HandlerFlush
  <2>5. \A e \in Cpus : handler'[e] = "ack" => tlb'[e][flush_va'] = None
    BY <1>21, <2>3, <2>4 DEF HandlerFlush
  <2>6. QED
    BY <1>21, <2>5, Zenon DEF HandlerFlush
<1>22. CASE HandlerAck(c)
  BY <1>0, <1>22, Zenon DEF HandlerAck
<1>23. CASE Wakeup(c)
  BY <1>0, <1>23, Zenon DEF Wakeup
<1>24. QED
  BY <1>0, <1>1, <1>2, <1>3, <1>4, <1>5, <1>6, <1>7, <1>8, <1>9, <1>10, <1>11, <1>12, <1>13, <1>14, <1>15, <1>16, <1>17, <1>18, <1>19, <1>20, <1>21, <1>22, <1>23, Zenon
  DEF KernelStep, HandlerStep

-----------------------------------------------------------------------------
(* Coherence.                                                              *)

\* A call that covers a CPU goes on covering it as long as the CPU stays in its
\* space and nothing of the request that the cover rests on has changed.
LEMMA CoverKept ==
  ASSUME NEW c \in Cpus, NEW d \in Cpus, NEW v \in Pages, Covers(d, c, v),
         at'[d] = at[d], job'[d] = job[d], space'[c] = space[c],
         c \in pending_cpus => c \in pending_cpus'
  PROVE  Covers(d, c, v)'
  BY Zenon DEF Covers, Changing

\* A CPU stays coherent with the page table when its translation is kept or
\* dropped, the entry is kept, and so are the calls that cover it.
LEMMA CoherentKept ==
  ASSUME NEW e \in Cpus, NEW w \in Pages, Coherent(e, w),
         tlb'[e][w] \in {tlb[e][w], None}, pte'[space[e]][w] = pte[space[e]][w],
         space'[e] = space[e],
         \A d \in Cpus : Covers(d, e, w) => Covers(d, e, w)'
  PROVE  Coherent(e, w)'
  BY Zenon DEF Coherent

\* With the riscv64 handler, every step leaves each CPU in a space with no
\* translation that differs from the page table, or covered by a call.
LEMMA CoherentStep ==
  ASSUME HandlerChecks
  PROVE  ShootdownInv /\ Next =>
           (\A e \in Cpus, w \in Pages : at[e] \in InSpace => Coherent(e, w))'
<1> SUFFICES ASSUME ShootdownInv, NEW c \in Cpus, NEW e \in Cpus, NEW w \in Pages, at'[e] \in InSpace,
                    \/ KernelStep(c) \/ Interrupt(c) \/ HandlerStep(c) \/ Wakeup(c)
                    \/ \E v \in Pages : Access(c, v)
                    \/ \E s \in Spaces \cup {None} : Leave(c, s)
                    \/ \E k \in Kinds, s \in Spaces, v \in Pages, t \in Translations \cup {None} :
                           Begin(c, k, s, v, t)
             PROVE  Coherent(e, w)'
  BY DEF Next
<1>0. TypeOK /\ ActiveInv /\ RequestInv /\ (at[e] \in InSpace => Coherent(e, w))
  BY Zenon DEF ShootdownInv
<1> DEFINE Moves == /\ at[e] \in InSpace /\ space'[e] = space[e]
                    /\ pending_cpus' = pending_cpus
                    /\ \A d \in Cpus \ {c} : at'[d] = at[d] /\ job'[d] = job[d]
           Keeps == tlb'[e] = tlb[e] /\ pte' = pte
<1> USE DEF Step, HandlerGoes, memory, request
<1>01. ASSUME Moves, Keeps, at[c] \notin ChangingPlaces PROVE Coherent(e, w)'
  <2>1. ASSUME NEW d \in Cpus, Covers(d, e, w) PROVE Covers(d, e, w)'
    <3>1. d # c
      BY <1>01, <2>1, Zenon DEF Covers, Changing
    <3>2. QED
      BY <1>01, <2>1, <3>1, CoverKept, Zenon
  <2>2. QED
    BY <1>0, <1>01, <2>1, CoherentKept, Zenon
<1>02. ASSUME Moves, Keeps, Covers(c, e, w) => Covers(c, e, w)' PROVE Coherent(e, w)'
  <2>1. ASSUME NEW d \in Cpus, Covers(d, e, w) PROVE Covers(d, e, w)'
    <3>1. CASE d = c
      BY <1>02, <2>1, <3>1, Zenon
    <3>2. CASE d # c
      BY <1>02, <2>1, <3>2, CoverKept, Zenon
    <3>3. QED
      BY <3>1, <3>2, Zenon
  <2>2. QED
    BY <1>0, <1>02, <2>1, CoherentKept, Zenon
<1>1. ASSUME NEW v \in Pages, Access(c, v) PROVE Coherent(e, w)'
  <2>1. Moves /\ pte' = pte /\ at[c] \notin ChangingPlaces
    BY <1>1, <1>0 DEF Access, TypeOK, InSpace, Working, ChangingPlaces
  <2>2. CASE e = c /\ w = v
    <3>1. tlb'[e][w] = pte[space[e]][w]
      BY <1>1, <1>0, <2>2 DEF Access, TypeOK
    <3>2. QED
      BY <2>1, <3>1, Zenon DEF Coherent
  <2>3. CASE ~(e = c /\ w = v)
    <3>1. tlb'[e][w] = tlb[e][w]
      BY <1>1, <1>0, <2>3 DEF Access, TypeOK
    <3>2. ASSUME NEW d \in Cpus, Covers(d, e, w) PROVE Covers(d, e, w)'
      <4>1. d # c
        BY <2>1, <3>2, Zenon DEF Covers, Changing
      <4>2. QED
        BY <2>1, <3>2, <4>1, CoverKept, Zenon
    <3>3. QED
      BY <1>0, <2>1, <3>1, <3>2, CoherentKept, Zenon
  <2>4. QED
    BY <2>2, <2>3, Zenon
<1>2. ASSUME NEW k \in Kinds, NEW s \in Spaces, NEW v \in Pages,
             NEW t \in Translations \cup {None}, Begin(c, k, s, v, t)
      PROVE  Coherent(e, w)'
  <2>1. Moves /\ Keeps /\ at[c] \notin ChangingPlaces
    BY <1>2, <1>0 DEF Begin, TypeOK, InSpace, Working, ChangingPlaces
  <2>2. QED
    BY <2>1, <1>01, Zenon
<1>3. ASSUME NEW s \in Spaces \cup {None}, Leave(c, s) PROVE Coherent(e, w)'
  <2>1. Moves /\ Keeps /\ at[c] \notin ChangingPlaces
    BY <1>3, <1>0 DEF Leave, TypeOK, InSpace, Working, ChangingPlaces
  <2>2. QED
    BY <2>1, <1>01, Zenon
<1>4. CASE PtLock(c)
  <2>1. Moves /\ Keeps /\ at[c] \notin ChangingPlaces
    BY <1>4, <1>0 DEF PtLock, TypeOK, InSpace, Working, ChangingPlaces
  <2>2. QED
    BY <2>1, <1>01, Zenon
<1>5. CASE PtContend(c)
  <2>1. Moves /\ Keeps /\ at[c] \notin ChangingPlaces
    BY <1>5, <1>0 DEF PtContend, TypeOK, InSpace, Working, ChangingPlaces
  <2>2. QED
    BY <2>1, <1>01, Zenon
<1>6. CASE WriteFails(c)
  <2>1. Moves /\ Keeps /\ at[c] \notin ChangingPlaces
    BY <1>6, <1>0, Zenon DEF WriteFails, TypeOK, InSpace, Working, ChangingPlaces
  <2>2. QED
    BY <2>1, <1>01, Zenon
<1>7. CASE LoadKernelRoot(c)
  <2>1. Moves /\ Keeps /\ at[c] \notin ChangingPlaces
    BY <1>7, <1>0, Zenon DEF LoadKernelRoot, TypeOK, InSpace, Working, ChangingPlaces
  <2>2. QED
    BY <2>1, <1>01, Zenon
<1>8. CASE MarkActive(c)
  <2>1. Moves /\ Keeps /\ at[c] \notin ChangingPlaces
    BY <1>8, <1>0, Zenon DEF MarkActive, TypeOK, InSpace, Working, ChangingPlaces
  <2>2. QED
    BY <2>1, <1>01
<1>9. CASE Activate(c)
  <2>1. CASE e = c
    BY <1>9, <1>0, <2>1, Zenon DEF Activate, TypeOK, Coherent
  <2>2. CASE e # c
    <3>1. Moves /\ Keeps /\ at[c] \notin ChangingPlaces
      BY <1>9, <1>0, <2>2, Zenon DEF Activate, TypeOK, InSpace, Working, ChangingPlaces
    <3>2. QED
      BY <3>1, <1>01
  <2>3. QED
    BY <2>1, <2>2, Zenon
<1>10. CASE Write(c)
  <2>1. Moves /\ at[c] \notin ChangingPlaces
    BY <1>10, <1>0, Zenon DEF Write, TypeOK, InSpace, Working, ChangingPlaces
  <2>2. CASE space[e] = job[c].space /\ w = job[c].page
    <3>1. Covers(c, e, w)'
      BY <1>10, <1>0, <2>1, <2>2, Zenon DEF Write, TypeOK, Covers, Changing, ChangingPlaces
    <3>2. QED
      BY <3>1, Zenon DEF Coherent
  <2>3. CASE ~(space[e] = job[c].space /\ w = job[c].page)
    <3>1. space[e] \in Spaces /\ job[c].space \in Spaces /\ job[c].page \in Pages
      BY <1>10, <1>0, <2>1, Zenon DEF Write, ActiveInv, ActiveAt, Working
    <3>2. pte'[space[e]][w] = pte[space[e]][w]
      BY <1>10, <1>0, <2>3, <3>1, Zenon DEF Write, TypeOK
    <3>3. tlb'[e][w] \in {tlb[e][w], None}
      BY <1>10, <1>0, <3>1, Zenon DEF Write, TypeOK
    <3>4. ASSUME NEW d \in Cpus, Covers(d, e, w) PROVE Covers(d, e, w)'
      <4>1. d # c
        BY <2>1, <3>4, Zenon DEF Covers, Changing
      <4>2. QED
        BY <2>1, <3>4, <4>1, CoverKept, Zenon
    <3>5. QED
      BY <1>0, <2>1, <3>2, <3>3, <3>4, CoherentKept, Zenon
  <2>4. QED
    BY <2>2, <2>3, Zenon
<1>11. CASE ReadMask(c)
  <2>1. Moves /\ Keeps
    BY <1>11, <1>0 DEF ReadMask, TypeOK, InSpace, Working
  <2>2. e \in active_cpus[space[e]]
    BY <1>0, <2>1, Zenon DEF ActiveInv, ActiveAt
  <2>3. ASSUME Covers(c, e, w) PROVE Covers(c, e, w)'
    <3>1. job'[c] = [job[c] EXCEPT !.mask = active_cpus[job[c].space] \ {c}]
      BY <1>11, <1>0, Zenon DEF ReadMask, TypeOK
    <3>2. /\ job[c].space = space[e] /\ job[c].page = w
          /\ job'[c].space = space'[e] /\ job'[c].page = w
      BY <1>0, <2>1, <2>3, <3>1 DEF Covers, Changing, TypeOK, Jobs
    <3>3. job'[c].mask = active_cpus[space[e]] \ {c}
      BY <1>0, <3>1, <3>2 DEF TypeOK, Jobs
    <3>4. at'[c] = IF active_cpus[space[e]] \ {c} = {} THEN "flush" ELSE "sd_lock"
      BY <1>11, <1>0, <3>2 DEF ReadMask, TypeOK
    <3>5. e # c => e \in job'[c].mask /\ at'[c] = "sd_lock"
      BY <2>2, <3>3, <3>4, Zenon
    <3>6. at'[c] \in ChangingPlaces
      BY <3>4, Zenon DEF ChangingPlaces
    <3>7. QED
      BY <3>2, <3>5, <3>6, Zenon DEF Covers, Changing
  <2>4. QED
    BY <2>1, <2>3, <1>02, Zenon
<1>12. CASE Flush(c)
  <2>1. Moves /\ pte' = pte
    BY <1>12, <1>0, Zenon DEF Flush, TypeOK, InSpace, Working
  <2>2. tlb'[e][w] \in {tlb[e][w], None}
    BY <1>12, <1>0, Zenon DEF Flush, TypeOK
  <2>3. CASE Covers(c, e, w)
    <3>1. e = c /\ w = job[c].page
      BY <1>12, <2>3, Zenon DEF Flush, Covers, Changing
    <3>2. tlb'[e][w] = None
      BY <1>12, <1>0, <3>1, Zenon DEF Flush, TypeOK
    <3>3. QED
      BY <3>2, Zenon DEF Coherent
  <2>4. CASE ~Covers(c, e, w)
    <3>1. ASSUME NEW d \in Cpus, Covers(d, e, w) PROVE Covers(d, e, w)'
      BY <2>1, <2>4, <3>1, CoverKept, Zenon
    <3>2. QED
      BY <1>0, <2>1, <2>2, <3>1, CoherentKept
  <2>5. QED
    BY <2>3, <2>4, Zenon
<1>13. CASE ShootdownLock(c)
  <2>1. Moves /\ Keeps
    BY <1>13, <1>0 DEF ShootdownLock, TypeOK, InSpace, Working
  <2>2. Covers(c, e, w) => Covers(c, e, w)'
    BY <1>13, <1>0, Zenon DEF ShootdownLock, Covers, Changing, TypeOK, ChangingPlaces
  <2>3. QED
    BY <2>1, <2>2, <1>02, Zenon
<1>14. CASE StoreVa(c)
  <2>1. Moves /\ Keeps
    BY <1>14, <1>0 DEF StoreVa, TypeOK, InSpace, Working
  <2>2. Covers(c, e, w) => Covers(c, e, w)'
    BY <1>14, <1>0, Zenon DEF StoreVa, Covers, Changing, TypeOK, ChangingPlaces
  <2>3. QED
    BY <2>1, <2>2, <1>02, Zenon
<1>15. CASE Send(c)
  <2>1. Moves /\ Keeps
    BY <1>15, <1>0, Zenon DEF Send, TypeOK, InSpace, Working
  <2>2. Covers(c, e, w) => Covers(c, e, w)'
    BY <1>15, <1>0, Zenon DEF Send, Covers, Changing, TypeOK, ChangingPlaces
  <2>3. QED
    BY <2>1, <2>2, <1>02
<1>16. CASE StorePending(c)
  <2>1. /\ at[e] \in InSpace /\ space' = space /\ tlb' = tlb /\ pte' = pte /\ job' = job
        /\ pending_cpus' = job[c].mask
        /\ \A d \in Cpus \ {c} : at'[d] = at[d]
    BY <1>16, <1>0 DEF StorePending, TypeOK, InSpace, Working
  <2>2. ASSUME NEW d \in Cpus, Covers(d, e, w) PROVE Covers(d, e, w)'
    <3>1. CASE d = c
      BY <1>16, <1>0, <2>2, <3>1, Zenon DEF StorePending, Covers, Changing, TypeOK, ChangingPlaces
    <3>2. CASE d # c
      <4>1. at[d] \notin {"send", "wait"}
        BY <1>16, <1>0, <3>2, Zenon DEF StorePending, RequestInv
      <4>2. QED
        BY <2>1, <2>2, <3>2, <4>1, Zenon DEF Covers, Changing
    <3>3. QED
      BY <3>1, <3>2
  <2>3. QED
    BY <1>0, <2>1, <2>2, CoherentKept, Zenon
<1>17. CASE Resend(c)
  <2>1. Moves /\ Keeps
    BY <1>17, <1>0 DEF Resend, TypeOK, InSpace, Working
  <2>2. job'[c].space = job[c].space /\ job'[c].page = job[c].page
    BY <1>17, <1>0 DEF Resend, TypeOK, Jobs
  <2>3. at[c] = "wait" /\ at'[c] = "send"
    BY <1>17, <1>0, Zenon DEF Resend, TypeOK
  <2>4. Covers(c, e, w) => Covers(c, e, w)'
    BY <2>1, <2>2, <2>3, Zenon DEF Covers, Changing, ChangingPlaces
  <2>5. QED
    BY <2>1, <2>4, <1>02
<1>18. CASE Done(c)
  <2>1. Moves /\ Keeps
    BY <1>18, <1>0, Zenon DEF Done, TypeOK, InSpace, Working
  <2>2. at[c] = "wait" /\ at'[c] = "flush" /\ job' = job /\ pending_cpus = {}
    BY <1>18, <1>0, Zenon DEF Done, TypeOK
  <2>3. Covers(c, e, w) => Covers(c, e, w)'
    BY <2>1, <2>2, Zenon DEF Covers, Changing, ChangingPlaces
  <2>4. QED
    BY <2>1, <2>3, <1>02
<1>19. CASE Interrupt(c)
  <2>1. Moves /\ Keeps /\ at' = at /\ job' = job
    BY <1>19, <1>0, Zenon DEF Interrupt
  <2>2. QED
    BY <2>1, <1>02, CoverKept, Zenon
<1>20. CASE HandlerCheck(c)
  <2>1. Moves /\ Keeps /\ at' = at /\ job' = job
    BY <1>20, <1>0, Zenon DEF HandlerCheck
  <2>2. QED
    BY <2>1, <1>02, CoverKept, Zenon
<1>21. CASE Wakeup(c)
  <2>1. Moves /\ Keeps /\ at' = at /\ job' = job
    BY <1>21, <1>0, Zenon DEF Wakeup
  <2>2. QED
    BY <2>1, <1>02, CoverKept
<1>22. CASE HandlerFlush(c)
  <2>1. Moves /\ pte' = pte /\ at' = at /\ job' = job
    BY <1>22, <1>0, Zenon DEF HandlerFlush
  <2>2. tlb'[e][w] \in {tlb[e][w], None}
    BY <1>22, <1>0, Zenon DEF HandlerFlush, TypeOK
  <2>3. ASSUME NEW d \in Cpus, Covers(d, e, w) PROVE Covers(d, e, w)'
    BY <2>1, <2>3, CoverKept, Zenon
  <2>4. QED
    BY <1>0, <2>1, <2>2, <2>3, CoherentKept, Zenon
<1>23. CASE HandlerAck(c)
  <2>1. /\ at[e] \in InSpace /\ space' = space /\ tlb' = tlb /\ pte' = pte
        /\ at' = at /\ job' = job /\ pending_cpus' = pending_cpus \ {c}
    BY <1>23, <1>0, Zenon DEF HandlerAck
  <2>2. CASE e # c
    <3>1. ASSUME NEW d \in Cpus, Covers(d, e, w) PROVE Covers(d, e, w)'
      BY <2>1, <2>2, <3>1, CoverKept, Zenon
    <3>2. QED
      BY <1>0, <2>1, <3>1, CoherentKept, Zenon
  <2>3. CASE e = c /\ w = flush_va
    BY <1>23, <1>0, <2>1, <2>3 DEF HandlerAck, RequestInv, Coherent
  <2>4. CASE e = c /\ w # flush_va
    <3>1. ASSUME NEW d \in Cpus, Covers(d, e, w) PROVE Covers(d, e, w)'
      <4>1. at[d] \notin {"send", "wait"}
        BY <1>0, <2>4, <3>1, Zenon DEF RequestInv, Covers, Changing
      <4>2. QED
        BY <2>1, <3>1, <4>1, Zenon DEF Covers, Changing
    <3>2. QED
      BY <1>0, <2>1, <3>1, CoherentKept
  <2>5. QED
    BY <2>2, <2>3, <2>4, Zenon
<1>24. QED
  BY <1>1, <1>2, <1>3, <1>4, <1>5, <1>6, <1>7, <1>8, <1>9, <1>10, <1>11, <1>12, <1>13,
     <1>14, <1>15, <1>16, <1>17, <1>18, <1>19, <1>20, <1>21, <1>22, <1>23, Zenon DEF KernelStep, HandlerStep

-----------------------------------------------------------------------------
(* The theorems.                                                           *)

\* The four parts of the invariant together are kept by every step.
LEMMA ShootdownInvStep ==
  ASSUME HandlerChecks
  PROVE  ShootdownInv /\ [Next]_vars => ShootdownInv'
<1> SUFFICES ASSUME ShootdownInv, [Next]_vars PROVE ShootdownInv'
  BY Zenon
<1>1. CASE Next
  BY <1>1, TypeStep, ActiveStep, RequestStep, CoherentStep, Zenon DEF ShootdownInv
<1>2. CASE UNCHANGED vars
  <2>1. TypeOK'
    BY <1>2, Zenon DEF vars, ShootdownInv, TypeOK
  <2>2. ActiveInv'
    BY <1>2, Zenon DEF vars, ShootdownInv, ActiveInv, ActiveAt
  <2>3. RequestInv'
    BY <1>2, Zenon DEF vars, ShootdownInv, RequestInv
  <2>4. ASSUME NEW e \in Cpus, NEW w \in Pages PROVE Coherent(e, w)' <=> Coherent(e, w)
    BY <1>2, Zenon DEF vars, Coherent, Covers, Changing
  <2>5. QED
    BY <1>2, <2>1, <2>2, <2>3, <2>4, Zenon DEF vars, ShootdownInv
<1>3. QED
  BY <1>1, <1>2, Zenon

\* With the riscv64 handler the invariant holds for ever, for any number of
\* CPUs, spaces and pages.
THEOREM ShootdownInvariant ==
  ASSUME HandlerChecks
  PROVE  Spec => []ShootdownInv
  BY ShootdownInvInit, ShootdownInvStep, PTL DEF Spec

\* With the riscv64 handler no user code runs on a stale translation once the
\* call that changed the page has returned: map_page, unmap_page, protect_page.
THEOREM ShootdownNoStaleTranslation ==
  ASSUME HandlerChecks
  PROVE  Spec => []NoStaleTranslation
<1>1. ShootdownInv => NoStaleTranslation
  BY Zenon DEF ShootdownInv, NoStaleTranslation, Coherent, Covers, InSpace
<1>2. QED
  BY <1>1, ShootdownInvariant, PTL

\* With the riscv64 handler a hart leaves pending_cpus only by its own answer,
\* and with the page of the present request out of its TLB.
THEOREM ShootdownAckMeansFlushed ==
  ASSUME HandlerChecks
  PROVE  Spec => AckMeansFlushed
<1>1. ShootdownInv /\ [Next]_vars => [Answered]_vars
  <2> SUFFICES ASSUME ShootdownInv, Next, NEW c \in pending_cpus, c \notin pending_cpus'
               PROVE  handler[c] = "ack" /\ tlb[c][flush_va] = None
    BY Zenon DEF Answered
  <2>1. PICK d \in Cpus : HandlerAck(d) \/ StorePending(d)
    <3>1. ASSUME NEW d \in Cpus, KernelStep(d) PROVE StorePending(d)
      BY <3>1, Zenon DEF KernelStep, PtLock, PtContend, Write, WriteFails, ReadMask, Flush, ShootdownLock,
                  StoreVa, Send, Resend, Done, LoadKernelRoot, MarkActive, Activate, memory, request
    <3>2. ASSUME NEW d \in Cpus, HandlerStep(d) PROVE HandlerAck(d)
      BY <3>2, Zenon DEF HandlerStep, HandlerCheck, HandlerFlush, HandlerGoes, memory, request
    <3>3. ASSUME NEW d \in Cpus, Interrupt(d) \/ Wakeup(d) PROVE FALSE
      BY <3>3, Zenon DEF Interrupt, Wakeup, memory, request
    <3>4. ASSUME NEW d \in Cpus, NEW v \in Pages, Access(d, v) PROVE FALSE
      BY <3>4, Zenon DEF Access, request
    <3>5. ASSUME NEW d \in Cpus, NEW s \in Spaces \cup {None}, Leave(d, s) PROVE FALSE
      BY <3>5, Zenon DEF Leave, memory, request
    <3>6. ASSUME NEW d \in Cpus, NEW k \in Kinds, NEW s \in Spaces, NEW v \in Pages,
                 NEW t \in Translations \cup {None}, Begin(d, k, s, v, t)
          PROVE  FALSE
      BY <3>6, Zenon DEF Begin, memory, request
    <3>7. QED
      BY <3>1, <3>2, <3>3, <3>4, <3>5, <3>6, Zenon DEF Next
  <2>2. c \in Cpus
    BY Zenon DEF ShootdownInv, TypeOK
  <2>3. CASE HandlerAck(d)
    BY <2>2, <2>3, Zenon DEF HandlerAck, HandlerGoes, ShootdownInv, RequestInv
  <2>4. CASE StorePending(d)
    BY <2>4, ShootdownAssumption, Zenon DEF StorePending, Step, ShootdownInv, RequestInv
  <2>5. QED
    BY <2>1, <2>3, <2>4, Zenon
<1>2. QED
  BY <1>1, ShootdownInvariant, PTL DEF Spec, AckMeansFlushed
=============================================================================
