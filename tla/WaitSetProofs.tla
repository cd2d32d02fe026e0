--------------------------- MODULE WaitSetProofs ----------------------------
(***************************************************************************)
(* Proofs about WaitSet for every size of the member table, every set of   *)
(* sources and any number of pending callers and events, with nothing      *)
(* serialising the operations: the member table and the back-pointers      *)
(* agree, a waiter is registered over a ring with entries only when a push *)
(* overtook its registration, and no readiness is forgotten but by a full  *)
(* ring, by a consumer that leaves a source non-empty, or by an add that   *)
(* looked before the source was ready and linked it after.                 *)
(***************************************************************************)
EXTENDS WaitSet, FiniteSetTheorems, WellFoundedInduction, TLAPS

\* The ring position k places after position a.  The lemmas below say what %
\* does on the ring; the proofs then reason about Pos without expanding it.
Pos(a, k) == (a + k) % MaxMembers

\* A sum of a position and an offset of at most the ring's length wraps at
\* most once.
LEMMA PosValue ==
  ASSUME NEW a \in Slots, NEW k \in 0..MaxMembers
  PROVE  Pos(a, k) = IF a + k < MaxMembers THEN a + k ELSE a + k - MaxMembers
<1>1. CASE a + k < MaxMembers
  BY <1>1, MembersAssumption DEF Pos, Slots
<1>2. CASE a + k >= MaxMembers
  BY <1>2, MembersAssumption DEF Pos, Slots
<1>3. QED
  BY <1>1, <1>2, MembersAssumption DEF Slots

\* Every index push_ready and pop_ready compute is an index of the ring.
LEMMA PosOnRing ==
  ASSUME NEW a \in Slots, NEW k \in 0..MaxMembers
  PROVE  Pos(a, k) \in Slots
  BY PosValue, MembersAssumption DEF Slots

\* Offsets add up.
LEMMA PosAdd ==
  ASSUME NEW a \in Slots, NEW j \in 0..MaxMembers, NEW k \in 0..MaxMembers,
         j + k \in 0..MaxMembers
  PROVE  Pos(Pos(a, j), k) = Pos(a, j + k)
<1>1. Pos(a, j) \in Slots
  BY PosOnRing, Zenon
<1>2. /\ Pos(a, j) = IF a + j < MaxMembers THEN a + j ELSE a + j - MaxMembers
      /\ Pos(a, j + k) = IF a + (j + k) < MaxMembers
                           THEN a + (j + k) ELSE a + (j + k) - MaxMembers
      /\ Pos(Pos(a, j), k) = IF Pos(a, j) + k < MaxMembers
                               THEN Pos(a, j) + k ELSE Pos(a, j) + k - MaxMembers
  BY <1>1, PosValue, Zenon
<1>3. QED
  BY <1>1, <1>2, MembersAssumption DEF Slots

\* The number of entries between two indices of the ring.
Dist(h, t) == (t - h + MaxMembers) % MaxMembers

\* has_ready compares the two indices; the ring's length is their distance, and
\* going that far from the head arrives at the tail.
LEMMA DistValue ==
  ASSUME NEW h \in Slots, NEW t \in Slots
  PROVE  /\ Dist(h, t) = IF h <= t THEN t - h ELSE t - h + MaxMembers
         /\ Dist(h, t) \in Slots
         /\ Pos(h, Dist(h, t)) = t
         /\ Dist(h, t) = 0 <=> h = t
<1>1. Dist(h, t) = IF h <= t THEN t - h ELSE t - h + MaxMembers
  <2>1. CASE h <= t
    BY <2>1, MembersAssumption DEF Dist, Slots
  <2>2. CASE h > t
    BY <2>2, MembersAssumption DEF Dist, Slots
  <2>3. QED
    BY <2>1, <2>2 DEF Slots
<1>2. Dist(h, t) \in Slots /\ Dist(h, t) \in 0..MaxMembers
  BY <1>1, MembersAssumption DEF Slots
<1>3. QED
  BY <1>1, <1>2, PosValue, MembersAssumption DEF Slots

\* One more entry makes the distance one more, unless it fills the ring.
LEMMA DistPush ==
  ASSUME NEW h \in Slots, NEW t \in Slots, Pos(t, 1) # h
  PROVE  Dist(h, Pos(t, 1)) = Dist(h, t) + 1
<1>0. 1 \in 0..MaxMembers
  BY MembersAssumption
<1>1. /\ Pos(t, 1) \in Slots
      /\ Pos(t, 1) = IF t + 1 < MaxMembers THEN t + 1 ELSE t + 1 - MaxMembers
  BY <1>0, PosValue, PosOnRing, Zenon
<1>2. /\ Dist(h, t) = IF h <= t THEN t - h ELSE t - h + MaxMembers
      /\ Dist(h, Pos(t, 1)) = IF h <= Pos(t, 1) THEN Pos(t, 1) - h
                              ELSE Pos(t, 1) - h + MaxMembers
  BY <1>1, DistValue, Zenon
<1>3. QED
  BY <1>1, <1>2, MembersAssumption DEF Slots

\* Taking j entries off the ring makes the distance that much less.
LEMMA DistPop ==
  ASSUME NEW h \in Slots, NEW t \in Slots, NEW j \in 0..Dist(h, t)
  PROVE  Dist(Pos(h, j), t) = Dist(h, t) - j
<1>1. /\ Dist(h, t) \in Slots
      /\ Dist(h, t) = IF h <= t THEN t - h ELSE t - h + MaxMembers
  BY DistValue, Zenon
<1>2. j \in 0..MaxMembers
  BY <1>1, MembersAssumption DEF Slots
<1>3. /\ Pos(h, j) \in Slots
      /\ Pos(h, j) = IF h + j < MaxMembers THEN h + j ELSE h + j - MaxMembers
  BY <1>2, PosValue, PosOnRing, Zenon
<1>4. Dist(Pos(h, j), t) = IF Pos(h, j) <= t THEN t - Pos(h, j)
                           ELSE t - Pos(h, j) + MaxMembers
  BY <1>3, DistValue, Zenon
<1>5. QED
  BY <1>1, <1>2, <1>3, <1>4, MembersAssumption DEF Slots

\* A set of natural numbers that is not empty has a least element, so the
\* searches that take the first slot or the first live entry find one.
LEMMA LeastElement ==
  ASSUME NEW S \in SUBSET Nat, S # {}
  PROVE  \E k \in S : \A j \in S : k <= j
<1>1. PICK k \in S : \A j \in S : ~(<<j, k>> \in OpToRel(<, Nat))
  BY NatLessThanWellFounded, WFMin, Zenon
<1>2. \A j \in S : ~(j < k)
  BY <1>1, Zenon DEF OpToRel
<1>3. QED
  BY <1>2

-----------------------------------------------------------------------------
(* The inductive invariant.                                                *)

\* Where the consumer is, and what that says of the wait set: between the look
\* at the ring and the registration (pc = "popped") the ring stays empty, or a
\* push is known to have overtaken the consumer.
ConsumerOK ==
  /\ waiter <=> state = "Blocked"
  /\ state = "Running" <=> pc # "blocked"
  /\ pc = "popped" => ready_head = ready_tail \/ overtaken

\* A source has no back-pointer while it is being added.
AddOK == \A s \in Sources : wait_set[s] => s # adding

WInv == WaitSetInv /\ ConsumerOK /\ AddOK

\* A registered source is found through its back-pointer.
LEMMA Registered ==
  ASSUME WInv, NEW s \in Sources, wait_set[s]
  PROVE  /\ members[wait_set_member_idx[s]] = s /\ Member(s)
         /\ Index(s) = wait_set_member_idx[s] /\ wait_set_member_idx[s] \in Slots
  BY Zenon DEF WInv, WaitSetInv, TypeOK, MembersConsistent, AddOK, Member, Index

\* While nothing is being added, the members are the sources with a back-pointer.
LEMMA NothingAdded ==
  ASSUME adding = NoSource, NEW s \in Sources
  PROVE  (Member(s) <=> wait_set[s]) /\ Index(s) = wait_set_member_idx[s]
  BY NoSourceAssumption, Zenon DEF Member, Index

\* What push_ready does: it forgets no entry, and adds one or records the loss.
LEMMA PushEffect ==
  ASSUME TypeOK, NEW idx \in Slots, push_ready(idx)
  PROVE  /\ ready_ring' \in [Slots -> Slots]
         /\ ready_head' = ready_head /\ ready_tail' \in Slots
         /\ dropped' \in BOOLEAN /\ (dropped => dropped')
         /\ overtaken' \in BOOLEAN
         /\ pc = "popped" =>
              overtaken' \/ (ready_tail' = ready_tail /\ (overtaken => overtaken'))
         /\ \A k \in 0..(ReadyLen - 1) :
              k \in 0..(ReadyLen' - 1) /\ ReadyEntry(k)' = ReadyEntry(k)
         /\ dropped' \/ \E k \in 0..(ReadyLen' - 1) : ReadyEntry(k)' = idx
<1> DEFINE next == Pos(ready_tail, 1)
<1>0. next \in Slots /\ 1 \in 0..MaxMembers
  BY PosOnRing, MembersAssumption DEF TypeOK
<1>1. CASE next = ready_head
  <2>1. dropped' = TRUE /\ UNCHANGED <<ready_ring, ready_head, ready_tail, overtaken>>
    BY <1>1, Zenon DEF push_ready, Pos
  <2>2. ReadyLen' = ReadyLen /\ \A k : ReadyEntry(k)' = ReadyEntry(k)
    BY <2>1, Zenon DEF ReadyLen, ReadyEntry
  <2>3. dropped' \in BOOLEAN /\ dropped'
    BY <2>1, Zenon
  <2>4. QED
    BY <2>1, <2>2, <2>3, Zenon DEF TypeOK
<1>2. CASE next # ready_head
  <2>1. /\ ready_ring' = [ready_ring EXCEPT ![ready_tail] = idx]
        /\ ready_tail' = next /\ ready_head' = ready_head /\ dropped' = dropped
        /\ overtaken' = (overtaken \/ pc = "popped")
    BY <1>2, Zenon DEF push_ready, Pos
  <2>2. /\ ready_head \in Slots /\ ready_tail \in Slots /\ ready_tail' \in Slots
        /\ ready_ring' \in [Slots -> Slots] /\ dropped' \in BOOLEAN
    BY <1>0, <2>1, Zenon DEF TypeOK
  <2>4. overtaken' \in BOOLEAN /\ (pc = "popped" => overtaken')
    BY <2>1, Zenon DEF TypeOK
  <2>3. ReadyLen \in Slots /\ Pos(ready_head, ReadyLen) = ready_tail
    BY <2>2, DistValue, Zenon DEF Dist, ReadyLen
  <2>5. ReadyLen' = ReadyLen + 1
    <3>1. ReadyLen' = Dist(ready_head, next) /\ ReadyLen = Dist(ready_head, ready_tail)
      BY <2>1, Zenon DEF ReadyLen, Dist
    <3>2. QED
      BY <1>2, <2>2, <3>1, DistPush, Zenon
  <2>6. \A k \in 0..(ReadyLen - 1) : Pos(ready_head, k) \in Slots
                                     /\ Pos(ready_head, k) # ready_tail
    <3> TAKE k \in 0..(ReadyLen - 1)
    <3>1. k \in 0..MaxMembers /\ ReadyLen \in 0..MaxMembers /\ k < ReadyLen
          /\ ReadyLen < MaxMembers
      BY <2>3, MembersAssumption DEF Slots
    <3>2. /\ ready_head \in Slots
          /\ Pos(ready_head, k) = IF ready_head + k < MaxMembers
                                   THEN ready_head + k ELSE ready_head + k - MaxMembers
          /\ Pos(ready_head, ReadyLen) =
               IF ready_head + ReadyLen < MaxMembers
                 THEN ready_head + ReadyLen ELSE ready_head + ReadyLen - MaxMembers
      BY <3>1, PosValue, Zenon DEF TypeOK
    <3>3. QED
      BY <2>3, <3>1, <3>2, PosOnRing, MembersAssumption DEF Slots
  <2>7. \A k : ReadyEntry(k)' = ready_ring'[Pos(ready_head, k)]
                /\ ReadyEntry(k) = ready_ring[Pos(ready_head, k)]
    BY <2>1, Zenon DEF ReadyEntry, Pos
  <2>8. \A k \in 0..(ReadyLen - 1) : ReadyEntry(k)' = ReadyEntry(k)
    BY <2>1, <2>6, <2>7, Zenon DEF TypeOK
  <2>9. \E k \in 0..(ReadyLen' - 1) : ReadyEntry(k)' = idx
    <3>1. PICK k : k = ReadyLen
      BY Zenon
    <3>2. k \in 0..(ReadyLen' - 1)
      BY <2>3, <2>5, <3>1, MembersAssumption DEF Slots
    <3>3. ready_ring'[Pos(ready_head, k)] = idx
      BY <2>1, <2>3, <3>1, Zenon DEF TypeOK
    <3>4. QED
      BY <3>2, <3>3, <2>7, Zenon
  <2>10. \A k \in 0..(ReadyLen - 1) : k \in 0..(ReadyLen' - 1)
    BY <2>3, <2>5, MembersAssumption DEF Slots
  <2>11. QED
    BY <2>1, <2>2, <2>4, <2>8, <2>9, <2>10, Zenon
<1>3. QED
  BY <1>1, <1>2, Zenon

\* A wait set made by WaitSetState::new satisfies the invariant.
LEMMA WInvInit == Init => WInv
<1> SUFFICES ASSUME Init PROVE WInv
  BY Zenon
<1>0. 0 \in Slots
  BY MembersAssumption DEF Slots
<1>1. TypeOK
  <2>1. waiter \in BOOLEAN /\ alive \in BOOLEAN /\ dropped \in BOOLEAN
        /\ overtaken \in BOOLEAN /\ wait_set \in [Sources -> BOOLEAN]
    BY Zenon DEF Init
  <2>2. /\ members \in [Slots -> Sources \union {NoSource}]
        /\ ready_ring \in [Slots -> Slots] /\ ready_head \in Slots
        /\ ready_tail \in Slots /\ wait_set_member_idx \in [Sources -> Slots]
        /\ slot \in Slots
    BY <1>0, Zenon DEF Init
  <2>3. /\ member_count \in 0..MaxMembers /\ pending \in [Sources -> Nat]
        /\ \A s \in Sources : pending[s] <= Limit(s)
    BY MembersAssumption, LimitsAssumption DEF Init, Limit
  <2>4. QED
    BY <2>1, <2>2, <2>3, Zenon DEF Init, TypeOK
<1>2. MembersConsistent
  <2>1. {i \in Slots : members[i] # NoSource} = {}
    BY Zenon DEF Init
  <2>2. member_count = Cardinality({i \in Slots : members[i] # NoSource})
    BY <2>1, FS_EmptySet, Zenon DEF Init
  <2>3. \A s \in Sources : ~Member(s) /\ Index(s) = 0
    BY NothingAdded, Zenon DEF Init
  <2>4. QED
    BY <1>0, <2>2, <2>3, NoSourceAssumption, Zenon DEF Init, MembersConsistent
<1>3. WaiterOnEmptyRing /\ ConsumerOK /\ AddOK
  BY Zenon DEF Init, WaiterOnEmptyRing, ConsumerOK, AddOK
<1>4. QED
  BY <1>1, <1>2, <1>3, Zenon DEF WInv, WaitSetInv

\* What waitset_notify does for a registered source: a registered waiter is
\* handed the source's token, otherwise the source's index is pushed.
LEMMA NotifyEffect ==
  ASSUME WInv, NEW s \in Sources, wait_set[s],
         waitset_notify(wait_set_member_idx[s])
  PROVE  /\ waiter' = FALSE /\ ready_head' = ready_head
         /\ \/ /\ waiter /\ state' = "Ready" /\ wakeup_value' = s
               /\ UNCHANGED ringVars
            \/ /\ ~waiter /\ UNCHANGED <<state, wakeup_value>>
               /\ push_ready(wait_set_member_idx[s])
<1>1. members[wait_set_member_idx[s]] = s
  BY Registered, Zenon
<1>2. CASE waiter
  BY <1>1, <1>2, Zenon DEF waitset_notify, WakeWaiter, ringVars
<1>3. CASE ~waiter
  <2>1. push_ready(wait_set_member_idx[s]) /\ UNCHANGED <<waiter, wakeup_value, state>>
    BY <1>3, Zenon DEF waitset_notify
  <2>2. waiter' = FALSE
    BY <1>3, <2>1, Zenon DEF WInv, WaitSetInv, TypeOK
  <2>3. ready_head' = ready_head
    BY <2>1, Zenon DEF push_ready
  <2>4. QED
    BY <1>3, <2>1, <2>2, <2>3, Zenon
<1>4. QED
  BY <1>2, <1>3, Zenon

\* The actions that neither add nor remove a member, nor change back-pointers,
\* leave the member table as consistent as it was.
LEMMA MembersFrame ==
  UNCHANGED memberVars =>
    /\ \A s : (Member(s)' <=> Member(s)) /\ Index(s)' = Index(s)
    /\ MembersConsistent => MembersConsistent'
    /\ AddOK => AddOK'
<1> SUFFICES ASSUME UNCHANGED memberVars
             PROVE  /\ \A s : (Member(s)' <=> Member(s)) /\ Index(s)' = Index(s)
                    /\ MembersConsistent => MembersConsistent'
                    /\ AddOK => AddOK'
  BY Zenon
<1>1. \A s : (Member(s)' <=> Member(s)) /\ Index(s)' = Index(s)
  BY Zenon DEF Member, Index, memberVars
<1>2. MembersConsistent => MembersConsistent'
  BY Zenon DEF MembersConsistent, Member, Index, memberVars
<1>3. AddOK => AddOK'
  BY Zenon DEF AddOK, memberVars
<1>4. QED
  BY <1>1, <1>2, <1>3, Zenon

\* A notification, sent by Post or Send, preserves the invariant.
LEMMA NotifyKeeps ==
  ASSUME WInv, NEW s \in Sources,
         UNCHANGED <<memberVars, alive, pc, token>>, silent' = Unannounced(s),
         pending' \in [Sources -> Nat],
         \A x \in Sources : pending'[x] <= Limit(x),
         \/ wait_set[s] /\ waitset_notify(wait_set_member_idx[s])
         \/ UNCHANGED <<ringVars, waiter, wakeup_value, state>>
  PROVE  WInv'
<1> USE DEF WInv, WaitSetInv
<1>1. MembersConsistent' /\ AddOK'
  BY MembersFrame, Zenon
<1>0. silent' \subseteq Sources
  BY Zenon DEF TypeOK, Unannounced
<1>2. CASE UNCHANGED <<ringVars, waiter, wakeup_value, state>>
  <2>1. TypeOK'
    BY <1>0, <1>2, SMT DEF TypeOK, memberVars, ringVars
  <2>2. WaiterOnEmptyRing' /\ ConsumerOK'
    BY <1>2, Zenon DEF WaiterOnEmptyRing, ConsumerOK, ReadyLen, ringVars
  <2>3. QED
    BY <1>1, <2>1, <2>2, Zenon
<1>3. CASE wait_set[s] /\ waitset_notify(wait_set_member_idx[s])
  <2>0. wait_set_member_idx[s] \in Slots
    BY Zenon DEF TypeOK
  <2>1. waiter' = FALSE
    BY <1>3, NotifyEffect, Zenon
  <2>2. waiter' \in BOOLEAN
    BY <2>1, Zenon
  <2>3. CASE /\ waiter /\ state' = "Ready" /\ wakeup_value' = s
             /\ UNCHANGED ringVars
    <3>1. TypeOK'
      BY <1>0, <2>2, <2>3, Zenon DEF TypeOK, memberVars, ringVars
    <3>2. QED
      BY <1>1, <2>1, <2>3, <3>1, Zenon DEF WaiterOnEmptyRing, ConsumerOK, ringVars
  <2>4. CASE /\ ~waiter /\ UNCHANGED <<state, wakeup_value>>
             /\ push_ready(wait_set_member_idx[s])
    <3>1. /\ ready_ring' \in [Slots -> Slots] /\ ready_head' = ready_head
          /\ ready_tail' \in Slots /\ dropped' \in BOOLEAN /\ overtaken' \in BOOLEAN
          /\ pc = "popped" =>
               overtaken' \/ (ready_tail' = ready_tail /\ (overtaken => overtaken'))
      BY <2>0, <2>4, PushEffect, Zenon
    <3>2. TypeOK'
      BY <1>0, <2>2, <2>4, <3>1, Zenon DEF TypeOK, memberVars
    <3>3. WaiterOnEmptyRing'
      BY <2>1, Zenon DEF WaiterOnEmptyRing
    <3>4. pc' = "popped" => ready_head' = ready_tail' \/ overtaken'
      BY <3>1, Zenon DEF ConsumerOK
    <3>5. ConsumerOK'
      BY <2>1, <2>4, <3>4, Zenon DEF ConsumerOK
    <3>6. QED
      BY <1>1, <3>2, <3>3, <3>5, Zenon
  <2>5. QED
    BY <1>3, <2>3, <2>4, NotifyEffect, Zenon
<1>4. QED
  BY <1>2, <1>3, Zenon

\* pop_ready leaves the read index on the ring, whichever entries it skips.
LEMMA PopEffect ==
  ASSUME TypeOK, Live # {}
  PROVE  /\ FirstLive \in Live /\ \A j \in Live : FirstLive <= j
         /\ FirstLive \in 0..(ReadyLen - 1) /\ FirstLive + 1 \in 0..MaxMembers
         /\ ReadyLen \in Slots
         /\ (ready_head + FirstLive + 1) % MaxMembers = Pos(ready_head, FirstLive + 1)
         /\ ReadyEntry(FirstLive) \in Slots /\ members[ReadyEntry(FirstLive)] \in Sources
<1>1. ReadyLen \in Slots
  BY DistValue, Zenon DEF TypeOK, ReadyLen, Dist
<1>2. Live \in SUBSET Nat
  BY <1>1, MembersAssumption DEF Live, Slots
<1>3. FirstLive \in Live /\ \A j \in Live : FirstLive <= j
  <2>1. \E k \in Live : \A j \in Live : k <= j
    BY <1>2, LeastElement, Zenon
  <2>2. QED
    BY <2>1, Zenon DEF FirstLive
<1>4. FirstLive \in 0..(ReadyLen - 1) /\ members[ReadyEntry(FirstLive)] # NoSource
  BY <1>3, Zenon DEF Live
<1>5. FirstLive + 1 \in 0..MaxMembers /\ FirstLive \in 0..MaxMembers
  BY <1>1, <1>4, MembersAssumption DEF Slots
<1>6. (ready_head + FirstLive + 1) % MaxMembers = Pos(ready_head, FirstLive + 1)
  <2>1. ready_head + FirstLive + 1 = ready_head + (FirstLive + 1)
    BY <1>5, MembersAssumption DEF TypeOK, Slots
  <2>2. QED
    BY <2>1, Zenon DEF Pos
<1>7. ReadyEntry(FirstLive) \in Slots
  <2>1. Pos(ready_head, FirstLive) \in Slots
    BY <1>5, PosOnRing, Zenon DEF TypeOK
  <2>2. QED
    BY <2>1, Zenon DEF TypeOK, ReadyEntry, Pos
<1>8. QED
  BY <1>1, <1>3, <1>4, <1>5, <1>6, <1>7 DEF TypeOK

\* The consumer's steps preserve the invariant.
LEMMA WInvConsumer ==
  ASSUME WInv,
         \/ \E s \in Sources : HandOver(s) \/ Read(s)
         \/ WaitPop \/ WaitRegister \/ Resume
  PROVE  WInv'
<1> USE DEF WInv, WaitSetInv
<1>1. ASSUME NEW s \in Sources, HandOver(s) PROVE WInv'
  <2>1. MembersConsistent' /\ AddOK'
    BY <1>1, MembersFrame, Zenon DEF HandOver
  <2>2. TypeOK'
    BY <1>1, Zenon DEF HandOver, TypeOK, memberVars, ringVars
  <2>3. QED
    BY <1>1, <2>1, <2>2, Zenon
    DEF HandOver, WaiterOnEmptyRing, ConsumerOK, ReadyLen, ringVars
<1>2. ASSUME NEW s \in Sources, Read(s) PROVE WInv'
  <2>1. MembersConsistent' /\ AddOK'
    BY <1>2, MembersFrame, Zenon DEF Read
  <2>2. /\ pending' \in [Sources -> Nat]
        /\ \A x \in Sources : pending'[x] <= Limit(x)
    BY <1>2, LimitsAssumption DEF Read, TypeOK, Limit
  <2>3. silent' \subseteq Sources
    BY <1>2, Zenon DEF Read, TypeOK
  <2>4. TypeOK'
    BY <1>2, <2>2, <2>3, Zenon DEF Read, TypeOK, memberVars, ringVars
  <2>5. QED
    BY <1>2, <2>1, <2>4, Zenon
    DEF Read, WaiterOnEmptyRing, ConsumerOK, ReadyLen, ringVars
<1>3. CASE WaitPop
  <2>1. MembersConsistent' /\ AddOK' /\ pc = "user" /\ state = "Running" /\ waiter = FALSE
    BY <1>3, MembersFrame, Zenon DEF WaitPop, ConsumerOK, TypeOK
  <2>2. CASE Live # {}
    <3>1. /\ token' = members[ReadyEntry(FirstLive)]
          /\ ready_head' = (ready_head + FirstLive + 1) % MaxMembers
          /\ pc' = "reading"
      BY <1>3, <2>2, Zenon DEF WaitPop
    <3>2. ready_head' \in Slots /\ token' \in Sources
      BY <2>2, <3>1, PopEffect, PosOnRing DEF TypeOK
    <3>3. TypeOK'
      BY <1>3, <3>1, <3>2, Zenon DEF WaitPop, TypeOK, memberVars
    <3>4. QED
      BY <1>3, <2>1, <3>1, <3>3, Zenon DEF WaitPop, WaiterOnEmptyRing, ConsumerOK
  <2>3. CASE Live = {}
    <3>1. ready_head' = ready_tail /\ pc' = "popped" /\ token' = token
      BY <1>3, <2>3, Zenon DEF WaitPop
    <3>2. TypeOK'
      BY <1>3, <3>1 DEF WaitPop, TypeOK, memberVars
    <3>3. QED
      BY <1>3, <2>1, <3>1, <3>2, Zenon DEF WaitPop, WaiterOnEmptyRing, ConsumerOK
  <2>4. QED
    BY <2>2, <2>3, Zenon
<1>4. CASE WaitRegister
  <2>1. MembersConsistent' /\ AddOK'
    BY <1>4, MembersFrame DEF WaitRegister
  <2>2. TypeOK'
    BY <1>4, Zenon DEF WaitRegister, TypeOK, memberVars, ringVars
  <2>3. ConsumerOK' /\ (ready_head' = ready_tail' \/ overtaken')
    BY <1>4, Zenon DEF WaitRegister, ConsumerOK, ringVars
  <2>4. WaiterOnEmptyRing'
    <3>1. ready_head' = ready_tail' => Dist(ready_head', ready_tail') = 0
      BY <2>2, DistValue, Zenon DEF TypeOK
    <3>2. QED
      BY <1>4, <2>3, <3>1, Zenon DEF WaitRegister, WaiterOnEmptyRing, ReadyLen, Dist
  <2>5. QED
    BY <2>1, <2>2, <2>3, <2>4
<1>5. CASE Resume
  <2>1. MembersConsistent' /\ AddOK' /\ waiter = FALSE
    BY <1>5, MembersFrame, Zenon DEF Resume, ConsumerOK, TypeOK
  <2>2. TypeOK'
    BY <1>5, Zenon DEF Resume, TypeOK, memberVars, ringVars
  <2>3. QED
    BY <1>5, <2>1, <2>2 DEF Resume, WaiterOnEmptyRing, ConsumerOK, ringVars
<1>6. QED
  BY <1>1, <1>2, <1>3, <1>4, <1>5, Zenon

\* waitset_add takes a free slot, the first one.
LEMMA FirstFree ==
  ASSUME NEW free, free = {i \in Slots : members[i] = NoSource}, free # {},
         NEW idx, idx = CHOOSE i \in free : \A j \in free : i <= j
  PROVE  idx \in Slots /\ members[idx] = NoSource
<1>1. free \in SUBSET Nat
  BY MembersAssumption DEF Slots
<1>2. \E i \in free : \A j \in free : i <= j
  BY <1>1, LeastElement, Zenon
<1>3. QED
  BY <1>2, Zenon

\* The look of an add preserves the invariant.
LEMMA WInvAdd ==
  ASSUME WInv, NEW s \in Sources, Add(s)
  PROVE  WInv'
<1> USE DEF WInv, WaitSetInv
<1> DEFINE free == {i \in Slots : members[i] = NoSource}
           used == {i \in Slots : members[i] # NoSource}
           idx == CHOOSE i \in free : \A j \in free : i <= j
<1>1. free # {}
  BY Zenon DEF Add
<1>2. idx \in Slots /\ members[idx] = NoSource
  <2> HIDE DEF free, idx
  <2>1. free = {i \in Slots : members[i] = NoSource}
        /\ idx = CHOOSE i \in free : \A j \in free : i <= j
    BY Zenon DEF free, idx
  <2>2. QED
    BY <1>1, <2>1, FirstFree
<1>3. /\ adding = NoSource /\ ~wait_set[s]
      /\ members' = [members EXCEPT ![idx] = s]
      /\ member_count' = member_count + 1
      /\ adding' = s /\ slot' = idx
      /\ IF pending[s] > 0 THEN push_ready(idx) ELSE UNCHANGED ringVars
      /\ IF pending[s] > 0 /\ waiter
           THEN WakeWaiter(s)
           ELSE UNCHANGED <<waiter, wakeup_value, state>>
      /\ silent' = silent \ {s}
      /\ UNCHANGED <<wait_set, wait_set_member_idx, alive, pending, pc, token>>
  BY Zenon DEF Add
<1> HIDE DEF free, idx
<1>4. MembersConsistent'
  <2>1. {i \in Slots : members'[i] # NoSource} = used \union {idx}
    BY <1>2, <1>3, NoSourceAssumption DEF TypeOK
  <2>2. IsFiniteSet(used)
    <3>1. IsFiniteSet(Slots) /\ used \in SUBSET Slots
      BY FS_Interval, MembersAssumption DEF Slots
    <3>2. QED
      BY <3>1, FS_Subset, Zenon
  <2>3. idx \notin used
    BY <1>2, Zenon
  <2>4. Cardinality(used \union {idx}) = Cardinality(used) + 1
    BY <2>2, <2>3, FS_AddElement, Zenon
  <2>5. member_count' = Cardinality({i \in Slots : members'[i] # NoSource})
    BY <1>3, <2>1, <2>4 DEF MembersConsistent
  <2>9. \A x \in Sources :
          /\ Member(x) <=> wait_set[x]
          /\ Index(x) = wait_set_member_idx[x]
          /\ Member(x)' <=> wait_set[x] \/ x = s
          /\ Index(x)' = IF x = s THEN idx ELSE wait_set_member_idx[x]
    BY <1>3, NothingAdded, Zenon DEF Member, Index
  <2>10. /\ \A x \in Sources : wait_set[x] <=> members[wait_set_member_idx[x]] = x
         /\ \A i \in Slots : members[i] # NoSource => wait_set_member_idx[members[i]] = i
    BY <2>9, Zenon DEF MembersConsistent, TypeOK
  <2>6. \A x \in Sources : Member(x)' <=> members'[Index(x)'] = x
    BY <1>2, <1>3, <2>9, <2>10, NoSourceAssumption DEF TypeOK
  <2>7. \A i \in Slots : members'[i] # NoSource => Index(members[i])' = i
    BY <1>2, <1>3, <2>9, <2>10, NoSourceAssumption DEF TypeOK
  <2>8. QED
    BY <2>5, <2>6, <2>7 DEF MembersConsistent
<1>5. member_count' \in 0..MaxMembers
  <2>1. {i \in Slots : members'[i] # NoSource} \in SUBSET Slots
        /\ IsFiniteSet(Slots) /\ Cardinality(Slots) = MaxMembers
    BY FS_Interval, MembersAssumption DEF Slots
  <2>2. /\ Cardinality({i \in Slots : members'[i] # NoSource}) <= MaxMembers
        /\ member_count' = Cardinality({i \in Slots : members'[i] # NoSource})
    BY <1>4, <2>1, FS_Subset, Zenon DEF MembersConsistent
  <2>3. QED
    BY <1>3, <2>2, MembersAssumption DEF TypeOK
<1>6. /\ ready_ring' \in [Slots -> Slots] /\ ready_head' = ready_head
      /\ ready_tail' \in Slots /\ dropped' \in BOOLEAN /\ overtaken' \in BOOLEAN
      /\ pc = "popped" =>
           overtaken' \/ (ready_tail' = ready_tail /\ (overtaken => overtaken'))
  BY <1>2, <1>3, PushEffect, Zenon DEF TypeOK, ringVars
<1>7. \/ waiter' = FALSE
      \/ UNCHANGED <<waiter, wakeup_value, state, ringVars>>
  BY <1>3, Zenon DEF TypeOK, WakeWaiter
<1>8. /\ waiter' \in BOOLEAN /\ state' \in {"Running", "Blocked", "Ready"}
      /\ wakeup_value' \in Sources \union {NoSource}
  BY <1>3, Zenon DEF TypeOK, WakeWaiter
<1>9. AddOK'
  BY <1>3, Zenon DEF AddOK
<1>10. /\ members' \in [Slots -> Sources \union {NoSource}]
       /\ adding' \in Sources \union {NoSource} /\ slot' \in Slots
       /\ silent' \subseteq Sources
  BY <1>2, <1>3, Zenon DEF TypeOK
<1>11. TypeOK'
  BY <1>3, <1>5, <1>6, <1>8, <1>10, Zenon DEF TypeOK
<1>12. WaiterOnEmptyRing'
  BY <1>7, Zenon DEF WaiterOnEmptyRing, ReadyLen, ringVars
<1>13. ConsumerOK'
  BY <1>3, <1>6, <1>7 DEF ConsumerOK, WakeWaiter, ringVars, TypeOK
<1>14. QED
  BY <1>4, <1>9, <1>11, <1>12, <1>13, Zenon

\* Writing the back-pointer changes neither who is a member nor where.
LEMMA LinkEffect ==
  ASSUME TypeOK, AddLink, NEW s \in Sources
  PROVE  (Member(s)' <=> Member(s)) /\ Index(s)' = Index(s)
<1>1. /\ adding \in Sources /\ adding' = NoSource
      /\ wait_set' = [wait_set EXCEPT ![adding] = TRUE]
      /\ wait_set_member_idx' = [wait_set_member_idx EXCEPT ![adding] = slot]
  BY Zenon DEF AddLink, TypeOK
<1>2. CASE s = adding
  BY <1>1, <1>2, NoSourceAssumption, Zenon DEF Member, Index, TypeOK
<1>3. CASE s # adding
  BY <1>1, <1>3, NoSourceAssumption, Zenon DEF Member, Index, TypeOK
<1>4. QED
  BY <1>2, <1>3, Zenon

\* The second step of an add preserves the invariant.
LEMMA WInvLink ==
  ASSUME WInv, AddLink
  PROVE  WInv'
<1> USE DEF WInv, WaitSetInv
<1>1. /\ adding \in Sources /\ adding' = NoSource /\ slot' = 0
      /\ wait_set' = [wait_set EXCEPT ![adding] = TRUE]
      /\ wait_set_member_idx' = [wait_set_member_idx EXCEPT ![adding] = slot]
      /\ UNCHANGED <<members, member_count, ringVars, waiter, alive, pending, pc,
                     state, wakeup_value, token, silent>>
  BY Zenon DEF AddLink, TypeOK
<1>2. 0 \in Slots
  BY MembersAssumption DEF Slots
<1>3. wait_set' \in [Sources -> BOOLEAN]
  BY <1>1 DEF TypeOK
<1>4. wait_set_member_idx' \in [Sources -> Slots]
  BY <1>1, Zenon DEF TypeOK
<1>5. TypeOK'
  BY <1>1, <1>2, <1>3, <1>4, NoSourceAssumption, SMT DEF TypeOK, ringVars
<1>6. \A s \in Sources : (Member(s)' <=> Member(s)) /\ Index(s)' = Index(s)
  BY LinkEffect, Zenon
<1>7. \A i \in Slots : members'[i] # NoSource => Index(members[i])' = i
  BY <1>1, <1>6, Zenon DEF MembersConsistent, TypeOK
<1>8. MembersConsistent'
  BY <1>1, <1>6, <1>7, Zenon DEF MembersConsistent
<1>9. WaiterOnEmptyRing' /\ ConsumerOK'
  BY <1>1, Zenon DEF WaiterOnEmptyRing, ConsumerOK, ReadyLen, ringVars
<1>10. AddOK'
  BY <1>1, NoSourceAssumption, Zenon DEF AddOK
<1>11. QED
  BY <1>5, <1>8, <1>9, <1>10, Zenon

\* A removal preserves the invariant.
LEMMA WInvRemove ==
  ASSUME WInv, NEW s \in Sources, Remove(s)
  PROVE  WInv'
<1> USE DEF WInv, WaitSetInv
<1> DEFINE used == {i \in Slots : members[i] # NoSource}
<1>0. /\ adding = NoSource
      /\ \A x \in Sources :
           (Member(x) <=> wait_set[x]) /\ Index(x) = wait_set_member_idx[x]
      /\ \A x \in Sources : wait_set[x] <=> members[wait_set_member_idx[x]] = x
      /\ \A j \in Slots : members[j] # NoSource => wait_set_member_idx[members[j]] = j
  <2>1. adding = NoSource
    BY Zenon DEF Remove
  <2>2. \A x \in Sources :
          (Member(x) <=> wait_set[x]) /\ Index(x) = wait_set_member_idx[x]
    BY <2>1, NothingAdded, Zenon
  <2>3. QED
    BY <2>1, <2>2, Zenon DEF MembersConsistent, TypeOK
<1>1. PICK i \in Slots :
       /\ members[i] = s
       /\ members' = [members EXCEPT ![i] = NoSource]
       /\ member_count' = member_count - 1
       /\ wait_set' = [wait_set EXCEPT ![s] = FALSE]
       /\ wait_set_member_idx' = [wait_set_member_idx EXCEPT ![s] = 0]
       /\ silent' = silent \ {s}
       /\ UNCHANGED <<adding, slot, ringVars, waiter, alive, pending, pc, state,
                      wakeup_value, token>>
  BY Zenon DEF Remove
<1>2. IsFiniteSet(used) /\ Cardinality(used) \in Nat
  <2>1. IsFiniteSet(Slots) /\ used \in SUBSET Slots
    BY FS_Interval, MembersAssumption DEF Slots
  <2>2. QED
    BY <2>1, FS_Subset, FS_CardinalityType
<1>3. {j \in Slots : members'[j] # NoSource} = used \ {i}
  BY <1>1, Zenon DEF TypeOK
<1>4. i \in used
  BY <1>1, NoSourceAssumption, Zenon
<1>5. Cardinality(used \ {i}) = Cardinality(used) - 1
      /\ Cardinality(used \ {i}) \in Nat
  BY <1>2, <1>4, FS_RemoveElement, FS_CardinalityType, Zenon
<1>6. member_count' = Cardinality({j \in Slots : members'[j] # NoSource})
  BY <1>1, <1>3, <1>5, Zenon DEF MembersConsistent
<1>7. wait_set_member_idx[s] = i
  BY <1>0, <1>1, NoSourceAssumption, Zenon
<1>8. 0 \in Slots
  BY MembersAssumption DEF Slots
<1>9. \A x \in Sources : wait_set'[x] <=> members'[wait_set_member_idx'[x]] = x
  <2> TAKE x \in Sources
  <2>1. CASE x = s
    <3>1. members'[0] # s
      <4>1. CASE i = 0
        BY <1>1, <1>8, <4>1, NoSourceAssumption DEF TypeOK
      <4>2. CASE i # 0
        BY <1>0, <1>1, <1>7, <1>8, <4>2, NoSourceAssumption DEF TypeOK
      <4>3. QED
        BY <4>1, <4>2
    <3>2. QED
      BY <1>1, <2>1, <3>1 DEF TypeOK
  <2>2. CASE x # s
    BY <1>0, <1>1, <2>2, NoSourceAssumption DEF TypeOK
  <2>3. QED
    BY <2>1, <2>2
<1>10. \A j \in Slots :
         members'[j] # NoSource => wait_set_member_idx'[members'[j]] = j
  BY <1>0, <1>1, <1>7, NoSourceAssumption DEF TypeOK
<1>11. TypeOK'
  <2>1. wait_set' \in [Sources -> BOOLEAN]
    BY <1>1 DEF TypeOK
  <2>2. /\ members' \in [Slots -> Sources \union {NoSource}]
        /\ wait_set_member_idx' \in [Sources -> Slots]
    BY <1>1, <1>8 DEF TypeOK
  <2>3. member_count' \in 0..MaxMembers
    <3>1. member_count' \in Nat
      BY <1>3, <1>5, <1>6, Zenon
    <3>2. QED
      BY <1>1, <3>1, MembersAssumption DEF TypeOK
  <2>4. QED
    BY <1>1, <2>1, <2>2, <2>3, SMT DEF TypeOK, ringVars
<1>12. WaiterOnEmptyRing' /\ ConsumerOK'
  BY <1>1, Zenon DEF WaiterOnEmptyRing, ConsumerOK, ReadyLen, ringVars
<1>13. adding' = NoSource /\ AddOK'
  BY <1>0, <1>1, NoSourceAssumption, Zenon DEF AddOK
<1>14. MembersConsistent'
  <2>1. \A x \in Sources :
          (Member(x)' <=> wait_set'[x]) /\ Index(x)' = wait_set_member_idx'[x]
    BY <1>13, NoSourceAssumption, Zenon DEF Member, Index
  <2>2. \A j \in Slots : members'[j] \in Sources \union {NoSource}
    BY <1>11, Zenon DEF TypeOK
  <2>3. \A x \in Sources : Member(x)' <=> members'[Index(x)'] = x
    BY <1>9, <2>1, Zenon
  <2>4. \A j \in Slots : members'[j] # NoSource => Index(members[j])' = j
    <3>1. SUFFICES ASSUME NEW j \in Slots, members'[j] # NoSource
                   PROVE  Index(members[j])' = j
      BY Zenon
    <3>2. members'[j] \in Sources
      BY <2>2, <3>1, Zenon
    <3>3. Index(members[j])' = wait_set_member_idx'[members'[j]]
      BY <1>13, <3>1, Zenon DEF Index
    <3>4. QED
      BY <1>10, <3>1, <3>3, Zenon
  <2>5. QED
    BY <1>6, <2>3, <2>4, Zenon DEF MembersConsistent
<1>15. QED
  BY <1>11, <1>12, <1>13, <1>14, Zenon

\* The destruction of the wait set preserves the invariant.
LEMMA WInvDrop ==
  ASSUME WInv, Drop
  PROVE  WInv'
<1> USE DEF WInv, WaitSetInv
<1>1. /\ adding = NoSource /\ alive' = FALSE
      /\ IF waiter THEN WakeWaiter(NoSource)
                   ELSE UNCHANGED <<waiter, wakeup_value, state>>
      /\ members' = [i \in Slots |-> NoSource]
      /\ member_count' = 0
      /\ wait_set' = [s \in Sources |-> FALSE]
      /\ wait_set_member_idx' = [s \in Sources |-> 0]
      /\ silent' = {}
      /\ UNCHANGED <<adding, slot, ringVars, pending, pc, token>>
  BY Zenon DEF Drop
<1>2. 0 \in Slots
  BY MembersAssumption DEF Slots
<1>3. MembersConsistent'
  <2>1. {i \in Slots : members'[i] # NoSource} = {}
    BY <1>1
  <2>2. member_count' = Cardinality({i \in Slots : members'[i] # NoSource})
    BY <1>1, <2>1, FS_EmptySet
  <2>3. \A s \in Sources : ~Member(s)' /\ Index(s)' = 0
    BY <1>1, NoSourceAssumption, Zenon DEF Member, Index
  <2>4. QED
    BY <1>1, <1>2, <2>2, <2>3, NoSourceAssumption, Zenon DEF MembersConsistent
<1>4. waiter' = FALSE /\ alive' \in BOOLEAN /\ waiter' \in BOOLEAN
  <2>1. waiter' = FALSE
    BY <1>1, Zenon DEF TypeOK, WakeWaiter
  <2>2. QED
    BY <1>1, <2>1, Zenon
<1>5. /\ state' \in {"Running", "Blocked", "Ready"}
      /\ wakeup_value' \in Sources \union {NoSource}
  BY <1>1, Zenon DEF TypeOK, WakeWaiter
<1>6. wait_set' \in [Sources -> BOOLEAN]
  BY <1>1, Zenon
<1>7. TypeOK'
  BY <1>1, <1>2, <1>4, <1>5, <1>6, MembersAssumption DEF TypeOK, ringVars
<1>8. WaiterOnEmptyRing' /\ ConsumerOK' /\ AddOK'
  BY <1>1, <1>4, Zenon DEF WaiterOnEmptyRing, ConsumerOK, AddOK, WakeWaiter, ringVars
<1>9. QED
  BY <1>3, <1>7, <1>8, Zenon

\* Every step preserves the invariant.
LEMMA WInvStep == WInv /\ [Next]_vars => WInv'
<1> SUFFICES ASSUME WInv, [Next]_vars PROVE WInv'
  BY Zenon
<1>1. ASSUME NEW s \in Sources, Post(s) PROVE WInv'
  <2>1. /\ pending' \in [Sources -> Nat]
        /\ \A x \in Sources : pending'[x] <= Limit(x)
    BY <1>1, LimitsAssumption DEF Post, WInv, WaitSetInv, TypeOK, Limit
  <2>2. QED
    BY <1>1, <2>1, NotifyKeeps, Zenon DEF Post
<1>2. ASSUME NEW s \in Sources, Send(s) PROVE WInv'
  <2>1. /\ pending' \in [Sources -> Nat]
        /\ \A x \in Sources : pending'[x] <= Limit(x)
    BY <1>2, LimitsAssumption DEF Send, WInv, WaitSetInv, TypeOK, Limit
  <2>2. QED
    BY <1>2, <2>1, NotifyKeeps, Zenon DEF Send
<1>3. CASE UNCHANGED vars
  <2>1. MembersConsistent' /\ AddOK'
    BY <1>3, MembersFrame, Zenon DEF vars, WInv, WaitSetInv
  <2>2. TypeOK'
    BY <1>3, SMT DEF vars, ringVars, memberVars, WInv, WaitSetInv, TypeOK
  <2>3. QED
    BY <1>3, <2>1, <2>2, Zenon
    DEF vars, ringVars, WInv, WaitSetInv, ConsumerOK, WaiterOnEmptyRing, ReadyLen
<1>4. QED
  BY <1>1, <1>2, <1>3, WInvConsumer, WInvAdd, WInvLink, WInvRemove, WInvDrop,
     Zenon DEF Next

\* The member table and the back-pointers agree through every addition,
\* removal, reuse of a slot and destruction, and a waiter is registered on an
\* empty ring or one whose entries were pushed while it registered: for every
\* table size and every set of sources, whatever overlaps with a wait or an add.
THEOREM WaitSetInvariant == Spec => []WaitSetInv
<1>1. WInv => WaitSetInv
  BY Zenon DEF WInv
<1>2. QED
  BY <1>1, WInvInit, WInvStep, PTL DEF Spec

-----------------------------------------------------------------------------
(* No readiness is forgotten.                                              *)

\* Index i has an entry in the ring.
Entered(i) == \E k \in 0..(ReadyLen - 1) : ReadyEntry(k) = i

\* Member s is announced, or its announcement is known to be lost.
Told(s) ==
  \/ dropped
  \/ s \in silent
  \/ Entered(Index(s))
  \/ state = "Ready" /\ wakeup_value = s
  \/ pc = "reading" /\ token = s

AllTold == \A s \in Sources : Member(s) /\ pending[s] > 0 => Told(s)

\* An entry for a registered source is live, so the property may be read
\* without looking at stale entries.
LEMMA RememberedIsTold == WInv => (ReadinessRemembered <=> AllTold)
<1> SUFFICES ASSUME WInv PROVE ReadinessRemembered <=> AllTold
  BY Zenon
<1>1. ASSUME NEW s \in Sources, Member(s)
      PROVE  (\E k \in Live : ReadyEntry(k) = Index(s)) <=> Entered(Index(s))
  <2>1. members[Index(s)] # NoSource
    BY <1>1, NoSourceAssumption DEF WInv, WaitSetInv, MembersConsistent
  <2>2. QED
    BY <2>1, Zenon DEF Live, Entered
<1>2. QED
  BY <1>1, Zenon DEF ReadinessRemembered, AllTold, Told

\* What is told stays told while nothing of it changes.
LEMMA ToldFrame ==
  ASSUME UNCHANGED <<ringVars, state, wakeup_value, pc, token>>,
         NEW s \in Sources, Index(s)' = Index(s),
         s \in silent => s \in silent', Told(s)
  PROVE  Told(s)'
<1>1. ReadyLen' = ReadyLen /\ \A k : ReadyEntry(k)' = ReadyEntry(k)
  BY Zenon DEF ReadyLen, ReadyEntry, ringVars
<1>2. QED
  BY <1>1, Zenon DEF Told, Entered, ringVars

\* A push announces its source and un-announces none.
LEMMA PushTold ==
  ASSUME TypeOK, NEW i \in Slots, push_ready(i)
  PROVE  /\ dropped' \/ Entered(i)'
         /\ \A j : Entered(j) => Entered(j)'
         /\ dropped => dropped'
  BY PushEffect, Zenon DEF Entered

\* So does a notification.
LEMMA NotifyTold ==
  ASSUME WInv, NEW s \in Sources, wait_set[s],
         waitset_notify(wait_set_member_idx[s]),
         UNCHANGED <<memberVars, pc, token>>, silent \subseteq silent'
  PROVE  Told(s)' /\ \A x \in Sources : Told(x) => Told(x)'
<1>0. /\ wait_set_member_idx[s] \in Slots /\ Index(s) = wait_set_member_idx[s]
      /\ \A x : Index(x)' = Index(x)
  BY Registered, MembersFrame, Zenon
<1>1. CASE /\ waiter /\ state' = "Ready" /\ wakeup_value' = s
           /\ UNCHANGED ringVars
  <2>1. ReadyLen' = ReadyLen /\ \A k : ReadyEntry(k)' = ReadyEntry(k)
    BY <1>1, Zenon DEF ReadyLen, ReadyEntry, ringVars
  <2>2. state = "Blocked"
    BY <1>1, Zenon DEF WInv, ConsumerOK
  <2>3. Told(s)'
    BY <1>1, Zenon DEF Told
  <2>4. \A x : Entered(Index(x)) => Entered(Index(x))'
    BY <1>0, <2>1, Zenon DEF Entered
  <2>5. QED
    BY <1>1, <2>2, <2>3, <2>4 DEF Told, ringVars
<1>2. CASE /\ ~waiter /\ UNCHANGED <<state, wakeup_value>>
           /\ push_ready(wait_set_member_idx[s])
  <2>1. /\ dropped' \/ Entered(Index(s))'
        /\ \A x : Entered(Index(x)) => Entered(Index(x))'
        /\ dropped => dropped'
    <3>1. PICK i \in Slots : i = wait_set_member_idx[s]
      BY <1>0, Zenon
    <3>2. /\ dropped' \/ Entered(i)'
          /\ \A j : Entered(j) => Entered(j)'
          /\ dropped => dropped'
      BY <1>2, <3>1, PushTold, Zenon DEF WInv, WaitSetInv
    <3>3. Index(s)' = i
      BY <1>0, <3>1, Zenon
    <3>4. dropped' \/ Entered(Index(s))'
      BY <3>2, <3>3, Zenon DEF Entered
    <3>5. ASSUME NEW x, Entered(Index(x)) PROVE Entered(Index(x))'
      <4>1. PICK j : j = Index(x)
        BY Zenon
      <4>2. Entered(j)' /\ Index(x)' = j
        BY <1>0, <3>2, <3>5, <4>1, Zenon DEF Entered
      <4>3. QED
        BY <4>2, Zenon DEF Entered
    <3>6. QED
      BY <3>2, <3>4, <3>5, Zenon
  <2>2. QED
    BY <1>2, <2>1, Zenon DEF Told
<1>3. QED
  BY <1>1, <1>2, NotifyEffect, ZenonT(30)

\* pop_ready takes the first live entry off the ring and keeps the later ones;
\* those it skips belong to no registered source.
LEMMA PopTold ==
  ASSUME WInv, WaitPop, NEW s \in Sources, Member(s), Told(s)
  PROVE  Told(s)'
<1> USE DEF WInv, WaitSetInv
<1>0. /\ state = "Running" /\ pc = "user" /\ dropped' = dropped /\ silent' = silent
      /\ Index(s)' = Index(s)
      /\ ready_ring' = ready_ring /\ ready_tail' = ready_tail
  BY MembersFrame, Zenon DEF WaitPop, ConsumerOK
<1>1. SUFFICES ASSUME Entered(Index(s)) PROVE Told(s)'
  BY <1>0, Zenon DEF Told
<1>2. PICK k \in 0..(ReadyLen - 1) : ReadyEntry(k) = Index(s)
  BY <1>1, Zenon DEF Entered
<1>3. members[Index(s)] = s /\ s # NoSource
  BY NoSourceAssumption, Zenon DEF MembersConsistent
<1>4. k \in Live
  BY <1>2, <1>3 DEF Live
<1>5. /\ token' = members[ReadyEntry(FirstLive)] /\ pc' = "reading"
      /\ ready_head' = Pos(ready_head, FirstLive + 1)
      /\ FirstLive \in 0..(ReadyLen - 1) /\ FirstLive <= k /\ ReadyLen \in Slots
      /\ FirstLive + 1 \in 0..MaxMembers
  BY <1>4, PopEffect DEF WaitPop
<1>6. CASE k = FirstLive
  BY <1>2, <1>3, <1>5, <1>6 DEF Told
<1>7. CASE k # FirstLive
  <2>1. PICK j : j = k - (FirstLive + 1)
    BY Zenon
  <2>2. /\ j \in 0..MaxMembers /\ (FirstLive + 1) + j = k
        /\ FirstLive + 1 \in 0..ReadyLen /\ j \in 0..(ReadyLen - (FirstLive + 1) - 1)
        /\ k \in 0..MaxMembers
    BY <1>5, <1>7, <2>1, MembersAssumption DEF Slots
  <2>3. Pos(ready_head', j) = Pos(ready_head, k)
    BY <1>5, <2>2, PosAdd DEF TypeOK
  <2>4. ReadyLen' = ReadyLen - (FirstLive + 1)
    <3>1. ReadyLen = Dist(ready_head, ready_tail) /\ ReadyLen' = Dist(ready_head', ready_tail)
      BY <1>0, Zenon DEF ReadyLen, Dist
    <3>2. QED
      BY <1>5, <2>2, <3>1, DistPop DEF TypeOK
  <2>5. ReadyEntry(j)' = ReadyEntry(k)
    BY <1>0, <2>3, Zenon DEF ReadyEntry, Pos
  <2>6. QED
    BY <1>0, <1>2, <2>2, <2>4, <2>5 DEF Told, Entered
<1>8. QED
  BY <1>6, <1>7

\* The look of an add announces a source that is ready, and un-announces none.
LEMMA AddTold ==
  ASSUME WInv, AllTold, NEW s \in Sources, Add(s)
  PROVE  AllTold'
<1> USE DEF WInv, WaitSetInv
<1> DEFINE free == {i \in Slots : members[i] = NoSource}
           idx == CHOOSE i \in free : \A j \in free : i <= j
<1>1. idx \in Slots /\ members[idx] = NoSource
  <2> HIDE DEF free, idx
  <2>1. free = {i \in Slots : members[i] = NoSource} /\ free # {}
        /\ idx = CHOOSE i \in free : \A j \in free : i <= j
    BY ZenonT(30) DEF free, idx, Add
  <2>2. QED
    BY <2>1, FirstFree
<1>2. /\ adding = NoSource /\ adding' = s /\ slot' = idx
      /\ IF pending[s] > 0 THEN push_ready(idx) ELSE UNCHANGED ringVars
      /\ IF pending[s] > 0 /\ waiter
           THEN WakeWaiter(s)
           ELSE UNCHANGED <<waiter, wakeup_value, state>>
      /\ silent' = silent \ {s}
      /\ UNCHANGED <<wait_set, wait_set_member_idx, alive, pending, pc, token>>
  BY Zenon DEF Add
<1> HIDE DEF free, idx
<1>3. PICK i \in Slots : i = idx
  BY <1>1, Zenon
<1>4. pending[s] > 0 => dropped' \/ Entered(i)'
  BY <1>2, <1>3, PushTold
<1>5. (dropped => dropped') /\ \A j : Entered(j) => Entered(j)'
  <2>1. CASE pending[s] > 0
    BY <1>2, <1>3, <2>1, PushTold
  <2>2. CASE ~(pending[s] > 0)
    BY <1>2, <2>2, Zenon DEF Entered, ReadyLen, ReadyEntry, ringVars
  <2>3. QED
    BY <2>1, <2>2
<1>6. SUFFICES ASSUME NEW x \in Sources, Member(x)', pending'[x] > 0
               PROVE  Told(x)'
  BY Zenon DEF AllTold
<1>7. CASE x = s
  <2>1. Index(x)' = i /\ pending[s] > 0
    BY <1>2, <1>3, <1>6, <1>7, Zenon DEF Index
  <2>2. dropped' \/ Entered(Index(x))'
    BY <1>4, <2>1, Zenon DEF Entered
  <2>3. QED
    BY <2>2, Zenon DEF Told
<1>8. CASE x # s
  <2>1. Member(x) /\ pending[x] > 0 /\ Index(x)' = Index(x)
    <3>1. Index(x) = wait_set_member_idx[x] /\ (Member(x) <=> wait_set[x])
      BY <1>2, NothingAdded, Zenon
    <3>2. QED
      BY <1>2, <1>6, <1>8, <3>1, Zenon DEF Member, Index
  <2>2. Told(x)
    BY <2>1, Zenon DEF AllTold
  <2>3. Entered(Index(x)) => Entered(Index(x))'
    <3>1. PICK j : j = Index(x)
      BY Zenon
    <3>2. QED
      BY <1>5, <2>1, <3>1, Zenon DEF Entered
  <2>4. state = "Ready" => UNCHANGED <<state, wakeup_value>>
    BY <1>2, Zenon DEF ConsumerOK
  <2>5. QED
    BY <1>2, <1>5, <1>8, <2>2, <2>3, <2>4 DEF Told
<1>9. QED
  BY <1>7, <1>8, Zenon

\* Every step keeps every ready member announced.
LEMMA ToldStep ==
  ASSUME WInv, AllTold, [Next]_vars
  PROVE  AllTold'
<1> USE DEF WInv, WaitSetInv
<1>0. UNCHANGED memberVars => \A x : (Member(x)' <=> Member(x)) /\ Index(x)' = Index(x)
  BY MembersFrame, Zenon
<1>12. ASSUME NEW s \in Sources
       PROVE  /\ silent \subseteq Unannounced(s)
              /\ Member(s) /\ ~wait_set[s] /\ pending[s] = 0 => s \in Unannounced(s)
  BY Zenon DEF Unannounced, Member
<1>1. ASSUME NEW s \in Sources, Post(s) PROVE AllTold'
  <2>1. CASE wait_set[s] /\ pending[s] = 0
    <3>1. Told(s)' /\ \A x \in Sources : Told(x) => Told(x)'
      BY <1>1, <1>12, <2>1, NotifyTold, ZenonT(30) DEF Post
    <3>2. QED
      BY <1>0, <1>1, <3>1, Zenon DEF Post, AllTold, TypeOK
  <2>2. CASE ~(wait_set[s] /\ pending[s] = 0)
    <3>1. \A x \in Sources : Told(x) => Told(x)'
      BY <1>0, <1>1, <1>12, <2>2, ToldFrame, Zenon DEF Post
    <3>2. Member(s) /\ pending[s] = 0 => Told(s)'
      BY <1>1, <1>12, <2>2, Zenon DEF Post, Told
    <3>3. pending[s] = 0 \/ pending[s] > 0
      BY DEF TypeOK
    <3>4. QED
      BY <1>0, <1>1, <3>1, <3>2, <3>3, Zenon DEF Post, AllTold, TypeOK
  <2>3. QED
    BY <2>1, <2>2
<1>2. ASSUME NEW s \in Sources, Send(s) PROVE AllTold'
  <2>1. CASE wait_set[s]
    <3>1. Told(s)' /\ \A x \in Sources : Told(x) => Told(x)'
      BY <1>2, <1>12, <2>1, NotifyTold, ZenonT(30) DEF Send
    <3>2. QED
      BY <1>0, <1>2, <3>1, Zenon DEF Send, AllTold, TypeOK
  <2>2. CASE ~wait_set[s]
    <3>1. \A x \in Sources : Told(x) => Told(x)'
      BY <1>0, <1>2, <1>12, <2>2, ToldFrame, Zenon DEF Send
    <3>2. Member(s) /\ pending[s] = 0 => Told(s)'
      BY <1>2, <1>12, <2>2, Zenon DEF Send, Told
    <3>3. pending[s] = 0 \/ pending[s] > 0
      BY DEF TypeOK
    <3>4. QED
      BY <1>0, <1>2, <3>1, <3>2, <3>3, Zenon DEF Send, AllTold, TypeOK
  <2>3. QED
    BY <2>1, <2>2, Zenon
<1>3. ASSUME NEW s \in Sources, HandOver(s) PROVE AllTold'
  <2>1. ASSUME NEW x \in Sources, x # s, Told(x) PROVE Told(x)'
    BY <1>0, <1>3, <2>1, Zenon DEF HandOver, Told, Entered, ReadyLen, ReadyEntry, ringVars
  <2>2. ~(pending'[s] > 0)
    BY <1>3 DEF HandOver
  <2>3. QED
    BY <1>0, <1>3, <2>1, <2>2, Zenon DEF HandOver, AllTold
<1>4. ASSUME NEW s \in Sources, Read(s) PROVE AllTold'
  <2>1. ASSUME NEW x \in Sources, x # s, Told(x) PROVE Told(x)'
    BY <1>0, <1>4, <2>1, Zenon DEF Read, Told, Entered, ReadyLen, ReadyEntry, ringVars
  <2>2. pending'[s] > 0 => Told(s)'
    BY <1>4 DEF Read, Told, TypeOK
  <2>3. QED
    BY <1>0, <1>4, <2>1, <2>2, Zenon DEF Read, AllTold, TypeOK
<1>5. CASE WaitPop
  BY <1>0, <1>5, PopTold, Zenon DEF WaitPop, AllTold
<1>6. CASE WaitRegister
  <2>1. ASSUME NEW x \in Sources, Told(x) PROVE Told(x)'
    BY <1>0, <1>6, <2>1, Zenon
    DEF WaitRegister, Told, Entered, ReadyLen, ReadyEntry, ringVars, ConsumerOK
  <2>2. QED
    BY <1>0, <1>6, <2>1, Zenon DEF WaitRegister, AllTold
<1>7. CASE Resume
  <2>1. ASSUME NEW x \in Sources, Told(x) PROVE Told(x)'
    BY <1>0, <1>7, <2>1, NoSourceAssumption
    DEF Resume, Told, Entered, ReadyLen, ReadyEntry, ConsumerOK
  <2>2. QED
    BY <1>0, <1>7, <2>1, Zenon DEF Resume, AllTold
<1>8. ASSUME NEW s \in Sources, Remove(s) PROVE AllTold'
  <2>1. /\ adding = NoSource
        /\ wait_set' = [wait_set EXCEPT ![s] = FALSE]
        /\ wait_set_member_idx' = [wait_set_member_idx EXCEPT ![s] = 0]
        /\ silent' = silent \ {s}
        /\ UNCHANGED <<adding, slot, ringVars, waiter, alive, pending, pc, state,
                       wakeup_value, token>>
    BY <1>8, Zenon DEF Remove
  <2>2. ~Member(s)'
    BY <2>1, NoSourceAssumption, Zenon DEF Member, TypeOK
  <2>3. \A x \in Sources : x # s => (Member(x)' <=> Member(x)) /\ Index(x)' = Index(x)
    BY <2>1, Zenon DEF Member, Index, TypeOK
  <2>4. \A x \in Sources : x # s /\ Told(x) => Told(x)'
    BY <2>1, <2>3, ToldFrame, Zenon
  <2>5. QED
    BY <2>1, <2>2, <2>3, <2>4, Zenon DEF AllTold
<1>13. CASE AddLink
  <2>1. \A x \in Sources : (Member(x)' <=> Member(x)) /\ Index(x)' = Index(x)
    BY <1>13, LinkEffect, Zenon
  <2>2. \A x \in Sources : Told(x) => Told(x)'
    BY <1>13, <2>1, ToldFrame, Zenon DEF AddLink
  <2>3. QED
    BY <1>13, <2>1, <2>2, Zenon DEF AddLink, AllTold
<1>9. CASE Drop
  <2>1. \A x \in Sources : ~Member(x)'
    BY <1>9, NoSourceAssumption, Zenon DEF Drop, Member
  <2>2. QED
    BY <2>1, Zenon DEF AllTold
<1>10. CASE UNCHANGED vars
  <2>1. \A x \in Sources : Told(x) => Told(x)'
    BY <1>0, <1>10, ToldFrame, Zenon DEF vars
  <2>2. QED
    BY <1>0, <1>10, <2>1, Zenon DEF vars, AllTold
<1>11. QED
  BY <1>1, <1>2, <1>3, <1>4, <1>5, <1>6, <1>7, <1>8, <1>9, <1>10, <1>13,
     AddTold, Zenon DEF Next

\* A ready member is never forgotten, whatever the order and the overlap of
\* notifications, additions, removals, reuses of a slot and waits, unless the
\* ring overflowed, the consumer left the source non-empty, or it became ready
\* between the look of its add and the writing of its back-pointer.
THEOREM WaitSetRemembers == Spec => []ReadinessRemembered
<1> DEFINE TInv == WInv /\ AllTold
<1>1. Init => TInv
  <2>1. ASSUME Init, NEW s \in Sources PROVE ~Member(s)
    BY <2>1, NothingAdded, Zenon DEF Init
  <2>2. QED
    BY <2>1, WInvInit, Zenon DEF AllTold
<1>2. TInv /\ [Next]_vars => TInv'
  BY WInvStep, ToldStep, Zenon
<1>3. TInv => ReadinessRemembered
  BY RememberedIsTold, Zenon
<1> HIDE DEF TInv
<1>4. QED
  BY <1>1, <1>2, <1>3, PTL DEF Spec
=============================================================================
