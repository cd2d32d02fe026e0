------------------------------ MODULE WaitSet -------------------------------
(***************************************************************************)
(* The kernel wait set (kernel/src/ipc/wait_set.rs), the system calls that *)
(* add, remove and wait, and the sources that notify it: endpoints and     *)
(* event queues on the transition from empty to non-empty, signals on      *)
(* every send.  One consumer waits and, like svcmgr, reads once from the   *)
(* source whose token it was given.                                        *)
(*                                                                         *)
(* The wait set has no lock.  Its header asks for all operations to be     *)
(* serialised by the caller, which no caller does: sources on other CPUs   *)
(* notify between waitset_wait's look at the ring and its registration of  *)
(* the waiter, and between SYS_WAIT_SET_ADD's look at the source and its   *)
(* writing of the back-pointer.  One thread at a time adds and removes,    *)
(* and one notification at a time is under way.  has_observer of a signal  *)
(* source is modelled in Signal.                                           *)
(***************************************************************************)
EXTENDS Integers, FiniteSets

CONSTANTS
  Endpoints, Signals, EventQueues,  \* the sources
  MaxMembers,   \* WAIT_SET_MAX_MEMBERS
  MaxSenders,   \* bound: callers queued on an endpoint at once
  Capacity,     \* of the event queues: a post to a full one is refused
  NoSource      \* an empty member slot; also the token 0

ASSUME MembersAssumption == MaxMembers \in Nat /\ MaxMembers > 1
ASSUME LimitsAssumption == MaxSenders \in Nat \ {0} /\ Capacity \in Nat \ {0}

Sources == Endpoints \union Signals \union EventQueues
Slots == 0..(MaxMembers - 1)
Limit(s) == IF s \in Endpoints THEN MaxSenders ELSE Capacity

ASSUME NoSourceAssumption == NoSource \notin Sources

VARIABLES
  members, member_count, ready_ring, ready_head, ready_tail, waiter,
  alive,               \* FALSE once wait_set_drop has run
  wait_set, wait_set_member_idx,   \* back-pointers of the sources
  pending,             \* senders queued, bits set or events held, per source
  pc, state, wakeup_value,         \* the consumer
  token,               \* what SYS_WAIT_SET_WAIT returned, until it is used
  adding, slot,        \* the source SYS_WAIT_SET_ADD has looked at, its slot
  dropped,             \* history: push_ready has found the ring full
  overtaken,           \* history: the sleeping consumer missed a push
  silent               \* history: sources whose being ready was not announced

ringVars == <<ready_ring, ready_head, ready_tail, dropped, overtaken>>
memberVars == <<members, member_count, wait_set, wait_set_member_idx, adding, slot>>
vars == <<ringVars, memberVars, waiter, alive, pending, pc, state,
          wakeup_value, token, silent>>

Init ==
  /\ members = [i \in Slots |-> NoSource]
  /\ member_count = 0
  /\ ready_ring = [i \in Slots |-> 0]
  /\ ready_head = 0
  /\ ready_tail = 0
  /\ waiter = FALSE
  /\ alive = TRUE
  /\ wait_set = [s \in Sources |-> FALSE]
  /\ wait_set_member_idx = [s \in Sources |-> 0]
  /\ pending = [s \in Sources |-> 0]
  /\ pc = "user"
  /\ state = "Running"
  /\ wakeup_value = NoSource
  /\ token = NoSource
  /\ adding = NoSource
  /\ slot = 0
  /\ dropped = FALSE
  /\ overtaken = FALSE
  /\ silent = {}

ReadyLen == (ready_tail - ready_head + MaxMembers) % MaxMembers
ReadyEntry(k) == ready_ring[(ready_head + k) % MaxMembers]

\* Positions of the ready ring whose member has not been removed.
Live == {k \in 0..(ReadyLen - 1) : members[ReadyEntry(k)] # NoSource}
FirstLive == CHOOSE k \in Live : \A j \in Live : k <= j

-----------------------------------------------------------------------------
(* Mutations.                                                              *)

\* The push is skipped when anything is pending, not when the ring is full.
PushOnce(idx) ==
  IF ready_head = ready_tail
    THEN /\ ready_ring' = [ready_ring EXCEPT ![ready_tail] = idx]
         /\ ready_tail' = (ready_tail + 1) % MaxMembers
         /\ overtaken' = (overtaken \/ pc = "popped")
         /\ UNCHANGED <<ready_head, dropped>>
    ELSE UNCHANGED ringVars

\* waitset_remove leaves the back-pointer to its caller, which forgets it.
RemoveKeepsBackPointer(s) ==
  /\ alive /\ adding = NoSource
  /\ \E i \in Slots :
       /\ members[i] = s
       /\ members' = [members EXCEPT ![i] = NoSource]
       /\ member_count' = member_count - 1
       /\ UNCHANGED <<wait_set, wait_set_member_idx, adding, slot, ringVars, waiter,
                      alive, pending, pc, state, wakeup_value, token, silent>>

-----------------------------------------------------------------------------
\* A full ring (MaxMembers - 1 entries) drops the notification.
push_ready(idx) ==
  LET next == (ready_tail + 1) % MaxMembers IN
  IF next = ready_head
    THEN dropped' = TRUE /\ UNCHANGED <<ready_ring, ready_head, ready_tail, overtaken>>
    ELSE /\ ready_ring' = [ready_ring EXCEPT ![ready_tail] = idx]
         /\ ready_tail' = next
         /\ overtaken' = (overtaken \/ pc = "popped")
         /\ UNCHANGED <<ready_head, dropped>>

\* Hand a token to the blocked consumer, make it Ready and enqueue it.
WakeWaiter(tok) ==
  /\ waiter' = FALSE
  /\ wakeup_value' = tok
  /\ state' = "Ready"

waitset_notify(idx) ==
  IF waiter
    THEN WakeWaiter(members[idx]) /\ UNCHANGED ringVars
    ELSE push_ready(idx) /\ UNCHANGED <<waiter, wakeup_value, state>>

\* What becomes ready while it is being added: its add has looked already, and
\* it has no back-pointer yet.
Unannounced(s) == IF s = adding /\ pending[s] = 0 THEN silent \union {s} ELSE silent

\* A caller queues on an endpoint, or an event is stored: notified when the
\* source was empty.
Post(s) ==
  /\ alive
  /\ s \in Endpoints \union EventQueues
  /\ pending[s] < Limit(s)
  /\ pending' = [pending EXCEPT ![s] = @ + 1]
  /\ IF wait_set[s] /\ pending[s] = 0
       THEN waitset_notify(wait_set_member_idx[s])
       ELSE UNCHANGED <<ringVars, waiter, wakeup_value, state>>
  /\ silent' = Unannounced(s)
  /\ UNCHANGED <<memberVars, alive, pc, token>>

\* signal_send with no thread blocked on the signal itself: every send
\* notifies.
Send(s) ==
  /\ alive
  /\ s \in Signals
  /\ pending' = [pending EXCEPT ![s] = 1]
  /\ IF wait_set[s]
       THEN waitset_notify(wait_set_member_idx[s])
       ELSE UNCHANGED <<ringVars, waiter, wakeup_value, state>>
  /\ silent' = Unannounced(s)
  /\ UNCHANGED <<memberVars, alive, pc, token>>

\* The consumer has got as far as the source's own blocking receive: what
\* arrives now goes straight to it and the wait set hears nothing.
HandOver(s) ==
  /\ pc = "reading"
  /\ token = s
  /\ pending[s] = 0
  /\ pc' = "user"
  /\ token' = NoSource
  /\ UNCHANGED <<ringVars, memberVars, waiter, alive, pending, state,
                 wakeup_value, silent>>

\* The consumer reads once: one caller, one event, or all the bits.  What it
\* leaves behind is not announced again.
Read(s) ==
  /\ pc = "reading"
  /\ token = s
  /\ pending[s] > 0
  /\ pending' = [pending EXCEPT ![s] = @ - 1]
  /\ pc' = "user"
  /\ silent' = IF pending[s] > 1 THEN silent \union {s} ELSE silent \ {s}
  /\ token' = NoSource
  /\ UNCHANGED <<ringVars, memberVars, waiter, alive, state, wakeup_value>>

\* SYS_WAIT_SET_WAIT, pop_ready: removed members are skipped.
WaitPop ==
  /\ alive
  /\ pc = "user"
  /\ IF Live # {}
       THEN /\ token' = members[ReadyEntry(FirstLive)]
            /\ ready_head' = (ready_head + FirstLive + 1) % MaxMembers
            /\ pc' = "reading"
       ELSE /\ ready_head' = ready_tail
            /\ pc' = "popped"
            /\ UNCHANGED token
  /\ UNCHANGED <<ready_ring, ready_tail, dropped, overtaken, memberVars, waiter,
                 alive, pending, state, wakeup_value, silent>>

\* The rest of waitset_wait: register and block.
WaitRegister ==
  /\ alive
  /\ pc = "popped"
  /\ waiter' = TRUE
  /\ state' = "Blocked"
  /\ pc' = "blocked"
  /\ UNCHANGED <<ringVars, memberVars, alive, pending, wakeup_value, token,
                 silent>>

\* The woken consumer returns from schedule() with wakeup_value.  Woken by
\* wait_set_drop it gets token 0, which names no source.
Resume ==
  /\ state = "Ready"
  /\ state' = "Running"
  /\ token' = wakeup_value
  /\ wakeup_value' = NoSource
  /\ pc' = IF wakeup_value = NoSource THEN "user" ELSE "reading"
  /\ overtaken' = FALSE
  /\ UNCHANGED <<ready_ring, ready_head, ready_tail, dropped, memberVars, waiter,
                 alive, pending, silent>>

\* SYS_WAIT_SET_ADD: refuse a registered source or a full set; take the first
\* free slot; a source that is ready is pushed, and a blocked consumer is
\* woken with its token as well ...
Add(s) ==
  LET free == {i \in Slots : members[i] = NoSource}
      idx == CHOOSE i \in free : \A j \in free : i <= j
  IN
  /\ alive /\ adding = NoSource
  /\ ~wait_set[s]
  /\ free # {}
  /\ members' = [members EXCEPT ![idx] = s]
  /\ member_count' = member_count + 1
  /\ adding' = s
  /\ slot' = idx
  /\ IF pending[s] > 0 THEN push_ready(idx) ELSE UNCHANGED ringVars
  /\ IF pending[s] > 0 /\ waiter
       THEN WakeWaiter(s)
       ELSE UNCHANGED <<waiter, wakeup_value, state>>
  /\ silent' = silent \ {s}
  /\ UNCHANGED <<wait_set, wait_set_member_idx, alive, pending, pc, token>>

\* ... and then the back-pointer is written.
AddLink ==
  /\ adding # NoSource
  /\ wait_set' = [wait_set EXCEPT ![adding] = TRUE]
  /\ wait_set_member_idx' = [wait_set_member_idx EXCEPT ![adding] = slot]
  /\ adding' = NoSource
  /\ slot' = 0
  /\ UNCHANGED <<members, member_count, ringVars, waiter, alive, pending, pc, state,
                 wakeup_value, token, silent>>

\* SYS_WAIT_SET_REMOVE, and the removal when the source object is destroyed.
Remove(s) ==
  /\ alive /\ adding = NoSource
  /\ \E i \in Slots :
       /\ members[i] = s
       /\ members' = [members EXCEPT ![i] = NoSource]
       /\ member_count' = member_count - 1
       /\ wait_set' = [wait_set EXCEPT ![s] = FALSE]
       /\ wait_set_member_idx' = [wait_set_member_idx EXCEPT ![s] = 0]
       /\ silent' = silent \ {s}
       /\ UNCHANGED <<adding, slot, ringVars, waiter, alive, pending, pc, state,
                      wakeup_value, token>>

\* wait_set_drop: wake the consumer with token 0, clear the back-pointers.
Drop ==
  /\ alive /\ adding = NoSource
  /\ alive' = FALSE
  /\ IF waiter
       THEN WakeWaiter(NoSource)
       ELSE UNCHANGED <<waiter, wakeup_value, state>>
  /\ members' = [i \in Slots |-> NoSource]
  /\ member_count' = 0
  /\ wait_set' = [s \in Sources |-> FALSE]
  /\ wait_set_member_idx' = [s \in Sources |-> 0]
  /\ silent' = {}
  /\ UNCHANGED <<adding, slot, ringVars, pending, pc, token>>

Next ==
  \/ \E s \in Sources : Post(s) \/ Send(s) \/ HandOver(s) \/ Read(s)
                        \/ Add(s) \/ Remove(s)
  \/ AddLink \/ WaitPop \/ WaitRegister \/ Resume \/ Drop

Spec == Init /\ [][Next]_vars

\* For TLC: where on the ring the entries lie, and what is left in the free
\* places, makes no difference.
RingView == <<[k \in 0..(ReadyLen - 1) |-> ReadyEntry(k)], dropped, overtaken,
              memberVars, waiter, alive, pending, pc, state, wakeup_value, token, silent>>

-----------------------------------------------------------------------------
TypeOK ==
  /\ members \in [Slots -> Sources \union {NoSource}]
  /\ member_count \in 0..MaxMembers
  /\ ready_ring \in [Slots -> Slots]
  /\ ready_head \in Slots
  /\ ready_tail \in Slots
  /\ waiter \in BOOLEAN /\ alive \in BOOLEAN
  /\ dropped \in BOOLEAN /\ overtaken \in BOOLEAN
  /\ wait_set \in [Sources -> BOOLEAN]
  /\ wait_set_member_idx \in [Sources -> Slots]
  /\ pending \in [Sources -> Nat] /\ \A s \in Sources : pending[s] <= Limit(s)
  /\ pc \in {"user", "popped", "blocked", "reading"}
  /\ state \in {"Running", "Blocked", "Ready"}
  /\ wakeup_value \in Sources \union {NoSource}
  /\ token \in Sources \union {NoSource}
  /\ adding \in Sources \union {NoSource} /\ slot \in Slots
  /\ silent \subseteq Sources

\* A source is a member from the look of its add on; its index is with the add
\* until the back-pointer is written.
Member(s) == wait_set[s] \/ s = adding
Index(s) == IF s = adding THEN slot ELSE wait_set_member_idx[s]

\* The member table and the back-pointers agree through every add, remove
\* and slot reuse: a source is registered exactly when one slot, the one its
\* index names, holds it, and member_count counts the slots in use.
MembersConsistent ==
  /\ \A s \in Sources : Member(s) <=> members[Index(s)] = s
  /\ \A i \in Slots : members[i] # NoSource => Index(members[i]) = i
  /\ member_count = Cardinality({i \in Slots : members[i] # NoSource})

\* A waiter is registered only while the ready ring is empty, which is why
\* waitset_notify may hand it a token without looking at the ring; unless a
\* notification came between pop_ready and the registration, which then finds
\* neither the entry nor a waiter to wake.
WaiterOnEmptyRing == waiter => state = "Blocked" /\ (ReadyLen = 0 \/ overtaken)

\* What waitset_add, waitset_remove, waitset_notify and waitset_wait rely on
\* in each other: types, the two-way member table, and the waiter.
WaitSetInv == TypeOK /\ MembersConsistent /\ WaiterOnEmptyRing

\* A member that is ready has an entry in the ring, or its token is on its
\* way to the consumer or in its hands, unless push_ready has dropped a
\* notification before, the consumer itself left the source non-empty when it
\* last read it, or the source became ready while it was being added.
ReadinessRemembered ==
  \A s \in Sources :
    Member(s) /\ pending[s] > 0 =>
      \/ dropped
      \/ s \in silent
      \/ \E k \in Live : ReadyEntry(k) = Index(s)
      \/ state = "Ready" /\ wakeup_value = s
      \/ pc = "reading" /\ token = s

\* SYS_WAIT_SET_WAIT does not block while a member is ready.  This is what
\* the documentation says and it does not hold in general.
ReadyReported ==
  state = "Blocked" => \A s \in Sources : wait_set[s] => pending[s] = 0

\* The token SYS_WAIT_SET_WAIT returns is that of a ready source.  This is
\* what the documentation says and it does not hold in general.
TokenOfReady == \A s \in Sources : pc = "reading" /\ token = s => pending[s] > 0
=============================================================================
