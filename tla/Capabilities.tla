---------------------------- MODULE Capabilities ----------------------------
(***************************************************************************)
(* The capability system calls (kernel/src/syscall/cap.rs), the transfer   *)
(* of capabilities with a message (kernel/src/syscall/ipc.rs) and the end  *)
(* of a CSpace (kernel/src/cap/object.rs) over the structures of CSpace.   *)
(*                                                                         *)
(* A system call is split where it takes or leaves DERIVATION_LOCK: what   *)
(* it read or inserted before is not protected after.  With one CPU a call *)
(* runs to its end, interrupts being off; with two CPUs the parts of two   *)
(* calls interleave.                                                       *)
(***************************************************************************)
EXTENDS CSpace
LOCAL INSTANCE SequencesExt

CONSTANTS
  Cpus,
  Masks,         \* rights masks the callers pass
  Tokens,        \* tokens the callers pass, none of them 0
  CSpaceDeaths,  \* "isolated": a CSpace ends only when what it holds has
                 \* no derivation links; "any"
  OneThread,     \* each CSpace is used by one thread
  DistinctCaps,  \* a message names each of its capabilities once
  RoomToCreate,  \* objects are created only where a slot is free
  MaxTransfer    \* capabilities per message, MSG_CAP_SLOTS_MAX

VARIABLES
  heap,     \* the registered CSpaces (CSPACE_REGISTRY) and their slots
  refs,     \* KernelObjectHeader.ref_count; 0 when the object is free
  born,     \* CSpace identifiers handed out
  pending   \* per CPU: the rest of the system call it executes

vars == <<heap, refs, born, pending>>

Idle == [op |-> "idle"]

Init ==
  /\ heap = [c \in {Root} |-> NewCSpace]
  /\ refs = [o \in KernelObjects |-> 0]
  /\ born = {Root}
  /\ pending = [k \in Cpus |-> Idle]

-----------------------------------------------------------------------------
(* What the calls have in common.                                          *)

\* A thread that uses CSpace c enters the kernel on CPU k.
Caller(k, c) ==
  /\ pending[k] = Idle
  /\ c \in DOMAIN heap
  /\ OneThread => \A j \in Cpus \ {k} : pending[j] # Idle => pending[j].by # c

Then(k, rest) == pending' = [pending EXCEPT ![k] = rest]

At(k, op) == pending[k].op = op

\* DERIVATION_LOCK is free: only a transfer keeps it over several steps.
LockFree(k) == \A j \in Cpus \ {k} : ~At(j, "transfer")

Occupied(id) == Resolves(heap, id) /\ ~IsNull(heap, id)

\* lookup_cap of a CSpace capability with the INSERT right.
MayInsert(c, d) ==
  /\ d \in DOMAIN heap
  /\ \E i \in Indices : /\ Occupied(<<c, i>>)
                        /\ Slot(heap, <<c, i>>).object = d
                        /\ "INSERT" \in Slot(heap, <<c, i>>).rights

\* The attenuated capability that copy, derive and insert create.
Attenuated(s, rights) == Cap(s.object, rights \cap s.rights, s.token)

\* The first half of copy, derive and insert: the reference is counted and
\* the capability inserted, or the reference is given back.
InsertChild(k, c, src, d, r) ==
  /\ heap' = r.heap
  /\ IF r.index = 0 THEN UNCHANGED <<refs, pending>>
     ELSE /\ refs' = [refs EXCEPT ![Slot(heap, src).object] = @ + 1]
          /\ Then(k, [op |-> "link", by |-> c, parent |-> src, child |-> <<d, r.index>>])
  /\ UNCHANGED born

-----------------------------------------------------------------------------
(* Creating objects.                                                       *)

\* sys_cap_create_endpoint and its siblings, sys_cap_create_cspace: when no
\* slot is free the object stays allocated.
CreateIn(k, c, o, h) ==
  /\ Caller(k, c)
  /\ RoomToCreate => insert_cap(h, c, Cap(o, AllRights, 0)).index # 0
  /\ heap' = insert_cap(h, c, Cap(o, AllRights, 0)).heap
  /\ refs' = [refs EXCEPT ![o] = 1]
  /\ UNCHANGED pending

Create(k, c, o) ==
  /\ refs[o] = 0
  /\ CreateIn(k, c, o, heap)
  /\ UNCHANGED born

create_cspace(k, c, n) ==
  /\ n \notin born
  /\ CreateIn(k, c, n, [x \in DOMAIN heap \cup {n} |-> IF x = n THEN NewCSpace ELSE heap[x]])
  /\ born' = born \cup {n}

-----------------------------------------------------------------------------
(* Copying.                                                                *)

\* sys_cap_derive.
Derive(k, c, i, rights) ==
  /\ Caller(k, c) /\ Occupied(<<c, i>>)
  /\ InsertChild(k, c, <<c, i>>, c,
       insert_cap(heap, c, Attenuated(Slot(heap, <<c, i>>), rights)))

\* sys_cap_derive_token: the source must not have a token.
DeriveToken(k, c, i, rights, token) ==
  /\ Caller(k, c) /\ Occupied(<<c, i>>)
  /\ Slot(heap, <<c, i>>).token = 0
  /\ InsertChild(k, c, <<c, i>>, c,
       insert_cap(heap, c, [Attenuated(Slot(heap, <<c, i>>), rights) EXCEPT !.token = token]))

\* sys_cap_copy: into a CSpace the caller may insert into.
Copy(k, c, i, d, rights) ==
  /\ Caller(k, c) /\ Occupied(<<c, i>>) /\ MayInsert(c, d)
  /\ InsertChild(k, c, <<c, i>>, d,
       insert_cap(heap, d, Attenuated(Slot(heap, <<c, i>>), rights)))

\* sys_cap_insert: the caller chooses the slot.
Insert(k, c, i, d, j, rights) ==
  /\ Caller(k, c) /\ Occupied(<<c, i>>) /\ MayInsert(c, d)
  /\ InsertChild(k, c, <<c, i>>, d,
       insert_cap_at(heap, d, j, Attenuated(Slot(heap, <<c, i>>), rights)))

\* The second half of the four: link_child under DERIVATION_LOCK.
Link(k) ==
  /\ At(k, "link") /\ LockFree(k)
  /\ heap' = link_child(heap, pending[k].parent, pending[k].child)
  /\ Then(k, Idle)
  /\ UNCHANGED <<refs, born>>

-----------------------------------------------------------------------------
(* Deleting and revoking.                                                  *)

\* No capability outside the root CSpace has derivation links.
Isolated ==
  \A id \in Live(heap) : id[1] # Root =>
    Slot(heap, id).parent = None /\ Slot(heap, id).first_child = None

\* sys_cap_delete reads the object before it takes the lock.
Delete(k, c, i) ==
  /\ Caller(k, c) /\ Occupied(<<c, i>>)
  /\ LET o == Slot(heap, <<c, i>>).object
     IN  CSpaceDeaths = "isolated" /\ o \in CSpaces /\ refs[o] = 1 => Isolated
  /\ Then(k, [op |-> "unlink", by |-> c, node |-> <<c, i>>,
              object |-> Slot(heap, <<c, i>>).object])
  /\ UNCHANGED <<heap, refs, born>>

\* Mutation: the children of a deleted capability become roots.
DeleteOrphans(k) ==
  /\ At(k, "unlink") /\ LockFree(k)
  /\ heap' = unlink_node(reparent_children(heap, pending[k].node, None), pending[k].node)
  /\ Then(k, [pending[k] EXCEPT !.op = "free"])
  /\ UNCHANGED <<refs, born>>

\* Under the lock: the children go to the parent, the slot leaves the tree.
DeleteUnlink(k) ==
  /\ At(k, "unlink") /\ LockFree(k)
  /\ LET node == pending[k].node
         up   == IF Resolves(heap, node) THEN Slot(heap, node).parent ELSE None
     IN  heap' = unlink_node(reparent_children(heap, node, up), node)
  /\ Then(k, [pending[k] EXCEPT !.op = "free"])
  /\ UNCHANGED <<refs, born>>

\* After the lock: the slot is freed; the reference is next.
DeleteFree(k) ==
  /\ At(k, "free")
  /\ heap' = free_slot(heap, pending[k].node)
  /\ Then(k, [op |-> "drop", by |-> pending[k].by, root |-> None,
              objects |-> <<pending[k].object>>])
  /\ UNCHANGED <<refs, born>>

\* sys_cap_revoke looks at the slot before it takes the lock.
Revoke(k, c, i) ==
  /\ Caller(k, c) /\ Occupied(<<c, i>>)
  /\ Then(k, [op |-> "revoke", by |-> c, root |-> <<c, i>>])
  /\ UNCHANGED <<heap, refs, born>>

RevokeWalk(k) ==
  /\ At(k, "revoke") /\ LockFree(k)
  /\ LET w == revoke_subtree(heap, pending[k].root)
     IN  /\ heap' = w.heap
         /\ Then(k, [op |-> "drop", by |-> pending[k].by, root |-> pending[k].root,
                     objects |-> w.objects])
  /\ UNCHANGED <<refs, born>>

\* The objects in the occupied slots of a CSpace, in for_each_object order.
for_each_object(c) ==
  SelectSeq([i \in Indices |-> heap[c].slot[i].object], LAMBDA o : o # NoObject)

\* Mutation: a CSpace dies without dropping what it holds.
DropRefShallow(k) ==
  /\ At(k, "drop") /\ pending[k].objects # <<>>
  /\ LET o == Head(pending[k].objects)
     IN  /\ refs' = [refs EXCEPT ![o] = @ - 1]
         /\ heap' = [c \in {x \in DOMAIN heap : x # o \/ refs[o] # 1} |-> heap[c]]
  /\ Then(k, [pending[k] EXCEPT !.objects = Tail(@)])
  /\ UNCHANGED born

\* dec_ref, and dealloc_object for the last reference: a CSpace is
\* unregistered and every object it names loses a reference in turn.
DropRef(k) ==
  /\ At(k, "drop") /\ pending[k].objects # <<>>
  /\ LET o    == Head(pending[k].objects)
         dies == refs[o] = 1 /\ o \in DOMAIN heap
     IN  /\ refs' = [refs EXCEPT ![o] = @ - 1]
         /\ heap' = [c \in DOMAIN heap \ (IF dies THEN {o} ELSE {}) |-> heap[c]]
         /\ Then(k, [pending[k] EXCEPT !.objects =
                       (IF dies THEN for_each_object(o) ELSE <<>>) \o Tail(@)])
  /\ UNCHANGED born

DropDone(k) ==
  /\ At(k, "drop") /\ pending[k].objects = <<>>
  /\ Then(k, Idle)
  /\ UNCHANGED <<heap, refs, born>>

-----------------------------------------------------------------------------
(* Moving.                                                                 *)

\* sys_cap_move to any free slot: all of it under DERIVATION_LOCK.
Move(k, c, i, d) ==
  /\ Caller(k, c) /\ Occupied(<<c, i>>) /\ MayInsert(c, d) /\ LockFree(k)
  /\ heap' = move_cap_between_cspaces(heap, <<c, i>>, d).heap
  /\ UNCHANGED <<refs, born, pending>>

\* sys_cap_move to a chosen slot reads the source before the lock ...
MoveTo(k, c, i, d, j) ==
  /\ Caller(k, c) /\ Occupied(<<c, i>>) /\ MayInsert(c, d)
  /\ Then(k, [op |-> "move", by |-> c, src |-> <<c, i>>, dst |-> <<d, j>>,
              cap |-> Slot(heap, <<c, i>>)])
  /\ UNCHANGED <<heap, refs, born>>

\* ... and moves what it read.
MoveCommit(k) ==
  /\ At(k, "move") /\ LockFree(k)
  /\ LET m == pending[k]
         r == insert_cap_at(heap, m.dst[1], m.dst[2], Cap(m.cap.object, m.cap.rights, 0))
     IN  heap' = IF r.index = 0 THEN r.heap
                 ELSE Relocate(r.heap, m.src, m.dst, m.cap.token)
  /\ Then(k, Idle)
  /\ UNCHANGED <<refs, born>>

\* Mutation: the slots are not reserved before the first move.
TransferUnreserved(k, c, d, srcs) ==
  /\ Caller(k, c) /\ d \in DOMAIN heap
  /\ \A n \in DOMAIN srcs : Occupied(<<c, srcs[n]>>)
  /\ DistinctCaps => IsInjective(srcs)
  /\ Then(k, [op |-> "ready", by |-> c, dst |-> d, srcs |-> srcs, out |-> <<>>])
  /\ UNCHANGED <<heap, refs, born>>

\* transfer_caps: the sources are validated and the slots made available
\* before the lock is taken.
Transfer(k, c, d, srcs) ==
  /\ Caller(k, c) /\ d \in DOMAIN heap
  /\ \A n \in DOMAIN srcs : Occupied(<<c, srcs[n]>>)
  /\ DistinctCaps => IsInjective(srcs)
  /\ LET h == pre_allocate(heap, d, Len(srcs))
     IN  /\ heap' = h
         /\ IF h[d].free_count < Len(srcs) THEN UNCHANGED pending
            ELSE Then(k, [op |-> "ready", by |-> c, dst |-> d, srcs |-> srcs, out |-> <<>>])
  /\ UNCHANGED <<refs, born>>

\* It takes the locks ...
TransferLock(k) ==
  /\ At(k, "ready") /\ LockFree(k)
  /\ Then(k, [pending[k] EXCEPT !.op = "transfer"])
  /\ UNCHANGED <<heap, refs, born>>

\* ... moves the capabilities one by one, slot 0 standing for a failure ...
TransferMove(k) ==
  /\ At(k, "transfer") /\ pending[k].srcs # <<>>
  /\ LET p == pending[k]
         r == move_cap_between_cspaces(heap, <<p.by, Head(p.srcs)>>, p.dst)
     IN  /\ heap' = r.heap
         /\ Then(k, [p EXCEPT !.srcs = Tail(@), !.out = Append(@, r.index)])
  /\ UNCHANGED <<refs, born>>

\* ... and returns the indices.
TransferDone(k) ==
  /\ At(k, "transfer") /\ pending[k].srcs = <<>>
  /\ Then(k, Idle)
  /\ UNCHANGED <<heap, refs, born>>

-----------------------------------------------------------------------------
Continue(k) ==
  \/ Link(k) \/ DeleteUnlink(k) \/ DeleteFree(k)
  \/ RevokeWalk(k) \/ DropRef(k) \/ DropDone(k)
  \/ MoveCommit(k) \/ TransferLock(k) \/ TransferMove(k) \/ TransferDone(k)

\* A call that names one source slot, and at most one destination.
Call(k, c, i) ==
  \/ Delete(k, c, i) \/ Revoke(k, c, i)
  \/ \E rights \in Masks :
       \/ Derive(k, c, i, rights)
       \/ \E token \in Tokens : DeriveToken(k, c, i, rights, token)
       \/ \E d \in CSpaces : \/ Copy(k, c, i, d, rights)
                             \/ \E j \in Indices : Insert(k, c, i, d, j, rights)
  \/ \E d \in CSpaces : \/ Move(k, c, i, d)
                        \/ \E j \in Indices : MoveTo(k, c, i, d, j)

Next ==
  \E k \in Cpus :
     \/ Continue(k)
     \/ \E c \in CSpaces :
          \/ \E i \in Indices : Call(k, c, i)
          \/ \E o \in Objects : Create(k, c, o)
          \/ \E n \in CSpaces : create_cspace(k, c, n)
          \/ \E d \in CSpaces : \E srcs \in UNION {[1..n -> Indices] : n \in 1..MaxTransfer} :
               Transfer(k, c, d, srcs)

Spec == Init /\ [][Next]_vars

-----------------------------------------------------------------------------
(* Properties.                                                             *)

LinkType == SlotIds \cup {None}

SlotType ==
  [object : KernelObjects \cup {NoObject}, rights : SUBSET AllRights, token : Tokens \cup {0},
   parent : LinkType, first_child : LinkType, next : LinkType, prev : LinkType]

\* Every variable has its type, whatever call is under way.
TypeOK ==
  /\ DOMAIN heap \subseteq born /\ born \subseteq CSpaces
  /\ \A c \in DOMAIN heap :
       /\ \A i \in Indices : heap[c].slot[i] \in SlotType
       /\ heap[c].pages \in 0..L1_SIZE
       /\ heap[c].free_head \in Mapped(heap, c) \cup {0}
       /\ heap[c].allocated_slots \in 0..max_slots[c]
       /\ heap[c].free_count \in 0..heap[c].allocated_slots
  /\ refs \in [KernelObjects -> 0..Cardinality(SlotIds)]

Children(id) == Chain(heap, Slot(heap, id).first_child)

\* The capabilities a slot was derived from, nearest first, as far as the
\* parent pointers lead.
Ancestors(id) ==
  LET up[n \in 0..Cardinality(SlotIds)] ==
        IF n = 0 THEN id
        ELSE LET x == up[n - 1] IN IF x \in Live(heap) THEN Slot(heap, x).parent ELSE None
  IN  {up[n] : n \in 1..Cardinality(SlotIds)} \ {None}

\* The four pointers of every capability describe one forest: a child list
\* holds exactly the live capabilities that name its owner as parent, each
\* once, doubly linked in order; roots have no siblings; nothing is its own
\* ancestor.  Any number of copies, moves, deletions and revocations over
\* several CSpaces (link_child, unlink_node, reparent_children, Relocate).
TreeWellFormed ==
  \A id \in Live(heap) :
    LET s == Slot(heap, id)
        list == Children(id)
    IN  /\ {list[n] : n \in DOMAIN list} =
             {x \in Live(heap) : Slot(heap, x).parent = id}
        /\ IsInjective(list)
        /\ \A n \in DOMAIN list :
             Slot(heap, list[n]).prev = IF n = 1 THEN None ELSE list[n - 1]
        /\ s.parent = None => s.prev = None /\ s.next = None
        /\ s.parent # None => s.parent \in Live(heap)
        /\ id \notin Ancestors(id)

\* The free list of every CSpace holds each of its empty slots once, and
\* free_count, from which populated_count and pre_allocate work, agrees
\* (allocate_slot, insert_cap_at, free_slot, grow at the quota).
FreeListExact ==
  \A c \in DOMAIN heap :
    LET list == FreeList(heap, c)
    IN  /\ IsInjective(list)
        /\ {list[n] : n \in DOMAIN list} =
             {i \in 1..heap[c].allocated_slots : IsNull(heap, <<c, i>>)}
        /\ Len(list) = heap[c].free_count

\* The slots of all CSpaces: the derivation fields are links of the forest in
\* a live slot and of the free list in an empty one, and never confused.
SlotsInv == TypeOK /\ TreeWellFormed /\ FreeListExact

\* References to an object: capabilities for it, and those a call has taken
\* out of their slots and not dropped yet.
References(o) ==
  LET dropping(k) ==
        IF At(k, "drop") THEN {<<k, n>> : n \in {m \in DOMAIN pending[k].objects :
                                                 pending[k].objects[m] = o}}
        ELSE {}
  IN  Cardinality({id \in Live(heap) : Slot(heap, id).object = o})
        + Cardinality(UNION {dropping(k) : k \in Cpus})

\* ref_count is the number of references, so an object is freed with its
\* last capability and not before (inc_ref and dec_ref in every call, and
\* for the capabilities inside a CSpace that dies).
RefCountExact == \A o \in KernelObjects : refs[o] = References(o)

\* When a revocation leaves the lock, nothing that was derived from the
\* revoked capability is left in any CSpace (revoke_subtree).
RevokeComplete ==
  \A k \in Cpus : At(k, "drop") /\ pending[k].root # None =>
    \A id \in Live(heap) : pending[k].root \notin Ancestors(id)

\* capability-internals.md: the target of a revocation is destroyed too.
RevokeTakesTarget ==
  \A k \in Cpus : At(k, "drop") /\ pending[k].root # None =>
    pending[k].root \notin Live(heap)

\* transfer_caps is all-or-nothing: once it has begun to move, no single
\* move fails.
TransferAllOrNothing ==
  \A k \in Cpus : At(k, "transfer") =>
    \A n \in DOMAIN pending[k].out : pending[k].out[n] # 0

\* link_child joins two live capabilities.
LinksLive ==
  \A k \in Cpus : At(k, "link") =>
    {pending[k].parent, pending[k].child} \subseteq Live(heap)

-----------------------------------------------------------------------------
(* The system calls implement the forest.  A capability is part of it from *)
(* the step that links it until the one that unlinks it.                   *)

NoCap == [object |-> NoObject]

Hidden ==
  {pending[k].child : k \in {j \in Cpus : At(j, "link")}}
    \cup {pending[k].node : k \in {j \in Cpus : At(j, "free")}}

forest ==
  LET linked == Live(heap) \ Hidden
  IN  [id \in SlotIds |->
         IF id \in linked
         THEN LET s == Slot(heap, id)
              IN  [object |-> s.object, rights |-> s.rights, token |-> s.token,
                   parent |-> s.parent]
         ELSE NoCap]

Forest == INSTANCE CapForest WITH
  cap <- forest, Slots <- SlotIds, Things <- KernelObjects,
  NoSlot <- None

\* Seen without its pointers and its two-step calls, the system is the
\* capability forest: copies attenuate, deletion hands children up,
\* revocation takes all descendants and moving changes nobody's place.
ImplementsForest == Forest!Spec
=============================================================================
