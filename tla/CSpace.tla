------------------------------- MODULE CSpace -------------------------------
(***************************************************************************)
(* Capability spaces and the derivation tree as a pointer structure: the   *)
(* operators of kernel/src/cap/cspace.rs and kernel/src/cap/derivation.rs. *)
(* A "heap" h gives every CSpace its slot pages and its free list.  Slots  *)
(* refer to each other by SlotId, a CSpace and an index, and a free slot   *)
(* keeps its successor in the free list in its deriv_parent field.         *)
(***************************************************************************)
EXTENDS Naturals, Sequences, FiniteSets
LOCAL INSTANCE SequencesExt

CONSTANTS
  CSpaces,    \* CSpace identifiers; alloc_cspace_id never reuses one
  Root,       \* the CSpace with identifier 0
  L1_SIZE,    \* directory entries of a CSpace
  L2_SIZE,    \* slots of a page
  max_slots,  \* the quota of each CSpace
  Objects,    \* kernel objects that are not CSpaces
  AllRights   \* rights bits, "INSERT" among them

ASSUME CSpaceAssumption ==
  /\ Root \in CSpaces
  /\ L1_SIZE \in Nat \ {0} /\ L2_SIZE \in Nat \ {0, 1}
  /\ max_slots \in [CSpaces -> 1..(L1_SIZE * L2_SIZE)]

Indices == 1 .. (L1_SIZE * L2_SIZE - 1)
SlotIds == CSpaces \X Indices
None == <<>>
NoObject == "Null"

\* The root CSpace is a static of the kernel, not a kernel object.
KernelObjects == (CSpaces \ {Root}) \cup Objects

\* CapabilitySlot::null; the tag is Null exactly when there is no object.
NullSlot ==
  [object |-> NoObject, rights |-> {}, token |-> 0,
   parent |-> None, first_child |-> None, next |-> None, prev |-> None]

\* CSpace::new: no page is allocated yet.
NewCSpace ==
  [slot |-> [i \in Indices |-> NullSlot], pages |-> 0, allocated_slots |-> 0,
   free_head |-> 0, free_count |-> 0]

-----------------------------------------------------------------------------
(* Looking up and changing slots.  The registry of live CSpaces is part of *)
(* the heap: a CSpace that is not registered has no entry in it.           *)

\* The indices of the pages a CSpace has allocated.
Mapped(h, c) == {i \in Indices : i \div L2_SIZE < h[c].pages}

\* resolve_slot_mut finds a slot: registered CSpace, allocated page.
Resolves(h, id) == id # None /\ id[1] \in DOMAIN h /\ id[2] \in Mapped(h, id[1])

Slot(h, id) == h[id[1]].slot[id[2]]

IsNull(h, id) == Slot(h, id).object = NoObject

\* Occupied slots.
Live(h) == {id \in SlotIds : Resolves(h, id) /\ ~IsNull(h, id)}

\* Change one slot, or nothing when the identifier does not resolve.
Update(h, id, changes) ==
  IF Resolves(h, id)
  THEN [h EXCEPT ![id[1]].slot[id[2]] =
          [f \in DOMAIN @ |-> IF f \in DOMAIN changes THEN changes[f] ELSE @[f]]]
  ELSE h

\* next_free and set_next_free, which use CSpace identifier 0.
NextFree(slot) == IF slot.parent = None THEN 0 ELSE slot.parent[2]
FreeSlot(next) == [NullSlot EXCEPT !.parent = IF next = 0 THEN None ELSE <<Root, next>>]

-----------------------------------------------------------------------------
(* The free list.                                                          *)

\* CSpace::grow fails when the directory or the quota is exhausted.
CanGrow(h, c) ==
  /\ h[c].pages < L1_SIZE
  /\ h[c].allocated_slots < max_slots[c]

\* CSpace::grow: thread the permitted slots of a new page onto the free
\* list, in ascending order; slot 0 is skipped.
grow(h, c) ==
  LET cs    == h[c]
      first == IF cs.pages = 0 THEN 1 ELSE cs.pages * L2_SIZE
      page  == (cs.pages + 1) * L2_SIZE - first
      quota == max_slots[c] - cs.allocated_slots
      added == IF page < quota THEN page ELSE quota
      last  == first + added - 1
  IN  [h EXCEPT ![c] =
        [slot |-> [i \in Indices |->
                     IF i \in first..last
                     THEN FreeSlot(IF i = last THEN cs.free_head ELSE i + 1)
                     ELSE cs.slot[i]],
         pages |-> cs.pages + 1,
         allocated_slots |-> cs.allocated_slots + added,
         free_head |-> first,
         free_count |-> cs.free_count + added]]

\* grow() called until its condition holds or it fails.
GrowUntil(h, c, Enough(_)) ==
  FoldLeft(LAMBDA g, n : IF Enough(g) \/ ~CanGrow(g, c) THEN g ELSE grow(g, c),
           h, [n \in 1..L1_SIZE |-> n])

\* CSpace::pre_allocate: the heap after it; it succeeds when enough is free.
pre_allocate(h, c, min_free) ==
  GrowUntil(h, c, LAMBDA g : g[c].free_count >= min_free)

\* CSpace::allocate_slot: the heap once free_head is set, if it can be ...
WithFreeHead(h, c) == GrowUntil(h, c, LAMBDA g : g[c].free_head # 0)

\* ... and the slot popped off the free list.
PopFree(h, c) ==
  LET i == h[c].free_head
  IN  [h EXCEPT ![c].free_head = NextFree(h[c].slot[i]),
                ![c].free_count = @ - 1,
                ![c].slot[i] = NullSlot]

\* CSpace::free_slot; it does not ask whether the slot is free already.
free_slot(h, id) ==
  IF Resolves(h, id)
  THEN [h EXCEPT ![id[1]].slot[id[2]] = FreeSlot(h[id[1]].free_head),
                 ![id[1]].free_head = id[2],
                 ![id[1]].free_count = @ + 1]
  ELSE h

\* The indices on the free list, in order.
FreeList(h, c) ==
  LET at[n \in 0..Cardinality(Indices)] ==
        IF n = 0 THEN h[c].free_head
        ELSE LET i == at[n - 1] IN IF i = 0 THEN 0 ELSE NextFree(h[c].slot[i])
  IN  SelectSeq([n \in 1..(Cardinality(Indices) + 1) |-> at[n - 1]], LAMBDA i : i # 0)

\* CSpace::remove_from_free_list: splice one index out, if it is there.
remove_from_free_list(h, c, target) ==
  LET list  == FreeList(h, c)
      after == NextFree(h[c].slot[target])
  IN  CASE h[c].free_head = target ->
             [h EXCEPT ![c].free_head = after, ![c].free_count = @ - 1]
        [] h[c].free_head # target /\ target \in {list[n] : n \in DOMAIN list} ->
             LET before == list[(CHOOSE n \in DOMAIN list : list[n] = target) - 1]
             IN  [h EXCEPT ![c].slot[before] = FreeSlot(after), ![c].free_count = @ - 1]
        [] OTHER -> h

\* The capability written by insert_cap and insert_cap_at: not linked yet.
Cap(object, rights, token) ==
  [NullSlot EXCEPT !.object = object, !.rights = rights, !.token = token]

\* CSpace::insert_cap: the new heap and the index, 0 when it fails.
insert_cap(h, c, cap) ==
  LET g == WithFreeHead(h, c)
      i == g[c].free_head
  IN  IF i = 0 THEN [heap |-> g, index |-> 0]
      ELSE [heap |-> [PopFree(g, c) EXCEPT ![c].slot[i] = cap], index |-> i]

\* CSpace::insert_cap_at.
insert_cap_at(h, c, i, cap) ==
  LET g == GrowUntil(h, c, LAMBDA f : i \in Mapped(f, c))
  IN  CASE i = 0 \/ i >= max_slots[c] -> [heap |-> h, index |-> 0]
        [] i > 0 /\ i < max_slots[c] /\ (i \notin Mapped(g, c) \/ ~IsNull(g, <<c, i>>)) ->
             [heap |-> g, index |-> 0]
        [] OTHER -> [heap |-> [remove_from_free_list(g, c, i) EXCEPT ![c].slot[i] = cap],
                     index |-> i]

-----------------------------------------------------------------------------
(* The derivation tree; the callers hold DERIVATION_LOCK.                  *)

\* A sibling list as the walks see it: it ends at None or at the first
\* identifier that does not resolve, which is still visited.
Chain(h, first) ==
  LET at[n \in 0..Cardinality(SlotIds)] ==
        IF n = 0 THEN first
        ELSE LET id == at[n - 1]
             IN  IF Resolves(h, id) THEN Slot(h, id).next ELSE None
  IN  SelectSeq([n \in 1..(Cardinality(SlotIds) + 1) |-> at[n - 1]],
                LAMBDA id : id # None)

\* Mutation: the former first child is not told about its new sibling.
link_child_one_way(h, parent, child) ==
  IF ~Resolves(h, child) THEN h
  ELSE LET old == IF Resolves(h, parent) THEN Slot(h, parent).first_child ELSE None
           h1  == Update(h, parent, [first_child |-> child])
       IN  Update(h1, child, [parent |-> parent, prev |-> None, next |-> old])

\* link_child: prepend a slot to the children of its parent.
link_child(h, parent, child) ==
  IF ~Resolves(h, child) THEN h
  ELSE LET h1  == Update(h, child, [parent |-> parent, prev |-> None])
           old == IF Resolves(h1, parent) THEN Slot(h1, parent).first_child ELSE None
           h2  == Update(h1, parent, [first_child |-> child])
           h3  == Update(h2, old, [prev |-> child])
       IN  Update(h3, child, [next |-> old])

\* unlink_node: splice a slot out of its sibling list.
unlink_node(h, node) ==
  IF ~Resolves(h, node) THEN h
  ELSE LET s  == Slot(h, node)
           h1 == Update(h, node, [parent |-> None, prev |-> None, next |-> None])
           h2 == IF s.prev # None THEN Update(h1, s.prev, [next |-> s.next])
                 ELSE Update(h1, s.parent, [first_child |-> s.next])
       IN  Update(h2, s.next, [prev |-> s.prev])

\* reparent_children: every child goes to the new parent, or becomes a root.
reparent_children(h, node, new_parent) ==
  IF ~Resolves(h, node) THEN h
  ELSE FoldLeft(LAMBDA g, child :
                  IF new_parent = None
                  THEN Update(g, child, [parent |-> None, prev |-> None, next |-> None])
                  ELSE link_child(g, new_parent, child),
                Update(h, node, [first_child |-> None]),
                Chain(h, Slot(h, node).first_child))

\* One turn of revoke_subtree's loop: pop a slot, free it, remember its
\* object and push its children.
RevokeOne(w) ==
  LET node == Last(w.stack)
      rest == Front(w.stack)
  IN  IF ~Resolves(w.heap, node) THEN [w EXCEPT !.stack = rest]
      ELSE LET s == Slot(w.heap, node)
               g == free_slot(w.heap, node)
           IN  [heap    |-> g,
                objects |-> IF s.object = NoObject THEN w.objects
                            ELSE Append(w.objects, s.object),
                stack   |-> rest \o Chain(g, s.first_child)]

\* The loop ends: a slot that was popped has no children any more.
RECURSIVE RevokeAll(_)
RevokeAll(w) == IF w.stack = <<>> THEN w ELSE RevokeAll(RevokeOne(w))

\* revoke_subtree: the heap and the objects whose reference goes away.
revoke_subtree(h, root) ==
  IF ~Resolves(h, root) THEN [heap |-> h, objects |-> <<>>, stack |-> <<>>]
  ELSE RevokeAll([heap    |-> Update(h, root, [first_child |-> None]),
                  objects |-> <<>>,
                  stack   |-> Chain(h, Slot(h, root).first_child)])

\* The second half of move_cap_between_cspaces and of sys_cap_move: give
\* the moved capability its links and everyone who named the source the
\* destination; then free the source.
Relocate(h, src, dst, token) ==
  LET s  == Slot(h, src)
      h1 == Update(h, dst, [token |-> token, parent |-> s.parent, prev |-> s.prev,
                            first_child |-> s.first_child, next |-> s.next])
      Redirect(g, id, f) ==
        IF Resolves(g, id) /\ Slot(g, id)[f] = src
        THEN Update(g, id, [x \in {f} |-> dst]) ELSE g
      h2 == Redirect(h1, s.parent, "first_child")
      h3 == Redirect(h2, s.prev, "next")
      h4 == Redirect(h3, s.next, "prev")
      h5 == FoldLeft(LAMBDA g, child : Update(g, child, [parent |-> dst]),
                     h4, Chain(h4, s.first_child))
  IN  free_slot(h5, src)

\* move_cap_between_cspaces: the index is 0 when it fails.
move_cap_between_cspaces(h, src, dst) ==
  IF ~Resolves(h, src) \/ IsNull(h, src) THEN [heap |-> h, index |-> 0]
  ELSE LET s == Slot(h, src)
           r == insert_cap(h, dst, Cap(s.object, s.rights, 0))
       IN  IF r.index = 0 THEN r
           ELSE [heap  |-> Relocate(r.heap, src, <<dst, r.index>>, s.token),
                 index |-> r.index]
=============================================================================
