-------------------------------- MODULE Buddy --------------------------------
(***************************************************************************)
(* The operations of the physical frame allocator, kernel/src/mm/buddy.rs, *)
(* and its filling from the boot memory map, kernel/src/mm/init.rs.  Every *)
(* operation runs under FRAME_ALLOC_LOCK; Memory makes steps of them.      *)
(*                                                                         *)
(* Addresses are byte addresses with a small PAGE_SIZE, so that the        *)
(* rounding of ranges to pages is part of the model.  A free list is the   *)
(* sequence of its addresses, head first; the pool of list nodes is the    *)
(* number of nodes that are not in a list.  The field "held" is not in the *)
(* code: the blocks <<address, order>> handed out and not freed.           *)
(***************************************************************************)
EXTENDS Naturals, FiniteSets, Sequences, SequencesExt, FiniteSetsExt

CONSTANTS
    PAGE_SIZE,      \* bytes in a page
    MAX_ORDER,      \* largest block: 2^MAX_ORDER pages
    POOL_SIZE,      \* list nodes
    Top,            \* first address above all memory; as a result, None
    KERNEL_RESERVE_PAGES, \* what drain_for_usercaps leaves the kernel
    MaxDrained,     \* length of its output buffer
    MAX_RANGES,     \* capacity of a list of usable ranges
    MAX_EXCL        \* capacity of the list of exclusions

ASSUME BuddyAssumption ==
    /\ PAGE_SIZE \in Nat \ {0}
    /\ {MAX_ORDER, POOL_SIZE, Top, KERNEL_RESERVE_PAGES, MaxDrained, MAX_RANGES, MAX_EXCL}
         \subseteq Nat

(* An intermediate state is the one element of a set: TLC computes it once *)
(* and before what uses it.  InTurn is FoldLeft with such states.          *)
The(S) == CHOOSE x \in S : TRUE
InTurn(Op(_, _), first, steps) ==
    FoldLeft(LAMBDA x, step : The({Op(now, step) : now \in {x}}), first, steps)

Orders == 0..MAX_ORDER
Size(order) == PAGE_SIZE * 2^order

-----------------------------------------------------------------------------
(* BuddyAllocator.                                                         *)

Empty == [free_lists |-> [o \in Orders |-> <<>>], free_pages |-> 0,
          total_pages |-> 0, hung |-> FALSE, held |-> {}]

NodesUsed(b) == MapThenSumSet(LAMBDA o : Len(b.free_lists[o]), Orders)

(* push_block: without a free node the kernel prints a line and spins for  *)
(* ever, holding FRAME_ALLOC_LOCK.                                         *)
push_block(b, order, addr) ==
    IF b.hung \/ NodesUsed(b) = POOL_SIZE
    THEN [b EXCEPT !.hung = TRUE]
    ELSE [b EXCEPT !.free_lists[order] = <<addr>> \o @, !.free_pages = @ + 2^order]

pop_block(b, order) ==
    [b EXCEPT !.free_lists[order] = Tail(@), !.free_pages = @ - 2^order]

remove_block(b, order, addr) ==
    [b EXCEPT !.free_lists[order] = RemoveFirst(@, addr), !.free_pages = @ - 2^order]

(* add_region: the largest aligned block that fits, again and again. *)
LargestOrder(cursor, end) ==
    Max({0} \cup {o \in Orders : cursor + Size(o) <= end /\ cursor % Size(o) = 0})

add_region(b, start, end) ==
    LET Rest[cursor \in 0..Top] ==
            IF cursor >= end THEN <<>>
            ELSE LET o == LargestOrder(cursor, end) IN <<<<o, cursor>>>> \o Rest[cursor + Size(o)]
        counted == [b EXCEPT !.total_pages = @ + (end - start) \div PAGE_SIZE]
    IN InTurn(LAMBDA x, block : push_block(x, block[1], block[2]), counted, Rest[start])

(* The smallest order that has a block for the request (alloc returns None *)
(* when there is none).                                                    *)
Sources(b, order) == {o \in order..MAX_ORDER : b.free_lists[o] # <<>>}

(* alloc: pop, and push the upper half of every split.  The address is Top *)
(* when there is no block.                                                 *)
alloc(b, order) ==
    IF Sources(b, order) = {} THEN [buddy |-> b, addr |-> Top]
    ELSE LET source == Min(Sources(b, order))
             block  == Head(b.free_lists[source])
             halves == [i \in 1..(source - order) |-> source - i]
             split  == FoldLeft(LAMBDA x, o : push_block(x, o, block + Size(o)),
                                pop_block(b, source), halves)
         IN [buddy |-> [split EXCEPT !.held = @ \cup {<<block, order>>}], addr |-> block]

(* Mutation: the block above, whichever half this one is. *)
NextBlock(addr, order) == addr + Size(order)

(* The block of the given order that contains addr, and addr XOR its size. *)
BlockAt(addr, order) == (addr \div Size(order)) * Size(order)
BuddyOf(addr, order) ==
    IF (addr \div Size(order)) % 2 = 0 THEN addr + Size(order) ELSE addr - Size(order)

(* Mutation: does not merge. *)
FreeUnmerged(b, addr, order) ==
    [push_block(b, order, addr) EXCEPT !.held = @ \ {<<addr, order>>}]

(* free: merge while the buddy is free and the order below MAX_ORDER. *)
free(b, addr, order) ==
    LET Merges(o) == /\ o < MAX_ORDER
                     /\ Contains(b.free_lists[o], BuddyOf(BlockAt(addr, o), o))
        top == Min({o \in order..MAX_ORDER : ~Merges(o)})
        without == FoldLeft(LAMBDA x, o : remove_block(x, o, BuddyOf(BlockAt(addr, o), o)),
                            b, [i \in 1..(top - order) |-> order + i - 1])
    IN [push_block(without, top, BlockAt(addr, top)) EXCEPT !.held = @ \ {<<addr, order>>}]

(* drain_for_usercaps: from the highest order down, as many blocks as the  *)
(* buffer takes and the reserve allows.  A pair: allocator, blocks taken   *)
(* in order.                                                               *)
DrainCount(b, order, reserve, taken) ==
    Max({0} \cup {n \in 0..Len(b.free_lists[order]) :
                     taken + n <= MaxDrained /\ reserve + n * 2^order <= b.free_pages})

drain_for_usercaps(b, reserve) ==
    LET Order(x, o) ==
            LET n == DrainCount(x[1], o, reserve, Len(x[2]))
                list == x[1].free_lists[o]
            IN <<[x[1] EXCEPT !.free_lists[o] = SubSeq(@, n + 1, Len(@)), !.free_pages = @ - n * 2^o],
                 x[2] \o [i \in 1..n |-> <<list[i], o>>]>>
    IN FoldLeft(Order, <<b, <<>>>>, [i \in 1..(MAX_ORDER + 1) |-> MAX_ORDER + 1 - i])

-----------------------------------------------------------------------------
(* init_physical_memory.                                                   *)

align_down(a) == (a \div PAGE_SIZE) * PAGE_SIZE
align_up(a) == align_down(a + PAGE_SIZE - 1)

(* RangeList::push: empty ranges, and ranges beyond the capacity, are       *)
(* dropped.                                                                *)
RangePush(list, r, capacity) ==
    IF r[1] < r[2] /\ Len(list) < capacity THEN Append(list, r) ELSE list

collect_usable_ranges(m) ==
    FoldLeft(LAMBDA l, r : RangePush(l, <<align_up(r[1]), align_down(r[2])>>, MAX_RANGES),
             <<>>, m.usable)

collect_exclusions(m) ==
    FoldLeft(LAMBDA l, r : RangePush(l, <<align_down(r[1]), align_up(r[2])>>, MAX_EXCL),
             <<>>, m.excluded)

(* What every exclusion in turn leaves of a range. *)
add_surviving_subranges(b, range, excls) ==
    LET Smaller(x, y) == IF x < y THEN x ELSE y
        Larger(x, y) == IF x < y THEN y ELSE x
        Cut(work, e) ==
            FoldLeft(LAMBDA l, w : RangePush(RangePush(l, <<w[1], Smaller(w[2], e[1])>>, MAX_RANGES),
                                             <<Larger(w[1], e[2]), w[2]>>, MAX_RANGES),
                     <<>>, work)
    IN The({InTurn(LAMBDA x, r : add_region(x, r[1], r[2]), b, left) :
              left \in {InTurn(Cut, <<range>>, excls)}})

init_physical_memory(m) ==
    The({InTurn(LAMBDA b, r : add_surviving_subranges(b, r, excls), Empty, collect_usable_ranges(m)) :
           excls \in {collect_exclusions(m)}})

=============================================================================
