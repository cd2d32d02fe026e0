----------------------------- MODULE KernelHeap -----------------------------
(***************************************************************************)
(* The operations of the kernel heap: slab caches (kernel/src/mm/slab.rs)  *)
(* behind size classes (kernel/src/mm/size_class.rs), the global allocator *)
(* of the kernel (kernel/src/mm/heap.rs).  They run under the heap's lock  *)
(* and then FRAME_ALLOC_LOCK.                                              *)
(*                                                                         *)
(* Objects are named by the physical address the direct map gives them; a  *)
(* slab's free list, threaded through its free objects, is a sequence.     *)
(***************************************************************************)
EXTENDS Buddy

CONSTANTS
    BIN_SIZES,   \* object sizes of the bins, ascending powers of two
    SMALL_OBJ,   \* objects up to this size are in slabs of one page,
    MEDIUM_OBJ,  \* ... up to this size of two, above it of four
    MAX_SLABS    \* slabs of a cache

ASSUME KernelHeapAssumption ==
    /\ BIN_SIZES \in Seq(Nat \ {0}) /\ BIN_SIZES # <<>>
    /\ {SMALL_OBJ, MEDIUM_OBJ, MAX_SLABS} \subseteq Nat

-----------------------------------------------------------------------------
(* SlabCache.  Its slabs are the first slab_count entries of its table.    *)

new_cache(obj_size) ==
    [obj_size |-> obj_size,
     slab_order |-> IF obj_size <= SMALL_OBJ THEN 0 ELSE IF obj_size <= MEDIUM_OBJ THEN 1 ELSE 2,
     slabs |-> <<>>]

make_slab(cache, phys) ==
    [base |-> phys, order |-> cache.slab_order, used |-> 0,
     free |-> [i \in 1..(Size(cache.slab_order) \div cache.obj_size) |->
                 phys + (i - 1) * cache.obj_size]]

(* The results of an allocation: the cache, the frame allocator and the    *)
(* object, Top when there is none.                                         *)
TakeFrom(cache, i, b) ==
    [cache |-> [cache EXCEPT !.slabs[i].free = Tail(@), !.slabs[i].used = @ + 1],
     buddy |-> b, addr |-> Head(cache.slabs[i].free)]

(* SlabCache::alloc: the first slab with a free object, or a new slab. *)
slab_alloc(cache, b) ==
    LET open == {i \in DOMAIN cache.slabs : cache.slabs[i].free # <<>>}
        got  == alloc(b, cache.slab_order)
    IN CASE open # {} -> TakeFrom(cache, Min(open), b)
         [] open = {} /\ (Len(cache.slabs) >= MAX_SLABS \/ got.addr = Top) ->
              [cache |-> cache, buddy |-> b, addr |-> Top]
         [] OTHER -> TakeFrom([cache EXCEPT !.slabs = Append(@, make_slab(cache, got.addr))],
                              Len(cache.slabs) + 1, got.buddy)

(* Mutation: an object of the slab may still be in use. *)
AlmostEmptied(slab) == slab.used <= 1

Emptied(slab) == slab.used = 0

(* SlabCache::free: a slab left without objects goes back to the frame     *)
(* allocator unless it is the last; the last slab of the table takes its   *)
(* place.  An object of no slab is ignored (a debug assertion).            *)
slab_free(cache, b, addr) ==
    LET Owns(slab) == addr \in slab.base..(slab.base + Size(slab.order) - 1)
        owners == {i \in DOMAIN cache.slabs : Owns(cache.slabs[i])}
        i   == Min(owners)
        put == [cache EXCEPT !.slabs[i].free = <<addr>> \o @, !.slabs[i].used = @ - 1]
    IN CASE owners = {} -> [cache |-> cache, buddy |-> b]
         [] owners # {} /\ Emptied(put.slabs[i]) /\ Len(put.slabs) > 1 ->
              [cache |-> [put EXCEPT !.slabs = Front([put.slabs EXCEPT ![i] = Last(put.slabs)])],
               buddy |-> free(b, put.slabs[i].base, put.slabs[i].order)]
         [] OTHER -> [cache |-> put, buddy |-> b]

-----------------------------------------------------------------------------
(* SizeClassAllocator.                                                     *)

new_bins == [i \in DOMAIN BIN_SIZES |-> new_cache(BIN_SIZES[i])]

(* The size that picks the bin, and the bin; the rounding to a power of    *)
(* two picks the same one.                                                 *)
Effective(size, align) == Max({size, align, 1})
Binned(size, align) == Effective(size, align) <= Last(BIN_SIZES)
bin_index(size, align) == Min({i \in DOMAIN BIN_SIZES : BIN_SIZES[i] >= Effective(size, align)})

(* The order of a block of at least the given size. *)
large_order(size) ==
    LET pages == (size + PAGE_SIZE - 1) \div PAGE_SIZE
    IN Min({o \in 0..pages : 2^o >= pages})

(* SizeClassAllocator::alloc. *)
heap_alloc(bins, b, size, align) ==
    IF Binned(size, align)
    THEN LET i == bin_index(size, align)
             r == slab_alloc(bins[i], b)
         IN [bins |-> [bins EXCEPT ![i] = r.cache], buddy |-> r.buddy, addr |-> r.addr]
    ELSE IF large_order(size) > MAX_ORDER
    THEN [bins |-> bins, buddy |-> b, addr |-> Top]
    ELSE LET r == alloc(b, large_order(size))
         IN [bins |-> bins, buddy |-> r.buddy, addr |-> r.addr]

(* SizeClassAllocator::dealloc. *)
heap_dealloc(bins, b, addr, size, align) ==
    IF Binned(size, align)
    THEN LET i == bin_index(size, align)
             r == slab_free(bins[i], b, addr)
         IN [bins |-> [bins EXCEPT ![i] = r.cache], buddy |-> r.buddy]
    ELSE [bins |-> bins, buddy |-> free(b, addr, large_order(size))]

=============================================================================
