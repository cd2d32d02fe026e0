------------------------------ MODULE Virtqueue ------------------------------
(***************************************************************************)
(* The split virtqueue of drivers/virtio/core/src/virtqueue.rs as          *)
(* operators on a record: the descriptor table's links (next, more), the   *)
(* driver's free list and cursor, and the two rings it shares with the     *)
(* device.  What a descriptor points to is the same for every request of   *)
(* the block driver, so addresses and lengths are left out.  A ring index  *)
(* is a u16 that wraps; IDX stands for 2^16, a multiple of the queue size. *)
(***************************************************************************)
EXTENDS Naturals, Sequences, FiniteSets

CONSTANTS
  QUEUE_SIZE,   \* descriptors in the table
  IDX           \* ring indices are taken modulo this (2^16 in the code)

ASSUME VirtqueueAssumption ==
  /\ QUEUE_SIZE \in Nat \ {0}
  /\ IDX \in Nat \ {0}
  /\ IDX % QUEUE_SIZE = 0

Desc == 0..(QUEUE_SIZE - 1)

\* The last link points past the table; it is never followed.
NewQueue ==
  [next |-> [d \in Desc |-> d + 1], more |-> [d \in Desc |-> FALSE],
   free_head |-> 0, num_free |-> QUEUE_SIZE, last_used_idx |-> 0,
   avail_idx |-> 0, avail |-> [d \in Desc |-> 0],
   used_idx |-> 0, used |-> [d \in Desc |-> 0]]

\* The first n descriptors that alloc_desc would hand out, in order.
FreeList(q, n) ==
  LET free[i \in 1..n] == IF i = 1 THEN q.free_head ELSE q.next[free[i - 1]]
  IN  free

\* The chain that starts at head: F_NEXT says whether the link is followed.
RECURSIVE Chain(_, _)
Chain(q, head) ==
  IF q.more[head] THEN <<head>> \o Chain(q, q.next[head]) ELSE <<head>>

\* alloc_desc for each buffer, linked by F_NEXT, then published in the
\* available ring (the fence orders the entry before the index).
CanAdd(q, n) == n # 0 /\ n <= q.num_free

add_chain(q, n) ==
  LET free == FreeList(q, n)
  IN  [q EXCEPT
        !.more = [d \in Desc |->
                    IF \E i \in 1..n : free[i] = d
                      THEN \E i \in 1..(n - 1) : free[i] = d
                      ELSE q.more[d]],
        !.free_head = q.next[free[n]],
        !.num_free = @ - n,
        !.avail[q.avail_idx % QUEUE_SIZE] = free[1],
        !.avail_idx = (@ + 1) % IDX]

\* Returning a descriptor pushes it on the free list.
free_desc(q, d) ==
  [q EXCEPT !.more[d] = FALSE, !.next[d] = q.free_head,
            !.free_head = d, !.num_free = @ + 1]

\* Mutation: only the head of a returned chain is freed.
free_head_only(q, d) == free_desc(q, d)

\* has_next and next are read before free_desc overwrites them.
RECURSIVE free_chain(_, _)
free_chain(q, d) ==
  IF q.more[d] THEN free_chain(free_desc(q, d), q.next[d]) ELSE free_desc(q, d)

\* The driver's look at the used ring: which chain came back is not compared
\* with the one submitted; the caller only learns that some chain did.
Completed(q) == q.last_used_idx # q.used_idx

poll_used(q) ==
  free_chain([q EXCEPT !.last_used_idx = (@ + 1) % IDX],
             q.used[q.last_used_idx % QUEUE_SIZE])

\* The device's side: take the chain at its own cursor, return it.
Offered(q, seen) == seen # q.avail_idx

Returned(q, head) ==
  [q EXCEPT !.used[q.used_idx % QUEUE_SIZE] = head,
            !.used_idx = (@ + 1) % IDX]

\* The descriptors on the free list.
FreeSet(q) == {FreeList(q, q.num_free)[i] : i \in 1..q.num_free}

=============================================================================
