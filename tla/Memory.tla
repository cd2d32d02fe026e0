------------------------------- MODULE Memory -------------------------------
(***************************************************************************)
(* The memory of the kernel from boot on: kernel_entry's phases 2 (frame   *)
(* allocator), 3 (page tables), 4 (heap) and 7 (frame capabilities), then  *)
(* kernel stacks, heap objects and the memory system calls                 *)
(* (kernel/src/syscall/mem.rs, the MMIO calls of hw.rs), over the          *)
(* operators of KernelHeap, PageTables and CSpace.                         *)
(*                                                                         *)
(* A system call reads its capabilities in its first step and then changes *)
(* one page per step, under the address space's pt_lock: calls of several  *)
(* threads interleave.  Boxed kernel objects take heap memory; the pages   *)
(* of a CSpace and the list of descriptors, which do too, are left out.    *)
(***************************************************************************)
EXTENDS KernelHeap, PageTables, CSpace

CONSTANTS
    Machines,    \* memory maps, devices and what runs on them, see Machine
    Box,         \* size and alignment of a boxed kernel object: <<size, align>>
    DrainBuffer, \* bytes of populate_cspace's buffer
    Requests,    \* <<size, align>> of heap requests
    Threads,
    Virts,       \* virtual addresses, and ...
    Counts,      \* ... numbers of pages, and ...
    Prots,       \* ... protections, passed to system calls
    MaxCalls     \* bound on the system calls other than create_aspace

VARIABLES
    machine,  \* the machine, fixed
    phase,    \* of kernel_entry that is next; 9 once system calls come
    halted,   \* fatal() or a failed heap allocation
    buddy,    \* FRAME_ALLOCATOR
    drained,  \* blocks given to user space as frame capabilities
    bins,     \* KERNEL_HEAP's size classes
    live,     \* its objects in use: [addr, size, align, box]
    stacks,   \* kernel stacks, blocks of the frame allocator
    kernel,   \* [root, wild] of the kernel's page tables
    tables,   \* all page tables
    slots,    \* the CSpace of the process that makes the calls
    object,   \* kernel objects: [tag, base, size, refs, boxes]
    call,     \* per thread: the system call it executes
    calls,    \* system calls that may still be made
    mapped    \* pages mapped by what the calls asked for

boot == <<machine, phase, halted>>
frames == <<buddy, drained>>
heap == <<bins, live>>
paging == <<kernel, tables, mapped>>
caps == <<slots, object>>
vars == <<boot, frames, heap, stacks, paging, caps, call, calls>>

Idle == [op |-> "idle"]
NoThing == [tag |-> "none", base |-> 0, size |-> 0, refs |-> 0, boxes |-> {}]

Init ==
    /\ machine \in Machines
    /\ phase = 2
    /\ halted = FALSE
    /\ buddy = Empty
    /\ drained = {}
    /\ bins = new_bins
    /\ live = {}
    /\ stacks = {}
    /\ kernel = [root |-> 0, wild |-> FALSE]
    /\ tables = <<>>
    /\ slots = [c \in {Root} |-> NewCSpace]
    /\ object = [o \in Objects |-> NoThing]
    /\ call = [t \in Threads |-> Idle]
    /\ calls = MaxCalls
    /\ mapped = {}

Running == phase = 9 /\ ~halted /\ ~buddy.hung
Uses(client) == client \in machine.clients

-----------------------------------------------------------------------------
(* A state of memory m: [buddy, bins, live, ok]; several allocations in a  *)
(* row thread it through.  A Box that cannot be allocated panics.          *)

Now == [buddy |-> buddy, bins |-> bins, live |-> live, addr |-> Top, ok |-> TRUE]

Boxed(addr) == [addr |-> addr, size |-> Box[1], align |-> Box[2], box |-> TRUE]

NewBox(m) ==
    The({IF ~m.ok \/ r.addr = Top THEN [m EXCEPT !.ok = FALSE]
         ELSE [buddy |-> r.buddy, bins |-> r.bins, addr |-> r.addr, ok |-> TRUE,
               live |-> m.live \cup {Boxed(r.addr)}] :
           r \in {heap_alloc(m.bins, m.buddy, Box[1], Box[2])}})

DropBox(m, addr) ==
    The({[m EXCEPT !.buddy = r.buddy, !.bins = r.bins, !.live = {x \in @ : x.addr # addr}] :
           r \in {heap_dealloc(m.bins, m.buddy, addr, Box[1], Box[2])}})

Becomes(m) == buddy' = m.buddy /\ bins' = m.bins /\ live' = m.live

(* The machine stops; what memory looks like then does not matter. *)
Halt ==
    /\ halted' = TRUE
    /\ UNCHANGED <<machine, phase, frames, heap, stacks, paging, caps, call, calls>>

-----------------------------------------------------------------------------
(* Boot.                                                                   *)

(* init_physical_memory. *)
Phase2 ==
    /\ phase = 2
    /\ buddy' = init_physical_memory(machine)
    /\ halted' = (buddy'.free_pages = 0)
    /\ phase' = 3
    /\ UNCHANGED <<machine, drained, heap, stacks, paging, caps, call, calls>>

(* init_kernel_page_tables; the pool of frames may be exhausted. *)
Phase3 ==
    /\ phase = 3 /\ ~halted /\ ~buddy.hung
    /\ \E w \in {init_kernel_page_tables(machine.arch, machine)} :
         /\ halted' = ~w.ok
         /\ kernel' = [root |-> w.root, wild |-> w.wild]
         /\ tables' = w.tables
    /\ phase' = 4
    /\ UNCHANGED <<machine, frames, heap, stacks, mapped, caps, call, calls>>

(* heap::init. *)
Phase4 ==
    /\ phase = 4 /\ ~halted
    /\ phase' = 7
    /\ UNCHANGED <<machine, halted, frames, heap, stacks, paging, caps, call, calls>>

(* An object and a capability for it, for every range of a sequence; the   *)
(* state s: [m, slots, object].                                            *)
Unused(objects) == {o \in Objects : objects[o].refs = 0 /\ objects[o].tag = "none"}

Insert(s, tag, base, size, rights) ==
    LET o == CHOOSE x \in Unused(s.object) : TRUE
    IN The({[m |-> [m EXCEPT !.ok = @ /\ r.index # 0],
             slots |-> r.heap,
             object |-> [s.object EXCEPT ![o] = [tag |-> tag, base |-> base, size |-> size,
                                                 refs |-> 1, boxes |-> {m.addr}]]] :
              m \in {NewBox(s.m)}, r \in {insert_cap(s.slots, Root, Cap(o, rights, 0))}})

(* populate_cspace: the buffer comes from the heap while the blocks are    *)
(* drained, and goes back when they are capabilities; then the devices.    *)
InsertFrames(s, blocks) ==
    FoldLeft(LAMBDA x, block : Insert(x, "Frame", block[1], Size(block[2]), {"MAP", "WRITE", "EXECUTE"}),
             s, blocks)
InsertRegions(s, regions) ==
    FoldLeft(LAMBDA x, r : Insert(x, "MmioRegion", r[1], r[2], {"MAP", "WRITE"}), s, regions)

populate_cspace ==
    \E buffer \in {heap_alloc(bins, buddy, DrainBuffer, 1)} :
    \E drain \in {drain_for_usercaps(buffer.buddy, KERNEL_RESERVE_PAGES)} :
    \E given \in {InsertFrames([m |-> [Now EXCEPT !.buddy = drain[1], !.bins = buffer.bins,
                                                 !.ok = buffer.addr # Top],
                                slots |-> slots, object |-> object], drain[2])} :
      IF ~given.m.ok THEN Halt
      ELSE \E back \in {heap_dealloc(given.m.bins, given.m.buddy, buffer.addr, DrainBuffer, 1)} :
           \E rest \in {InsertRegions([given EXCEPT !.m.buddy = back.buddy, !.m.bins = back.bins],
                                      machine.regions)} :
             IF ~rest.m.ok THEN Halt
             ELSE /\ Becomes(rest.m)
                  /\ drained' = ToSet(drain[2])
                  /\ slots' = rest.slots
                  /\ object' = rest.object
                  /\ phase' = 9
                  /\ UNCHANGED <<machine, halted, stacks, paging, call, calls>>

(* init_capability_system. *)
Phase7 == phase = 7 /\ populate_cspace

-----------------------------------------------------------------------------
(* Kernel stacks and other blocks, and heap objects.                       *)

TakeBlock(order) ==
    /\ Running /\ Uses("stacks")
    /\ \E a \in {alloc(buddy, order)} :
         /\ a.addr # Top
         /\ buddy' = a.buddy
         /\ stacks' = stacks \cup {<<a.addr, order>>}
    /\ UNCHANGED <<boot, drained, heap, paging, caps, call, calls>>

FreeBlock(block) ==
    /\ Running
    /\ buddy' = free(buddy, block[1], block[2])
    /\ stacks' = stacks \ {block}
    /\ UNCHANGED <<boot, drained, heap, paging, caps, call, calls>>

(* GlobalAlloc::alloc and dealloc; a failed allocation changes nothing. *)
HeapAlloc(size, align) ==
    /\ Running /\ Uses("heap")
    /\ \E r \in {heap_alloc(bins, buddy, size, align)} :
         /\ r.addr # Top
         /\ buddy' = r.buddy
         /\ bins' = r.bins
         /\ live' = live \cup {[addr |-> r.addr, size |-> size, align |-> align, box |-> FALSE]}
    /\ UNCHANGED <<boot, drained, stacks, paging, caps, call, calls>>

HeapDealloc(x) ==
    /\ Running
    /\ \E r \in {heap_dealloc(bins, buddy, x.addr, x.size, x.align)} :
         buddy' = r.buddy /\ bins' = r.bins
    /\ live' = live \ {x}
    /\ UNCHANGED <<boot, drained, stacks, paging, caps, call, calls>>

-----------------------------------------------------------------------------
(* System calls on capabilities.                                           *)

CallsLeft == Running /\ Uses("mappings") /\ calls > 0
MayCall == CallsLeft /\ calls' = calls - 1

(* lookup_cap. *)
Lookup(i, tag, right) ==
    /\ i \in Indices /\ Resolves(slots, <<Root, i>>) /\ ~IsNull(slots, <<Root, i>>)
    /\ object[Slot(slots, <<Root, i>>).object].tag = tag
    /\ right \in Slot(slots, <<Root, i>>).rights

Holding(tag) == {i \in Indices : Lookup(i, tag, "MAP")}
Thing(i) == Slot(slots, <<Root, i>>).object
Rights(i) == Slot(slots, <<Root, i>>).rights

(* sys_cap_create_aspace: without a frame for the root the machine stops,  *)
(* without a slot the address space stays allocated.                       *)
create_aspace ==
    /\ CallsLeft
    /\ Unused(object) # {}
    /\ \E root \in {alloc(buddy, 0)}, o \in {CHOOSE x \in Unused(object) : TRUE} :
       \E inner \in {NewBox([Now EXCEPT !.buddy = root.buddy])} :
       \E outer \in {NewBox(inner)}, r \in {insert_cap(slots, Root, Cap(o, {"MAP", "READ"}, 0))} :
         IF root.addr = Top \/ ~outer.ok
         THEN /\ halted' = TRUE
              /\ UNCHANGED <<frames, heap, paging, caps>>
         ELSE /\ Becomes(outer)
              /\ tables' = [t \in DOMAIN tables \cup {root.addr} |->
                              IF t = root.addr THEN NewRoot(tables, kernel.root) ELSE tables[t]]
              /\ slots' = r.heap
              /\ object' = [object EXCEPT ![o] =
                              [tag |-> "AddressSpace", base |-> root.addr, size |-> 0,
                               refs |-> 1, boxes |-> {inner.addr, outer.addr}]]
              /\ UNCHANGED <<halted, drained, kernel, mapped>>
    /\ UNCHANGED <<machine, phase, stacks, call, calls>>

(* sys_cap_derive of a frame capability. *)
derive(i, rights) ==
    /\ MayCall
    /\ Lookup(i, "Frame", "MAP")
    /\ \E r \in {insert_cap(slots, Root, Cap(Thing(i), Rights(i) \cap rights, 0))} :
         /\ r.index # 0
         /\ slots' = link_child(r.heap, <<Root, i>>, <<Root, r.index>>)
         /\ object' = [object EXCEPT ![Thing(i)].refs = @ + 1]
    /\ UNCHANGED <<boot, frames, heap, stacks, paging, call>>

(* dec_ref and dealloc_object; of an address space only the root's frame   *)
(* is given back, the tables below it are not.                             *)
Release(objects, m, o) ==
    IF objects[o].refs > 1 THEN [object |-> [objects EXCEPT ![o].refs = @ - 1], m |-> m]
    ELSE LET n == IF objects[o].tag = "AddressSpace"
                  THEN [m EXCEPT !.buddy = free(@, objects[o].base, 0)] ELSE m
         IN [object |-> [objects EXCEPT ![o] = NoThing],
             m |-> FoldSet(LAMBDA box, x : DropBox(x, box), n, objects[o].boxes)]

(* sys_cap_delete.  A process keeps an address space while a call of one   *)
(* of its threads works on it.                                             *)
delete(i) ==
    /\ MayCall
    /\ Resolves(slots, <<Root, i>>) /\ ~IsNull(slots, <<Root, i>>)
    /\ \A t \in Threads : call[t] # Idle => call[t].aspace # Thing(i)
    /\ \E id \in {<<Root, i>>}, r \in {Release(object, Now, Thing(i))},
          last \in {object[Thing(i)].tag = "AddressSpace" /\ object[Thing(i)].refs = 1} :
         /\ \E h \in {reparent_children(slots, id, Slot(slots, id).parent)} :
              slots' = free_slot(unlink_node(h, id), id)
         /\ object' = r.object
         /\ Becomes(r.m)
         /\ tables' = IF last THEN [t \in DOMAIN tables \ {object[Thing(i)].base} |-> tables[t]]
                      ELSE tables
         /\ mapped' = IF last THEN {p \in mapped : p.aspace # Thing(i)} ELSE mapped
    /\ UNCHANGED <<boot, drained, stacks, kernel, call>>

(* sys_frame_split and sys_mmio_split: two new objects for the two parts   *)
(* take the place of the capability in the derivation tree.  When a slot   *)
(* is missing, the objects made so far that have none stay allocated.      *)
Halves(tag, f, offset, c1, box1, c2, box2) ==
    [object EXCEPT
       ![c1] = [tag |-> tag, base |-> f.base, size |-> offset, refs |-> 1, boxes |-> {box1}],
       ![c2] = [tag |-> tag, base |-> f.base + offset, size |-> f.size - offset, refs |-> 1,
                boxes |-> {box2}]]

Replaced(h, id, id1, id2) ==
    LET parent == Slot(slots, id).parent
    IN The({free_slot(IF parent = None THEN moved
                      ELSE link_child(The({link_child(moved, parent, id1)}), parent, id2), id) :
              moved \in {unlink_node(x, id) : x \in {reparent_children(h, id, parent)}}})

Split(tag, i, offset) ==
    /\ MayCall
    /\ offset % PAGE_SIZE = 0 /\ offset # 0
    /\ Lookup(i, tag, "MAP")
    /\ offset < object[Thing(i)].size /\ object[Thing(i)].size - offset >= PAGE_SIZE
    /\ Cardinality(Unused(object)) > 1
    /\ \E c1 \in {CHOOSE x \in Unused(object) : TRUE} :
       \E c2 \in {CHOOSE x \in Unused(object) \ {c1} : TRUE}, b1 \in {NewBox(Now)} :
       \E b2 \in {NewBox(b1)}, s1 \in {insert_cap(slots, Root, Cap(c1, Rights(i), 0))} :
       \E s2 \in {insert_cap(s1.heap, Root, Cap(c2, Rights(i), 0))} :
         IF ~b2.ok
         THEN /\ halted' = TRUE
              /\ UNCHANGED <<buddy, heap, caps>>
         ELSE /\ UNCHANGED halted
              /\ CASE s1.index = 0 -> Becomes(b2) /\ UNCHANGED caps
                   [] s1.index # 0 /\ s2.index = 0 ->
                        /\ Becomes(DropBox(b2, b1.addr))
                        /\ slots' = free_slot(s2.heap, <<Root, s1.index>>)
                        /\ UNCHANGED object
                   [] OTHER ->
                        /\ slots' = Replaced(s2.heap, <<Root, i>>, <<Root, s1.index>>, <<Root, s2.index>>)
                        /\ \E r \in {Release(Halves(tag, object[Thing(i)], offset, c1, b1.addr, c2, b2.addr),
                                             b2, Thing(i))} :
                             Becomes(r.m) /\ object' = r.object
    /\ UNCHANGED <<machine, phase, drained, stacks, paging, call>>

sys_frame_split(i, offset) == Split("Frame", i, offset)
sys_mmio_split(i, offset) == Split("MmioRegion", i, offset)

-----------------------------------------------------------------------------
(* System calls on mappings.                                               *)

UserRange(virt, count) ==
    /\ virt % PAGE_SIZE = 0
    /\ virt < USER_HALF_TOP
    /\ count # 0
    /\ virt + count * PAGE_SIZE <= USER_HALF_TOP

Begin(t, op, a, virt, phys, count, flags) ==
    /\ call[t] = Idle
    /\ MayCall
    /\ Lookup(a, "AddressSpace", "MAP")
    /\ call' = [call EXCEPT ![t] = [op |-> op, aspace |-> Thing(a), virt |-> virt, phys |-> phys,
                                    left |-> count, flags |-> flags]]
    /\ UNCHANGED <<boot, frames, heap, stacks, paging, caps>>

(* The pages are within the frame. *)
InFrame(f, offset, count) == offset * PAGE_SIZE + count * PAGE_SIZE <= f.size

(* sys_mem_map: prot {} takes what the capability's rights give. *)
sys_mem_map(t, i, a, virt, offset, count, prot) ==
    /\ UserRange(virt, count)
    /\ Lookup(i, "Frame", "MAP")
    /\ InFrame(object[Thing(i)], offset, count)
    /\ prot \ {"READ"} \subseteq Rights(i)
    /\ LET asked == IF prot = {} THEN Rights(i) \cap {"WRITE", "EXECUTE"} ELSE prot
       IN /\ ~({"WRITE", "EXECUTE"} \subseteq asked)
          /\ Begin(t, "map", a, virt, object[Thing(i)].base + offset * PAGE_SIZE, count,
                   {"readable"} \cup If("WRITE" \in asked, {"writable"})
                                \cup If("EXECUTE" \in asked, {"executable"}))

(* sys_mmio_map: the whole region, never executable. *)
sys_mmio_map(t, i, a, virt) ==
    /\ Lookup(i, "MmioRegion", "MAP")
    /\ object[Thing(i)].size # 0 /\ object[Thing(i)].size % PAGE_SIZE = 0
    /\ UserRange(virt, object[Thing(i)].size \div PAGE_SIZE)
    /\ Begin(t, "map", a, virt, object[Thing(i)].base, object[Thing(i)].size \div PAGE_SIZE,
             {"readable", "uncacheable"} \cup If("WRITE" \in Rights(i), {"writable"}))

sys_mem_unmap(t, a, virt, count) ==
    /\ UserRange(virt, count)
    /\ Begin(t, "unmap", a, virt, 0, count, {})

(* sys_mem_protect. *)
sys_mem_protect(t, i, a, virt, count, prot) ==
    /\ UserRange(virt, count)
    /\ ~({"WRITE", "EXECUTE"} \subseteq prot)
    /\ Lookup(i, "Frame", "MAP")
    /\ prot \ {"READ"} \subseteq Rights(i)
    /\ Begin(t, "protect", a, virt, 0, count,
             {"readable"} \cup If("WRITE" \in prot, {"writable"})
                          \cup If("EXECUTE" \in prot, {"executable"}))

(* The rest of the call after a page, or its end. *)
Advance(t) ==
    call' = [call EXCEPT ![t] = IF @.left = 1 THEN Idle
                                ELSE [@ EXCEPT !.virt = @ + PAGE_SIZE, !.phys = @ + PAGE_SIZE,
                                               !.left = @ - 1]]

Elsewhere(c) == {p \in mapped : p.aspace # c.aspace \/ p.virt # c.virt}

Page(c, phys) ==
    [aspace |-> c.aspace, virt |-> c.virt, phys |-> phys,
     writable |-> "writable" \in c.flags, executable |-> "executable" \in c.flags]

(* AddressSpace::map_page; the call ends when a table cannot be allocated. *)
MapPage(t) ==
    /\ Running /\ call[t].op = "map"
    /\ \E c \in {call[t]} :
       \E r \in {map_user_page(machine.arch, tables, buddy, object[c.aspace].base, c.virt, c.phys, c.flags)} :
         /\ tables' = r.tables
         /\ buddy' = r.buddy
         /\ IF r.ok THEN /\ Advance(t)
                         /\ mapped' = Elsewhere(c) \cup {Page(c, c.phys)}
            ELSE /\ call' = [call EXCEPT ![t] = Idle]
                 /\ UNCHANGED mapped
    /\ UNCHANGED <<boot, drained, heap, stacks, kernel, caps, calls>>

(* AddressSpace::unmap_page. *)
UnmapPage(t) ==
    /\ Running /\ call[t].op = "unmap"
    /\ tables' = unmap_user_page(tables, object[call[t].aspace].base, call[t].virt)
    /\ mapped' = Elsewhere(call[t])
    /\ Advance(t)
    /\ UNCHANGED <<boot, frames, heap, stacks, kernel, caps, calls>>

(* AddressSpace::protect_page; the call ends at a page that is not mapped. *)
ProtectPage(t) ==
    /\ Running /\ call[t].op = "protect"
    /\ \E c \in {call[t]} :
       \E r \in {protect_user_page(machine.arch, tables, object[c.aspace].base, c.virt, c.flags)} :
         /\ tables' = r.tables
         /\ mapped' = Elsewhere(c)
              \cup {Page(c, p.phys) : p \in {q \in mapped : q.aspace = c.aspace /\ q.virt = c.virt}}
         /\ IF r.ok THEN Advance(t) ELSE call' = [call EXCEPT ![t] = Idle]
    /\ UNCHANGED <<boot, frames, heap, stacks, kernel, caps, calls>>

-----------------------------------------------------------------------------
CapCalls ==
    \/ create_aspace
    \/ \E i \in Holding("Frame") :
         \/ \E rights \in {{"MAP"}} : derive(i, rights)
         \/ \E n \in Counts : sys_frame_split(i, n * PAGE_SIZE)
    \/ \E i \in Holding("MmioRegion"), n \in Counts : sys_mmio_split(i, n * PAGE_SIZE)
    \/ \E i \in Indices : delete(i)

MapCalls ==
    \E t \in Threads, a \in Holding("AddressSpace"), virt \in Virts :
      \/ \E count \in Counts :
           \/ sys_mem_unmap(t, a, virt, count)
           \/ \E i \in Holding("Frame"), prot \in Prots :
                \/ \E offset \in 0..1 : sys_mem_map(t, i, a, virt, offset, count, prot)
                \/ sys_mem_protect(t, i, a, virt, count, prot)
      \/ \E i \in Holding("MmioRegion") : sys_mmio_map(t, i, a, virt)

Next ==
    \/ Phase2 \/ Phase3 \/ Phase4 \/ Phase7
    \/ \E order \in Orders : TakeBlock(order)
    \/ \E block \in stacks : FreeBlock(block)
    \/ \E r \in Requests : HeapAlloc(r[1], r[2])
    \/ \E x \in {y \in live : ~y.box} : HeapDealloc(x)
    \/ CallsLeft /\ (CapCalls \/ MapCalls)
    \/ \E t \in Threads : MapPage(t) \/ UnmapPage(t) \/ ProtectPage(t)

Spec == Init /\ [][Next]_vars

-----------------------------------------------------------------------------
Pages == {n * PAGE_SIZE : n \in 0..(Top \div PAGE_SIZE)}
FreeBlocks == UNION {{<<buddy.free_lists[o][i], o>> : i \in DOMAIN buddy.free_lists[o]} : o \in Orders}

(* The pages of a block, and the pages the boot map gives to the allocator: *)
(* whole pages of a usable range that no exclusion touches.                *)
PagesOf(block) == {block[1] + n * PAGE_SIZE : n \in 0..(2^block[2] - 1)}
Touches(a, r) == r[1] < r[2] /\ a < r[2] /\ r[1] < a + PAGE_SIZE
GivenBy(m) == {a \in Pages :
    /\ \E i \in DOMAIN m.usable : m.usable[i][1] <= a /\ a + PAGE_SIZE <= m.usable[i][2]
    /\ \A i \in DOMAIN m.excluded : ~Touches(a, m.excluded[i])}
Given == [m \in Machines |-> GivenBy(m)]

TypeOK ==
    /\ machine \in Machines
    /\ phase \in {2, 3, 4, 7, 9}
    /\ halted \in BOOLEAN
    /\ buddy.free_lists \in [Orders -> Seq(0..Top)]
    /\ buddy.free_pages \in Nat /\ buddy.total_pages \in Nat
    /\ NodesUsed(buddy) <= POOL_SIZE
    /\ drained \cup stacks \subseteq (0..Top) \X Orders
    /\ stacks \subseteq buddy.held
    /\ DOMAIN tables \subseteq 0..Top
    /\ \A o \in Objects : object[o].refs \in Nat
    /\ calls \in 0..MaxCalls

(* Every page the boot map leaves to the allocator is in exactly one       *)
(* block, free, allocated or drained, and no other page is in any: nothing *)
(* is lost, handed out twice, or taken from the kernel image, the boot     *)
(* modules or the trampoline.  The page counters agree.                    *)
PagesPartitioned == phase > 2 /\ ~buddy.hung =>
    LET blocks == FreeBlocks \cup buddy.held \cup drained
        given == Given[machine]
    IN /\ UNION {PagesOf(x) : x \in blocks} = given
       /\ MapThenSumSet(LAMBDA x : 2^x[2], blocks) = Cardinality(given)
       /\ NodesUsed(buddy) = Cardinality(FreeBlocks)
       /\ FreeBlocks \cap (buddy.held \cup drained) = {}
       /\ buddy.free_pages = MapThenSumSet(LAMBDA x : 2^x[2], FreeBlocks)
       /\ buddy.total_pages = Cardinality(given)

(* The free lists are well formed and they, with what is handed out to     *)
(* stacks, heap, page tables and user space, are the memory (add_region,   *)
(* alloc, free, merge, drain).                                             *)
BlocksInv == TypeOK /\ PagesPartitioned

(* alloc fails only for want of memory: when no list from the order up has *)
(* a block, no aligned run of that many free pages exists.  (For boot maps *)
(* whose usable ranges do not touch: add_region does not merge.)           *)
NoFalseShortage == phase > 2 /\ ~buddy.hung =>
    LET pages == UNION {PagesOf(x) : x \in FreeBlocks}
    IN \A o \in Orders : Sources(buddy, o) = {} =>
         \A a \in {x \in pages : x % Size(o) = 0} : ~(PagesOf(<<a, o>>) \subseteq pages)

(* The page tables each machine boots with. *)
KernelTables == [m \in Machines |-> init_kernel_page_tables(m.arch, m).tables]

(* The blocks the heap holds: its slabs and its large objects. *)
Slabs == UNION {{bins[i].slabs[j] : j \in DOMAIN bins[i].slabs} : i \in DOMAIN bins}
HeapBlocks == {<<s.base, s.order>> : s \in Slabs}
    \cup {<<x.addr, large_order(x.size)>> : x \in {y \in live : ~Binned(y.size, y.align)}}
TableFrames == {<<t, 0>> : t \in DOMAIN tables \ DOMAIN KernelTables[machine]}
Bytes(x) == x.addr..(x.addr + Max({x.size, 1}) - 1)
BytesOf(block) == block[1]..(block[1] + Size(block[2]) - 1)

(* Heap objects in use are aligned, disjoint, inside blocks of the heap    *)
(* and never on a free list, so a slab goes back to the frame allocator    *)
(* only when it is empty; and every block the frame allocator has handed   *)
(* out has exactly one owner: the heap, a kernel stack or the page tables. *)
HeapSound == phase = 9 /\ ~halted /\ ~buddy.hung =>
    LET blocks == HeapBlocks
        tabled == TableFrames
    IN /\ \A x \in live :
            /\ x.addr % x.align = 0
            /\ \E block \in blocks : Bytes(x) \subseteq BytesOf(block)
            /\ \A y \in live \ {x} : Bytes(x) \cap Bytes(y) = {}
       /\ \A s \in Slabs :
            LET inside == {x \in live : x.addr \in BytesOf(<<s.base, s.order>>)}
            IN /\ s.used = Cardinality(inside)
               /\ \A x \in inside : ~Contains(s.free, x.addr)
       /\ blocks \cup stacks \cup tabled = buddy.held
       /\ Cardinality(blocks) + Cardinality(stacks) + Cardinality(tabled) = Cardinality(buddy.held)

(* What the processor sees in the user half of every address space is      *)
(* exactly what the calls that were made asked for, whatever order their   *)
(* pages were worked on in, whichever tables were allocated, freed with an *)
(* address space or missing, on both architectures.                        *)
Probed == {v \in {align_down(virt) + n * PAGE_SIZE : virt \in Virts, n \in 0..2} : v < USER_HALF_TOP}
UserMapped == phase = 9 =>
    \A o \in Objects : object[o].tag = "AddressSpace" =>
      \A v \in Probed :
        Hardware(machine.arch, tables, object[o].base, v) =
          {[phys |-> p.phys, writable |-> p.writable, executable |-> p.executable, user |-> TRUE] :
             p \in {q \in mapped : q.aspace = o /\ q.virt = v}}

(* What user space can reach is memory it was given: a mapped page is a    *)
(* page of a drained block or of a device region, as is the range of every *)
(* frame and region capability, also after splitting; and no page is both  *)
(* writable and executable (sys_mem_map, sys_mem_protect, sys_mmio_map).   *)
UserPages == UNION {PagesOf(x) : x \in drained}
RegionPages == UNION {{machine.regions[i][1] + n * PAGE_SIZE :
                          n \in 0..(machine.regions[i][2] \div PAGE_SIZE - 1)} :
                        i \in DOMAIN machine.regions}
RangePages(f) == {f.base + n * PAGE_SIZE : n \in 0..(f.size \div PAGE_SIZE - 1)}
UserMemoryOnly == phase = 9 =>
    /\ \A p \in mapped : p.phys \in UserPages \cup RegionPages /\ ~(p.writable /\ p.executable)
    /\ \A o \in Objects :
         /\ object[o].tag = "Frame" => RangePages(object[o]) \subseteq UserPages
         /\ object[o].tag = "MmioRegion" => RangePages(object[o]) \subseteq RegionPages

(* What a process can reach: what was asked for, and nothing but memory    *)
(* that was given away (sys_mem_map, _unmap, _protect, sys_frame_split,    *)
(* sys_mmio_map on top of the page tables).                                *)
UserView == UserMapped /\ UserMemoryOnly

(* The pages the kernel uses after init_kernel_page_tables: virtual page,  *)
(* physical page, flags.                                                   *)
Needed(m) ==
    LET k == m.kernel
        Image(from, to, flags) == {<<k.virt + o, k.phys + o, flags>> : o \in Pages \cap (from..(to - 1))}
        Direct(base, size) == {<<DIRECT_MAP_BASE + a, a, RW>> :
                                 a \in {x \in Pages : Touches(x, <<base, base + size>>)}}
        stack == (m.stack \div BOOT_STACK_SIZE) * BOOT_STACK_SIZE
    IN Image(0, k.text, RX) \cup Image(k.text, k.rodata, RO) \cup Image(k.rodata, k.size, RW)
       \cup UNION {Direct(a, PAGE_SIZE) : a \in GivenBy(m)}
       \cup If(m.framebuffer[1] # 0, Direct(m.framebuffer[1], m.framebuffer[2]))
       \cup UNION {Direct(m.mmio[i][1], m.mmio[i][2]) : i \in DOMAIN m.mmio}
       \cup If(m.stack < k.virt, {<<a, a, RW>> : a \in Pages \cap (stack..(stack + BOOT_STACK_SIZE - 1))})
       \cup If(m.trampoline # 0, {<<m.trampoline, m.trampoline, RWX>>})

(* The kernel finds all it uses where it expects it, for it alone, with    *)
(* the access it needs and no more, in its own tables and, in the upper    *)
(* half, in every address space; building the tables never followed a      *)
(* large page as if it were a table.                                       *)
KernelMapped == phase > 3 /\ ~halted =>
    /\ ~kernel.wild
    /\ \A t \in DOMAIN KernelTables[machine] : tables[t] = KernelTables[machine][t]
    /\ \A o \in Objects, i \in (ENTRIES \div 2)..(ENTRIES - 1) :
         object[o].tag = "AddressSpace" => tables[object[o].base][i] = tables[kernel.root][i]
    /\ phase = 4 => \A n \in Needed(machine) :
         Hardware(machine.arch, tables, kernel.root, n[1]) =
           {[phys |-> n[2], writable |-> "writable" \in n[3], executable |-> "executable" \in n[3],
             user |-> FALSE]}

=============================================================================
