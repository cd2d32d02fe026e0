----------------------------- MODULE PageTables -----------------------------
(***************************************************************************)
(* Page tables: the kernel's, built at boot from a static pool of frames   *)
(* (kernel/src/mm/paging.rs), and those of user address spaces, whose      *)
(* frames come from the frame allocator                                    *)
(* (kernel/src/arch/{x86_64,riscv64}/paging.rs).  The two architectures    *)
(* differ in the bits of an entry; the walks have the same shape.          *)
(*                                                                         *)
(* "tables" gives each frame in use as a page table its entries.  Virtual  *)
(* addresses are small: LEVELS levels of ENTRIES entries, the upper half   *)
(* of the root for the kernel.  A walk that follows an entry to a frame    *)
(* that is no table would read and write foreign memory: it is "wild".     *)
(***************************************************************************)
EXTENDS Buddy

CONSTANTS
    LEVELS,               \* levels of a table tree (4)
    ENTRIES,              \* entries of a table (512)
    BOOT_TABLE_POOL_SIZE, \* frames of the static pool
    BOOT_STACK_SIZE       \* bytes of the boot stack, and its alignment

ASSUME PageTablesAssumption ==
    /\ LEVELS \in Nat \ {0, 1, 2} /\ ENTRIES \in Nat \ {0, 1}
    /\ BOOT_TABLE_POOL_SIZE \in Nat \ {0} /\ BOOT_STACK_SIZE \in Nat \ {0}

(* Bytes an entry of a level covers; level 1 holds the pages, level 2 may  *)
(* hold large pages.                                                       *)
Span(level) == PAGE_SIZE * ENTRIES^(level - 1)
Index(virt, level) == (virt \div Span(level)) % ENTRIES
LARGE_PAGE_SIZE == Span(2)
USER_HALF_TOP == (ENTRIES \div 2) * Span(LEVELS)
DIRECT_MAP_BASE == USER_HALF_TOP

(* PageFlags that occur; every page is readable. *)
RW == {"readable", "writable"}
RX == {"readable", "executable"}
RO == {"readable"}
RWX == {"readable", "writable", "executable"}

If(condition, bits) == IF condition THEN bits ELSE {}

NoEntry == [bits |-> {}, phys |-> 0]
NoEntries == [i \in 0..(ENTRIES - 1) |-> NoEntry]
is_present(e) == e.bits \cap {"PRESENT", "VALID"} # {}

-----------------------------------------------------------------------------
(* x86_64: PageTableEntry. *)

x86_new_table(phys) == [bits |-> {"PRESENT", "WRITABLE"}, phys |-> align_down(phys)]

x86_new_page(phys, flags) ==
    [bits |-> {"PRESENT"} \cup If("writable" \in flags, {"WRITABLE"})
                          \cup If("executable" \notin flags, {"NO_EXECUTE"})
                          \cup If("uncacheable" \in flags, {"PCD", "PWT"}),
     phys |-> align_down(phys)]

x86_new_large_page(phys, flags) ==
    [x86_new_page(phys, flags) EXCEPT !.bits = @ \cup {"LARGE_PAGE"}]

(* riscv64: PageTableEntry; a large page is a leaf further up. *)
rv_new_table(phys) == [bits |-> {"VALID"}, phys |-> align_down(phys)]

rv_new_page(phys, flags) ==
    [bits |-> {"VALID", "ACCESSED"} \cup If("readable" \in flags, {"READ"})
                                    \cup If("writable" \in flags, {"WRITE", "DIRTY"})
                                    \cup If("executable" \in flags, {"EXECUTE"}),
     phys |-> align_down(phys)]

new_table(arch, phys) ==
    IF arch = "x86_64" THEN x86_new_table(phys) ELSE rv_new_table(phys)
new_page(arch, phys, flags) ==
    IF arch = "x86_64" THEN x86_new_page(phys, flags) ELSE rv_new_page(phys, flags)
new_large_page(arch, phys, flags) ==
    IF arch = "x86_64" THEN x86_new_large_page(phys, flags) ELSE rv_new_page(phys, flags)

-----------------------------------------------------------------------------
(* What the processor makes of a tree: {} on a page fault, otherwise the   *)
(* physical address and what may be done there.  x86_64 combines the bits  *)
(* of the whole path, riscv64 reads the leaf.                              *)

Leaf(arch, e, level) ==
    \/ level = 1
    \/ e.bits \cap (IF arch = "x86_64" THEN {"LARGE_PAGE"} ELSE {"READ", "WRITE", "EXECUTE"}) # {}

Hardware(arch, tables, root, virt) ==
    LET All(path, bit) == \A bits \in path : bit \in bits
        Result(e, level, path) ==
            [phys |-> e.phys + (virt % Span(level)),
             writable |-> IF arch = "x86_64" THEN All(path, "WRITABLE") ELSE "WRITE" \in e.bits,
             executable |-> IF arch = "x86_64"
                            THEN \A bits \in path : "NO_EXECUTE" \notin bits
                            ELSE "EXECUTE" \in e.bits,
             user |-> IF arch = "x86_64" THEN All(path, "USER") ELSE "USER" \in e.bits]
        Step(w, level) ==
            IF w.done \/ w.at \notin DOMAIN tables THEN [w EXCEPT !.done = TRUE]
            ELSE LET e == tables[w.at][Index(virt, level)]
                     path == w.path \cup {e.bits}
                 IN CASE ~is_present(e) -> [w EXCEPT !.done = TRUE]
                      [] is_present(e) /\ Leaf(arch, e, level) ->
                           [w EXCEPT !.done = TRUE, !.found = {Result(e, level, path)}]
                      [] OTHER -> [w EXCEPT !.at = e.phys, !.path = path]
    IN FoldLeft(Step, [at |-> root, path |-> {}, done |-> FALSE, found |-> {}],
                [i \in 1..LEVELS |-> LEVELS + 1 - i]).found

-----------------------------------------------------------------------------
(* The tables of the kernel.  A construction w: the tables, the next frame *)
(* of the pool, the frame reached, whether all went well.                  *)

(* PoolState::alloc_frame hands out the frames of the pool in order; the   *)
(* frame is cleared and becomes a table.                                   *)
alloc_frame(w) ==
    IF w.next >= BOOT_TABLE_POOL_SIZE THEN [w EXCEPT !.ok = FALSE]
    ELSE LET frame == w.pool + w.next * PAGE_SIZE
         IN [w EXCEPT !.next = @ + 1, !.at = frame,
                      !.tables = [t \in DOMAIN @ \cup {frame} |-> IF t = frame THEN NoEntries ELSE @[t]]]

SetEntry(w, at, index, e) ==
    IF at \in DOMAIN w.tables THEN [w EXCEPT !.tables[at][index] = e] ELSE [w EXCEPT !.wild = TRUE]

(* Every function returns at the first frame that is missing. *)
Failed(w) == ~w.ok \/ w.wild

(* walk_or_alloc. *)
walk_or_alloc(arch, w, index) ==
    CASE Failed(w) -> w
      [] ~Failed(w) /\ w.at \notin DOMAIN w.tables -> [w EXCEPT !.wild = TRUE]
      [] ~Failed(w) /\ w.at \in DOMAIN w.tables ->
           LET e == w.tables[w.at][index]
               a == alloc_frame(w)
           IN IF is_present(e) THEN [w EXCEPT !.at = e.phys]
              ELSE IF a.ok THEN SetEntry(a, w.at, index, new_table(arch, a.at)) ELSE a

(* Levels from the root down to, and without, the given one. *)
Down(to) == [i \in 1..(LEVELS - to) |-> LEVELS + 1 - i]

Reach(arch, w, virt, to) ==
    FoldLeft(LAMBDA x, level : walk_or_alloc(arch, x, Index(virt, level)),
             [w EXCEPT !.at = w.root], Down(to))

map_page(arch, w, virt, phys, flags) ==
    IF Failed(w) THEN w
    ELSE LET r == Reach(arch, w, virt, 1)
         IN IF Failed(r) THEN r ELSE SetEntry(r, r.at, Index(virt, 1), new_page(arch, phys, flags))

map_large_page(arch, w, virt, phys, flags) ==
    IF Failed(w) THEN w
    ELSE LET r == Reach(arch, w, virt, 2)
         IN IF Failed(r) THEN r
            ELSE SetEntry(r, r.at, Index(virt, 2), new_large_page(arch, phys, flags))

(* What the kernel maps, as a sequence of pages in the order it maps them: *)
(* the pages from virt to end, onto as many from phys.                     *)
SmallPage(virt, phys, flags) == [large |-> FALSE, virt |-> virt, phys |-> phys, flags |-> flags]
LargePage(virt, phys, flags) == [large |-> TRUE, virt |-> virt, phys |-> phys, flags |-> flags]

MapRange(virt, end, phys, flags) ==
    [n \in 1..((align_up(end) - virt) \div PAGE_SIZE) |->
       SmallPage(virt + (n - 1) * PAGE_SIZE, phys + (n - 1) * PAGE_SIZE, flags)]

(* compute_max_physical_address: over what is or was memory. *)
compute_max_physical_address(m) ==
    Max({0} \cup {m.usable[i][2] : i \in DOMAIN m.usable} \cup {m.loaded[i][2] : i \in DOMAIN m.loaded})

RoundUp(a, unit) == ((a + unit - 1) \div unit) * unit
MaxPhysRounded(m) == RoundUp(compute_max_physical_address(m), LARGE_PAGE_SIZE)

(* All of memory, by large pages. *)
DirectMap(m) ==
    [n \in 1..(MaxPhysRounded(m) \div LARGE_PAGE_SIZE) |->
       LargePage(DIRECT_MAP_BASE + (n - 1) * LARGE_PAGE_SIZE, (n - 1) * LARGE_PAGE_SIZE, RW)]

(* map_kernel_image: text, constants, data. *)
map_kernel_image(m) ==
    LET k == m.kernel
        Section(from, to, flags) == MapRange(k.virt + from, k.virt + to, k.phys + from, flags)
    IN Section(0, k.text, RX) \o Section(k.text, k.rodata, RO) \o Section(k.rodata, k.size, RW)

(* map_boot_stack: unless it lies in the kernel image, the aligned stretch *)
(* around the stack pointer, at its physical address.                      *)
map_boot_stack(m) ==
    LET base == (m.stack \div BOOT_STACK_SIZE) * BOOT_STACK_SIZE
    IN IF m.kernel.virt <= m.stack /\ m.stack < m.kernel.virt + m.kernel.size THEN <<>>
       ELSE MapRange(base, base + BOOT_STACK_SIZE, base, RW)

(* Into the direct map, if the large pages do not cover it. *)
MapDevice(m, base, size) ==
    IF base < MaxPhysRounded(m) THEN <<>>
    ELSE MapRange(DIRECT_MAP_BASE + align_down(base), DIRECT_MAP_BASE + base + size,
                  align_down(base), RW)

(* Mutation: asks for the end of memory, not for the end of the large pages. *)
map_framebuffer_unrounded(m) ==
    IF m.framebuffer[1] = 0 \/ m.framebuffer[1] < compute_max_physical_address(m) THEN <<>>
    ELSE MapRange(DIRECT_MAP_BASE + align_down(m.framebuffer[1]),
                  DIRECT_MAP_BASE + m.framebuffer[1] + m.framebuffer[2],
                  align_down(m.framebuffer[1]), RW)

map_framebuffer_if_needed(m) ==
    IF m.framebuffer[1] = 0 THEN <<>> ELSE MapDevice(m, m.framebuffer[1], m.framebuffer[2])

(* The devices the kernel itself uses, and the trampoline of other CPUs. *)
MmioRegions(m) == FlattenSeq([i \in DOMAIN m.mmio |-> MapDevice(m, m.mmio[i][1], m.mmio[i][2])])
Trampoline(m) ==
    IF m.trampoline = 0 THEN <<>> ELSE <<SmallPage(m.trampoline, m.trampoline, RWX)>>

(* The pages in turn.  The first half, then the second: the evaluation is  *)
(* as deep as the logarithm of their number.                               *)
RECURSIVE MapPages(_, _, _)
MapPages(arch, w, pages) ==
    LET half == Len(pages) \div 2
        p == pages[1]
    IN CASE Len(pages) = 0 -> w
         [] Len(pages) = 1 /\ p.large -> map_large_page(arch, w, p.virt, p.phys, p.flags)
         [] Len(pages) = 1 /\ ~p.large -> map_page(arch, w, p.virt, p.phys, p.flags)
         [] OTHER -> The({MapPages(arch, x, SubSeq(pages, half + 1, Len(pages))) :
                            x \in {MapPages(arch, w, SubSeq(pages, 1, half))}})

(* init_kernel_page_tables: every page in turn, up to the first for which  *)
(* a frame is missing.                                                     *)
init_kernel_page_tables(arch, m) ==
    LET pool  == m.kernel.phys + m.kernel.pool
        empty == alloc_frame([tables |-> <<>>, pool |-> pool, next |-> 0, root |-> pool,
                              at |-> pool, ok |-> TRUE, wild |-> FALSE])
    IN MapPages(arch, empty,
                DirectMap(m) \o map_kernel_image(m) \o map_boot_stack(m)
                  \o map_framebuffer_if_needed(m) \o MmioRegions(m) \o Trampoline(m))

-----------------------------------------------------------------------------
(* The tables of user address spaces.  A construction w: the tables, the   *)
(* frame allocator, the frame reached, whether a frame was missing.        *)

(* user_walk_or_alloc of x86_64 lets user mode pass; rv_walk_or_alloc has  *)
(* nothing to set.                                                         *)
user_walk_or_alloc(phys) == [x86_new_table(phys) EXCEPT !.bits = @ \cup {"USER"}]
rv_walk_or_alloc(phys) == rv_new_table(phys)

UserTable(arch, phys) ==
    IF arch = "x86_64" THEN user_walk_or_alloc(phys) ELSE rv_walk_or_alloc(phys)
UserPage(arch, phys, flags) == [new_page(arch, phys, flags) EXCEPT !.bits = @ \cup {"USER"}]

(* Follow an entry, or allocate, clear and enter a table. *)
UserStep(arch, w, index) ==
    LET e == w.tables[w.at][index]
        a == alloc(w.buddy, 0)
    IN CASE ~w.ok -> w
         [] w.ok /\ is_present(e) -> [w EXCEPT !.at = e.phys]
         [] w.ok /\ ~is_present(e) /\ a.addr = Top -> [w EXCEPT !.ok = FALSE]
         [] OTHER ->
              [w EXCEPT !.buddy = a.buddy, !.at = a.addr,
                        !.tables = [t \in DOMAIN @ \cup {a.addr} |->
                                      IF t = a.addr THEN NoEntries
                                      ELSE IF t = w.at
                                           THEN [@[t] EXCEPT ![index] = UserTable(arch, a.addr)]
                                           ELSE @[t]]]

map_user_page(arch, tables, b, root, virt, phys, flags) ==
    LET r == FoldLeft(LAMBDA x, level : UserStep(arch, x, Index(virt, level)),
                      [tables |-> tables, buddy |-> b, at |-> root, ok |-> TRUE], Down(1))
    IN IF r.ok THEN [r EXCEPT !.tables[r.at][Index(virt, 1)] = UserPage(arch, phys, flags)] ELSE r

(* The level-1 table of an address, Top when an entry on the way is empty. *)
LastTable(tables, root, virt) ==
    FoldLeft(LAMBDA t, level :
               IF t = Top \/ ~is_present(tables[t][Index(virt, level)]) THEN Top
               ELSE tables[t][Index(virt, level)].phys,
             root, Down(1))

unmap_user_page(tables, root, virt) ==
    LET t == LastTable(tables, root, virt)
    IN IF t = Top THEN tables ELSE [tables EXCEPT ![t][Index(virt, 1)] = NoEntry]

(* translate_user_page: the leaf, NoEntry when there is none. *)
translate_user_page(tables, root, virt) ==
    LET t == LastTable(tables, root, virt)
    IN IF t = Top \/ ~is_present(tables[t][Index(virt, 1)]) THEN NoEntry
       ELSE tables[t][Index(virt, 1)]

(* protect_user_page: NotMapped, or the leaf anew with the same frame. *)
protect_user_page(arch, tables, root, virt, flags) ==
    LET e == translate_user_page(tables, root, virt)
    IN IF e = NoEntry THEN [tables |-> tables, ok |-> FALSE]
       ELSE [tables |-> [tables EXCEPT ![LastTable(tables, root, virt)][Index(virt, 1)] =
                            UserPage(arch, e.phys, flags)],
             ok |-> TRUE]

(* Mutation: copies the whole root. *)
WholeRoot(tables, current) == tables[current]

(* AddressSpace::new_user and copy_kernel_entries: the upper half is that  *)
(* of the root in use.                                                     *)
NewRoot(tables, current) ==
    [i \in 0..(ENTRIES - 1) |-> IF i >= ENTRIES \div 2 THEN tables[current][i] ELSE NoEntry]

=============================================================================
