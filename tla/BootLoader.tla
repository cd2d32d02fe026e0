------------------------------ MODULE BootLoader ------------------------------
(***************************************************************************)
(* The UEFI boot loader, boot/src: boot_sequence from the discovery of     *)
(* protocols to the hand-off, with the ELF loader, the boot configuration, *)
(* the firmware tables, the initial page tables and the memory map.        *)
(*                                                                         *)
(* The firmware is external.  It is a map of page types with a key that    *)
(* changes whenever the map does.  It may fail any call before             *)
(* ExitBootServices succeeds, and may change its map on its own after the  *)
(* loader has read it (an earlier change is a machine of its own).         *)
(* Addresses are bytes, with a small PAGE_SIZE.  Files, the configuration  *)
(* and the firmware's tables are records of the fields the loader reads.   *)
(***************************************************************************)
EXTENDS Buddy, TLC

CONSTANTS
    Machines,              \* firmware, memory, devices, CPUs, files: see MCBoot
    MEMORY_PAGES,          \* pages of physical memory
    MAX_MODULES,           \* modules in boot.conf
    MAX_CMDLINE_LEN,
    TooLong,               \* names that make a path resolve_path refuses
    MAX_LOAD_SEGMENTS,     \* segments of the kernel
    INIT_MAX_SEGMENTS,     \* segments of init
    MAX_PLATFORM_RESOURCES,
    MAX_CPUS,
    MAX_DEPTH,             \* of device tree nodes that are looked at
    MAX_IDENTITY_REGIONS,
    MEM_MAP_ENTRY_PAGES,   \* pages of the translated memory map, and ...
    MAP_ENTRIES_PER_PAGE,  \* ... its entries in a page
    DESCRIPTORS_PER_PAGE,  \* UEFI memory descriptors in a page
    DESCRIPTOR_SLACK,      \* descriptors get_memory_map adds to the firmware's count
    BOOT_STACK_PAGES,      \* KERNEL_STACK_PAGES of boot/src/main.rs
    TRAMPOLINE_LIMIT,      \* first page above 1 MiB
    BOOT_LEVELS,           \* levels of the boot page tables, and ...
    TABLE_ENTRIES,         \* ... entries of a table
    PCI_HALF,              \* 0x8000_0000
    PCI_HIGH,              \* 0x3800_0000_0000
    BUS_SIZE               \* bytes of a bus in ECAM space

VARIABLES
    machine,  \* fixed
    efi,      \* the firmware: page types, map key; addr and ok of the last call
    pc,       \* the next step of boot_sequence, then of kernel_entry
    ld,       \* the local variables of boot_sequence
    events    \* firmware map changes still to come

Pages == 0..(MEMORY_PAGES - 1)
PagesOf(base, size) == (base \div PAGE_SIZE)..((base + size - 1) \div PAGE_SIZE)
CeilPages(size) == align_up(size) \div PAGE_SIZE
FirstN(s, n) == SubSeq(s, 1, Min({n, Len(s)}))

-----------------------------------------------------------------------------
(* UEFI memory services (external).  The address of an allocation is up to *)
(* the firmware: the lowest or the highest that fits.                      *)

Fits(e, n, limit) ==
    {p \in Pages : p + n <= limit /\ \A q \in p..(p + n - 1) : e.map[q] = "Conventional"}

AllocatePages(e, candidates, n) ==
    IF ~e.ok \/ n = 0 \/ candidates = {} THEN [e EXCEPT !.ok = FALSE]
    ELSE LET p == IF machine.high THEN Max(candidates) ELSE Min(candidates)
         IN [e EXCEPT !.map = [q \in p..(p + n - 1) |-> "LoaderData"] @@ @,
                      !.key = @ + 1, !.addr = p * PAGE_SIZE]

(* The loader's wrappers; out of memory ends the boot. *)
allocate_pages(e, n) == AllocatePages(e, Fits(e, n, MEMORY_PAGES), n)
allocate_pages_max_addr(e, n) == AllocatePages(e, Fits(e, n, TRAMPOLINE_LIMIT), n)
allocate_address(e, addr, n) ==
    AllocatePages(e, {p \in Fits(e, n, MEMORY_PAGES) : p * PAGE_SIZE = addr}, n)

(* Several allocations in a row; the state also has the addresses. *)
AllocateAll(e, counts) ==
    InTurn(LAMBDA x, n : LET y == allocate_pages(x.efi, n)
                         IN [efi |-> y, addrs |-> Append(x.addrs, y.addr)],
           [efi |-> e, addrs |-> <<>>], counts)

(* GetMemoryMap: a descriptor for every run of pages of one type. *)
Descriptors(map) ==
    LET starts == SelectSeq([p \in 1..MEMORY_PAGES |-> p - 1],
                            LAMBDA p : map[p] # "Hole" /\ (p = 0 \/ map[p - 1] # map[p]))
        End(p) == Min({q \in (p + 1)..MEMORY_PAGES : q = MEMORY_PAGES \/ map[q] # map[p]})
        inOrder == IF machine.high THEN Reverse(starts) ELSE starts
    IN [i \in DOMAIN inOrder |->
          [base |-> inOrder[i] * PAGE_SIZE, pages |-> End(inOrder[i]) - inOrder[i],
           type |-> map[inOrder[i]]]]

-----------------------------------------------------------------------------
(* boot.conf: lines [key, value].  The last line with a key counts, a line *)
(* without '=' has the key "bad"; comments and blank lines are left out.   *)

parse_config(lines) ==
    LET Lines(k) == {i \in DOMAIN lines : lines[i].key = k}
        Value(k) == lines[Max(Lines(k))].value
        modules  == IF Lines("modules") = {} THEN <<>>
                    ELSE SelectSeq(Value("modules"), LAMBDA n : n # "")
        cmdline  == IF Lines("cmdline") = {} THEN 0 ELSE Value("cmdline")
    IN IF /\ Lines("bad") = {}
          /\ \A k \in {"path", "kernel", "init"} : Lines(k) # {} /\ Value(k) \notin TooLong
          /\ Len(modules) <= MAX_MODULES /\ ToSet(modules) \cap TooLong = {}
          /\ cmdline <= MAX_CMDLINE_LEN
       THEN [ok |-> TRUE, kernel |-> <<Value("path"), Value("kernel")>>,
             init |-> <<Value("path"), Value("init")>>,
             modules |-> [i \in DOMAIN modules |-> <<Value("path"), modules[i]>>],
             cmdline |-> cmdline]
       ELSE [ok |-> FALSE, kernel |-> <<>>, init |-> <<>>, modules |-> <<>>, cmdline |-> 0]

-----------------------------------------------------------------------------
(* ELF files: [size, header, entry, phdrs]; "header" says that the magic,  *)
(* class, machine and table bounds are right, a program header's "inFile"  *)
(* that its data lies within the file.                                     *)

validate_elf_header(f) ==
    /\ f.header
    /\ \E i \in DOMAIN f.phdrs :
          LET ph == f.phdrs[i]
          IN ph.load /\ ph.memsz > 0 /\ f.entry \in ph.vaddr..(ph.vaddr + ph.memsz - 1)

check_wx_segments(f) ==
    \A i \in DOMAIN f.phdrs : f.phdrs[i].load => ~({"W", "X"} \subseteq f.phdrs[i].flags)

LoadSegments(f) == SelectSeq(f.phdrs, LAMBDA ph : ph.load /\ ph.memsz > 0)

(* What load_kernel and load_init check of the segments. *)
Loadable(f, limit) ==
    /\ validate_elf_header(f)
    /\ check_wx_segments(f)
    /\ Len(LoadSegments(f)) \in 1..limit
    /\ \A ph \in ToSet(LoadSegments(f)) : ph.memsz >= ph.filesz /\ (ph.filesz > 0 => ph.inFile)

(* load_kernel: every segment at its physical address. *)
load_kernel(e, f) ==
    LET segs == LoadSegments(f)
        all  == ToSet(segs)
    IN IF ~Loadable(f, MAX_LOAD_SEGMENTS) THEN [efi |-> [e EXCEPT !.ok = FALSE], info |-> <<>>]
       ELSE [efi |-> InTurn(LAMBDA x, ph : allocate_address(x, ph.paddr, CeilPages(ph.memsz)), e, segs),
             info |-> [physical_base |-> Min({ph.paddr : ph \in all}),
                       virtual_base |-> Min({ph.vaddr : ph \in all}),
                       size |-> Max({ph.paddr + ph.memsz : ph \in all}) - Min({ph.paddr : ph \in all}),
                       entry |-> f.entry,
                       segments |-> [i \in DOMAIN segs |->
                          [phys |-> segs[i].paddr, virt |-> segs[i].vaddr,
                           size |-> segs[i].memsz, flags |-> segs[i].flags]]]]

(* load_init: every segment in new pages, at its offset within a page. *)
load_init(e, f) ==
    LET segs == LoadSegments(f)
        Offset(ph) == ph.vaddr % PAGE_SIZE
        got == AllocateAll(e, [i \in DOMAIN segs |-> CeilPages(Offset(segs[i]) + segs[i].memsz)])
    IN IF ~Loadable(f, INIT_MAX_SEGMENTS) THEN [efi |-> [e EXCEPT !.ok = FALSE], info |-> <<>>]
       ELSE [efi |-> got.efi,
             info |-> [entry |-> f.entry,
                       segments |-> [i \in DOMAIN segs |->
                          [phys |-> got.addrs[i] + Offset(segs[i]), virt |-> segs[i].vaddr,
                           size |-> segs[i].memsz,
                           flags |-> IF "X" \in segs[i].flags THEN {"X"} ELSE segs[i].flags \cap {"W"}]]]]

-----------------------------------------------------------------------------
(* Platform resources.  The bus numbers in an ECAM's flags are left out.   *)

Resource(type, base, size, id, flags) ==
    [type |-> type, base |-> base, size |-> size, id |-> id, flags |-> flags]
Mmio(base, size) == Resource("MmioRange", base, size, 0, 0)
If(cond, s) == IF cond THEN s ELSE <<>>

(* parse_madt: the local APIC, then the entries. *)
MadtEntry(x) ==
    CASE x.type = "IOAPIC" -> If(x.addr # 0, <<Resource("MmioRange", x.addr, PAGE_SIZE, x.id, 0)>>)
      [] x.type = "ISO" -> <<Resource("IrqLine", 0, 0, x.id, x.flags)>>
      [] x.type = "PLIC" -> If(x.addr # 0 /\ x.size > 0, <<Mmio(x.addr, x.size)>>)
                            \o [i \in 1..(Min({x.sources, 36}) - 1) |-> Resource("IrqLine", 0, 0, i, 0)]
      [] OTHER -> <<>>

parse_madt(t) ==
    If(t.lapic # 0, <<Mmio(t.lapic, PAGE_SIZE)>>)
    \o FlattenSeq([i \in DOMAIN t.entries |-> MadtEntry(t.entries[i])])

(* parse_mcfg: configuration space, and two windows guessed from it. *)
parse_mcfg(t) ==
    LET Entry(x) ==
          <<Resource("PciEcam", x.base, (x.end_bus - x.start_bus + 1) * BUS_SIZE, x.segment, 0),
            IF x.base < PCI_HALF THEN Mmio(PCI_HALF \div 2, PCI_HALF \div 2)
                                 ELSE Mmio(PCI_HALF, x.base - PCI_HALF),
            IF x.base < PCI_HALF THEN Mmio(8 * PCI_HALF, 8 * PCI_HALF)
                                 ELSE Mmio(PCI_HIGH, 2 * PCI_HALF)>>
    IN FlattenSeq([i \in DOMAIN t.entries |-> If(t.entries[i].base # 0, Entry(t.entries[i]))])

(* parse_acpi_resources. *)
AcpiTable(t) ==
    CASE t.sig = "APIC" -> parse_madt(t)
      [] t.sig = "MCFG" -> parse_mcfg(t)
      [] t.sig = "SPCR" -> <<Resource("PlatformTable", t.base, t.size, 1, 0)>>
                           \o If(t.uart # 0, <<Mmio(t.uart, PAGE_SIZE)>>)
      [] t.sig = "FACP" -> <<Resource("PlatformTable", t.base, t.size, 3, 0)>>
                           \o If(t.dsdt # 0, <<Resource("PlatformTable", t.dsdt, t.dsdt_size, 4, 0)>>)
      [] OTHER -> <<>>

parse_acpi_resources(acpi, room) ==
    IF ~acpi.rsdp_valid THEN <<>>
    ELSE FirstN(<<Resource("PlatformTable", acpi.rsdp, 36, 0, 0)>>
                \o FlattenSeq([i \in DOMAIN acpi.tables |-> AcpiTable(acpi.tables[i])]), room)

(* The nodes of a device tree in the order in which they end. *)
for_each_compatible(dtb, compat) ==
    SelectSeq(dtb.nodes, LAMBDA n : n.depth <= MAX_DEPTH /\ compat \in n.compatible)

NodeReg(n, type) ==
    If(n.reg # <<>>, <<Resource(type, n.reg[1][1], Max({n.reg[1][2], PAGE_SIZE}), 0, 0)>>)

DtbNode(n, kind) ==
    CASE kind = "ecam" -> NodeReg(n, "PciEcam")
                          \o FlattenSeq([i \in DOMAIN n.ranges |->
                                If(n.ranges[i].space \in {2, 3},
                                   <<Mmio(n.ranges[i].base, n.ranges[i].size)>>)])
      [] kind = "virtio" -> NodeReg(n, "MmioRange")
                          \o If(n.irqs # <<>>, <<Resource("IrqLine", 0, 0, n.irqs[1], 0)>>)
      [] OTHER -> NodeReg(n, "MmioRange")

(* parse_dtb_resources: PLICs, CLINTs, PCI hosts, virtio, UARTs, the tree. *)
DtbOrder == <<<<"riscv,plic0", "">>, <<"sifive,plic-1.0.0", "">>, <<"riscv,clint0", "">>,
              <<"sifive,clint0", "">>, <<"pci-host-ecam-generic", "ecam">>,
              <<"virtio,mmio", "virtio">>, <<"ns16550a", "">>>>

parse_dtb_resources(dtb, room) ==
    IF ~dtb.valid THEN <<>>
    ELSE LET Of(k) == LET nodes == for_each_compatible(dtb, DtbOrder[k][1])
                      IN FlattenSeq([i \in DOMAIN nodes |-> DtbNode(nodes[i], DtbOrder[k][2])])
         IN FirstN(FlattenSeq([k \in DOMAIN DtbOrder |-> Of(k)])
                   \o <<Resource("PlatformTable", dtb.base, dtb.size, 0, 0)>>, room)

(* Mutation: leaves the order of the tables. *)
Unsorted(s) == s

(* Stable sort by (type, base), as the insertion sort does. *)
TypeNumber == [MmioRange |-> 0, IrqLine |-> 1, PciEcam |-> 2, PlatformTable |-> 3,
               IoPortRange |-> 4, IommuUnit |-> 5]
sort_key_before(s, i, j) ==
    LET a == TypeNumber[s[i].type]
        b == TypeNumber[s[j].type]
    IN \/ a < b
       \/ a = b /\ s[i].base < s[j].base
       \/ a = b /\ s[i].base = s[j].base /\ i < j
SortResources(s) ==
    LET order == SortSeq([i \in DOMAIN s |-> i], LAMBDA i, j : sort_key_before(s, i, j))
    IN [i \in DOMAIN s |-> s[order[i]]]

(* parse_platform_resources: ACPI, device tree, and the framebuffer with   *)
(* its descriptor page when there is room for both; then the array.        *)
parse_platform_resources(e, fb) ==
    LET acpi == If(machine.acpi.rsdp # 0, parse_acpi_resources(machine.acpi, MAX_PLATFORM_RESOURCES))
        all  == acpi \o If(machine.dtb.base # 0,
                           parse_dtb_resources(machine.dtb, MAX_PLATFORM_RESOURCES - Len(acpi)))
        shown == fb.base # 0 /\ Len(all) + 2 <= MAX_PLATFORM_RESOURCES
        desc == IF shown THEN allocate_pages(e, 1) ELSE e
        list == SortResources(all \o If(shown, <<Resource("MmioRange", fb.base, align_up(fb.size), 0, 1),
                                                Resource("PlatformTable", desc.addr, PAGE_SIZE, 2, 0)>>))
        array == allocate_pages(desc, CeilPages(Len(list)))
    IN IF list = <<>> THEN [efi |-> e, list |-> <<>>, array |-> 0, fb_desc |-> 0]
       ELSE [efi |-> array, list |-> list, array |-> array.addr,
             fb_desc |-> IF shown THEN desc.addr ELSE 0]

(* parse_madt_topology, parse_cpu_count and what boot_sequence makes of    *)
(* them: the boot CPU first, then the others in table order.               *)
Enabled(t) ==
    LET cpus == SelectSeq(t.entries, LAMBDA x : x.type \in {"LAPIC", "RINTC"} /\ x.enabled)
    IN FirstN([i \in DOMAIN cpus |-> cpus[i].id], MAX_CPUS)

BootFirst(bsp, ids) == FirstN(<<bsp>> \o SelectSeq(ids, LAMBDA h : h # bsp), MAX_CPUS)

parse_cpu_topology(acpi, bsp) ==
    LET madts == SelectSeq(acpi.tables, LAMBDA t : t.sig = "APIC")
        ids   == IF acpi.rsdp_valid /\ madts # <<>> THEN Enabled(madts[1]) ELSE <<>>
    IN [count |-> Max({1, Len(ids)}), ids |-> BootFirst(bsp, ids)]

parse_cpu_count(dtb, bsp) ==
    LET cpus == SelectSeq(dtb.nodes, LAMBDA n : n.depth <= MAX_DEPTH /\ "riscv" \in n.compatible
                                                /\ n.reg # <<>> /\ ~n.disabled)
        ids  == IF dtb.valid THEN FirstN([i \in DOMAIN cpus |-> cpus[i].reg[1][1]], MAX_CPUS) ELSE <<>>
    IN [count |-> Max({1, Len(ids)}), ids |-> BootFirst(bsp, ids)]

CpuTopology(bsp) ==
    IF machine.acpi.rsdp # 0 THEN parse_cpu_topology(machine.acpi, bsp)
    ELSE IF machine.dtb.base # 0 THEN parse_cpu_count(machine.dtb, bsp)
    ELSE [count |-> 1, ids |-> <<bsp>>]

-----------------------------------------------------------------------------
(* The boot page tables.  A lower table is named by its level and the part *)
(* of the address that selects it, and takes a page when it is made; a     *)
(* later entry for a page replaces an earlier one.                         *)

(* BootPageTable::map: the leaf entries. *)
map(virt, phys, size, flags) ==
    [i \in 1..CeilPages(size) |-> [page |-> virt \div PAGE_SIZE + i - 1,
                                   frame |-> phys \div PAGE_SIZE + i - 1, flags |-> flags]]

(* The entries for the kernel image and for the identity regions. *)
build_initial_tables(kernel, regions) ==
    FlattenSeq([i \in DOMAIN kernel.segments |->
                  LET s == kernel.segments[i] IN map(s.virt, s.phys, s.size, s.flags)]
               \o [i \in DOMAIN regions |-> map(regions[i][1], regions[i][1], regions[i][2], {"W"})])

(* map_4k_page for all entries: the tables on their paths, and the root,   *)
(* are allocated, and no entry may be writable and executable.             *)
map_4k_pages(e, entries) ==
    LET tables == {<<l, x.page \div TABLE_ENTRIES^l>> : x \in ToSet(entries), l \in 1..(BOOT_LEVELS - 1)}
        made == AllocateAll(e, [i \in 1..(Cardinality(tables) + 1) |-> 1])
        last(page) == Max({i \in DOMAIN entries : entries[i].page = page})
    IN IF \E x \in ToSet(entries) : {"W", "X"} \subseteq x.flags THEN [efi |-> [e EXCEPT !.ok = FALSE], leaf |-> <<>>]
       ELSE [efi |-> made.efi,
             leaf |-> [v \in {x.page : x \in ToSet(entries)} |->
                         [frame |-> entries[last(v)].frame, flags |-> entries[last(v)].flags]]]

-----------------------------------------------------------------------------
(* boot_sequence.  An error in any step ends the boot: fatal_error prints  *)
(* it and stops.                                                           *)

NoLocals == [fb |-> [base |-> 0, size |-> 0], config |-> <<>>, kernel |-> <<>>, init |-> <<>>,
             modules |-> <<>>, buffers |-> <<>>, cpus |-> <<>>, resources |-> <<>>, at |-> <<>>,
             trampoline |-> 0, table |-> <<>>, uefi_map |-> <<>>]

LoaderInit ==
    /\ machine \in Machines
    /\ efi = [map |-> machine.memory, key |-> 0, addr |-> 0, ok |-> TRUE, up |-> TRUE]
    /\ pc = "discover"
    /\ ld = NoLocals
    /\ events = machine.events

Step(from, to, e, locals) ==
    /\ pc = from
    /\ efi' = e
    /\ pc' = IF e.ok THEN to ELSE "failed"
    /\ ld' = locals
    /\ UNCHANGED <<machine, events>>

(* Step 1.  query_gop takes the first display with a known pixel format. *)
Discover ==
    LET shown == SelectSeq(machine.displays, LAMBDA g : g.known /\ g.base # 0)
    IN Step("discover", "config", efi,
            IF shown = <<>> THEN ld
            ELSE [ld EXCEPT !.fb = [base |-> shown[1].base, size |-> shown[1].size]])

(* Step 2. *)
LoadConfig ==
    LET config == parse_config(machine.config)
    IN Step("config", "kernel", [efi EXCEPT !.ok = config.ok], [ld EXCEPT !.config = config])

(* A file goes to a buffer of its own; one that is not there is an error. *)
ReadFile(path) ==
    IF path \in DOMAIN machine.files THEN allocate_pages(efi, CeilPages(machine.files[path].size))
    ELSE [efi EXCEPT !.ok = FALSE]
Buffer(e, path) ==
    IF e.ok THEN <<<<e.addr, align_up(machine.files[path].size)>>>> ELSE <<>>

(* Step 3. *)
LoadKernel ==
    /\ pc = "kernel"
    /\ LET path == ld.config.kernel
           read == ReadFile(path)
           k == IF read.ok THEN load_kernel(read, machine.files[path]) ELSE [efi |-> read, info |-> <<>>]
       IN Step("kernel", "init", k.efi,
               [ld EXCEPT !.kernel = k.info, !.buffers = @ \o Buffer(read, path)])

(* Step 4: init, ... *)
LoadInit ==
    /\ pc = "init"
    /\ LET path == ld.config.init
           read == ReadFile(path)
           i == IF read.ok THEN load_init(read, machine.files[path]) ELSE [efi |-> read, info |-> <<>>]
       IN Step("init", "modules", i.efi,
               [ld EXCEPT !.init = i.info, !.buffers = @ \o Buffer(read, path)])

(* ... and the modules one by one: load_module copies the buffer. *)
LoadModule ==
    /\ pc = "modules" /\ Len(ld.modules) < Len(ld.config.modules)
    /\ LET path == ld.config.modules[Len(ld.modules) + 1]
           read == ReadFile(path)
           copy == IF read.ok THEN allocate_pages(read, CeilPages(machine.files[path].size)) ELSE read
       IN Step("modules", "modules", copy,
               IF copy.ok THEN [ld EXCEPT !.modules = Append(@, [base |-> copy.addr,
                                                                 size |-> machine.files[path].size]),
                                          !.buffers = @ \o Buffer(read, path)]
               ELSE ld)

(* Step 5: what the firmware's tables say, ... *)
ReadTables ==
    /\ pc = "modules" /\ Len(ld.modules) = Len(ld.config.modules)
    /\ LET r == parse_platform_resources(efi, ld.fb)
       IN Step("modules", "allocate", r.efi,
               [ld EXCEPT !.cpus = CpuTopology(machine.bsp),
                          !.resources = [list |-> r.list, array |-> r.array, fb_desc |-> r.fb_desc]])

(* ... the pages for the kernel's data ... *)
AllocateInfo ==
    /\ pc = "allocate"
    /\ LET got == AllocateAll(efi, <<1, 1, MEM_MAP_ENTRY_PAGES, BOOT_STACK_PAGES, 1>>)
       IN Step("allocate", "trampoline", got.efi,
               [ld EXCEPT !.at = [boot_info |-> got.addrs[1], modules |-> got.addrs[2],
                                  mem_entries |-> got.addrs[3], stack |-> got.addrs[4],
                                  cmdline |-> got.addrs[5]]])

(* ... and for the start of other CPUs, without which there are none. *)
AllocateTrampoline ==
    /\ pc = "trampoline"
    /\ LET e == IF machine.arch = "x86_64" THEN allocate_pages_max_addr(efi, 1)
                                           ELSE allocate_pages(efi, 1)
       IN Step("trampoline", "paging", IF e.ok THEN e ELSE efi,
               [ld EXCEPT !.trampoline = IF e.ok THEN e.addr ELSE 0])

(* The regions that are mapped one to one; more than there is room for are *)
(* dropped.                                                                *)
KernelData ==
    <<<<ld.at.boot_info, PAGE_SIZE>>, <<ld.at.modules, PAGE_SIZE>>,
      <<ld.at.mem_entries, MEM_MAP_ENTRY_PAGES * PAGE_SIZE>>,
      <<ld.at.stack, BOOT_STACK_PAGES * PAGE_SIZE>>, <<ld.at.cmdline, PAGE_SIZE>>>>

IdentityRegions ==
    LET Segments(s) == [i \in DOMAIN s |-> <<s[i].phys, align_up(s[i].size)>>]
        Module(i) == <<ld.buffers[i + 2], <<ld.modules[i].base, align_up(ld.modules[i].size)>>>>
    IN FirstN(Segments(ld.kernel.segments) \o KernelData \o Segments(ld.init.segments)
              \o <<ld.buffers[2], ld.buffers[1]>>
              \o FlattenSeq([i \in DOMAIN ld.modules |-> Module(i)])
              \o If(ld.fb.base # 0, <<<<ld.fb.base, align_up(ld.fb.size)>>>>)
              \o If(machine.uart # 0, <<<<machine.uart, PAGE_SIZE>>>>)
              \o If(ld.resources.list # <<>>, <<<<ld.resources.array, align_up(Len(ld.resources.list))>>>>)
              \o If(ld.resources.fb_desc # 0, <<<<ld.resources.fb_desc, PAGE_SIZE>>>>),
              MAX_IDENTITY_REGIONS)

(* Step 6: the tables, and the pages of the hand-off code, executable. *)
BuildTables ==
    /\ pc = "paging"
    /\ \E entries \in {build_initial_tables(ld.kernel, IdentityRegions)
                         \o [i \in DOMAIN machine.handoff |->
                               [page |-> machine.handoff[i], frame |-> machine.handoff[i], flags |-> {"X"}]]} :
          \E t \in {map_4k_pages(efi, entries)} :
             Step("paging", "map", t.efi, [ld EXCEPT !.table = [leaf |-> t.leaf]])

(* Step 7, get_memory_map: a buffer for more descriptors than there are,   *)
(* as its own allocation may add some.                                     *)
GetMemoryMap ==
    /\ pc = "map"
    /\ LET pages == (Len(Descriptors(efi.map)) + DESCRIPTOR_SLACK + DESCRIPTORS_PER_PAGE - 1)
                       \div DESCRIPTORS_PER_PAGE
           e == allocate_pages(efi, pages)
           now == Descriptors(e.map)
       IN Step("map", "exit", [e EXCEPT !.ok = @ /\ Len(now) <= pages * DESCRIPTORS_PER_PAGE],
               [ld EXCEPT !.uefi_map = [list |-> now, key |-> e.key]])

(* The firmware changes its map (external): memory becomes the firmware's  *)
(* for good, or boot services take or free some.                           *)
FirmwareEvent(page, type) ==
    /\ efi.up /\ events > 0
    /\ pc \in {"exit", "requery", "retry"}
    /\ efi.map[page] \in {"Conventional", "BootServices"} /\ type # efi.map[page]
    /\ efi' = [efi EXCEPT !.map[page] = type, !.key = @ + 1]
    /\ events' = events - 1
    /\ UNCHANGED <<machine, pc, ld>>

(* Step 8, exit_boot_services: with a stale key the firmware refuses, ... *)
ExitBootServices ==
    /\ pc = "exit"
    /\ Step("exit", IF efi.key = ld.uefi_map.key THEN "populate" ELSE "requery",
            [efi EXCEPT !.up = (efi.key # ld.uefi_map.key)], ld)

(* Mutation: takes the new key and keeps the old map. *)
RequeryKeyOnly ==
    /\ pc = "requery"
    /\ Step("requery", "retry", efi, [ld EXCEPT !.uefi_map.key = efi.key])

(* ... the map is read again, into as much of the buffer as the first map  *)
(* filled, ...                                                             *)
RequeryMap ==
    /\ pc = "requery"
    /\ LET now == Descriptors(efi.map)
       IN Step("requery", "retry", [efi EXCEPT !.ok = Len(now) <= Len(ld.uefi_map.list)],
               [ld EXCEPT !.uefi_map = [list |-> now, key |-> efi.key]])

(* ... and a second refusal is final. *)
RetryExit ==
    /\ pc = "retry"
    /\ Step("retry", "populate", [efi EXCEPT !.ok = (efi.key = ld.uefi_map.key),
                                             !.up = (efi.key # ld.uefi_map.key)], ld)

(* Any call to the firmware may fail. *)
UefiError ==
    /\ machine.flaky
    /\ pc \in {"discover", "config", "kernel", "init", "modules", "allocate", "paging", "map", "exit",
               "requery", "retry"}
    /\ Step(pc, pc, [efi EXCEPT !.ok = FALSE], ld)

-----------------------------------------------------------------------------
(* Step 9: the memory map in the kernel's types, sorted by address.        *)

translate_memory_type(type) ==
    CASE type \in {"Conventional", "BootServices"} -> "Usable"
      [] type \in {"LoaderCode", "LoaderData"} -> "Loaded"
      [] type = "AcpiReclaim" -> "AcpiReclaimable"
      [] type = "Persistent" -> "Persistent"
      [] OTHER -> "Reserved"

translate_memory_map(list) ==
    LET first == FirstN(list, MEM_MAP_ENTRY_PAGES * MAP_ENTRIES_PER_PAGE)
    IN SortSeq([i \in DOMAIN first |-> [base |-> first[i].base, size |-> first[i].pages * PAGE_SIZE,
                                        type |-> translate_memory_type(first[i].type)]],
               LAMBDA x, y : x.base < y.base)

(* BootInfo as the kernel finds it: the scalar fields and what its         *)
(* pointers lead to.                                                       *)
BootInfo ==
    [memory_map |-> translate_memory_map(ld.uefi_map.list),
     kernel_base |-> ld.kernel.physical_base, kernel_size |-> ld.kernel.size,
     init |-> ld.init, modules |-> ld.modules, framebuffer |-> ld.fb,
     resources |-> ld.resources.list, cmdline_len |-> ld.config.cmdline,
     cpu_count |-> Max({ld.cpus.count, 1}), cpu_ids |-> ld.cpus.ids,
     ap_trampoline_page |-> ld.trampoline]
=============================================================================
