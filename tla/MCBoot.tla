-------------------------------- MODULE MCBoot --------------------------------
(***************************************************************************)
(* Machines for the boot: two platforms, one with ACPI tables on x86_64    *)
(* and one with a device tree on riscv64, and variants of them in which    *)
(* something is missing, broken or scarce.  A page is 8 bytes.             *)
(***************************************************************************)
EXTENDS KernelEntry

P == PAGE_SIZE

(* Physical memory: the first page reserved, some low pages, holes, tables *)
(* and run-time memory of the firmware, the loader's own code.             *)
Memory(low) ==
    [p \in Pages |->
        CASE p = 0 -> "Reserved"
          [] p \in 1..3 -> low
          [] p \in 4..5 -> "Hole"
          [] p \in 6..7 -> "AcpiReclaim"
          [] p = 40 -> "LoaderCode"
          [] p \in 41..43 -> "BootServices"
          [] p = 90 -> "Runtime"
          [] p = 91 -> "Persistent"
          [] OTHER -> "Conventional"]

Segment(virt, phys, filesz, memsz, flags) ==
    [load |-> TRUE, vaddr |-> virt, paddr |-> phys, filesz |-> filesz, memsz |-> memsz,
     inFile |-> TRUE, flags |-> flags]
NotLoaded == [Segment(0, 0, 0, 0, {}) EXCEPT !.load = FALSE]
Elf(size, entry, phdrs) == [size |-> size, header |-> TRUE, entry |-> entry, phdrs |-> phdrs]

KernelElf == Elf(11, 300 * P + 1, <<NotLoaded, Segment(300 * P, 10 * P, 9, 9, {"X"}),
                                   Segment(302 * P, 12 * P, 2, 10, {"W"})>>)
InitElf == Elf(9, 20 * P + 3, <<Segment(20 * P + 3, 0, 7, 7, {"X"}), Segment(23 * P, 0, 1, 4, {"W"}),
                               Segment(25 * P, 0, 0, 2, {})>>)

Files == (<<"dir", "kernel">> :> KernelElf) @@ (<<"dir", "init">> :> InitElf)
         @@ (<<"dir", "procmgr">> :> [size |-> 9]) @@ (<<"dir", "devmgr">> :> [size |-> 3])

Line(key, value) == [key |-> key, value |-> value]
Config == <<Line("path", "dir"), Line("kernel", "other"), Line("kernel", "kernel"), Line("init", "init"),
            Line("modules", <<"procmgr", "", "devmgr">>), Line("cmdline", 3)>>

Lapic(id, enabled) == [type |-> "LAPIC", id |-> id, enabled |-> enabled]
Madt == [sig |-> "APIC", lapic |-> 400 * P,
         entries |-> <<Lapic(5, TRUE), Lapic(3, TRUE), Lapic(4, FALSE), Lapic(7, TRUE),
                       [type |-> "IOAPIC", id |-> 1, addr |-> 398 * P],
                       [type |-> "IOAPIC", id |-> 2, addr |-> 398 * P + 1],
                       [type |-> "ISO", id |-> 2, flags |-> 1], [type |-> "ISO", id |-> 99, flags |-> 0]>>]
Mcfg == [sig |-> "MCFG", entries |-> <<[base |-> 380 * P, segment |-> 0, start_bus |-> 0, end_bus |-> 1],
                                       [base |-> 0, segment |-> 1, start_bus |-> 0, end_bus |-> 0]>>]
Spcr == [sig |-> "SPCR", base |-> 6 * P, size |-> 2, uart |-> 402 * P]
Fadt == [sig |-> "FACP", base |-> 6 * P + 3, size |-> 4, dsdt |-> 7 * P, dsdt_size |-> 3]
NoAcpi == [rsdp |-> 0, rsdp_valid |-> FALSE, tables |-> <<>>]
Acpi == [rsdp |-> 6 * P + 7, rsdp_valid |-> TRUE, tables |-> <<Madt, Mcfg, Spcr, Fadt>>]

Node(depth, compatible, reg, irqs, ranges) ==
    [depth |-> depth, compatible |-> {compatible}, reg |-> reg, irqs |-> irqs, ranges |-> ranges,
     disabled |-> FALSE]
Hart(id) == Node(2, "riscv", <<<<id, 0>>>>, <<>>, <<>>)
PciRange(space, base, size) == [space |-> space, base |-> base, size |-> size]
NoDtb == [base |-> 0, size |-> 0, valid |-> FALSE, nodes |-> <<>>]
Dtb == [base |-> 6 * P, size |-> 9, valid |-> TRUE,
        nodes |-> <<Hart(0), Hart(1), [Hart(8) EXCEPT !.disabled = TRUE], Hart(2),
                    Node(3, "ns16550a", <<<<400 * P, 3>>>>, <<>>, <<>>),
                    Node(3, "virtio,mmio", <<<<401 * P, P>>>>, <<8>>, <<>>),
                    Node(3, "virtio,mmio", <<<<399 * P, 2 * P>>>>, <<0>>, <<>>),
                    Node(3, "pci-host-ecam-generic", <<<<420 * P, 4 * P>>>>, <<>>,
                         <<PciRange(1, 500 * P, P), PciRange(2, 404 * P, 4 * P), PciRange(3, 406 * P, P)>>),
                    Node(3, "sifive,plic-1.0.0", <<<<396 * P, 2 * P>>>>, <<>>, <<>>),
                    Node(9, "riscv,clint0", <<<<394 * P, P>>>>, <<>>, <<>>)>>]

Display(known, base, size) == [known |-> known, base |-> base, size |-> size]

X86 == [arch |-> "x86_64", high |-> TRUE, memory |-> Memory("Conventional"), events |-> 1,
        event_pages |-> {3, 41} \cup (44..(MEMORY_PAGES - 1)), flaky |-> FALSE,
        displays |-> <<Display(FALSE, 9, 9), Display(TRUE, 361 * P, 10)>>,
        config |-> Config, files |-> Files, acpi |-> Acpi, dtb |-> NoDtb, bsp |-> 3, cpus |-> {5, 7},
        sbi_fails |-> FALSE, uart |-> 0, handoff |-> <<40>>]
Riscv == [X86 EXCEPT !.arch = "riscv64", !.high = FALSE, !.displays = <<>>, !.acpi = NoAcpi, !.dtb = Dtb,
                     !.bsp = 1, !.cpus = {0, 2}, !.uart = 400 * P]

(* A machine with the record's fields changed. *)
With(m, changes) == changes @@ m
File(name, f) == [files |-> (<<"dir", name>> :> f) @@ Files]
Tables(t) == [acpi |-> [Acpi EXCEPT !.tables = t]]

RiscvMadt == [sig |-> "APIC", lapic |-> 0,
              entries |-> <<[type |-> "RINTC", id |-> 2, enabled |-> TRUE],
                            [type |-> "RINTC", id |-> 1, enabled |-> TRUE],
                            [type |-> "PLIC", addr |-> 396 * P, size |-> 2 * P, sources |-> 4]>>]
LowMcfg == [sig |-> "MCFG", entries |-> <<[base |-> 210 * P, segment |-> 0, start_bus |-> 0, end_bus |-> 0]>>]

(* Errors that end the boot: in the configuration, in a file, of memory. *)
Broken ==
    {With(X86, [config |-> c]) : c \in {Tail(Config), Append(Config, Line("bad", "")),
                                        Append(Config, Line("init", "long")),
                                        Append(Config, Line("modules", <<"a", "b", "c">>)),
                                        Append(Config, Line("modules", <<"absent">>)),
                                        Append(Config, Line("cmdline", 9))}}
    \cup {With(X86, File("kernel", f)) :
            f \in {[KernelElf EXCEPT !.header = FALSE], [KernelElf EXCEPT !.entry = 0],
                   [KernelElf EXCEPT !.phdrs[2].flags = {"W", "X"}],
                   [KernelElf EXCEPT !.phdrs[3].memsz = 1], [KernelElf EXCEPT !.phdrs[3].paddr = 90 * P]}}
    \cup {With(X86, File("init", f)) :
            f \in {[InitElf EXCEPT !.phdrs[1].inFile = FALSE],
                   [InitElf EXCEPT !.phdrs = @ \o <<Segment(30 * P, 0, 1, 1, {})>>]}}
    \cup {With(m, [memory |-> [p \in Pages |-> IF p >= n THEN "Hole" ELSE m.memory[p]]]) :
            m \in {X86, Riscv}, n \in {16, 32, 50, 56, 60, 64, 72, 80}}

(* The firmware's map does not change. *)
Calm(m) == With(m, [events |-> 0])

Variants ==
    {Calm(With(X86, c)) :
        c \in {[memory |-> Memory("Reserved")], [acpi |-> NoAcpi, displays |-> <<>>],
               [acpi |-> [Acpi EXCEPT !.rsdp_valid = FALSE]], Tables(<<Spcr, LowMcfg, Madt>>),
               [dtb |-> Dtb], [cpus |-> {5}], [displays |-> <<Display(TRUE, 374 * P, 8)>>]}}
    \cup {Calm(With(Riscv, c)) :
        c \in {Tables(<<RiscvMadt>>), [sbi_fails |-> TRUE], [cpus |-> {2}], [high |-> TRUE],
               [dtb |-> [Dtb EXCEPT !.valid = FALSE], config |-> SubSeq(Config, 1, 4)]}}

AllMachines ==
    {X86, Riscv, With(Calm(X86), [flaky |-> TRUE])}
    \cup {With(m, [events |-> 2, event_pages |-> {3, 30, 44, 45, 60, 110}]) : m \in {X86, Riscv}}
    \cup Broken \cup Variants

X86Irqs == "x86_64" :> (0..20)
Irqs == X86Irqs @@ ("riscv64" :> (1..12))
=============================================================================
