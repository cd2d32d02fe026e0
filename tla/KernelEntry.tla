----------------------------- MODULE KernelEntry -----------------------------
(***************************************************************************)
(* The kernel's boot, kernel_entry of kernel/src/main.rs: from the BootInfo *)
(* that the loader leaves to the capabilities and the memory of init, and  *)
(* the start of the other CPUs.                                            *)
(*                                                                         *)
(* The boot CPU is alone until it starts others, so a phase is one step.   *)
(* Phases 3 and 4, the kernel's page tables and heap, are in Memory; they  *)
(* use memory of the kernel image and change nothing here.  The boxes on   *)
(* the heap, and init's lower page tables, take no frames here.            *)
(* A capability space from which nothing was removed gives out its slots   *)
(* in ascending order, so the root one is a sequence.                      *)
(***************************************************************************)
EXTENDS BootLoader

CONSTANTS
    MAX_ENTRIES,          \* slots of the root CSpace
    IrqIds,               \* MIN_IRQ_ID .. MAX_IRQ_ID of an architecture
    IO_PORTS,             \* 0x10000
    ADDRESS_LIMIT,        \* 2^64
    KERNEL_STACK_PAGES,   \* of an idle thread
    INIT_KSTACK_ORDER,    \* block of init's kernel stack
    INIT_INFO_SIZE,       \* bytes of InitInfo, and ...
    CAP_DESCRIPTOR_SIZE,  \* ... of a descriptor after it
    INIT_INFO_MAX_PAGES,
    INIT_INFO_VADDR,      \* pages of init's address space
    INIT_STACK_TOP,
    INIT_STACK_PAGES

VARIABLES
    k,     \* kernel statics and the locals of kernel_entry
    ap     \* the other CPUs, by hardware id

vars == <<machine, efi, pc, ld, events, k, ap>>

NoKernel ==
    [info |-> <<>>, buddy |-> Empty, apic_ids |-> <<>>, resources |-> <<>>,
     caps |-> <<>>, layout |-> <<>>, idle |-> <<>>, space |-> <<>>, memory |-> <<>>,
     init_info |-> <<>>, queue |-> <<>>, cpu_idx |-> 0, params |-> <<>>, APS_READY |-> 0,
     per_cpu |-> <<>>]

Off == [at |-> "off", slot |-> 0, cpu_id |-> 0, stack |-> 0]

Init == LoaderInit /\ k = NoKernel /\ ap = [h \in machine.cpus |-> Off]

(* Steps 9 and 10: BootInfo, and the jump to the kernel's entry. *)
Handoff ==
    /\ pc = "populate"
    /\ k' = [k EXCEPT !.info = BootInfo]
    /\ pc' = "entry"
    /\ UNCHANGED <<machine, efi, ld, events, ap>>

(* A phase that ends in fatal() stops the boot CPU. *)
Phase(from, to, ok, kernel) ==
    /\ pc = from
    /\ pc' = IF ok THEN to ELSE "halted"
    /\ k' = IF ok THEN kernel ELSE k
    /\ UNCHANGED <<machine, efi, ld, events, ap>>

(* validate_boot_info. *)
ValidateBootInfo ==
    Phase("entry", "phase 2",
          k.info.memory_map # <<>> /\ k.info.init.segments # <<>> /\ k.info.init.entry # 0, k)

(* Phase 2. *)
Phase2 ==
    /\ pc = "phase 2"
    /\ LET i == k.info
           usable == SelectSeq(i.memory_map, LAMBDA x : x.type = "Usable")
           Of(s, base, size) == [n \in DOMAIN s |-> <<s[n][base], s[n][base] + s[n][size]>>]
       IN Phase("phase 2", "phase 5", TRUE,
                [k EXCEPT !.buddy = init_physical_memory(
                   [usable |-> Of(usable, "base", "size"),
                    excluded |-> <<<<i.kernel_base, i.kernel_base + i.kernel_size>>>>
                                 \o Of(i.init.segments, "phys", "size") \o Of(i.modules, "base", "size")
                                 \o <<<<ld.at.boot_info, ld.at.boot_info + 1>>>>
                                 \o If(i.ap_trampoline_page # 0,
                                       <<<<i.ap_trampoline_page, i.ap_trampoline_page + PAGE_SIZE>>>>)])])

(* Phase 5: init_bsp and init_apic_ids; the rest is hardware. *)
Phase5 ==
    Phase("phase 5", "phase 6", TRUE,
          [k EXCEPT !.apic_ids = k.info.cpu_ids, !.per_cpu = (0 :> machine.bsp)])

-----------------------------------------------------------------------------
(* Phase 6, kernel/src/platform.rs.                                        *)

(* slice_in_boot_memory: enough of the array lies in Usable or Loaded      *)
(* entries.                                                                *)
slice_in_boot_memory(start, end, entries) ==
    LET Overlap(x) == LET lo == Max({x.base, start})
                          hi == Min({x.base + x.size, end})
                      IN IF x.type \in {"Usable", "Loaded"} /\ hi > lo THEN hi - lo ELSE 0
    IN FoldLeft(LAMBDA sum, x : sum + Overlap(x), 0, entries) >= end - start

ValidResource(r) ==
    CASE r.type \in {"MmioRange", "PciEcam", "IommuUnit"} ->
            /\ r.base % PAGE_SIZE = 0 /\ r.size > 0 /\ r.size % PAGE_SIZE = 0
            /\ r.base + r.size < ADDRESS_LIMIT
      [] r.type = "PlatformTable" -> r.base # 0 /\ r.size # 0 /\ r.base + r.size < ADDRESS_LIMIT
      [] r.type = "IrqLine" -> r.id \in IrqIds[machine.arch]
      [] r.type = "IoPortRange" ->
            machine.arch = "x86_64" /\ r.base < IO_PORTS /\ r.base + r.size <= IO_PORTS

(* remove_overlaps: of two neighbours of one kind the second goes. *)
remove_overlaps(list) ==
    FoldLeft(LAMBDA kept, r :
                IF /\ kept # <<>> /\ r.type \in {"MmioRange", "PciEcam"}
                   /\ Last(kept).type = r.type /\ Last(kept).base + Last(kept).size > r.base
                THEN kept ELSE Append(kept, r),
             <<>>, list)

Phase6 ==
    LET list == k.info.resources
    IN Phase("phase 6", "phase 7",
             list = <<>> \/ slice_in_boot_memory(ld.resources.array, ld.resources.array + Len(list),
                                                 k.info.memory_map),
             [k EXCEPT !.resources = remove_overlaps(SelectSeq(list, ValidResource))])

-----------------------------------------------------------------------------
(* Phase 7, kernel/src/cap/mod.rs.  w = [caps, descriptors, ok].           *)

Capability(tag, rights, base, size) == [tag |-> tag, rights |-> rights, base |-> base, size |-> size]
Frame(rights, base, size) == Capability("Frame", rights, base, size)

(* insert_or_fatal. *)
Insert(w, cap) ==
    IF ~w.ok \/ Len(w.caps) = MAX_ENTRIES THEN [w EXCEPT !.ok = FALSE]
    ELSE [w EXCEPT !.caps = Append(@, cap)]

(* A capability and its descriptor. *)
Mint(w, cap, type, aux0, aux1) ==
    [Insert(w, cap) EXCEPT
        !.descriptors = Append(@, [slot |-> Len(w.caps) + 1, type |-> type, aux0 |-> aux0, aux1 |-> aux1])]

MintFrames(w, blocks) ==
    InTurn(LAMBDA x, b : Mint(x, Frame({"MAP", "WRITE", "EXECUTE"}, b[1], Size(b[2])),
                              "Frame", b[1], Size(b[2])), w, blocks)

MintResource(w, r) ==
    CASE r.type \in {"MmioRange", "PciEcam", "IommuUnit"} ->
            Mint(w, Capability("MmioRegion", {"MAP", "WRITE"}, r.base, r.size),
                 IF r.type = "PciEcam" THEN "PciEcam" ELSE "MmioRegion", r.base, r.size)
      [] r.type = "PlatformTable" ->
            Mint(w, Frame({"MAP"}, r.base, align_up((r.base % PAGE_SIZE) + r.size)), "Frame", r.base, r.size)
      [] r.type = "IrqLine" ->
            Mint(w, Capability("Interrupt", {"SIGNAL"}, r.id, 0), "Interrupt", r.id, r.flags)
      [] r.type = "IoPortRange" ->
            Mint(w, Capability("IoPortRange", {"USE"}, r.base, r.size), "IoPortRange", r.base, r.size)

MintControls(w) ==
    LET sched == Mint(w, Capability("SchedControl", {"ELEVATE"}, 0, 0), "SchedControl", 0, 0)
    IN IF machine.arch = "x86_64"
       THEN Mint(sched, Capability("IoPortRange", {"USE"}, 0, 0), "IoPortRange", 0, IO_PORTS)
       ELSE Mint(sched, Capability("SbiControl", {"CALL"}, 0, 0), "SbiControl", 0, 0)

(* mint_module_frame_caps: whole pages; the descriptor has the size. *)
MintModules(w, modules) ==
    InTurn(LAMBDA x, m : Mint(x, Frame({"MAP", "READ"}, m.base, align_up(m.size)),
                              "Frame", m.base, m.size), w, modules)

(* Mutation: remembers the last slot of a range, not its first. *)
LastSlot(before, after) == Len(after.caps)

(* The first slot of a range, 0 when it is empty. *)
RangeBase(before, after) == IF Len(after.caps) = Len(before.caps) THEN 0 ELSE Len(before.caps) + 1
RangeCount(before, after) == Len(after.caps) - Len(before.caps)

Phase7 ==
    /\ pc = "phase 7"
    /\ \E drain \in {drain_for_usercaps(k.buddy, KERNEL_RESERVE_PAGES)},
          none \in {[caps |-> <<>>, descriptors |-> <<>>, ok |-> TRUE]} :
       \E frames \in {MintFrames(none, drain[2])} :
       \E hw \in {InTurn(MintResource, frames, k.resources)} :
       \E ctl \in {MintControls(hw)} :
       \E all \in {MintModules(ctl, k.info.modules)} :
          Phase("phase 7", "phase 8", all.ok,
                [k EXCEPT !.buddy = drain[1], !.caps = all.caps,
                          !.layout = [memory_frame_base |-> RangeBase(none, frames),
                                      memory_frame_count |-> RangeCount(none, frames),
                                      hw_cap_base |-> RangeBase(frames, hw),
                                      hw_cap_count |-> RangeCount(frames, hw),
                                      sched_control_cap |-> Len(hw.caps) + 1,
                                      sbi_control_cap |-> IF machine.arch = "riscv64"
                                                          THEN Len(hw.caps) + 2 ELSE 0,
                                      module_frame_base |-> RangeBase(ctl, all),
                                      module_frame_count |-> RangeCount(ctl, all),
                                      descriptors |-> all.descriptors]])

-----------------------------------------------------------------------------
(* Phase 8, sched::init: an idle thread with a stack for every CPU.        *)

StackOrder == Min({o \in Orders : 2^o >= KERNEL_STACK_PAGES})

(* n blocks of one order; an address is Top when there was none. *)
AllocBlocks(b, n, order) ==
    InTurn(LAMBDA x, i : LET a == alloc(x.buddy, order)
                         IN [buddy |-> a.buddy, addrs |-> Append(x.addrs, a.addr)],
           [buddy |-> b, addrs |-> <<>>], [i \in 1..n |-> i])

Phase8 ==
    /\ pc = "phase 8"
    /\ LET got == AllocBlocks(k.buddy, k.info.cpu_count, StackOrder)
       IN Phase("phase 8", "space", Top \notin ToSet(got.addrs),
                [k EXCEPT !.buddy = got.buddy,
                          !.idle = [i \in DOMAIN got.addrs |-> got.addrs[i] + KERNEL_STACK_PAGES * PAGE_SIZE]])

-----------------------------------------------------------------------------
(* Phase 9: init.  An address space is a function of virtual pages.        *)

MapPages(space, virt, frames, flags) ==
    [v \in {virt + i - 1 : i \in DOMAIN frames} |-> [frame |-> frames[v - virt + 1], flags |-> flags]]
    @@ space

(* map_segment: at least a page. *)
map_segment(space, s) ==
    LET count == Max({1, CeilPages((s.virt % PAGE_SIZE) + s.size)})
    IN MapPages(space, s.virt \div PAGE_SIZE,
                [i \in 1..count |-> s.phys \div PAGE_SIZE + i - 1], s.flags)

SegmentRights(s) == {"MAP"} \cup (IF "W" \in s.flags THEN {"WRITE"} ELSE {})
                            \cup (IF "X" \in s.flags THEN {"EXECUTE"} ELSE {})

(* The address space with init's segments, and capabilities to them. *)
CreateSpace ==
    /\ pc = "space"
    /\ LET i == k.info.init
           root == alloc(k.buddy, 0)
           w0 == Insert([caps |-> k.caps, ok |-> TRUE],
                        Capability("AddressSpace", {"MAP", "READ"}, root.addr, 0))
           w1 == FoldLeft(LAMBDA x, s : Insert(x, Frame(SegmentRights(s), s.phys, s.size)), w0, i.segments)
       IN Phase("space", "info", root.addr # Top /\ w1.ok,
                [k EXCEPT !.buddy = root.buddy, !.caps = w1.caps,
                          !.space = FoldLeft(map_segment, <<>>, i.segments),
                          !.layout = [aspace_cap |-> Len(w0.caps),
                                      segment_frame_base |-> RangeBase(w0, w1),
                                      segment_frame_count |-> RangeCount(w0, w1)] @@ @])

(* InitInfo, the descriptors and the command line, byte by byte. *)
InfoByte(offset) ==
    LET cmdline == INIT_INFO_SIZE + Len(k.layout.descriptors) * CAP_DESCRIPTOR_SIZE
    IN CASE offset < INIT_INFO_SIZE -> <<"InitInfo", offset>>
         [] offset >= INIT_INFO_SIZE /\ offset < cmdline ->
              <<"descriptor", (offset - INIT_INFO_SIZE) \div CAP_DESCRIPTOR_SIZE + 1,
                (offset - INIT_INFO_SIZE) % CAP_DESCRIPTOR_SIZE>>
         [] offset >= cmdline /\ offset < cmdline + k.info.cmdline_len -> <<"cmdline", offset - cmdline>>
         [] OTHER -> <<"zero">>

InfoBytes == INIT_INFO_SIZE + Len(k.layout.descriptors) * CAP_DESCRIPTOR_SIZE + k.info.cmdline_len

(* New pages, mapped read-only; what is copied goes from page to page. *)
WriteInitInfo ==
    /\ pc = "info"
    /\ LET count == Max({1, CeilPages(InfoBytes)})
           got == AllocBlocks(k.buddy, count, 0)
           Page(f) == CHOOSE n \in DOMAIN got.addrs : got.addrs[n] = f * PAGE_SIZE
           frames == [n \in DOMAIN got.addrs |-> got.addrs[n] \div PAGE_SIZE]
       IN Phase("info", "thread", count <= INIT_INFO_MAX_PAGES /\ Top \notin ToSet(got.addrs),
                [k EXCEPT !.buddy = got.buddy,
                          !.space = MapPages(@, INIT_INFO_VADDR, frames, {}),
                          !.memory = [f \in ToSet(frames) |->
                                        [j \in 0..(PAGE_SIZE - 1) |-> InfoByte((Page(f) - 1) * PAGE_SIZE + j)]],
                          !.init_info = [thread_cap |-> 0, cspace_cap |-> 0,
                                         cap_descriptor_count |-> Len(k.layout.descriptors)] @@ k.layout])

(* The stack downwards from its top, the thread with its capability, the   *)
(* capability to the CSpace itself, and their slots in InitInfo.           *)
CreateThread ==
    /\ pc = "thread"
    /\ LET stack == AllocBlocks(k.buddy, INIT_STACK_PAGES, 0)
           kstack == alloc(stack.buddy, INIT_KSTACK_ORDER)
           frames == [n \in 1..INIT_STACK_PAGES |-> stack.addrs[INIT_STACK_PAGES + 1 - n] \div PAGE_SIZE]
           thread == Insert([caps |-> k.caps, ok |-> TRUE], Capability("Thread", {"CONTROL"}, kstack.addr, 0))
           cspace == Insert(thread, Capability("CSpace", {"INSERT", "DELETE", "DERIVE"}, 0, 0))
       IN Phase("thread", "smp", Top \notin ToSet(stack.addrs) /\ kstack.addr # Top /\ cspace.ok,
                [k EXCEPT !.buddy = kstack.buddy, !.caps = cspace.caps,
                          !.space = MapPages(@, INIT_STACK_TOP - INIT_STACK_PAGES, frames, {"W"}),
                          !.init_info.thread_cap = Len(thread.caps),
                          !.init_info.cspace_cap = Len(cspace.caps),
                          !.queue = <<k.info.init.entry>>])

-----------------------------------------------------------------------------
(* The other CPUs.  The boot CPU starts one at a time; on x86_64 they all  *)
(* read the same parameters in the trampoline page, on riscv64 each has    *)
(* its own.                                                                *)

AllStarted == k.cpu_idx >= k.info.cpu_count

BeginSmp ==
    Phase("smp", IF k.info.cpu_count > 1 /\ k.info.ap_trampoline_page # 0 THEN "start" ELSE "scheduler",
          TRUE, [k EXCEPT !.cpu_idx = 1])

(* start_ap.  x86_64 sends INIT and SIPI and knows of no failure; the SBI  *)
(* of riscv64 (external) may refuse a hart, and then the next one's turn   *)
(* comes.                                                                  *)
StartAp(refused) ==
    /\ pc = "start" /\ ~AllStarted
    /\ LET i    == k.cpu_idx
           h    == k.info.cpu_ids[i + 1]
           slot == IF machine.arch = "x86_64" THEN 1 ELSE i
       IN /\ refused => machine.arch = "riscv64" /\ (machine.sbi_fails \/ h \notin machine.cpus)
          /\ ~refused => machine.arch = "x86_64" \/ h \in machine.cpus
          /\ k' = [k EXCEPT !.params = (slot :> [cpu_id |-> i, stack_top |-> k.idle[i + 1]]) @@ @,
                            !.cpu_idx = IF refused THEN i + 1 ELSE i]
          /\ pc' = IF refused THEN "start" ELSE "wait"
          /\ ap' = IF refused \/ h \notin machine.cpus THEN ap
                   ELSE [ap EXCEPT ![h] = [Off EXCEPT !.at = "root", !.slot = slot]]
    /\ UNCHANGED <<machine, efi, ld, events>>

(* Mutation: waits for the CPUs before this one only. *)
WaitForOthers ==
    /\ k.APS_READY >= k.cpu_idx - 1
    /\ Phase("wait", "start", TRUE, [k EXCEPT !.cpu_idx = @ + 1])

(* Mutation: waits for one more CPU. *)
WaitForMore ==
    /\ k.APS_READY > k.cpu_idx
    /\ Phase("wait", "start", TRUE, [k EXCEPT !.cpu_idx = @ + 1])

WaitForAp ==
    /\ k.APS_READY >= k.cpu_idx
    /\ Phase("wait", "start", TRUE, [k EXCEPT !.cpu_idx = @ + 1])

EnterScheduler == pc = "start" /\ AllStarted /\ Phase("start", "scheduler", TRUE, k)

(* A CPU that starts loads the page table root, turns paging on, ...       *)
ApStep(h, from, to, changes) ==
    /\ ap[h].at = from
    /\ ap' = [ap EXCEPT ![h] = changes @@ [@ EXCEPT !.at = to]]
    /\ UNCHANGED <<machine, efi, pc, ld, events>>

ApLoadRoot(h) == ApStep(h, "root", "params", <<>>) /\ UNCHANGED k

(* ... takes its stack and number, ... *)
ApLoadParams(h) ==
    /\ LET p == k.params[ap[h].slot]
       IN ApStep(h, "params", "entry", [cpu_id |-> p.cpu_id, stack |-> p.stack_top])
    /\ UNCHANGED k

(* ... sets up its own structures, ... *)
ApInit(h) ==
    /\ ApStep(h, "entry", "init", <<>>)
    /\ k' = [k EXCEPT !.per_cpu = (ap[h].cpu_id :> h) @@ @]

(* ... reports and enters its idle loop. *)
ApReady(h) ==
    /\ ApStep(h, "init", "idle", <<>>)
    /\ k' = [k EXCEPT !.APS_READY = @ + 1]

-----------------------------------------------------------------------------
Loader ==
    \/ Discover \/ LoadConfig \/ LoadKernel \/ LoadInit \/ LoadModule \/ ReadTables
    \/ AllocateInfo \/ AllocateTrampoline \/ BuildTables \/ GetMemoryMap
    \/ ExitBootServices \/ RequeryMap \/ RetryExit \/ UefiError
    \/ \E p \in machine.event_pages, t \in {"Conventional", "BootServices", "Runtime"} : FirmwareEvent(p, t)

BootCpu ==
    \/ Handoff \/ ValidateBootInfo \/ Phase2 \/ Phase5 \/ Phase6 \/ Phase7 \/ Phase8
    \/ CreateSpace \/ WriteInitInfo \/ CreateThread

Smp ==
    \/ BeginSmp \/ (\E refused \in BOOLEAN : StartAp(refused)) \/ WaitForAp \/ EnterScheduler
    \/ \E h \in machine.cpus : ApLoadRoot(h) \/ ApLoadParams(h) \/ ApInit(h) \/ ApReady(h)

Next ==
    \/ Loader /\ UNCHANGED <<k, ap>>
    \/ BootCpu
    \/ Smp

(* No CPU stops by itself. *)
Spec == Init /\ [][Next]_vars /\ WF_vars(Smp)

-----------------------------------------------------------------------------
InKernel == k.info # <<>>
SlotsOf(base, count) == {s \in base..(base + count - 1) : count > 0}

(* Memory the kernel gives out, in blocks <<address, size>>: free, in use  *)
(* by its threads and init, or in the frame capabilities of Phase 7.       *)
GivenOut ==
    UNION {{<<a, Size(o)>> : a \in ToSet(k.buddy.free_lists[o])} : o \in Orders}
    \cup {<<b[1], Size(b[2])>> : b \in k.buddy.held}
    \cup (IF k.layout = <<>> THEN {}
          ELSE {<<k.caps[s].base, k.caps[s].size>> :
                  s \in SlotsOf(k.layout.memory_frame_base, k.layout.memory_frame_count)})

(* Whatever the firmware does to its memory map while the loader leaves    *)
(* it, the kernel gives out no page that was not free, or the boot         *)
(* services', in the map with which ExitBootServices succeeded: not the    *)
(* firmware's run-time memory and nothing that BootInfo, the page tables   *)
(* or the loader's files are in.  And it gives out no page twice.          *)
OnlyFreeMemory ==
    InKernel =>
      /\ \A b \in GivenOut : \A p \in PagesOf(b[1], b[2]) : efi.map[p] \in {"Conventional", "BootServices"}
      /\ \A b, c \in GivenOut : b # c => PagesOf(b[1], b[2]) \cap PagesOf(c[1], c[2]) = {}

(* What init reads in its InitInfo is true of its CSpace.  Every           *)
(* descriptor, and the command line, is found through init's own mapping   *)
(* at its offset, unless it is above the bottom of init's stack, which is  *)
(* mapped over it; and the slots it names hold the capabilities it is      *)
(* about, those of a range one after the other.                            *)
InitInfoRight ==
    pc \in {"smp", "start", "wait", "scheduler"} =>
      LET i == k.init_info
          cmdline == INIT_INFO_SIZE + i.cap_descriptor_count * CAP_DESCRIPTOR_SIZE
          visible == (INIT_STACK_TOP - INIT_STACK_PAGES - INIT_INFO_VADDR) * PAGE_SIZE
          At(offset) == LET e == k.space[INIT_INFO_VADDR + offset \div PAGE_SIZE]
                        IN IF e.flags = {} THEN k.memory[e.frame][offset % PAGE_SIZE] ELSE <<>>
          Copied(from, n, token) ==
             \A j \in 0..(n - 1) : from + j < visible => At(from + j) = token \o <<j>>
          Is(slot, tag) == slot \in DOMAIN k.caps /\ k.caps[slot].tag = tag
          Bases(base, list, field) ==
             \A n \in DOMAIN list : Is(base + n - 1, "Frame") /\ k.caps[base + n - 1].base = list[n][field]
      IN /\ Copied(0, INIT_INFO_SIZE, <<"InitInfo">>)
         /\ \A d \in 1..i.cap_descriptor_count :
               LET desc == i.descriptors[d]
               IN /\ Copied(INIT_INFO_SIZE + (d - 1) * CAP_DESCRIPTOR_SIZE, CAP_DESCRIPTOR_SIZE, <<"descriptor", d>>)
                  /\ Is(desc.slot, IF desc.type = "PciEcam" THEN "MmioRegion" ELSE desc.type)
                  /\ k.caps[desc.slot].base = desc.aux0
         /\ Copied(cmdline, k.info.cmdline_len, <<"cmdline">>)
         /\ \A s \in SlotsOf(i.memory_frame_base, i.memory_frame_count) :
               Is(s, "Frame") /\ k.caps[s].rights = {"MAP", "WRITE", "EXECUTE"}
         /\ i.hw_cap_count = Len(k.resources)
         /\ \A n \in DOMAIN k.resources :
               k.caps[i.hw_cap_base + n - 1].base =
                 IF k.resources[n].type = "IrqLine" THEN k.resources[n].id ELSE k.resources[n].base
         /\ i.module_frame_count = Len(k.info.modules) /\ Bases(i.module_frame_base, k.info.modules, "base")
         /\ i.segment_frame_count = Len(k.info.init.segments)
         /\ Bases(i.segment_frame_base, k.info.init.segments, "phys")
         /\ Is(i.aspace_cap, "AddressSpace") /\ Is(i.thread_cap, "Thread") /\ Is(i.cspace_cap, "CSpace")
         /\ Is(i.sched_control_cap, "SchedControl")
         /\ IF machine.arch = "riscv64" THEN Is(i.sbi_control_cap, "SbiControl") ELSE i.sbi_control_cap = 0

(* No two capabilities to device memory of one kind overlap, whatever the  *)
(* firmware's tables list and in whatever order: the kernel compares       *)
(* neighbours only and relies on the order the loader leaves.              *)
DevicesDisjoint ==
    \A i, j \in DOMAIN k.resources :
      /\ i < j /\ k.resources[i].type = k.resources[j].type
      /\ k.resources[i].type \in {"MmioRange", "PciEcam"}
      => k.resources[i].base + k.resources[i].size <= k.resources[j].base

(* A CPU that runs kernel code runs under the number that its hardware id  *)
(* has in CPU_APIC_IDS, on the idle stack of that number and with its      *)
(* per-CPU data, and no other CPU does: no CPU reads the parameters of     *)
(* another.  When the boot CPU enters the scheduler, all it started are up. *)
ApsAreThemselves ==
    /\ \A h \in DOMAIN ap : ap[h].at \in {"entry", "init", "idle"} =>
          /\ ap[h].cpu_id \in 1..(k.info.cpu_count - 1)
          /\ k.apic_ids[ap[h].cpu_id + 1] = h
          /\ ap[h].stack = k.idle[ap[h].cpu_id + 1]
          /\ ap[h].at # "entry" => k.per_cpu[ap[h].cpu_id] = h
    /\ pc = "scheduler" => \A h \in DOMAIN ap : ap[h].at \in {"off", "idle"}

(* Every listed CPU is there, and the firmware starts it. *)
Answers ==
    ToSet(CpuTopology(machine.bsp).ids) \subseteq machine.cpus \cup {machine.bsp} /\ ~machine.sbi_fails

(* Where every listed CPU answers, the boot CPU waits for none of them in  *)
(* vain: with init ready to run, it enters the scheduler.                  *)
SchedulerEntered == Answers /\ pc = "smp" ~> pc = "scheduler"
=============================================================================
