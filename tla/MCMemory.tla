------------------------------ MODULE MCMemory ------------------------------
(* Instances of Memory for TLC: small memories with holes, unaligned ranges *)
(* and overlapping exclusions (PAGE_SIZE is 4); kernels with devices in,   *)
(* next to and far above memory; and two architectures.                    *)
EXTENDS Memory, TLC

Image(phys, pool) ==
    [phys |-> phys, virt |-> USER_HALF_TOP + (ENTRIES \div 2 - 1) * Span(LEVELS),
     text |-> PAGE_SIZE, rodata |-> 2 * PAGE_SIZE, pool |-> 2 * PAGE_SIZE,
     size |-> (2 + pool) * PAGE_SIZE]

Plain(arch, usable, excluded, phys, clients) ==
    LET k == Image(phys, BOOT_TABLE_POOL_SIZE)
    IN [arch |-> arch, usable |-> usable, loaded |-> <<<<phys, phys + k.size>>>>,
        excluded |-> <<<<phys, phys + k.size>>>> \o excluded,
        kernel |-> k, stack |-> k.virt + 2 * PAGE_SIZE, framebuffer |-> <<0, 0>>, mmio |-> <<>>,
        trampoline |-> 0, regions |-> <<>>, clients |-> clients]

SmallMaps == {
    [usable |-> <<<<0, 48>>>>, excluded |-> <<>>],
    [usable |-> <<<<6, 48>>>>, excluded |-> <<<<14, 18>>>>],
    [usable |-> <<<<0, 10>>, <<14, 48>>>>, excluded |-> <<<<22, 24>>, <<0, 2>>>>],
    [usable |-> <<<<0, 52>>>>, excluded |-> <<<<12, 22>>, <<18, 24>>>>],
    [usable |-> <<<<20, 52>>, <<0, 12>>>>, excluded |-> <<<<56, 60>>, <<8, 8>>>>],
    [usable |-> <<<<2, 6>>>>, excluded |-> <<>>]}

Blocks == {Plain("x86_64", m.usable, m.excluded, 64, {"stacks"}) : m \in SmallMaps}

Heap == {Plain("riscv64", <<<<0, 40>>>>, <<>>, 64, {"heap"})}

Mappings == {[Plain("x86_64", <<<<0, 64>>>>, <<>>, 64, {"mappings"}) EXCEPT
                !.stack = 118, !.regions = <<<<256, 4 * PAGE_SIZE>>>>],
             Plain("riscv64", <<<<0, 40>>>>, <<>>, 64, {"mappings"})}

Devices ==
    LET base(arch) == Plain(arch, <<<<16, 40>>, <<48, 64>>>>, <<<<16, 20>>>>, 64, {})
    IN UNION {{[base(arch) EXCEPT !.stack = 54, !.framebuffer = <<130, 10>>,
                                  !.mmio = <<<<200, 4>>, <<100, 8>>>>, !.trampoline = 16],
               [base(arch) EXCEPT !.framebuffer = <<118, 8>>, !.mmio = <<<<128, 6>>>>],
               [base(arch) EXCEPT !.framebuffer = <<140, 4>>, !.trampoline = 16,
                                  !.mmio = <<<<180, 4>>, <<220, 4>>, <<250, 4>>>>],
               [base(arch) EXCEPT !.usable = <<<<65, 68>>>>]} : arch \in {"x86_64", "riscv64"}}

AllMachines == Blocks \cup Heap \cup Mappings \cup Devices

Sizes == {<<2, 1>>, <<1, 4>>, <<5, 4>>}
Space == {Root}
Quota == [c \in Space |-> 7]
Twelve == <<1, 2, 4>>
SmallBox == <<1, 1>>
Symmetry == Permutations(Threads)
Protections == SUBSET {"WRITE", "EXECUTE"}
Addresses == {28, USER_HALF_TOP - PAGE_SIZE}
=============================================================================
