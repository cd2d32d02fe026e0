------------------------------- MODULE Devmgr --------------------------------
(***************************************************************************)
(* The device manager (devmgr/src): it receives the hardware capabilities  *)
(* round by round, enumerates PCI, starts the driver of the first virtio   *)
(* block device with the capabilities of that device, and then answers     *)
(* queries.                                                                *)
(***************************************************************************)
EXTENDS Processes, SequencesExt

-----------------------------------------------------------------------------
(* PCI enumeration (devmgr/src/pci.rs) on the configuration space: which   *)
(* functions are found, their base address registers and virtio            *)
(* capabilities, and which part of which MMIO window and which interrupt a *)
(* driver is given.  Addresses are in pages.                               *)

CONSTANTS
  ConfigSpace,    \* <<bus, device, function>> -> registers, where there are any
  BUSES, SLOTS, FUNCTIONS,
  MAX_DEVICES, MAX_BARS, MAX_CAPS

\* pci_enumerate: the functions in bus order.  Functions above 0 are looked at
\* on multi-function devices only, and the search stops at MAX_DEVICES.
Present(bus, dev, func) ==
  /\ <<bus, dev, 0>> \in DOMAIN ConfigSpace
  /\ <<bus, dev, func>> \in DOMAIN ConfigSpace
  /\ func = 0 \/ ConfigSpace[<<bus, dev, 0>>].multi

Place(k) == <<k \div (SLOTS * FUNCTIONS), (k \div FUNCTIONS) % SLOTS, k % FUNCTIONS>>
Places == [k \in 1..(BUSES * SLOTS * FUNCTIONS) |-> Place(k - 1)]

\* probe_bars: a 64-bit register takes the place of two; one that reads zero
\* after all ones were written is absent.
BarStep(acc, reg) ==
  CASE acc.skip -> [acc EXCEPT !.skip = FALSE, !.idx = @ + 1]
    [] ~acc.skip /\ reg.kind = "none" -> [acc EXCEPT !.idx = @ + 1]
    [] OTHER ->
         [skip |-> reg.kind = "mem64", idx |-> acc.idx + 1,
          bars |-> IF Len(acc.bars) < MAX_BARS
                     THEN Append(acc.bars, [idx |-> acc.idx, mmio |-> reg.kind # "io",
                                            base |-> reg.base, size |-> reg.size])
                     ELSE acc.bars]

probe_bars(regs) ==
  FoldLeft(BarStep, [skip |-> FALSE, idx |-> 0, bars |-> <<>>], regs).bars

\* read_virtio_pci_caps: the list is followed for a bounded number of steps; of
\* two capabilities of a kind the later one counts.
CapStep(acc, k) ==
  IF acc.at = 0 THEN acc
  ELSE LET c == acc.list[acc.at]
       IN  [acc EXCEPT !.at = c.next,
                       !.common = IF c.id = "virtio" /\ c.type = "common" THEN c.bar ELSE @]

read_virtio_pci_caps(regs) ==
  FoldLeft(CapStep, [at |-> regs.cap_ptr, list |-> regs.caps, common |-> 0],
           [k \in 1..MAX_CAPS |-> k]).common

\* The vendor is the one of function 0, for the other functions too.
Function(place) ==
  LET regs == ConfigSpace[place]
      vendor == ConfigSpace[<<place[1], place[2], 0>>].vendor
  IN  [dev |-> place[2], vendor |-> vendor, device |-> regs.device,
       irq_line |-> regs.irq_line, irq_pin |-> regs.irq_pin,
       bars |-> IF regs.header = 0 THEN probe_bars(regs.bars) ELSE <<>>,
       common_bar |-> IF vendor = "virtio" THEN read_virtio_pci_caps(regs) ELSE 0]

Found(place) == Present(place[1], place[2], place[3])

pci_enumerate ==
  LET found == SelectSeq(Places, Found)
      kept == SubSeq(found, 1, IF Len(found) <= MAX_DEVICES THEN Len(found) ELSE MAX_DEVICES)
  IN  [k \in DOMAIN kept |-> Function(kept[k])]

is_virtio_blk(f) == f.vendor = "virtio" /\ f.device = "blk"

\* split_bar_cap: the part of a window that holds the register's range, and
\* what is left of the window above it.
Window(base, size) == [base |-> base, size |-> size]
Spans(win, bar) == bar.base >= win.base /\ bar.base + bar.size <= win.base + win.size

SplitCap(win, bar) ==
  IF bar.size < win.base + win.size - bar.base THEN Window(bar.base, bar.size)
  ELSE Window(bar.base, win.base + win.size - bar.base)

SplitRest(win, bar) ==
  IF bar.size < win.base + win.size - bar.base
    THEN Window(bar.base + bar.size, win.base + win.size - bar.base - bar.size)
    ELSE Window(win.base, 0)

\* find_virtio_bar_cap: the first memory register of the function's common
\* configuration, in the first window that contains it.
VirtioBars(f) == {k \in DOMAIN f.bars : f.bars[k].idx = f.common_bar /\ f.bars[k].mmio}
VirtioBar(f) == f.bars[CHOOSE k \in VirtioBars(f) : \A j \in VirtioBars(f) : k <= j]
Holding(windows, bar) ==
  {w \in DOMAIN windows : windows[w].size # 0 /\ Spans(windows[w], bar)}

find_virtio_bar_cap(f, windows) ==
  IF VirtioBars(f) = {} \/ Holding(windows, VirtioBar(f)) = {} THEN {}
  ELSE LET w == CHOOSE w \in Holding(windows, VirtioBar(f)) :
                  \A v \in Holding(windows, VirtioBar(f)) : w <= v
       IN  {[window |-> w, cap |-> SplitCap(windows[w], VirtioBar(f)),
             rest |-> SplitRest(windows[w], VirtioBar(f))]}

\* find_irq_cap: by the interrupt line, then by the swizzled pin.
PLIC_BASE == 32
Swizzled(f) == PLIC_BASE + ((f.irq_pin - 1 + f.dev) % 4)

find_irq_cap(f, irqs) ==
  IF f.irq_line # 0 /\ f.irq_line \in irqs THEN {f.irq_line}
  ELSE IF f.irq_pin \in 1..4 /\ Swizzled(f) \in irqs THEN {Swizzled(f)}
  ELSE {}

-----------------------------------------------------------------------------
(* The process.                                                            *)

VARIABLE dm

EndpointCap(ep) == [ep |-> ep, token |-> 0]
MmioCap(win) == [ep |-> "mmio", token |-> 0, base |-> win.base, size |-> win.size]
IrqCap(id) == [ep |-> "irq", token |-> id]
ModuleCap(name) == [ep |-> "module", token |-> 0, name |-> name]

DevmgrInit ==
  dm = [pc |-> "start", log |-> NoCap, procmgr |-> NoCap, windows |-> <<>>, irqs |-> {},
        modules |-> <<>>, bar |-> {}, irq |-> {}, infos |-> 0,
        spawned |-> FALSE, blk |-> FALSE, blank |-> FALSE]

DmStep(d, pc) == dm' = [d EXCEPT !.pc = pc]
DmQuiet == UNCHANGED <<inbox, answer>>

\* bootstrap_caps: endpoints, MMIO windows, then interrupts and modules until
\* the round marked last.
DevmgrRequest ==
  /\ Running("devmgr") /\ dm.pc \in {"start", "start2", "start3"}
  /\ request_round("devmgr")
  /\ DmStep(dm, CASE dm.pc = "start" -> "endpoints"
                  [] dm.pc = "start2" -> "mmio"
                  [] dm.pc = "start3" -> "rest")
  /\ UNCHANGED processVars

DevmgrExit ==
  /\ DmStep(dm, "ended") /\ DmQuiet
  /\ threads' = Ended("devmgr") /\ events' = Posted("devmgr", "exit")

bootstrap_round_endpoints ==
  /\ dm.pc = "endpoints" /\ Answered("devmgr") /\ UNCHANGED faults
  /\ IF GotRound("devmgr") /\ Len(answer["devmgr"].caps) >= 4
       THEN /\ DmStep([dm EXCEPT !.log = answer["devmgr"].caps[1],
                                 !.procmgr = answer["devmgr"].caps[3]], "start2")
            /\ threads' = Keep("devmgr") /\ DmQuiet /\ UNCHANGED events
       ELSE DevmgrExit

\* The last round is followed by the creation of an endpoint, the mapping of
\* the configuration space and the first line of log.
LastRound(d) ==
  \/ /\ CallCap("devmgr", d.log, [op |-> "LOG"]) /\ DmStep(d, "logged")
     /\ threads' = Keep("devmgr") /\ Works /\ UNCHANGED events
  \/ DevmgrExit /\ Fails

NextRound(d) ==
  IF answer["devmgr"].label = "DONE" THEN LastRound(d)
  ELSE DmStep(d, "start3") /\ threads' = Keep("devmgr") /\ DmQuiet /\ UNCHANGED <<events, faults>>

bootstrap_round_mmio_windows ==
  /\ dm.pc = "mmio" /\ Answered("devmgr")
  /\ IF GotRound("devmgr")
       THEN NextRound([dm EXCEPT !.windows =
              [k \in DOMAIN answer["devmgr"].caps |->
                 Window(answer["devmgr"].caps[k].base, answer["devmgr"].caps[k].size)]])
       ELSE DevmgrExit /\ UNCHANGED faults

bootstrap_rounds_irq_and_modules ==
  /\ dm.pc = "rest" /\ Answered("devmgr")
  /\ LET caps == answer["devmgr"].caps
     IN  IF ~GotRound("devmgr") THEN DevmgrExit /\ UNCHANGED faults
         ELSE NextRound(
           IF answer["devmgr"].data = <<"irq">>
             THEN [dm EXCEPT !.irqs = @ \cup {caps[k].token : k \in DOMAIN caps}]
             ELSE [dm EXCEPT !.modules = @ \o [k \in DOMAIN caps |-> caps[k].name]])

\* main after the log's answer: halt_loop when the configuration space cannot
\* be mapped, else the enumeration; its devices and spawn_virtio_blk's choice
\* need no call.
BlkFunctions == {k \in DOMAIN pci_enumerate : is_virtio_blk(pci_enumerate[k])}
BlkFunction == pci_enumerate[CHOOSE k \in BlkFunctions : \A j \in BlkFunctions : k <= j]

Catalogued(d) ==
  LET bar == find_virtio_bar_cap(BlkFunction, d.windows)
  IN  [d EXCEPT !.infos = 1, !.spawned = TRUE,
                !.bar = {b.cap : b \in bar}, !.irq = find_irq_cap(BlkFunction, d.irqs),
                !.windows = IF bar = {} THEN @
                            ELSE LET b == CHOOSE b \in bar : TRUE
                                 IN  [@ EXCEPT ![b.window] = b.rest]]

\* spawn_driver up to its first call: without the capabilities of the device it
\* gives up, and its caller is not told.
CreateDriver(d) ==
  IF d.bar = {} \/ d.irq = {} THEN DmQuiet /\ DmStep(d, "serve")
  ELSE /\ CallCap("devmgr", d.procmgr,
                  [op |-> "CREATE_PROCESS", module |-> d.modules[1],
                   creator |-> [ep |-> "devmgr_boot", token |-> 1]])
       /\ DmStep(d, "created")

\* What a kernel call that fails here leads to: no configuration space, no
\* endpoint for the block device (the driver is started all the same, but
\* without it), no window to split or no capability on the bootstrap endpoint.
SpawnFails(d) ==
  \/ DmQuiet /\ DmStep(dm, "halted")
  \/ CreateDriver([d EXCEPT !.blk = FALSE, !.blank = TRUE])
  \/ CreateDriver([d EXCEPT !.bar = {}])

spawn_virtio_blk ==
  /\ dm.pc = "logged" /\ Answered("devmgr") /\ UNCHANGED <<threads, events>>
  /\ LET d == [Catalogued(dm) EXCEPT !.blk = TRUE]
     IN  IF BlkFunctions = {} \/ dm.modules = <<>>
           THEN DmQuiet /\ DmStep([dm EXCEPT !.blk = TRUE], "serve") /\ Works
           ELSE \/ CreateDriver(d) /\ Works
                \/ SpawnFails(d) /\ Fails

\* The driver's capabilities are derived before it is started.  Two of them
\* are replaced by an empty slot when that fails.
DriverCreated ==
  /\ dm.pc = "created" /\ Answered("devmgr") /\ UNCHANGED <<threads, events>>
  /\ IF answer["devmgr"].label # "SUCCESS" THEN DmQuiet /\ DmStep(dm, "serve") /\ Works
     ELSE \/ /\ CallCap("devmgr", answer["devmgr"].handle, [op |-> "START_PROCESS"])
             /\ \/ DmStep(dm, "started") /\ Works
                \/ DmStep([dm EXCEPT !.blank = TRUE], "started") /\ Fails
          \/ DmQuiet /\ DmStep(dm, "serve") /\ Fails

DriverStarted ==
  /\ dm.pc = "started" /\ Answered("devmgr") /\ UNCHANGED processVars /\ DmQuiet
  /\ DmStep(dm, IF answer["devmgr"].label = "SUCCESS" THEN "round1" ELSE "serve")

\* The two rounds of the driver's bootstrap.
DriverRound(n) ==
  IF n = 1
    THEN Round(<<MmioCap(CHOOSE b \in dm.bar : TRUE), IrqCap(CHOOSE i \in dm.irq : TRUE),
                 EndpointCap("blk"), dm.log>>, <<>>, FALSE)
    ELSE Round(<<dm.procmgr, [ep |-> "registry", token |-> 1]>>, <<>>, TRUE)

ServeDriver ==
  /\ dm.pc \in {"round1", "round2"} /\ Waiting("devmgr_boot") /\ UNCHANGED processVars
  /\ IF dm.pc = "round1" /\ dm.blank
       THEN Unanswered("devmgr_boot") /\ DmStep(dm, "serve")
       ELSE /\ serve_round("devmgr_boot", 1, DriverRound(IF dm.pc = "round1" THEN 1 ELSE 2))
            /\ DmStep(dm, IF dm.pc = "round1" THEN "round2" ELSE "serve")

\* The registry loop.
DmServes(op) == dm.pc = "serve" /\ Waiting("registry") /\ Oldest("registry").op = op

DmUnknown ==
  /\ dm.pc = "serve" /\ Waiting("registry") /\ UNCHANGED <<dm, processVars>>
  /\ Oldest("registry").op \notin {"QUERY_BLOCK_DEVICE", "QUERY_DEVICE_INFO"}
  /\ Respond("registry", [label |-> "UNKNOWN_OPCODE"])

QueryBlock ==
  /\ DmServes("QUERY_BLOCK_DEVICE") /\ UNCHANGED <<dm, threads, events>>
  /\ \/ /\ dm.spawned /\ dm.blk /\ Works
        /\ Respond("registry", [label |-> "SUCCESS", cap |-> EndpointCap("blk")])
     \/ /\ dm.spawned /\ dm.blk /\ Fails
        /\ Respond("registry", [label |-> "INVALID_REQUEST"])
     \/ /\ ~(dm.spawned /\ dm.blk) /\ Works
        /\ Respond("registry", [label |-> "INVALID_REQUEST"])

QueryInfo ==
  /\ DmServes("QUERY_DEVICE_INFO") /\ UNCHANGED <<dm, processVars>>
  /\ Respond("registry", [label |-> IF Oldest("registry").token \in 1..dm.infos
                                      THEN "SUCCESS" ELSE "INVALID_REQUEST"])

DmNext ==
  \/ DevmgrRequest \/ bootstrap_round_endpoints \/ bootstrap_round_mmio_windows
  \/ bootstrap_rounds_irq_and_modules
  \/ spawn_virtio_blk \/ DriverCreated \/ DriverStarted \/ ServeDriver
  \/ DmUnknown \/ QueryBlock \/ QueryInfo

=============================================================================
