------------------------------ MODULE InitProc -------------------------------
(***************************************************************************)
(* init (init/src): the first process.  It loads the process manager       *)
(* itself, has it create the device manager and vfsd, serves their         *)
(* bootstrap, starts its log thread, mounts the root and what mounts.conf  *)
(* names, and has the service manager loaded from the file system before   *)
(* it registers the services, hands over and exits.  Its log calls after   *)
(* the log thread runs are left out: that thread answers everyone.         *)
(***************************************************************************)
EXTENDS Procmgr

CONSTANTS
  LOG_THREAD_STACK_PAGES,
  READ_WORDS,         \* words init asks for in its one FS_READ
  HwEcam, HwWindows, HwIrqs,   \* the hardware capabilities, by kind
  IRQ_BATCH,
  RootUuid            \* from the command line

VARIABLE ip

Cap(ep) == [ep |-> ep, token |-> 0]

\* FrameAlloc::alloc_page: pages of the current capability, then the next one.
\* A split that fails hands out the capability as it is: its last page.
FrameStep(a, k) ==
  IF a.current # <<>>
    THEN [a EXCEPT !.current = Tail(@), !.pages = Append(@, Head(a.current))]
  ELSE IF a.later # <<>>
    THEN [a EXCEPT !.current = Tail(Head(a.later)), !.later = Tail(@),
                   !.pages = Append(@, Head(Head(a.later)))]
  ELSE a

FrameAlloc(a, n) == FoldLeft(FrameStep, a, [k \in 1..n |-> k])

InitInit(memory) ==
  ip = [pc |-> "run", mem |-> [current |-> <<>>, later |-> memory, pages |-> <<>>],
        given |-> <<>>, image |-> <<>>, token |-> 0, next |-> 1, batch |-> 0,
        child |-> "none", handle |-> NoCap, file |-> NoCap, data |-> <<>>,
        conf |-> <<>>, boot_conf |-> <<>>, degraded |-> FALSE]

InQuiet == UNCHANGED <<inbox, answer>>
InStep(i, pc) == ip' = [i EXCEPT !.pc = pc]
InGoOn(pc) == InStep(ip, pc) /\ InQuiet /\ UNCHANGED processVars

InitExit ==
  /\ InStep(ip, "ended") /\ InQuiet
  /\ threads' = Ended("init") /\ events' = Posted("init", "exit")

\* bootstrap_procmgr: the image is loaded page by page, the frame capabilities
\* not yet touched become the process manager's, and the pages still needed
\* come from what is left of the current one.
init_load_elf_page(page, file) ==
  LET data == SubSeq(file, page.seg.offset + 1, page.seg.offset + page.seg.filesz)
      dest == Monus(page.seg.vaddr, page.vaddr)
      from == Monus(page.vaddr, page.seg.vaddr)
      len == Least(PAGE_WORDS - dest, Monus(Len(data), from))
  IN  [k \in 1..PAGE_WORDS |->
         IF k > dest /\ k <= dest + len THEN data[from + k - dest] ELSE Zero]

load_elf(file) ==
  [k \in 1..Len(AllPages(Segments(file))) |->
     init_load_elf_page(AllPages(Segments(file))[k], file)]

Loaded == FrameAlloc(ip.mem, 1 + Len(AllPages(Segments(Modules["procmgr"]))))
Equipped == FrameAlloc([Loaded EXCEPT !.later = <<>>], 1 + PROCESS_STACK_PAGES + 1)
EnoughFor(before, after, n) == Len(after.pages) = Len(before.pages) + n

bootstrap_procmgr ==
  /\ ip.pc = "run"
  /\ \/ /\ EnoughFor(Loaded, Equipped, 1 + PROCESS_STACK_PAGES + 1) /\ Works
        /\ ip' = [ip EXCEPT !.pc = "procmgr", !.mem = Equipped, !.given = Loaded.later,
                            !.image = load_elf(Modules["procmgr"]), !.token = 1, !.next = 2]
        /\ threads' = [threads EXCEPT !["procmgr"].state = "running",
                                      !["procmgr"].creator = [ep |-> "init_boot", token |-> 1]]
        /\ InQuiet /\ UNCHANGED events
     \/ ~EnoughFor(Loaded, Equipped, 1 + PROCESS_STACK_PAGES + 1) /\ Works /\ InitExit
     \/ Fails /\ InitExit

\* Rounds served by init.  Where a capability cannot be derived the round is
\* either not served at all, or refused by the kernel for its empty slot.
Serve(round, next, fail) ==
  /\ Waiting("init_boot")
  /\ serve_round("init_boot", ip.token, round)
  /\ InStep(ip, IF Expected("init_boot", ip.token) THEN next ELSE fail)

ServeEmpty(fail) ==
  Waiting("init_boot") /\ Unanswered("init_boot") /\ InStep(ip, fail)

serve_procmgr ==
  /\ ip.pc = "procmgr"
  /\ \/ /\ Serve(Round(<<Cap("procmgr")>>, ip.given, TRUE), "devmgr", "exit")
        /\ Works /\ UNCHANGED <<threads, events>>
     \/ Fails /\ InitExit

InitGivesUp == ip.pc = "exit" /\ InitExit /\ Works

\* derive_tokened_creator and CREATE_PROCESS or CREATE_FROM_VFS; START_PROCESS
\* on the handle received.
CreateChild(m, next, fail) ==
  /\ UNCHANGED <<threads, events>>
  /\ \/ /\ CallCap("init", Cap("procmgr"),
                   m @@ [creator |-> [ep |-> "init_boot", token |-> ip.next]])
        /\ InStep([ip EXCEPT !.token = ip.next, !.next = @ + 1], next) /\ Works
     \/ InStep([ip EXCEPT !.next = @ + 1], fail) /\ InQuiet /\ Fails

ChildCreated(next, fail) ==
  IF answer["init"].label = "SUCCESS"
    THEN InStep([ip EXCEPT !.handle = answer["init"].handle,
                           !.child = answer["init"].thread], next)
    ELSE InStep(ip, fail)

StartChild(next) ==
  CallCap("init", ip.handle, [op |-> "START_PROCESS"]) /\ InStep(ip, next)

Started(next, fail) ==
  InGoOn(IF answer["init"].label = "SUCCESS" THEN next ELSE fail)

\* create_devmgr_with_caps.
create_devmgr ==
  \/ ip.pc = "devmgr"
     /\ CreateChild([op |-> "CREATE_PROCESS", module |-> "devmgr"], "devmgr_created", "vfsd")
  \/ /\ ip.pc = "devmgr_created" /\ Answered("init") /\ ChildCreated("devmgr_start", "vfsd")
     /\ InQuiet /\ UNCHANGED processVars
  \/ /\ ip.pc = "devmgr_start" /\ UNCHANGED <<threads, events>>
     /\ \/ StartChild("devmgr_started") /\ Works
        \/ InStep(ip, "vfsd") /\ InQuiet /\ Fails
  \/ ip.pc = "devmgr_started" /\ Answered("init") /\ Started("devmgr_1", "vfsd")

DevmgrRound1 ==
  /\ ip.pc = "devmgr_1" /\ UNCHANGED processVars
  /\ Serve(Round(<<Cap("log"), Cap("registry"), Cap("procmgr"), HwEcam>>, <<"ecam">>, FALSE),
           "devmgr_2", "vfsd")

DevmgrRound2 ==
  /\ ip.pc = "devmgr_2" /\ UNCHANGED <<threads, events>>
  /\ \/ /\ Serve(Round(HwWindows, <<"mmio">>, HwIrqs = <<>> /\ "virtio_blk" \notin DOMAIN Modules),
                 IF HwIrqs = <<>> THEN "devmgr_4" ELSE "devmgr_3", "vfsd")
        /\ Works
     \/ HwWindows # <<>> /\ ServeEmpty("vfsd") /\ Fails

BatchEnd == Least(ip.batch + IRQ_BATCH, Len(HwIrqs))

DevmgrIrqs ==
  /\ ip.pc = "devmgr_3" /\ Waiting("init_boot") /\ UNCHANGED <<threads, events>>
  /\ LET last == BatchEnd = Len(HwIrqs)
         alone == last /\ "virtio_blk" \notin DOMAIN Modules
     IN  \/ /\ serve_round("init_boot", ip.token,
                  Round(SubSeq(HwIrqs, ip.batch + 1, BatchEnd), <<"irq">>, alone))
            /\ InStep([ip EXCEPT !.batch = BatchEnd],
                      IF ~Expected("init_boot", ip.token) \/ alone THEN "vfsd"
                      ELSE IF last THEN "devmgr_4" ELSE "devmgr_3")
            /\ Works
         \/ ServeEmpty("vfsd") /\ Fails

DevmgrModule ==
  /\ ip.pc = "devmgr_4" /\ UNCHANGED <<threads, events>>
  /\ \/ /\ Serve(Round(<<[ep |-> "module", token |-> 0, name |-> "virtio_blk"]>>,
                       <<"module">>, TRUE), "vfsd", "vfsd")
        /\ Works
     \/ InStep(ip, "vfsd") /\ InQuiet /\ Fails

\* create_vfsd_with_caps.
create_vfsd ==
  \/ ip.pc = "vfsd"
     /\ CreateChild([op |-> "CREATE_PROCESS", module |-> "vfsd"], "vfsd_created", "log")
  \/ /\ ip.pc = "vfsd_created" /\ Answered("init") /\ ChildCreated("vfsd_start", "log")
     /\ InQuiet /\ UNCHANGED processVars
  \/ /\ ip.pc = "vfsd_start" /\ UNCHANGED <<threads, events>>
     /\ \/ StartChild("vfsd_started") /\ Works
        \/ InStep(ip, "log") /\ InQuiet /\ Fails
  \/ ip.pc = "vfsd_started" /\ Answered("init") /\ Started("vfsd_1", "log")

VfsdServed1 ==
  /\ ip.pc = "vfsd_1" /\ UNCHANGED processVars
  /\ Serve(Round(<<Cap("log"), Cap("vfsd"), Cap("registry"), Cap("procmgr")>>, <<>>, FALSE),
           "vfsd_2", "log")

VfsdServed2 ==
  /\ ip.pc = "vfsd_2" /\ UNCHANGED <<threads, events>>
  /\ \/ /\ Serve(Round(<<[ep |-> "module", token |-> 0, name |-> "fatfs"]>>, <<>>, TRUE),
                 "log", "log")
        /\ Works
     \/ ServeEmpty("log") /\ Fails

\* spawn_log_thread: pages from the current capability and kernel calls; any
\* failure ends init.
LogPages == FrameAlloc(ip.mem, LOG_THREAD_STACK_PAGES + 1)

spawn_log_thread ==
  /\ ip.pc = "log"
  /\ \/ /\ EnoughFor(ip.mem, LogPages, LOG_THREAD_STACK_PAGES + 1) /\ Works
        /\ InStep([ip EXCEPT !.mem = LogPages], "root") /\ InQuiet /\ UNCHANGED events
        /\ threads' = [threads EXCEPT !["log"].state = "running"]
     \/ ~EnoughFor(ip.mem, LogPages, LOG_THREAD_STACK_PAGES + 1) /\ Works /\ InitExit
     \/ Fails /\ InitExit

\* send_mount of the root: a failure ends init.
send_mount(uuid, path, next) ==
  /\ CallCap("init", Cap("vfsd"), [op |-> "MOUNT", uuid |-> uuid, path |-> path])
  /\ ip' = [ip EXCEPT !.pc = next]

MountRoot ==
  /\ ip.pc = "root" /\ UNCHANGED processVars
  /\ send_mount(RootUuid, <<"/">>, "root_mounted")

RootMounted ==
  /\ ip.pc = "root_mounted" /\ Answered("init")
  /\ InGoOn(IF answer["init"].label = "SUCCESS" THEN "conf" ELSE "exit")

\* vfs_read_file: open, one read, close; after a failed open or read there is
\* no close.  `at` names the places of one such read, `after` where it leads.
vfs_read_file(at, path, after) ==
  /\ UNCHANGED processVars
  /\ \/ /\ ip.pc = at.start
        /\ CallCap("init", Cap("vfsd"), [op |-> "OPEN", path |-> path])
        /\ InStep([ip EXCEPT !.data = <<>>], at.open)
     \/ /\ ip.pc = at.open /\ Answered("init")
        /\ IF answer["init"].label = "SUCCESS"
             THEN /\ CallCap("init", answer["init"].cap,
                             [op |-> "FS_READ", offset |-> 0, max_len |-> READ_WORDS])
                  /\ InStep([ip EXCEPT !.file = answer["init"].cap], at.read)
             ELSE InStep(ip, after) /\ InQuiet
     \/ /\ ip.pc = at.read /\ Answered("init")
        /\ IF answer["init"].label = "SUCCESS"
             THEN /\ CallCap("init", ip.file, [op |-> "FS_CLOSE"])
                  /\ InStep([ip EXCEPT !.data = answer["init"].data], at.close)
             ELSE InStep(ip, after) /\ InQuiet
     \/ /\ ip.pc = at.close /\ Answered("init")
        /\ InStep(ip, after) /\ InQuiet

MountsConf == <<"/", "config", "/", "mounts.conf">>
ReadMountsConf ==
  vfs_read_file([start |-> "conf", open |-> "conf_open", read |-> "conf_read",
                 close |-> "conf_close"], MountsConf, "mounts")

\* process_mounts_conf: a mount per line that names one, whatever comes of it.
MountLine(line) == "uuid" \in DOMAIN line

process_mounts_conf ==
  /\ UNCHANGED processVars
  /\ \/ /\ ip.pc = "mounts" /\ InQuiet
        /\ InStep([ip EXCEPT !.conf = ip.data, !.data = SelectSeq(ip.data, MountLine)], "lines")
     \/ /\ ip.pc = "lines" /\ ip.data # <<>>
        /\ send_mount(Head(ip.data).uuid, Head(ip.data).path, "mounted")
     \/ /\ ip.pc = "mounted" /\ Answered("init") /\ InQuiet
        /\ InStep([ip EXCEPT !.data = Tail(@)], "lines")
     \/ ip.pc = "lines" /\ ip.data = <<>> /\ InStep(ip, "boot") /\ InQuiet

BootConf == <<"/", "esp", "/", "EFI", "/", "seraph", "/", "boot.conf">>
ReadBootConf ==
  vfs_read_file([start |-> "boot", open |-> "boot_open", read |-> "boot_read",
                 close |-> "boot_close"], BootConf, "phase3")

\* phase3_svcmgr_handover: vfsd's endpoint goes to the process manager, the
\* service manager comes from the file system.
send_vfsd_endpoint_to_procmgr ==
  /\ ip.pc = "phase3" /\ UNCHANGED <<threads, events>>
  /\ LET i == [ip EXCEPT !.boot_conf = ip.data, !.data = <<>>]
     IN  \/ /\ CallCap("init", Cap("procmgr"), [op |-> "SET_VFSD_EP", cap |-> Cap("vfsd")])
            /\ InStep(i, "vfsd_sent") /\ Works
         \/ InStep(i, "svcmgr") /\ InQuiet /\ Fails

SvcmgrPath == <<"/", "bin", "/", "svcmgr">>

create_svcmgr_from_vfs ==
  \/ ip.pc = "vfsd_sent" /\ Answered("init") /\ InGoOn("svcmgr")
  \/ /\ ip.pc = "svcmgr"
     /\ CreateChild([op |-> "CREATE_FROM_VFS", path |-> SvcmgrPath],
                    "svcmgr_created", "idle")
  \/ /\ ip.pc = "svcmgr_created" /\ Answered("init") /\ ChildCreated("svcmgr_start", "idle")
     /\ InQuiet /\ UNCHANGED processVars

\* setup_and_start_svcmgr: started first, its capabilities derived after.
setup_and_start_svcmgr ==
  \/ ip.pc = "svcmgr_start" /\ StartChild("svcmgr_started") /\ UNCHANGED processVars
  \/ /\ ip.pc = "svcmgr_started" /\ Answered("init") /\ UNCHANGED <<threads, events>> /\ InQuiet
     /\ IF answer["init"].label = "SUCCESS"
          THEN \/ InStep(ip, "svcmgr_1") /\ Works
               \/ InStep(ip, "crasher") /\ Fails
          ELSE InStep(ip, "crasher") /\ Works
  \/ /\ ip.pc = "svcmgr_1" /\ UNCHANGED processVars
     /\ Serve(Round(<<Cap("log"), Cap("svcmgr"), Cap("procmgr"), Cap("svcmgr_boot")>>, <<>>, TRUE),
              "crasher", "crasher")

\* create_crasher_suspended, register_service, start_and_bootstrap_crasher: the
\* service is registered before it runs.
create_crasher_suspended ==
  \/ ip.pc = "crasher"
     /\ CreateChild([op |-> "CREATE_PROCESS", module |-> "crasher"], "crasher_created", "smoke")
  \/ /\ ip.pc = "crasher_created" /\ Answered("init") /\ ChildCreated("register", "smoke")
     /\ InQuiet /\ UNCHANGED processVars

\* A capability that cannot be derived is left out, and those after it move up.
register_service ==
  /\ ip.pc = "register" /\ UNCHANGED <<threads, events>>
  /\ \E caps \in {<<Cap("log"), Cap("svcmgr")>>, <<Cap("log")>>, <<Cap("svcmgr")>>} :
       /\ CallCap("init", Cap("svcmgr"),
                  [op |-> "REGISTER_SERVICE", name |-> "crasher", thread |-> ip.child,
                   module |-> "crasher", caps |-> caps, policy |-> "always",
                   criticality |-> "normal"])
       /\ IF Len(caps) = 2 THEN InStep(ip, "registered") /\ Works
          ELSE InStep([ip EXCEPT !.degraded = TRUE], "registered") /\ Fails

start_and_bootstrap_crasher ==
  \/ ip.pc = "registered" /\ Answered("init") /\ UNCHANGED processVars
     /\ StartChild("crasher_started")
  \/ ip.pc = "crasher_started" /\ Answered("init") /\ Started("crasher_1", "smoke")
  \/ /\ ip.pc = "crasher_1" /\ UNCHANGED <<threads, events>>
     /\ \/ Serve(Round(<<Cap("log"), Cap("svcmgr")>>, <<>>, TRUE), "smoke", "smoke") /\ Works
        \/ ServeEmpty("smoke") /\ Fails

create_and_run_allocsmoke ==
  \/ ip.pc = "smoke"
     /\ CreateChild([op |-> "CREATE_PROCESS", module |-> "allocsmoke"], "smoke_created", "handover")
  \/ /\ ip.pc = "smoke_created" /\ Answered("init") /\ ChildCreated("smoke_start", "handover")
     /\ InQuiet /\ UNCHANGED processVars
  \/ ip.pc = "smoke_start" /\ StartChild("smoke_started") /\ UNCHANGED processVars
  \/ ip.pc = "smoke_started" /\ Answered("init") /\ Started("smoke_1", "handover")
  \/ /\ ip.pc = "smoke_1" /\ UNCHANGED <<threads, events>>
     /\ \/ Serve(Round(<<Cap("log"), Cap("procmgr")>>, <<>>, TRUE), "handover", "handover") /\ Works
        \/ ServeEmpty("handover") /\ Fails

Handover ==
  \/ /\ ip.pc = "handover" /\ UNCHANGED processVars
     /\ CallCap("init", Cap("svcmgr"), [op |-> "HANDOVER_COMPLETE"])
     /\ InStep(ip, "handed_over")
  \/ ip.pc = "handed_over" /\ Answered("init") /\ InitExit /\ Works

InNext ==
  \/ bootstrap_procmgr \/ serve_procmgr \/ InitGivesUp
  \/ create_devmgr \/ DevmgrRound1 \/ DevmgrRound2 \/ DevmgrIrqs \/ DevmgrModule
  \/ create_vfsd \/ VfsdServed1 \/ VfsdServed2
  \/ spawn_log_thread \/ MountRoot \/ RootMounted
  \/ ReadMountsConf \/ process_mounts_conf \/ ReadBootConf
  \/ send_vfsd_endpoint_to_procmgr \/ create_svcmgr_from_vfs \/ setup_and_start_svcmgr
  \/ create_crasher_suspended \/ register_service \/ start_and_bootstrap_crasher
  \/ create_and_run_allocsmoke \/ Handover

=============================================================================
