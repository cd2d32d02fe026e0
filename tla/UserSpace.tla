----------------------------- MODULE UserSpace -------------------------------
(***************************************************************************)
(* The user-space system: init and its log thread, the process manager,    *)
(* the device manager, the block driver, vfsd, a FAT driver per mount, the *)
(* service manager and the programs it restarts, all talking by synchronous*)
(* calls.  Every step is a step of one of them.                            *)
(***************************************************************************)
EXTENDS FatFs, Vfsd, Procmgr, Devmgr, Svcmgr, Programs, InitProc

CONSTANTS
  Machines,    \* [memory: init's frame capabilities, faults: failures that may
               \*  come, script: what the application does]
  AMPLE,       \* pages with which everything can be started
  Files        \* path -> what its file contains

vars == <<inbox, answer, partitions, threads, events, faults,
          fs, vf, pm, dm, sv, pr, ip>>

Init ==
  /\ inbox = [e \in Endpoints |-> <<>>]
  /\ answer = [t \in Threads |-> NoAnswer]
  /\ partitions = {}
  /\ ProcessesInit
  /\ \E machine \in Machines :
       /\ faults = [left |-> machine.faults, used |-> 0]
       /\ InitInit(machine.memory) /\ ProgramsInit(machine.script)
  /\ FatFsInit /\ VfsdInit /\ ProcmgrInit /\ DevmgrInit /\ SvcmgrInit

Next ==
  \/ InNext /\ UNCHANGED <<partitions, fs, vf, pm, dm, sv, pr>>
  \/ PmNext /\ UNCHANGED <<partitions, fs, vf, dm, sv, pr, ip>>
  \/ DmNext /\ UNCHANGED <<partitions, fs, vf, pm, sv, pr, ip>>
  \/ VfsdNext /\ UNCHANGED <<partitions, fs, pm, dm, sv, pr, ip>>
  \/ (\E i \in Volumes : FatNext(i)) /\ UNCHANGED <<partitions, vf, pm, dm, sv, pr, ip>>
  \/ SvNext /\ UNCHANGED <<partitions, fs, vf, pm, dm, pr, ip>>
  \/ PrNext /\ UNCHANGED <<partitions, fs, vf, pm, dm, sv, ip>>
  \/ BlkServes /\ UNCHANGED <<fs, vf, pm, dm, sv, ip>>

Spec == Init /\ [][Next]_vars

-----------------------------------------------------------------------------
\* Nobody can go on: each thread has ended, given up, waits for a message that
\* is not there, or for an answer.  Every behaviour gets here, each step being
\* one further in some program.
Idle(pc, serving, asking, t, e) ==
  \/ pc \in {"ended", "idle", "halted"}
  \/ pc \in serving /\ ~Waiting(e)
  \/ pc \in asking /\ ~Answered(t)

Quiet ==
  /\ Idle(ip.pc,
          {"procmgr", "devmgr_1", "devmgr_2", "devmgr_3", "devmgr_4", "vfsd_1", "vfsd_2",
           "svcmgr_1", "crasher_1", "smoke_1"},
          {"devmgr_created", "devmgr_started", "vfsd_created", "vfsd_started", "root_mounted",
           "conf_open", "conf_read", "conf_close", "mounted", "boot_open", "boot_read",
           "boot_close", "vfsd_sent", "svcmgr_created", "svcmgr_started", "crasher_created",
           "registered", "crasher_started", "smoke_created", "smoke_started", "handed_over"},
          "init", "init_boot")
  /\ Running("procmgr") =>
       Idle(pm.pc, {"serve"}, {"boot", "open", "stat", "hdr", "chunk", "close"},
            "procmgr", "procmgr")
  /\ Running("devmgr") =>
       \/ Idle(dm.pc, {"serve"}, {"endpoints", "mmio", "rest", "logged", "created", "started"},
               "devmgr", "registry")
       \/ dm.pc \in {"round1", "round2"} /\ ~Waiting("devmgr_boot")
  /\ Running("vfsd") =>
       /\ \/ Idle(vf.pc, {"serve"},
                  {"round1", "round2", "logged", "page", "query", "header", "entries", "open",
                   "registered", "created", "started", "probed"}, "vfsd", "vfsd")
          \/ vf.pc = "deliver" /\ vf.done = {}
       /\ ~(vf.worker /\ Waiting("vfsd_boot"))
  /\ \A i \in Volumes : Running(i) =>
       Idle(fs[i].pc, {"serve"}, {"boot", "bpb", "dir", "fat", "data", "list"}, i, fs[i].ep)
  /\ Running("svcmgr") =>
       \/ Idle(sv.pc, {}, {"boot", "created", "started"}, "svcmgr", "svcmgr")
       \/ sv.pc = "serve" /\ ~Waiting("svcmgr_boot")
       \/ sv.pc = "wait" /\ (0 \in sv.silent \/ ~Waiting("svcmgr")) /\ Deaths = {}
  /\ \A t \in Programmes \ {"app"} : Running(t) =>
       Idle(pr[t].pc, {"serve"},
            {"round1", "round2", "info", "ring", "data", "round", "probed", "heap"}, t, "blk")
  /\ Running("log") => ~Waiting("log")
  /\ At("app", "called") => ~Answered("app")
  /\ At("app", "start") =>
       \/ pr["app"].script = <<>> \/ threads["init"].state # "ended"
       \/ ~Running("log") \/ ~Running("svcmgr")

\* Where no kernel call and no read of the disk fails and there is memory for
\* everything, the machine comes up: init hands over and exits, whoever called
\* is answered, every restart is completed.  Some twenty conversations between
\* a dozen threads, with requests queued behind each other, have to come out in
\* a workable order for this (init/src/main.rs, run).  What may be missing is
\* what waits for the service manager while its wait set is silent: the callers
\* queued at its endpoint, whoever waits for them, and the restart of a service
\* whose death was not announced.
Gone(t) == threads[t].state = "ended"

Stranded == {m.from : m \in ToSet(inbox["svcmgr"])}

Up ==
  /\ (sv.handover /\ Gone("init")) \/ "init" \in Stranded
  /\ pr["app"].script # <<>> => Gone("app") \/ {"init", "app"} \cap Stranded # {}
  /\ sv.pc # "halted" =>
       /\ Stranded # {} => 0 \in sv.silent
       /\ \A e \in Endpoints \ {"svcmgr"} : inbox[e] = <<>>
       /\ \A t \in Smokes \cup Crashers :
            Gone(t) \/ t \in Stranded \/ (sv.silent # {} /\ ~Running(t))

Ample == Len(ip.mem.pages) + Len(FlattenSeq(ip.given)) >= AMPLE

BootCompletes == Quiet /\ faults.used = 0 /\ Ample => Up

\* A process that has been given capabilities has been given the ones meant for
\* it, in the order it takes them, whoever else is asking its creator at the
\* time (shared/ipc/src/bootstrap.rs, serve_round; vfsd/src/worker.rs): the
\* driver the registers of its device, a restarted service what it was
\* registered with.
DevmgrRounds ==
  <<<<Cap("log"), Cap("registry"), Cap("procmgr"), HwEcam>>, HwWindows>>
  \o [k \in 1..((Len(HwIrqs) + IRQ_BATCH - 1) \div IRQ_BATCH) |->
        SubSeq(HwIrqs, (k - 1) * IRQ_BATCH + 1, Least(k * IRQ_BATCH, Len(HwIrqs)))]
  \o <<<<ModuleCap("virtio_blk")>>>>

BlkBar == VirtioBar(BlkFunction)

Meant(t) ==
  CASE t = "procmgr" -> <<<<Cap("procmgr")>>>>
    [] t = "devmgr" -> DevmgrRounds
    [] t = "blk" ->
         <<<<MmioCap(Window(BlkBar.base, BlkBar.size)), IrqCap(Swizzled(BlkFunction)),
             Cap("blk"), Cap("log")>>,
           <<Cap("procmgr"), [ep |-> "registry", token |-> 1]>>>>
    [] t = "vfsd" -> <<<<Cap("log"), Cap("vfsd"), Cap("registry"), Cap("procmgr")>>,
                       <<ModuleCap("fatfs")>>>>
    [] t = "svcmgr" ->
         <<<<Cap("log"), Cap("svcmgr"), Cap("procmgr"), Cap("svcmgr_boot")>>>>
    [] t \in Crashers -> <<<<Cap("log"), Cap("svcmgr")>>>>
    [] t \in Smokes -> <<<<Cap("log"), Cap("procmgr")>>>>
    [] OTHER -> <<>>

RightCapabilities ==
  \A t \in Threads \ Volumes :
    IsPrefix(threads[t].boot, Meant(t)) \/ (t \in Crashers /\ ip.degraded)

\* What a mount point leads to is the partition it was asked for: the driver of
\* that mount reads, through its own capability, the partition with the UUID
\* of the command line or of the line of mounts.conf (vfsd/src/main.rs,
\* handle_mount_request; gpt.rs; driver.rs).
MountLines == SelectSeq(Files[MountsConf], MountLine)

UuidOf ==
  [path \in {<<"/">>} \cup {MountLines[k].path : k \in DOMAIN MountLines} |->
     IF path = <<"/">> THEN RootUuid
     ELSE (CHOOSE l \in ToSet(MountLines) : l.path = path).uuid]

PartitionStart ==
  LET entries == ToSet(Disk[Disk[1].lba] \o Disk[Disk[1].lba + 1])
  IN  [uuid \in {e.uuid : e \in entries} |->
         (CHOOSE e \in entries : e.uuid = uuid).first]

MountsRight ==
  \A m \in ToSet(vf.mounts) :
    \E i \in Volumes :
      /\ fs[i].ep = m.ep /\ \A j \in Volumes \ {i} : fs[j].ep # m.ep
      /\ \E p \in partitions :
           p.token = fs[i].blk.token /\ p.base = PartitionStart[UuidOf[m.path]]

\* What init reads from the disk is what the files contain, and the image of
\* every process is what its file says, whatever the sectors, clusters, chunks
\* and pages it came in (fs/fat/src, procmgr/src/process.rs).  Only where the
\* disk failed may words of an image be missing: the loader does not notice.
Programme ==
  [t \in UNION {ToSet(Instances[p]) : p \in DOMAIN Instances} |->
     CHOOSE p \in DOMAIN Instances : t \in ToSet(Instances[p])]

RightImage ==
  [p \in DOMAIN Instances \cup {"procmgr"} |->
     ImageOf(IF p \in DOMAIN Modules THEN Modules[p] ELSE Files[SvcmgrPath])]

Holds(image, right) ==
  \/ image = right
  \/ /\ faults.used > 0 /\ Len(image) = Len(right)
     /\ \A k \in DOMAIN image : \A w \in 1..PAGE_WORDS : image[k][w] \in {right[k][w], Zero}

ReadRight ==
  /\ ip.conf \in {<<>>, Files[MountsConf]}
  /\ ip.boot_conf \in {<<>>, Files[BootConf]}
  /\ ip.image \in {<<>>, RightImage["procmgr"]}
  /\ \A t \in DOMAIN pm.images : Holds(pm.images[t], RightImage[Programme[t]])

\* The service manager does not miss a death: as long as it counts a service
\* among the active ones, the thread it knows it by has not ended, or the event
\* is on a queue of its wait set, or it is in the middle of the restart
\* (svcmgr/src/restart.rs starts and serves the child before it binds the
\* queue).
DeathNoticed ==
  ~ip.degraded =>
    \A k \in DOMAIN sv.services :
      LET svc == sv.services[k]
      IN  svc.active /\ Gone(svc.thread) =>
            \/ k \in sv.waited /\ events[svc.queue] # <<>>
            \/ sv.idx = k /\ sv.pc \in {"created", "started", "serve", "rebind"}
            \/ sv.pc = "halted"

\* A frame has one owner: nothing init has taken for itself is in the process
\* manager's pool, and nothing the pool has handed out is still in it
\* (init/src/main.rs, FrameAlloc; procmgr/src/frames.rs).
PagesIn(caps) == UNION {ToSet(caps[k]) : k \in DOMAIN caps}

FramesOwnedOnce ==
  LET pool == pm.pool
      waiting == ToSet(pool.current) \cup PagesIn(pool.later)
  IN  /\ ToSet(ip.mem.pages) \cap PagesIn(ip.given) = {}
      /\ ToSet(pool.free) \cap (waiting \cup pm.given) = {}
      /\ waiting \cap pm.given = {}
      /\ Cardinality(ToSet(pool.free)) = Len(pool.free)

=============================================================================
