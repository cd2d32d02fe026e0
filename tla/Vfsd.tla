-------------------------------- MODULE Vfsd ---------------------------------
(***************************************************************************)
(* The virtual file system server (vfsd/src): start-up, the GPT, mounts    *)
(* (each with a file system process of its own) and the forwarding of      *)
(* OPEN.  A second thread, the worker, serves the bootstrap request of the *)
(* process being mounted: it shares the plan, and a signal announces that  *)
(* the plan was delivered.                                                 *)
(***************************************************************************)
EXTENDS Processes, SequencesExt

CONSTANTS
  MAX_MOUNTS, MAX_GPT_PARTS,
  WORKER_PAGES,     \* STACK_PAGES and the IPC buffer
  DriverEndpoints   \* the endpoints it creates, in order

VARIABLE vf

NoPlan == [token |-> 0, caps |-> <<>>]

VfsdInit ==
  vf = [pc |-> "start", pages |-> 0, worker |-> FALSE, procmgr |-> NoCap,
        registry |-> NoCap, log |-> NoCap, blk |-> NoCap,
        header |-> [num |-> 0], s |-> 0, gpt |-> <<>>,
        plan |-> NoPlan, done |-> {}, mounts |-> <<>>, next_part |-> 1,
        next_token |-> 1, child |-> NoCap, drv |-> "none", created |-> 0]

VfsdStep(pc) == vf' = [vf EXCEPT !.pc = pc] /\ UNCHANGED processVars
Quietly == UNCHANGED <<inbox, answer>>

\* idle_loop: yields for ever and serves nobody.
idle_loop == vf' = [vf EXCEPT !.pc = "idle"] /\ Quietly

\* bootstrap_caps: the endpoints in a first round, the module in a second.
VfsdBootstrap ==
  /\ Running("vfsd") /\ vf.pc \in {"start", "start2"}
  /\ request_round("vfsd")
  /\ VfsdStep(IF vf.pc = "start" THEN "round1" ELSE "round2")

VfsdExit ==
  /\ threads' = Ended("vfsd") /\ events' = Posted("vfsd", "exit")
  /\ vf' = [vf EXCEPT !.pc = "ended"]
  /\ Quietly /\ UNCHANGED faults

VfsdRound1 ==
  /\ vf.pc = "round1" /\ Answered("vfsd")
  /\ IF answer["vfsd"].label = "MORE" /\ Len(answer["vfsd"].caps) >= 4
       THEN /\ vf' = [vf EXCEPT !.pc = "start2", !.log = answer["vfsd"].caps[1],
                                !.registry = answer["vfsd"].caps[3],
                                !.procmgr = answer["vfsd"].caps[4]]
            /\ threads' = Keep("vfsd")
            /\ Quietly /\ UNCHANGED <<events, faults>>
       ELSE VfsdExit

\* The rest of main's beginning: the first line of log goes out.
VfsdRound2 ==
  /\ vf.pc = "round2" /\ Answered("vfsd")
  /\ IF answer["vfsd"].label = "DONE" /\ Len(answer["vfsd"].caps) >= 1
       THEN /\ CallCap("vfsd", vf.log, [op |-> "LOG"])
            /\ vf' = [vf EXCEPT !.pc = "logged"]
            /\ threads' = Keep("vfsd") /\ UNCHANGED <<events, faults>>
       ELSE VfsdExit

\* spawn_worker and request_page: a page per call, then kernel calls only.
AskPage ==
  /\ CallCap("vfsd", vf.procmgr, [op |-> "REQUEST_FRAMES", count |-> 1])
  /\ VfsdStep("page")

VfsdLogged == vf.pc = "logged" /\ Answered("vfsd") /\ AskPage

QueryBlockDevice ==
  /\ CallCap("vfsd", vf.registry, [op |-> "QUERY_BLOCK_DEVICE"])
  /\ vf' = [vf EXCEPT !.pc = "query", !.worker = TRUE, !.pages = WORKER_PAGES]
  /\ UNCHANGED <<threads, events>>

spawn_worker ==
  /\ vf.pc = "page" /\ Answered("vfsd")
  /\ \/ answer["vfsd"].label # "SUCCESS" /\ idle_loop /\ UNCHANGED processVars
     \/ /\ answer["vfsd"].label = "SUCCESS"
        /\ Fails /\ idle_loop /\ UNCHANGED <<threads, events>>
     \/ /\ answer["vfsd"].label = "SUCCESS"
        /\ IF vf.pages + 1 < WORKER_PAGES
             THEN /\ CallCap("vfsd", vf.procmgr, [op |-> "REQUEST_FRAMES", count |-> 1])
                  /\ vf' = [vf EXCEPT !.pages = @ + 1]
                  /\ UNCHANGED processVars
             ELSE QueryBlockDevice /\ Works

VfsdBlockDevice ==
  /\ vf.pc = "query" /\ Answered("vfsd")
  /\ IF answer["vfsd"].label = "SUCCESS"
       THEN /\ CallCap("vfsd", answer["vfsd"].cap, [op |-> "READ_BLOCK", sector |-> 1])
            /\ vf' = [vf EXCEPT !.pc = "header", !.blk = answer["vfsd"].cap]
            /\ UNCHANGED processVars
       ELSE idle_loop /\ UNCHANGED processVars

\* gpt.rs: a bad header, or a sector that cannot be read, ends the parse; what
\* was found so far stays, and the service loop starts all the same.
ReadHeader ==
  /\ vf.pc = "header" /\ Answered("vfsd")
  /\ IF answer["vfsd"].label = "SUCCESS" /\ answer["vfsd"].data.signature
          /\ answer["vfsd"].data.per_sector > 0 /\ answer["vfsd"].data.num > 0
       THEN /\ CallCap("vfsd", vf.blk,
                    [op |-> "READ_BLOCK", sector |-> answer["vfsd"].data.lba])
            /\ vf' = [vf EXCEPT !.pc = "entries", !.header = answer["vfsd"].data]
            /\ UNCHANGED processVars
       ELSE Quietly /\ VfsdStep("serve")

UsedEntry(e) == e.first # 0 /\ e.last >= e.first

EntriesOf(sector, s) ==
  LET left == vf.header.num - s * vf.header.per_sector
      used == SelectSeq(SubSeq(sector, 1, Min({left, Len(sector)})), UsedEntry)
  IN  SubSeq(used, 1, Min({MAX_GPT_PARTS - Len(vf.gpt), Len(used)}))

iter_entries ==
  /\ vf.pc = "entries" /\ Answered("vfsd")
  /\ IF answer["vfsd"].label # "SUCCESS" THEN Quietly /\ VfsdStep("serve")
     ELSE LET found == vf.gpt \o EntriesOf(answer["vfsd"].data, vf.s)
              more == /\ (vf.s + 1) * vf.header.per_sector < vf.header.num
                      /\ Len(found) < MAX_GPT_PARTS
          IN  /\ UNCHANGED processVars
              /\ IF more
                   THEN /\ CallCap("vfsd", vf.blk,
                                   [op |-> "READ_BLOCK", sector |-> vf.header.lba + vf.s + 1])
                        /\ vf' = [vf EXCEPT !.gpt = found, !.s = @ + 1]
                   ELSE Quietly /\ vf' = [vf EXCEPT !.gpt = found, !.pc = "serve"]

\* mount.rs: the longest registered path that begins the one asked for, byte
\* by byte; a table with a free row takes one more.
Mounted(path) == {k \in DOMAIN vf.mounts : IsPrefix(vf.mounts[k].path, path)}
resolve_mount(path) ==
  CHOOSE k \in Mounted(path) : \A j \in Mounted(path) :
    \/ Len(vf.mounts[j].path) < Len(vf.mounts[k].path)
    \/ Len(vf.mounts[j].path) = Len(vf.mounts[k].path) /\ k <= j
Beyond(path, k) == SubSeq(path, Len(vf.mounts[k].path) + 1, Len(path))

VfsdServes(op) == vf.pc = "serve" /\ Waiting("vfsd") /\ Oldest("vfsd").op = op

VfsdUnknown ==
  /\ vf.pc = "serve" /\ Waiting("vfsd") /\ Oldest("vfsd").op \notin {"OPEN", "MOUNT"}
  /\ Respond("vfsd", [label |-> "UNKNOWN_OPCODE"]) /\ UNCHANGED <<vf, processVars>>

VfsdReply(label) ==
  Respond("vfsd", [label |-> label]) /\ vf' = [vf EXCEPT !.pc = "serve"]

\* handle_open: forwarded to the driver of the mount, whose answer is passed
\* on as it is.
VfsdOpen ==
  /\ VfsdServes("OPEN") /\ UNCHANGED processVars
  /\ LET path == Oldest("vfsd").path
         k == resolve_mount(path)
     IN  CASE path = <<>> -> VfsdReply("NOT_FOUND")
           [] path # <<>> /\ Mounted(path) = {} -> VfsdReply("NO_MOUNT")
           [] OTHER ->
                /\ ipc_call("vfsd", vf.mounts[k].ep, 0,
                            [op |-> "FS_OPEN", path |-> Beyond(path, k)])
                /\ vf' = [vf EXCEPT !.pc = "open"]

VfsdOpened ==
  /\ vf.pc = "open" /\ Answered("vfsd")
  /\ Respond("vfsd", answer["vfsd"])
  /\ VfsdStep("serve")

\* handle_mount_request up to its first call: derive_and_register_partition.
Parts(uuid) == {k \in DOMAIN vf.gpt : vf.gpt[k].uuid = uuid}
lookup_partition_by_uuid(uuid) ==
  vf.gpt[CHOOSE k \in Parts(uuid) : \A j \in Parts(uuid) : k <= j]

\* Mutation: every driver gets the first partition.
FirstPartitionCap == [vf.blk EXCEPT !.token = 1]

PartitionCap == [vf.blk EXCEPT !.token = vf.next_part - 1]

handle_mount_request ==
  /\ VfsdServes("MOUNT") /\ UNCHANGED <<threads, events>>
  /\ LET m == Oldest("vfsd")
         part == lookup_partition_by_uuid(m.uuid)
     IN  \/ m.path = <<>> /\ VfsdReply("NOT_FOUND") /\ Works
         \/ m.path # <<>> /\ Parts(m.uuid) = {} /\ VfsdReply("NO_MOUNT") /\ Works
         \/ /\ m.path # <<>> /\ Parts(m.uuid) # {}
            /\ \/ /\ Works
                  /\ CallCap("vfsd", vf.blk,
                             [op |-> "REGISTER_PARTITION", new_token |-> vf.next_part,
                              base |-> part.first, length |-> part.last - part.first + 1])
                  /\ vf' = [vf EXCEPT !.pc = "registered", !.next_part = @ + 1]
               \/ /\ Fails
                  /\ Respond("vfsd", [label |-> "SPAWN_FAILED"])
                  /\ vf' = [vf EXCEPT !.next_part = @ + 1]

SpawnFailed == VfsdReply("SPAWN_FAILED")

\* spawn_fatfs_driver: the plan is published before the process is created,
\* without a capability on the log where none could be derived ...
publish_plan(token, caps) == [token |-> token, caps |-> caps]

spawn_fatfs_driver ==
  /\ vf.pc = "registered" /\ Answered("vfsd")
  /\ UNCHANGED <<threads, events>>
  /\ \/ answer["vfsd"].label # "SUCCESS" /\ SpawnFailed /\ Works
     \/ answer["vfsd"].label = "SUCCESS" /\ SpawnFailed /\ Fails
     \/ /\ answer["vfsd"].label = "SUCCESS"
        /\ \E log \in {vf.log, NoCap} :
             LET ep == DriverEndpoints[vf.created + 1]
                 service == [ep |-> ep, token |-> 0]
             IN  /\ IF log = NoCap THEN Fails ELSE Works
                 /\ CallCap("vfsd", vf.procmgr,
                            [op |-> "CREATE_PROCESS", module |-> "fatfs",
                             creator |-> [ep |-> "vfsd_boot", token |-> vf.next_token]])
                 /\ vf' = [vf EXCEPT
                      !.pc = "created", !.created = @ + 1, !.drv = ep,
                      !.next_token = @ + 1,
                      !.plan = publish_plan(vf.next_token, <<PartitionCap, log, service>>)]

\* ... the process is started, ...
VfsdCreated ==
  /\ vf.pc = "created" /\ Answered("vfsd") /\ UNCHANGED processVars
  /\ IF answer["vfsd"].label = "SUCCESS"
       THEN /\ CallCap("vfsd", answer["vfsd"].handle, [op |-> "START_PROCESS"])
            /\ vf' = [vf EXCEPT !.pc = "started"]
       ELSE SpawnFailed

VfsdStarted ==
  /\ vf.pc = "started" /\ Answered("vfsd") /\ UNCHANGED processVars
  /\ IF answer["vfsd"].label = "SUCCESS"
       THEN Quietly /\ vf' = [vf EXCEPT !.pc = "deliver"]
       ELSE SpawnFailed

\* ... vfsd sleeps until the worker has delivered the plan, and probes the
\* driver.
VfsdDelivered ==
  /\ vf.pc = "deliver" /\ vf.done # {} /\ UNCHANGED processVars
  /\ IF vf.done = {1}
       THEN /\ ipc_call("vfsd", vf.drv, 0, [op |-> "FS_MOUNT"])
            /\ vf' = [vf EXCEPT !.pc = "probed", !.done = {}]
       ELSE Respond("vfsd", [label |-> "SPAWN_FAILED"])
            /\ vf' = [vf EXCEPT !.pc = "serve", !.done = {}]

register_mount ==
  /\ vf.pc = "probed" /\ Answered("vfsd") /\ UNCHANGED processVars
  /\ IF answer["vfsd"].label # "SUCCESS" THEN SpawnFailed
     ELSE IF Len(vf.mounts) = MAX_MOUNTS THEN VfsdReply("TABLE_FULL")
     ELSE /\ Respond("vfsd", [label |-> "SUCCESS"])
          /\ vf' = [vf EXCEPT !.pc = "serve",
                              !.mounts = Append(@, [path |-> Oldest("vfsd").path,
                                                    ep |-> vf.drv])]

\* worker.rs: a plan is delivered once, to the child it was made for.  A reply
\* that the kernel refuses, one with an empty slot among them, is announced too.
Deliverable == Oldest("vfsd_boot").token # 0 /\ Oldest("vfsd_boot").token = vf.plan.token

WorkerDone(bit) == vf' = [vf EXCEPT !.plan.token = 0, !.done = @ \cup {bit}]

WorkerServe ==
  /\ vf.worker /\ Waiting("vfsd_boot") /\ UNCHANGED <<threads, events>>
  /\ \/ /\ ~Deliverable /\ UNCHANGED <<vf, faults>>
        /\ Respond("vfsd_boot", [label |-> "NO_CHILD"])
     \/ /\ Deliverable /\ NoCap \notin ToSet(vf.plan.caps) /\ Works
        /\ Respond("vfsd_boot", Round(vf.plan.caps, <<>>, TRUE)) /\ WorkerDone(1)
     \/ /\ Deliverable /\ Unanswered("vfsd_boot") /\ WorkerDone(2)
        /\ IF NoCap \in ToSet(vf.plan.caps) THEN Works ELSE Fails

VfsdNext ==
  \/ VfsdBootstrap \/ VfsdRound1 \/ VfsdRound2 \/ VfsdLogged \/ spawn_worker
  \/ VfsdBlockDevice \/ ReadHeader \/ iter_entries
  \/ VfsdUnknown \/ VfsdOpen \/ VfsdOpened
  \/ handle_mount_request \/ spawn_fatfs_driver \/ VfsdCreated \/ VfsdStarted
  \/ VfsdDelivered \/ register_mount
  \/ WorkerServe

=============================================================================
