------------------------------ MODULE VirtioBlk ------------------------------
(***************************************************************************)
(* The virtio block driver (drivers/virtio/blk), its device, and the       *)
(* interrupt path between them: interrupt controller, the kernel's         *)
(* dispatch (kernel/src/irq.rs) and the SYS_IRQ_* calls.  The driver is    *)
(* one thread that serves one request at a time; device and interrupt      *)
(* controller run beside it.                                               *)
(***************************************************************************)
EXTENDS Virtqueue, Partitions, Calls

CONSTANTS
  Requests,              \* what clients ask: [from, token, msg]
  MAX_WAIT_ATTEMPTS,     \* rounds of submit_and_wait (1000 in the code)
  Triggers,              \* "edge": IOAPIC, LAPIC; "level", "strict": two PLICs
  MaxForeign,            \* interrupts of other devices on the same line
  MaxLost,               \* interrupts the PLIC has and no hart takes
  MaxFaults,             \* requests the device answers with an I/O error
  StartFaults            \* whether bringing the device up may fail

VARIABLES
  vq,    \* the virtqueue, shared by driver and device
  dma,   \* the data page: request header, sector buffer, status byte
  dev,   \* the device: its cursor, stage, chain, sector and ISR bit
  irq,   \* controller entry, IRQ_TABLE entry and signal bits of the line
  blk    \* the driver thread

blkVars == <<vq, dma, dev, irq, blk>>

Pending == 255   \* the status byte before the device has written it
Junk == "junk"   \* a buffer nobody has filled

BlkInit ==
  /\ vq = NewQueue
  /\ dma = [sector |-> 0, data |-> Junk, status |-> Pending]
  /\ dev = [status |-> {}, ready |-> FALSE, seen |-> 0, stage |-> "idle", head |-> 0, sector |-> 0,
            isr |-> FALSE, faults |-> MaxFaults]
  /\ irq \in [trigger : Triggers, registered : {FALSE}, masked : {TRUE},
              latched : {FALSE}, bits : {FALSE}, foreign : {MaxForeign},
              open : {TRUE}, lost : {FALSE}, losses : {MaxLost}]
  /\ blk = [pc |-> "start", attempts |-> 0, req |-> [from |-> "blk"],
            partitions |-> {}]

-----------------------------------------------------------------------------
(* The device (external).                                                  *)

DevTake ==
  /\ dev.ready /\ "DRIVER_OK" \in dev.status
  /\ dev.stage = "idle" /\ Offered(vq, dev.seen)
  /\ dev' = [dev EXCEPT !.stage = "busy", !.seen = (@ + 1) % IDX,
                        !.head = vq.avail[dev.seen % QUEUE_SIZE],
                        !.sector = dma.sector]
  /\ UNCHANGED <<vq, dma, irq, blk, callVars>>

DevWrite ==
  /\ dev.stage = "busy"
  /\ dev' = [dev EXCEPT !.stage = "written"]
  /\ dma' = [dma EXCEPT !.data = Disk[dev.sector], !.status = 0]
  /\ UNCHANGED <<vq, irq, blk, callVars>>

DevError ==
  /\ dev.stage = "busy" /\ dev.faults > 0
  /\ dev' = [dev EXCEPT !.stage = "written", !.faults = @ - 1]
  /\ dma' = [dma EXCEPT !.status = 1]
  /\ UNCHANGED <<vq, irq, blk, callVars>>

DevUsed ==
  /\ dev.stage = "written"
  /\ dev' = [dev EXCEPT !.stage = "used", !.head = 0, !.sector = 0]
  /\ vq' = Returned(vq, dev.head)
  /\ UNCHANGED <<dma, irq, blk, callVars>>

\* The line follows the ISR bit.  An edge on a masked entry is lost; the
\* PLIC's gateway latches the level whether or not the source is enabled, once
\* for each completion it has taken.
Latches == irq.trigger # "edge" /\ irq.open /\ ~irq.lost

DevInterrupt ==
  /\ dev.stage = "used"
  /\ dev' = [dev EXCEPT !.stage = "idle", !.isr = TRUE]
  /\ irq' = [irq EXCEPT !.latched =
                @ \/ Latches \/ (irq.trigger = "edge" /\ ~dev.isr /\ ~irq.masked)]
  /\ UNCHANGED <<vq, dma, blk, callVars>>

\* Another device raises the same line for a moment.
ForeignInterrupt ==
  /\ irq.foreign > 0 /\ ~irq.latched
  /\ Latches \/ (irq.trigger = "edge" /\ ~irq.masked)
  /\ irq' = [irq EXCEPT !.foreign = @ - 1, !.latched = TRUE]
  /\ UNCHANGED <<vq, dma, dev, blk, callVars>>

\* No hart takes an interrupt the PLIC has, and the PLIC does not look at the
\* line again before it has fallen (the comments of submit_and_wait and of
\* plic_enable describe the loss).
LoseInterrupt ==
  /\ irq.trigger # "edge" /\ irq.latched /\ irq.losses > 0
  /\ irq' = [irq EXCEPT !.losses = @ - 1, !.latched = FALSE, !.lost = dev.isr]
  /\ UNCHANGED <<vq, dma, dev, blk, callVars>>

-----------------------------------------------------------------------------
(* The kernel.                                                             *)

\* dispatch_device_irq, interrupts off: mask, signal, end of interrupt.  An
\* unregistered line is masked and dropped.  The completion of a source that is
\* masked is taken by one PLIC, which latches a level that is still high again;
\* the other, which follows the RISC-V specification, ignores it and hears no
\* more of the source.
dispatch_device_irq ==
  /\ irq.latched /\ (irq.trigger = "edge" \/ ~irq.masked)
  /\ irq' = [irq EXCEPT !.masked = TRUE,
                        !.bits = @ \/ irq.registered,
                        !.latched = irq.trigger = "level" /\ dev.isr,
                        !.open = irq.trigger # "strict"]
  /\ UNCHANGED <<vq, dma, dev, blk, callVars>>

\* sys_irq_register leaves the entry routed and masked; sys_irq_ack unmasks.
irq_register == irq' = [irq EXCEPT !.registered = TRUE, !.masked = TRUE]
irq_ack == irq' = [irq EXCEPT !.masked = FALSE]

-----------------------------------------------------------------------------
(* The driver: submit_and_wait, step by step.                              *)

\* The request header, data buffer and status byte of one request.
ChainLength == 3

prepare_read(sector) == dma' = [dma EXCEPT !.sector = sector, !.status = Pending]

\* prepare_read, add_chain, notify.
submit(req, sector) ==
  /\ prepare_read(sector)
  /\ IF CanAdd(vq, ChainLength)
       THEN /\ vq' = add_chain(vq, ChainLength)
            /\ blk' = [blk EXCEPT !.pc = "spin", !.req = req,
                                  !.attempts = MAX_WAIT_ATTEMPTS]
       ELSE /\ blk' = [blk EXCEPT !.pc = "failed", !.req = req]
            /\ UNCHANGED vq

\* The poll burst finds a completion ...
PollHit ==
  /\ blk.pc = "spin" /\ Completed(vq)
  /\ vq' = poll_used(vq)
  /\ blk' = [blk EXCEPT !.pc = "polled"]
  /\ UNCHANGED <<dma, dev, irq, callVars>>

\* ... or runs out.
BurstEnds ==
  /\ blk.pc = "spin" /\ ~Completed(vq)
  /\ blk' = [blk EXCEPT !.pc = "wait"]
  /\ UNCHANGED <<vq, dma, dev, irq, callVars>>

\* signal_wait returns once the signal has a bit, and takes it.
SignalWait ==
  /\ blk.pc = "wait" /\ irq.bits
  /\ irq' = [irq EXCEPT !.bits = FALSE]
  /\ blk' = [blk EXCEPT !.pc = "woken"]
  /\ UNCHANGED <<vq, dma, dev, callVars>>

\* Mutation: the ISR register is not read before the line is unmasked.
IsrNotRead ==
  /\ blk.pc \in {"polled", "woken"}
  /\ blk' = [blk EXCEPT !.pc = IF @ = "polled" THEN "ack_polled" ELSE "ack_woken"]
  /\ UNCHANGED <<vq, dma, dev, irq, callVars>>

\* Reading the ISR register clears it and lowers the line.
ReadIsr ==
  /\ blk.pc \in {"polled", "woken"}
  /\ dev' = [dev EXCEPT !.isr = FALSE]
  /\ irq' = [irq EXCEPT !.lost = FALSE]
  /\ blk' = [blk EXCEPT !.pc = IF @ = "polled" THEN "ack_polled" ELSE "ack_woken"]
  /\ UNCHANGED <<vq, dma, callVars>>

IrqAck ==
  /\ blk.pc \in {"ack_polled", "ack_woken"}
  /\ irq_ack
  /\ blk' = [blk EXCEPT !.pc = IF @ = "ack_polled" THEN "done" ELSE "recheck"]
  /\ UNCHANGED <<vq, dma, dev, callVars>>

\* The look after a wake-up; a miss uses up one round.
Recheck ==
  /\ blk.pc = "recheck"
  /\ IF Completed(vq)
       THEN vq' = poll_used(vq) /\ blk' = [blk EXCEPT !.pc = "done"]
       ELSE /\ blk' = [blk EXCEPT !.attempts = @ - 1,
                          !.pc = IF blk.attempts = 1 THEN "failed" ELSE "spin"]
            /\ UNCHANGED vq
  /\ UNCHANGED <<dma, dev, irq, callVars>>

-----------------------------------------------------------------------------
(* The driver: start-up and service loop.                                  *)

\* main reaches the next stage of start-up, or the thread exits.
StartUp(from, to) ==
  /\ blk.pc = from
  /\ blk' \in {[blk EXCEPT !.pc = pc] :
                pc \in {to} \cup (IF StartFaults THEN {"exited"} ELSE {})}
  /\ UNCHANGED <<dma, callVars>>

\* Two rounds of capabilities from the creator, then the BAR's layout.
bootstrap_caps == StartUp("start", "info") /\ UNCHANGED <<vq, dev, irq>>
query_device_info == StartUp("info", "init") /\ UNCHANGED <<vq, dev, irq>>

\* The device's status register, as PciTransport drives it.
set_status(d, bits) == [d EXCEPT !.status = bits]
reset(d) == [set_status(d, {}) EXCEPT !.ready = FALSE, !.seen = 0]
negotiate_features(d) == set_status(d, d.status \cup {"FEATURES_OK"})

init_device ==
  /\ StartUp("init", "queue")
  /\ dev' = negotiate_features(set_status(reset(dev), {"ACKNOWLEDGE", "DRIVER"}))
  /\ UNCHANGED <<vq, irq>>

\* Rings in fresh zeroed frames, announced to the device, then DRIVER_OK.
setup_virtqueue ==
  /\ StartUp("queue", "register")
  /\ vq' = NewQueue
  /\ dev' = [set_status(dev, dev.status \cup {"DRIVER_OK"}) EXCEPT !.ready = TRUE]
  /\ UNCHANGED irq

BlkRegister == StartUp("register", "arm") /\ irq_register /\ UNCHANGED <<vq, dev>>

\* The line is unmasked, the data page set up, and sector 0 read as a test.
BlkArm ==
  /\ blk.pc = "arm" /\ irq_ack
  /\ blk' = [blk EXCEPT !.pc = "buffer"]
  /\ UNCHANGED <<vq, dma, dev, callVars>>

setup_io_buffer == StartUp("buffer", "test") /\ UNCHANGED <<vq, dev, irq>>

BlkTest ==
  /\ blk.pc = "test"
  /\ submit([from |-> "blk"], 0)
  /\ UNCHANGED <<dev, irq, callVars>>

\* The bounds check, then submit_and_wait or an error reply at once.
handle_read_block ==
  /\ blk.pc = "serve" /\ Waiting("blk") /\ Oldest("blk").op = "READ_BLOCK"
  /\ inbox' = Taken("blk")
  /\ LET m == Oldest("blk")
     IN  IF InBounds(blk.partitions, m.token, m.sector)
           THEN /\ submit(m, resolve_sector(blk.partitions, m.token, m.sector))
                /\ UNCHANGED answer
           ELSE /\ answer' = Reply(m.from, [label |-> "OUT_OF_BOUNDS"])
                /\ UNCHANGED <<vq, dma, blk>>
  /\ UNCHANGED <<dev, irq>>

\* Only the holder of the untokened capability may add a partition.
handle_register_partition ==
  /\ blk.pc = "serve" /\ Waiting("blk")
  /\ Oldest("blk").op = "REGISTER_PARTITION"
  /\ inbox' = Taken("blk")
  /\ LET m == Oldest("blk")
     IN  IF Registrable(blk.partitions, m)
           THEN /\ blk' = [blk EXCEPT !.partitions = Registered(@, m)]
                /\ answer' = Reply(m.from, [label |-> "SUCCESS"])
           ELSE /\ answer' = Reply(m.from, [label |-> "REGISTER_REJECTED"])
                /\ UNCHANGED blk
  /\ UNCHANGED <<vq, dma, dev, irq>>

\* Mutation: the status byte is not looked at.
StatusIgnored == [label |-> "SUCCESS", data |-> dma.data]

\* What the driver says when submit_and_wait has returned: the sector, or
\* the status byte as an error code.  A request that gave up reads the byte
\* once more: a zero by then is taken for success, with no data.
Outcome ==
  CASE blk.pc = "done" /\ dma.status = 0 -> [label |-> "SUCCESS", data |-> dma.data]
    [] dma.status = 0 -> [label |-> "SUCCESS", data |-> Junk]
    [] OTHER -> [label |-> "DEVICE_STATUS"]

\* The end of the test read, or the reply to the client.
BlkFinish ==
  /\ blk.pc \in {"done", "failed"}
  /\ IF blk.req.from = "blk"
       THEN /\ blk' = [blk EXCEPT !.attempts = 0, !.pc =
                  IF blk.pc = "done" /\ dma.status = 0 THEN "serve" ELSE "exited"]
            /\ UNCHANGED answer
       ELSE /\ answer' = Reply(blk.req.from, Outcome)
            /\ blk' = [blk EXCEPT !.pc = "serve", !.req = [from |-> "blk"],
                                  !.attempts = 0]
  /\ UNCHANGED <<vq, dma, dev, irq, inbox>>

Device == DevTake \/ DevWrite \/ DevError \/ DevUsed \/ DevInterrupt
Driver ==
  \/ bootstrap_caps \/ query_device_info \/ init_device \/ setup_virtqueue
  \/ BlkRegister \/ BlkArm \/ setup_io_buffer \/ BlkTest \/ handle_read_block \/ handle_register_partition
  \/ PollHit \/ BurstEnds \/ SignalWait \/ ReadIsr \/ IrqAck \/ Recheck
  \/ BlkFinish

BlkNext == Device \/ ForeignInterrupt \/ LoseInterrupt \/ dispatch_device_irq \/ Driver

-----------------------------------------------------------------------------
(* The clients (vfsd with the whole disk, file systems with a partition).  *)

Clients == {r.from : r \in Requests}

\* A client is blocked from its call to the reply.
Blocked(c) ==
  /\ ~Answered(c)
  /\ blk.req.from = c \/ \E i \in DOMAIN inbox["blk"] : inbox["blk"][i].from = c

ClientCalls ==
  /\ \E r \in Requests :
       ~Blocked(r.from) /\ ipc_call(r.from, "blk", r.token, r.msg)
  /\ UNCHANGED blkVars

Init ==
  /\ BlkInit
  /\ inbox = [s \in {"blk"} |-> <<>>]
  /\ answer = [c \in Clients |-> NoAnswer]

Next == BlkNext \/ ClientCalls

Spec == Init /\ [][Next]_<<blkVars, callVars>>

-----------------------------------------------------------------------------
(* Properties.                                                             *)

\* The request being served is still the head of the abstract queue.
Abstract ==
  INSTANCE BlockDevice WITH
    partitions <- blk.partitions,
    inbox <- [inbox EXCEPT !["blk"] =
                IF blk.req.from = "blk" THEN @ ELSE <<blk.req>> \o @]

\* Requests are answered in arrival order, a successful read with the very
\* sector its caller may see and asked for, whatever the device, the
\* interrupts and the other client's requests do in between (io.rs and
\* main.rs of the block driver implement BlockDevice).
ImplementsBlockDevice == Abstract!DeviceSpec

\* The chains on their way: offered and not taken, in the device, returned
\* and not polled.
InFlight ==
  LET Between(from, to) == {(from + k) % IDX : k \in 0..(((to + IDX - from) % IDX) - 1)}
  IN  {vq.avail[i % QUEUE_SIZE] : i \in Between(dev.seen, vq.avail_idx)}
        \cup (IF dev.stage \in {"busy", "written"} THEN {dev.head} ELSE {})
        \cup {vq.used[i % QUEUE_SIZE] : i \in Between(vq.last_used_idx, vq.used_idx)}

\* Every descriptor is on the free list once or in exactly one chain on its
\* way to or from the device, and a chain is on its way exactly while the
\* driver waits for it (virtqueue.rs: alloc_desc, add_chain, free_chain).
DescriptorsAccounted ==
  LET chains == {Chain(vq, h) : h \in InFlight}
      held == UNION {{c[i] : i \in 1..Len(c)} : c \in chains}
  IN  /\ Cardinality(FreeSet(vq)) = vq.num_free
      /\ FreeSet(vq) \cap held = {}
      /\ vq.num_free + Cardinality(held) = QUEUE_SIZE
      /\ \A c \in chains : Len(c) = ChainLength
      /\ (InFlight # {}) <=> blk.pc \in {"spin", "wait", "woken", "ack_woken", "recheck"}

\* While the driver sleeps in signal_wait a wake-up is on its way: the device
\* still has its interrupt to raise, the controller has one to deliver, or
\* the signal holds a bit (io.rs: the ISR is read before the line is
\* unmasked, the used ring after).  Where the controller lost the interrupt the
\* driver may sleep for ever: the poll burst before the wait is over by then.
\* But one read of the ISR is enough to be over it: a loss that the burst hid
\* does not reach the request after it.  A controller that ignored a completion
\* is not got over.  And no request runs out of attempts as long as fewer
\* foreign interrupts than attempts arrive.
WakeUpComes ==
  \/ irq.bits
  \/ irq.latched /\ (irq.trigger = "edge" \/ ~irq.masked)
  \/ /\ ~Completed(vq) \/ dev.stage = "used"
     /\ ~irq.masked /\ (irq.trigger = "edge" => ~dev.isr)

CompletionWakes ==
  /\ blk.pc = "wait" => WakeUpComes \/ irq.lost \/ ~irq.open
  /\ blk.pc # "failed"

=============================================================================
