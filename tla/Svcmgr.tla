------------------------------- MODULE Svcmgr --------------------------------
(***************************************************************************)
(* The service manager (svcmgr/src) with its name registry                 *)
(* (shared/registry): services are registered with a thread, a module to   *)
(* restart them from and a policy; the death of a thread arrives on the    *)
(* event queue bound to it, through a wait set that also holds the service *)
(* endpoint.  A restart is a conversation with the process manager and     *)
(* with the new child, after which its death is bound to a new queue.      *)
(***************************************************************************)
EXTENDS Processes, SequencesExt

CONSTANTS MAX_SERVICES, MAX_RESTARTS, REGISTRY_CAPACITY,
          Names   \* the names short enough for the registry

VARIABLE sv

NoService ==
  [thread |-> "none", module |-> "none", log |-> NoCap, bundle |-> NoCap,
   policy |-> "none", criticality |-> "none", queue |-> NoQueue, count |-> 0,
   active |-> FALSE]

SvcmgrInit ==
  sv = [pc |-> "start", procmgr |-> NoCap, boot |-> "none", services |-> <<>>,
        waited |-> {}, silent |-> {}, seen |-> FALSE, queues |-> 0, registry |-> <<>>,
        handover |-> FALSE, idx |-> 0, next_token |-> 1, child |-> "none"]

SvStep(s, pc) == sv' = [s EXCEPT !.pc = pc]
SvQuiet == UNCHANGED <<inbox, answer>>

\* The wait set holds the service endpoint, member 0, and the queue of service
\* k, member k.  A member that is ready has a token in the set's ring, unless it
\* is silent: nobody announced it.  The kernel announces a member that becomes
\* ready through its pointer to the set, and wait_set_add one that is ready
\* already; it looks first and writes the pointer after, in two steps.
Ready(k) ==
  IF k = 0 THEN Waiting("svcmgr") ELSE events[sv.services[k].queue] # <<>>

Looked(s, k, ready, pc) == [s EXCEPT !.pc = pc, !.idx = k, !.seen = ready]

Watched(s, ready) ==
  [s EXCEPT !.pc = "wait", !.waited = @ \cup ({s.idx} \ {0}),
            !.silent = IF ready /\ ~s.seen THEN @ \cup {s.idx} ELSE @]

wait_set_add ==
  /\ sv.pc = "watch" /\ SvQuiet /\ UNCHANGED processVars
  /\ sv' = Watched(sv, Ready(sv.idx))

\* bootstrap_caps, then the wait set: without it the thread halts.
SvBootstrap ==
  /\ Running("svcmgr") /\ sv.pc = "start"
  /\ request_round("svcmgr") /\ SvStep(sv, "boot") /\ UNCHANGED processVars

SvBootstrapped ==
  /\ sv.pc = "boot" /\ Answered("svcmgr") /\ SvQuiet
  /\ IF answer["svcmgr"].label = "DONE" /\ Len(answer["svcmgr"].caps) >= 4
       THEN LET caps == answer["svcmgr"].caps
            IN  /\ threads' = Keep("svcmgr") /\ UNCHANGED events
                /\ \/ /\ Works
                      /\ sv' = Looked([sv EXCEPT !.procmgr = caps[3], !.boot = caps[4].ep],
                                      0, Waiting("svcmgr"), "watch")
                   \/ Fails /\ SvStep(sv, "halted")
       ELSE /\ SvStep(sv, "ended") /\ UNCHANGED faults
            /\ threads' = Ended("svcmgr") /\ events' = Posted("svcmgr", "exit")

\* event_loop, dispatch_ipc: one message for a token.  The endpoint announces
\* a message only where none was queued, so those behind the one received stay
\* unannounced, and so do all that come after them.
SvServes(ops) ==
  /\ sv.pc = "wait" /\ 0 \notin sv.silent
  /\ Waiting("svcmgr") /\ Oldest("svcmgr").op \in ops

Received == [sv EXCEPT !.silent = IF Len(inbox["svcmgr"]) > 1 THEN @ \cup {0} ELSE @]

SvReply(label) == Respond("svcmgr", [label |-> label])
SvRefuse(label) == SvReply(label) /\ sv' = Received

SvOpcodes == {"REGISTER_SERVICE", "HANDOVER_COMPLETE", "PUBLISH_ENDPOINT", "QUERY_ENDPOINT"}

SvUnknown ==
  /\ SvServes({m.op : m \in ToSet(inbox["svcmgr"])} \ SvOpcodes) /\ UNCHANGED processVars
  /\ SvRefuse("UNKNOWN_OPCODE")

HandoverComplete ==
  /\ SvServes({"HANDOVER_COMPLETE"}) /\ UNCHANGED processVars
  /\ SvReply("SUCCESS") /\ sv' = [Received EXCEPT !.handover = TRUE]

\* handle_register.  The capabilities are taken by position: thread, module,
\* log endpoint, bundle.
CapAt(m, k) == IF Len(m.caps) >= k THEN m.caps[k] ELSE NoCap

ServiceOf(m) ==
  [NoService EXCEPT !.thread = m.thread, !.module = m.module, !.log = CapAt(m, 1),
                    !.bundle = CapAt(m, 2), !.policy = m.policy,
                    !.criticality = m.criticality, !.queue = sv.queues, !.active = TRUE]

\* create_and_bind_event_queue makes a queue, which is empty when wait_set_add
\* looks at it; the last call may fail where the thread is bound already.
handle_register ==
  /\ SvServes({"REGISTER_SERVICE"}) /\ UNCHANGED events
  /\ LET m == Oldest("svcmgr")
         bound == [Received EXCEPT !.queues = @ + 1]
     IN  \/ /\ m.name = "" /\ SvRefuse("INVALID_NAME")
            /\ UNCHANGED <<threads, faults>>
         \/ /\ m.name # "" /\ Len(sv.services) = MAX_SERVICES
            /\ SvRefuse("TABLE_FULL") /\ UNCHANGED <<threads, faults>>
         \/ /\ m.name # "" /\ Len(sv.services) < MAX_SERVICES /\ m.module = "none"
            /\ SvRefuse("INSUFFICIENT_CAPS") /\ UNCHANGED <<threads, faults>>
         \/ /\ m.name # "" /\ Len(sv.services) < MAX_SERVICES /\ m.module # "none"
            /\ \/ /\ Works /\ SvQuiet
                  /\ sv' = Looked(bound, Len(sv.services) + 1, FALSE, "register")
                  /\ threads' = BoundTo(m.thread, bound.queues)
               \/ Fails /\ SvRefuse("EVENT_QUEUE_FAILED") /\ UNCHANGED threads
               \/ /\ Fails /\ SvReply("EVENT_QUEUE_FAILED") /\ sv' = bound
                  /\ threads' = BoundTo(m.thread, bound.queues)

SvRegistered ==
  /\ sv.pc = "register" /\ UNCHANGED processVars
  /\ sv' = [Watched(sv, events[sv.queues] # <<>>) EXCEPT
               !.services = Append(@, ServiceOf(Oldest("svcmgr")))]
  /\ SvReply("SUCCESS")

\* registry::lookup and publish.
lookup(name) == {k \in DOMAIN sv.registry : sv.registry[k].name = name}

handle_publish_endpoint ==
  /\ SvServes({"PUBLISH_ENDPOINT"}) /\ UNCHANGED processVars
  /\ LET m == Oldest("svcmgr")
     IN  CASE m.name \notin Names -> SvRefuse("INVALID_NAME")
           [] m.name \in Names /\ m.cap = NoCap -> SvRefuse("INSUFFICIENT_CAPS")
           [] m.name \in Names /\ m.cap # NoCap /\
              (lookup(m.name) # {} \/ Len(sv.registry) = REGISTRY_CAPACITY) ->
                SvRefuse("REGISTER_REJECTED")
           [] OTHER -> /\ SvReply("SUCCESS")
                       /\ sv' = [Received EXCEPT !.registry =
                                   Append(@, [name |-> m.name, cap |-> m.cap])]

handle_query_endpoint ==
  /\ SvServes({"QUERY_ENDPOINT"}) /\ UNCHANGED <<threads, events>>
  /\ LET m == Oldest("svcmgr")
         k == CHOOSE j \in lookup(m.name) : TRUE
     IN  \/ m.name \notin Names /\ SvRefuse("INVALID_NAME") /\ Works
         \/ m.name \in Names /\ lookup(m.name) = {} /\ SvRefuse("UNKNOWN_NAME") /\ Works
         \/ m.name \in Names /\ lookup(m.name) # {} /\ SvRefuse("INSUFFICIENT_CAPS") /\ Fails
         \/ /\ m.name \in Names /\ lookup(m.name) # {} /\ Works /\ sv' = Received
            /\ Respond("svcmgr", [label |-> "SUCCESS", cap |-> sv.registry[k].cap])

\* dispatch_death and handle_death: the service is given up, or its module and
\* a fresh token go to the process manager.
Deaths == {k \in sv.waited \ sv.silent : Ready(k)}

should_restart(svc, reason) ==
  /\ svc.policy = "always" \/ (svc.policy = "on_failure" /\ reason = "fault")
  /\ svc.count < MAX_RESTARTS

Inactive(k) == [sv EXCEPT !.services[k].active = FALSE]

handle_death(k, reason) ==
  LET svc == sv.services[k]
      restarting == [sv EXCEPT !.idx = k, !.next_token = @ + 1]
  IN  CASE svc.criticality = "fatal" -> SvStep(sv, "halted") /\ SvQuiet /\ Works
        [] svc.criticality # "fatal" /\
           (svc.criticality # "normal" \/ ~should_restart(svc, reason)) ->
             sv' = Inactive(k) /\ SvQuiet /\ Works
        [] OTHER ->
             \/ /\ CallCap("svcmgr", sv.procmgr,
                           [op |-> "CREATE_PROCESS", module |-> svc.module,
                            creator |-> [ep |-> sv.boot, token |-> sv.next_token]])
                /\ SvStep(restarting, "created") /\ Works
             \/ sv' = [Inactive(k) EXCEPT !.next_token = @ + 1] /\ SvQuiet /\ Fails

dispatch_death ==
  /\ sv.pc = "wait" /\ UNCHANGED threads
  /\ \E k \in Deaths :
       LET queue == sv.services[k].queue
       IN  /\ events' = [events EXCEPT ![queue] = Tail(@)]
           /\ IF sv.services[k].active THEN handle_death(k, Head(events[queue]))
              ELSE UNCHANGED sv /\ SvQuiet /\ Works

\* restart_process: create, start, and only then the capabilities of the child.
GiveUp == sv' = [Inactive(sv.idx) EXCEPT !.pc = "wait"] /\ SvQuiet

SvCreated ==
  /\ sv.pc = "created" /\ Answered("svcmgr") /\ UNCHANGED processVars
  /\ IF answer["svcmgr"].label = "SUCCESS"
       THEN /\ CallCap("svcmgr", answer["svcmgr"].handle, [op |-> "START_PROCESS"])
            /\ SvStep([sv EXCEPT !.child = answer["svcmgr"].thread], "started")
       ELSE GiveUp

SvStarted ==
  /\ sv.pc = "started" /\ Answered("svcmgr") /\ UNCHANGED <<threads, events>>
  /\ \/ answer["svcmgr"].label # "SUCCESS" /\ GiveUp /\ Works
     \/ answer["svcmgr"].label = "SUCCESS" /\ GiveUp /\ Fails
     \/ answer["svcmgr"].label = "SUCCESS" /\ SvStep(sv, "serve") /\ SvQuiet /\ Works

\* Mutation: a restarted service gets no bundle.
restart_log_only(svc) == SelectSeq(<<svc.log>>, LAMBDA c : c # NoCap)

restart_caps(svc) == SelectSeq(<<svc.log, svc.bundle>>, LAMBDA c : c # NoCap)

SvServeChild ==
  /\ sv.pc = "serve" /\ Waiting("svcmgr_boot") /\ UNCHANGED processVars
  /\ serve_round("svcmgr_boot", sv.next_token - 1,
                 Round(restart_caps(sv.services[sv.idx]), <<>>, TRUE))
  /\ IF Expected("svcmgr_boot", sv.next_token - 1) THEN SvStep(sv, "rebind")
     ELSE sv' = [Inactive(sv.idx) EXCEPT !.pc = "wait"]

\* rebind_death_notification: the old queue leaves the wait set and is deleted,
\* a new one is bound to the new thread and enters the wait set (wait_set_add).
\* Mutation: the new queue is not put into the wait set.
rebind_unwatched ==
  /\ sv.pc = "rebind" /\ SvQuiet /\ UNCHANGED events /\ Works
  /\ threads' = BoundTo(sv.child, sv.queues + 1)
  /\ SvStep([sv EXCEPT !.queues = @ + 1, !.services[sv.idx].queue = sv.queues + 1,
                       !.services[sv.idx].thread = sv.child,
                       !.services[sv.idx].count = @ + 1, !.waited = @ \ {sv.idx}], "wait")

rebind_death_notification ==
  /\ sv.pc = "rebind" /\ SvQuiet /\ UNCHANGED events
  /\ LET k == sv.idx
         q == sv.queues + 1
         rebound == [sv EXCEPT !.queues = q, !.services[k].queue = q,
                               !.services[k].thread = sv.child]
     IN  \/ /\ Works /\ threads' = BoundTo(sv.child, q)
            /\ sv' = Looked([rebound EXCEPT !.services[k].count = @ + 1], k, FALSE, "watch")
         \/ /\ Fails /\ UNCHANGED threads
            /\ SvStep([Inactive(k) EXCEPT !.waited = @ \ {k}], "wait")
         \/ /\ Fails /\ threads' = BoundTo(sv.child, q)
            /\ SvStep([rebound EXCEPT !.services[k].count = @ + 1,
                                      !.services[k].active = FALSE,
                                      !.waited = @ \ {k}], "wait")

SvNext ==
  \/ SvBootstrap \/ SvBootstrapped \/ wait_set_add
  \/ SvUnknown \/ HandoverComplete \/ handle_register \/ SvRegistered
  \/ handle_publish_endpoint \/ handle_query_endpoint
  \/ dispatch_death \/ SvCreated \/ SvStarted \/ SvServeChild
  \/ rebind_death_notification

=============================================================================
