------------------------------ MODULE Endpoint ------------------------------
(***************************************************************************)
(* Synchronous IPC: one endpoint (kernel/src/ipc/endpoint.rs), the system  *)
(* calls call, recv and reply, the destruction of the endpoint, and        *)
(* SYS_THREAD_STOP / SYS_THREAD_START on the threads that use it.          *)
(*                                                                         *)
(* endpoint_call and endpoint_recv hold the endpoint's lock throughout and *)
(* are one step each.  endpoint_reply and the stop path take no lock.      *)
(* Between such steps a thread enqueues whom it woke, and calls            *)
(* schedule(false), which switches away from its kernel stack.             *)
(* Notification of a wait set by endpoint_call is modelled in WaitSet.     *)
(***************************************************************************)
EXTENDS Naturals, Sequences, Functions

CONSTANTS
  Clients, Servers,  \* threads that call, threads that receive and reply
  Settled,      \* TRUE: stop and start meet no thread in the middle of a system call
  Deferring,    \* TRUE: a server may receive again before it has replied
  StopStates,   \* thread states in which a manager uses SYS_THREAD_STOP
  Ep,           \* the EndpointState, as blocked_on_object sees it
  Null          \* the null pointer

ASSUME ThreadsAssumption ==
  /\ Clients \intersect Servers = {}
  /\ {Ep, Null} \intersect (Clients \union Servers) = {} /\ Ep # Null

Threads == Clients \union Servers

VARIABLES
  send_q, recv_q, alive,                                   \* EndpointState
  state, ipc_state, blocked_on_object, reply_tcb, ipc_msg, context_saved,
  queued,     \* how often the TCB is linked into a run queue
  pc,         \* "off": not executing; "user"; or a place in a system call
  op,         \* the system call whose frame is on the thread's kernel stack
  woken,      \* TCB the running system call must still enqueue
  ret,        \* message the server's last recv returned; a caller's stays in ipc_msg
  rc,         \* return register in the trap frame
  stopped,    \* history: stopped in the system call it is in or returned from
  gone,       \* history: woken by the endpoint's destruction
  orphans     \* history: callers whose server was not told that it owes a reply

epVars == <<send_q, recv_q, alive>>
tcbVars == <<state, ipc_state, blocked_on_object, reply_tcb, ipc_msg,
             context_saved>>
vars == <<epVars, tcbVars, queued, pc, op, woken, ret, rc, stopped, gone, orphans>>

\* Messages: the request of a client, the reply to a client, or nothing yet.
Request(c) == [kind |-> "request", client |-> c]
ReplyTo(c) == [kind |-> "reply", client |-> c]
NoMessage == [kind |-> "none", client |-> Null]

Init ==
  /\ send_q = <<>> /\ recv_q = <<>> /\ alive = TRUE
  /\ state = [t \in Threads |-> "Ready"]
  /\ ipc_state = [t \in Threads |-> "None"]
  /\ blocked_on_object = [t \in Threads |-> Null]
  /\ reply_tcb = [t \in Threads |-> Null]
  /\ ipc_msg = [t \in Threads |-> NoMessage]
  /\ context_saved = [t \in Threads |-> 1]
  /\ queued = [t \in Threads |-> 1]
  /\ pc = [t \in Threads |-> "off"]
  /\ op = [t \in Threads |-> "none"]
  /\ woken = [t \in Threads |-> Null]
  /\ ret = [t \in Threads |-> NoMessage]
  /\ rc = [t \in Threads |-> "ok"]
  /\ stopped = {} /\ gone = {} /\ orphans = {}

\* Both wait queues are linked through ipc_wait_next: the previous entry, or
\* the head, is made to point past the entry.
Without(q, i) == SubSeq(q, 1, i - 1) \o SubSeq(q, i + 1, Len(q))

\* The walk from the head takes out the first entry that is t.
Unlink(q, t) ==
  LET found == {i \in DOMAIN q : q[i] = t} IN
  IF found = {} THEN q ELSE Without(q, CHOOSE i \in found : \A j \in found : i <= j)

-----------------------------------------------------------------------------
(* Mutations.                                                              *)

\* The reply message is not copied to the caller.
ReplyStaleMessage(s) ==
  LET caller == reply_tcb[s] IN
  /\ pc[s] = "user" /\ caller # Null
  /\ reply_tcb' = [reply_tcb EXCEPT ![s] = Null]
  /\ state' = [state EXCEPT ![caller] = "Ready"]
  /\ ipc_state' = [ipc_state EXCEPT ![caller] = "None"]
  /\ blocked_on_object' = [blocked_on_object EXCEPT ![caller] = Null]
  /\ woken' = [woken EXCEPT ![s] = caller]
  /\ pc' = [pc EXCEPT ![s] = "woke"]
  /\ UNCHANGED <<epVars, ipc_msg, context_saved, queued, op, ret, rc, stopped,
                 gone, orphans>>

\* The caller is made Ready but never handed to enqueue_and_wake.
ReplyNoWake(s) ==
  LET caller == reply_tcb[s] IN
  /\ pc[s] = "user" /\ caller # Null
  /\ reply_tcb' = [reply_tcb EXCEPT ![s] = Null]
  /\ ipc_msg' = [ipc_msg EXCEPT ![caller] = ReplyTo(ret[s].client)]
  /\ state' = [state EXCEPT ![caller] = "Ready"]
  /\ blocked_on_object' = [blocked_on_object EXCEPT ![caller] = Null]
  /\ UNCHANGED <<epVars, ipc_state, context_saved, queued, pc, op, woken, ret,
                 rc, stopped, gone, orphans>>

\* A blocked thread is stopped without being unlinked.
StopOnlyState(t) ==
  /\ state[t] = "Blocked" /\ "Blocked" \in StopStates
  /\ Settled => \A u \in Threads : pc[u] \in {"off", "user"}
  /\ ipc_state' = [ipc_state EXCEPT ![t] = "None"]
  /\ blocked_on_object' = [blocked_on_object EXCEPT ![t] = Null]
  /\ state' = [state EXCEPT ![t] = "Stopped"]
  /\ rc' = [rc EXCEPT ![t] = "Interrupted"]
  /\ stopped' = stopped \union {t}
  /\ UNCHANGED <<epVars, reply_tcb, ipc_msg, context_saved, queued, pc, op,
                 woken, ret, gone, orphans>>

-----------------------------------------------------------------------------
(* endpoint_call and sys_ipc_call.                                         *)

\* A server is waiting: hand it the message and block for the reply.
CallServer(c) ==
  /\ alive
  /\ pc[c] = "user"
  /\ recv_q # <<>>
  /\ LET server == Head(recv_q) IN
     /\ recv_q' = Tail(recv_q)
     /\ ipc_msg' = [ipc_msg EXCEPT ![server] = Request(c)]
     /\ reply_tcb' = [reply_tcb EXCEPT ![server] = c]
     /\ state' = [state EXCEPT ![server] = "Ready", ![c] = "Blocked"]
     /\ ipc_state' = [ipc_state EXCEPT ![server] = "None", ![c] = "Reply"]
     /\ blocked_on_object' =
          [blocked_on_object EXCEPT ![server] = Null, ![c] = server]
     /\ woken' = [woken EXCEPT ![c] = server]
  /\ context_saved' = [context_saved EXCEPT ![c] = 0]
  /\ op' = [op EXCEPT ![c] = "call"]
  /\ pc' = [pc EXCEPT ![c] = "woke"]
  /\ stopped' = stopped \ {c}
  /\ UNCHANGED <<send_q, alive, queued, ret, rc, gone, orphans>>

\* No server: block on the send queue.
CallQueue(c) ==
  /\ alive
  /\ pc[c] = "user"
  /\ recv_q = <<>>
  /\ send_q' = Append(send_q, c)
  /\ ipc_msg' = [ipc_msg EXCEPT ![c] = Request(c)]
  /\ state' = [state EXCEPT ![c] = "Blocked"]
  /\ ipc_state' = [ipc_state EXCEPT ![c] = "Send"]
  /\ blocked_on_object' = [blocked_on_object EXCEPT ![c] = Ep]
  /\ context_saved' = [context_saved EXCEPT ![c] = 0]
  /\ op' = [op EXCEPT ![c] = "call"]
  /\ pc' = [pc EXCEPT ![c] = "switch"]
  /\ stopped' = stopped \ {c}
  /\ UNCHANGED <<recv_q, alive, reply_tcb, queued, woken, ret, rc, gone, orphans>>

(* endpoint_recv and sys_ipc_recv.                                         *)

\* A server that does not defer receives again only when it has replied to
\* the request it knows of.
MayReceive(s) == Deferring \/ reply_tcb[s] = Null \/ ret[s] = NoMessage

\* endpoint_recv dequeues the caller at the head, which from now on waits for
\* this server's reply.  An earlier reply target is overwritten.
TakeCaller(s) ==
  LET caller == Head(send_q) IN
  /\ send_q' = Tail(send_q)
  /\ reply_tcb' = [reply_tcb EXCEPT ![s] = caller]
  /\ ipc_state' = [ipc_state EXCEPT ![caller] = "Reply"]
  /\ blocked_on_object' = [blocked_on_object EXCEPT ![caller] = s]

\* A caller is queued: take its message and owe it a reply.
RecvCaller(s) ==
  /\ alive
  /\ pc[s] = "user"
  /\ MayReceive(s)
  /\ send_q # <<>>
  /\ TakeCaller(s)
  /\ ret' = [ret EXCEPT ![s] = ipc_msg[Head(send_q)]]
  /\ stopped' = stopped \ {s}
  /\ UNCHANGED <<recv_q, alive, state, ipc_msg, context_saved, queued, pc, op,
                 woken, rc, gone, orphans>>

\* The same, but transfer_caps cannot move the capabilities the message
\* carries: the server gets the error and no message, and the caller stays
\* blocked on a reply nobody knows of.
RecvCapsFail(s) ==
  /\ alive
  /\ pc[s] = "user"
  /\ MayReceive(s)
  /\ send_q # <<>>
  /\ TakeCaller(s)
  /\ ret' = [ret EXCEPT ![s] = NoMessage]
  /\ stopped' = stopped \ {s}
  /\ orphans' = orphans \union {Head(send_q)}
  /\ UNCHANGED <<recv_q, alive, state, ipc_msg, context_saved, queued, pc, op,
                 woken, rc, gone>>

RecvQueue(s) ==
  /\ alive
  /\ pc[s] = "user"
  /\ MayReceive(s)
  /\ send_q = <<>>
  /\ recv_q' = Append(recv_q, s)
  /\ state' = [state EXCEPT ![s] = "Blocked"]
  /\ ipc_state' = [ipc_state EXCEPT ![s] = "Recv"]
  /\ blocked_on_object' = [blocked_on_object EXCEPT ![s] = Ep]
  /\ context_saved' = [context_saved EXCEPT ![s] = 0]
  /\ op' = [op EXCEPT ![s] = "recv"]
  /\ pc' = [pc EXCEPT ![s] = "switch"]
  /\ stopped' = stopped \ {s}
  /\ UNCHANGED <<send_q, alive, reply_tcb, ipc_msg, queued, woken, ret,
                 rc, gone, orphans>>

(* endpoint_reply and sys_ipc_reply.  The server labels its reply with the *)
(* client whose request it received last, and replies only to a request.   *)
(* A reply with no target returns InvalidCapability and changes nothing.   *)
Reply(s) ==
  LET caller == reply_tcb[s] IN
  /\ pc[s] = "user"
  /\ ret[s] # NoMessage
  /\ caller # Null
  /\ reply_tcb' = [reply_tcb EXCEPT ![s] = Null]
  /\ ipc_msg' = [ipc_msg EXCEPT ![caller] = ReplyTo(ret[s].client)]
  /\ state' = [state EXCEPT ![caller] = "Ready"]
  /\ ipc_state' = [ipc_state EXCEPT ![caller] = "None"]
  /\ blocked_on_object' = [blocked_on_object EXCEPT ![caller] = Null]
  /\ woken' = [woken EXCEPT ![s] = caller]
  /\ pc' = [pc EXCEPT ![s] = "woke"]
  /\ UNCHANGED <<epVars, context_saved, queued, op, ret, rc, stopped, gone, orphans>>

\* transfer_caps fails and sys_ipc_reply returns the error at once.
ReplyCapsFail(s) ==
  /\ s \in Servers
  /\ pc[s] = "woke"
  /\ woken' = [woken EXCEPT ![s] = Null]
  /\ pc' = [pc EXCEPT ![s] = "user"]
  /\ UNCHANGED <<epVars, tcbVars, queued, op, ret, rc, stopped, gone, orphans>>

\* enqueue_and_wake; a caller then goes on to schedule(false), a replying
\* server back to user code.
EnqueueWoken(t) ==
  /\ pc[t] = "woke"
  /\ queued' = [queued EXCEPT ![woken[t]] = @ + 1]
  /\ woken' = [woken EXCEPT ![t] = Null]
  /\ pc' = [pc EXCEPT ![t] = IF t \in Clients THEN "switch" ELSE "user"]
  /\ UNCHANGED <<epVars, tcbVars, op, ret, rc, stopped, gone, orphans>>

-----------------------------------------------------------------------------
(* schedule(), as far as these threads can tell.                           *)

\* The rest of the blocking system call once the thread runs again: return
\* the message left in the TCB.  dispatch overwrites the return register.
ReturnFromBlock(t) ==
  /\ state' = [state EXCEPT ![t] = "Running"]
  /\ queued' = [queued EXCEPT ![t] = @ - 1]
  /\ ret' = [ret EXCEPT ![t] = IF op[t] = "recv" THEN ipc_msg[t] ELSE @]
  /\ rc' = [rc EXCEPT ![t] = IF op[t] = "none" THEN @ ELSE "ok"]
  /\ op' = [op EXCEPT ![t] = "none"]
  /\ pc' = [pc EXCEPT ![t] = "user"]
  /\ gone' = gone \ {t}
  /\ orphans' = orphans \ {t}
  /\ UNCHANGED <<epVars, ipc_state, blocked_on_object, reply_tcb, ipc_msg,
                 context_saved, woken, stopped>>

\* schedule(false) finds the calling thread itself in the run queue.
ScheduleSelf(t) ==
  /\ pc[t] = "switch"
  /\ queued[t] > 0
  /\ state[t] # "Stopped"
  /\ ReturnFromBlock(t)

SwitchOut(t) ==
  /\ pc[t] = "switch"
  /\ context_saved' = [context_saved EXCEPT ![t] = 1]
  /\ pc' = [pc EXCEPT ![t] = "off"]
  /\ UNCHANGED <<epVars, state, ipc_state, blocked_on_object, reply_tcb,
                 ipc_msg, queued, op, woken, ret, rc, stopped, gone, orphans>>

\* A CPU dequeues the thread and loads its registers.
Resume(t) ==
  /\ queued[t] > 0
  /\ state[t] # "Stopped"
  /\ context_saved[t] = 1
  /\ ReturnFromBlock(t)

\* The dequeue loop of schedule() discards a Stopped thread.
SkipStopped(t) ==
  /\ queued[t] > 0
  /\ state[t] = "Stopped"
  /\ queued' = [queued EXCEPT ![t] = @ - 1]
  /\ UNCHANGED <<epVars, tcbVars, pc, op, woken, ret, rc, stopped, gone, orphans>>

\* Timer or yield: schedule(true) requeues the thread unless it is Stopped.
Preempt(t) ==
  /\ pc[t] = "user"
  /\ IF state[t] = "Stopped"
       THEN UNCHANGED <<state, queued>>
       ELSE /\ state' = [state EXCEPT ![t] = "Ready"]
            /\ queued' = [queued EXCEPT ![t] = @ + 1]
  /\ context_saved' = [context_saved EXCEPT ![t] = 1]
  /\ pc' = [pc EXCEPT ![t] = "off"]
  /\ UNCHANGED <<epVars, ipc_state, blocked_on_object, reply_tcb, ipc_msg, op,
                 woken, ret, rc, stopped, gone, orphans>>

-----------------------------------------------------------------------------
(* The thread manager and the endpoint's owner.                            *)

ManagerRuns == Settled => \A u \in Threads : pc[u] \in {"off", "user"}

\* sys_thread_stop on a Blocked thread: cancel_ipc_block, no endpoint lock.
\* The reply target of the server it blocks on is cleared whoever it is.
StopBlocked(t) ==
  /\ ManagerRuns
  /\ "Blocked" \in StopStates
  /\ state[t] = "Blocked"
  /\ send_q' = IF ipc_state[t] = "Send" THEN Unlink(send_q, t) ELSE send_q
  /\ recv_q' = IF ipc_state[t] = "Recv" THEN Unlink(recv_q, t) ELSE recv_q
  /\ reply_tcb' = IF ipc_state[t] = "Reply"
                    THEN [reply_tcb EXCEPT ![blocked_on_object[t]] = Null]
                    ELSE reply_tcb
  /\ ipc_state' = [ipc_state EXCEPT ![t] = "None"]
  /\ blocked_on_object' = [blocked_on_object EXCEPT ![t] = Null]
  /\ state' = [state EXCEPT ![t] = "Stopped"]
  /\ rc' = [rc EXCEPT ![t] = "Interrupted"]
  /\ stopped' = stopped \union {t}
  /\ orphans' = IF ipc_state[t] = "Reply"
                  THEN orphans \union ({reply_tcb[blocked_on_object[t]]} \ {t, Null})
                  ELSE orphans
  /\ UNCHANGED <<alive, ipc_msg, context_saved, queued, pc, op, woken, ret,
                 gone>>

\* sys_thread_stop on a Ready or Running thread only sets the state: the
\* thread stays in its run queue, or on its CPU.
StopRunnable(t) ==
  /\ ManagerRuns
  /\ state[t] \in {"Ready", "Running"} \intersect StopStates
  /\ state' = [state EXCEPT ![t] = "Stopped"]
  /\ UNCHANGED <<epVars, ipc_state, blocked_on_object, reply_tcb, ipc_msg,
                 context_saved, queued, pc, op, woken, ret, rc, stopped, gone, orphans>>

\* sys_thread_start on a Stopped thread.
Start(t) ==
  /\ ManagerRuns
  /\ state[t] = "Stopped"
  /\ queued[t] < 2   \* bound on the model, reached only after QueuedOnce fails
  /\ state' = [state EXCEPT ![t] = "Ready"]
  /\ queued' = [queued EXCEPT ![t] = @ + 1]
  /\ UNCHANGED <<epVars, ipc_state, blocked_on_object, reply_tcb, ipc_msg,
                 context_saved, pc, op, woken, ret, rc, stopped, gone, orphans>>

\* dealloc_object on the endpoint: everyone queued is made Ready and
\* enqueued, with whatever message its TCB holds.
Drop ==
  LET waiting == Range(send_q) \union Range(recv_q) IN
  /\ alive
  /\ alive' = FALSE
  /\ send_q' = <<>>
  /\ recv_q' = <<>>
  /\ state' = [t \in Threads |-> IF t \in waiting THEN "Ready" ELSE state[t]]
  /\ ipc_state' = [t \in Threads |-> IF t \in waiting THEN "None" ELSE ipc_state[t]]
  /\ queued' = [t \in Threads |-> IF t \in waiting THEN queued[t] + 1 ELSE queued[t]]
  /\ gone' = gone \union waiting
  /\ UNCHANGED <<blocked_on_object, reply_tcb, ipc_msg, context_saved, pc, op,
                 woken, ret, rc, stopped, orphans>>

KernelNext(t) ==
  \/ EnqueueWoken(t) \/ ScheduleSelf(t) \/ SwitchOut(t) \/ Resume(t)
  \/ Preempt(t)

ServerNext(s) == RecvCaller(s) \/ RecvCapsFail(s) \/ RecvQueue(s) \/ Reply(s)

Next ==
  \/ \E c \in Clients : CallServer(c) \/ CallQueue(c)
  \/ \E s \in Servers : ServerNext(s)
  \/ \E t \in Threads : KernelNext(t) \/ StopBlocked(t) \/ Start(t)
  \/ Drop

Spec == Init /\ [][Next]_vars

\* The same with the steps after which a thread is lost or queued twice:
\* stopping a thread that is not blocked, and a reply whose capabilities
\* cannot be moved.
FaultNext ==
  \/ Next
  \/ \E t \in Threads : StopRunnable(t) \/ SkipStopped(t) \/ ReplyCapsFail(t)

FaultSpec == Init /\ [][FaultNext]_vars

\* System calls run to completion, queued threads are dispatched, and servers
\* reply to what they received and receive again.  Clients owe nothing.
FairSpec ==
  /\ Spec
  /\ \A t \in Threads :
       WF_vars(EnqueueWoken(t) \/ ScheduleSelf(t) \/ SwitchOut(t)) /\ WF_vars(Resume(t))
  /\ \A s \in Servers : SF_vars(ServerNext(s))

-----------------------------------------------------------------------------
Messages == {NoMessage} \union {Request(c) : c \in Clients}
                        \union {ReplyTo(c) : c \in Clients}

TypeOK ==
  /\ send_q \in Seq(Clients) /\ recv_q \in Seq(Servers)
  /\ alive \in BOOLEAN
  /\ state \in [Threads -> {"Ready", "Running", "Blocked", "Stopped"}]
  /\ ipc_state \in [Threads -> {"None", "Send", "Recv", "Reply"}]
  /\ blocked_on_object \in [Threads -> Servers \union {Ep, Null}]
  /\ reply_tcb \in [Threads -> Clients \union {Null}]
  /\ ipc_msg \in [Threads -> Messages]
  /\ context_saved \in [Threads -> {0, 1}]
  /\ queued \in [Threads -> 0..3]
  /\ pc \in [Threads -> {"off", "user", "woke", "switch"}]
  /\ op \in [Threads -> {"none", "call", "recv"}]
  /\ woken \in [Threads -> Threads \union {Null}]
  /\ ret \in [Threads -> Messages]
  /\ rc \in [Threads -> {"ok", "Interrupted"}]
  /\ stopped \in SUBSET Threads /\ gone \in SUBSET Threads
  /\ orphans \in SUBSET Clients

\* The wait queues hold exactly the threads blocked on them, once each, and
\* callers and servers never wait for each other at the same time.
Rendezvous ==
  /\ send_q = <<>> \/ recv_q = <<>>
  /\ IsInjective(send_q) /\ IsInjective(recv_q)
  /\ \A t \in Threads :
       /\ t \in Range(send_q) <=> ipc_state[t] = "Send"
       /\ t \in Range(recv_q) <=> ipc_state[t] = "Recv"
       /\ ipc_state[t] # "None" => state[t] = "Blocked"

\* Every caller blocked for a reply is the reply target of the server it
\* blocks on, and a server's reply target is blocked on that server: the
\* reply will reach it, and will reach nobody else.  The callers a failing
\* capability transfer has orphaned are excepted from the first half.
ReplyTargets ==
  /\ \A c \in Clients : ipc_state[c] = "Reply" =>
       /\ blocked_on_object[c] \in Servers
       /\ c \notin orphans => reply_tcb[blocked_on_object[c]] = c
  /\ \A s \in Servers : reply_tcb[s] # Null =>
       LET c == reply_tcb[s] IN
       state[c] = "Blocked" /\ ipc_state[c] = "Reply" /\ blocked_on_object[c] = s

\* A Ready thread is in a run queue, or in the hands of the one system call
\* that is about to put it there, and not both (ThreadState::Ready).
ReadyIsQueued ==
  \A t \in Threads :
    state[t] = "Ready" =>
      \/ queued[t] = 1 /\ \A u \in Threads : woken[u] # t
      \/ queued[t] = 0 /\ \E u \in Threads : \A v \in Threads : woken[v] = t <=> v = u

\* A TCB is linked into at most one place of one run queue: run_queue_next
\* is a single link.
QueuedOnce == \A t \in Threads : queued[t] <= 1

\* A thread a CPU may resume has left the stack it blocked on.
OneStack ==
  \A t \in Threads :
    queued[t] > 0 /\ state[t] # "Stopped" /\ context_saved[t] = 1 => pc[t] = "off"

\* The queues a thread passes through on its way into and out of an endpoint
\* call: the wait queues hold who is blocked, a server's reply target is who
\* waits for its reply, and a Ready thread is in one run queue, once, and not
\* before it has left its stack.
QueuesInv ==
  TypeOK /\ Rendezvous /\ ReplyTargets /\ ReadyIsQueued /\ QueuedOnce /\ OneStack

\* A caller that returns from SYS_IPC_CALL has the reply to its own request,
\* unless the endpoint was destroyed or the thread stopped under it, or it is
\* an orphan that a server with a stale message has answered.
ReplyMatches ==
  \A c \in Clients :
    state[c] = "Ready" /\ op[c] = "call" /\ c \notin gone \union stopped \union orphans
      => ipc_msg[c] = ReplyTo(c)

\* What the header of SYS_THREAD_STOP says: the blocking system call of a
\* thread stopped in it returns Interrupted.  cancel_ipc_block writes that
\* into the trap frame, and dispatch overwrites it.
StopInterrupts ==
  \A t \in stopped : pc[t] = "user" => rc[t] = "Interrupted"

\* What dealloc_object says of the threads it wakes: they read a zero-length
\* message.  The code leaves ipc_msg alone.
DropWakesEmpty == \A t \in gone : ipc_msg[t] = NoMessage

\* What sys_ipc_recv relies on when it dereferences reply_tcb after it
\* resumes with a message that carries capabilities: the caller is there.
ResumedWithCaller ==
  \A s \in Servers :
    state[s] = "Ready" /\ op[s] = "recv" /\ ipc_msg[s] # NoMessage
      => reply_tcb[s] # Null

\* Every call whose request reached a server returns, while the endpoint lives
\* and nobody is stopped.  A request whose capabilities cannot be moved to the
\* server is the exception sys_ipc_recv's TODO admits.
CallReturns ==
  \A c \in Clients :
    ipc_state[c] # "None" ~> pc[c] = "user" \/ c \in orphans \/ ~alive \/ stopped # {}
=============================================================================
