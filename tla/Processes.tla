------------------------------ MODULE Processes ------------------------------
(***************************************************************************)
(* What every user program shares: threads that start, end and fault, the  *)
(* bootstrap protocol by which a child fetches its capabilities from its   *)
(* creator (shared/ipc/src/bootstrap.rs), and the failures of kernel calls *)
(* and of the disk.                                                        *)
(*                                                                         *)
(* A server takes one request at a time: the request being served is the   *)
(* head of its inbox until the reply, which removes it.  A step runs from  *)
(* one blocking call to the next; kernel calls between them either work or *)
(* use up one of the failures the environment is granted.                  *)
(***************************************************************************)
EXTENDS BlockDevice, FiniteSets

CONSTANTS
  Threads,     \* every thread that may ever run
  Endpoints,   \* every endpoint that may ever exist
  Queues       \* death notification queues

VARIABLES
  threads,   \* thread -> state, the capability on its creator, its death queue
  events,    \* death queue -> exit reasons posted and not yet received
  faults     \* failures still to come, and those that came

processVars == <<threads, events, faults>>

NoCap == [ep |-> "none", token |-> 0]
NoQueue == 0

Unborn == [state |-> "none", creator |-> NoCap, queue |-> NoQueue, boot |-> <<>>]

\* Only init runs at first.
ProcessesInit ==
  /\ threads = [t \in Threads |->
                  IF t = "init" THEN [Unborn EXCEPT !.state = "running"] ELSE Unborn]
  /\ events = [q \in Queues |-> <<>>]

Running(t) == threads[t].state = "running"

\* A kernel call, or a run of them, either works or fails.
Works == UNCHANGED faults
Fails ==
  /\ faults.left > 0
  /\ faults' = [left |-> faults.left - 1, used |-> faults.used + 1]

\* sys_thread_exit and a fault: the kernel posts the reason to the bound queue.
Ended(t) == [threads EXCEPT ![t].state = "ended"]
Posted(t, reason) ==
  IF threads[t].queue = NoQueue THEN events
  ELSE [events EXCEPT ![threads[t].queue] = Append(@, reason)]

BoundTo(t, q) == [threads EXCEPT ![t].queue = q]

\* A call made through a capability.
CallCap(c, cap, m) == ipc_call(c, cap.ep, cap.token, m)

\* The server s answers its current request.
Respond(s, r) == inbox' = Taken(s) /\ answer' = Reply(Oldest(s).from, r)

\* The kernel refuses a reply that names an empty capability slot.  The caller
\* stays blocked: the server has no second reply to give.
Unanswered(s) == inbox' = Taken(s) /\ UNCHANGED answer

\* bootstrap.rs, the child's side.  The rounds a child receives are kept in
\* threads[t].boot, which the other programs do not look at.
Round(caps, data, done) ==
  [label |-> IF done THEN "DONE" ELSE "MORE", caps |-> caps, data |-> data]

request_round(t) == CallCap(t, threads[t].creator, [op |-> "BOOTSTRAP_REQUEST"])

GotRound(t) == Answered(t) /\ answer[t].label \in {"MORE", "DONE"}
Keep(t) == [threads EXCEPT ![t].boot = Append(@, answer[t].caps)]

\* bootstrap.rs, the creator's side: one request is answered with the next
\* round if it comes from the child expected, with an error otherwise.
Expected(e, token) == Oldest(e).token = token

serve_round(e, token, round) ==
  IF Expected(e, token) THEN Respond(e, round)
  ELSE Respond(e, [label |-> "NO_CHILD"])

=============================================================================
