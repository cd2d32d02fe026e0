-------------------------------- MODULE Calls --------------------------------
(***************************************************************************)
(* Synchronous calls between single-threaded servers, as the system call   *)
(* wrappers of shared/syscall offer them on top of the kernel's endpoints  *)
(* (module Endpoint): a call queues a message and blocks the caller until  *)
(* the server it reached replies.  One receiver serves each endpoint, in   *)
(* arrival order.  The token is the one of the capability the caller used. *)
(***************************************************************************)
EXTENDS Naturals, Sequences, TLC

VARIABLES
  inbox,    \* server -> the messages queued at its endpoint
  answer    \* caller -> the reply it has received and not yet looked at

callVars == <<inbox, answer>>

NoAnswer == [label |-> "none"]

\* ipc_call: the message m, sent by c through a capability with this token.
\* No other call of c can be pending: c is blocked until Answered(c).
Queued(c, s, token, m) ==
  [inbox EXCEPT ![s] = Append(@, m @@ [from |-> c, token |-> token])]

ipc_call(c, s, token, m) ==
  inbox' = Queued(c, s, token, m) /\ answer' = [answer EXCEPT ![c] = NoAnswer]

\* ipc_recv: the oldest message, and the inbox without it.
Waiting(s) == inbox[s] # <<>>
Oldest(s) == Head(inbox[s])
Taken(s) == [inbox EXCEPT ![s] = Tail(@)]

\* ipc_reply to the caller of the message being served.
Reply(c, r) == [answer EXCEPT ![c] = r]

Answered(c) == answer[c].label # "none"

=============================================================================
