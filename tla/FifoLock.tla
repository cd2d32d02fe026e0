------------------------------ MODULE FifoLock ------------------------------
(***************************************************************************)
(* What the kernel expects of a spinlock: whoever asks joins the end of a  *)
(* line, only the head of the line may be inside, and leaving lets the     *)
(* next one in.  "Waiters are served in acquisition order."                *)
(***************************************************************************)
EXTENDS Sequences

CONSTANT Contexts

VARIABLES
  line,     \* who has asked, in the order of asking
  inside    \* the contexts in their critical section

lockVars == <<line, inside>>

Init == line = <<>> /\ inside = {}

Ask(c) ==
  /\ \A i \in DOMAIN line : line[i] # c
  /\ line' = Append(line, c)
  /\ UNCHANGED inside

Enter(c) ==
  /\ line # <<>>
  /\ Head(line) = c
  /\ inside = {}
  /\ inside' = {c}
  /\ UNCHANGED line

Leave(c) ==
  /\ inside = {c}
  /\ inside' = {}
  /\ line' = Tail(line)

Next == \E c \in Contexts : Ask(c) \/ Enter(c) \/ Leave(c)

Spec == Init /\ [][Next]_lockVars
=============================================================================
