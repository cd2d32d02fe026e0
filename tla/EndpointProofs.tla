--------------------------- MODULE EndpointProofs ---------------------------
(***************************************************************************)
(* Proofs about Endpoint for any number of clients and servers: with stop  *)
(* and start meeting no thread in the middle of a system call, and servers *)
(* that reply before they receive again, the queues a thread passes        *)
(* through are sound and every call returns the reply to its own request.  *)
(***************************************************************************)
EXTENDS Endpoint, TLAPS

\* A leaf that names no prover is for the SMT solver.
USE SMTT(30)

-----------------------------------------------------------------------------
(* Queues held as sequences: enqueueing, dequeueing, unlinking.            *)

\* The members of a sequence, by index.
LEMMA RangeIndex ==
  ASSUME NEW S, NEW q \in Seq(S)
  PROVE  /\ DOMAIN q = 1..Len(q) /\ Len(q) \in Nat
         /\ Range(q) = {q[i] : i \in 1..Len(q)} /\ Range(q) \subseteq S
         /\ q = <<>> <=> Range(q) = {}
<1>1. DOMAIN q = 1..Len(q) /\ Len(q) \in Nat /\ \A i \in 1..Len(q) : q[i] \in S
  OBVIOUS
<1>2. Range(q) = {q[i] : i \in 1..Len(q)}
  BY <1>1 DEF Range
<1>3. q # <<>> => 1 \in 1..Len(q)
  BY <1>1
<1>4. q = <<>> => Range(q) = {}
  BY <1>2
<1>5. QED
  BY <1>1, <1>2, <1>3, <1>4

\* A thread enqueued at the tail of a wait queue.
LEMMA AppendQueue ==
  ASSUME NEW S, NEW q \in Seq(S), IsInjective(q), NEW x \in S, x \notin Range(q)
  PROVE  /\ Append(q, x) \in Seq(S) /\ IsInjective(Append(q, x))
         /\ Range(Append(q, x)) = Range(q) \union {x}
<1>1. /\ Append(q, x) \in Seq(S) /\ Len(Append(q, x)) = Len(q) + 1
      /\ \A i \in 1..Len(q) : Append(q, x)[i] = q[i]
      /\ Append(q, x)[Len(q) + 1] = x /\ Len(q) \in Nat
  OBVIOUS
<1>2. /\ Range(q) = {q[i] : i \in 1..Len(q)} /\ DOMAIN q = 1..Len(q)
      /\ Range(Append(q, x)) = {Append(q, x)[i] : i \in 1..(Len(q) + 1)}
      /\ DOMAIN Append(q, x) = 1..(Len(q) + 1)
  <2>1. PICK r \in Seq(S) : r = Append(q, x) /\ Len(r) = Len(q) + 1
    BY <1>1, ZenonT(30)
  <2>2. Range(r) = {r[i] : i \in 1..Len(r)} /\ DOMAIN r = 1..Len(r)
        /\ Range(q) = {q[i] : i \in 1..Len(q)} /\ DOMAIN q = 1..Len(q)
    BY RangeIndex
  <2>3. QED
    BY <2>1, <2>2, Zenon
<1>3. \A i \in 1..(Len(q) + 1) : i \in 1..Len(q) \/ i = Len(q) + 1
  BY <1>1
<1>4. \A i \in 1..Len(q) : q[i] # x
  BY <1>2
<1>5. IsInjective(Append(q, x))
  BY <1>1, <1>2, <1>3, <1>4 DEF IsInjective
<1>6. QED
  BY <1>1, <1>2, <1>3, <1>5

\* The thread at the head of a wait queue dequeued.
LEMMA TailQueue ==
  ASSUME NEW S, NEW q \in Seq(S), IsInjective(q), q # <<>>
  PROVE  /\ Head(q) \in S /\ Head(q) \in Range(q)
         /\ Tail(q) \in Seq(S) /\ IsInjective(Tail(q))
         /\ Range(Tail(q)) = Range(q) \ {Head(q)}
<1>1. /\ Head(q) \in S /\ Tail(q) \in Seq(S) /\ Len(Tail(q)) = Len(q) - 1
      /\ \A i \in 1..(Len(q) - 1) : Tail(q)[i] = q[i + 1]
      /\ Len(q) \in Nat /\ Len(q) > 0 /\ Head(q) = q[1]
  OBVIOUS
<1>2. /\ Range(q) = {q[i] : i \in 1..Len(q)} /\ DOMAIN q = 1..Len(q)
      /\ Range(Tail(q)) = {Tail(q)[i] : i \in 1..(Len(q) - 1)}
      /\ DOMAIN Tail(q) = 1..(Len(q) - 1)
  <2>1. PICK r \in Seq(S) : r = Tail(q) /\ Len(r) = Len(q) - 1
    BY <1>1, Zenon
  <2>2. Range(r) = {r[i] : i \in 1..Len(r)} /\ DOMAIN r = 1..Len(r)
        /\ Range(q) = {q[i] : i \in 1..Len(q)} /\ DOMAIN q = 1..Len(q)
    BY RangeIndex
  <2>3. QED
    BY <2>1, <2>2, Zenon
<1>3. /\ 1 \in 1..Len(q)
      /\ \A i \in 1..(Len(q) - 1) : i + 1 \in 1..Len(q) /\ i + 1 # 1
      /\ \A i \in 1..Len(q) : i # 1 => i - 1 \in 1..(Len(q) - 1) /\ (i - 1) + 1 = i
  BY <1>1
<1>4. IsInjective(Tail(q))
  <2> SUFFICES ASSUME NEW i \in 1..(Len(q) - 1), NEW j \in 1..(Len(q) - 1),
                      Tail(q)[i] = Tail(q)[j]
               PROVE  i = j
    BY <1>2 DEF IsInjective
  <2>1. q[i + 1] = q[j + 1] /\ i + 1 \in DOMAIN q /\ j + 1 \in DOMAIN q
    BY <1>1, <1>2, <1>3
  <2>2. i + 1 = j + 1
    BY <2>1 DEF IsInjective
  <2>3. QED
    BY <2>2
<1>5. \A i \in 1..Len(q) : q[i] = q[1] => i = 1
  BY <1>2, <1>3 DEF IsInjective
<1>6. Range(Tail(q)) = Range(q) \ {Head(q)}
  <2>1. ASSUME NEW y \in Range(Tail(q)) PROVE y \in Range(q) \ {Head(q)}
    <3>1. PICK i \in 1..(Len(q) - 1) : y = q[i + 1]
      BY <1>1, <1>2
    <3>2. QED
      BY <1>1, <1>2, <1>3, <1>5, <3>1
  <2>2. ASSUME NEW y \in Range(q), y # Head(q) PROVE y \in Range(Tail(q))
    <3>1. PICK i \in 1..Len(q) : y = q[i]
      BY <1>2
    <3>2. i # 1
      BY <1>1, <2>2, <3>1
    <3>3. Tail(q)[i - 1] = y /\ i - 1 \in 1..(Len(q) - 1)
      BY <1>1, <1>3, <3>1, <3>2
    <3>4. QED
      BY <1>2, <3>3, Zenon
  <2>3. QED
    BY <2>1, <2>2
<1>7. QED
  BY <1>1, <1>2, <1>3, <1>4, <1>6

\* What is left of a sequence when one entry is taken out.
LEMMA WithoutValue ==
  ASSUME NEW S, NEW q \in Seq(S), NEW i \in 1..Len(q)
  PROVE  /\ Without(q, i) \in Seq(S) /\ Len(Without(q, i)) = Len(q) - 1
         /\ \A j \in 1..(Len(q) - 1) :
              Without(q, i)[j] = IF j < i THEN q[j] ELSE q[j + 1]
<1>0. Len(q) \in Nat /\ \A j \in 1..Len(q) : q[j] \in S
  OBVIOUS
<1> DEFINE a == SubSeq(q, 1, i - 1)
           b == SubSeq(q, i + 1, Len(q))
<1>1. /\ a \in Seq(S) /\ Len(a) = i - 1
      /\ \A j \in 1..(i - 1) : a[j] = q[j]
  <2>1. \A j \in 1..(i - 1) : q[j] \in S
    BY <1>0
  <2>2. /\ a \in Seq(S) /\ Len(a) = IF 1 <= i - 1 THEN i - 1 - 1 + 1 ELSE 0
        /\ \A j \in 1..(i - 1 - 1 + 1) : a[j] = q[1 + j - 1]
    BY <1>0, <2>1
  <2>3. QED
    BY <1>0, <2>2
<1>2. /\ b \in Seq(S) /\ Len(b) = Len(q) - i
      /\ \A j \in 1..(Len(q) - i) : b[j] = q[i + j]
  <2>1. \A j \in (i + 1)..Len(q) : q[j] \in S
    BY <1>0
  <2>2. /\ b \in Seq(S)
        /\ Len(b) = IF i + 1 <= Len(q) THEN Len(q) - (i + 1) + 1 ELSE 0
        /\ \A j \in 1..(Len(q) - (i + 1) + 1) : b[j] = q[(i + 1) + j - 1]
    BY <1>0, <2>1
  <2>3. QED
    BY <1>0, <2>2
<1>3. /\ a \o b \in Seq(S) /\ Len(a \o b) = Len(a) + Len(b)
      /\ \A j \in 1..(Len(a) + Len(b)) :
           (a \o b)[j] = IF j <= Len(a) THEN a[j] ELSE b[j - Len(a)]
  <2>1. a \in Seq(S) /\ b \in Seq(S)
    BY <1>1, <1>2, Zenon
  <2> HIDE DEF a, b
  <2>2. QED
    BY <2>1
<1>4. Without(q, i) = a \o b
  BY DEF Without
<1> HIDE DEF a, b
<1>5. \A j \in 1..(Len(q) - 1) :
        (a \o b)[j] = IF j < i THEN q[j] ELSE q[j + 1]
  <2> SUFFICES ASSUME NEW j \in 1..(Len(q) - 1)
               PROVE  (a \o b)[j] = IF j < i THEN q[j] ELSE q[j + 1]
    BY Zenon
  <2>1. (a \o b)[j] = IF j <= i - 1 THEN a[j] ELSE b[j - (i - 1)]
    <3>1. (i - 1) + (Len(q) - i) = Len(q) - 1
      BY <1>0
    <3>2. Len(a) + Len(b) = Len(q) - 1 /\ Len(a) = i - 1
      BY <1>1, <1>2, <3>1, Zenon
    <3>3. (a \o b)[j] = IF j <= Len(a) THEN a[j] ELSE b[j - Len(a)]
      BY <1>3, <3>2, Zenon
    <3>4. QED
      BY <3>2, <3>3, Zenon
  <2>2. CASE j < i
    BY <1>0, <1>1, <2>1, <2>2
  <2>3. CASE j >= i
    <3>1. j - (i - 1) \in 1..(Len(q) - i) /\ i + (j - (i - 1)) = j + 1
      BY <1>0, <2>3
    <3>2. QED
      BY <1>0, <1>2, <2>1, <2>3, <3>1
  <2>4. j < i \/ j >= i
    BY <1>0
  <2>5. QED
    BY <2>2, <2>3, <2>4, Zenon
<1>6. QED
  BY <1>0, <1>1, <1>2, <1>3, <1>4, <1>5

\* An entry unlinked from a queue in which no entry is twice.
LEMMA WithoutQueue ==
  ASSUME NEW S, NEW q \in Seq(S), IsInjective(q), NEW i \in 1..Len(q)
  PROVE  /\ Without(q, i) \in Seq(S) /\ IsInjective(Without(q, i))
         /\ Range(Without(q, i)) = Range(q) \ {q[i]}
<1>0. i \in 1..Len(q)
  OBVIOUS
<1>1. /\ DOMAIN q = 1..Len(q) /\ Len(q) \in Nat
      /\ Range(q) = {q[k] : k \in 1..Len(q)}
  BY RangeIndex
<1>2. PICK r \in Seq(S) :
      /\ r = Without(q, i) /\ Len(r) = Len(q) - 1
      /\ \A j \in 1..(Len(q) - 1) : r[j] = IF j < i THEN q[j] ELSE q[j + 1]
  BY WithoutValue
<1>3. Range(r) = {r[j] : j \in 1..Len(r)} /\ DOMAIN r = 1..Len(r)
  BY <1>2, RangeIndex
<1>4. \A j \in 1..Len(q) : q[j] = q[i] => j = i
  BY <1>1, <1>0 DEF IsInjective
<1>5. IsInjective(r)
  <2> SUFFICES ASSUME NEW j \in 1..(Len(q) - 1), NEW k \in 1..(Len(q) - 1),
                      r[j] = r[k]
               PROVE  j = k
    BY <1>2, <1>3 DEF IsInjective
  <2>1. \A m, n \in 1..Len(q) : q[m] = q[n] => m = n
    BY <1>1 DEF IsInjective
  <2>2. /\ r[j] = IF j < i THEN q[j] ELSE q[j + 1]
        /\ r[k] = IF k < i THEN q[k] ELSE q[k + 1]
    BY <1>2
  <2>0. \A n \in 1..(Len(q) - 1) : n \in 1..Len(q) /\ n + 1 \in 1..Len(q)
    BY <1>1
  <2>3. PICK m \in 1..Len(q) : r[j] = q[m] /\ m = IF j < i THEN j ELSE j + 1
    BY <2>0, <2>2, Zenon
  <2>4. PICK n \in 1..Len(q) : r[k] = q[n] /\ n = IF k < i THEN k ELSE k + 1
    BY <2>0, <2>2, Zenon
  <2>5. m = n
    BY <2>1, <2>3, <2>4, Zenon
  <2>6. QED
    BY <1>1, <1>0, <2>3, <2>4, <2>5
<1>6. ASSUME NEW y \in Range(r) PROVE y \in Range(q) /\ y # q[i]
  <2>1. PICK j \in 1..(Len(q) - 1) : y = IF j < i THEN q[j] ELSE q[j + 1]
    BY <1>2, <1>3
  <2>2. PICK k \in 1..Len(q) : y = q[k] /\ k # i
    BY <1>1, <1>0, <2>1
  <2>3. QED
    BY <1>1, <1>4, <2>2
<1>7. ASSUME NEW y \in Range(q), y # q[i] PROVE y \in Range(r)
  <2>1. PICK k \in 1..Len(q) : y = q[k]
    BY <1>1
  <2>2. k # i
    BY <1>0, <1>7, <2>1
  <2>3. PICK j \in 1..(Len(q) - 1) : k = IF j < i THEN j ELSE j + 1
    <3>1. CASE k < i
      BY <1>1, <1>0, <3>1
    <3>2. CASE k > i
      <4>1. k - 1 \in 1..(Len(q) - 1) /\ (k - 1) + 1 = k /\ ~(k - 1 < i)
        BY <1>1, <1>0, <3>2
      <4>2. QED
        BY <4>1
    <3>3. QED
      BY <1>1, <1>0, <2>2, <3>1, <3>2
  <2>4. r[j] = y
    BY <1>2, <2>1, <2>3
  <2>5. QED
    BY <1>2, <1>3, <2>4
<1>8. QED
  BY <1>2, <1>5, <1>6, <1>7

-----------------------------------------------------------------------------
(* Unlinking from a wait queue.                                            *)

\* A thread taken out of a wait queue by unlink_from_wait_queue, wherever in
\* the queue it is.
LEMMA UnlinkQueue ==
  ASSUME NEW S, NEW q \in Seq(S), IsInjective(q), NEW x
  PROVE  /\ Unlink(q, x) \in Seq(S) /\ IsInjective(Unlink(q, x))
         /\ Range(Unlink(q, x)) = Range(q) \ {x}
<1> DEFINE found == {i \in DOMAIN q : q[i] = x}
<1>1. /\ DOMAIN q = 1..Len(q) /\ Len(q) \in Nat
      /\ Range(q) = {q[i] : i \in 1..Len(q)}
  BY RangeIndex, Zenon
<1>2. CASE found = {}
  <2>1. Unlink(q, x) = q
    BY <1>2, Zenon DEF Unlink
  <2>2. x \notin Range(q)
    BY <1>1, <1>2, Zenon
  <2>3. QED
    BY <2>1, <2>2, Zenon
<1>3. CASE found # {}
  <2>1. \A k, j \in found : k = j
    BY <1>1, Zenon DEF IsInjective
  <2>0. \A k \in found : k <= k
    BY <1>1
  <2>2. PICK i \in found : i = CHOOSE k \in found : \A j \in found : k <= j
    <3> HIDE DEF found
    <3>1. \E k \in found : \A j \in found : k <= j
      BY <1>3, <2>0, <2>1, Zenon
    <3>2. QED
      BY <3>1, Zenon
  <2>3. Unlink(q, x) = Without(q, i)
    BY <1>3, <2>2, Zenon DEF Unlink
  <2>4. i \in 1..Len(q) /\ q[i] = x
    BY <1>1, Zenon
  <2> HIDE DEF found
  <2>5. /\ Without(q, i) \in Seq(S) /\ IsInjective(Without(q, i))
        /\ Range(Without(q, i)) = Range(q) \ {q[i]}
    BY <2>4, WithoutQueue, Zenon
  <2>6. QED
    BY <2>3, <2>4, <2>5, Zenon
<1>4. QED
  BY <1>2, <1>3, Zenon

-----------------------------------------------------------------------------
(* The inductive invariant.                                                *)

\* Clients and servers are different threads, and no thread is Null or Ep.
LEMMA ThreadFacts ==
  /\ Clients \subseteq Threads /\ Servers \subseteq Threads
  /\ \A t \in Threads : t \in Servers <=> t \notin Clients
  /\ Null \notin Threads /\ Ep \notin Threads /\ Ep # Null
BY ThreadsAssumption, Zenon DEF Threads

\* Where a thread executes, and what that says of its TCB.  A caller between
\* its call and schedule() is Blocked already; a server between its reply and
\* the return to user code is Running.
PlacesOK ==
  \A t \in Threads :
    /\ pc[t] = "user" => state[t] = "Running" /\ op[t] = "none"
    /\ pc[t] = "woke" /\ t \in Clients =>
         /\ ipc_state[t] = "Reply" /\ context_saved[t] = 0
         /\ woken[t] \in Servers /\ blocked_on_object[t] = woken[t]
    /\ pc[t] = "woke" /\ t \in Servers =>
         state[t] = "Running" /\ op[t] = "none" /\ woken[t] \in Clients
    /\ pc[t] = "switch" => state[t] \in {"Blocked", "Ready"} /\ context_saved[t] = 0
    /\ pc[t] = "off" => state[t] # "Running" /\ context_saved[t] = 1
    /\ pc[t] = "woke" <=> woken[t] # Null

\* A thread is Ready exactly when it is in one run queue or in the hands of one
\* waker, and no thread is both.
WakersOK ==
  /\ \A t \in Threads :
       /\ queued[t] \in {0, 1}
       /\ state[t] = "Ready" <=> queued[t] = 1 \/ \E u \in Threads : woken[u] = t
       /\ queued[t] = 1 => \A u \in Threads : woken[u] # t
  /\ \A t, u \in Threads : woken[t] = woken[u] /\ woken[t] # Null => t = u

\* A thread is Blocked exactly when it waits in the endpoint, in a system call
\* of its own kind; a Stopped thread was stopped while it did.
BlockedOK ==
  \A t \in Threads :
    /\ state[t] = "Blocked" <=> ipc_state[t] # "None"
    /\ state[t] = "Blocked" => op[t] # "none"
    /\ state[t] = "Stopped" => t \in stopped /\ pc[t] = "off"
    /\ op[t] = "call" => t \in Clients
    /\ op[t] = "recv" => t \in Servers
    /\ ipc_state[t] = "Reply" => t \in Clients
    /\ t \in Clients => reply_tcb[t] = Null

\* The message on its way: a queued caller's is its request, and a server that
\* knows that it owes a reply has, or is about to return with, the request it
\* owes it for.
MessagesOK ==
  /\ \A c \in Clients : ipc_state[c] = "Send" => ipc_msg[c] = Request(c)
  /\ \A s \in Servers :
       LET c == reply_tcb[s] IN
       c # Null /\ c \notin orphans =>
         /\ state[s] # "Blocked"
         /\ op[s] = "none" => ret[s] = Request(c)
         /\ op[s] = "recv" => ipc_msg[s] = Request(c)

EInv ==
  /\ TypeOK /\ Rendezvous /\ ReplyTargets
  /\ PlacesOK /\ WakersOK /\ BlockedOK /\ MessagesOK /\ ReplyMatches

\* A thread in user code is in no queue and nobody's reply target.
LEMMA InUser ==
  ASSUME EInv, NEW t \in Threads, pc[t] = "user"
  PROVE  /\ state[t] = "Running" /\ op[t] = "none" /\ ipc_state[t] = "None"
         /\ queued[t] = 0 /\ woken[t] = Null /\ \A u \in Threads : woken[u] # t
         /\ t \notin Range(send_q) /\ t \notin Range(recv_q)
         /\ \A u \in Threads : reply_tcb[u] # t
<1>1. /\ state[t] = "Running" /\ op[t] = "none" /\ woken[t] = Null
      /\ ipc_state[t] = "None"
  BY Zenon DEF EInv, PlacesOK, BlockedOK, TypeOK
<1>2. t \notin Range(send_q) /\ t \notin Range(recv_q)
  BY <1>1, Zenon DEF EInv, Rendezvous
<1>3. queued[t] = 0 /\ \A u \in Threads : woken[u] # t
  BY <1>1, Zenon DEF EInv, WakersOK
<1>4. ASSUME NEW u \in Threads PROVE reply_tcb[u] # t
  BY <1>1, ThreadsAssumption DEF EInv, ReplyTargets, BlockedOK, Threads
<1>5. QED
  BY <1>1, <1>2, <1>3, <1>4, Zenon

\* A Blocked thread is in no run queue and in nobody's hands.
LEMMA WhenBlocked ==
  ASSUME EInv, NEW t \in Threads, state[t] = "Blocked"
  PROVE  /\ queued[t] = 0 /\ \A u \in Threads : woken[u] # t
         /\ pc[t] # "user" /\ op[t] # "none" /\ ipc_state[t] # "None"
         /\ pc[t] = "woke" => t \in Clients
<1>1. queued[t] = 0 /\ \A u \in Threads : woken[u] # t
  BY Zenon DEF EInv, WakersOK
<1>2. pc[t] # "user" /\ op[t] # "none" /\ ipc_state[t] # "None"
  BY Zenon DEF EInv, PlacesOK, BlockedOK
<1>3. pc[t] = "woke" => t \in Clients
  BY Zenon DEF EInv, PlacesOK, Threads
<1>4. QED
  BY <1>1, <1>2, <1>3, Zenon

\* endpoint_call with a server waiting.
LEMMA CallServerKeeps ==
  ASSUME EInv, NEW c \in Clients, CallServer(c)
  PROVE  EInv'
<1> USE ThreadFacts
<1> DEFINE s == Head(recv_q)
<1>1. /\ s \in Servers /\ s \in Range(recv_q) /\ Tail(recv_q) \in Seq(Servers)
      /\ IsInjective(Tail(recv_q)) /\ Range(Tail(recv_q)) = Range(recv_q) \ {s}
  BY TailQueue, Zenon DEF CallServer, EInv, TypeOK, Rendezvous
<1>2. /\ recv_q' = Tail(recv_q)
      /\ ipc_msg' = [ipc_msg EXCEPT ![s] = Request(c)]
      /\ reply_tcb' = [reply_tcb EXCEPT ![s] = c]
      /\ state' = [state EXCEPT ![s] = "Ready", ![c] = "Blocked"]
      /\ ipc_state' = [ipc_state EXCEPT ![s] = "None", ![c] = "Reply"]
      /\ blocked_on_object' = [blocked_on_object EXCEPT ![s] = Null, ![c] = s]
      /\ woken' = [woken EXCEPT ![c] = s]
      /\ context_saved' = [context_saved EXCEPT ![c] = 0]
      /\ op' = [op EXCEPT ![c] = "call"]
      /\ pc' = [pc EXCEPT ![c] = "woke"]
      /\ stopped' = stopped \ {c}
      /\ UNCHANGED <<send_q, alive, queued, ret, rc, gone, orphans>>
      /\ pc[c] = "user" /\ recv_q # <<>>
  BY Zenon DEF CallServer
<1> HIDE DEF s
<1>3. /\ ipc_state[s] = "Recv" /\ state[s] = "Blocked" /\ op[s] = "recv"
      /\ reply_tcb[s] = Null \/ reply_tcb[s] \in orphans
      /\ s # c
  BY <1>1 DEF EInv, Rendezvous, MessagesOK, BlockedOK, TypeOK
<1>4. /\ state[c] = "Running" /\ op[c] = "none" /\ ipc_state[c] = "None"
      /\ queued[c] = 0 /\ woken[c] = Null /\ \A u \in Threads : woken[u] # c
      /\ c \notin Range(send_q) /\ \A u \in Threads : reply_tcb[u] # c
  BY <1>2, InUser, Zenon
<1>5. queued[s] = 0 /\ (\A u \in Threads : woken[u] # s)
      /\ pc[s] \in {"switch", "off"}
  BY <1>1, <1>3, WhenBlocked, Zenon DEF EInv, TypeOK
<1>6. TypeOK'
  BY <1>1, <1>2, ZenonT(30) DEF EInv, TypeOK, Messages
<1>7. Rendezvous'
  BY <1>1, <1>2, <1>3, <1>4 DEF EInv, TypeOK, Rendezvous
<1>8. ReplyTargets'
  <2>1. ASSUME NEW d \in Clients, ipc_state'[d] = "Reply"
        PROVE  /\ blocked_on_object'[d] \in Servers
               /\ d \notin orphans' => reply_tcb'[blocked_on_object'[d]] = d
    <3>1. CASE d = c
      BY <1>1, <1>2, <1>3, <3>1, Zenon DEF EInv, TypeOK
    <3>2. CASE d # c
      <4>1. ipc_state[d] = "Reply" /\ blocked_on_object'[d] = blocked_on_object[d]
        BY <1>1, <1>2, <2>1, <3>2, Zenon DEF EInv, TypeOK
      <4>2. QED
        BY <1>1, <1>2, <1>3, <4>1 DEF EInv, TypeOK, ReplyTargets
    <3>3. QED
      BY <3>1, <3>2, Zenon
  <2>2. ASSUME NEW r \in Servers, reply_tcb'[r] # Null
        PROVE  /\ state'[reply_tcb'[r]] = "Blocked" /\ ipc_state'[reply_tcb'[r]] = "Reply"
               /\ blocked_on_object'[reply_tcb'[r]] = r
    BY <1>1, <1>2, <1>3, <1>4, <2>2 DEF EInv, TypeOK, ReplyTargets
  <2>3. QED
    BY <2>1, <2>2, Zenon DEF ReplyTargets
<1>9. PlacesOK'
  BY <1>1, <1>2, <1>3, <1>4, <1>5 DEF EInv, TypeOK, PlacesOK
<1>10. WakersOK'
  BY <1>1, <1>2, <1>3, <1>4, <1>5 DEF EInv, TypeOK, WakersOK
<1>11. BlockedOK'
  BY <1>1, <1>2, <1>3, <1>4, <1>5 DEF EInv, TypeOK, BlockedOK
<1>12. MessagesOK'
  BY <1>1, <1>2, <1>3, <1>4 DEF EInv, TypeOK, MessagesOK
<1>13. ReplyMatches'
  BY <1>1, <1>2, <1>3, <1>4 DEF EInv, TypeOK, ReplyMatches
<1>14. QED
  BY <1>6, <1>7, <1>8, <1>9, <1>10, <1>11, <1>12, <1>13, ZenonT(30) DEF EInv

\* endpoint_call with no server waiting.
LEMMA CallQueueKeeps ==
  ASSUME EInv, NEW c \in Clients, CallQueue(c)
  PROVE  EInv'
<1> USE ThreadFacts
<1>1. /\ state[c] = "Running" /\ op[c] = "none" /\ ipc_state[c] = "None"
      /\ queued[c] = 0 /\ woken[c] = Null /\ \A u \in Threads : woken[u] # c
      /\ c \notin Range(send_q) /\ c \notin Range(recv_q)
      /\ \A u \in Threads : reply_tcb[u] # c
  BY InUser, Zenon DEF CallQueue
<1>2. /\ Append(send_q, c) \in Seq(Clients) /\ IsInjective(Append(send_q, c))
      /\ Range(Append(send_q, c)) = Range(send_q) \union {c}
  BY <1>1, AppendQueue DEF EInv, TypeOK, Rendezvous
<1>3. TypeOK'
  BY <1>2, ZenonT(30) DEF CallQueue, EInv, TypeOK, Messages
<1>4. Rendezvous'
  BY <1>1, <1>2 DEF CallQueue, EInv, TypeOK, Rendezvous
<1>5. ReplyTargets'
  BY <1>1 DEF CallQueue, EInv, TypeOK, ReplyTargets
<1>6. PlacesOK'
  BY <1>1 DEF CallQueue, EInv, TypeOK, PlacesOK
<1>7. WakersOK'
  BY <1>1 DEF CallQueue, EInv, TypeOK, WakersOK
<1>8. BlockedOK'
  BY <1>1 DEF CallQueue, EInv, TypeOK, BlockedOK
<1>9. MessagesOK'
  BY <1>1 DEF CallQueue, EInv, TypeOK, MessagesOK
<1>10. ReplyMatches'
  BY <1>1 DEF CallQueue, EInv, TypeOK, ReplyMatches
<1>11. QED
  BY <1>3, <1>4, <1>5, <1>6, <1>7, <1>8, <1>9, <1>10, ZenonT(30) DEF EInv

\* A server that receives owes nobody a reply that it knows of.
LEMMA OwesNobody ==
  ASSUME EInv, ~Deferring, NEW s \in Servers, pc[s] = "user", MayReceive(s)
  PROVE  reply_tcb[s] = Null \/ reply_tcb[s] \in orphans
<1>1. op[s] = "none"
  BY ThreadFacts, Zenon DEF EInv, PlacesOK
<1>2. \A c : Request(c) # NoMessage
  BY DEF Request, NoMessage
<1>3. QED
  BY <1>1, <1>2, Zenon DEF EInv, MessagesOK, MayReceive

\* endpoint_recv with a caller queued.  The server has the caller's request,
\* or the caller is an orphan.
LEMMA TakeCallerKeeps ==
  ASSUME EInv, NEW s \in Servers, pc[s] = "user", send_q # <<>>, TakeCaller(s),
         reply_tcb[s] = Null \/ reply_tcb[s] \in orphans,
         NEW m \in Messages, ret' = [ret EXCEPT ![s] = m],
         \/ orphans' = orphans /\ m = ipc_msg[Head(send_q)]
         \/ orphans' = orphans \union {Head(send_q)},
         stopped' = stopped \ {s},
         UNCHANGED <<recv_q, alive, state, ipc_msg, context_saved, queued, pc, op,
                     woken, rc, gone>>
  PROVE  EInv'
<1> USE ThreadFacts
<1> DEFINE c == Head(send_q)
<1>1. /\ c \in Clients /\ c \in Range(send_q) /\ Tail(send_q) \in Seq(Clients)
      /\ IsInjective(Tail(send_q)) /\ Range(Tail(send_q)) = Range(send_q) \ {c}
  BY TailQueue, Zenon DEF EInv, TypeOK, Rendezvous
<1>2. /\ send_q' = Tail(send_q)
      /\ reply_tcb' = [reply_tcb EXCEPT ![s] = c]
      /\ ipc_state' = [ipc_state EXCEPT ![c] = "Reply"]
      /\ blocked_on_object' = [blocked_on_object EXCEPT ![c] = s]
  BY Zenon DEF TakeCaller
<1>3. /\ ipc_state[c] = "Send" /\ state[c] = "Blocked" /\ ipc_msg[c] = Request(c)
      /\ \A u \in Servers : reply_tcb[u] # c
  <2>1. ipc_state[c] = "Send" /\ state[c] = "Blocked"
    BY <1>1, Zenon DEF EInv, Rendezvous
  <2>2. ipc_msg[c] = Request(c)
    BY <1>1, <2>1, Zenon DEF EInv, MessagesOK
  <2>3. \A u \in Servers : reply_tcb[u] # c
    BY <1>1, <2>1, Zenon DEF EInv, ReplyTargets
  <2>4. QED
    BY <2>1, <2>2, <2>3, Zenon
<1>0. /\ orphans' = orphans \/ orphans' = orphans \union {c}
      /\ c \notin orphans' => m = Request(c)
  BY <1>3, Zenon
<1> HIDE DEF c
<1>4. /\ state[s] = "Running" /\ op[s] = "none" /\ ipc_state[s] = "None"
      /\ queued[s] = 0 /\ woken[s] = Null /\ s # c
  BY <1>1, InUser, Zenon
<1>5. pc[c] \in {"switch", "off"}
  BY <1>1, <1>3, WhenBlocked DEF EInv, TypeOK, PlacesOK
<1>6. TypeOK'
  BY <1>1, <1>2, <1>0, ZenonT(30) DEF EInv, TypeOK
<1>7. Rendezvous'
  BY <1>1, <1>2, <1>3, <1>4 DEF EInv, TypeOK, Rendezvous
<1>8. ReplyTargets'
  <2>1. ASSUME NEW d \in Clients, ipc_state'[d] = "Reply"
        PROVE  /\ blocked_on_object'[d] \in Servers
               /\ d \notin orphans' => reply_tcb'[blocked_on_object'[d]] = d
    <3>1. CASE d = c
      BY <1>1, <1>2, <3>1, Zenon DEF EInv, TypeOK
    <3>2. CASE d # c
      <4>1. ipc_state[d] = "Reply" /\ blocked_on_object'[d] = blocked_on_object[d]
        BY <1>1, <1>2, <2>1, <3>2, Zenon DEF EInv, TypeOK
      <4>2. /\ blocked_on_object[d] \in Servers
            /\ d \notin orphans => reply_tcb[blocked_on_object[d]] = d
        BY <4>1, Zenon DEF EInv, ReplyTargets
      <4>3. QED
        BY <1>2, <1>0, <4>1, <4>2 DEF EInv, TypeOK
    <3>3. QED
      BY <3>1, <3>2, Zenon
  <2>2. ASSUME NEW r \in Servers, reply_tcb'[r] # Null
        PROVE  /\ state'[reply_tcb'[r]] = "Blocked" /\ ipc_state'[reply_tcb'[r]] = "Reply"
               /\ blocked_on_object'[reply_tcb'[r]] = r
    BY <1>1, <1>2, <1>3, <1>4, <2>2 DEF EInv, TypeOK, ReplyTargets
  <2>3. QED
    BY <2>1, <2>2, Zenon DEF ReplyTargets
<1>9. PlacesOK'
  BY <1>1, <1>2, <1>3, <1>4, <1>5 DEF EInv, TypeOK, PlacesOK
<1>10. WakersOK'
  BY <1>2 DEF EInv, WakersOK
<1>11. BlockedOK'
  BY <1>1, <1>2, <1>3, <1>4, <1>5 DEF EInv, TypeOK, BlockedOK
<1>12. MessagesOK'
  BY <1>1, <1>2, <1>3, <1>4, <1>0 DEF EInv, TypeOK, MessagesOK
<1>13. ReplyMatches'
  BY <1>1, <1>2, <1>3, <1>4, <1>0 DEF EInv, TypeOK, ReplyMatches
<1>14. QED
  BY <1>6, <1>7, <1>8, <1>9, <1>10, <1>11, <1>12, <1>13, ZenonT(30) DEF EInv

\* A receive that returns the message of a queued caller.
LEMMA RecvCallerKeeps ==
  ASSUME EInv, ~Deferring, NEW s \in Servers, RecvCaller(s)
  PROVE  EInv'
<1>1. reply_tcb[s] = Null \/ reply_tcb[s] \in orphans
  BY OwesNobody, Zenon DEF RecvCaller
<1>2. ipc_msg[Head(send_q)] \in Messages
  BY ThreadFacts, TailQueue, Zenon DEF RecvCaller, EInv, TypeOK, Rendezvous
<1>3. QED
  BY <1>1, <1>2, TakeCallerKeeps, Zenon DEF RecvCaller

\* A receive whose capability transfer fails makes the caller an orphan.
LEMMA RecvCapsFailKeeps ==
  ASSUME EInv, ~Deferring, NEW s \in Servers, RecvCapsFail(s)
  PROVE  EInv'
<1>1. reply_tcb[s] = Null \/ reply_tcb[s] \in orphans
  BY OwesNobody, Zenon DEF RecvCapsFail
<1>2. NoMessage \in Messages
  BY Zenon DEF Messages
<1>3. QED
  BY <1>1, <1>2, TakeCallerKeeps, Zenon DEF RecvCapsFail

\* endpoint_recv with no caller queued.
LEMMA RecvQueueKeeps ==
  ASSUME EInv, ~Deferring, NEW s \in Servers, RecvQueue(s)
  PROVE  EInv'
<1> USE ThreadFacts
<1>1. /\ state[s] = "Running" /\ op[s] = "none" /\ ipc_state[s] = "None"
      /\ queued[s] = 0 /\ woken[s] = Null /\ \A u \in Threads : woken[u] # s
      /\ s \notin Range(send_q) /\ s \notin Range(recv_q)
      /\ reply_tcb[s] = Null \/ reply_tcb[s] \in orphans
  BY InUser, OwesNobody, Zenon DEF RecvQueue
<1>2. /\ Append(recv_q, s) \in Seq(Servers) /\ IsInjective(Append(recv_q, s))
      /\ Range(Append(recv_q, s)) = Range(recv_q) \union {s}
  BY <1>1, AppendQueue DEF EInv, TypeOK, Rendezvous
<1>3. TypeOK'
  BY <1>2, Zenon DEF RecvQueue, EInv, TypeOK
<1>4. Rendezvous'
  BY <1>1, <1>2 DEF RecvQueue, EInv, TypeOK, Rendezvous
<1>5. ReplyTargets'
  BY <1>1 DEF RecvQueue, EInv, TypeOK, ReplyTargets
<1>6. PlacesOK'
  BY <1>1 DEF RecvQueue, EInv, TypeOK, PlacesOK
<1>7. WakersOK'
  BY <1>1 DEF RecvQueue, EInv, TypeOK, WakersOK
<1>8. BlockedOK'
  BY <1>1 DEF RecvQueue, EInv, TypeOK, BlockedOK
<1>9. MessagesOK'
  BY <1>1 DEF RecvQueue, EInv, TypeOK, MessagesOK
<1>10. ReplyMatches'
  BY <1>1 DEF RecvQueue, EInv, TypeOK, ReplyMatches
<1>11. QED
  BY <1>3, <1>4, <1>5, <1>6, <1>7, <1>8, <1>9, <1>10, ZenonT(30) DEF EInv

\* endpoint_reply: the caller gets the reply to its own request.
LEMMA ReplyKeeps ==
  ASSUME EInv, NEW s \in Servers, Reply(s)
  PROVE  EInv'
<1> USE ThreadFacts
<1> DEFINE c == reply_tcb[s]
<1>1. /\ reply_tcb' = [reply_tcb EXCEPT ![s] = Null]
      /\ ipc_msg' = [ipc_msg EXCEPT ![c] = ReplyTo(ret[s].client)]
      /\ state' = [state EXCEPT ![c] = "Ready"]
      /\ ipc_state' = [ipc_state EXCEPT ![c] = "None"]
      /\ blocked_on_object' = [blocked_on_object EXCEPT ![c] = Null]
      /\ woken' = [woken EXCEPT ![s] = c]
      /\ pc' = [pc EXCEPT ![s] = "woke"]
      /\ UNCHANGED <<epVars, context_saved, queued, op, ret, rc, stopped, gone, orphans>>
      /\ pc[s] = "user" /\ c # Null /\ ret[s] # NoMessage
  BY DEF Reply
<1>2. c \in Clients
  BY <1>1 DEF EInv, TypeOK
<1>3. /\ state[s] = "Running" /\ op[s] = "none" /\ ipc_state[s] = "None"
      /\ queued[s] = 0 /\ woken[s] = Null /\ \A u \in Threads : woken[u] # s
  BY <1>1, InUser, Zenon
<1>4. /\ state[c] = "Blocked" /\ ipc_state[c] = "Reply" /\ blocked_on_object[c] = s
      /\ c \notin orphans => ret[s] = Request(c)
      /\ \A r \in Servers : r # s => reply_tcb[r] # c
  BY <1>1, <1>3 DEF EInv, ReplyTargets, MessagesOK
<1> HIDE DEF c
<1>5. c \notin orphans => ReplyTo(ret[s].client) = ReplyTo(c)
  BY <1>4 DEF Request
<1>6. queued[c] = 0 /\ (\A u \in Threads : woken[u] # c) /\ pc[c] \in {"switch", "off"}
  <2>1. queued[c] = 0 /\ (\A u \in Threads : woken[u] # c) /\ pc[c] # "user"
    BY <1>2, <1>4, WhenBlocked
  <2>2. pc[c] # "woke"
    BY <1>2, <1>3, <1>4, ZenonT(30) DEF EInv, PlacesOK
  <2>3. QED
    BY <1>2, <2>1, <2>2, Zenon DEF EInv, TypeOK
<1>7. TypeOK'
  <2>1. ReplyTo(ret[s].client) \in Messages
    <3>1. ret[s] \in Messages /\ ret[s] # NoMessage
      BY <1>1, Zenon DEF EInv, TypeOK
    <3>2. ret[s].client \in Clients
      BY <3>1 DEF Messages, Request, ReplyTo
    <3>3. QED
      BY <3>2, Zenon DEF Messages
  <2>2. QED
    BY <1>1, <1>2, <2>1 DEF EInv, TypeOK, epVars
<1>8. Rendezvous'
  BY <1>1, <1>2, <1>4 DEF EInv, TypeOK, Rendezvous, epVars
<1>9. ReplyTargets'
  <2>1. ASSUME NEW d \in Clients, ipc_state'[d] = "Reply"
        PROVE  /\ blocked_on_object'[d] \in Servers
               /\ d \notin orphans' => reply_tcb'[blocked_on_object'[d]] = d
    <3>1. /\ d # c /\ ipc_state[d] = "Reply" /\ orphans' = orphans
          /\ blocked_on_object'[d] = blocked_on_object[d]
      BY <1>1, <1>2, <2>1, Zenon DEF EInv, TypeOK
    <3>2. /\ blocked_on_object[d] \in Servers
          /\ d \notin orphans => reply_tcb[blocked_on_object[d]] = d
      BY <3>1, Zenon DEF EInv, ReplyTargets
    <3>3. d \notin orphans => blocked_on_object[d] # s
      BY <3>1, <3>2, Zenon DEF c
    <3>4. QED
      BY <1>1, <3>1, <3>2, <3>3, Zenon DEF EInv, TypeOK
  <2>2. ASSUME NEW r \in Servers, reply_tcb'[r] # Null
        PROVE  /\ state'[reply_tcb'[r]] = "Blocked" /\ ipc_state'[reply_tcb'[r]] = "Reply"
               /\ blocked_on_object'[reply_tcb'[r]] = r
    BY <1>1, <1>2, <1>4, <2>2 DEF EInv, TypeOK, ReplyTargets
  <2>3. QED
    BY <2>1, <2>2, Zenon DEF ReplyTargets
<1>10. PlacesOK'
  BY <1>1, <1>2, <1>3, <1>4, <1>6 DEF EInv, TypeOK, PlacesOK
<1>11. WakersOK'
  BY <1>1, <1>2, <1>3, <1>4, <1>6 DEF EInv, TypeOK, WakersOK
<1>12. BlockedOK'
  BY <1>1, <1>2, <1>3, <1>4, <1>6 DEF EInv, TypeOK, BlockedOK
<1>13. MessagesOK'
  BY <1>1, <1>2, <1>4 DEF EInv, TypeOK, MessagesOK
<1>14. ReplyMatches'
  BY <1>1, <1>2, <1>5 DEF EInv, TypeOK, ReplyMatches
<1>15. QED
  BY <1>7, <1>8, <1>9, <1>10, <1>11, <1>12, <1>13, <1>14, ZenonT(30) DEF EInv

\* The steps of schedule() and enqueue_and_wake leave the endpoint, the reply
\* targets and the messages alone: what EInv says of them stays true.
LEMMA EnqueueWokenKeeps ==
  ASSUME EInv, NEW t \in Threads, EnqueueWoken(t)
  PROVE  EInv'
<1> USE ThreadFacts
<1> DEFINE w == woken[t]
<1>1. /\ queued' = [queued EXCEPT ![w] = @ + 1]
      /\ woken' = [woken EXCEPT ![t] = Null]
      /\ pc' = [pc EXCEPT ![t] = IF t \in Clients THEN "switch" ELSE "user"]
      /\ UNCHANGED <<epVars, tcbVars, op, ret, rc, stopped, gone, orphans>>
      /\ pc[t] = "woke"
  BY DEF EnqueueWoken
<1>2. w \in Threads /\ w # Null
  BY <1>1 DEF EInv, TypeOK, PlacesOK
<1>3. state[w] = "Ready" /\ queued[w] = 0 /\ \A u \in Threads : u # t => woken[u] # w
  BY <1>2 DEF EInv, TypeOK, WakersOK
<1> HIDE DEF w
<1>4. /\ t \in Clients => state[t] = "Blocked" /\ context_saved[t] = 0
      /\ t \in Servers => state[t] = "Running" /\ op[t] = "none"
  BY <1>1 DEF EInv, PlacesOK, BlockedOK
<1>5. TypeOK'
  BY <1>1, <1>2, <1>3 DEF EInv, TypeOK, epVars, tcbVars
<1>6. PlacesOK'
  BY <1>1, <1>4 DEF EInv, TypeOK, PlacesOK, tcbVars
<1>7. WakersOK'
  BY <1>1, <1>2, <1>3 DEF EInv, TypeOK, WakersOK, tcbVars, w
<1>8. BlockedOK'
  BY <1>1 DEF EInv, TypeOK, BlockedOK, tcbVars
<1>9. Rendezvous' /\ ReplyTargets' /\ MessagesOK' /\ ReplyMatches'
  BY <1>1, ZenonT(30) DEF EInv, Rendezvous, ReplyTargets, MessagesOK, ReplyMatches, epVars, tcbVars
<1>10. QED
  BY <1>5, <1>6, <1>7, <1>8, <1>9, ZenonT(30) DEF EInv

\* A blocked thread that runs again, on its own stack or on another CPU.
LEMMA ReturnKeeps ==
  ASSUME EInv, NEW t \in Threads, ScheduleSelf(t) \/ Resume(t)
  PROVE  EInv'
<1> USE ThreadFacts
<1>1. /\ ReturnFromBlock(t) /\ queued[t] = 1 /\ state[t] = "Ready"
      /\ \A u \in Threads : woken[u] # t
  BY DEF ScheduleSelf, Resume, EInv, TypeOK, WakersOK
<1>2. ipc_state[t] = "None" /\ woken[t] = Null
  BY <1>1 DEF ScheduleSelf, Resume, EInv, TypeOK, PlacesOK, BlockedOK
<1>3. TypeOK'
  BY <1>1 DEF ReturnFromBlock, EInv, TypeOK, epVars
<1>4. Rendezvous'
  BY <1>1, <1>2 DEF ReturnFromBlock, EInv, TypeOK, Rendezvous, epVars
<1>5. ReplyTargets'
  <2>1. ASSUME NEW d \in Clients, ipc_state'[d] = "Reply"
        PROVE  /\ blocked_on_object'[d] \in Servers
               /\ d \notin orphans' => reply_tcb'[blocked_on_object'[d]] = d
    BY <1>1, <1>2, <2>1, Zenon DEF ReturnFromBlock, EInv, ReplyTargets
  <2>2. ASSUME NEW r \in Servers, reply_tcb'[r] # Null
        PROVE  /\ state'[reply_tcb'[r]] = "Blocked" /\ ipc_state'[reply_tcb'[r]] = "Reply"
               /\ blocked_on_object'[reply_tcb'[r]] = r
    BY <1>1, <2>2 DEF ReturnFromBlock, EInv, TypeOK, ReplyTargets
  <2>3. QED
    BY <2>1, <2>2, Zenon DEF ReplyTargets
<1>6. PlacesOK'
  BY <1>1, <1>2 DEF ReturnFromBlock, EInv, TypeOK, PlacesOK
<1>7. WakersOK'
  BY <1>1 DEF ReturnFromBlock, EInv, TypeOK, WakersOK
<1>8. BlockedOK'
  BY <1>1, <1>2 DEF ReturnFromBlock, EInv, TypeOK, BlockedOK
<1>9. MessagesOK'
  <2>1. \A s \in Servers : reply_tcb[s] # t
    BY <1>1 DEF EInv, TypeOK, ReplyTargets
  <2>2. ASSUME NEW s \in Servers, reply_tcb'[s] # Null, reply_tcb'[s] \notin orphans'
        PROVE  /\ state'[s] # "Blocked"
               /\ op'[s] = "none" => ret'[s] = Request(reply_tcb'[s])
               /\ op'[s] = "recv" => ipc_msg'[s] = Request(reply_tcb'[s])
    <3>1. reply_tcb'[s] = reply_tcb[s] /\ reply_tcb[s] \notin orphans /\ reply_tcb[s] # Null
      BY <1>1, <2>1, <2>2, Zenon DEF ReturnFromBlock
    <3>2. /\ state[s] # "Blocked" /\ op[s] # "call"
          /\ op[s] = "none" => ret[s] = Request(reply_tcb[s])
          /\ op[s] = "recv" => ipc_msg[s] = Request(reply_tcb[s])
      BY <3>1, Zenon DEF EInv, MessagesOK, BlockedOK
    <3>3. QED
      BY <1>1, <3>1, <3>2 DEF ReturnFromBlock, EInv, TypeOK
  <2>3. \A c \in Clients : ipc_state'[c] = "Send" => ipc_msg'[c] = Request(c)
    BY <1>1, Zenon DEF ReturnFromBlock, EInv, MessagesOK
  <2>4. QED
    BY <2>2, <2>3, Zenon DEF MessagesOK
<1>10. ReplyMatches'
  BY <1>1 DEF ReturnFromBlock, EInv, TypeOK, ReplyMatches
<1>11. QED
  BY <1>3, <1>4, <1>5, <1>6, <1>7, <1>8, <1>9, <1>10, ZenonT(30) DEF EInv

\* A thread that leaves its CPU, blocked or preempted.
LEMMA LeaveKeeps ==
  ASSUME EInv, NEW t \in Threads, SwitchOut(t) \/ Preempt(t)
  PROVE  EInv'
<1> USE ThreadFacts
<1>1. CASE SwitchOut(t)
  <2>1. TypeOK'
    BY <1>1 DEF SwitchOut, EInv, TypeOK, epVars
  <2>2. PlacesOK'
    BY <1>1 DEF SwitchOut, EInv, TypeOK, PlacesOK
  <2>3. BlockedOK'
    BY <1>1 DEF SwitchOut, EInv, TypeOK, BlockedOK
  <2>0. UNCHANGED <<send_q, recv_q, state, ipc_state, blocked_on_object, reply_tcb,
                    ipc_msg, queued, op, woken, ret, stopped, gone, orphans>>
    BY <1>1, Zenon DEF SwitchOut, epVars
  <2>4. Rendezvous' /\ ReplyTargets'
    BY <2>0, Zenon DEF EInv, Rendezvous, ReplyTargets
  <2>5. WakersOK' /\ MessagesOK' /\ ReplyMatches'
    BY <2>0, Zenon DEF EInv, WakersOK, MessagesOK, ReplyMatches
  <2>6. QED
    BY <2>1, <2>2, <2>3, <2>4, <2>5, ZenonT(30) DEF EInv
<1>2. CASE Preempt(t)
  <2>1. /\ state[t] = "Running" /\ op[t] = "none" /\ ipc_state[t] = "None"
        /\ queued[t] = 0 /\ woken[t] = Null /\ \A u \in Threads : woken[u] # t
        /\ \A u \in Threads : reply_tcb[u] # t
    BY <1>2, InUser, ZenonT(30) DEF Preempt
  <2>2. /\ state' = [state EXCEPT ![t] = "Ready"]
        /\ queued' = [queued EXCEPT ![t] = @ + 1]
        /\ context_saved' = [context_saved EXCEPT ![t] = 1]
        /\ pc' = [pc EXCEPT ![t] = "off"]
        /\ UNCHANGED <<epVars, ipc_state, blocked_on_object, reply_tcb, ipc_msg, op,
                       woken, ret, rc, stopped, gone, orphans>>
    BY <1>2, <2>1, Zenon DEF Preempt
  <2>3. TypeOK'
    BY <2>1, <2>2 DEF EInv, TypeOK, epVars
  <2>4. Rendezvous'
    BY <2>1, <2>2 DEF EInv, TypeOK, Rendezvous, epVars
  <2>5. ReplyTargets'
    BY <2>1, <2>2 DEF EInv, TypeOK, ReplyTargets
  <2>6. PlacesOK'
    BY <2>1, <2>2 DEF EInv, TypeOK, PlacesOK
  <2>7. WakersOK'
    BY <2>1, <2>2 DEF EInv, TypeOK, WakersOK
  <2>8. BlockedOK'
    BY <2>1, <2>2 DEF EInv, TypeOK, BlockedOK
  <2>9. MessagesOK' /\ ReplyMatches'
    BY <2>1, <2>2, Zenon DEF EInv, TypeOK, MessagesOK, ReplyMatches
  <2>10. QED
    BY <2>3, <2>4, <2>5, <2>6, <2>7, <2>8, <2>9, ZenonT(30) DEF EInv
<1>3. QED
  BY <1>1, <1>2

\* SYS_THREAD_STOP on a blocked thread takes it out of whatever it waits in.
LEMMA StopBlockedKeeps ==
  ASSUME EInv, Settled, NEW t \in Threads, StopBlocked(t)
  PROVE  EInv'
<1> USE ThreadFacts
<1>1. /\ send_q' = IF ipc_state[t] = "Send" THEN Unlink(send_q, t) ELSE send_q
      /\ recv_q' = IF ipc_state[t] = "Recv" THEN Unlink(recv_q, t) ELSE recv_q
      /\ reply_tcb' = IF ipc_state[t] = "Reply"
                        THEN [reply_tcb EXCEPT ![blocked_on_object[t]] = Null]
                        ELSE reply_tcb
      /\ ipc_state' = [ipc_state EXCEPT ![t] = "None"]
      /\ blocked_on_object' = [blocked_on_object EXCEPT ![t] = Null]
      /\ state' = [state EXCEPT ![t] = "Stopped"]
      /\ rc' = [rc EXCEPT ![t] = "Interrupted"]
      /\ stopped' = stopped \union {t}
      /\ orphans' = IF ipc_state[t] = "Reply"
                      THEN orphans \union ({reply_tcb[blocked_on_object[t]]} \ {t, Null})
                      ELSE orphans
      /\ UNCHANGED <<alive, ipc_msg, context_saved, queued, pc, op, woken, ret, gone>>
      /\ state[t] = "Blocked" /\ \A u \in Threads : pc[u] \in {"off", "user"}
  BY DEF StopBlocked, ManagerRuns
<1>2. queued[t] = 0 /\ (\A u \in Threads : woken[u] # t) /\ pc[t] = "off"
  BY <1>1, WhenBlocked, ZenonT(30)
<1>3. /\ Unlink(send_q, t) \in Seq(Clients) /\ IsInjective(Unlink(send_q, t))
      /\ Range(Unlink(send_q, t)) = Range(send_q) \ {t}
      /\ Unlink(recv_q, t) \in Seq(Servers) /\ IsInjective(Unlink(recv_q, t))
      /\ Range(Unlink(recv_q, t)) = Range(recv_q) \ {t}
  BY UnlinkQueue DEF EInv, TypeOK, Rendezvous
<1>4. /\ send_q' \in Seq(Clients) /\ IsInjective(send_q')
      /\ Range(send_q') = Range(send_q) \ {t}
      /\ recv_q' \in Seq(Servers) /\ IsInjective(recv_q')
      /\ Range(recv_q') = Range(recv_q) \ {t}
  BY <1>1, <1>3 DEF EInv, TypeOK, Rendezvous
<1>5. /\ orphans \subseteq orphans' /\ orphans' \subseteq Clients
      /\ \A u \in Threads :
           /\ reply_tcb'[u] = Null \/ (reply_tcb'[u] = reply_tcb[u] /\ reply_tcb[u] # t)
           /\ reply_tcb'[u] # reply_tcb[u] => reply_tcb[u] \in orphans' \union {t}
  <2>1. CASE ipc_state[t] = "Reply"
    <3> DEFINE b == blocked_on_object[t]
    <3>1. t \in Clients /\ b \in Servers
      BY <2>1, Zenon DEF EInv, BlockedOK, ReplyTargets
    <3>2. \A u \in Threads : reply_tcb[u] = t => u = b
      BY <3>1 DEF EInv, TypeOK, BlockedOK, ReplyTargets
    <3>3. /\ reply_tcb' = [reply_tcb EXCEPT ![b] = Null]
          /\ orphans' = orphans \union ({reply_tcb[b]} \ {t, Null})
      BY <1>1, <2>1, Zenon
    <3> HIDE DEF b
    <3>4. /\ reply_tcb[b] \in Clients \union {Null}
          /\ \A u \in Threads : reply_tcb'[u] = IF u = b THEN Null ELSE reply_tcb[u]
      BY <3>1, <3>3, Zenon DEF EInv, TypeOK
    <3>5. /\ orphans \subseteq orphans' /\ orphans' \subseteq Clients
          /\ reply_tcb[b] \in orphans' \union {t, Null}
      BY <3>3, <3>4, Zenon DEF EInv, TypeOK
    <3>6. ASSUME NEW u \in Threads
          PROVE  /\ reply_tcb'[u] = Null \/ (reply_tcb'[u] = reply_tcb[u] /\ reply_tcb[u] # t)
                 /\ reply_tcb'[u] # reply_tcb[u] => reply_tcb[u] \in orphans' \union {t}
      <4>1. CASE u = b
        <5>1. reply_tcb'[u] = Null /\ (reply_tcb[u] = Null \/ reply_tcb[u] \in orphans' \union {t})
          BY <3>4, <3>5, <4>1
        <5>2. QED
          BY <5>1, Zenon
      <4>2. CASE u # b
        BY <3>2, <3>4, <4>2, Zenon
      <4>3. QED
        BY <4>1, <4>2, Zenon
    <3>7. QED
      BY <3>5, <3>6, Zenon
  <2>2. CASE ipc_state[t] # "Reply"
    <3>1. \A u \in Threads : reply_tcb[u] # t
      BY <2>2 DEF EInv, TypeOK, BlockedOK, ReplyTargets
    <3>2. reply_tcb' = reply_tcb /\ orphans' = orphans
      BY <1>1, <2>2, Zenon
    <3>3. QED
      BY <3>1, <3>2, Zenon DEF EInv, TypeOK
  <2>3. QED
    BY <2>1, <2>2, Zenon
<1>6. reply_tcb' \in [Threads -> Clients \union {Null}]
  BY <1>1, ZenonT(30) DEF EInv, TypeOK
<1>7. TypeOK'
  BY <1>1, <1>4, <1>5, <1>6 DEF EInv, TypeOK
<1>8. Rendezvous'
  <2>1. send_q' = <<>> \/ recv_q' = <<>>
    BY <1>4, RangeIndex DEF EInv, TypeOK, Rendezvous
  <2>2. QED
    BY <1>1, <1>4, <2>1 DEF EInv, TypeOK, Rendezvous
<1>9. ReplyTargets'
  <2>1. ASSUME NEW d \in Clients, ipc_state'[d] = "Reply"
        PROVE  /\ blocked_on_object'[d] \in Servers
               /\ d \notin orphans' => reply_tcb'[blocked_on_object'[d]] = d
    <3>1. d # t /\ ipc_state[d] = "Reply" /\ blocked_on_object'[d] = blocked_on_object[d]
      BY <1>1, <2>1 DEF EInv, TypeOK
    <3>2. /\ blocked_on_object[d] \in Servers
          /\ d \notin orphans => reply_tcb[blocked_on_object[d]] = d
      BY <3>1, Zenon DEF EInv, ReplyTargets
    <3>3. QED
      BY <1>5, <3>1, <3>2, Zenon
  <2>2. ASSUME NEW r \in Servers, reply_tcb'[r] # Null
        PROVE  /\ state'[reply_tcb'[r]] = "Blocked" /\ ipc_state'[reply_tcb'[r]] = "Reply"
               /\ blocked_on_object'[reply_tcb'[r]] = r
    <3>1. reply_tcb'[r] = reply_tcb[r] /\ reply_tcb[r] # t /\ reply_tcb[r] \in Clients
      BY <1>5, <2>2 DEF EInv, TypeOK
    <3>2. QED
      BY <1>1, <3>1, <2>2 DEF EInv, TypeOK, ReplyTargets
  <2>3. QED
    BY <2>1, <2>2, ZenonT(30) DEF ReplyTargets
<1>10. PlacesOK'
  BY <1>1, <1>2 DEF EInv, TypeOK, PlacesOK
<1>11. WakersOK'
  BY <1>1, <1>2 DEF EInv, TypeOK, WakersOK
<1>12. BlockedOK'
  BY <1>1, <1>2, <1>5 DEF EInv, TypeOK, BlockedOK
<1>13. MessagesOK'
  BY <1>1, <1>5 DEF EInv, TypeOK, MessagesOK
<1>14. ReplyMatches'
  BY <1>1 DEF EInv, TypeOK, ReplyMatches
<1>15. QED
  BY <1>7, <1>8, <1>9, <1>10, <1>11, <1>12, <1>13, <1>14, ZenonT(30) DEF EInv

\* SYS_THREAD_START puts a stopped thread, which is in no run queue, into one.
LEMMA StartKeeps ==
  ASSUME EInv, NEW t \in Threads, Start(t)
  PROVE  EInv'
<1> USE ThreadFacts
<1>1. /\ state[t] = "Stopped" /\ pc[t] = "off" /\ t \in stopped
      /\ queued[t] = 0 /\ \A u \in Threads : woken[u] # t
  BY Zenon DEF Start, EInv, BlockedOK, WakersOK
<1>2. TypeOK'
  BY <1>1 DEF Start, EInv, TypeOK, epVars
<1>3. Rendezvous'
  BY <1>1 DEF Start, EInv, TypeOK, Rendezvous, epVars
<1>4. ReplyTargets'
  BY <1>1 DEF Start, EInv, TypeOK, ReplyTargets
<1>5. PlacesOK'
  BY <1>1 DEF Start, EInv, TypeOK, PlacesOK
<1>6. WakersOK'
  BY <1>1 DEF Start, EInv, TypeOK, WakersOK
<1>7. BlockedOK'
  BY <1>1 DEF Start, EInv, TypeOK, BlockedOK
<1>8. MessagesOK' /\ ReplyMatches'
  BY <1>1, Zenon DEF Start, EInv, TypeOK, MessagesOK, ReplyMatches
<1>9. QED
  BY <1>2, <1>3, <1>4, <1>5, <1>6, <1>7, <1>8, ZenonT(30) DEF EInv

\* The destruction of the endpoint makes every waiting thread Ready and
\* enqueues it once.
LEMMA DropKeeps ==
  ASSUME EInv, Drop
  PROVE  EInv'
<1> USE ThreadFacts
<1> DEFINE waiting == Range(send_q) \union Range(recv_q)
<1>1. /\ alive' = FALSE /\ send_q' = <<>> /\ recv_q' = <<>>
      /\ state' = [t \in Threads |-> IF t \in waiting THEN "Ready" ELSE state[t]]
      /\ ipc_state' = [t \in Threads |-> IF t \in waiting THEN "None" ELSE ipc_state[t]]
      /\ queued' = [t \in Threads |-> IF t \in waiting THEN queued[t] + 1 ELSE queued[t]]
      /\ gone' = gone \union waiting
      /\ UNCHANGED <<blocked_on_object, reply_tcb, ipc_msg, context_saved, pc, op,
                     woken, ret, rc, stopped, orphans>>
  BY Zenon DEF Drop
<1>2. waiting \subseteq Threads
  BY RangeIndex DEF EInv, TypeOK
<1>3. \A t \in Threads : t \in waiting <=> ipc_state[t] \in {"Send", "Recv"}
  BY DEF EInv, Rendezvous
<1> HIDE DEF waiting
<1>4. \A t \in waiting : /\ state[t] = "Blocked" /\ queued[t] = 0
                         /\ \A u \in Threads : woken[u] # t
                         /\ pc[t] \in {"switch", "off"}
  <2> TAKE t \in waiting
  <2>1. t \in Threads /\ ipc_state[t] \in {"Send", "Recv"} /\ state[t] = "Blocked"
    BY <1>2, <1>3 DEF EInv, BlockedOK
  <2>2. QED
    BY <2>1, WhenBlocked, ZenonT(30) DEF EInv, TypeOK, PlacesOK
<1>5. TypeOK'
  <2>1. alive' \in BOOLEAN
    BY <1>1, Zenon
  <2>2. send_q' \in Seq(Clients) /\ recv_q' \in Seq(Servers)
    <3>1. send_q' = <<>> /\ recv_q' = <<>>
      BY <1>1, Zenon
    <3>2. QED
      BY <3>1
  <2>3. queued' \in [Threads -> 0..3]
    BY <1>1, <1>2, <1>4 DEF EInv, TypeOK
  <2>4. QED
    BY <1>1, <1>2, <2>1, <2>2, <2>3, Zenon DEF EInv, TypeOK
<1>6. Rendezvous'
  <2>1. Range(<<>>) = {} /\ IsInjective(<<>>)
    BY DEF Range, IsInjective
  <2>2. QED
    BY <1>1, <1>2, <1>3, <2>1, Zenon DEF EInv, TypeOK, Rendezvous
<1>7. ReplyTargets'
  <2>1. \A t \in Threads : ipc_state[t] = "Reply" => t \notin waiting
    BY <1>3, Zenon
  <2>2. \A t \in Threads : ipc_state'[t] = "Reply" <=> ipc_state[t] = "Reply"
    BY <1>1, <2>1, Zenon
  <2>3. \A r \in Servers : reply_tcb[r] # Null => reply_tcb[r] \in Threads
    BY Zenon DEF EInv, TypeOK
  <2>4. \A r \in Servers : reply_tcb[r] # Null => state'[reply_tcb[r]] = "Blocked"
    BY <1>1, <2>1, <2>3, Zenon DEF EInv, ReplyTargets
  <2>5. UNCHANGED <<blocked_on_object, reply_tcb, orphans>>
    BY <1>1, Zenon
  <2>6. QED
    BY <2>2, <2>3, <2>4, <2>5, Zenon DEF EInv, ReplyTargets
<1>8. PlacesOK'
  BY <1>1, <1>2, <1>4, Zenon DEF EInv, TypeOK, PlacesOK
<1>9. WakersOK'
  BY <1>1, <1>2, <1>4 DEF EInv, TypeOK, WakersOK
<1>10. BlockedOK'
  BY <1>1, <1>2, <1>3, <1>4, Zenon DEF EInv, TypeOK, BlockedOK
<1>11. MessagesOK'
  BY <1>1, <1>2 DEF EInv, TypeOK, MessagesOK
<1>12. ReplyMatches'
  BY <1>1 DEF EInv, TypeOK, ReplyMatches
<1>13. QED
  BY <1>5, <1>6, <1>7, <1>8, <1>9, <1>10, <1>11, <1>12, ZenonT(30) DEF EInv

\* A new endpoint, and threads that have not run yet, satisfy the invariant.
LEMMA EInvInit == Init => EInv
<1> SUFFICES ASSUME Init PROVE EInv
  OBVIOUS
<1> USE ThreadFacts
<1>1. TypeOK
  <2>1. alive \in BOOLEAN
    BY Zenon DEF Init
  <2>2. QED
    BY <2>1 DEF Init, TypeOK, Messages
<1>2. Rendezvous
  <2>1. Range(<<>>) = {} /\ IsInjective(<<>>)
    BY DEF Range, IsInjective
  <2>2. QED
    BY <2>1 DEF Init, Rendezvous
<1>3. ReplyTargets /\ PlacesOK /\ WakersOK /\ BlockedOK /\ MessagesOK /\ ReplyMatches
  BY Zenon DEF Init, ReplyTargets, PlacesOK, WakersOK, BlockedOK, MessagesOK, ReplyMatches
<1>4. QED
  BY <1>1, <1>2, <1>3, ZenonT(30) DEF EInv

\* Every step preserves the invariant.
LEMMA EInvStep ==
  ASSUME Settled, ~Deferring
  PROVE  EInv /\ [Next]_vars => EInv'
<1> SUFFICES ASSUME EInv, [Next]_vars PROVE EInv'
  OBVIOUS
<1>1. CASE UNCHANGED vars
  <2>1. UNCHANGED <<send_q, recv_q, alive, state, ipc_state, blocked_on_object, reply_tcb,
                    ipc_msg, context_saved, queued, pc, op, woken, ret, rc, stopped, gone,
                    orphans>>
    BY <1>1, Zenon DEF vars, epVars, tcbVars
  <2>2. TypeOK'
    BY <2>1, Zenon DEF EInv, TypeOK
  <2>3. Rendezvous' /\ ReplyTargets'
    BY <2>1, Zenon DEF EInv, Rendezvous, ReplyTargets
  <2>4. PlacesOK'
    BY <2>1, Zenon DEF EInv, PlacesOK
  <2>5. BlockedOK'
    BY <2>1, Zenon DEF EInv, BlockedOK
  <2>8. WakersOK'
    BY <2>1, Zenon DEF EInv, WakersOK
  <2>6. MessagesOK'
    BY <2>1, Zenon DEF EInv, MessagesOK
  <2>7. ReplyMatches'
    BY <2>1, Zenon DEF EInv, ReplyMatches
  <2>9. QED
    BY <2>2, <2>3, <2>4, <2>5, <2>6, <2>7, <2>8, ZenonT(30) DEF EInv
<1>2. ASSUME NEW t \in Threads, KernelNext(t) PROVE EInv'
  BY <1>2, EnqueueWokenKeeps, ReturnKeeps, LeaveKeeps DEF KernelNext
<1>3. ASSUME NEW s \in Servers, ServerNext(s) PROVE EInv'
  BY <1>3, RecvCallerKeeps, RecvCapsFailKeeps, RecvQueueKeeps, ReplyKeeps
     DEF ServerNext
<1>4. QED
  BY <1>1, <1>2, <1>3, CallServerKeeps, CallQueueKeeps, StopBlockedKeeps, StartKeeps,
     DropKeeps DEF Next

\* The inductive invariant says what the queues of an endpoint promise.
LEMMA EInvQueues == EInv => QueuesInv
<1> SUFFICES ASSUME EInv PROVE QueuesInv
  OBVIOUS
<1>1. QueuedOnce
  BY DEF EInv, WakersOK, QueuedOnce
<1>2. OneStack
  BY DEF EInv, TypeOK, WakersOK, PlacesOK, OneStack, Threads
<1>3. ReadyIsQueued
  <2> SUFFICES ASSUME NEW t \in Threads, state[t] = "Ready"
               PROVE  \/ queued[t] = 1 /\ \A u \in Threads : woken[u] # t
                      \/ /\ queued[t] = 0
                         /\ \E u \in Threads : \A v \in Threads : woken[v] = t <=> v = u
    BY Zenon DEF ReadyIsQueued
  <2>1. CASE queued[t] = 1
    BY <2>1, Zenon DEF EInv, WakersOK
  <2>2. CASE queued[t] # 1
    <3>1. PICK u \in Threads : woken[u] = t
      BY <2>2, Zenon DEF EInv, WakersOK
    <3>2. t # Null
      BY ThreadFacts, Zenon
    <3>3. \A v \in Threads : woken[v] = t <=> v = u
      BY <3>1, <3>2, Zenon DEF EInv, WakersOK
    <3>4. queued[t] = 0
      BY <2>2, Zenon DEF EInv, WakersOK
    <3>5. QED
      BY <3>3, <3>4, Zenon
  <2>3. QED
    BY <2>1, <2>2, Zenon
<1>4. QED
  BY <1>1, <1>2, <1>3 DEF EInv, QueuesInv

\* For any number of clients and servers, and whatever the interleaving of
\* calls, receives, replies, preemptions, stops, starts and the destruction of
\* the endpoint: the wait queues hold who is blocked, a reply target is who
\* waits for that reply, and a Ready thread is in one run queue, once, and not
\* before it has left its stack.
THEOREM EndpointQueues ==
  ASSUME Settled, ~Deferring
  PROVE  Spec => []QueuesInv
  BY EInvInit, EInvStep, EInvQueues, PTL DEF Spec

\* For any number of clients and servers, a call that returns has the reply to
\* its own request, unless its thread was stopped or the endpoint destroyed.
THEOREM EndpointReplies ==
  ASSUME Settled, ~Deferring
  PROVE  Spec => []ReplyMatches
<1>1. EInv => ReplyMatches
  BY Zenon DEF EInv
<1>2. QED
  BY <1>1, EInvInit, EInvStep, PTL DEF Spec
=============================================================================
