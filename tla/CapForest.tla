------------------------------ MODULE CapForest ------------------------------
(***************************************************************************)
(* What the capability system calls promise, without slots' pointers: a    *)
(* forest of capabilities in which every one but the roots names the one   *)
(* it was derived from.                                                    *)
(***************************************************************************)
EXTENDS FiniteSets

CONSTANTS
  Slots,      \* places a capability can be in
  Things,     \* kernel objects
  AllRights,  \* rights bits
  Tokens,     \* what identifies a caller to a receiver; 0 is none
  NoSlot,     \* parent of a root
  NoCap       \* what an empty slot holds

VARIABLE cap

Held == {s \in Slots : cap[s] # NoCap}

\* Everything derived from s, directly or not: the least set that holds its
\* children and the children of its members.
Descendants(s) ==
  {t \in Held : \A D \in SUBSET Held :
     (\A u \in Held : cap[u].parent \in {s} \cup D => u \in D) => t \in D}

Init == cap = [s \in Slots |-> NoCap]

\* A new object, with all the rights its type gives.
Create(s) ==
  /\ s \notin Held
  /\ \E o \in Things :
       /\ \A u \in Held : cap[u].object # o
       /\ cap' = [cap EXCEPT ![s] = [object |-> o, rights |-> AllRights, token |-> 0,
                                    parent |-> NoSlot]]

\* A capability for the same object with no more rights; a token, once
\* given, is inherited.
Derive(p, s) ==
  /\ p \in Held /\ s \notin Held
  /\ \E r \in SUBSET cap[p].rights, t \in Tokens \cup {0} :
       /\ cap[p].token # 0 => t = cap[p].token
       /\ cap' = [cap EXCEPT ![s] = [cap[p] EXCEPT !.rights = r, !.token = t, !.parent = p]]

\* The children of a deleted capability fall to its parent.
Delete(s) ==
  /\ s \in Held
  /\ cap' = [u \in Slots |->
       CASE u = s -> NoCap
         [] u \in Held \ {s} /\ cap[u].parent = s -> [cap[u] EXCEPT !.parent = cap[s].parent]
         [] OTHER -> cap[u]]

\* All descendants go; the capability itself stays.
Revoke(s) ==
  /\ s \in Held
  /\ cap' = [u \in Slots |-> IF u \in Descendants(s) THEN NoCap ELSE cap[u]]

\* A moved capability keeps its place in the forest.
Move(s, d) ==
  /\ s \in Held /\ d \notin Held
  /\ cap' = [u \in Slots |->
       IF u = s THEN NoCap
       ELSE LET c == IF u = d THEN cap[s] ELSE cap[u]
            IN  IF c # NoCap /\ c.parent = s THEN [c EXCEPT !.parent = d] ELSE c]

\* The end of a CSpace takes capabilities nobody is related to.
Retire(S) ==
  /\ \A s \in S : cap[s].parent = NoSlot /\ \A u \in Held : cap[u].parent # s
  /\ cap' = [u \in Slots |-> IF u \in S THEN NoCap ELSE cap[u]]

Next ==
  \/ \E S \in SUBSET Held : Retire(S)
  \/ \E s \in Slots :
       \/ Create(s) \/ Delete(s) \/ Revoke(s)
       \/ \E t \in Slots : Derive(s, t) \/ Move(s, t)

Spec == Init /\ [][Next]_cap
=============================================================================
