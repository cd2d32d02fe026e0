--------------------------- MODULE MCCapabilities ---------------------------
(* Capability spaces of a few slots for model checking.                    *)
EXTENDS Capabilities

CONSTANTS c1, c2, c3, o1

Quota == [c \in CSpaces |-> IF c = Root THEN 3 ELSE 2]
QuotaSmall == [c \in CSpaces |-> 2]
QuotaNested == [c \in CSpaces |-> IF c = c3 THEN 1 ELSE 2]
=============================================================================
