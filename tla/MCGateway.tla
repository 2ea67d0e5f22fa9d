----------------------------- MODULE MCGateway -----------------------------
(* Instances of Gateway for TLC. *)
EXTENDS Gateway, TLC

CONSTANTS c1, c2, c3, ta, tb

ThreeCalls == {c1, c2, c3}
NoSupplement == [m \in Months |-> 0]

\* Two turns side by side: one that tries two model calls, of which it may make one, and
\* one with an embedding.
TwoTurns == [c \in ThreeCalls |-> IF c = c3 THEN tb ELSE ta]
=============================================================================
