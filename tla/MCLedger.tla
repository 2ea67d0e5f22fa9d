------------------------------ MODULE MCLedger ------------------------------
(* Instances of Ledger for TLC. *)
EXTENDS Ledger, TLC

\* A production account: no supplement in any month.
NoSupplement == [m \in Months |-> 0]
Symmetry == Permutations(Ops)
=============================================================================
