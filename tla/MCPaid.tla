------------------------------- MODULE MCPaid -------------------------------
(* What is paid, for TLC: the account, used by anyone in any order, or the     *)
(* picks of a turn.  part says which of the two is under way, the other being  *)
(* over or not begun.                                                          *)
EXTENDS Ledger, Picks, TLC

CONSTANTS v1, v2, v3, o1, o2, o3

VARIABLE part

ThreeOps == {o1, o2, o3}
\* A development account whose first month has a supplement and whose later months
\* return to the base cap.
FirstMonthSupplement == [m \in Months |-> IF m = 1 THEN 2 ELSE 0]
ThreePicks == {v1, v2, v3}

PicksOver ==
  /\ clock = TurnSeconds /\ phase = "over" /\ round = 0
  /\ rounds = [r \in 1..Rounds |-> NoRound]
  /\ committed = 0 /\ own = 0 /\ over = 0 /\ above = 0

MCInit ==
  /\ LedgerInit
  /\ \/ part = "account" /\ PicksOver
     \/ part = "picks" /\ Init

MCNext ==
  /\ UNCHANGED part
  /\ \/ part = "account" /\ LedgerNext /\ UNCHANGED vars
     \/ part = "picks" /\ Next /\ UNCHANGED ledgerVars

MCSpec == MCInit /\ [][MCNext]_<<ledgerVars, vars, part>> /\ Fairness
=============================================================================
