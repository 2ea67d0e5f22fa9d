----------------------------- MODULE Allowance -----------------------------
(***************************************************************************)
(* What the ledger promises the owner of an account, without its rows: a   *)
(* monthly allowance of which some is held, some is charged, and of which  *)
(* no more is ever given out than fits.  A charge beyond its hold closes   *)
(* the account until somebody opens it again; a new month forgets the      *)
(* charges of the old one and not one unit of what is held.                *)
(***************************************************************************)
EXTENDS Integers

CONSTANTS
  Limits,    \* what a month may commit, of any month
  MaxUnits   \* bound: the largest hold or charge

VARIABLES
  limit,    \* what this month may commit
  held,     \* units in open holds
  charged,  \* units charged this month
  open      \* are holds being given out

vars == <<limit, held, charged, open>>

Init == limit \in Limits /\ held = 0 /\ charged = 0 /\ open = TRUE

Admit(amount) ==
  /\ open
  /\ held + charged + amount <= limit
  /\ held' = held + amount
  /\ UNCHANGED <<limit, charged, open>>

\* A hold becomes a charge; more than was held closes the account.
Close(amount, cost) ==
  /\ amount <= held
  /\ held' = held - amount
  /\ charged' = charged + cost
  /\ open' = (open /\ cost <= amount)
  /\ UNCHANGED limit

NewMonth == limit' \in Limits /\ charged' = 0 /\ UNCHANGED <<held, open>>

SetOpen(value) == open' = value /\ UNCHANGED <<limit, held, charged>>

Next ==
  \/ \E amount \in 1..MaxUnits : Admit(amount)
  \/ \E amount \in 1..MaxUnits, cost \in 0..MaxUnits : Close(amount, cost)
  \/ NewMonth
  \/ \E value \in BOOLEAN : SetOpen(value)

Spec == Init /\ [][Next]_vars
=============================================================================
