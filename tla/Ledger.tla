------------------------------- MODULE Ledger -------------------------------
(***************************************************************************)
(* The durable AI spending ledger: PostgresLedger in spending.py and the   *)
(* tables of migrations/001_accounting.sql and 002, for one environment.   *)
(*                                                                         *)
(* Every operation of the ledger is one transaction that first takes the   *)
(* lock on the account row, so each is one action here.  A call reads the  *)
(* clock BEFORE it waits for a connection and for that lock; the month it  *)
(* carries may therefore be over when the transaction runs (MaxLag).       *)
(*                                                                         *)
(* Money is counted in whole units of nUSD.  The SUM of the admission      *)
(* statement is the number of units the rows stand for, so Total is a      *)
(* cardinality: that is the same number, and one the proofs can reason     *)
(* about for any set of rows.                                              *)
(***************************************************************************)
EXTENDS Integers, FiniteSets

CONSTANTS
  Ops,          \* operation identifiers (one uuid per reservation)
  Cap,          \* accounts.cap_nusd
  Extra,        \* monthly_allowances.extra_nusd by month, 0 where there is no row
  Development,  \* is this the development environment
  MaxNusd,      \* bound: the largest hold or charge a call can ask for
  LastMonth,    \* bound: the months of the model are 1..LastMonth
  MaxLag        \* bound: months between reading the clock and the commit (0 or 1)

Months == 1..LastMonth
Nusd == 0..MaxNusd

ASSUME LedgerAssumption ==
  /\ IsFiniteSet(Ops)
  /\ Cap \in Nat \ {0}
  /\ Extra \in [Months -> Nat]
  /\ Development \in BOOLEAN
  /\ MaxNusd \in Nat \ {0}
  /\ LastMonth \in Nat \ {0}
  /\ MaxLag \in Nat

VARIABLES
  month,    \* the calendar month in campus time
  paused,   \* accounts.paused
  ops,      \* the operations table
  reviewed  \* history: the overruns an administrator had seen when he last unpaused

ledgerVars == <<month, paused, ops, reviewed>>

Unsettled == {"reserved", "uncertain"}
States == Unsettled \cup {"absent", "settled"}

\* A row: charged is 0 (NULL) until it is settled.  admitted is the month the
\* caller's clock gave, created the month in which the row was really inserted.
Row == [state: States, reserved: Nusd, cost: Nusd,
        admitted: 0..LastMonth, created: 0..LastMonth, charged: 0..LastMonth]

NoRow == [state |-> "absent", reserved |-> 0, cost |-> 0,
          admitted |-> 0, created |-> 0, charged |-> 0]

Held(o) == ops[o].state \in Unsettled
SettledIn(o, m) == ops[o].state = "settled" /\ ops[o].charged = m
Overran(o) == ops[o].state = "settled" /\ ops[o].cost > ops[o].reserved

-----------------------------------------------------------------------------
(***************************************************************************)
(* The admission check.                                                    *)
(***************************************************************************)
\* What a set of rows adds up to, as a count of units: SUM(w[o]).
Units(w) == {p \in Ops \X (1..MaxNusd) : p[2] <= w[p[1]]}
Total(w) == Cardinality(Units(w))

\* CASE WHEN state = 'settled' THEN cost_nusd ELSE reserved_nusd END over the
\* rows with state <> 'settled' OR charged_month = m.
Counted(m) ==
  [o \in Ops |-> IF Held(o) THEN ops[o].reserved
                 ELSE IF SettledIn(o, m) THEN ops[o].cost ELSE 0]

\* The same sum if an unsettled hold counted only in the month that admitted it.
CountedThisMonthOnly(m) ==
  [o \in Ops |-> IF Held(o) /\ ops[o].admitted = m THEN ops[o].reserved
                 ELSE IF SettledIn(o, m) THEN ops[o].cost ELSE 0]

Limit(m) == Cap + (IF Development THEN Extra[m] ELSE 0)

\* A slip: the holds of earlier months are dropped from the sum.
AdmitsForgettingOldHolds(amount, now) ==
  ~paused /\ Total(CountedThisMonthOnly(now)) + amount <= Limit(now)
Admits(amount, now) == ~paused /\ Total(Counted(now)) + amount <= Limit(now)

\* The clock values a transaction that commits now may carry.
Clock == {m \in Months : month - MaxLag <= m /\ m <= month}

-----------------------------------------------------------------------------
(***************************************************************************)
(* The transactions.                                                       *)
(***************************************************************************)
Reserve(o, amount, now) ==
  /\ ops[o].state = "absent"
  /\ amount > 0
  /\ Admits(amount, now)
  /\ ops' = [ops EXCEPT ![o] =
       [state |-> "reserved", reserved |-> amount, cost |-> 0,
        admitted |-> now, created |-> month, charged |-> 0]]
  /\ UNCHANGED <<month, paused, reviewed>>

\* The charge itself; the hold is closed once and for all.
Charge(o, cost, now) ==
  ops' = [ops EXCEPT ![o].state = "settled", ![o].cost = cost, ![o].charged = now]

\* Slips: a settled row is charged again; an overrun of an uncertain row is
\* charged without the pause.
SettleAgain(o, cost, now) ==
  /\ ops[o].state # "absent"
  /\ paused' = (paused \/ cost > ops[o].reserved)
  /\ Charge(o, cost, now)
  /\ UNCHANGED <<month, reviewed>>
SettlePausingReservedOnly(o, cost, now) ==
  /\ Held(o)
  /\ paused' = (paused \/ (cost > ops[o].reserved /\ ops[o].state = "reserved"))
  /\ Charge(o, cost, now)
  /\ UNCHANGED <<month, reviewed>>

\* settle: an overrun pauses the account in the same commit as its charge.
Settle(o, cost, now) ==
  /\ Held(o)
  /\ paused' = (paused \/ cost > ops[o].reserved)
  /\ Charge(o, cost, now)
  /\ UNCHANGED <<month, reviewed>>

\* A slip: a settled row is marked uncertain again.
UncertainAgain(o) ==
  /\ ops[o].state # "absent"
  /\ ops' = [ops EXCEPT ![o].state = "uncertain"]
  /\ UNCHANGED <<month, paused, reviewed>>

Uncertain(o) ==
  /\ Held(o)
  /\ ops' = [ops EXCEPT ![o].state = "uncertain"]
  /\ UNCHANGED <<month, paused, reviewed>>

Release(o, now) == Settle(o, 0, now)

Pause ==
  /\ paused' = TRUE
  /\ UNCHANGED <<month, ops, reviewed>>

-----------------------------------------------------------------------------
(***************************************************************************)
(* The surroundings.                                                       *)
(***************************************************************************)
NextMonth ==
  /\ month < LastMonth
  /\ month' = month + 1
  /\ UNCHANGED <<paused, ops, reviewed>>

\* An administrator unpauses the account once he has looked into what happened
\* (docs/phase1.md).
Unpause ==
  /\ paused
  /\ paused' = FALSE
  /\ reviewed' = {o \in Ops : Overran(o)}
  /\ UNCHANGED <<month, ops>>

LedgerInit ==
  /\ month = 1
  /\ paused = FALSE
  /\ ops = [o \in Ops |-> NoRow]
  /\ reviewed = {}

\* A caller's clock never runs back: it settles no earlier than it reserved.
LedgerNext ==
  \/ \E o \in Ops, amount \in Nusd, now \in Clock : Reserve(o, amount, now)
  \/ \E o \in Ops, cost \in Nusd, now \in Clock :
       ops[o].admitted <= now /\ Settle(o, cost, now)
  \/ \E o \in Ops, now \in Clock : ops[o].admitted <= now /\ Release(o, now)
  \/ \E o \in Ops : Uncertain(o)
  \/ Pause
  \/ Unpause
  \/ NextMonth

LedgerSpec == LedgerInit /\ [][LedgerNext]_ledgerVars

-----------------------------------------------------------------------------
(***************************************************************************)
(* Properties.                                                             *)
(***************************************************************************)
\* Rows are well formed: the CHECK of the table (a charge exactly when settled)
\* and a positive hold in every row.
LedgerTypeOK ==
  /\ month \in Months
  /\ paused \in BOOLEAN
  /\ reviewed \subseteq Ops
  /\ ops \in [Ops -> Row]
  /\ \A o \in Ops :
       /\ (ops[o].state = "settled") <=> (ops[o].charged # 0)
       /\ (ops[o].state = "absent") <=> (ops[o].reserved = 0)

\* A reservation that carried a month already over when it was committed.
Straggler(o) == ops[o].admitted # ops[o].created

LeastOf(a, b) == IF a <= b THEN a ELSE b

\* What the holds of current rows cover in month m: a hold that is open, or the
\* part of a charge of this month that its hold had reserved.
Covered(m) ==
  [o \in Ops |-> IF Straggler(o) THEN 0
                 ELSE IF Held(o) THEN ops[o].reserved
                 ELSE IF SettledIn(o, m) THEN LeastOf(ops[o].cost, ops[o].reserved)
                 ELSE 0]

\* A month that has admitted a hold dated in it never commits more than its
\* limit, whatever was held over from earlier months, and however holds and
\* charges of many callers interleave with the change of month.
WithinCap ==
  (\E o \in Ops : ops[o].state # "absent" /\ ~Straggler(o) /\ ops[o].admitted = month)
    => Total(Covered(month)) <= Limit(month)

\* No hold is admitted while an overrun is waiting for an administrator's review
\* (settle pauses the account in the commit that charges the overrun).
NoAdmissionAfterOverrun ==
  [][\A o \in Ops : ops[o].state = "absent" /\ ops'[o].state # "absent"
       => \A p \in Ops : Overran(p) => p \in reviewed]_ledgerVars

\* A settled row is final: nothing charges it again, frees it or reopens it, and
\* no step lowers a hold other than by settling it (no month end frees a hold).
SettledIsFinal ==
  [][\A o \in Ops :
       /\ ops[o].state = "settled" => ops'[o] = ops[o]
       /\ Held(o) /\ ops'[o].state # "settled"
            => ops'[o].reserved = ops[o].reserved /\ ops'[o].state \in Unsettled]_ledgerVars

\* What the cap would mean if the clock were read under the lock: the month's
\* charges and every open hold fit the limit unless a charge overran its hold.
CapEnforced ==
  (\A o \in Ops : ~Overran(o)) => Total(Counted(month)) <= Limit(month)

\* The abstract account this ledger implements as long as the clock is read in the
\* month of the commit: the month's limit, what is held, what this month has been
\* charged, and whether the account is open.
Account == INSTANCE Allowance WITH
  Limits <- {Limit(m) : m \in Months},
  MaxUnits <- MaxNusd,
  limit <- Limit(month),
  held <- Total([o \in Ops |-> IF Held(o) THEN ops[o].reserved ELSE 0]),
  charged <- Total([o \in Ops |-> IF SettledIn(o, month) THEN ops[o].cost ELSE 0]),
  open <- ~paused

\* Every step of the ledger is a step of the abstract account or changes nothing
\* the owner can see: no interleaving of holds, charges, doubts and month ends
\* gives out more than fits or frees what is held.
ImplementsAllowance == Account!Spec
=============================================================================
