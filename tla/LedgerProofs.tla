---------------------------- MODULE LedgerProofs ----------------------------
(***************************************************************************)
(* What the spending ledger guarantees for every set of operations, every  *)
(* cap, every supplement, any number of months and any delay between a     *)
(* caller's clock and its commit.                                          *)
(***************************************************************************)
EXTENDS Ledger, FiniteSetTheorems, TLAPS

-----------------------------------------------------------------------------
(***************************************************************************)
(* Sums of rows.                                                           *)
(***************************************************************************)
\* A sum of rows is a natural number.
LEMMA TotalType ==
  ASSUME NEW w
  PROVE  IsFiniteSet(Units(w)) /\ Total(w) \in Nat
<1>1. IsFiniteSet(1..MaxNusd)
  BY FS_Interval, LedgerAssumption
<1>2. IsFiniteSet(Ops \X (1..MaxNusd))
  BY <1>1, FS_Product, LedgerAssumption
<1>3. Units(w) \subseteq Ops \X (1..MaxNusd)
  BY DEF Units
<1>4. IsFiniteSet(Units(w))
  BY <1>2, <1>3, FS_Subset
<1> QED
  BY <1>4, FS_CardinalityType DEF Total

\* Rows that count for no more add up to no more.
LEMMA TotalMonotone ==
  ASSUME NEW v \in [Ops -> Nat], NEW w \in [Ops -> Nat],
         \A o \in Ops : v[o] <= w[o]
  PROVE  Total(v) <= Total(w)
<1>1. Units(v) \subseteq Units(w)
  BY LedgerAssumption DEF Units
<1> QED
  BY <1>1, TotalType, FS_Subset DEF Total

\* One row that comes to count for amount adds at most amount to the sum.
LEMMA TotalAdd ==
  ASSUME NEW v \in [Ops -> Nat], NEW w \in [Ops -> Nat],
         NEW r \in Ops, NEW amount \in Nat, v[r] = amount,
         \A o \in Ops \ {r} : v[o] <= w[o]
  PROVE  Total(v) <= Total(w) + amount
<1> DEFINE new == {r} \X (1..amount)
<1>1. IsFiniteSet(new) /\ Cardinality(new) = amount
  <2>1. IsFiniteSet({r}) /\ Cardinality({r}) = 1
    BY FS_Singleton
  <2>2. IsFiniteSet(1..amount) /\ Cardinality(1..amount) = amount
    BY FS_Interval
  <2>3. IsFiniteSet(new) /\ Cardinality(new) = 1 * amount
    BY <2>1, <2>2, FS_Product
  <2> QED BY <2>3
<1>2. Units(v) \subseteq Units(w) \cup new
  BY LedgerAssumption DEF Units
<1>3. IsFiniteSet(Units(w) \cup new)
  BY <1>1, TotalType, FS_Union
<1>4. Cardinality(Units(w) \cup new) <= Total(w) + amount
  <2>1. Cardinality(Units(w) \cup new)
          = Cardinality(Units(w)) + Cardinality(new) - Cardinality(Units(w) \cap new)
    BY <1>1, TotalType, FS_Union
  <2>2. Cardinality(Units(w) \cap new) \in Nat
    BY <1>1, FS_Subset, FS_CardinalityType
  <2> QED BY <1>1, <2>1, <2>2, TotalType DEF Total
<1>5. Cardinality(Units(v)) <= Cardinality(Units(w) \cup new)
  BY <1>2, <1>3, FS_Subset
<1>6. Cardinality(Units(w) \cup new) \in Nat
  BY <1>3, FS_CardinalityType
<1> QED
  BY <1>4, <1>5, <1>6, TotalType DEF Total

\* Rows that count for no more than a row can hold.
Bounded == [Ops -> Nusd]

\* The units of a sum that do not come from row r.
Others(w, r) == {p \in Units(w) : p[1] # r}

LEMMA TotalSplit ==
  ASSUME NEW w \in Bounded, NEW r \in Ops
  PROVE  /\ IsFiniteSet(Others(w, r))
         /\ Total(w) = Cardinality(Others(w, r)) + w[r]
<1> DEFINE own == {r} \X (1..w[r])
<1>0. w[r] \in Nat /\ w[r] <= MaxNusd /\ MaxNusd \in Nat
  BY LedgerAssumption DEF Bounded, Nusd
<1>1. IsFiniteSet(own) /\ Cardinality(own) = w[r]
  <2>1. IsFiniteSet({r}) /\ Cardinality({r}) = 1
    BY FS_Singleton
  <2>2. IsFiniteSet(1..w[r]) /\ Cardinality(1..w[r]) = w[r]
    <3>1. ASSUME NEW n \in Nat
          PROVE  IsFiniteSet(1..n) /\ Cardinality(1..n) = n
      BY FS_Interval
    <3> QED
      BY <1>0, <3>1
  <2>3. IsFiniteSet(own) /\ Cardinality(own) = 1 * w[r]
    BY <2>1, <2>2, FS_Product
  <2> QED
    BY <1>0, <2>3
<1>2. IsFiniteSet(Others(w, r))
  BY TotalType, FS_Subset DEF Others
<1>3. Units(w) = Others(w, r) \cup own
  BY <1>0 DEF Units, Others
<1>4. Others(w, r) \cap own = {}
  BY DEF Others
<1>5. Cardinality(Others(w, r) \cap own) = 0
  BY <1>4, FS_EmptySet
<1>6. Cardinality(Others(w, r)) \in Nat
  BY <1>2, FS_CardinalityType
<1>7. Cardinality(Others(w, r) \cup own) = Cardinality(Others(w, r)) + w[r]
  <2>1. Cardinality(Others(w, r) \cup own) =
          Cardinality(Others(w, r)) + Cardinality(own) - Cardinality(Others(w, r) \cap own)
    BY <1>1, <1>2, FS_Union
  <2> QED
    BY <2>1, <1>0, <1>1, <1>5, <1>6
<1> QED
  BY <1>2, <1>3, <1>7 DEF Total

\* A sum changes by no more than the one row that may have grown.
LEMMA TotalChange ==
  ASSUME NEW v \in Bounded, NEW w \in Bounded, NEW r \in Ops,
         \A o \in Ops \ {r} : v[o] = w[o]
  PROVE  Total(v) - v[r] = Total(w) - w[r]
<1>1. Others(v, r) = Others(w, r)
  BY DEF Others, Units
<1>2. Cardinality(Others(w, r)) \in Nat
  BY TotalSplit, FS_CardinalityType
<1>3. v[r] \in Nat /\ w[r] \in Nat
  BY LedgerAssumption DEF Bounded, Nusd
<1> QED
  BY <1>1, <1>2, <1>3, TotalSplit

-----------------------------------------------------------------------------
(***************************************************************************)
(* Type correctness.                                                       *)
(***************************************************************************)
LEMMA NoRowType == NoRow \in Row
BY LedgerAssumption DEF NoRow, Row, States, Unsettled, Nusd, Months

LEMMA InitTypeOK == LedgerInit => LedgerTypeOK
<1> SUFFICES ASSUME LedgerInit
             PROVE  LedgerTypeOK
  OBVIOUS
<1>1. ops \in [Ops -> Row]
  BY NoRowType DEF LedgerInit
<1>2. \A o \in Ops : ops[o].state = "absent" /\ ops[o].charged = 0 /\ ops[o].reserved = 0
  BY DEF LedgerInit, NoRow
<1>3. month \in Months /\ reviewed \subseteq Ops
  BY LedgerAssumption DEF LedgerInit, Months
<1>5. paused \in BOOLEAN
  BY DEF LedgerInit
<1>4. \A o \in Ops : /\ (ops[o].state = "settled") <=> (ops[o].charged # 0)
                     /\ (ops[o].state = "absent") <=> (ops[o].reserved = 0)
  BY <1>2
<1> QED
  BY <1>1, <1>3, <1>4, <1>5 DEF LedgerTypeOK

LEMMA NextTypeOK == LedgerTypeOK /\ [LedgerNext]_ledgerVars => LedgerTypeOK'
<1> SUFFICES ASSUME LedgerTypeOK, [LedgerNext]_ledgerVars
             PROVE  LedgerTypeOK'
  OBVIOUS
<1> USE LedgerAssumption DEF LedgerTypeOK
<1>1. ASSUME NEW o \in Ops, NEW amount \in Nusd, NEW now \in Clock,
             Reserve(o, amount, now)
      PROVE  LedgerTypeOK'
  <2>1. "reserved" \in States /\ amount \in 1..MaxNusd /\ now \in Months
    BY <1>1 DEF Reserve, States, Unsettled, Clock, Nusd
  <2> QED
    BY <1>1, <2>1 DEF Reserve, Row, Nusd, Months
<1>2. ASSUME NEW o \in Ops, NEW cost \in Nusd, NEW now \in Clock,
             Settle(o, cost, now)
      PROVE  LedgerTypeOK'
  BY <1>2 DEF Settle, Charge, Held, Row, States, Unsettled, Nusd, Months, Clock
<1>3. ASSUME NEW o \in Ops, Uncertain(o)
      PROVE  LedgerTypeOK'
  BY <1>3 DEF Uncertain, Held, Row, States, Unsettled
<1>4. CASE Pause
  BY <1>4 DEF Pause
<1>5. CASE Unpause
  BY <1>5 DEF Unpause
<1>6. CASE NextMonth
  BY <1>6 DEF NextMonth, Months
<1>7. CASE UNCHANGED ledgerVars
  BY <1>7 DEF ledgerVars
<1>8. ASSUME NEW o \in Ops, NEW now \in Clock, Release(o, now)
      PROVE  LedgerTypeOK'
  BY <1>8, <1>2 DEF Release, Nusd
<1> QED
  BY <1>1, <1>2, <1>3, <1>4, <1>5, <1>6, <1>7, <1>8 DEF LedgerNext

\* Rows stay well formed: a charge and its month exactly when settled, a
\* positive hold in every row (the CHECKs of migrations/001_accounting.sql).
THEOREM LedgerTypeCorrect == LedgerSpec => []LedgerTypeOK
<1>1. LedgerTypeOK /\ [LedgerNext]_ledgerVars => LedgerTypeOK'
  BY NextTypeOK
<1> QED
  BY InitTypeOK, <1>1, PTL DEF LedgerSpec

-----------------------------------------------------------------------------
(***************************************************************************)
(* The cap.  WithinCap is not inductive: that no row is dated after the    *)
(* current month is what makes a new month start with nothing admitted.    *)
(***************************************************************************)
NoRowFromTheFuture == \A o \in Ops : ops[o].created <= month

CapInvariant == LedgerTypeOK /\ NoRowFromTheFuture /\ WithinCap

\* Has the current month admitted a hold dated in it.
AdmittedNow ==
  \E o \in Ops : ops[o].state # "absent" /\ ~Straggler(o) /\ ops[o].admitted = month

LEMMA WeightTypes ==
  ASSUME LedgerTypeOK, NEW m \in Months
  PROVE  /\ Covered(m) \in [Ops -> Nat]
         /\ Counted(m) \in [Ops -> Nat]
         /\ Limit(m) \in Nat
BY LedgerAssumption
   DEF LedgerTypeOK, Covered, Counted, Limit, Row, Nusd, LeastOf

LEMMA NextFuture ==
  LedgerTypeOK /\ NoRowFromTheFuture /\ [LedgerNext]_ledgerVars => NoRowFromTheFuture'
<1> SUFFICES ASSUME LedgerTypeOK, NoRowFromTheFuture, [LedgerNext]_ledgerVars
             PROVE  NoRowFromTheFuture'
  OBVIOUS
<1> USE DEF NoRowFromTheFuture, LedgerTypeOK
<1>1. ASSUME NEW o \in Ops, NEW amount \in Nusd, NEW now \in Clock,
             Reserve(o, amount, now)
      PROVE  NoRowFromTheFuture'
  <2>1. ops' = [ops EXCEPT ![o] = ops'[o]] /\ ops'[o].created = month /\ month' = month
    BY <1>1 DEF Reserve
  <2> QED
    BY <2>1, LedgerAssumption DEF Months
<1>2. ASSUME NEW o \in Ops, NEW cost \in Nusd, NEW now \in Clock,
             Settle(o, cost, now)
      PROVE  NoRowFromTheFuture'
  BY <1>2 DEF Settle, Charge
<1>3. ASSUME NEW o \in Ops, Uncertain(o)
      PROVE  NoRowFromTheFuture'
  BY <1>3 DEF Uncertain
<1>4. CASE Pause
  BY <1>4 DEF Pause
<1>5. CASE Unpause
  BY <1>5 DEF Unpause
<1>6. CASE NextMonth
  BY <1>6, LedgerAssumption DEF NextMonth, Months, Row
<1>7. CASE UNCHANGED ledgerVars
  BY <1>7 DEF ledgerVars
<1>8. ASSUME NEW o \in Ops, NEW now \in Clock, Release(o, now)
      PROVE  NoRowFromTheFuture'
  BY <1>8, <1>2, LedgerAssumption DEF Release, Nusd
<1> QED
  BY <1>1, <1>2, <1>3, <1>4, <1>5, <1>6, <1>7, <1>8 DEF LedgerNext

\* A step that admits nothing new this month and lets no row cover more keeps
\* the month within its limit.
LEMMA NoMoreCovered ==
  ASSUME LedgerTypeOK, LedgerTypeOK', WithinCap, month' = month,
         AdmittedNow' => AdmittedNow,
         \A o \in Ops : Covered(month)'[o] <= Covered(month)[o]
  PROVE  WithinCap'
<1>1. Covered(month) \in [Ops -> Nat] /\ Limit(month) \in Nat
  BY WeightTypes DEF LedgerTypeOK
<1>2. Covered(month)' \in [Ops -> Nat]
  BY LedgerAssumption DEF LedgerTypeOK, Covered, Row, Nusd, LeastOf
<1>3. Total(Covered(month)') <= Total(Covered(month))
  BY <1>1, <1>2, TotalMonotone
<1>4. Total(Covered(month))' = Total(Covered(month)')
  BY DEF Total, Units
<1>5. Limit(month)' = Limit(month)
  BY DEF Limit
<1>6. Total(Covered(month)) \in Nat /\ Total(Covered(month)') \in Nat
  BY TotalType
<1> QED
  BY <1>1, <1>3, <1>4, <1>5, <1>6 DEF WithinCap, AdmittedNow

\* A hold dated in the month it is inserted in was weighed against everything
\* that counts in that month.
LEMMA ReserveWithinCap ==
  ASSUME LedgerTypeOK, LedgerTypeOK', WithinCap,
         NEW o \in Ops, NEW amount \in Nusd, NEW now \in Clock,
         Reserve(o, amount, now)
  PROVE  WithinCap'
<1> USE LedgerAssumption
<1>1. /\ month' = month /\ month \in Months
      /\ ops[o].state = "absent"
      /\ amount \in Nat
      /\ \A p \in Ops \ {o} : ops'[p] = ops[p]
      /\ ops'[o] = [state |-> "reserved", reserved |-> amount, cost |-> 0,
                    admitted |-> now, created |-> month, charged |-> 0]
  BY DEF Reserve, LedgerTypeOK, Nusd
<1>2. CASE now # month
  <2>1. Straggler(o)'
    BY <1>1, <1>2 DEF Straggler
  <2>2. AdmittedNow' => AdmittedNow
    BY <1>1, <2>1 DEF AdmittedNow, Straggler
  <2>3. ASSUME NEW p \in Ops
        PROVE  Covered(month)'[p] <= Covered(month)[p]
    <3>1. CASE p = o
      BY <1>1, <2>1, <3>1, WeightTypes DEF Covered, Straggler
    <3>2. CASE p # o
      <4>1. ops'[p] = ops[p]
        BY <1>1, <3>2
      <4>2. Covered(month)'[p] = Covered(month)[p]
        BY <1>1, <4>1 DEF Covered, Straggler, Held, SettledIn
      <4> QED
        BY <1>1, <4>2, WeightTypes
    <3> QED
      BY <3>1, <3>2
  <2> QED
    BY <1>1, <2>2, <2>3, NoMoreCovered
<1>3. CASE now = month
  <2>1. Counted(month) \in [Ops -> Nat] /\ Limit(month) \in Nat
    BY <1>1, WeightTypes
  <2>2. Covered(month)' \in [Ops -> Nat]
    BY DEF LedgerTypeOK, Covered, Row, Nusd, LeastOf
  <2>3. Covered(month)'[o] = amount
    BY <1>1, <1>3 DEF Covered, Straggler, Held, Unsettled
  <2>4. ASSUME NEW p \in Ops \ {o}
        PROVE  Covered(month)'[p] <= Counted(month)[p]
    <3>1. ops'[p] = ops[p] /\ ops[p] \in Row
      BY <1>1 DEF LedgerTypeOK
    <3> QED
      BY <1>1, <3>1
         DEF Covered, Counted, Straggler, Held, SettledIn, LeastOf, Row, Nusd
  <2>5. Total(Covered(month)') <= Total(Counted(month)) + amount
    BY <1>1, <2>1, <2>2, <2>3, <2>4, TotalAdd
  <2>6. Total(Counted(month)) + amount <= Limit(month)
    BY <1>3 DEF Reserve, Admits
  <2>7. Total(Covered(month))' = Total(Covered(month)') /\ Limit(month)' = Limit(month)
    BY <1>1 DEF Total, Units, Limit
  <2>8. Total(Covered(month)') \in Nat /\ Total(Counted(month)) \in Nat
    BY TotalType
  <2> QED
    BY <1>1, <2>1, <2>5, <2>6, <2>7, <2>8 DEF WithinCap
<1> QED
  BY <1>2, <1>3

\* A charge covers no more than its hold did.
LEMMA SettleWithinCap ==
  ASSUME LedgerTypeOK, LedgerTypeOK', WithinCap,
         NEW o \in Ops, NEW cost \in Nusd, NEW now \in Clock,
         Settle(o, cost, now)
  PROVE  WithinCap'
<1> USE LedgerAssumption
<1>1. /\ month' = month /\ month \in Months /\ Held(o)
      /\ \A p \in Ops \ {o} : ops'[p] = ops[p]
      /\ ops'[o].reserved = ops[o].reserved /\ ops'[o].state = "settled"
      /\ ops'[o].admitted = ops[o].admitted /\ ops'[o].created = ops[o].created
  BY DEF Settle, Charge, LedgerTypeOK, Row
<1>2. AdmittedNow' => AdmittedNow
  BY <1>1 DEF AdmittedNow, Straggler, Held, Unsettled
<1>3. ASSUME NEW p \in Ops
      PROVE  Covered(month)'[p] <= Covered(month)[p]
  <2>1. CASE p = o
    <3>1. ops[o] \in Row /\ ops'[o] \in Row
      BY DEF LedgerTypeOK
    <3> QED
      BY <1>1, <2>1, <3>1
         DEF Covered, Straggler, Held, SettledIn, LeastOf, Row, Nusd, Unsettled
  <2>2. CASE p # o
    <3>1. ops'[p] = ops[p]
      BY <1>1, <2>2
    <3>2. Covered(month)'[p] = Covered(month)[p]
      BY <1>1, <3>1 DEF Covered, Straggler, Held, SettledIn
    <3> QED
      BY <1>1, <3>2, WeightTypes
  <2> QED
    BY <2>1, <2>2
<1> QED
  BY <1>1, <1>2, <1>3, NoMoreCovered

\* A doubt changes what is known of a hold, not what it covers.
LEMMA UncertainWithinCap ==
  ASSUME LedgerTypeOK, LedgerTypeOK', WithinCap, NEW o \in Ops, Uncertain(o)
  PROVE  WithinCap'
<1>1. /\ month' = month /\ month \in Months /\ Held(o)
      /\ \A p \in Ops \ {o} : ops'[p] = ops[p]
      /\ ops'[o].reserved = ops[o].reserved /\ ops'[o].state = "uncertain"
      /\ ops'[o].admitted = ops[o].admitted /\ ops'[o].created = ops[o].created
  BY DEF Uncertain, LedgerTypeOK, Row
<1>2. AdmittedNow' => AdmittedNow
  BY <1>1 DEF AdmittedNow, Straggler, Held, Unsettled
<1>3. ASSUME NEW p \in Ops
      PROVE  Covered(month)'[p] <= Covered(month)[p]
  <2>1. Covered(month)'[p] = Covered(month)[p]
    <3>1. CASE p = o
      BY <1>1, <3>1 DEF Covered, Straggler, Held, Unsettled
    <3>2. CASE p # o
      BY <1>1, <3>2 DEF Covered, Straggler, Held, SettledIn
    <3> QED
      BY <3>1, <3>2
  <2> QED
    BY <1>1, <2>1, WeightTypes
<1> QED
  BY <1>1, <1>2, <1>3, NoMoreCovered

\* Steps that touch neither the rows nor the month leave the cap as it was.
LEMMA SameRowsWithinCap ==
  ASSUME LedgerTypeOK, WithinCap, ops' = ops, month' = month
  PROVE  WithinCap'
BY DEF WithinCap, Covered, Straggler, Held, SettledIn, Total, Units, Limit

LEMMA NextWithinCap ==
  CapInvariant /\ LedgerTypeOK' /\ [LedgerNext]_ledgerVars => WithinCap'
<1> SUFFICES ASSUME CapInvariant, LedgerTypeOK', [LedgerNext]_ledgerVars
             PROVE  WithinCap'
  OBVIOUS
<1> USE DEF CapInvariant
<1>1. ASSUME NEW o \in Ops, NEW amount \in Nusd, NEW now \in Clock,
             Reserve(o, amount, now)
      PROVE  WithinCap'
  BY <1>1, ReserveWithinCap
<1>2. ASSUME NEW o \in Ops, NEW cost \in Nusd, NEW now \in Clock,
             Settle(o, cost, now)
      PROVE  WithinCap'
  BY <1>2, SettleWithinCap
<1>3. ASSUME NEW o \in Ops, Uncertain(o)
      PROVE  WithinCap'
  BY <1>3, UncertainWithinCap
<1>4. CASE Pause
  BY <1>4, SameRowsWithinCap DEF Pause
<1>5. CASE Unpause
  BY <1>5, SameRowsWithinCap DEF Unpause
<1>6. CASE NextMonth
  <2>1. ASSUME NEW o \in Ops, ~Straggler(o)'
        PROVE  ops'[o].admitted # month'
    BY <1>6, <2>1, LedgerAssumption
       DEF NextMonth, Straggler, NoRowFromTheFuture, LedgerTypeOK, Row, Months
  <2> QED
    BY <2>1 DEF WithinCap
<1>7. CASE UNCHANGED ledgerVars
  BY <1>7, SameRowsWithinCap DEF ledgerVars
<1>8. ASSUME NEW o \in Ops, NEW now \in Clock, Release(o, now)
      PROVE  WithinCap'
  BY <1>8, <1>2, LedgerAssumption DEF Release, Nusd
<1> QED
  BY <1>1, <1>2, <1>3, <1>4, <1>5, <1>6, <1>7, <1>8 DEF LedgerNext

\* A month that has admitted spending dated in it commits no more than its
\* limit: for every cap and supplement, any number of callers and months, and
\* however late a call commits after reading its clock.
THEOREM CapHolds == LedgerSpec => []WithinCap
<1>1. LedgerInit => CapInvariant
  <2>1. LedgerInit => NoRowFromTheFuture
    BY DEF LedgerInit, NoRow, NoRowFromTheFuture
  <2>2. LedgerInit => WithinCap
    BY DEF LedgerInit, NoRow, WithinCap
  <2> QED
    BY <2>1, <2>2, InitTypeOK DEF CapInvariant
<1>2. CapInvariant /\ [LedgerNext]_ledgerVars => CapInvariant'
  BY NextTypeOK, NextFuture, NextWithinCap DEF CapInvariant
<1>3. CapInvariant => WithinCap
  BY DEF CapInvariant
<1> QED
  BY <1>1, <1>2, <1>3, PTL DEF LedgerSpec

-----------------------------------------------------------------------------
(***************************************************************************)
(* Overruns and settled rows.                                              *)
(***************************************************************************)
\* An account with an overrun nobody has reviewed is paused.
OverrunsPaused == ~paused => \A p \in Ops : Overran(p) => p \in reviewed

LEMMA NextOverrunsPaused ==
  LedgerTypeOK /\ OverrunsPaused /\ [LedgerNext]_ledgerVars => OverrunsPaused'
<1> SUFFICES ASSUME LedgerTypeOK, OverrunsPaused, [LedgerNext]_ledgerVars
             PROVE  OverrunsPaused'
  OBVIOUS
<1> USE DEF OverrunsPaused
<1>1. ASSUME NEW o \in Ops, NEW amount \in Nusd, NEW now \in Clock,
             Reserve(o, amount, now)
      PROVE  OverrunsPaused'
  <2>1. /\ paused' = paused /\ reviewed' = reviewed /\ ops'[o].state = "reserved"
        /\ \A p \in Ops \ {o} : ops'[p] = ops[p]
    BY <1>1 DEF Reserve, LedgerTypeOK
  <2> QED
    BY <2>1 DEF Overran
<1>2. ASSUME NEW o \in Ops, NEW cost \in Nusd, NEW now \in Clock,
             Settle(o, cost, now)
      PROVE  OverrunsPaused'
  <2>1. /\ reviewed' = reviewed
        /\ \A p \in Ops \ {o} : ops'[p] = ops[p]
        /\ ops'[o].cost = cost /\ ops'[o].reserved = ops[o].reserved
    BY <1>2 DEF Settle, Charge, LedgerTypeOK, Row
  <2>2. ~paused' => ~paused /\ ~(cost > ops[o].reserved)
    BY <1>2 DEF Settle
  <2> QED
    BY <2>1, <2>2 DEF Overran
<1>3. ASSUME NEW o \in Ops, Uncertain(o)
      PROVE  OverrunsPaused'
  <2>1. /\ paused' = paused /\ reviewed' = reviewed /\ ops'[o].state = "uncertain"
        /\ \A p \in Ops \ {o} : ops'[p] = ops[p]
    BY <1>3 DEF Uncertain, LedgerTypeOK, Row
  <2> QED
    BY <2>1 DEF Overran
<1>4. CASE Pause
  BY <1>4 DEF Pause
<1>5. CASE Unpause
  BY <1>5 DEF Unpause, Overran
<1>6. CASE NextMonth
  BY <1>6 DEF NextMonth, Overran
<1>7. CASE UNCHANGED ledgerVars
  BY <1>7 DEF ledgerVars, Overran
<1>8. ASSUME NEW o \in Ops, NEW now \in Clock, Release(o, now)
      PROVE  OverrunsPaused'
  BY <1>8, <1>2, LedgerAssumption DEF Release, Nusd
<1> QED
  BY <1>1, <1>2, <1>3, <1>4, <1>5, <1>6, <1>7, <1>8 DEF LedgerNext

\* A step that inserts a row finds the account open.
LEMMA AdmissionNeedsOpenAccount ==
  ASSUME LedgerTypeOK, [LedgerNext]_ledgerVars, NEW o \in Ops,
         ops[o].state = "absent", ops'[o].state # "absent"
  PROVE  ~paused
<1>1. ASSUME NEW p \in Ops, NEW amount \in Nusd, NEW now \in Clock,
             Reserve(p, amount, now)
      PROVE  ~paused
  BY <1>1 DEF Reserve, Admits
<1>2. ASSUME NEW p \in Ops, NEW cost \in Nusd, NEW now \in Clock,
             Settle(p, cost, now)
      PROVE  FALSE
  BY <1>2 DEF Settle, Charge, Held, Unsettled, LedgerTypeOK
<1>3. ASSUME NEW p \in Ops, Uncertain(p)
      PROVE  FALSE
  BY <1>3 DEF Uncertain, Held, Unsettled, LedgerTypeOK
<1>4. CASE Pause \/ Unpause \/ NextMonth \/ UNCHANGED ledgerVars
  BY <1>4 DEF Pause, Unpause, NextMonth, ledgerVars
<1>5. ASSUME NEW p \in Ops, NEW now \in Clock, Release(p, now)
      PROVE  FALSE
  BY <1>5, <1>2, LedgerAssumption DEF Release, Nusd
<1> QED
  BY <1>1, <1>2, <1>3, <1>4, <1>5 DEF LedgerNext

\* Nothing is admitted while an overrun waits for review, whatever callers the
\* account has and however their steps interleave.
THEOREM OverrunsStopAdmission == LedgerSpec => NoAdmissionAfterOverrun
<1> DEFINE Step == \A o \in Ops : ops[o].state = "absent" /\ ops'[o].state # "absent"
                     => \A p \in Ops : Overran(p) => p \in reviewed
<1>1. LedgerInit => OverrunsPaused
  BY DEF LedgerInit, NoRow, OverrunsPaused, Overran
<1>2. LedgerTypeOK /\ OverrunsPaused /\ [LedgerNext]_ledgerVars => OverrunsPaused'
  BY NextOverrunsPaused
<1>3. LedgerTypeOK /\ OverrunsPaused /\ [LedgerNext]_ledgerVars => [Step]_ledgerVars
  BY AdmissionNeedsOpenAccount DEF OverrunsPaused
<1> HIDE DEF Step
<1>4. LedgerSpec => [][Step]_ledgerVars
  BY <1>1, <1>2, <1>3, LedgerTypeCorrect, PTL DEF LedgerSpec
<1> QED
  BY <1>4 DEF NoAdmissionAfterOverrun, Step

\* What one step may do to one row.
LEMMA RowStep ==
  ASSUME LedgerTypeOK, [LedgerNext]_ledgerVars, NEW o \in Ops
  PROVE  /\ ops[o].state = "settled" => ops'[o] = ops[o]
         /\ Held(o) /\ ops'[o].state # "settled"
              => ops'[o].reserved = ops[o].reserved /\ ops'[o].state \in Unsettled
<1>1. ASSUME NEW p \in Ops, NEW amount \in Nusd, NEW now \in Clock,
             Reserve(p, amount, now)
      PROVE  ops[o].state # "absent" => ops'[o] = ops[o]
  BY <1>1 DEF Reserve, LedgerTypeOK
<1>2. ASSUME NEW p \in Ops, NEW cost \in Nusd, NEW now \in Clock,
             Settle(p, cost, now)
      PROVE  ops'[o] = ops[o] \/ (Held(o) /\ ops'[o].state = "settled")
  BY <1>2 DEF Settle, Charge, LedgerTypeOK, Row
<1>3. ASSUME NEW p \in Ops, Uncertain(p)
      PROVE  \/ ops'[o] = ops[o]
             \/ /\ Held(o) /\ ops'[o].state = "uncertain"
                /\ ops'[o].reserved = ops[o].reserved
  BY <1>3 DEF Uncertain, LedgerTypeOK, Row
<1>4. CASE Pause \/ Unpause \/ NextMonth \/ UNCHANGED ledgerVars
  BY <1>4 DEF Pause, Unpause, NextMonth, ledgerVars, Held
<1>5. ASSUME NEW p \in Ops, NEW now \in Clock, Release(p, now)
      PROVE  ops'[o] = ops[o] \/ (Held(o) /\ ops'[o].state = "settled")
  BY <1>5, <1>2, LedgerAssumption DEF Release, Nusd
<1> QED
  BY <1>1, <1>2, <1>3, <1>4, <1>5 DEF LedgerNext, Held, Unsettled

\* A settled row never changes again, and a hold is only ever given up by
\* settling it.
THEOREM SettledStaysSettled == LedgerSpec => SettledIsFinal
<1> DEFINE Step == \A o \in Ops :
       /\ ops[o].state = "settled" => ops'[o] = ops[o]
       /\ Held(o) /\ ops'[o].state # "settled"
            => ops'[o].reserved = ops[o].reserved /\ ops'[o].state \in Unsettled
<1>1. LedgerTypeOK /\ [LedgerNext]_ledgerVars => [Step]_ledgerVars
  BY RowStep
<1> HIDE DEF Step
<1>2. LedgerSpec => [][Step]_ledgerVars
  BY <1>1, LedgerTypeCorrect, PTL DEF LedgerSpec
<1> QED
  BY <1>2 DEF SettledIsFinal, Step

-----------------------------------------------------------------------------
(***************************************************************************)
(* The abstract account.  Its held and charged are two sums over the rows, *)
(* and the sum of the admission check is both of them together.            *)
(***************************************************************************)
HeldNow == [o \in Ops |-> IF Held(o) THEN ops[o].reserved ELSE 0]
ChargedNow == [o \in Ops |-> IF SettledIn(o, month) THEN ops[o].cost ELSE 0]

\* A new month starts with nothing charged in it.
NoChargeFromTheFuture == \A o \in Ops : ops[o].charged <= month

LEMMA NextCharges ==
  LedgerTypeOK /\ NoChargeFromTheFuture /\ [LedgerNext]_ledgerVars => NoChargeFromTheFuture'
<1> SUFFICES ASSUME LedgerTypeOK, NoChargeFromTheFuture, [LedgerNext]_ledgerVars
             PROVE  NoChargeFromTheFuture'
  OBVIOUS
<1> USE LedgerAssumption DEF LedgerTypeOK, NoChargeFromTheFuture
<1>0. month \in Nat /\ \A o \in Ops : ops[o].charged \in Nat
  BY DEF Months, Row
<1>1. ASSUME NEW o \in Ops, NEW amount \in Nusd, NEW now \in Clock, Reserve(o, amount, now)
      PROVE  NoChargeFromTheFuture'
  BY <1>0, <1>1 DEF Reserve
<1>2. ASSUME NEW o \in Ops, NEW cost, NEW now \in Clock, Settle(o, cost, now)
      PROVE  NoChargeFromTheFuture'
  <2>1. ops'[o].charged = now /\ now <= month /\ month' = month
        /\ \A p \in Ops \ {o} : ops'[p] = ops[p]
    BY <1>2 DEF Settle, Charge, Clock, Row
  <2> QED
    BY <2>1
<1>3. ASSUME NEW o \in Ops, Uncertain(o)
      PROVE  NoChargeFromTheFuture'
  <2>1. ops'[o].charged = ops[o].charged /\ month' = month
        /\ \A p \in Ops \ {o} : ops'[p] = ops[p]
    BY <1>3 DEF Uncertain, Row
  <2> QED
    BY <2>1
<1>4. CASE Pause \/ Unpause \/ UNCHANGED ledgerVars
  BY <1>4 DEF Pause, Unpause, ledgerVars
<1>5. CASE NextMonth
  BY <1>0, <1>5 DEF NextMonth
<1> QED
  BY <1>1, <1>2, <1>3, <1>4, <1>5 DEF LedgerNext, Release

LEMMA SumTypes ==
  ASSUME LedgerTypeOK
  PROVE  HeldNow \in Bounded /\ ChargedNow \in Bounded /\ Counted(month) \in Bounded
<1>1. \A o \in Ops : ops[o].reserved \in Nusd /\ ops[o].cost \in Nusd
  BY DEF LedgerTypeOK, Row
<1>2. 0 \in Nusd
  BY LedgerAssumption DEF Nusd
<1> QED
  BY <1>1, <1>2 DEF HeldNow, ChargedNow, Counted, Bounded

LEMMA CountedIsBoth ==
  ASSUME LedgerTypeOK
  PROVE  Total(Counted(month)) = Total(HeldNow) + Total(ChargedNow)
<1>1. \A o \in Ops : /\ Counted(month)[o] = HeldNow[o] \/ Counted(month)[o] = ChargedNow[o]
                     /\ HeldNow[o] = 0 \/ ChargedNow[o] = 0
                     /\ HeldNow[o] = 0 => Counted(month)[o] = ChargedNow[o]
                     /\ ChargedNow[o] = 0 => Counted(month)[o] = HeldNow[o]
                     /\ HeldNow[o] \in Nat /\ ChargedNow[o] \in Nat
  BY LedgerAssumption DEF HeldNow, ChargedNow, Counted, Held, SettledIn, Unsettled, LedgerTypeOK, Row, Nusd
<1>2. \A o \in Ops : \A n \in 1..MaxNusd :
        /\ n <= Counted(month)[o] <=> n <= HeldNow[o] \/ n <= ChargedNow[o]
        /\ ~(n <= HeldNow[o] /\ n <= ChargedNow[o])
  BY <1>1, LedgerAssumption
<1>3. /\ Units(Counted(month)) = Units(HeldNow) \cup Units(ChargedNow)
      /\ Units(HeldNow) \cap Units(ChargedNow) = {}
  BY <1>2 DEF Units
<1>4. Cardinality(Units(HeldNow) \cap Units(ChargedNow)) = 0
  BY <1>3, FS_EmptySet
<1>5. Cardinality(Units(HeldNow) \cup Units(ChargedNow)) =
        Cardinality(Units(HeldNow)) + Cardinality(Units(ChargedNow))
        - Cardinality(Units(HeldNow) \cap Units(ChargedNow))
  BY TotalType, FS_Union
<1> QED
  <2>1. Units(Counted(month)) = Units(HeldNow) \cup Units(ChargedNow)
    BY <1>3
  <2>2. Total(HeldNow) \in Nat /\ Total(ChargedNow) \in Nat
    BY TotalType
  <2>3. /\ Total(Counted(month)) = Cardinality(Units(HeldNow) \cup Units(ChargedNow))
        /\ Total(HeldNow) = Cardinality(Units(HeldNow))
        /\ Total(ChargedNow) = Cardinality(Units(ChargedNow))
    BY <2>1 DEF Total
  <2> QED
    BY <1>4, <1>5, <2>2, <2>3

\* The values of the abstract account after a step, sum by sum.
LEMMA SumsAfter ==
  ASSUME LedgerTypeOK, LedgerTypeOK', NEW o \in Ops, \A p \in Ops \ {o} : ops'[p] = ops[p],
         month' = month
  PROVE  /\ Total(HeldNow)' - HeldNow'[o] = Total(HeldNow) - HeldNow[o]
         /\ Total(ChargedNow)' - ChargedNow'[o] = Total(ChargedNow) - ChargedNow[o]
<1>1. HeldNow \in Bounded /\ ChargedNow \in Bounded
  BY SumTypes
<1>2. HeldNow' \in Bounded /\ ChargedNow' \in Bounded
  <2>1. \A p \in Ops : ops'[p].reserved \in Nusd /\ ops'[p].cost \in Nusd
    BY DEF LedgerTypeOK, Row
  <2>2. 0 \in Nusd
    BY LedgerAssumption DEF Nusd
  <2> QED
    BY <2>1, <2>2 DEF HeldNow, ChargedNow, Bounded
<1>3. \A p \in Ops \ {o} : HeldNow'[p] = HeldNow[p] /\ ChargedNow'[p] = ChargedNow[p]
  BY DEF HeldNow, ChargedNow, Held, SettledIn
<1>4. /\ Total(HeldNow') - HeldNow'[o] = Total(HeldNow) - HeldNow[o]
      /\ Total(ChargedNow') - ChargedNow'[o] = Total(ChargedNow) - ChargedNow[o]
  BY <1>1, <1>2, <1>3, TotalChange
<1>5. Total(HeldNow)' = Total(HeldNow') /\ Total(ChargedNow)' = Total(ChargedNow')
  BY DEF Total, Units
<1> QED
  BY <1>4, <1>5

LEMMA AllowanceStep ==
  ASSUME MaxLag = 0, LedgerTypeOK, LedgerTypeOK', NoChargeFromTheFuture,
         [LedgerNext]_ledgerVars
  PROVE  \/ Account!Next
         \/ UNCHANGED <<Limit(month), Total(HeldNow), Total(ChargedNow), ~paused>>
<1> USE LedgerAssumption
<1>0. /\ \A now \in Clock : now = month
      /\ month \in Months /\ paused \in BOOLEAN
      /\ Total(HeldNow) \in Nat /\ Total(ChargedNow) \in Nat
      /\ Total(HeldNow)' \in Nat /\ Total(ChargedNow)' \in Nat
  <2>1. Total(HeldNow)' = Total(HeldNow') /\ Total(ChargedNow)' = Total(ChargedNow')
    BY DEF Total, Units
  <2> QED
    BY <2>1, TotalType DEF Clock, LedgerTypeOK, Months
<1>1. ASSUME NEW o \in Ops, NEW amount \in Nusd, NEW now \in Clock, Reserve(o, amount, now)
      PROVE  Account!Next
  <2>1. /\ now = month /\ month' = month /\ ~paused /\ paused' = paused
        /\ amount \in 1..MaxNusd /\ amount \in Nat
        /\ Total(Counted(month)) + amount <= Limit(month)
        /\ ops[o].state = "absent"
        /\ ops'[o].state = "reserved" /\ ops'[o].reserved = amount
        /\ \A p \in Ops \ {o} : ops'[p] = ops[p]
    BY <1>0, <1>1 DEF Reserve, Admits, LedgerTypeOK, Nusd
  <2>2. /\ HeldNow[o] = 0 /\ HeldNow'[o] = amount /\ ChargedNow[o] = 0 /\ ChargedNow'[o] = 0
    BY <2>1 DEF HeldNow, ChargedNow, Held, Unsettled, SettledIn
  <2>3. /\ Total(HeldNow)' = Total(HeldNow) + amount
        /\ Total(ChargedNow)' = Total(ChargedNow)
    BY <1>0, <2>1, <2>2, SumsAfter
  <2>4. Total(HeldNow) + Total(ChargedNow) + amount <= Limit(month)
    BY <2>1, CountedIsBoth
  <2>5. Limit(month)' = Limit(month)
    BY <2>1 DEF Limit
  <2>6. Account!Admit(amount)
    BY <2>1, <2>3, <2>4, <2>5 DEF Account!Admit, HeldNow, ChargedNow
  <2> QED
    BY <2>1, <2>6 DEF Account!Next
<1>2. ASSUME NEW o \in Ops, NEW cost \in Nusd, NEW now \in Clock, Settle(o, cost, now)
      PROVE  Account!Next
  <2> DEFINE hold == ops[o].reserved
  <2>1. /\ now = month /\ month' = month /\ paused' = (paused \/ cost > hold)
        /\ Held(o) /\ hold \in 1..MaxNusd /\ hold \in Nat /\ cost \in Nat /\ cost \in 0..MaxNusd
        /\ ops'[o].state = "settled" /\ ops'[o].cost = cost /\ ops'[o].charged = month
        /\ \A p \in Ops \ {o} : ops'[p] = ops[p]
    BY <1>0, <1>2 DEF Settle, Charge, LedgerTypeOK, Row, Nusd, Held, Unsettled
  <2>2. /\ HeldNow[o] = hold /\ HeldNow'[o] = 0 /\ ChargedNow[o] = 0 /\ ChargedNow'[o] = cost
    BY <2>1 DEF HeldNow, ChargedNow, Held, Unsettled, SettledIn
  <2>3. /\ Total(HeldNow)' = Total(HeldNow) - hold
        /\ Total(ChargedNow)' = Total(ChargedNow) + cost
    BY <1>0, <2>1, <2>2, SumsAfter
  <2>4. hold <= Total(HeldNow)
    BY <1>0, <2>1, <2>3
  <2>5. Limit(month)' = Limit(month) /\ ((~paused)' <=> (~paused /\ cost <= hold))
    <3>1. Limit(month)' = Limit(month)
      BY <2>1 DEF Limit
    <3>2. cost > hold <=> ~(cost <= hold)
      BY <2>1
    <3>3. paused' <=> (paused \/ cost > hold)
      BY <2>1
    <3> QED
      BY <3>1, <3>2, <3>3, Zenon
  <2>6. Account!Close(hold, cost)
    BY <2>3, <2>4, <2>5 DEF Account!Close, HeldNow, ChargedNow
  <2> QED
    BY <2>1, <2>6 DEF Account!Next
<1>3. ASSUME NEW o \in Ops, NEW now \in Clock, Release(o, now)
      PROVE  Account!Next
  BY <1>2, <1>3 DEF Release, Nusd
<1>4. ASSUME NEW o \in Ops, Uncertain(o)
      PROVE  UNCHANGED <<Limit(month), Total(HeldNow), Total(ChargedNow), ~paused>>
  <2>1. /\ month' = month /\ paused' = paused /\ Held(o)
        /\ ops'[o].state = "uncertain" /\ ops'[o].reserved = ops[o].reserved
        /\ \A p \in Ops \ {o} : ops'[p] = ops[p]
    BY <1>4 DEF Uncertain, LedgerTypeOK, Row
  <2>2. /\ HeldNow'[o] = HeldNow[o] /\ ChargedNow'[o] = ChargedNow[o]
    BY <2>1 DEF HeldNow, ChargedNow, Held, Unsettled, SettledIn
  <2>3. HeldNow[o] \in Nat /\ ChargedNow[o] \in Nat
    BY SumTypes DEF Bounded, Nusd
  <2> QED
    BY <1>0, <2>1, <2>2, <2>3, SumsAfter DEF Limit
<1>5. CASE Pause \/ Unpause
  <2>1. /\ paused' \in BOOLEAN /\ month' = month /\ ops' = ops
    BY <1>5 DEF Pause, Unpause
  <2>2. /\ Limit(month)' = Limit(month) /\ Total(HeldNow)' = Total(HeldNow)
        /\ Total(ChargedNow)' = Total(ChargedNow)
    BY <2>1 DEF Limit, Total, Units, HeldNow, ChargedNow, Held, SettledIn
  <2>3. Account!SetOpen(~paused')
    BY <2>2 DEF Account!SetOpen, HeldNow, ChargedNow
  <2> QED
    BY <2>1, <2>3 DEF Account!Next
<1>6. CASE NextMonth
  <2>1. month' = month + 1 /\ month' \in Months /\ paused' = paused /\ ops' = ops
    BY <1>0, <1>6 DEF NextMonth, Months
  <2>2. \A o \in Ops : ChargedNow'[o] = 0
    <3>1. \A o \in Ops : ops[o].charged # month + 1
      BY <1>0 DEF NoChargeFromTheFuture, LedgerTypeOK, Row, Months
    <3> QED
      BY <2>1, <3>1 DEF ChargedNow, SettledIn
  <2>3. Total(ChargedNow)' = 0
    <3>1. Units(ChargedNow)' = {}
      BY <2>2 DEF Units
    <3> QED
      BY <3>1, FS_EmptySet DEF Total
  <2>4. Total(HeldNow)' = Total(HeldNow)
    BY <2>1 DEF Total, Units, HeldNow, Held
  <2>5. Limit(month)' \in {Limit(m) : m \in Months}
    BY <2>1 DEF Limit
  <2>6. Account!NewMonth
    BY <2>1, <2>3, <2>4, <2>5 DEF Account!NewMonth, HeldNow, ChargedNow
  <2> QED
    BY <2>6 DEF Account!Next
<1>7. CASE UNCHANGED ledgerVars
  BY <1>7 DEF ledgerVars, Limit, Total, Units, HeldNow, ChargedNow, Held, SettledIn
<1> QED
  BY <1>1, <1>2, <1>3, <1>4, <1>5, <1>6, <1>7 DEF LedgerNext

LEMMA AllowanceInit == LedgerInit => Account!Init
<1> SUFFICES ASSUME LedgerInit
             PROVE  Account!Init
  OBVIOUS
<1>1. \A o \in Ops : ~Held(o) /\ ~SettledIn(o, month)
  BY DEF LedgerInit, NoRow, Held, Unsettled, SettledIn
<1>2. Units(HeldNow) = {} /\ Units(ChargedNow) = {}
  BY <1>1, LedgerAssumption DEF Units, HeldNow, ChargedNow
<1>3. Total(HeldNow) = 0 /\ Total(ChargedNow) = 0
  BY <1>2, FS_EmptySet DEF Total
<1>4. Limit(month) \in {Limit(m) : m \in Months} /\ (~paused) = TRUE
  BY LedgerAssumption DEF LedgerInit, Months
<1> QED
  BY <1>3, <1>4 DEF Account!Init, HeldNow, ChargedNow

\* When every clock is of the month of its commit, the ledger implements the abstract
\* account: each of its transactions gives out only what fits, closes a hold once, or
\* changes nothing the owner can see (reserve, settle, release, uncertain in spending.py).
THEOREM LedgerIsAllowance ==
  ASSUME MaxLag = 0
  PROVE  LedgerSpec => ImplementsAllowance
<1> DEFINE Inv == LedgerTypeOK /\ NoChargeFromTheFuture
<1>1. LedgerInit => Inv
  <2>1. LedgerInit => NoChargeFromTheFuture
    BY DEF LedgerInit, NoRow, NoChargeFromTheFuture
  <2> QED
    BY <2>1, InitTypeOK
<1>2. Inv /\ [LedgerNext]_ledgerVars => Inv'
  BY NextTypeOK, NextCharges
<1>3. Inv /\ Inv' /\ [LedgerNext]_ledgerVars => [Account!Next]_(Account!vars)
  <2> SUFFICES ASSUME Inv, Inv', [LedgerNext]_ledgerVars
               PROVE  Account!Next \/ UNCHANGED Account!vars
    OBVIOUS
  <2> QED
    BY AllowanceStep DEF Account!vars, HeldNow, ChargedNow
<1> QED
  BY <1>1, <1>2, <1>3, AllowanceInit, PTL DEF LedgerSpec, ImplementsAllowance, Account!Spec
=============================================================================
