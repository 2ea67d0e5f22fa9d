--------------------------- MODULE GatewayProofs ---------------------------
(***************************************************************************)
(* The gateway uses the ledger only through its transactions, never loses  *)
(* sight of money the provider may ask for, and keeps every turn within    *)
(* its limits: for any number of turns and calls, any limits, and every    *)
(* order of replies, timeouts, cancellations, failures of the database and *)
(* late charges.                                                           *)
(***************************************************************************)
EXTENDS Gateway, LedgerProofs

\* The rows a call in a stage may have.
Opened == {"releasing", "sending", "waiting", "settling", "doubting", "mistrusting"}
Unopened == {"idle", "reserving"}
\* The stages of a call whose request the provider may have received.
AfterSend == {"waiting", "settling", "doubting", "mistrusting", "pausing"} \cup Ended

CallTypes ==
  /\ pc \in [Ops -> Stage]
  /\ need \in [Ops -> Nusd]
  /\ asked \in [Ops -> Months]
  /\ sent \subseteq Ops
  /\ spent \in [Ops -> Nusd \cup {Unknown}]

\* The row of a call matches its stage, and what was sent has a row that is open
\* or holds exactly what the provider charges.
RowFollows(c) ==
  /\ pc[c] \in Unopened => ops[c].state = "absent"
  /\ pc[c] \in Opened => Held(c)
  /\ pc[c] \in {"waiting", "settling"} => c \in sent
  /\ pc[c] = "settling" => spent[c] # Unknown
  /\ c \in sent =>
       /\ pc[c] \in AfterSend
       /\ Held(c) \/ (ops[c].state = "settled" /\ ops[c].cost = spent[c])

RowsFollowCalls == \A c \in Ops : RowFollows(c)

\* The clock a statement carries is one the ledger accepts, and not before the
\* clock its row was admitted with.
ClockFollows(c) ==
  /\ ops[c].admitted <= month
  /\ pc[c] \in Asking =>
       asked[c] <= month /\ month - MaxLag <= asked[c] /\ ops[c].admitted <= asked[c]

ClocksFollow == \A c \in Ops : ClockFollows(c)

CallInvariant == LedgerTypeOK /\ CallTypes /\ RowsFollowCalls /\ ClocksFollow

LEMMA InitCallInvariant == Init => CallInvariant
<1> SUFFICES ASSUME Init
             PROVE  CallInvariant
  OBVIOUS
<1> USE LedgerAssumption DEF Init
<1>1. LedgerTypeOK
  BY InitTypeOK
<1>2. CallTypes
  BY DEF CallTypes, Stage, Nusd, Months
<1>3. RowsFollowCalls
  BY DEF RowsFollowCalls, RowFollows, LedgerInit, NoRow, Unopened, Opened
<1>4. ClocksFollow
  BY DEF ClocksFollow, ClockFollows, LedgerInit, NoRow, Asking
<1> QED
  BY <1>1, <1>2, <1>3, <1>4 DEF CallInvariant

-----------------------------------------------------------------------------
(***************************************************************************)
(* Every step of the gateway is a transaction of the ledger or leaves it   *)
(* alone.                                                                  *)
(***************************************************************************)
LEMMA AdvanceIsLedgerStep ==
  ASSUME CallInvariant, NEW c \in Ops, Advance(c)
  PROVE  [LedgerNext]_ledgerVars
<1> USE LedgerAssumption DEF CallInvariant
<1>1. ASSUME Reserve(c, need[c], asked[c]), At(c, "reserving")
      PROVE  LedgerNext
  <2>1. need[c] \in Nusd /\ asked[c] \in Clock
    BY <1>1 DEF CallTypes, ClocksFollow, ClockFollows, Clock, At, Asking, Months, LedgerTypeOK
  <2> QED
    BY <1>1, <2>1 DEF LedgerNext
<1>2. ASSUME Release(c, asked[c]), At(c, "releasing")
      PROVE  LedgerNext
  <2>1. asked[c] \in Clock /\ ops[c].admitted <= asked[c]
    BY <1>2 DEF CallTypes, ClocksFollow, ClockFollows, Clock, At, Asking, Months, LedgerTypeOK
  <2> QED
    BY <1>2, <2>1 DEF LedgerNext
<1>3. ASSUME Settle(c, spent[c], asked[c]), At(c, "settling")
      PROVE  LedgerNext
  <2>1. asked[c] \in Clock /\ ops[c].admitted <= asked[c]
    BY <1>3 DEF CallTypes, ClocksFollow, ClockFollows, Clock, At, Asking, Months, LedgerTypeOK
  <2>2. spent[c] \in Nusd
    BY <1>3 DEF CallTypes, RowsFollowCalls, RowFollows, At
  <2> QED
    BY <1>3, <2>1, <2>2 DEF LedgerNext
<1>4. CASE ReserveOK(c) \/ ReserveLost(c)
  BY <1>1, <1>4 DEF ReserveOK, ReserveLost
<1>5. CASE ReleaseOK(c) \/ ReleaseLost(c)
  BY <1>2, <1>5 DEF ReleaseOK, ReleaseLost
<1>6. CASE SettleOK(c) \/ SettleLost(c)
  BY <1>3, <1>6 DEF SettleOK, SettleLost
<1>7. CASE DoubtOK(c)
  BY <1>7 DEF DoubtOK, LedgerNext
<1>8. CASE PauseOK(c)
  BY <1>8 DEF PauseOK, LedgerNext
<1>9. CASE \/ Send(c) \/ NotSent(c) \/ Trouble(c) \/ Cancel(c) \/ Respond(c)
           \/ DoubtFailed(c) \/ LedgerFailed(c)
  BY <1>9 DEF Send, NotSent, Trouble, Cancel, Respond, DoubtFailed, LedgerFailed
<1> QED
  BY <1>4, <1>5, <1>6, <1>7, <1>8, <1>9 DEF Advance, Forward

LEMMA NextIsLedgerStep ==
  CallInvariant /\ [Next]_vars => [LedgerNext]_ledgerVars
<1> SUFFICES ASSUME CallInvariant, [Next]_vars
             PROVE  [LedgerNext]_ledgerVars
  OBVIOUS
<1>1. ASSUME NEW c \in Ops, Reconcile(c)
      PROVE  LedgerNext
  <2>1. month \in Clock /\ ops[c].admitted <= month
    BY LedgerAssumption DEF CallInvariant, ClocksFollow, ClockFollows, Clock, LedgerTypeOK, Months
  <2>2. (IF c \in sent THEN spent[c] ELSE 0) \in Nusd
    BY <1>1, LedgerAssumption DEF Reconcile, CallInvariant, CallTypes, Nusd
  <2>3. Settle(c, IF c \in sent THEN spent[c] ELSE 0, month)
    BY <1>1 DEF Reconcile
  <2> QED
    BY <2>1, <2>2, <2>3 DEF LedgerNext
<1>2. CASE MonthEnds \/ AdministratorUnpauses
  BY <1>2 DEF MonthEnds, AdministratorUnpauses, LedgerNext
<1>3. ASSUME NEW c \in Ops, NEW amount \in Nusd, Enter(c, amount)
      PROVE  UNCHANGED ledgerVars
  BY <1>3 DEF Enter
<1>4. ASSUME NEW c \in Ops, TurnAway(c)
      PROVE  UNCHANGED ledgerVars
  BY <1>4 DEF TurnAway
<1>5. ASSUME NEW c \in Ops, NEW cost \in Nusd, Bill(c, cost)
      PROVE  UNCHANGED ledgerVars
  BY <1>5 DEF Bill
<1>6. CASE UNCHANGED vars
  BY <1>6 DEF vars
<1> QED
  BY <1>1, <1>2, <1>3, <1>4, <1>5, <1>6, AdvanceIsLedgerStep DEF Next

-----------------------------------------------------------------------------
(***************************************************************************)
(* The invariant is inductive.                                             *)
(***************************************************************************)
\* A step of one call that leaves every other call and row alone has to be
\* looked at for that call only.
OnlyCall(c) ==
  /\ month' = month
  /\ \A p \in Ops \ {c} :
       /\ pc'[p] = pc[p] /\ asked'[p] = asked[p] /\ spent'[p] = spent[p]
       /\ ops'[p] = ops[p] /\ (p \in sent' <=> p \in sent)

LEMMA OneCallStep ==
  ASSUME CallInvariant, NEW c \in Ops, OnlyCall(c),
         RowFollows(c)', ClockFollows(c)'
  PROVE  RowsFollowCalls' /\ ClocksFollow'
<1>1. ASSUME NEW p \in Ops \ {c}
      PROVE  RowFollows(p)' /\ ClockFollows(p)'
  BY DEF CallInvariant, RowsFollowCalls, ClocksFollow, RowFollows, ClockFollows,
         OnlyCall, Held
<1> QED
  BY <1>1 DEF RowsFollowCalls, ClocksFollow

\* What the transactions do to the row of the call that runs them.
LEMMA Transactions ==
  ASSUME LedgerTypeOK, NEW c \in Ops
  PROVE  /\ \A amount, now : Reserve(c, amount, now) =>
              /\ ops'[c].state = "reserved" /\ ops'[c].admitted = now
              /\ \A p \in Ops \ {c} : ops'[p] = ops[p]
              /\ month' = month
         /\ \A cost, now : Settle(c, cost, now) =>
              /\ ops'[c].state = "settled" /\ ops'[c].cost = cost
              /\ ops'[c].admitted = ops[c].admitted
              /\ \A p \in Ops \ {c} : ops'[p] = ops[p]
              /\ month' = month
         /\ Uncertain(c) =>
              /\ ops'[c].state = "uncertain"
              /\ ops'[c].admitted = ops[c].admitted
              /\ \A p \in Ops \ {c} : ops'[p] = ops[p]
              /\ month' = month
<1>1. ASSUME NEW amount, NEW now, Reserve(c, amount, now)
      PROVE  /\ ops'[c].state = "reserved" /\ ops'[c].admitted = now
             /\ \A p \in Ops \ {c} : ops'[p] = ops[p]
             /\ month' = month
  BY <1>1 DEF Reserve, LedgerTypeOK
<1>2. ASSUME NEW cost, NEW now, Settle(c, cost, now)
      PROVE  /\ ops'[c].state = "settled" /\ ops'[c].cost = cost
             /\ ops'[c].admitted = ops[c].admitted
             /\ \A p \in Ops \ {c} : ops'[p] = ops[p]
             /\ month' = month
  BY <1>2 DEF Settle, Charge, LedgerTypeOK, Row
<1>3. ASSUME Uncertain(c)
      PROVE  /\ ops'[c].state = "uncertain"
             /\ ops'[c].admitted = ops[c].admitted
             /\ \A p \in Ops \ {c} : ops'[p] = ops[p]
             /\ month' = month
  BY <1>3 DEF Uncertain, LedgerTypeOK, Row
<1> QED
  BY <1>1, <1>2, <1>3

LEMMA GotoTypes ==
  ASSUME CallTypes, LedgerTypeOK, NEW c \in Ops, NEW stage \in Stage, Goto(c, stage)
  PROVE  /\ pc' \in [Ops -> Stage] /\ asked' \in [Ops -> Months]
         /\ pc'[c] = stage
         /\ stage \in Asking => asked'[c] = month
         /\ \A p \in Ops \ {c} : pc'[p] = pc[p] /\ asked'[p] = asked[p]
<1>1. 1 \in Months /\ month \in Months
  BY LedgerAssumption DEF LedgerTypeOK, Months
<1> QED
  BY <1>1 DEF CallTypes, Goto

\* Stages a call can be sent to are stages.
LEMMA StageNames ==
  /\ Unopened \subseteq Stage /\ Opened \subseteq Stage
  /\ AfterSend \subseteq Stage /\ Asking \subseteq Stage
BY DEF Unopened, Opened, AfterSend, Asking, Stage, Ended

\* The clock just read suits any statement on the call's row.
LEMMA FreshClock ==
  ASSUME CallInvariant, NEW c \in Ops, month' = month,
         ops'[c].admitted <= month,
         pc'[c] \in Asking => asked'[c] = month
  PROVE  ClockFollows(c)'
BY LedgerAssumption DEF ClockFollows, CallInvariant, LedgerTypeOK, Months

LEMMA AdvanceKeeps ==
  ASSUME CallInvariant, NEW c \in Ops, Advance(c)
  PROVE  CallTypes' /\ RowsFollowCalls' /\ ClocksFollow'
<1> USE LedgerAssumption DEF CallInvariant, At
<1>0. /\ LedgerTypeOK /\ CallTypes /\ RowFollows(c) /\ ClockFollows(c)
      /\ pc[c] \in Stage /\ month \in Months
  BY DEF RowsFollowCalls, ClocksFollow, CallTypes, LedgerTypeOK
\* Steps of the call that leave the ledger alone.
<1>1. ASSUME NEW stage \in Stage, Goto(c, stage), UNCHANGED <<ledgerVars, need, spent>>,
             sent' = sent \/ sent' = sent \cup {c},
             stage \notin Unopened,
             stage \in Opened => pc[c] \in Opened,
             stage \in {"waiting", "settling"} => c \in sent',
             stage = "settling" => spent[c] # Unknown,
             c \in sent' => stage \in AfterSend,
             c \in sent' \ sent => pc[c] \in Opened
      PROVE  CallTypes' /\ RowsFollowCalls' /\ ClocksFollow'
  <2>1. OnlyCall(c) /\ CallTypes'
    BY <1>0, <1>1, GotoTypes DEF OnlyCall, ledgerVars, CallTypes
  <2>2. RowFollows(c)'
    <3>1. ops' = ops /\ spent' = spent /\ pc'[c] = stage
      BY <1>0, <1>1, GotoTypes DEF ledgerVars
    <3>2. pc'[c] \in Opened => Held(c)'
      BY <1>0, <1>1, <3>1 DEF RowFollows, Held
    <3>3. c \in sent' => Held(c)' \/ (ops'[c].state = "settled" /\ ops'[c].cost = spent'[c])
      BY <1>0, <1>1, <3>1 DEF RowFollows, Held
    <3> QED
      BY <1>1, <3>1, <3>2, <3>3 DEF RowFollows
  <2>3. ClockFollows(c)'
    BY <1>0, <1>1, GotoTypes, FreshClock DEF ledgerVars, ClockFollows
  <2> QED
    BY <2>1, <2>2, <2>3, OneCallStep
<1>2. CASE Send(c)
  BY <1>0, <1>1, <1>2 DEF Send, Stage, Opened, Unopened, AfterSend
<1>3. CASE NotSent(c)
  BY <1>0, <1>1, <1>3 DEF NotSent, Stage, Opened, Unopened, AfterSend, RowFollows, Ended
<1>4. CASE Trouble(c)
  BY <1>0, <1>1, <1>4 DEF Trouble, Stage, Opened, Unopened, AfterSend
<1>5. CASE Cancel(c)
  BY <1>0, <1>1, <1>5 DEF Cancel, Stage, Opened, Unopened, AfterSend, Ended
<1>6. CASE Respond(c)
  <2>1. PICK stage \in {"settling", "doubting", "mistrusting"} : Goto(c, stage)
    BY <1>6 DEF Respond
  <2> QED
    BY <1>0, <1>1, <1>6, <2>1 DEF Respond, Stage, Opened, Unopened, AfterSend, RowFollows
<1>7. CASE DoubtFailed(c)
  BY <1>0, <1>1, <1>7 DEF DoubtFailed, Stage, Opened, Unopened, AfterSend, Ended
<1>8. CASE LedgerFailed(c)
  BY <1>0, <1>1, <1>8 DEF LedgerFailed, Stage, Opened, Unopened, AfterSend, Ended
\* Steps that run a transaction on the call's row.
<1>9. CASE ReserveOK(c) \/ ReserveLost(c)
  <2>1. /\ Reserve(c, need[c], asked[c]) /\ pc[c] = "reserving"
        /\ UNCHANGED <<need, sent, spent>>
    BY <1>9 DEF ReserveOK, ReserveLost
  <2>2. PICK stage \in {"sending", "releasing", "failed"} : Goto(c, stage)
    BY <1>9 DEF ReserveOK, ReserveLost
  <2>3. OnlyCall(c) /\ CallTypes'
    BY <1>0, <2>1, <2>2, Transactions, GotoTypes DEF OnlyCall, CallTypes, Stage
  <2>4. RowFollows(c)'
    BY <1>0, <2>1, <2>2, Transactions, GotoTypes
       DEF RowFollows, Stage, Held, Unsettled, Unopened, AfterSend
  <2>5. ClockFollows(c)'
    <3>1. asked[c] <= month
      BY <1>0, <2>1 DEF ClockFollows, Asking
    <3> QED
      BY <1>0, <2>1, <2>2, <3>1, Transactions, GotoTypes, FreshClock DEF Stage
  <2> QED
    BY <2>3, <2>4, <2>5, OneCallStep
<1>10. CASE ReleaseOK(c) \/ ReleaseLost(c)
  <2>1. /\ Settle(c, 0, asked[c]) /\ pc[c] = "releasing" /\ Goto(c, "failed")
        /\ UNCHANGED <<need, sent, spent>>
    BY <1>10 DEF ReleaseOK, ReleaseLost, Release
  <2>2. OnlyCall(c) /\ CallTypes'
    BY <1>0, <2>1, Transactions, GotoTypes DEF OnlyCall, CallTypes, Stage
  <2>3. c \notin sent
    BY <1>0, <2>1 DEF RowFollows, AfterSend, Ended
  <2>4. RowFollows(c)'
    BY <1>0, <2>1, <2>3, Transactions, GotoTypes
       DEF RowFollows, Stage, Unopened, Opened
  <2>5. ClockFollows(c)'
    BY <1>0, <2>1, Transactions, GotoTypes, FreshClock DEF Stage, ClockFollows, Asking
  <2> QED
    BY <2>2, <2>4, <2>5, OneCallStep
<1>11. CASE SettleOK(c) \/ SettleLost(c)
  <2>1. /\ Settle(c, spent[c], asked[c]) /\ pc[c] = "settling"
        /\ UNCHANGED <<need, sent, spent>>
    BY <1>11 DEF SettleOK, SettleLost
  <2>2. PICK stage \in {"pausing", "done", "failed"} : Goto(c, stage)
    BY <1>11 DEF SettleOK, SettleLost
  <2>3. OnlyCall(c) /\ CallTypes'
    BY <1>0, <2>1, <2>2, Transactions, GotoTypes DEF OnlyCall, CallTypes, Stage
  <2>4. RowFollows(c)'
    BY <1>0, <2>1, <2>2, Transactions, GotoTypes
       DEF RowFollows, Stage, Unopened, Opened, AfterSend, Ended
  <2>5. ClockFollows(c)'
    BY <1>0, <2>1, <2>2, Transactions, GotoTypes, FreshClock
       DEF Stage, ClockFollows, Asking
  <2> QED
    BY <2>3, <2>4, <2>5, OneCallStep
<1>12. CASE DoubtOK(c)
  <2>1. /\ Uncertain(c) /\ pc[c] \in {"doubting", "mistrusting"}
        /\ UNCHANGED <<need, sent, spent>>
    BY <1>12 DEF DoubtOK
  <2>2. PICK stage \in {"pausing", "failed"} : Goto(c, stage)
    BY <1>12 DEF DoubtOK
  <2>3. OnlyCall(c) /\ CallTypes'
    BY <1>0, <2>1, <2>2, Transactions, GotoTypes DEF OnlyCall, CallTypes, Stage
  <2>4. RowFollows(c)'
    BY <1>0, <2>1, <2>2, Transactions, GotoTypes
       DEF RowFollows, Stage, Unopened, Opened, AfterSend, Ended, Held, Unsettled
  <2>5. ClockFollows(c)'
    BY <1>0, <2>1, <2>2, Transactions, GotoTypes, FreshClock
       DEF Stage, ClockFollows, Asking
  <2> QED
    BY <2>3, <2>4, <2>5, OneCallStep
<1>13. CASE PauseOK(c)
  <2>1. /\ Goto(c, "failed") /\ pc[c] = "pausing"
        /\ UNCHANGED <<month, ops, need, sent, spent>>
    BY <1>13 DEF PauseOK, Pause
  <2>2. OnlyCall(c) /\ CallTypes'
    BY <1>0, <2>1, GotoTypes DEF OnlyCall, CallTypes, Stage
  <2>3. RowFollows(c)'
    BY <1>0, <2>1, GotoTypes DEF RowFollows, Stage, Unopened, Opened, AfterSend, Ended, Held
  <2>4. ClockFollows(c)'
    BY <1>0, <2>1, GotoTypes, FreshClock DEF Stage, ClockFollows, Asking
  <2> QED
    BY <2>2, <2>3, <2>4, OneCallStep
<1> QED
  BY <1>2, <1>3, <1>4, <1>5, <1>6, <1>7, <1>8, <1>9, <1>10, <1>11, <1>12, <1>13
     DEF Advance, Forward

\* What a step of the surroundings, or one before the request, leaves in place.
LEMMA OthersKeep ==
  ASSUME CallInvariant, LedgerTypeOK',
         \/ \E c \in Ops, amount \in Nusd \ {0} : Enter(c, amount)
         \/ \E c \in Ops : TurnAway(c)
         \/ \E c \in Ops, cost \in Nusd : Bill(c, cost)
         \/ \E c \in Ops : Reconcile(c)
         \/ MonthEnds \/ AdministratorUnpauses \/ UNCHANGED vars
  PROVE  CallTypes' /\ RowsFollowCalls' /\ ClocksFollow'
<1> USE LedgerAssumption DEF CallInvariant, At
<1>1. ASSUME NEW c \in Ops, NEW stage \in Stage, Goto(c, stage), pc[c] = "idle",
             need' \in [Ops -> Nusd], UNCHANGED <<ledgerVars, sent, spent>>,
             stage \in {"reserving", "failed"}
      PROVE  CallTypes' /\ RowsFollowCalls' /\ ClocksFollow'
  <2>1. OnlyCall(c) /\ CallTypes'
    BY <1>1, GotoTypes DEF OnlyCall, ledgerVars, CallTypes
  <2>2. RowFollows(c)'
    <3>1. ops' = ops /\ pc'[c] = stage /\ sent' = sent
      BY <1>1, GotoTypes DEF ledgerVars
    <3>2. ops[c].state = "absent" /\ c \notin sent
      BY <1>1 DEF RowsFollowCalls, RowFollows, Unopened, AfterSend, Ended
    <3> QED
      BY <1>1, <3>1, <3>2 DEF RowFollows, Opened
  <2>3. ClockFollows(c)'
    BY <1>1, GotoTypes, FreshClock DEF ledgerVars, ClocksFollow, ClockFollows
  <2> QED
    BY <2>1, <2>2, <2>3, OneCallStep
<1>2. ASSUME NEW c \in Ops, NEW amount \in Nusd \ {0}, Enter(c, amount)
      PROVE  CallTypes' /\ RowsFollowCalls' /\ ClocksFollow'
  <2>1. need' \in [Ops -> Nusd]
    BY <1>2 DEF Enter, CallTypes
  <2> QED
    BY <1>1, <1>2, <2>1 DEF Enter, Stage
<1>3. ASSUME NEW c \in Ops, TurnAway(c)
      PROVE  CallTypes' /\ RowsFollowCalls' /\ ClocksFollow'
  BY <1>1, <1>3 DEF TurnAway, Stage, CallTypes
<1>4. ASSUME NEW c \in Ops, NEW cost \in Nusd, Bill(c, cost)
      PROVE  CallTypes' /\ RowsFollowCalls' /\ ClocksFollow'
  <2>1. OnlyCall(c) /\ CallTypes'
    BY <1>4 DEF Bill, OnlyCall, CallTypes, ledgerVars
  <2>2. RowFollows(c)'
    <3>1. /\ ops' = ops /\ pc' = pc /\ sent' = sent /\ c \in sent
          /\ spent[c] = Unknown /\ spent'[c] = cost
      BY <1>4 DEF Bill, ledgerVars, CallTypes
    \* A charge the provider did not know yet is not what a settled row holds.
    <3>2. ops[c].cost # Unknown
      BY DEF LedgerTypeOK, Row, Nusd, Unknown
    <3>3. Unknown # cost
      BY DEF Nusd, Unknown
    <3> QED
      BY <3>1, <3>2, <3>3 DEF RowsFollowCalls, RowFollows, Held
  <2>3. ClockFollows(c)'
    BY <1>4 DEF Bill, ledgerVars, ClocksFollow, ClockFollows
  <2> QED
    BY <2>1, <2>2, <2>3, OneCallStep
<1>5. ASSUME NEW c \in Ops, Reconcile(c)
      PROVE  CallTypes' /\ RowsFollowCalls' /\ ClocksFollow'
  <2> DEFINE cost == IF c \in sent THEN spent[c] ELSE 0
  <2>1. Settle(c, cost, month) /\ pc[c] \in Ended /\ UNCHANGED callVars
    BY <1>5 DEF Reconcile
  <2> HIDE DEF cost
  <2>2. /\ ops'[c].state = "settled" /\ ops'[c].cost = cost /\ month' = month
        /\ ops'[c].admitted = ops[c].admitted
        /\ \A p \in Ops \ {c} : ops'[p] = ops[p]
    BY <2>1, Transactions
  <2>3. OnlyCall(c) /\ CallTypes'
    BY <2>1, <2>2 DEF OnlyCall, callVars, CallTypes
  <2>4. RowFollows(c)'
    BY <2>1, <2>2 DEF RowFollows, callVars, Unopened, Opened, AfterSend, Ended, cost
  <2>5. ClockFollows(c)'
    BY <2>1, <2>2 DEF ClocksFollow, ClockFollows, callVars, Asking, Ended
  <2> QED
    BY <2>3, <2>4, <2>5, OneCallStep
<1>6. CASE MonthEnds
  <2>1. /\ month' = month + 1 /\ ops' = ops /\ UNCHANGED callVars /\ month \in Nat
        /\ \A c \in Ops : pc[c] \in Asking => asked[c] > month - MaxLag
    BY <1>6 DEF MonthEnds, NextMonth, LedgerTypeOK, Months
  <2>2. CallTypes' /\ RowsFollowCalls'
    BY <2>1 DEF CallTypes, callVars, RowsFollowCalls, RowFollows, Held
  <2>3. ASSUME NEW c \in Ops
        PROVE  ClockFollows(c)'
    <3>1. asked[c] \in Nat /\ ops[c].admitted \in Nat
      BY DEF CallTypes, Months, LedgerTypeOK, Row
    <3> QED
      BY <2>1, <3>1 DEF ClocksFollow, ClockFollows, callVars
  <2> QED
    BY <2>2, <2>3 DEF ClocksFollow
<1>7. CASE AdministratorUnpauses \/ UNCHANGED vars
  <2>1. month' = month /\ ops' = ops /\ UNCHANGED callVars
    BY <1>7 DEF AdministratorUnpauses, Unpause, vars, ledgerVars
  <2> QED
    BY <2>1 DEF CallTypes, callVars, RowsFollowCalls, RowFollows, Held,
                ClocksFollow, ClockFollows
<1> QED
  BY <1>2, <1>3, <1>4, <1>5, <1>6, <1>7

LEMMA NextCallInvariant == CallInvariant /\ [Next]_vars => CallInvariant'
<1> SUFFICES ASSUME CallInvariant, [Next]_vars
             PROVE  CallInvariant'
  OBVIOUS
<1>1. LedgerTypeOK'
  BY NextIsLedgerStep, NextTypeOK DEF CallInvariant
<1>2. CASE \E c \in Ops : Advance(c)
  BY <1>1, <1>2, AdvanceKeeps DEF CallInvariant
<1>3. CASE ~\E c \in Ops : Advance(c)
  BY <1>1, <1>3, OthersKeep DEF Next, CallInvariant
<1> QED
  BY <1>2, <1>3

-----------------------------------------------------------------------------
\* Whatever calls do, and however they fail, the ledger sees only its own
\* transactions with clocks it accepts: the gateway implements LedgerSpec
\* (provider.py uses spending.py only through reserve, settle, uncertain,
\* release and pause, each at most once per stage of a call).
THEOREM GatewayUsesLedger == Spec => LedgerSpec
<1>1. Init => LedgerInit
  BY DEF Init
<1> QED
  BY <1>1, InitCallInvariant, NextCallInvariant, NextIsLedgerStep, PTL DEF Spec, LedgerSpec

\* No request the provider may charge for is ever recorded as free or as cheaper
\* than it was (the order of reserve, send, settle and uncertain in complete and
\* embed): its row stays open until it is settled at the provider's charge.
THEOREM MoneyStaysKept == Spec => []MoneyIsKept
<1>1. CallInvariant => MoneyIsKept
  BY DEF CallInvariant, CallTypes, RowsFollowCalls, RowFollows, MoneyIsKept
<1> QED
  BY <1>1, InitCallInvariant, NextCallInvariant, PTL DEF Spec

\* Under every gateway the month's limit holds (the admission check of reserve
\* with the calls of provider.py around it).
THEOREM GatewayWithinCap == Spec => []WithinCap
BY GatewayUsesLedger, CapHolds, PTL

-----------------------------------------------------------------------------
(***************************************************************************)
(* The limits of a turn.  What a turn has committed covers what each of    *)
(* its calls may still cost: its hold until its charge was settled, or its *)
(* request proved not sent.  The turn's lock keeps the check before a call *)
(* true until its hold is counted.                                         *)
(***************************************************************************)
Active(c) == pc[c] \notin {"idle"} \cup Ended

\* The stages in which the whole hold of a call is counted in its turn.
Counting == {"sending", "releasing", "waiting", "settling"}

\* What a call may cost its turn, as far as its charge fits its hold.
OwedBy(c) ==
  IF pc[c] \in Counting THEN need[c]
  ELSE IF c \notin sent THEN 0
  ELSE IF spent[c] = Unknown THEN need[c] ELSE LeastOf(spent[c], need[c])

Owed(t) == [c \in Ops |-> IF TurnOf[c] = t THEN OwedBy(c) ELSE 0]

\* The model calls of a turn whose request was made or is about to be.
Requests(t) == {c \in CallsOf(t) \ Embeds : c \in sent \/ pc[c] = "sending"}

Fitting(t) == \A c \in CallsOf(t) : spent[c] <= need[c]

LimitTypes == calls \in [Turns -> 0..MaxCalls] /\ committed \in [Turns -> Nat]

OneAtATime ==
  \A c, d \in Ops : TurnOf[c] = TurnOf[d] /\ Active(c) /\ Active(d) => c = d

BilledWasSent == \A c \in Ops : spent[c] # Unknown => c \in sent

\* The check before a hold still holds when the ledger answers.
Room(c) ==
  pc[c] = "reserving" =>
    /\ committed[TurnOf[c]] + need[c] <= MaxTurn
    /\ c \notin Embeds => calls[TurnOf[c]] < MaxCalls

TurnHeld(t) ==
  /\ Total(Owed(t)) <= committed[t]
  /\ Fitting(t) => committed[t] <= MaxTurn
  /\ Cardinality(Requests(t)) <= calls[t]

LimitsInvariant ==
  /\ LimitTypes
  /\ OneAtATime
  /\ BilledWasSent
  /\ \A c \in Ops : Room(c)
  /\ \A t \in Turns : TurnHeld(t)

LEMMA OwedTypes ==
  ASSUME CallTypes, NEW t
  PROVE  /\ \A c \in Ops : OwedBy(c) \in Nusd
         /\ Owed(t) \in Bounded
<1>1. ASSUME NEW c \in Ops
      PROVE  OwedBy(c) \in Nusd
  BY LedgerAssumption DEF CallTypes, OwedBy, Nusd, LeastOf, Unknown
<1>2. 0 \in Nusd
  BY LedgerAssumption DEF Nusd
<1> QED
  BY <1>1, <1>2 DEF Owed, Bounded

\* A turn has committed at least what any one of its calls may cost.
LEMMA OwedCovered ==
  ASSUME CallTypes, LimitsInvariant, NEW c \in Ops
  PROVE  OwedBy(c) <= committed[TurnOf[c]]
<1> DEFINE t == TurnOf[c]
<1>1. t \in Turns /\ committed[t] \in Nat /\ Total(Owed(t)) <= committed[t]
  BY GatewayAssumption DEF LimitsInvariant, LimitTypes, TurnHeld
<1>2. Owed(t) \in Bounded /\ Owed(t)[c] = OwedBy(c) /\ OwedBy(c) \in Nat
  BY OwedTypes, LedgerAssumption DEF Owed, Nusd
<1>3. Total(Owed(t)) = Cardinality(Others(Owed(t), c)) + OwedBy(c)
      /\ Cardinality(Others(Owed(t), c)) \in Nat
  BY <1>2, TotalSplit, FS_CardinalityType
<1> QED
  BY <1>1, <1>2, <1>3

LEMMA RequestsFinite ==
  ASSUME NEW t
  PROVE  IsFiniteSet(Requests(t)) /\ Cardinality(Requests(t)) \in Nat
<1>1. Requests(t) \subseteq Ops
  BY DEF Requests, CallsOf
<1> QED
  BY <1>1, LedgerAssumption, FS_Subset, FS_CardinalityType

LEMMA InitLimits == Init => LimitsInvariant
<1> SUFFICES ASSUME Init
             PROVE  LimitsInvariant
  OBVIOUS
<1> USE DEF Init
<1>1. LimitTypes /\ OneAtATime /\ BilledWasSent /\ \A c \in Ops : Room(c)
  BY GatewayAssumption DEF LimitTypes, OneAtATime, BilledWasSent, Room, Active
<1>2. ASSUME NEW t \in Turns
      PROVE  TurnHeld(t)
  <2>1. \A c \in Ops : Owed(t)[c] = 0
    BY DEF Owed, OwedBy, Counting
  <2>2. Units(Owed(t)) = {}
    BY <2>1, LedgerAssumption DEF Units
  <2>3. Total(Owed(t)) = 0
    BY <2>2, FS_EmptySet DEF Total
  <2>4. Requests(t) = {}
    BY DEF Requests, CallsOf
  <2>5. Cardinality(Requests(t)) = 0
    BY <2>4, FS_EmptySet
  <2> QED
    BY <2>3, <2>5, GatewayAssumption DEF TurnHeld
<1> QED
  BY <1>1, <1>2 DEF LimitsInvariant

-----------------------------------------------------------------------------
(***************************************************************************)
(* The invariant is inductive.  A step belongs to one call, of one turn.   *)
(***************************************************************************)
\* A step of call c leaves every other call and every other turn alone.
OnlyTurnOf(c) ==
  /\ \A p \in Ops \ {c} :
       /\ pc'[p] = pc[p] /\ need'[p] = need[p] /\ spent'[p] = spent[p]
       /\ p \in sent' <=> p \in sent
  /\ \A u \in Turns \ {TurnOf[c]} : committed'[u] = committed[u] /\ calls'[u] = calls[u]

\* It takes the lock only when it is free, and counts only while it holds it.
UsesLock(c) ==
  /\ Active(c)' => Active(c) \/ ~Busy(TurnOf[c])
  /\ Active(c) \/ UNCHANGED <<calls, committed>>

\* It counts what it may cost, and never more than the limits.
CountsCost(c) ==
  LET t == TurnOf[c]
  IN  /\ OwedBy(c)' - OwedBy(c) <= committed'[t] - committed[t]
      /\ spent'[c] <= need'[c] => spent[c] <= need[c]
      /\ spent'[c] <= need'[c] /\ committed[t] <= MaxTurn => committed'[t] <= MaxTurn

CountsCall(c) ==
  LET t == TurnOf[c]
  IN  /\ calls[t] <= calls'[t]
      /\ c \in Requests(t)' /\ c \notin Requests(t) => calls[t] + 1 <= calls'[t]

LEMMA OneTurnStep ==
  ASSUME CallInvariant, CallTypes', LimitsInvariant, LimitTypes',
         NEW c \in Ops, OnlyTurnOf(c), UsesLock(c), CountsCost(c), CountsCall(c),
         Room(c)', spent'[c] # Unknown => c \in sent'
  PROVE  LimitsInvariant'
<1> DEFINE t == TurnOf[c]
<1>0. t \in Turns /\ CallTypes /\ LimitTypes /\ \A p \in Ops : TurnOf[p] \in Turns
  BY GatewayAssumption DEF CallInvariant, LimitsInvariant
<1>1. OneAtATime'
  <2> SUFFICES ASSUME NEW a \in Ops, NEW b \in Ops, TurnOf[a] = TurnOf[b],
                      Active(a)', Active(b)'
               PROVE  a = b
    BY DEF OneAtATime
  <2>1. ASSUME NEW p \in Ops \ {c}, Active(p)', Active(c)', TurnOf[p] = TurnOf[c]
        PROVE  FALSE
    <3>1. Active(p)
      BY <2>1 DEF OnlyTurnOf, Active
    <3>2. Busy(TurnOf[c])
      BY <2>1, <3>1 DEF Busy, CallsOf, Active
    <3>3. Active(c)
      BY <2>1, <3>2 DEF UsesLock
    <3> QED
      BY <2>1, <3>1, <3>3 DEF LimitsInvariant, OneAtATime
  <2>2. CASE a # c /\ b # c
    BY <2>2 DEF OnlyTurnOf, Active, LimitsInvariant, OneAtATime
  <2> QED
    BY <2>1, <2>2
<1>2. BilledWasSent'
  BY DEF OnlyTurnOf, BilledWasSent, LimitsInvariant
<1>3. ASSUME NEW p \in Ops \ {c}
      PROVE  Room(p)'
  <2> SUFFICES ASSUME pc[p] = "reserving"
               PROVE  /\ committed'[TurnOf[p]] + need[p] <= MaxTurn
                      /\ p \notin Embeds => calls'[TurnOf[p]] < MaxCalls
    BY DEF Room, OnlyTurnOf
  <2>1. Active(p)
    BY DEF Active, Ended
  <2>2. TurnOf[p] # t \/ ~Active(c)
    BY <2>1 DEF LimitsInvariant, OneAtATime
  <2>3. committed'[TurnOf[p]] = committed[TurnOf[p]] /\ calls'[TurnOf[p]] = calls[TurnOf[p]]
    BY <2>2, <1>0 DEF OnlyTurnOf, UsesLock
  <2> QED
    BY <2>3 DEF LimitsInvariant, Room
<1>4. ASSUME NEW u \in Turns
      PROVE  TurnHeld(u)'
  <2>1. \A p \in Ops \ {c} : OwedBy(p)' = OwedBy(p)
    BY DEF OwedBy, OnlyTurnOf
  <2>2. Owed(u) \in Bounded /\ Owed(u)' \in Bounded
    <3>1. Owed(u) \in Bounded
      BY <1>0, OwedTypes
    <3>2. \A p \in Ops : OwedBy(p)' \in Nusd
      BY LedgerAssumption DEF CallTypes, OwedBy, Nusd, LeastOf, Unknown
    <3>3. 0 \in Nusd
      BY LedgerAssumption DEF Nusd
    <3> QED
      BY <3>1, <3>2, <3>3 DEF Owed, Bounded
  <2>3. \A p \in Ops \ {c} : Owed(u)'[p] = Owed(u)[p]
    BY <2>1 DEF Owed
  <2>4. Total(Owed(u)') - Owed(u)'[c] = Total(Owed(u)) - Owed(u)[c]
    BY <2>2, <2>3, TotalChange
  <2>5. Total(Owed(u))' = Total(Owed(u)')
    BY DEF Total, Units
  <2>6. /\ Total(Owed(u)) \in Nat /\ Total(Owed(u)') \in Nat
        /\ committed[u] \in Nat /\ committed'[u] \in Nat
        /\ calls[u] \in Nat /\ calls'[u] \in Nat /\ MaxTurn \in Nat
    BY <1>0, TotalType, GatewayAssumption DEF LimitTypes
  <2>7. TurnHeld(u)
    BY DEF LimitsInvariant
  <2>8. Total(Owed(u))' <= committed'[u]
    <3>1. CASE u = t
      <4>1. Owed(u)'[c] = OwedBy(c)' /\ Owed(u)[c] = OwedBy(c)
        BY <3>1 DEF Owed
      <4>2. OwedBy(c)' \in Nat /\ OwedBy(c) \in Nat
        BY <2>2, <4>1, LedgerAssumption DEF Bounded, Nusd
      <4>3. OwedBy(c)' - OwedBy(c) <= committed'[u] - committed[u]
        BY <3>1 DEF CountsCost
      <4> QED
        BY <2>4, <2>5, <2>6, <2>7, <4>1, <4>2, <4>3 DEF TurnHeld
    <3>2. CASE u # t
      <4>1. Owed(u)'[c] = 0 /\ Owed(u)[c] = 0 /\ committed'[u] = committed[u]
        BY <3>2 DEF Owed, OnlyTurnOf
      <4> QED
        BY <2>4, <2>5, <2>6, <2>7, <4>1 DEF TurnHeld
    <3> QED
      BY <3>1, <3>2
  <2>9. Fitting(u)' => committed'[u] <= MaxTurn
    <3>1. CASE u = t
      <4>1. ASSUME Fitting(u)'
            PROVE  Fitting(u) /\ spent'[c] <= need'[c]
        BY <3>1, <4>1 DEF Fitting, CallsOf, OnlyTurnOf, CountsCost
      <4> QED
        BY <3>1, <4>1, <2>7 DEF TurnHeld, CountsCost
    <3>2. CASE u # t
      <4>1. committed'[u] = committed[u] /\ (Fitting(u)' => Fitting(u))
        BY <3>2 DEF Fitting, CallsOf, OnlyTurnOf
      <4> QED
        BY <4>1, <2>7 DEF TurnHeld
    <3> QED
      BY <3>1, <3>2
  <2>10. Cardinality(Requests(u))' <= calls'[u]
    <3>1. \A p \in Ops \ {c} : p \in Requests(u)' <=> p \in Requests(u)
      BY DEF Requests, CallsOf, OnlyTurnOf
    <3>2. Requests(u) \subseteq Ops /\ Requests(u)' \subseteq Ops
      BY DEF Requests, CallsOf
    <3>3. IsFiniteSet(Requests(u)) /\ Cardinality(Requests(u)) \in Nat
      BY RequestsFinite
    <3>4. CASE u = t /\ c \in Requests(u)' /\ c \notin Requests(u)
      <4>1. Requests(u)' = Requests(u) \cup {c}
        BY <3>1, <3>2, <3>4
      <4>2. Cardinality(Requests(u)') = Cardinality(Requests(u)) + 1
        BY <3>3, <3>4, <4>1, FS_AddElement
      <4>3. calls[u] + 1 <= calls'[u]
        BY <3>4 DEF CountsCall
      <4> QED
        BY <2>6, <2>7, <3>3, <4>2, <4>3 DEF TurnHeld
    <3>5. CASE ~(u = t /\ c \in Requests(u)' /\ c \notin Requests(u))
      <4>1. Requests(u)' \subseteq Requests(u)
        BY <3>1, <3>2, <3>5 DEF Requests, CallsOf
      <4>2. Cardinality(Requests(u)') <= Cardinality(Requests(u)) /\ Cardinality(Requests(u)') \in Nat
        BY <3>3, <4>1, FS_Subset, FS_CardinalityType
      <4>3. calls[u] <= calls'[u]
        BY <2>6 DEF CountsCall, OnlyTurnOf
      <4> QED
        BY <2>6, <2>7, <3>3, <4>2, <4>3 DEF TurnHeld
    <3> QED
      BY <3>4, <3>5
  <2> QED
    BY <2>8, <2>9, <2>10 DEF TurnHeld
<1> QED
  BY <1>1, <1>2, <1>3, <1>4 DEF LimitsInvariant

\* A step of the call that counts nothing and owes no more than before.
LEMMA QuietStep ==
  ASSUME CallInvariant, CallTypes', LimitsInvariant, NEW c \in Ops,
         UNCHANGED <<need, calls, committed>>,
         \A p \in Ops \ {c} : pc'[p] = pc[p] /\ spent'[p] = spent[p] /\ (p \in sent' <=> p \in sent),
         Active(c)' => Active(c),
         OwedBy(c)' <= OwedBy(c),
         spent'[c] <= need[c] => spent[c] <= need[c],
         c \in Requests(TurnOf[c])' => c \in Requests(TurnOf[c]),
         pc'[c] # "reserving",
         spent'[c] # Unknown => c \in sent'
  PROVE  LimitsInvariant'
<1>1. TurnOf[c] \in Turns /\ CallTypes /\ LimitTypes
  BY GatewayAssumption DEF CallInvariant, LimitsInvariant
<1>2. LimitTypes'
  BY <1>1 DEF LimitTypes
<1>3. OnlyTurnOf(c) /\ UsesLock(c) /\ Room(c)'
  BY DEF OnlyTurnOf, UsesLock, Room
<1>4. CountsCost(c)
  <2>1. OwedBy(c) \in Nat
    BY <1>1, OwedTypes, LedgerAssumption DEF Nusd
  <2>2. OwedBy(c)' \in Nat
    BY LedgerAssumption DEF CallTypes, OwedBy, Nusd, LeastOf, Unknown
  <2>3. committed[TurnOf[c]] \in Nat
    BY <1>1 DEF LimitTypes
  <2> QED
    BY <2>1, <2>2, <2>3 DEF CountsCost
<1>5. CountsCall(c)
  BY <1>1 DEF CountsCall, LimitTypes
<1> QED
  BY <1>2, <1>3, <1>4, <1>5, OneTurnStep

LEMMA AdvanceKeepsLimits ==
  ASSUME CallInvariant, CallTypes', LimitsInvariant, NEW c \in Ops, Advance(c)
  PROVE  LimitsInvariant'
<1> DEFINE t == TurnOf[c]
<1> USE DEF At
<1>0. /\ t \in Turns /\ CallTypes /\ LedgerTypeOK /\ LimitTypes /\ RowFollows(c)
      /\ need[c] \in Nat /\ committed[t] \in Nat /\ calls[t] \in 0..MaxCalls
      /\ MaxTurn \in Nat /\ MaxCalls \in Nat
      /\ spent[c] # Unknown => spent[c] \in Nat /\ c \in sent
  BY GatewayAssumption, LedgerAssumption
     DEF CallInvariant, LimitsInvariant, RowsFollowCalls, CallTypes, LimitTypes, Nusd, BilledWasSent
\* Steps that leave the turn's counts alone.
<1>1. ASSUME NEW stage \in Stage, Goto(c, stage), UNCHANGED <<need, calls, committed, spent>>,
             sent' = sent \/ (sent' = sent \cup {c} /\ pc[c] = "sending"),
             stage \notin {"idle", "reserving", "sending"},
             stage \in Counting => pc[c] \in Counting,
             pc[c] \notin {"idle", "done", "failed"}
      PROVE  LimitsInvariant'
  <2>1. /\ pc'[c] = stage
        /\ \A p \in Ops \ {c} : pc'[p] = pc[p]
    BY <1>0, <1>1, GotoTypes
  <2>2. OwedBy(c)' <= OwedBy(c)
    BY <1>0, <1>1, <2>1 DEF OwedBy, Counting, LeastOf
  <2>3. c \in Requests(t)' => c \in Requests(t)
    BY <1>1, <2>1 DEF Requests
  <2>4. Active(c)
    BY <1>1 DEF Active, Ended
  <2>5. spent[c] \in Int /\ (spent'[c] # Unknown => c \in sent')
    BY <1>0, <1>1 DEF Unknown
  <2> QED
    BY <1>1, <2>1, <2>2, <2>3, <2>4, <2>5, QuietStep
<1>2. CASE Send(c)
  BY <1>1, <1>2 DEF Send, Stage, Counting
<1>3. CASE NotSent(c)
  BY <1>1, <1>3 DEF NotSent, Stage, Counting
<1>4. CASE Trouble(c)
  BY <1>1, <1>4 DEF Trouble, Stage, Counting
<1>5. CASE Cancel(c)
  BY <1>1, <1>5 DEF Cancel, Stage, Counting
<1>6. CASE Respond(c)
  <2>1. PICK stage \in {"settling", "doubting", "mistrusting"} : Goto(c, stage)
    BY <1>6 DEF Respond
  <2> QED
    BY <1>1, <1>6, <2>1 DEF Respond, Stage, Counting
<1>7. CASE DoubtOK(c) \/ DoubtFailed(c)
  BY <1>1, <1>7 DEF DoubtOK, DoubtFailed, Stage, Counting
<1>8. CASE PauseOK(c) \/ LedgerFailed(c)
  BY <1>1, <1>8 DEF PauseOK, LedgerFailed, Stage, Counting, Asking
<1>9. CASE ReserveLost(c) \/ ReleaseLost(c) \/ SettleLost(c)
  BY <1>1, <1>9 DEF ReserveLost, ReleaseLost, SettleLost, Stage, Counting
\* Steps that count.
<1>10. ASSUME NEW stage \in Stage, Goto(c, stage), UNCHANGED <<need, sent, spent>>,
              pc[c] \notin {"idle", "done", "failed"}, stage \notin {"idle", "reserving"},
              NEW delta \in Int, Commit(c, delta), committed[t] + delta \in Nat,
              OwedBy(c)' - OwedBy(c) <= delta,
              spent[c] <= need[c] /\ committed[t] <= MaxTurn => committed[t] + delta <= MaxTurn,
              \/ calls' = calls /\ stage # "sending"
              \/ c \in Embeds /\ calls' = calls
              \/ /\ calls' = [calls EXCEPT ![t] = @ + 1] /\ calls[t] < MaxCalls
       PROVE  LimitsInvariant'
  <2>1. /\ pc'[c] = stage
        /\ \A p \in Ops \ {c} : pc'[p] = pc[p]
    BY <1>0, <1>10, GotoTypes
  <2>2. /\ committed'[t] = committed[t] + delta
        /\ \A u \in Turns \ {t} : committed'[u] = committed[u]
        /\ committed' \in [Turns -> Nat]
    BY <1>0, <1>10 DEF Commit, LimitTypes
  <2>3. /\ \A u \in Turns \ {t} : calls'[u] = calls[u]
        /\ calls' \in [Turns -> 0..MaxCalls]
        /\ calls'[t] = calls[t] \/ calls'[t] = calls[t] + 1
    BY <1>0, <1>10 DEF LimitTypes
  <2>4. OnlyTurnOf(c) /\ UsesLock(c) /\ LimitTypes' /\ Room(c)'
    BY <1>10, <2>1, <2>2, <2>3 DEF OnlyTurnOf, UsesLock, Active, Ended, LimitTypes, Room
  <2>5. CountsCost(c)
    BY <1>0, <1>10, <2>2 DEF CountsCost
  <2>6. CountsCall(c)
    <3>1. calls[t] <= calls'[t]
      BY <1>0, <2>3
    <3>2. ASSUME c \in Requests(t)', c \notin Requests(t)
          PROVE  calls[t] + 1 <= calls'[t]
      <4>1. c \notin Embeds /\ stage = "sending"
        BY <1>10, <2>1, <3>2 DEF Requests
      <4> QED
        BY <1>0, <1>10, <4>1 DEF LimitTypes
    <3> QED
      BY <3>1, <3>2 DEF CountsCall
  <2>7. spent'[c] # Unknown => c \in sent'
    BY <1>0, <1>10
  <2> QED
    BY <2>4, <2>5, <2>6, <2>7, OneTurnStep
<1>11. CASE ReserveOK(c)
  <2>1. /\ pc[c] = "reserving" /\ Commit(c, need[c]) /\ UNCHANGED <<need, sent, spent>>
    BY <1>11 DEF ReserveOK
  <2>2. PICK stage \in {"sending", "releasing"} :
          /\ Goto(c, stage)
          /\ \/ calls' = calls /\ stage # "sending"
             \/ c \in Embeds /\ calls' = calls
             \/ c \notin Embeds /\ calls' = [calls EXCEPT ![t] = @ + 1]
    BY <1>11 DEF ReserveOK
  <2>3. /\ committed[t] + need[c] <= MaxTurn
        /\ c \notin Embeds => calls[t] < MaxCalls
    BY <2>1 DEF LimitsInvariant, Room
  <2>4. c \notin sent
    BY <1>0, <2>1 DEF RowFollows, AfterSend, Ended
  <2>5. OwedBy(c)' = need[c] /\ OwedBy(c) = 0
    <3>1. pc'[c] = stage
      BY <1>0, <2>2, GotoTypes DEF Stage
    <3> QED
      BY <2>1, <2>4, <3>1 DEF OwedBy, Counting
  <2> QED
    BY <1>0, <1>10, <2>1, <2>2, <2>3, <2>5 DEF Stage
<1>12. CASE ReleaseOK(c)
  <2>1. /\ pc[c] = "releasing" /\ Commit(c, 0 - need[c]) /\ UNCHANGED <<need, sent, spent>>
        /\ Goto(c, "failed") /\ calls' = calls
    BY <1>12 DEF ReleaseOK
  <2>2. c \notin sent
    BY <1>0, <2>1 DEF RowFollows, AfterSend, Ended
  <2>3. OwedBy(c)' = 0 /\ OwedBy(c) = need[c]
    <3>1. pc'[c] = "failed"
      BY <1>0, <2>1, GotoTypes DEF Stage
    <3> QED
      BY <2>1, <2>2, <3>1 DEF OwedBy, Counting
  <2>4. need[c] <= committed[t]
    BY <1>0, <2>3, OwedCovered
  <2> QED
    BY <1>0, <1>10, <2>1, <2>3, <2>4 DEF Stage
<1>13. CASE SettleOK(c)
  <2>1. /\ pc[c] = "settling" /\ Commit(c, spent[c] - need[c]) /\ UNCHANGED <<need, sent, spent>>
        /\ calls' = calls
    BY <1>13 DEF SettleOK
  <2>2. PICK stage \in {"pausing", "done"} : Goto(c, stage)
    BY <1>13 DEF SettleOK
  <2>3. c \in sent /\ spent[c] # Unknown /\ spent[c] \in Nat
    BY <1>0, <2>1 DEF RowFollows
  <2>4. OwedBy(c)' = LeastOf(spent[c], need[c]) /\ OwedBy(c) = need[c]
    <3>1. pc'[c] = stage
      BY <1>0, <2>2, GotoTypes DEF Stage
    <3> QED
      BY <2>1, <2>3, <3>1 DEF OwedBy, Counting
  <2>5. need[c] <= committed[t]
    BY <1>0, <2>4, OwedCovered
  <2>6. OwedBy(c)' - OwedBy(c) <= spent[c] - need[c]
    BY <1>0, <2>3, <2>4 DEF LeastOf
  <2> QED
    BY <1>0, <1>10, <2>1, <2>2, <2>3, <2>5, <2>6 DEF Stage
<1> QED
  BY <1>2, <1>3, <1>4, <1>5, <1>6, <1>7, <1>8, <1>9, <1>11, <1>12, <1>13 DEF Advance, Forward

LEMMA NextLimits == CallInvariant /\ LimitsInvariant /\ [Next]_vars => LimitsInvariant'
<1> SUFFICES ASSUME CallInvariant, LimitsInvariant, [Next]_vars
             PROVE  LimitsInvariant'
  OBVIOUS
<1>0. CallTypes /\ CallTypes' /\ LedgerTypeOK /\ LimitTypes
  BY NextCallInvariant DEF CallInvariant, LimitsInvariant
<1>1. ASSUME NEW c \in Ops, Advance(c)
      PROVE  LimitsInvariant'
  BY <1>0, <1>1, AdvanceKeepsLimits
<1>2. ASSUME NEW c \in Ops, NEW amount \in Nusd \ {0}, Enter(c, amount)
      PROVE  LimitsInvariant'
  <2> DEFINE t == TurnOf[c]
  <2>1. /\ t \in Turns /\ committed[t] \in Nat /\ calls[t] \in Nat /\ need[c] \in Nat
        /\ amount \in Nat
    BY <1>0, GatewayAssumption, LedgerAssumption DEF LimitTypes, CallTypes, Nusd
  <2>2. /\ pc[c] = "idle" /\ ~Busy(t) /\ UNCHANGED <<calls, committed, sent, spent>>
        /\ need' = [need EXCEPT ![c] = amount] /\ Goto(c, "reserving")
        /\ committed[t] + amount <= MaxTurn
        /\ c \notin Embeds => calls[t] < MaxCalls
    BY <1>2 DEF Enter, At
  <2>3. /\ pc'[c] = "reserving" /\ need'[c] = amount
        /\ \A p \in Ops \ {c} : pc'[p] = pc[p] /\ need'[p] = need[p]
    BY <1>0, <2>2, GotoTypes DEF Stage, CallTypes
  <2>4. c \notin sent /\ spent[c] = Unknown
    <3>1. c \notin sent
      BY <2>2 DEF CallInvariant, RowsFollowCalls, RowFollows, AfterSend, Ended
    <3> QED
      BY <3>1 DEF LimitsInvariant, BilledWasSent
  <2>5. OnlyTurnOf(c) /\ LimitTypes' /\ Room(c)'
    BY <1>0, <2>2, <2>3 DEF OnlyTurnOf, LimitTypes, Room
  <2>6. UsesLock(c)
    BY <2>2 DEF UsesLock
  <2>7. OwedBy(c)' = 0 /\ OwedBy(c) = 0
    BY <2>2, <2>3, <2>4 DEF OwedBy, Counting
  <2>8. CountsCost(c) /\ CountsCall(c)
    BY <2>1, <2>2, <2>3, <2>4, <2>7 DEF CountsCost, CountsCall, Requests, Unknown
  <2> QED
    BY <1>0, <2>2, <2>4, <2>5, <2>6, <2>8, OneTurnStep
<1>3. ASSUME NEW c \in Ops, TurnAway(c)
      PROVE  LimitsInvariant'
  <2>1. /\ pc[c] = "idle" /\ Goto(c, "failed") /\ UNCHANGED <<need, calls, committed, sent, spent>>
    BY <1>3 DEF TurnAway, At
  <2>2. /\ pc'[c] = "failed" /\ \A p \in Ops \ {c} : pc'[p] = pc[p]
    BY <1>0, <2>1, GotoTypes DEF Stage
  <2>3. OwedBy(c)' = OwedBy(c) /\ OwedBy(c) \in Nat
    BY <1>0, <2>1, <2>2, OwedTypes, LedgerAssumption DEF OwedBy, Counting, Nusd
  <2>4. spent[c] \in Int
    BY <1>0, LedgerAssumption DEF CallTypes, Nusd, Unknown
  <2>5. Active(c)' => Active(c)
    BY <2>2 DEF Active, Ended
  <2>6. c \in Requests(TurnOf[c])' => c \in Requests(TurnOf[c])
    BY <2>1, <2>2 DEF Requests
  <2>7. spent'[c] # Unknown => c \in sent'
    BY <2>1 DEF LimitsInvariant, BilledWasSent
  <2> QED
    BY <1>0, <2>1, <2>2, <2>3, <2>4, <2>5, <2>6, <2>7, QuietStep
<1>4. ASSUME NEW c \in Ops, NEW cost \in Nusd, Bill(c, cost)
      PROVE  LimitsInvariant'
  <2>1. /\ c \in sent /\ spent[c] = Unknown /\ spent' = [spent EXCEPT ![c] = cost]
        /\ UNCHANGED <<pc, need, calls, committed, sent>>
    BY <1>4 DEF Bill
  <2>2. spent'[c] = cost /\ \A p \in Ops \ {c} : spent'[p] = spent[p]
    BY <1>0, <2>1 DEF CallTypes
  <2>3. need[c] \in Nat /\ cost \in Nat
    BY <1>0, LedgerAssumption DEF CallTypes, Nusd
  <2>4. OwedBy(c)' <= OwedBy(c)
    BY <2>1, <2>2, <2>3 DEF OwedBy, LeastOf, Counting
  <2>5. pc[c] # "reserving"
    BY <2>1 DEF CallInvariant, RowsFollowCalls, RowFollows, AfterSend, Ended
  <2>6. Active(c)' => Active(c)
    BY <2>1 DEF Active
  <2>7. c \in Requests(TurnOf[c])' => c \in Requests(TurnOf[c])
    BY <2>1 DEF Requests
  <2> QED
    BY <1>0, <2>1, <2>2, <2>3, <2>4, <2>5, <2>6, <2>7, QuietStep DEF Unknown
<1>5. CASE (\E c \in Ops : Reconcile(c)) \/ MonthEnds \/ AdministratorUnpauses \/ UNCHANGED vars
  <2>1. UNCHANGED callVars
    BY <1>5 DEF Reconcile, MonthEnds, AdministratorUnpauses, vars
  <2> QED
    BY <2>1 DEF callVars, LimitsInvariant, LimitTypes, OneAtATime, BilledWasSent, Room, TurnHeld,
                Active, Owed, OwedBy, Requests, Fitting, Total, Units
<1> QED
  BY <1>1, <1>2, <1>3, <1>4, <1>5 DEF Next

-----------------------------------------------------------------------------
\* The variables of the gateway keep their types; what a turn has committed never falls
\* below zero, though a hold given back and a cheaper charge lower it (TurnBudget,
\* complete and embed in provider.py).
THEOREM GatewayTypeCorrect == Spec => []GatewayTypeOK
<1>1. CallInvariant /\ LimitsInvariant => GatewayTypeOK
  BY DEF CallInvariant, CallTypes, LimitsInvariant, LimitTypes, GatewayTypeOK
<1> QED
  BY <1>1, InitCallInvariant, NextCallInvariant, InitLimits, NextLimits, PTL DEF Spec

\* A turn makes no more model requests than it may, whatever is cancelled, lost or late
\* (TurnBudget.max_calls, checked under the turn's lock before each hold).
THEOREM CallsWithinLimit == Spec => []CallsBounded
<1>1. LimitsInvariant => CallsBounded
  <2> SUFFICES ASSUME LimitsInvariant, NEW t \in Turns
               PROVE  Cardinality((sent \ Embeds) \cap CallsOf(t)) <= MaxCalls
    BY DEF CallsBounded
  <2> DEFINE made == (sent \ Embeds) \cap CallsOf(t)
  <2>1. made \subseteq Requests(t)
    BY DEF Requests
  <2>2. Cardinality(made) \in Nat /\ Cardinality(made) <= Cardinality(Requests(t))
    BY <2>1, RequestsFinite, FS_Subset, FS_CardinalityType
  <2>3. Cardinality(Requests(t)) <= calls[t] /\ calls[t] \in 0..MaxCalls
    BY DEF LimitsInvariant, TurnHeld, LimitTypes
  <2> QED
    BY <2>2, <2>3, RequestsFinite, GatewayAssumption
<1> QED
  BY <1>1, InitCallInvariant, NextCallInvariant, InitLimits, NextLimits, PTL DEF Spec

\* A turn costs no more than its allowance unless a charge exceeds its hold: late charges,
\* lost replies of the ledger and holds given back do not lose count
\* (TurnBudget.max_cost_nusd, committed_nusd).
THEOREM TurnsStayWithin == Spec => []TurnWithinAllowance
<1>1. CallInvariant /\ LimitsInvariant => TurnWithinAllowance
  <2> SUFFICES ASSUME CallInvariant, LimitsInvariant, NEW t \in Turns, Fitting(t)
               PROVE  TurnSpend(t) <= MaxTurn
    BY DEF TurnWithinAllowance, Fitting
  <2> DEFINE w == [c \in Ops |-> IF TurnOf[c] = t /\ spent[c] # Unknown
                                 THEN LeastOf(spent[c], need[c]) ELSE 0]
  <2>0. CallTypes
    BY DEF CallInvariant
  <2>1. w \in [Ops -> Nat]
    BY <2>0, LedgerAssumption DEF CallTypes, Nusd, LeastOf, Unknown
  <2>2. Owed(t) \in [Ops -> Nat]
    BY <2>0, OwedTypes, LedgerAssumption DEF Bounded, Nusd
  <2>3. ASSUME NEW c \in Ops
        PROVE  w[c] <= Owed(t)[c]
    <3>1. need[c] \in Nat /\ (spent[c] # Unknown => spent[c] \in Nat /\ c \in sent)
      BY <2>0, LedgerAssumption DEF CallTypes, Nusd, LimitsInvariant, BilledWasSent, Unknown
    <3>2. OwedBy(c) \in Nat
      BY <2>0, OwedTypes, LedgerAssumption DEF Nusd
    <3> QED
      BY <3>1, <3>2 DEF Owed, OwedBy, LeastOf
  <2>4. Total(w) <= Total(Owed(t))
    <3> HIDE DEF w
    <3> QED
      BY <2>1, <2>2, <2>3, TotalMonotone
  <2>5. Total(Owed(t)) <= committed[t] /\ committed[t] <= MaxTurn /\ committed[t] \in Nat
    BY DEF LimitsInvariant, TurnHeld, LimitTypes
  <2> QED
    BY <2>4, <2>5, TotalType, GatewayAssumption DEF TurnSpend
<1> QED
  BY <1>1, InitCallInvariant, NextCallInvariant, InitLimits, NextLimits, PTL DEF Spec
=============================================================================
