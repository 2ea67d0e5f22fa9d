------------------------------ MODULE Gateway ------------------------------
(***************************************************************************)
(* The paid gateway: PaidGateway in provider.py with the TurnBudget of     *)
(* each chat turn, on top of the ledger.                                   *)
(*                                                                         *)
(* A call is one run of complete or embed; it is named by the ledger       *)
(* operation it may open.  The calls of a turn share its TurnBudget and    *)
(* hold its lock from the first check to the end.  Every await of the code *)
(* is a step of its own: at each of them other turns run, the month may    *)
(* change, the database may fail or lose its reply, the turn may be        *)
(* cancelled, and the provider may charge for a request long after the     *)
(* call stopped waiting for it.                                            *)
(***************************************************************************)
EXTENDS Ledger

CONSTANTS
  Turns,    \* chat turns
  TurnOf,   \* the turn of each call
  Embeds,   \* the calls that are embeddings: they do not count as model calls
  MaxCalls, \* TurnBudget.max_calls
  MaxTurn   \* TurnBudget.max_cost_nusd

ASSUME GatewayAssumption ==
  /\ TurnOf \in [Ops -> Turns]
  /\ Embeds \subseteq Ops
  /\ MaxCalls \in Nat
  /\ MaxTurn \in Nat

VARIABLES
  pc,        \* where each call is
  need,      \* the hold each call asks for
  asked,     \* the month a call read from its clock for the statement under way
  calls,     \* TurnBudget.calls
  committed, \* TurnBudget.committed_nusd
  sent,      \* the requests the provider has received
  spent      \* what the provider charges for each of them, once it knows

callVars == <<pc, need, asked, calls, committed, sent, spent>>
vars == <<ledgerVars, callVars>>

Unknown == -1
Stage == {"idle", "reserving", "releasing", "sending", "waiting", "settling",
          "doubting", "mistrusting", "pausing", "done", "failed"}
Ended == {"done", "failed"}
\* Stages in which the call is waiting for the ledger with a clock already read.
Asking == {"reserving", "releasing", "settling"}

CallsOf(t) == {c \in Ops : TurnOf[c] = t}
Busy(t) == \E c \in CallsOf(t) : pc[c] \notin {"idle"} \cup Ended

At(c, stage) == pc[c] = stage
Goto(c, stage) ==
  /\ pc' = [pc EXCEPT ![c] = stage]
  /\ asked' = [asked EXCEPT ![c] = IF stage \in Asking THEN month ELSE 1]
Commit(c, delta) == committed' = [committed EXCEPT ![TurnOf[c]] = @ + delta]

-----------------------------------------------------------------------------
(***************************************************************************)
(* Before the request.                                                     *)
(***************************************************************************)
\* A slip: two calls of one turn make their checks before either is counted.
EnterUnlocked(c, amount) ==
  /\ At(c, "idle")
  /\ c \notin Embeds => calls[TurnOf[c]] < MaxCalls
  /\ committed[TurnOf[c]] + amount <= MaxTurn
  /\ Goto(c, "reserving")
  /\ need' = [need EXCEPT ![c] = amount]
  /\ UNCHANGED <<ledgerVars, calls, committed, sent, spent>>

\* The turn's limits are checked under its lock, then the hold is asked for.
Enter(c, amount) ==
  /\ At(c, "idle")
  /\ ~Busy(TurnOf[c])
  /\ c \notin Embeds => calls[TurnOf[c]] < MaxCalls
  /\ committed[TurnOf[c]] + amount <= MaxTurn
  /\ Goto(c, "reserving")
  /\ need' = [need EXCEPT ![c] = amount]
  /\ UNCHANGED <<ledgerVars, calls, committed, sent, spent>>

\* A price that expired, a deadline passed, a limit reached: nothing is asked.
TurnAway(c) ==
  /\ At(c, "idle")
  /\ ~Busy(TurnOf[c])
  /\ Goto(c, "failed")
  /\ UNCHANGED <<ledgerVars, need, calls, committed, sent, spent>>

\* A slip: the hold is counted in the turn only once it is settled.
ReserveOKUncounted(c) ==
  /\ At(c, "reserving")
  /\ Reserve(c, need[c], asked[c])
  /\ Goto(c, "sending")
  /\ calls' = IF c \in Embeds THEN calls ELSE [calls EXCEPT ![TurnOf[c]] = @ + 1]
  /\ UNCHANGED <<need, committed, sent, spent>>

\* The hold is committed and the reply arrives.  A model call whose deadline or
\* price ran out meanwhile gives the hold back; an embedding goes on regardless.
ReserveOK(c) ==
  /\ At(c, "reserving")
  /\ Reserve(c, need[c], asked[c])
  /\ Commit(c, need[c])
  /\ \/ /\ Goto(c, "sending")
        /\ calls' = IF c \in Embeds THEN calls
                    ELSE [calls EXCEPT ![TurnOf[c]] = @ + 1]
     \/ /\ c \notin Embeds
        /\ Goto(c, "releasing")
        /\ UNCHANGED calls
  /\ UNCHANGED <<need, sent, spent>>

\* The hold is committed but its reply is lost, or the call is cancelled there.
ReserveLost(c) ==
  /\ At(c, "reserving")
  /\ Reserve(c, need[c], asked[c])
  /\ Goto(c, "failed")
  /\ UNCHANGED <<need, calls, committed, sent, spent>>

\* A slip: giving a hold back deletes its row.
ReleaseOKDeleting(c) ==
  /\ At(c, "releasing")
  /\ ops' = [ops EXCEPT ![c] = NoRow]
  /\ Commit(c, 0 - need[c])
  /\ Goto(c, "failed")
  /\ UNCHANGED <<month, paused, reviewed, need, calls, sent, spent>>

ReleaseOK(c) ==
  /\ At(c, "releasing")
  /\ Release(c, asked[c])
  /\ Commit(c, 0 - need[c])
  /\ Goto(c, "failed")
  /\ UNCHANGED <<need, calls, sent, spent>>

ReleaseLost(c) ==
  /\ At(c, "releasing")
  /\ Release(c, asked[c])
  /\ Goto(c, "failed")
  /\ UNCHANGED <<need, calls, committed, sent, spent>>

-----------------------------------------------------------------------------
(***************************************************************************)
(* The request.                                                            *)
(***************************************************************************)
Send(c) ==
  /\ At(c, "sending")
  /\ sent' = sent \cup {c}
  /\ Goto(c, "waiting")
  /\ UNCHANGED <<ledgerVars, need, calls, committed, spent>>

\* A slip: any connection failure is taken for proof that nothing was sent.
NotSentEver(c) ==
  /\ pc[c] \in {"sending", "waiting"}
  /\ c \notin Embeds
  /\ Goto(c, "releasing")
  /\ UNCHANGED <<ledgerVars, need, calls, committed, sent, spent>>

\* NotSentError: the adapter proved that no request was attempted.
NotSent(c) ==
  /\ At(c, "sending")
  /\ c \notin Embeds
  /\ Goto(c, "releasing")
  /\ UNCHANGED <<ledgerVars, need, calls, committed, sent, spent>>

\* The provider works a request off and knows its charge, whoever still waits.
Bill(c, cost) ==
  /\ c \in sent
  /\ spent[c] = Unknown
  /\ spent' = [spent EXCEPT ![c] = cost]
  /\ UNCHANGED <<ledgerVars, pc, need, asked, calls, committed, sent>>

\* A slip: no timeout, a request is given up only once the provider answered it.
TroubleAnswered(c) ==
  /\ At(c, "waiting")
  /\ spent[c] # Unknown
  /\ Goto(c, "doubting")
  /\ UNCHANGED <<ledgerVars, need, calls, committed, sent, spent>>

\* The timeout, an error status or a broken connection, on either side of the
\* moment the provider received the request.
Trouble(c) ==
  /\ pc[c] \in {"sending", "waiting"}
  /\ Goto(c, "doubting")
  /\ UNCHANGED <<ledgerVars, need, calls, committed, sent, spent>>

\* Cancellation stops at once and leaves the row as it is.
Cancel(c) ==
  /\ pc[c] \in {"sending", "waiting", "mistrusting"}
  /\ Goto(c, "failed")
  /\ UNCHANGED <<ledgerVars, need, calls, committed, sent, spent>>

\* A response: its usage cannot be read, it comes from another model, or it is
\* priced and settled.
Respond(c) ==
  /\ At(c, "waiting")
  /\ spent[c] # Unknown
  /\ \E stage \in {"settling", "doubting", "mistrusting"} : Goto(c, stage)
  /\ UNCHANGED <<ledgerVars, need, calls, committed, sent, spent>>

-----------------------------------------------------------------------------
(***************************************************************************)
(* After the request.                                                      *)
(***************************************************************************)
\* The charge is committed and the reply arrives; usage beyond the bounds then
\* pauses the account: a charge above the hold or, for a model call, more tokens
\* than foreseen at a lower price.
SettleOK(c) ==
  /\ At(c, "settling")
  /\ Settle(c, spent[c], asked[c])
  /\ Commit(c, spent[c] - need[c])
  /\ \/ (c \in Embeds => spent[c] > need[c]) /\ Goto(c, "pausing")
     \/ spent[c] <= need[c] /\ Goto(c, "done")
  /\ UNCHANGED <<need, calls, sent, spent>>

SettleLost(c) ==
  /\ At(c, "settling")
  /\ Settle(c, spent[c], asked[c])
  /\ Goto(c, "failed")
  /\ UNCHANGED <<need, calls, committed, sent, spent>>

\* _uncertain; a wrong model also pauses the account.
DoubtOK(c) ==
  /\ pc[c] \in {"doubting", "mistrusting"}
  /\ Uncertain(c)
  /\ Goto(c, IF At(c, "doubting") THEN "failed" ELSE "pausing")
  /\ UNCHANGED <<need, calls, committed, sent, spent>>

\* _uncertain swallows a failure of the ledger: the hold stands as it is.
DoubtFailed(c) ==
  /\ pc[c] \in {"doubting", "mistrusting"}
  /\ Goto(c, IF At(c, "doubting") THEN "failed" ELSE "pausing")
  /\ UNCHANGED <<ledgerVars, need, calls, committed, sent, spent>>

PauseOK(c) ==
  /\ At(c, "pausing")
  /\ Pause
  /\ Goto(c, "failed")
  /\ UNCHANGED <<need, calls, committed, sent, spent>>

\* A ledger statement is refused, fails before it commits, or is cancelled.
LedgerFailed(c) ==
  /\ pc[c] \in Asking \cup {"pausing"}
  /\ Goto(c, "failed")
  /\ UNCHANGED <<ledgerVars, need, calls, committed, sent, spent>>

-----------------------------------------------------------------------------
(***************************************************************************)
(* The surroundings.                                                       *)
(***************************************************************************)
\* No ledger statement takes more than MaxLag months.
MonthEnds ==
  /\ \A c \in Ops : pc[c] \in Asking => asked[c] > month - MaxLag
  /\ NextMonth
  /\ UNCHANGED callVars

AdministratorUnpauses == Unpause /\ UNCHANGED callVars

\* An operator settles an open hold of a call that is over from the provider's
\* own records (docs/phase1.md; the tool is not part of this repository).
Reconcile(c) ==
  /\ pc[c] \in Ended
  /\ c \in sent => spent[c] # Unknown
  /\ Settle(c, IF c \in sent THEN spent[c] ELSE 0, month)
  /\ UNCHANGED callVars

\* The steps a call takes of its own accord.
Forward(c) ==
  \/ ReserveOK(c) \/ ReserveLost(c)
  \/ ReleaseOK(c) \/ ReleaseLost(c)
  \/ Send(c) \/ NotSent(c) \/ Trouble(c) \/ Respond(c)
  \/ SettleOK(c) \/ SettleLost(c)
  \/ DoubtOK(c) \/ DoubtFailed(c) \/ PauseOK(c) \/ LedgerFailed(c)

Advance(c) == Forward(c) \/ Cancel(c)

Init ==
  /\ LedgerInit
  /\ pc = [c \in Ops |-> "idle"]
  /\ need = [c \in Ops |-> 0]
  /\ asked = [c \in Ops |-> 1]
  /\ calls = [t \in Turns |-> 0]
  /\ committed = [t \in Turns |-> 0]
  /\ sent = {}
  /\ spent = [c \in Ops |-> Unknown]

Next ==
  \/ \E c \in Ops, amount \in Nusd \ {0} : Enter(c, amount)
  \/ \E c \in Ops : TurnAway(c)
  \/ \E c \in Ops : Advance(c)
  \/ \E c \in Ops, cost \in Nusd : Bill(c, cost)
  \/ \E c \in Ops : Reconcile(c)
  \/ MonthEnds
  \/ AdministratorUnpauses

Spec == Init /\ [][Next]_vars

\* The database statements time out after 3 s, the wait for a connection after
\* 10 s and the request at the turn's deadline: a call under way moves on,
\* whether or not anybody cancels it.
Fairness == \A c \in Ops : WF_vars(Forward(c))

FairSpec == Spec /\ Fairness

-----------------------------------------------------------------------------
(***************************************************************************)
(* Properties.                                                             *)
(***************************************************************************)
GatewayTypeOK ==
  /\ pc \in [Ops -> Stage]
  /\ need \in [Ops -> Nusd]
  /\ asked \in [Ops -> Months]
  /\ calls \in [Turns -> 0..MaxCalls]
  /\ committed \in [Turns -> Nat]
  /\ sent \subseteq Ops
  /\ spent \in [Ops -> Nusd \cup {Unknown}]

\* A request that reached the provider is never recorded as free or as cheaper
\* than it was: its hold stays open, or it is settled at exactly what the
\* provider charges, through every timeout, cancellation and lost reply.
MoneyIsKept ==
  \A c \in sent :
    Held(c) \/ (ops[c].state = "settled" /\ ops[c].cost = spent[c])

\* What the provider charges a turn, of the calls whose charge fits their hold.
TurnSpend(t) ==
  Total([c \in Ops |-> IF TurnOf[c] = t /\ spent[c] # Unknown
                       THEN LeastOf(spent[c], need[c]) ELSE 0])

\* A turn costs no more than its allowance unless a charge exceeds its hold.
TurnWithinAllowance ==
  \A t \in Turns :
    (\A c \in CallsOf(t) : spent[c] <= need[c]) => TurnSpend(t) <= MaxTurn

\* A turn makes no more model requests than it may.
CallsBounded ==
  \A t \in Turns : Cardinality((sent \ Embeds) \cap CallsOf(t)) <= MaxCalls

\* A call that takes the turn's lock always ends, and gives the lock back.
CallsEnd == \A c \in Ops : pc[c] = "reserving" ~> pc[c] \in Ended
=============================================================================
