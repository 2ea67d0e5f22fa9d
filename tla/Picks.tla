-------------------------------- MODULE Picks --------------------------------
(***************************************************************************)
(* The picks of a turn: _picks and until_most_back in engine.py, with the  *)
(* paid calls the turn makes before and after them.                        *)
(*                                                                         *)
(* A round of picks asks the model the same thing several times at once.   *)
(* Every pick has a budget of its own, an equal share of what is left of   *)
(* the turn's.  Once most are back the others get a short grace; a pick    *)
(* that is later than that goes on by itself while the turn makes its next *)
(* calls, or is over.  The shares are counted in the turn's budget when    *)
(* the round ends, as they are then.                                       *)
(*                                                                         *)
(* A pick is one call of the gateway: it asks the ledger for its hold,     *)
(* sends its request, and comes back with something usable or without.     *)
(* What a request is charged above its hold (a bound of the gateway that   *)
(* did not hold) is counted apart.  The ledger pauses its account then;    *)
(* here later holds are granted nevertheless, as if it had been reviewed.  *)
(***************************************************************************)
EXTENDS Integers, FiniteSets

CONSTANTS
  Voters,        \* the picks of a round, ChatEngine.picks of them
  Allowance,     \* ChatEngine.max_turn_nusd
  TurnSeconds,   \* the deadline of the turn's budget and of every share
  PickSeconds,   \* one_call.PICK_SECONDS
  GraceSeconds,  \* one_call.PICK_GRACE_SECONDS
  AskSeconds,    \* the longest the ledger takes to answer for a hold
  Rounds,        \* bound: rounds of picks in one turn
  MaxAbove       \* bound: what one request is charged above its hold

ASSUME PicksAssumption ==
  /\ IsFiniteSet(Voters) /\ Voters # {}
  /\ {Allowance, TurnSeconds, PickSeconds, GraceSeconds, AskSeconds, Rounds, MaxAbove}
       \subseteq Nat
  /\ AskSeconds < PickSeconds

VARIABLES
  clock,      \* seconds since the turn began
  phase,      \* what the turn does: pays a call, waits for picks, or nothing more
  round,      \* the rounds begun
  rounds,     \* of each round: when it began, when its wait ends, its shares, its picks
  committed,  \* TurnBudget.committed_nusd of the turn
  own,        \* what the turn's other calls were held or charged, each up to its hold
  over,       \* what the picks waited for were charged above their holds
  above       \* of committed, what was charged above its hold

vars == <<clock, phase, round, rounds, committed, own, over, above>>

Size == Cardinality(Voters)
Most == Size \div 2 + 1
Sums == 0..Allowance

\* A pick's hold is its share's committed_nusd, but for what it was charged above its hold.
Pick == [at: {"none", "asking", "sent", "usable", "useless"}, hold: Sums]
Round == [began: 0..TurnSeconds, end: 0..(TurnSeconds + PickSeconds), share: Sums,
          picks: [Voters -> Pick]]

NoRound == [began |-> 0, end |-> 0, share |-> 0,
            picks |-> [v \in Voters |-> [at |-> "none", hold |-> 0]]]

Out(pick) == pick.at \in {"asking", "sent"}
\* What the picks of a round hold: the sum is the number of units it stands for.
UnitsHeld(picks) == {u \in Voters \X (1..Allowance) : u[2] <= picks[u[1]].hold}
Holds(picks) == Cardinality(UnitsHeld(picks))
Usable(picks) == Cardinality({v \in Voters : picks[v].at = "usable"})
Earlier(x, y) == IF x < y THEN x ELSE y
Left == IF committed < Allowance THEN Allowance - committed ELSE 0

-----------------------------------------------------------------------------
(***************************************************************************)
(* A round.                                                                *)
(***************************************************************************)
\* A slip: every pick may use all that is left.
BeginUndivided ==
  /\ phase = "own" /\ round < Rounds
  /\ phase' = "picking" /\ round' = round + 1
  /\ rounds' = [rounds EXCEPT ![round'] =
       [began |-> clock, end |-> clock + PickSeconds, share |-> Left,
        picks |-> [v \in Voters |-> [at |-> "asking", hold |-> 0]]]]
  /\ UNCHANGED <<clock, committed, own, over, above>>

Begin ==
  /\ phase = "own" /\ round < Rounds
  /\ phase' = "picking" /\ round' = round + 1
  /\ rounds' = [rounds EXCEPT ![round'] =
       [began |-> clock, end |-> clock + PickSeconds,
        share |-> Left \div Size,
        picks |-> [v \in Voters |-> [at |-> "asking", hold |-> 0]]]]
  /\ UNCHANGED <<clock, committed, own, over, above>>

\* The turn waits for the picks of this round.
Awaited(r) == phase = "picking" /\ r = round

\* The pick becomes what the gateway made of it; a pick that ends wakes until_most_back,
\* which gives the others no more than the grace once most are back with something usable.
Becomes(r, v, pick) ==
  LET picks == [rounds[r].picks EXCEPT ![v] = pick]
      heard == Awaited(r) /\ ~Out(pick) /\ Usable(picks) >= Most
  IN  rounds' = [rounds EXCEPT
        ![r].picks = picks,
        ![r].end = IF heard THEN Earlier(@, clock + GraceSeconds) ELSE @]

\* The share has no room for the call, or the ledger refuses it, fails, or answers too late
\* for it to be sent.
TurnedAway(r, v) ==
  /\ rounds[r].picks[v].at = "asking"
  /\ Becomes(r, v, [at |-> "useless", hold |-> 0])

Sent(r, v) ==
  /\ rounds[r].picks[v].at = "asking"
  /\ clock < TurnSeconds
  /\ \E hold \in 1..rounds[r].share : Becomes(r, v, [at |-> "sent", hold |-> hold])

\* The adapter proved that nothing was sent.
NotSent(r, v) ==
  /\ rounds[r].picks[v].at = "sent"
  /\ Becomes(r, v, [at |-> "useless", hold |-> 0])

\* The request is charged and its reply is usable or not.
Charged(r, v) ==
  /\ rounds[r].picks[v].at = "sent"
  /\ \E at \in {"usable", "useless"}, cost \in 0..rounds[r].picks[v].hold :
       Becomes(r, v, [at |-> at, hold |-> cost])

\* It is charged more than its hold: the pick fails, and the charge stands whole.
Overruns(r, v) ==
  /\ rounds[r].picks[v].at = "sent"
  /\ Becomes(r, v, [rounds[r].picks[v] EXCEPT !.at = "useless"])
  /\ \E more \in 1..MaxAbove : over' = IF Awaited(r) THEN over + more ELSE over

\* A slip: a share has no deadline, only the provider ends its request.
FailsInTime(r, v) ==
  /\ rounds[r].picks[v].at = "sent" /\ clock < TurnSeconds
  /\ Becomes(r, v, [rounds[r].picks[v] EXCEPT !.at = "useless"])

\* A request fails, or meets the deadline: its hold stands.
Fails(r, v) ==
  /\ rounds[r].picks[v].at = "sent"
  /\ Becomes(r, v, [rounds[r].picks[v] EXCEPT !.at = "useless"])

WaitOver ==
  \/ \A v \in Voters : ~Out(rounds[round].picks[v])
  \/ clock >= rounds[round].end

\* A slip: what the late picks hold is not counted.
CountDone ==
  /\ phase = "picking" /\ WaitOver
  /\ phase' = "own"
  /\ committed' = committed + Holds([v \in Voters |->
       IF Out(rounds[round].picks[v]) THEN NoRound.picks[v] ELSE rounds[round].picks[v]]) + over
  /\ above' = above + over /\ over' = 0
  /\ UNCHANGED <<clock, round, rounds, own>>

\* The wait is over: the shares are counted, and the late picks go on.
Count ==
  /\ phase = "picking" /\ WaitOver
  /\ phase' = "own"
  /\ committed' = committed + Holds(rounds[round].picks) + over
  /\ above' = above + over /\ over' = 0
  /\ UNCHANGED <<clock, round, rounds, own>>

\* The turn's time is over while it waits, or its client leaves: the picks of the round are
\* cancelled, and what they hold stands.
Cancel ==
  /\ phase = "picking"
  /\ phase' = "over"
  /\ committed' = committed + Holds(rounds[round].picks) + over
  /\ above' = above + over /\ over' = 0
  /\ rounds' = [rounds EXCEPT ![round].picks =
       [v \in Voters |-> IF Out(@[v]) THEN [@[v] EXCEPT !.at = "useless"] ELSE @[v]]]
  /\ UNCHANGED <<clock, round, own>>

-----------------------------------------------------------------------------
(***************************************************************************)
(* The turn around it.                                                     *)
(***************************************************************************)
\* A call of the turn's own budget, from its hold to its charge.
Call ==
  /\ phase = "own" /\ clock < TurnSeconds
  /\ \E hold \in 1..(Allowance - committed) : \E cost \in 0..hold :
       committed' = committed + cost /\ own' = own + cost
  /\ UNCHANGED <<clock, phase, round, rounds, over, above>>

\* One that is charged more than its hold: it fails, and the charge stands whole.
CallOverruns ==
  /\ phase = "own" /\ clock < TurnSeconds
  /\ \E hold \in 1..(Allowance - committed), more \in 1..MaxAbove :
       /\ committed' = committed + hold + more
       /\ own' = own + hold
       /\ above' = above + more
  /\ UNCHANGED <<clock, phase, round, rounds, over>>

Finish ==
  /\ phase = "own"
  /\ phase' = "over"
  /\ UNCHANGED <<clock, round, rounds, committed, own, over, above>>

\* A second passes; nothing that has a limit outlasts it.
Tick ==
  /\ clock < TurnSeconds
  /\ phase = "picking" => ~WaitOver
  /\ \A r \in 1..round, v \in Voters :
       rounds[r].picks[v].at = "asking" => clock < rounds[r].began + AskSeconds
  /\ clock' = clock + 1
  /\ UNCHANGED <<phase, round, rounds, committed, own, over, above>>

Init ==
  /\ clock = 0 /\ phase = "own" /\ round = 0
  /\ rounds = [r \in 1..Rounds |-> NoRound]
  /\ committed = 0 /\ own = 0 /\ over = 0 /\ above = 0

\* The steps of a pick, and those a limit that ran out brings about.
Ends(r, v) == TurnedAway(r, v) \/ Fails(r, v)
Moves(r, v) == Sent(r, v) \/ NotSent(r, v) \/ Charged(r, v) \/ Ends(r, v)

TurnStays == UNCHANGED <<clock, phase, round, committed, own, above>>
Beside == TurnStays /\ UNCHANGED over

Next ==
  \/ \E r \in 1..Rounds, v \in Voters :
       (Moves(r, v) /\ Beside) \/ (Overruns(r, v) /\ TurnStays)
  \/ Begin \/ Count \/ Cancel \/ Call \/ CallOverruns \/ Finish \/ Tick

Spec == Init /\ [][Next]_vars

\* Whether a limit that has run out is acted upon.
Overdue(r, v) ==
  \/ rounds[r].picks[v].at = "asking" /\ clock >= rounds[r].began + AskSeconds
  \/ clock = TurnSeconds

\* Time passes, the ledger answers, and limits that ran out are acted upon.  The model may
\* never answer, and the turn need not go on.
Fairness ==
  /\ WF_vars(Tick) /\ WF_vars(Count)
  /\ \A r \in 1..Rounds, v \in Voters : WF_vars(Overdue(r, v) /\ Ends(r, v) /\ Beside)

FairSpec == Spec /\ Fairness

-----------------------------------------------------------------------------
(***************************************************************************)
(* Properties.                                                             *)
(***************************************************************************)
\* But for what requests are charged above their holds, the turn's budget never counts more
\* than its allowance, though the picks of a round are admitted each without a look at the
\* others.
PicksTypeOK ==
  /\ clock \in 0..TurnSeconds
  /\ phase \in {"own", "picking", "over"}
  /\ round \in 0..Rounds
  /\ rounds \in [1..Rounds -> Round]
  /\ {committed, over, above} \subseteq Nat
  /\ {committed - above, own} \subseteq Sums

\* What the turn and its picks may be charged, the late ones included, each request up to its
\* hold.
Spent ==
  own + Cardinality({u \in (1..Rounds) \X Voters \X (1..Allowance) :
                       u[3] <= rounds[u[1]].picks[u[2]].hold})

\* A pick still asking for its hold when its round ends is never counted.  There are fewer of
\* them than half of the round, and each stays within its share: that is all a turn may be
\* charged beyond its allowance, unless the provider charges more than a hold.
SpendBounded == Spent <= Allowance + round * (Size - Most) * (Allowance \div Size)

\* A round ends although the model never answers, and so do its late picks: there is a
\* time at which none is held any more.
PicksEnd ==
  LET held == \E r \in 1..Rounds, v \in Voters : Out(rounds[r].picks[v])
  IN  /\ phase = "picking" ~> phase # "picking"
      /\ held ~> ~held
=============================================================================
