----------------------------- MODULE PicksProofs -----------------------------
(***************************************************************************)
(* What a turn may be charged for picks made at once: for any number of    *)
(* picks and rounds, any allowance and any limits, as long as the ledger   *)
(* answers for a hold before a round of picks may end.  What requests are  *)
(* charged above their holds is apart from it.                             *)
(*                                                                         *)
(* A pick that still asks for its hold when its round is counted may cost  *)
(* its whole share later: the invariant counts it so from the start.  At   *)
(* the count only a minority still asks: either the ledger has answered    *)
(* all, or the round ended early because most were back.                   *)
(***************************************************************************)
EXTENDS Picks, FiniteSetTheorems, TLAPS

Asking(r) == {v \in Voters : rounds[r].picks[v].at = "asking"}

\* What a pick may be charged in the end: its share while it asks for its hold.
Worth(r, v) ==
  IF rounds[r].picks[v].at = "asking" THEN rounds[r].share ELSE rounds[r].picks[v].hold

\* The units of money some rounds may be charged, and those they hold.
MayCost(R) == {u \in R \X Voters \X (1..Allowance) : u[3] <= Worth(u[1], u[2])}
Holding(R) == {u \in R \X Voters \X (1..Allowance) : u[3] <= rounds[u[1]].picks[u[2]].hold}

\* What the turn's budget has counted, each request up to its hold.
Net == committed - above

\* The rounds the turn's budget has counted.
Last == IF phase = "picking" THEN round - 1 ELSE round

\* What a minority of a round's picks may cost.
Beyond == (Size - Most) * (Allowance \div Size)

\* A round: its picks stay within its share and the ledger answers them in time; its wait
\* is cut short only when most are back with something usable.
RoundHeld(r) ==
  LET one == rounds[r] IN
  /\ one.share <= Allowance \div Size
  /\ r > round => one = NoRound
  /\ r <= round /\ one.end # one.began + PickSeconds => Usable(one.picks) >= Most
  /\ \A v \in Voters :
       /\ one.picks[v].hold <= one.share
       /\ one.picks[v].at = "asking" =>
            one.picks[v].hold = 0 /\ clock <= one.began + AskSeconds

PicksInvariant ==
  /\ PicksTypeOK
  /\ \A r \in 1..Rounds : RoundHeld(r)
  /\ own <= Net
  /\ phase = "picking" => round > 0 /\ Size * rounds[round].share <= Allowance - Net
  /\ own + Cardinality(MayCost(1..Last)) <= Net + Last * Beyond

-----------------------------------------------------------------------------
(***************************************************************************)
(* Shares and majorities.                                                  *)
(***************************************************************************)
\* The quotient of a division by what is not zero.
LEMMA Division ==
  ASSUME NEW x \in Nat, NEW s \in Nat \ {0}
  PROVE  x \div s \in Nat /\ s * (x \div s) <= x /\ x < s * (x \div s) + s
BY SMT

\* An equal part of more is more.
LEMMA DivisionGrows ==
  ASSUME NEW x \in Nat, NEW y \in Nat, x <= y, NEW s \in Nat \ {0}
  PROVE  x \div s <= y \div s
<1>1. ASSUME NEW p \in Nat, NEW q \in Nat, s * p <= x, y < s * q + s, p > q
      PROVE  FALSE
  <2>1. s * p >= s * (q + 1)
    BY <1>1, SMT
  <2> QED
    BY <1>1, <2>1, SMT
<1> QED
  BY <1>1, Division

\* The sizes the model is built from: a majority is at least one pick and at most all.
LEMMA Sizes ==
  /\ Size \in Nat \ {0} /\ Most \in Nat /\ Most <= Size
  /\ Allowance \div Size \in Nat
  /\ Beyond \in Nat
<1>1. Size \in Nat \ {0}
  BY FS_CardinalityType, FS_EmptySet, PicksAssumption DEF Size
<1>2. Most \in Nat /\ Most <= Size
  BY <1>1 DEF Most
<1>3. Allowance \div Size \in Nat
  BY <1>1, Division, PicksAssumption
<1>4. ASSUME NEW x \in Nat, NEW y \in Nat
      PROVE  x * y \in Nat
  OBVIOUS
<1>5. Size - Most \in Nat
  BY <1>1, <1>2
<1> QED
  BY <1>1, <1>2, <1>3, <1>4, <1>5 DEF Beyond

\* A share of what is left: all of them together fit, and none is larger than one of all.
LEMMA Shares ==
  ASSUME NEW left \in Sums
  PROVE  LET share == left \div Size
         IN  /\ share \in Sums
             /\ Size * share <= left
             /\ share <= Allowance \div Size
<1> DEFINE share == left \div Size
<1>1. left \in Nat /\ left <= Allowance /\ Allowance \in Nat
  BY PicksAssumption DEF Sums
<1>2. share \in Nat /\ Size * share <= left
  BY <1>1, Sizes, Division
<1>3. share <= Allowance \div Size
  BY <1>1, Sizes, DivisionGrows
<1>4. ASSUME NEW s \in Nat \ {0}, NEW q \in Nat
      PROVE  q <= s * q
  <2>1. s * q = q + (s - 1) * q
    BY SMT
  <2>2. (s - 1) * q \in Nat
    BY SMT
  <2> QED
    BY <2>1, <2>2
<1>5. share <= Size * share /\ Size * share \in Nat
  BY <1>2, <1>4, Sizes
<1>6. share \in Sums
  BY <1>1, <1>2, <1>5 DEF Sums
<1> QED
  BY <1>2, <1>3, <1>6

\* Where most are usable, only a minority still asks.
LEMMA MinorityAsks ==
  ASSUME NEW r, Usable(rounds[r].picks) >= Most
  PROVE  Cardinality(Asking(r)) <= Size - Most
<1> DEFINE U == {v \in Voters : rounds[r].picks[v].at = "usable"}
           A == Asking(r)
<1>1. U \subseteq Voters /\ A \subseteq Voters /\ U \cap A = {}
  BY DEF Asking
<1>2. IsFiniteSet(U) /\ IsFiniteSet(A) /\ IsFiniteSet(Voters)
  BY <1>1, FS_Subset, PicksAssumption
<1>3. Cardinality(U \cup A) = Cardinality(U) + Cardinality(A)
  <2>1. Cardinality(U \cup A) = Cardinality(U) + Cardinality(A) - Cardinality(U \cap A)
    BY <1>2, FS_Union
  <2>2. Cardinality(U \cap A) = 0
    BY <1>1, FS_EmptySet
  <2> QED
    BY <1>2, <2>1, <2>2, FS_CardinalityType
<1>4. Cardinality(U \cup A) <= Size
  BY <1>1, <1>2, FS_Subset DEF Size
<1>5. Cardinality(U) >= Most /\ Cardinality(U) \in Nat /\ Cardinality(A) \in Nat
  BY <1>2, FS_CardinalityType DEF Usable
<1> QED
  BY <1>3, <1>4, <1>5, Sizes

-----------------------------------------------------------------------------
(***************************************************************************)
(* Sums.                                                                   *)
(***************************************************************************)
\* The products the sums are sets of are finite.
LEMMA TriplesFinite ==
  ASSUME NEW R, IsFiniteSet(R)
  PROVE  IsFiniteSet(R \X Voters \X (1..Allowance))
<1> DEFINE N == 1..Allowance
           P == R \X (Voters \X N)
           f == [p \in P |-> <<p[1], p[2][1], p[2][2]>>]
           T == R \X Voters \X N
<1>1. IsFiniteSet(P)
  <2>1. IsFiniteSet(N)
    BY FS_Interval, PicksAssumption
  <2>2. IsFiniteSet(Voters \X N)
    BY <2>1, FS_Product, PicksAssumption
  <2> QED
    BY <2>2, FS_Product
<1>2. f \in Surjection(P, T)
  <2>1. f \in [P -> T]
    OBVIOUS
  <2>2. ASSUME NEW t \in T
        PROVE  \E p \in P : f[p] = t
    <3>1. <<t[1], <<t[2], t[3]>>>> \in P
      OBVIOUS
    <3>2. f[<<t[1], <<t[2], t[3]>>>>] = t
      BY <3>1
    <3> QED
      BY <3>1, <3>2
  <2> QED
    BY <2>1, <2>2 DEF Surjection
<1> QED
  BY <1>1, <1>2, FS_Surjection

\* What the picks of one round hold, counted among all rounds or alone.
LEMMA OneRound ==
  ASSUME NEW r
  PROVE  IsFiniteSet(Holding({r})) /\ Cardinality(Holding({r})) = Holds(rounds[r].picks)
<1> DEFINE N == 1..Allowance
           H == Holding({r})
           S == UnitsHeld(rounds[r].picks)
           f == [u \in H |-> <<u[2], u[3]>>]
<1>1. IsFiniteSet(H)
  <2>1. IsFiniteSet({r} \X Voters \X N)
    BY TriplesFinite, FS_Singleton
  <2> QED
    BY <2>1, FS_Subset DEF Holding
<1>2. f \in Bijection(H, S)
  <2>1. f \in [H -> S]
    BY DEF Holding, UnitsHeld
  <2>2. ASSUME NEW x \in H, NEW y \in H, f[x] = f[y]
        PROVE  x = y
    BY <2>2 DEF Holding
  <2>3. ASSUME NEW p \in S
        PROVE  \E u \in H : f[u] = p
    <3>1. <<r, p[1], p[2]>> \in H
      BY DEF Holding, UnitsHeld
    <3>2. f[<<r, p[1], p[2]>>] = p
      BY <3>1 DEF UnitsHeld
    <3> QED
      BY <3>1, <3>2
  <2> QED
    BY <2>1, <2>2, <2>3 DEF Bijection, Injection, IsInjective, Surjection
<1>3. Cardinality(S) = Cardinality(H)
  BY <1>1, <1>2, FS_Bijection DEF ExistsBijection
<1> QED
  BY <1>1, <1>3 DEF Holds

\* The shares of picks: as many times the share as there are picks.
LEMMA SharesOf ==
  ASSUME NEW V \in SUBSET Voters, NEW share \in Nat
  PROVE  /\ IsFiniteSet(V \X (1..share))
         /\ Cardinality(V \X (1..share)) = Cardinality(V) * share
<1>1. IsFiniteSet(V)
  BY FS_Subset, PicksAssumption
<1>2. IsFiniteSet(1..share) /\ Cardinality(1..share) = share
  BY FS_Interval
<1> QED
  BY <1>1, <1>2, FS_Product

\* Picks that stay within their share hold no more than all shares.
LEMMA HoldsFit ==
  ASSUME NEW picks, NEW share \in Nat,
         \A v \in Voters : picks[v].hold \in Nat /\ picks[v].hold <= share
  PROVE  Holds(picks) \in Nat /\ Holds(picks) <= Size * share
<1>1. UnitsHeld(picks) \subseteq Voters \X (1..share)
  BY PicksAssumption DEF UnitsHeld
<1>2. IsFiniteSet(Voters \X (1..share)) /\ Cardinality(Voters \X (1..share)) = Size * share
  BY SharesOf DEF Size
<1> QED
  BY <1>1, <1>2, FS_Subset, FS_CardinalityType DEF Holds

\* What some rounds may cost is a number.
LEMMA MayCostFinite ==
  ASSUME NEW R, IsFiniteSet(R)
  PROVE  IsFiniteSet(MayCost(R)) /\ Cardinality(MayCost(R)) \in Nat
BY TriplesFinite, FS_Subset, FS_CardinalityType DEF MayCost

\* Two sets together have no more than both.
LEMMA Together ==
  ASSUME NEW S, IsFiniteSet(S), NEW T, IsFiniteSet(T), NEW U \in SUBSET (S \cup T)
  PROVE  /\ IsFiniteSet(U) /\ Cardinality(U) \in Nat
         /\ Cardinality(U) <= Cardinality(S) + Cardinality(T)
<1>1. IsFiniteSet(S \cup T)
      /\ Cardinality(S \cup T) = Cardinality(S) + Cardinality(T) - Cardinality(S \cap T)
  BY FS_Union
<1>2. Cardinality(S \cap T) \in Nat
  BY FS_Intersection, FS_CardinalityType
<1>3. IsFiniteSet(U) /\ Cardinality(U) <= Cardinality(S \cup T)
  BY <1>1, FS_Subset
<1>4. Cardinality(S) \in Nat /\ Cardinality(T) \in Nat /\ Cardinality(U) \in Nat
  BY <1>3, FS_CardinalityType
<1> QED
  BY <1>1, <1>2, <1>3, <1>4

\* The units the picks that still ask may be charged.
Late(r) == {u \in {r} \X Asking(r) \X (1..Allowance) : u[3] <= rounds[r].share}

\* A minority that asks costs no more than a minority of the largest shares.
LEMMA LateFew ==
  ASSUME NEW r, rounds[r].share \in Nat, rounds[r].share <= Allowance \div Size,
         Cardinality(Asking(r)) <= Size - Most
  PROVE  IsFiniteSet(Late(r)) /\ Cardinality(Late(r)) <= Beyond
<1> DEFINE A == Asking(r)
           share == rounds[r].share
           P == A \X (1..share)
           f == [u \in Late(r) |-> <<u[2], u[3]>>]
<1>1. IsFiniteSet(P) /\ Cardinality(P) = Cardinality(A) * share
  BY SharesOf DEF Asking
<1>2. f \in Injection(Late(r), P)
  <2>1. f \in [Late(r) -> P]
    BY PicksAssumption DEF Late
  <2>2. ASSUME NEW x \in Late(r), NEW y \in Late(r), f[x] = f[y]
        PROVE  x = y
    BY <2>2 DEF Late
  <2> QED
    BY <2>1, <2>2 DEF Injection, IsInjective
<1>3. IsFiniteSet(Late(r)) /\ Cardinality(Late(r)) <= Cardinality(P)
  BY <1>1, <1>2, FS_Injection
<1>4. Cardinality(A) \in Nat
  BY FS_Subset, FS_CardinalityType, PicksAssumption DEF Asking
<1>5. ASSUME NEW a \in Nat, NEW b \in Nat, NEW x \in Nat, NEW y \in Nat, a <= x, b <= y
      PROVE  a * b <= x * y
  <2>1. a * b <= x * b
    BY <1>5, SMT
  <2>2. x * b <= x * y
    BY <1>5, SMT
  <2>3. a * b \in Nat /\ x * b \in Nat /\ x * y \in Nat
    OBVIOUS
  <2> QED
    BY <2>1, <2>2, <2>3
<1>6. Cardinality(A) * share <= Beyond
  BY <1>4, <1>5, Sizes DEF Beyond
<1>7. Cardinality(Late(r)) \in Nat /\ Cardinality(P) \in Nat
  BY <1>1, <1>3, FS_CardinalityType
<1> QED
  BY <1>1, <1>3, <1>6, <1>7, Sizes

-----------------------------------------------------------------------------
(***************************************************************************)
(* The steps of a pick.                                                    *)
(***************************************************************************)
\* What the turn's budget counts, with and without what was charged above the holds.
LEMMA Amounts ==
  ASSUME PicksInvariant
  PROVE  /\ own \in Nat /\ Net \in Nat /\ Net <= Allowance /\ Net <= committed
         /\ committed \in Nat /\ above \in Nat /\ over \in Nat
         /\ Allowance \in Nat /\ Rounds \in Nat /\ MaxAbove \in Nat
<1>1. committed \in Nat /\ above \in Nat /\ over \in Nat
  BY DEF PicksInvariant, PicksTypeOK
<1>2. Allowance \in Nat /\ Rounds \in Nat /\ MaxAbove \in Nat
  BY PicksAssumption
<1>3. committed - above \in 0..Allowance /\ own \in 0..Allowance
  BY DEF PicksInvariant, PicksTypeOK, Sums
<1> QED
  BY <1>1, <1>2, <1>3 DEF Net

\* What the counted rounds may cost is a number, and so is what the budget has for it.
LEMMA Numbers ==
  ASSUME PicksInvariant
  PROVE  /\ Last \in Nat /\ Last <= Rounds /\ Last <= round
         /\ round \in 0..Rounds /\ Rounds \in Nat /\ Allowance \in Nat
         /\ IsFiniteSet(MayCost(1..Last)) /\ Cardinality(MayCost(1..Last)) \in Nat
         /\ own \in Nat /\ Net \in Nat /\ Net <= Allowance
         /\ committed \in Nat /\ above \in Nat /\ over \in Nat /\ Net <= committed
         /\ Last * Beyond \in Nat /\ round * Beyond \in Nat
<1>1. /\ round \in 0..Rounds /\ Rounds \in Nat /\ Allowance \in Nat
      /\ own \in Nat /\ Net \in Nat /\ Net <= Allowance
      /\ committed \in Nat /\ above \in Nat /\ over \in Nat /\ Net <= committed
  BY Amounts DEF PicksInvariant, PicksTypeOK
<1>2. Last \in Nat /\ Last <= Rounds /\ Last <= round
  BY <1>1 DEF PicksInvariant, Last
<1>3. IsFiniteSet(MayCost(1..Last)) /\ Cardinality(MayCost(1..Last)) \in Nat
  BY <1>2, MayCostFinite, FS_Interval
<1>4. ASSUME NEW x \in Nat
      PROVE  x * Beyond \in Nat
  BY Sizes
<1> QED
  BY <1>1, <1>2, <1>3, <1>4

\* A step of a pick, whatever its request is charged.
Steps(r, v) == (Moves(r, v) /\ Beside) \/ (Overruns(r, v) /\ TurnStays)

\* Every step of a pick ends its asking or its request, within what it could cost before,
\* but for a charge above its hold.
LEMMA MoveIs ==
  ASSUME PicksInvariant, NEW r \in 1..Rounds, NEW v \in Voters, Steps(r, v)
  PROVE  /\ Out(rounds[r].picks[v]) /\ r <= round
         /\ \E pick \in Pick : /\ Becomes(r, v, pick)
                              /\ pick.at \in {"sent", "usable", "useless"}
                              /\ pick.hold <= Worth(r, v)
<1> DEFINE old == rounds[r].picks[v]
<1>1. old \in Pick /\ rounds[r].share \in Sums
  BY DEF PicksInvariant, PicksTypeOK, Round
<1>2. Out(old)
  BY DEF Steps, Moves, Sent, NotSent, Charged, Overruns, Ends, TurnedAway, Fails, Out
<1>3. r <= round
  <2> SUFFICES ASSUME r > round PROVE FALSE
    BY DEF PicksInvariant, PicksTypeOK
  <2>1. rounds[r] = NoRound
    BY DEF PicksInvariant, RoundHeld
  <2>2. old.at = "none"
    BY <2>1 DEF NoRound
  <2> QED
    BY <1>2, <2>2 DEF Out
<1>4. Worth(r, v) \in Sums
  BY <1>1 DEF Worth, Pick
<1>5. 0 \in Sums /\ Sums \subseteq Nat
  BY PicksAssumption DEF Sums
<1>6. CASE TurnedAway(r, v)
  <2> DEFINE pick == [at |-> "useless", hold |-> 0]
  <2>1. pick \in Pick /\ pick.at = "useless" /\ pick.hold <= Worth(r, v)
    BY <1>4, <1>5 DEF Pick, Sums
  <2>2. Becomes(r, v, pick)
    BY <1>6 DEF TurnedAway
  <2> HIDE DEF pick
  <2> QED
    BY <1>2, <1>3, <2>1, <2>2
<1>7. CASE Sent(r, v)
  <2>1. PICK hold \in 1..rounds[r].share : Becomes(r, v, [at |-> "sent", hold |-> hold])
    BY <1>7 DEF Sent
  <2>2. hold \in Sums /\ hold <= rounds[r].share
    BY <1>1, PicksAssumption DEF Sums
  <2>3. Worth(r, v) = rounds[r].share
    BY <1>7 DEF Sent, Worth
  <2>4. [at |-> "sent", hold |-> hold] \in Pick
    BY <2>2 DEF Pick
  <2> QED
    BY <1>2, <1>3, <2>1, <2>2, <2>3, <2>4
<1>8. CASE NotSent(r, v)
  <2> DEFINE pick == [at |-> "useless", hold |-> 0]
  <2>1. pick \in Pick /\ pick.at = "useless" /\ pick.hold <= Worth(r, v)
    BY <1>4, <1>5 DEF Pick, Sums
  <2>2. Becomes(r, v, pick)
    BY <1>8 DEF NotSent
  <2> HIDE DEF pick
  <2> QED
    BY <1>2, <1>3, <2>1, <2>2
<1>9. CASE Charged(r, v)
  <2>1. PICK at \in {"usable", "useless"}, cost \in 0..old.hold :
          Becomes(r, v, [at |-> at, hold |-> cost])
    BY <1>9 DEF Charged
  <2>2. old.hold \in Sums
    BY <1>1 DEF Pick
  <2>3. cost \in Sums /\ cost <= Worth(r, v)
    <3>1. Worth(r, v) = old.hold
      BY <1>9 DEF Charged, Worth
    <3> QED
      BY <2>2, <3>1, PicksAssumption DEF Sums
  <2>4. [at |-> at, hold |-> cost] \in Pick
    BY <2>3 DEF Pick
  <2> QED
    BY <1>2, <1>3, <2>1, <2>3, <2>4
<1>10. CASE Fails(r, v) \/ Overruns(r, v)
  <2> DEFINE pick == [old EXCEPT !.at = "useless"]
  <2>1. pick \in Pick /\ pick.at = "useless" /\ pick.hold = old.hold
    BY <1>1 DEF Pick
  <2>2. old.hold \in Sums /\ old.hold <= Worth(r, v)
    BY <1>1, <1>5, <1>10 DEF Fails, Overruns, Worth, Pick
  <2> QED
    BY <1>2, <1>3, <1>10, <2>1, <2>2 DEF Fails, Overruns
<1> QED
  BY <1>6, <1>7, <1>8, <1>9, <1>10 DEF Steps, Moves, Ends

\* A pick that is no longer out leaves no fewer usable ones behind.
LEMMA UsableStays ==
  ASSUME NEW picks \in [Voters -> Pick], NEW v \in Voters, NEW pick \in Pick, Out(picks[v])
  PROVE  Usable([picks EXCEPT ![v] = pick]) >= Usable(picks)
<1> DEFINE new == [picks EXCEPT ![v] = pick]
           U == {w \in Voters : picks[w].at = "usable"}
           W == {w \in Voters : new[w].at = "usable"}
<1>1. U \subseteq W
  BY DEF Out
<1>2. IsFiniteSet(W)
  BY FS_Subset, PicksAssumption
<1> QED
  BY <1>1, <1>2, FS_Subset DEF Usable

LEMMA MoveHolds ==
  ASSUME PicksInvariant, NEW r \in 1..Rounds, NEW v \in Voters, Steps(r, v)
  PROVE  PicksInvariant'
<1> DEFINE one == rounds[r]
<1>0. TurnStays /\ Net' = Net /\ over' \in Nat
  <2>1. CASE Moves(r, v) /\ Beside
    BY <2>1 DEF Beside, TurnStays, Net, PicksInvariant, PicksTypeOK
  <2>2. CASE Overruns(r, v) /\ TurnStays
    <3>1. PICK more \in 1..MaxAbove : over' = IF Awaited(r) THEN over + more ELSE over
      BY <2>2 DEF Overruns
    <3>2. over \in Nat /\ over + more \in Nat
      BY PicksAssumption DEF PicksInvariant, PicksTypeOK
    <3> QED
      BY <2>2, <3>1, <3>2 DEF TurnStays, Net
  <2> QED
    BY <2>1, <2>2 DEF Steps
<1>1. Out(one.picks[v]) /\ r <= round
  BY MoveIs
<1>2. PICK pick \in Pick : /\ Becomes(r, v, pick)
                           /\ pick.at \in {"sent", "usable", "useless"}
                           /\ pick.hold <= Worth(r, v)
  BY MoveIs
<1> DEFINE picks == [one.picks EXCEPT ![v] = pick]
           heard == Awaited(r) /\ ~Out(pick) /\ Usable(picks) >= Most
           end == IF heard THEN Earlier(one.end, clock + GraceSeconds) ELSE one.end
<1>3. one \in Round /\ rounds \in [1..Rounds -> Round] /\ clock \in Nat
  BY DEF PicksInvariant, PicksTypeOK
<1>4. /\ rounds' = [rounds EXCEPT ![r] = [one EXCEPT !.picks = picks, !.end = end]]
      /\ rounds'[r] = [one EXCEPT !.picks = picks, !.end = end]
      /\ \A q \in 1..Rounds \ {r} : rounds'[q] = rounds[q]
  BY <1>2, <1>3 DEF Becomes
<1>5. picks \in [Voters -> Pick] /\ one.picks \in [Voters -> Pick]
  BY <1>2, <1>3 DEF Round
<1>6. end \in 0..(TurnSeconds + PickSeconds)
  BY <1>3, PicksAssumption DEF Round, Earlier
<1>7. PicksTypeOK'
  <2>1. [one EXCEPT !.picks = picks, !.end = end] \in Round
    BY <1>3, <1>5, <1>6 DEF Round
  <2> QED
    BY <1>0, <1>3, <1>4, <2>1 DEF PicksInvariant, PicksTypeOK, TurnStays
<1>8. RoundHeld(r)
  BY DEF PicksInvariant
<1>9. RoundHeld(r)'
  <2>1. /\ rounds'[r].began = one.began /\ rounds'[r].share = one.share
        /\ rounds'[r].picks = picks /\ rounds'[r].end = end
        /\ round' = round /\ clock' = clock
    BY <1>0, <1>3, <1>4 DEF Round, TurnStays
  <2>2. one.share <= Allowance \div Size /\ ~(r > round)
    BY <1>1, <1>8 DEF RoundHeld, PicksInvariant, PicksTypeOK
  <2>3. ASSUME end # one.began + PickSeconds
        PROVE  Usable(picks) >= Most
    <3>1. CASE heard
      BY <3>1
    <3>2. CASE ~heard
      <4>1. Usable(one.picks) >= Most
        BY <1>1, <1>8, <2>3, <3>2 DEF RoundHeld
      <4>2. Usable(picks) >= Usable(one.picks)
        BY <1>1, <1>2, <1>5, UsableStays
      <4>3. ASSUME NEW p
            PROVE  Usable(p) \in Nat
        BY FS_Subset, FS_CardinalityType, PicksAssumption DEF Usable
      <4> QED
        BY <4>1, <4>2, <4>3, Sizes
    <3> QED
      BY <3>1, <3>2
  <2>4. ASSUME NEW w \in Voters
        PROVE  /\ picks[w].hold <= one.share
               /\ picks[w].at = "asking" =>
                    picks[w].hold = 0 /\ clock <= one.began + AskSeconds
    <3>1. CASE w = v
      <4>1. picks[w] = pick
        BY <1>5, <3>1
      <4>2. Worth(r, v) <= one.share /\ Worth(r, v) \in Nat
        BY <1>3, <1>8 DEF Worth, RoundHeld, Round, Pick, Sums
      <4> QED
        BY <1>2, <1>3, <4>1, <4>2 DEF Pick, Sums, Round
    <3>2. CASE w # v
      BY <1>5, <1>8, <3>2 DEF RoundHeld
    <3> QED
      BY <3>1, <3>2
  <2> QED
    BY <2>1, <2>2, <2>3, <2>4 DEF RoundHeld
<1>10. ASSUME NEW q \in 1..Rounds, q # r
       PROVE  RoundHeld(q)'
  <2>1. RoundHeld(q) /\ rounds'[q] = rounds[q] /\ round' = round /\ clock' = clock
    BY <1>0, <1>4, <1>10 DEF PicksInvariant, TurnStays
  <2> QED
    BY <2>1 DEF RoundHeld
<1>11. own + Cardinality(MayCost(1..Last))' <= Net + Last * Beyond
  <2>1. MayCost(1..Last)' \subseteq MayCost(1..Last)
    <3>1. Last' = Last
      BY <1>0 DEF Last, TurnStays
    <3>2. ASSUME NEW q \in 1..Rounds, NEW w \in Voters
          PROVE  Worth(q, w)' \in Nat /\ Worth(q, w) \in Nat /\ Worth(q, w)' <= Worth(q, w)
      <4>1. rounds[q] \in Round /\ rounds'[q] \in Round
        BY <1>7 DEF PicksTypeOK, PicksInvariant
      <4>2. Worth(q, w)' \in Nat /\ Worth(q, w) \in Nat
        BY <4>1 DEF Worth, Round, Pick, Sums
      <4>3. CASE q = r /\ w = v
        <5>1. rounds'[q].picks[w] = pick
          BY <1>3, <1>4, <1>5, <4>3 DEF Round
        <5> QED
          BY <1>2, <4>2, <4>3, <5>1 DEF Worth
      <4>4. CASE q = r /\ w # v
        <5>1. rounds'[q].picks[w] = rounds[q].picks[w] /\ rounds'[q].share = rounds[q].share
          BY <1>3, <1>4, <1>5, <4>4 DEF Round
        <5> QED
          BY <4>2, <5>1 DEF Worth
      <4>5. CASE q # r
        BY <1>4, <4>2, <4>5 DEF Worth
      <4> QED
        BY <4>3, <4>4, <4>5
    <3>3. 1..Last \subseteq 1..Rounds
      BY PicksAssumption DEF PicksInvariant, PicksTypeOK, Last
    <3> QED
      BY <3>1, <3>2, <3>3 DEF MayCost
  <2>2. IsFiniteSet(MayCost(1..Last)) /\ Cardinality(MayCost(1..Last)) \in Nat
    BY Numbers
  <2>3. /\ Cardinality(MayCost(1..Last)') <= Cardinality(MayCost(1..Last))
        /\ Cardinality(MayCost(1..Last)') \in Nat
    BY <2>1, <2>2, FS_Subset, FS_CardinalityType
  <2>4. own \in Nat /\ Net + Last * Beyond \in Int
    BY Numbers
  <2> QED
    BY <2>2, <2>3, <2>4 DEF PicksInvariant
<1>12. phase' = phase /\ own' = own /\ Net' = Net /\ Last' = Last
  BY <1>0 DEF TurnStays, Last
<1>13. phase = "picking" => round > 0 /\ Size * rounds'[round].share <= Allowance - Net
  <2>1. \A q \in 1..Rounds : rounds'[q].share = rounds[q].share
    BY <1>3, <1>4 DEF Round
  <2> QED
    BY <2>1 DEF PicksInvariant, PicksTypeOK
<1> QED
  BY <1>0, <1>7, <1>9, <1>10, <1>11, <1>12, <1>13 DEF PicksInvariant, TurnStays, Beyond

-----------------------------------------------------------------------------
(***************************************************************************)
(* The steps of the turn.                                                  *)
(***************************************************************************)
LEMMA BeginHolds ==
  ASSUME PicksInvariant, Begin
  PROVE  PicksInvariant'
<1> DEFINE share == Left \div Size
           one == [began |-> clock, end |-> clock + PickSeconds, share |-> share,
                   picks |-> [v \in Voters |-> [at |-> "asking", hold |-> 0]]]
<1>0. PICK n \in 1..Rounds : n = round + 1
  BY Numbers DEF Begin
<1>1. /\ rounds \in [1..Rounds -> Round] /\ clock \in 0..TurnSeconds
      /\ n \in 1..Rounds /\ round' = n /\ n = round + 1
      /\ phase = "own" /\ phase' = "picking"
      /\ rounds' = [rounds EXCEPT ![n] = one]
      /\ clock' = clock /\ Net' = Net /\ own' = own
      /\ committed' = committed /\ above' = above /\ over' = over
  BY <1>0, Numbers DEF PicksInvariant, PicksTypeOK, Begin, Net
<1>2. /\ share \in Sums
      /\ Size * share <= Allowance - Net
      /\ share <= Allowance \div Size
  <2>1. Left \in Sums /\ Left <= Allowance - Net
    BY Numbers DEF Left, Sums
  <2>2. share \in Sums /\ Size * share <= Left /\ share <= Allowance \div Size
    BY <2>1, Shares
  <2>3. Size * share \in Nat
    BY <2>2, Sizes, PicksAssumption DEF Sums
  <2> HIDE DEF share
  <2> QED
    BY <2>1, <2>2, <2>3, Numbers DEF Sums
<1> HIDE DEF share
<1>3. one \in Round
  BY <1>1, <1>2, PicksAssumption DEF Round, Pick, Sums
<1>4. rounds'[n] = one /\ \A q \in 1..Rounds \ {n} : rounds'[q] = rounds[q]
  BY <1>1
<1>5. PicksTypeOK'
  BY <1>1, <1>3, Numbers DEF PicksInvariant, PicksTypeOK
<1>6. RoundHeld(n)'
  <2>1. 0 <= share /\ clock <= clock + AskSeconds
    BY <1>1, <1>2, PicksAssumption DEF Sums
  <2>2. ~(n > n)
    BY <1>1
  <2> QED
    BY <1>1, <1>2, <1>4, <2>1, <2>2 DEF RoundHeld
<1>7. ASSUME NEW q \in 1..Rounds, q # n
      PROVE  RoundHeld(q)'
  <2>1. RoundHeld(q) /\ rounds'[q] = rounds[q]
    BY <1>4, <1>7 DEF PicksInvariant
  <2>2. (q > n => q > round) /\ (q <= n => q <= round)
    BY <1>1, <1>7, Numbers
  <2> QED
    BY <1>1, <2>1, <2>2 DEF RoundHeld
<1>8. Last' = Last /\ Last = round
  BY <1>1, Numbers DEF Last
<1>9. MayCost(1..Last)' = MayCost(1..Last)
  <2>1. \A q \in 1..Last : rounds'[q] = rounds[q]
    BY <1>1, <1>4, <1>8, Numbers
  <2> QED
    BY <1>8, <2>1 DEF MayCost, Worth
<1>10. (own + Cardinality(MayCost(1..Last)) <= Net + Last * Beyond)'
  <2>1. own + Cardinality(MayCost(1..Last)) <= Net + Last * Beyond
    BY DEF PicksInvariant
  <2> QED
    BY <1>1, <1>8, <1>9, <2>1 DEF Beyond
<1>11. (own <= Net)'
  BY <1>1 DEF PicksInvariant
<1>12. n > 0 /\ Size * rounds'[n].share <= Allowance - Net'
  BY <1>1, <1>2, <1>4
<1> QED
  BY <1>1, <1>5, <1>6, <1>7, <1>10, <1>11, <1>12 DEF PicksInvariant

\* What the picks of the round under way hold fits what is left of the turn's budget.
LEMMA RoundFits ==
  ASSUME PicksInvariant, phase = "picking"
  PROVE  /\ round \in 1..Rounds
         /\ Holds(rounds[round].picks) \in Nat
         /\ Holds(rounds[round].picks) <= Allowance - Net
<1> DEFINE one == rounds[round]
<1>1. round \in 1..Rounds
  BY Numbers DEF PicksInvariant
<1>2. one \in Round
  BY <1>1 DEF PicksInvariant, PicksTypeOK
<1>3. \A v \in Voters : one.picks[v].hold \in Nat /\ one.picks[v].hold <= one.share
  BY <1>1, <1>2, PicksAssumption DEF PicksInvariant, RoundHeld, Round, Pick, Sums
<1>4. one.share \in Nat
  BY <1>2, PicksAssumption DEF Round, Sums
<1>5. Holds(one.picks) \in Nat /\ Holds(one.picks) <= Size * one.share
  BY <1>3, <1>4, HoldsFit
<1>6. Size * one.share <= Allowance - Net
  BY DEF PicksInvariant
<1>7. Size * one.share \in Nat
  BY <1>4, Sizes
<1> QED
  BY <1>1, <1>5, <1>6, <1>7, Numbers

\* When a round's wait is over only a minority of its picks still asks.
LEMMA FewAskAtTheCount ==
  ASSUME PicksInvariant, phase = "picking", WaitOver
  PROVE  Cardinality(Asking(round)) <= Size - Most
<1> DEFINE one == rounds[round]
<1>1. round \in 1..Rounds
  BY RoundFits
<1>2. one \in Round /\ RoundHeld(round) /\ clock \in Nat
  BY <1>1 DEF PicksInvariant, PicksTypeOK
<1>3. CASE Usable(one.picks) >= Most
  BY <1>3, MinorityAsks
<1>4. CASE ~(Usable(one.picks) >= Most)
  <2>1. one.end = one.began + PickSeconds
    BY <1>1, <1>2, <1>4 DEF RoundHeld
  <2>2. Asking(round) = {}
    <3>1. CASE \A v \in Voters : ~Out(one.picks[v])
      BY <3>1 DEF Asking, Out
    <3>2. CASE clock >= one.end
      <4>1. ~(clock <= one.began + AskSeconds)
        BY <1>2, <2>1, <3>2, PicksAssumption DEF Round
      <4> QED
        BY <1>2, <4>1 DEF Asking, RoundHeld
    <3> QED
      BY <3>1, <3>2 DEF WaitOver
  <2>3. Cardinality(Asking(round)) = 0
    BY <2>2, FS_EmptySet
  <2> QED
    BY <2>3, Sizes
<1> QED
  BY <1>3, <1>4

\* The budget takes in what the round holds, and with it all but what a minority may cost.
LEMMA Counts ==
  ASSUME PicksInvariant, phase = "picking",
         NEW late, IsFiniteSet(late), Cardinality(late) <= Beyond,
         NEW may \in SUBSET ((MayCost(1..Last) \cup Holding({round})) \cup late)
  PROVE  own + Cardinality(may) <= Net + Holds(rounds[round].picks) + round * Beyond
<1> DEFINE before == MayCost(1..Last)
           now == Holding({round})
<1>1. IsFiniteSet(now) /\ Cardinality(now) = Holds(rounds[round].picks)
  BY OneRound
<1>2. IsFiniteSet(before) /\ Cardinality(before) \in Nat
  BY Numbers
<1>3. IsFiniteSet(before \cup now) /\ Cardinality(before \cup now) \in Nat
      /\ Cardinality(before \cup now) <= Cardinality(before) + Cardinality(now)
  BY <1>1, <1>2, Together
<1>4. Cardinality(may) \in Nat
      /\ Cardinality(may) <= Cardinality(before \cup now) + Cardinality(late)
  BY <1>3, Together
<1>5. Cardinality(late) \in Nat
  BY FS_CardinalityType
<1>6. own + Cardinality(before) <= Net + Last * Beyond
  BY DEF PicksInvariant
<1>7. round * Beyond = Last * Beyond + Beyond
  <2>1. ASSUME NEW n \in Nat \ {0}, NEW b \in Nat
        PROVE  n * b = (n - 1) * b + b
    BY SMT
  <2>2. Last = round - 1 /\ round \in Nat \ {0}
    BY RoundFits DEF Last
  <2> QED
    BY <2>1, <2>2, Sizes
<1>8. own \in Nat /\ Net \in Nat /\ Last * Beyond \in Nat /\ Beyond \in Nat
  BY Numbers, Sizes
<1>9. Holds(rounds[round].picks) \in Nat
  BY RoundFits
<1> DEFINE a == Cardinality(before)
           h == Holds(rounds[round].picks)
           l == Last * Beyond
           n == round * Beyond
<1>10. own + a <= Net + l /\ n = l + Beyond
       /\ Cardinality(may) <= a + h + Cardinality(late)
  BY <1>1, <1>2, <1>3, <1>4, <1>5, <1>6, <1>7, <1>9
<1>11. a \in Nat /\ h \in Nat /\ l \in Nat /\ Cardinality(may) \in Nat
  BY <1>2, <1>4, <1>8, <1>9
<1> HIDE DEF before, now, a, h, l, n
<1>12. own + Cardinality(may) <= Net + h + n
  BY <1>5, <1>8, <1>10, <1>11
<1> QED
  BY <1>12 DEF h, n

LEMMA CountHolds ==
  ASSUME PicksInvariant, Count
  PROVE  PicksInvariant'
<1> DEFINE H == Holds(rounds[round].picks)
           late == Late(round)
<1>1. /\ phase = "picking" /\ WaitOver /\ phase' = "own"
      /\ committed' = committed + H + over /\ above' = above + over /\ over' = 0
      /\ clock' = clock /\ round' = round /\ rounds' = rounds /\ own' = own
  BY DEF Count
<1>2. round \in 1..Rounds /\ H \in Nat /\ H <= Allowance - Net
  BY <1>1, RoundFits
<1>3. rounds[round] \in Round /\ RoundHeld(round)
  BY <1>2 DEF PicksInvariant, PicksTypeOK
<1> HIDE DEF H
<1>0. Net' = Net + H /\ {committed', over', above'} \subseteq Nat
  BY <1>1, <1>2, Amounts DEF Net
<1>4. PicksTypeOK'
  <2>1. (committed - above)' \in Sums
    BY <1>0, <1>2, Amounts DEF Net, Sums
  <2> QED
    BY <1>0, <1>1, <2>1 DEF PicksInvariant, PicksTypeOK
<1>5. \A r \in 1..Rounds : RoundHeld(r)'
  BY <1>1 DEF PicksInvariant, RoundHeld
<1>6. own' <= Net'
  <2>1. own <= Net /\ own \in Nat /\ Net \in Nat
    BY Numbers DEF PicksInvariant
  <2> QED
    BY <1>0, <1>1, <1>2, <2>1
<1>7. IsFiniteSet(late) /\ Cardinality(late) <= Beyond
  <2>1. Cardinality(Asking(round)) <= Size - Most
    BY <1>1, FewAskAtTheCount
  <2>2. rounds[round].share \in Nat /\ rounds[round].share <= Allowance \div Size
    BY <1>3, PicksAssumption DEF RoundHeld, Round, Sums
  <2> QED
    BY <2>1, <2>2, LateFew
<1>8. Last' = round /\ Last = round - 1
  BY <1>1 DEF Last
<1>9. MayCost(1..round) \subseteq (MayCost(1..Last) \cup Holding({round})) \cup late
  BY <1>2, <1>8 DEF MayCost, Holding, Late, Worth, Asking
<1>10. own + Cardinality(MayCost(1..round)) <= Net + H + round * Beyond
  BY <1>1, <1>7, <1>9, Counts DEF H
<1>11. MayCost(1..Last)' = MayCost(1..round)
  BY <1>1, <1>8 DEF MayCost, Worth
<1>12. (own + Cardinality(MayCost(1..Last)) <= Net + Last * Beyond)'
  BY <1>0, <1>1, <1>8, <1>10, <1>11 DEF Beyond
<1> QED
  BY <1>1, <1>4, <1>5, <1>6, <1>12 DEF PicksInvariant

LEMMA CancelHolds ==
  ASSUME PicksInvariant, Cancel
  PROVE  PicksInvariant'
<1> DEFINE H == Holds(rounds[round].picks)
           one == rounds[round]
           left == [v \in Voters |-> IF Out(one.picks[v])
                                     THEN [one.picks[v] EXCEPT !.at = "useless"]
                                     ELSE one.picks[v]]
<1>1. /\ phase = "picking" /\ phase' = "over"
      /\ committed' = committed + H + over /\ above' = above + over /\ over' = 0
      /\ clock' = clock /\ round' = round /\ own' = own
      /\ rounds' = [rounds EXCEPT ![round] = [one EXCEPT !.picks = left]]
  BY RoundFits DEF Cancel, PicksInvariant, PicksTypeOK
<1>2. round \in 1..Rounds /\ H \in Nat /\ H <= Allowance - Net
  BY <1>1, RoundFits
<1>3. one \in Round /\ RoundHeld(round) /\ rounds \in [1..Rounds -> Round]
  BY <1>2 DEF PicksInvariant, PicksTypeOK
<1> HIDE DEF H
<1>0. Net' = Net + H /\ {committed', over', above'} \subseteq Nat
  BY <1>1, <1>2, Amounts DEF Net
<1>4. rounds'[round] = [one EXCEPT !.picks = left]
      /\ \A q \in 1..Rounds \ {round} : rounds'[q] = rounds[q]
  BY <1>1, <1>2, <1>3
<1>5. left \in [Voters -> Pick] /\ \A v \in Voters :
        left[v].hold = one.picks[v].hold /\ left[v].at # "asking"
        /\ (left[v].at = "usable" <=> one.picks[v].at = "usable")
  BY <1>3 DEF Round, Pick, Out
<1> HIDE DEF left
<1>6. [one EXCEPT !.picks = left] \in Round
  BY <1>3, <1>5 DEF Round
<1>7. /\ rounds'[round].picks = left /\ rounds'[round].share = one.share
      /\ rounds'[round].began = one.began /\ rounds'[round].end = one.end
  BY <1>3, <1>4 DEF Round
<1>8. PicksTypeOK'
  <2>1. (committed - above)' \in Sums
    BY <1>0, <1>2, Amounts DEF Net, Sums
  <2> QED
    BY <1>0, <1>1, <1>2, <1>3, <1>6, <2>1 DEF PicksInvariant, PicksTypeOK
<1>9. RoundHeld(round)'
  <2>1. Usable(left) = Usable(one.picks)
    <3>1. {v \in Voters : left[v].at = "usable"} = {v \in Voters : one.picks[v].at = "usable"}
      BY <1>5
    <3> QED
      BY <3>1 DEF Usable
  <2>2. ~(round > round)
    BY <1>2
  <2> QED
    BY <1>1, <1>3, <1>5, <1>7, <2>1, <2>2 DEF RoundHeld
<1>10. ASSUME NEW q \in 1..Rounds, q # round
       PROVE  RoundHeld(q)'
  <2>1. RoundHeld(q) /\ rounds'[q] = rounds[q]
    BY <1>4, <1>10 DEF PicksInvariant
  <2> QED
    BY <1>1, <2>1 DEF RoundHeld
<1>11. own' <= Net'
  BY <1>0, <1>1, <1>2, Numbers DEF PicksInvariant
<1>12. Last' = round /\ Last = round - 1
  BY <1>1 DEF Last
<1>13. MayCost(1..Last)' \subseteq (MayCost(1..Last) \cup Holding({round})) \cup {}
  <2>1. \A q, v : q = round /\ v \in Voters => Worth(q, v)' = one.picks[v].hold
    BY <1>1, <1>5, <1>7 DEF Worth
  <2>2. \A q \in 1..Rounds \ {round}, v \in Voters : Worth(q, v)' = Worth(q, v)
    BY <1>4 DEF Worth
  <2>3. ASSUME NEW u \in MayCost(1..Last)'
        PROVE  u \in MayCost(1..Last) \cup Holding({round})
    <3>1. /\ u \in (1..round) \X Voters \X (1..Allowance)
          /\ u[3] <= Worth(u[1], u[2])'
      BY <1>12 DEF MayCost
    <3>2. CASE u[1] = round
      BY <2>1, <3>1, <3>2 DEF Holding
    <3>3. CASE u[1] # round
      <4>1. u[1] \in 1..Last /\ u[1] \in 1..Rounds \ {round}
        <5>1. u[1] \in 1..round
          BY <3>1
        <5> QED
          BY <1>2, <1>12, <3>3, <5>1, Numbers
      <4>2. Worth(u[1], u[2])' = Worth(u[1], u[2])
        BY <2>2, <3>1, <4>1
      <4> QED
        BY <3>1, <4>1, <4>2 DEF MayCost
    <3> QED
      BY <3>2, <3>3
  <2> QED
    BY <2>3
<1>14. own + Cardinality(MayCost(1..Last)') <= Net + H + round * Beyond
  <2>1. IsFiniteSet({}) /\ Cardinality({}) <= Beyond
    BY FS_EmptySet, Sizes
  <2> QED
    BY <1>1, <1>13, <2>1, Counts DEF H
<1>15. (own + Cardinality(MayCost(1..Last)) <= Net + Last * Beyond)'
  BY <1>0, <1>1, <1>12, <1>14 DEF Beyond
<1> QED
  BY <1>1, <1>8, <1>9, <1>10, <1>11, <1>15 DEF PicksInvariant

\* Steps that leave the rounds alone keep what they may cost.
LEMMA OtherHolds ==
  ASSUME PicksInvariant, Call \/ CallOverruns \/ Finish \/ Tick
  PROVE  PicksInvariant'
<1>1. /\ rounds' = rounds /\ round' = round
      /\ (phase' = "picking") <=> (phase = "picking")
      /\ phase' \in {"own", "picking", "over"}
  BY DEF Call, CallOverruns, Finish, Tick, PicksInvariant, PicksTypeOK
<1>2. /\ \E cost \in Nat : own' = own + cost /\ Net' = Net + cost
      /\ Net' <= Allowance
      /\ phase = "picking" => Net' = Net
      /\ {committed', over', above'} \subseteq Nat
  <2>1. CASE Call
    <3>1. PICK hold \in 1..(Allowance - committed) : \E cost \in 0..hold :
            committed' = committed + cost /\ own' = own + cost
      BY <2>1 DEF Call
    <3>2. PICK cost \in 0..hold : committed' = committed + cost /\ own' = own + cost
      BY <3>1
    <3>3. cost \in Nat /\ Net + cost <= Allowance /\ committed + cost \in Nat
      BY Numbers
    <3>4. phase # "picking" /\ above' = above /\ over' = over
      BY <2>1 DEF Call
    <3>5. Net' = Net + cost
      BY <3>2, <3>3, <3>4, Numbers DEF Net
    <3> QED
      BY <3>2, <3>3, <3>4, <3>5, Numbers
  <2>2. CASE CallOverruns
    <3>1. PICK hold \in 1..(Allowance - committed), more \in 1..MaxAbove :
            committed' = committed + hold + more /\ own' = own + hold /\ above' = above + more
      BY <2>2 DEF CallOverruns
    <3>2. /\ hold \in Nat /\ Net + hold <= Allowance
          /\ committed + hold + more \in Nat /\ above + more \in Nat
      BY Amounts
    <3>3. phase # "picking" /\ over' = over
      BY <2>2 DEF CallOverruns
    <3>4. Net' = Net + hold
      BY <3>1, Amounts DEF Net
    <3> QED
      BY <3>1, <3>2, <3>3, <3>4, Numbers
  <2>3. CASE Finish \/ Tick
    <3>1. own' = own /\ committed' = committed /\ above' = above /\ over' = over
      BY <2>3 DEF Finish, Tick
    <3>2. own' = own + 0 /\ Net' = Net + 0 /\ Net' = Net
      BY <3>1, Numbers DEF Net
    <3> QED
      BY <3>1, <3>2, Numbers
  <2> QED
    BY <2>1, <2>2, <2>3
<1>3. PICK cost \in Nat : own' = own + cost /\ Net' = Net + cost
  BY <1>2
<1>4. clock' \in 0..TurnSeconds /\
      \A r \in 1..round, v \in Voters :
        rounds[r].picks[v].at = "asking" => clock' <= rounds[r].began + AskSeconds
  <2>1. CASE Tick
    <3>1. ASSUME NEW r \in 1..round, NEW v \in Voters, rounds[r].picks[v].at = "asking"
          PROVE  clock' <= rounds[r].began + AskSeconds
      <4>1. rounds[r] \in Round
        BY Numbers DEF PicksInvariant, PicksTypeOK
      <4>2. rounds[r].began \in Nat /\ clock \in Nat /\ AskSeconds \in Nat
        BY <4>1, PicksAssumption DEF PicksInvariant, PicksTypeOK, Round
      <4>3. clock < rounds[r].began + AskSeconds /\ clock' = clock + 1
        BY <2>1, <3>1 DEF Tick
      <4> QED
        BY <4>2, <4>3
    <3>2. clock' \in 0..TurnSeconds
      BY <2>1, PicksAssumption DEF Tick, PicksInvariant, PicksTypeOK
    <3> QED
      BY <3>1, <3>2
  <2>2. CASE Call \/ CallOverruns \/ Finish
    <3>1. clock' = clock
      BY <2>2 DEF Call, CallOverruns, Finish
    <3>2. ASSUME NEW r \in 1..round
          PROVE  RoundHeld(r)
      BY Numbers DEF PicksInvariant
    <3> QED
      BY <3>1, <3>2 DEF PicksInvariant, PicksTypeOK, RoundHeld
  <2> QED
    BY <2>1, <2>2
<1>5. PicksTypeOK'
  <2>1. own' \in Sums /\ (committed - above)' \in Sums
    <3>1. own <= Net
      BY DEF PicksInvariant
    <3> QED
      BY <1>2, <1>3, <3>1, Amounts DEF Sums, Net
  <2> QED
    BY <1>1, <1>2, <1>4, <2>1 DEF PicksInvariant, PicksTypeOK
<1>6. ASSUME NEW r \in 1..Rounds
      PROVE  RoundHeld(r)'
  <2>1. RoundHeld(r)
    BY DEF PicksInvariant
  <2>2. CASE r <= round
    <3>1. r \in 1..round
      BY <2>2, Numbers
    <3> QED
      BY <1>1, <1>4, <2>1, <3>1 DEF RoundHeld
  <2>3. CASE r > round
    <3>1. \A v \in Voters : rounds[r].picks[v].at = "none"
      BY <2>1, <2>3 DEF RoundHeld, NoRound
    <3> QED
      BY <1>1, <2>1, <3>1 DEF RoundHeld
  <2> QED
    BY <2>2, <2>3, Numbers
<1>7. (own <= Net)'
  BY <1>3, Numbers DEF PicksInvariant
<1>8. Last' = Last
  BY <1>1 DEF Last
<1>9. MayCost(1..Last)' = MayCost(1..Last)
  BY <1>1, <1>8 DEF MayCost, Worth
<1>10. own + Cardinality(MayCost(1..Last)) <= Net + Last * Beyond
  BY DEF PicksInvariant
<1>11. (own + Cardinality(MayCost(1..Last)) <= Net + Last * Beyond)'
  BY <1>3, <1>8, <1>9, <1>10, Numbers DEF Beyond
<1>12. (phase = "picking" => round > 0 /\ Size * rounds[round].share <= Allowance - Net)'
  BY <1>1, <1>2 DEF PicksInvariant
<1> QED
  BY <1>5, <1>6, <1>7, <1>11, <1>12 DEF PicksInvariant

-----------------------------------------------------------------------------
(***************************************************************************)
(* The theorems.                                                           *)
(***************************************************************************)
\* Before its first round a turn holds nothing.
LEMMA InitHolds ==
  ASSUME Init
  PROVE  PicksInvariant
<1>1. /\ NoRound \in Round /\ \A v \in Voters : NoRound.picks[v] = [at |-> "none", hold |-> 0]
      /\ NoRound.share = 0
  BY PicksAssumption DEF NoRound, Round, Pick, Sums
<1>2. PicksTypeOK
  BY <1>1, PicksAssumption DEF Init, PicksTypeOK, Sums
<1>3. ASSUME NEW r \in 1..Rounds
      PROVE  RoundHeld(r)
  <2>1. rounds[r] = NoRound /\ round = 0 /\ ~(r <= 0)
    BY DEF Init
  <2> QED
    BY <1>1, <2>1, Sizes DEF RoundHeld
<1>4. Last = 0
  BY DEF Init, Last
<1>5. MayCost(1..Last) = {}
  BY <1>4 DEF MayCost
<1>6. Cardinality(MayCost(1..Last)) = 0 /\ Last * Beyond = 0
  BY <1>4, <1>5, FS_EmptySet, Sizes
<1> QED
  BY <1>2, <1>3, <1>6 DEF Init, PicksInvariant, Net

LEMMA StepHolds ==
  ASSUME PicksInvariant, [Next]_vars
  PROVE  PicksInvariant'
<1>1. CASE \E r \in 1..Rounds, v \in Voters : Steps(r, v)
  BY <1>1, MoveHolds
<1>2. CASE UNCHANGED vars
  BY <1>2 DEF vars, PicksInvariant, PicksTypeOK, RoundHeld, MayCost, Worth, Last, Beyond, Net
<1> QED
  BY <1>1, <1>2, BeginHolds, CountHolds, CancelHolds, OtherHolds DEF Next, Steps

\* What the turn has been charged is among what its picks may still cost.
LEMMA WithinBound ==
  ASSUME PicksInvariant
  PROVE  SpendBounded
<1> DEFINE all == Holding(1..Rounds)
           may == MayCost(1..Last)
<1>1. Spent = own + Cardinality(all)
  BY DEF Spent, Holding
<1>2. ASSUME NEW u \in all, u[1] > round
      PROVE  FALSE
  <2>1. u[1] \in 1..Rounds /\ u[2] \in Voters /\ u[3] \in 1..Allowance
        /\ u[3] <= rounds[u[1]].picks[u[2]].hold
    BY DEF Holding
  <2>2. rounds[u[1]] = NoRound
    BY <1>2, <2>1 DEF PicksInvariant, RoundHeld
  <2>3. rounds[u[1]].picks[u[2]].hold = 0
    BY <2>1, <2>2 DEF NoRound
  <2> QED
    BY <2>1, <2>3
<1>3. ASSUME NEW u \in all, u[1] \in 1..Last
      PROVE  u \in may
  <2>1. u[1] \in 1..Rounds /\ u[2] \in Voters /\ u[3] \in 1..Allowance
        /\ u[3] <= rounds[u[1]].picks[u[2]].hold /\ u = <<u[1], u[2], u[3]>>
    BY DEF Holding
  <2>2. RoundHeld(u[1]) /\ rounds[u[1]] \in Round
    BY <2>1 DEF PicksInvariant, PicksTypeOK
  <2>3. u[3] <= Worth(u[1], u[2])
    BY <2>1, <2>2, PicksAssumption DEF Worth, RoundHeld, Round, Pick, Sums
  <2> QED
    BY <1>3, <2>1, <2>3 DEF MayCost
<1>4. round * (Size - Most) * (Allowance \div Size) = round * Beyond
  <2>1. ASSUME NEW x \in Nat, NEW y \in Nat, NEW z \in Nat
        PROVE  x * y * z = x * (y * z)
    BY SMT
  <2>2. round \in Nat /\ Size - Most \in Nat
    BY Numbers, Sizes
  <2> QED
    BY <2>1, <2>2, Sizes DEF Beyond
<1>5. CASE phase = "picking"
  <2>1. all \subseteq (may \cup Holding({round})) \cup {}
    <3>1. ASSUME NEW u \in all
          PROVE  u \in may \cup Holding({round})
      <4>1. u[1] \in 1..Last \/ u[1] = round \/ u[1] > round
        BY <1>5, RoundFits, Numbers DEF Holding, Last
      <4>2. ASSUME u[1] = round
            PROVE  u \in Holding({round})
        BY <4>2 DEF Holding
      <4> QED
        BY <1>2, <1>3, <4>1, <4>2
    <3> QED
      BY <3>1
  <2>2. IsFiniteSet({}) /\ Cardinality({}) <= Beyond
    BY FS_EmptySet, Sizes
  <2>3. own + Cardinality(all) <= Net + Holds(rounds[round].picks) + round * Beyond
    BY <1>5, <2>1, <2>2, Counts
  <2>4. Cardinality(all) \in Nat
    <3>1. IsFiniteSet((1..Rounds) \X Voters \X (1..Allowance))
      <4>1. IsFiniteSet(1..Rounds)
        BY FS_Interval, PicksAssumption
      <4> QED
        BY <4>1, TriplesFinite
    <3> QED
      BY <3>1, FS_Subset, FS_CardinalityType DEF Holding
  <2>5. own + Cardinality(all) <= Allowance + round * Beyond
    BY <1>5, <2>3, <2>4, RoundFits, Numbers
  <2> QED
    BY <1>1, <1>4, <2>5 DEF SpendBounded
<1>6. CASE phase # "picking"
  <2>1. Last = round
    BY <1>6 DEF Last
  <2>2. ASSUME NEW u \in all
        PROVE  u \in may
    <3>1. u[1] \in 1..Last \/ u[1] > round
      BY <2>1, Numbers DEF Holding
    <3> QED
      BY <1>2, <1>3, <3>1
  <2>3. Cardinality(all) <= Cardinality(may) /\ Cardinality(all) \in Nat
    BY <2>2, Numbers, FS_Subset, FS_CardinalityType
  <2>4. own + Cardinality(may) <= Net + Last * Beyond
    BY DEF PicksInvariant
  <2>5. own + Cardinality(all) <= Allowance + round * Beyond
    BY <2>1, <2>3, <2>4, Numbers
  <2> QED
    BY <1>1, <1>4, <2>5 DEF SpendBounded
<1> QED
  BY <1>5, <1>6

THEOREM PicksAreKept == Spec => []PicksInvariant
<1>1. Init => PicksInvariant
  BY InitHolds
<1>2. PicksInvariant /\ [Next]_vars => PicksInvariant'
  BY StepHolds
<1> QED
  BY <1>1, <1>2, PTL DEF Spec

\* Each request counted up to its hold, the turn's budget never counts more than its
\* allowance, though the picks of a round are admitted without a look at each other; what is
\* charged above a hold is counted whole, and apart (engine.py _picks, provider.py settle).
THEOREM PicksTyped == Spec => []PicksTypeOK
<1>1. PicksInvariant => PicksTypeOK
  BY DEF PicksInvariant
<1> QED
  BY <1>1, PicksAreKept, PTL

\* With the picks that are counted too late, the requests of a turn are charged, each up to
\* its hold, no more than the allowance and, for each round, the share of a minority of its
\* picks (engine.py until_most_back).  A charge above a hold comes on top.
THEOREM PicksBounded == Spec => []SpendBounded
<1>1. PicksInvariant => SpendBounded
  BY WithinBound
<1> QED
  BY <1>1, PicksAreKept, PTL
=============================================================================
