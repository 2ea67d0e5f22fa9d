------------------------------- MODULE Pages -------------------------------
(***************************************************************************)
(* Which sections of the college's pages a reply is written from, and what *)
(* of them is said (one_call.py, page_facts.py, and the picks of           *)
(* engine.py).                                                             *)
(*                                                                         *)
(* A unit is [page, at].  Each part of a question ranks every unit: a      *)
(* sequence, nearest in meaning first.  A policy is a page whose units are *)
(* read together: policies maps it to them, in order.  A pick is {} when   *)
(* its call failed or came late, and {<what it chose>} otherwise.          *)
(***************************************************************************)
EXTENDS Integers, Sequences, FiniteSets, SequencesExt, FiniteSetsExt

CONSTANTS
  PerPart, PerPage, MaxUnits,  \* of the usual choice: each part's units, a page's, all
  PoolPart, PoolPage,          \* of the wider pool offered to the picks
  CoreRead,                    \* units of the usual choice read whatever is picked
  PickedRead,                  \* units read with a pick
  MaxPolicy,                   \* units the policies may add
  MaxFacts,                    \* sentences said
  Kept, Core, OtherKept,       \* sections of an office: picked, read whatever is picked, offered of another
  MaxOthers, MaxResults        \* other offices offered; results of a turn

FirstOf(s, n) == SubSeq(s, 1, Min({n, Len(s)}))
Once(s) == FoldLeft(LAMBDA o, e : IF e \in ToSet(o) THEN o ELSE Append(o, e), <<>>, s)
PlaceOf(s, e) == Min({i \in DOMAIN s : s[i] = e})

-----------------------------------------------------------------------------
(***************************************************************************)
(* Sections.                                                               *)
(***************************************************************************)
BestOf(part, seen, perPart, perPage) ==
  FoldLeft(LAMBDA best, u :
             IF \/ u \in seen \/ Len(best) = perPart
                \/ Cardinality({i \in DOMAIN best : best[i].page = u.page}) = perPage
             THEN best ELSE Append(best, u), <<>>, part)

\* Each part's own best units, taken in turns.
ChosenUnits(parts, seen, perPart, perPage, cap) ==
  LET best == [p \in DOMAIN parts |-> BestOf(parts[p], seen, perPart, perPage)]
      turn(n) == [p \in DOMAIN parts |-> IF n <= Len(best[p]) THEN <<best[p][n]>> ELSE <<>>]
  IN  FirstOf(Once(FlattenSeq([n \in 1..perPart |-> FlattenSeq(turn(n))])), cap)

UsualChoice(parts) == ChosenUnits(parts, {}, PerPart, PerPage, MaxUnits)

\* What the picks that came back chose, each number once and of those offered.
Votes(picks, size) ==
  LET back == SelectSeq(picks, LAMBDA p : p # {})
  IN  [i \in DOMAIN back |->
         FirstOf(Once(SelectSeq(CHOOSE s \in back[i] : TRUE, LAMBDA n : n \in 1..size)), PickedRead)]
VotesFor(n, votes) == Cardinality({i \in DOMAIN votes : n \in ToSet(votes[i])})
Places(n, votes) ==
  FoldLeft(LAMBDA sum, v : sum + IF n \in ToSet(v) THEN PlaceOf(v, n) - 1 ELSE PickedRead, 0, votes)

\* The sections most picks chose: by how many, then by their places in them, then by number.
AgreedPick(picks, size) ==
  LET votes == Votes(picks, size)
      before(m, n) == \/ VotesFor(m, votes) > VotesFor(n, votes)
                      \/ /\ VotesFor(m, votes) = VotesFor(n, votes)
                         /\ \/ Places(m, votes) < Places(n, votes)
                            \/ Places(m, votes) = Places(n, votes) /\ m < n
  IN  SetToSortSeq({n \in 1..size : VotesFor(n, votes) > Len(votes) \div 2}, before)

\* A leading unit brings its policy, in the policy's order: the units chosen, and those
\* after its first one, then those before it, while there is room.
WithPolicies(order, leading, policies) ==
  LET step(s, at) ==
        LET members == policies[order[at].page]
            mine == {i \in DOMAIN members : members[i] \in ToSet(order)}
            first == Min(mine)
            nearer(i, j) == IF (i < first) = (j < first) THEN (i > j <=> i < first) ELSE i > first
            added == FirstOf(SetToSortSeq(DOMAIN members \ mine, nearer), s.room)
            read == SelectSeq(members, LAMBDA u :
                      PlaceOf(members, u) \in mine \cup ToSet(added) /\ u \notin ToSet(s.read))
        IN  IF order[at] \in ToSet(s.read) THEN s
            ELSE IF at > leading \/ order[at].page \notin DOMAIN policies
            THEN [s EXCEPT !.read = Append(@, order[at])]
            ELSE [read |-> s.read \o read, room |-> s.room - Len(added)]
  IN  FoldLeft(step, [read |-> <<>>, room |-> MaxPolicy], [i \in DOMAIN order |-> i]).read

\* A slip: what was picked comes before the core.
WithPickedFirst(parts, picks, policies) ==
  LET order == UsualChoice(parts)
      pool == ChosenUnits(parts, {}, PoolPart, PoolPage, Len(parts) * PoolPart)
      picked == [i \in DOMAIN AgreedPick(picks, Len(pool)) |-> pool[AgreedPick(picks, Len(pool))[i]]]
  IN  WithPolicies(FirstOf(Once(picked \o order), PickedRead), Len(picked), policies)

\* The core of the usual choice, what was picked of the pool, then the rest of the usual
\* choice; the usual choice alone when nothing was picked.
WithPicked(parts, picks, policies) ==
  LET order == UsualChoice(parts)
      pool == ChosenUnits(parts, {}, PoolPart, PoolPage, Len(parts) * PoolPart)
      agreed == AgreedPick(picks, Len(pool))
      picked == [i \in DOMAIN agreed |-> pool[agreed[i]]]
      leading == Once(FirstOf(order, CoreRead) \o picked)
  IN  IF agreed = <<>> THEN WithPolicies(order, CoreRead, policies)
      ELSE WithPolicies(FirstOf(Once(leading \o order), PickedRead), Len(leading), policies)

-----------------------------------------------------------------------------
(***************************************************************************)
(* Sentences.  A line is [source, place, kinds]: its section, its place in *)
(* it and what it holds; its number is its place in the lines given.  A    *)
(* sentence pick is a sequence of parts [off, says]: whether no page can   *)
(* hold the part, and the lines that answer it.                            *)
(***************************************************************************)
SaidBy(pick, size) ==
  Once(SelectSeq(FlattenSeq([i \in DOMAIN pick |-> pick[i].says]), LAMBDA n : n \in 1..size))

\* The lines more than half the picks that came back chose, the most chosen first.
Agreed(picks, size) ==
  LET back == SelectSeq(picks, LAMBDA p : p # {})
      votes(n) == Cardinality({i \in DOMAIN back : \E p \in back[i] : n \in ToSet(SaidBy(p, size))})
  IN  SetToSortSeq({n \in 1..size : votes(n) > Len(back) \div 2},
                   LAMBDA m, n : votes(m) > votes(n) \/ (votes(m) = votes(n) /\ m < n))

\* The facts: the lines picked, then those of a kind asked beside one, said in page order.
FactsOf(lines, picked, asked) ==
  LET beside(n) == \E i \in ToSet(picked) : lines[i].source = lines[n].source /\ lines[i].place - lines[n].place \in -1..1
      byCode == SelectSeq([i \in DOMAIN lines |-> i], LAMBDA n :
                  beside(n) /\ n \notin ToSet(picked) /\ lines[n].kinds \cap asked # {})
      kept == ToSet(FirstOf(picked \o byCode, MaxFacts))
  IN  SetToSortSeq(kept, <)
MustSay(lines, facts, asked) == {n \in ToSet(facts) : lines[n].kinds \cap asked # {}}

\* A reply is [says, cites]: the lines whose numbers it says (0: a number of none) and the
\* sections it cites.
Misses(reply, lines, facts, asked) ==
  {n \in MustSay(lines, facts, asked) : n \notin reply.says \/ lines[n].source \notin reply.cites}
  \cup (reply.says \ ToSet(facts))
Template(lines, facts) ==
  [says |-> ToSet(facts), cites |-> {lines[n].source : n \in ToSet(facts)}]

\* A slip: the second try goes out whatever the check finds.
WrittenLast(replies, lines, facts, asked) ==
  IF replies = <<>> THEN Template(lines, facts) ELSE replies[Len(replies)]

\* The model's reply when it misses nothing, at once or after one repair; else the template.
Written(replies, lines, facts, asked) ==
  LET fine == SelectSeq(FirstOf(replies, 2), LAMBDA r : Misses(r, lines, facts, asked) = {})
  IN  IF fine = <<>> THEN Template(lines, facts) ELSE fine[1]

\* Of the first pick that came back: each part's sections, of the lines kept.
ChosenParts(picks, kept, lines) ==
  LET back == SelectSeq(picks, LAMBDA p : p # {})
      parts == CHOOSE p \in back[1] : TRUE
  IN  [i \in DOMAIN parts |-> [off |-> parts[i].off,
         sections |-> {lines[n].source : n \in ToSet(parts[i].says) \cap kept}]]

\* What is looked for again: the parts without a section, else what the reply's own words
\* say the pages do not, else the whole question when the reply gives up.
GaveUp(parts, silent, gaveUp) ==
  LET empty == SelectSeq([i \in DOMAIN parts |-> i], LAMBDA i : parts[i].sections = {} /\ ~parts[i].off)
  IN  IF parts # <<>> /\ \A i \in DOMAIN parts : parts[i].off THEN <<>>
      ELSE IF empty # <<>> THEN FirstOf(empty, 2)
      ELSE IF silent # <<>> THEN FirstOf(silent, 2)
      ELSE IF gaveUp THEN <<"question">> ELSE <<>>

-----------------------------------------------------------------------------
(***************************************************************************)
(* An office's how-to sections.  A lookup is [office, ranked, beside]: how *)
(* many sections it offers, best first, and whether it was read only       *)
(* beside a situation.  An other office is [office, pages, ranked].        *)
(***************************************************************************)
\* What is left of the property: dropped, or known with the sections kept.
KeepProcedures(ranked, keep, unasked) ==
  LET values == FirstOf(Once(SelectSeq(keep, LAMBDA n : n \in 1..ranked)), Kept)
  IN  [status |-> IF values # <<>> THEN "known" ELSE IF unasked THEN "dropped" ELSE "unknown", values |-> values]

\* The offices found by their pages: none asked for, and none with the pages of another.
OtherOffices(looked, found) ==
  FoldLeft(LAMBDA kept, o :
             IF \/ Len(kept) = MaxOthers \/ o.ranked = 0
                \/ o.office \in {looked[i].office : i \in DOMAIN looked} \cup {kept[i].office : i \in DOMAIN kept}
                \/ \E i \in DOMAIN kept : kept[i].pages = o.pages
             THEN kept ELSE Append(kept, o), <<>>, found)

\* A slip: the best ranked are read only when they are picked.
KeepOf(lookup, picked, failed, meaning) == IF failed THEN [i \in 1..Min({Kept, lookup.ranked}) |-> i] ELSE picked

\* What is kept of an office asked: the best by meaning, whatever is picked of it.
KeepAsked(lookup, picked, failed, meaning) ==
  LET first(n) == [i \in 1..Min({n, lookup.ranked}) |-> i]
  IN  (IF meaning /\ ~lookup.beside THEN first(Core) ELSE <<>>) \o (IF failed THEN first(Kept) ELSE picked)

\* Of what each lookup offers, what the model picked (chosen: {} when its call failed), the
\* best ranked first; another office only for what was picked of it.
PickProcedures(looked, found, chosen, meaning, used) ==
  LET others == OtherOffices(looked, found)
      pickedAt(k) == FoldSet(LAMBDA c, s : IF k \in DOMAIN c THEN c[k] ELSE s, <<>>, chosen)
      keep(i) == KeepAsked(looked[i], pickedAt(i), chosen = {}, meaning)
      other(k) == [office |-> others[k].office,
                   kept |-> KeepProcedures(others[k].ranked, SelectSeq(pickedAt(Len(looked) + k), LAMBDA n : n <= OtherKept), FALSE)]
      read == SelectSeq([k \in DOMAIN others |-> other(k)], LAMBDA o : o.kept.values # <<>>)
  IN  [asked |-> [i \in DOMAIN looked |-> KeepProcedures(looked[i].ranked, keep(i), looked[i].beside)],
       others |-> FirstOf(read, MaxResults - used)]

-----------------------------------------------------------------------------
(***************************************************************************)
(* Properties.                                                             *)
(***************************************************************************)
\* Two tries of a question read the same core, whichever picks come back and in whatever
\* order (_picks counts them as they come): the pick only adds what most of those that came
\* back chose, no section is given twice, and a policy is read in its own order.
ReadsCore(x) ==
  LET order == UsualChoice(x.parts)
      pool == ChosenUnits(x.parts, {}, PoolPart, PoolPage, Len(x.parts) * PoolPart)
      read == WithPicked(x.parts, x.picks, x.policies)
      votes == Votes(x.picks, Len(pool))
      policy(u) == u.page \in DOMAIN x.policies
  IN  /\ ToSet(FirstOf(order, CoreRead)) \subseteq ToSet(read)
      /\ \A i, j \in DOMAIN read : i < j =>
           /\ read[i] # read[j]
           /\ policy(read[i]) /\ read[i].page = read[j].page /\ (\E k \in 1..CoreRead : k \in DOMAIN order /\ order[k].page = read[i].page) =>
                PlaceOf(x.policies[read[i].page], read[i]) < PlaceOf(x.policies[read[i].page], read[j])
      /\ \A u \in ToSet(read) \ ToSet(order) : policy(u) \/ 2 * VotesFor(PlaceOf(pool, u), votes) > Len(votes)
      /\ Len(read) <= Max({PickedRead, Len(order)}) + MaxPolicy
      /\ \A p \in Permutations(DOMAIN x.picks) :
           WithPicked(x.parts, [i \in DOMAIN x.picks |-> x.picks[p[i]]], x.policies) = read

\* Whoever writes a page's answer, every sentence of a kind asked that was kept is said with
\* its section and nothing else is; no picked sentence gives way to one code adds; and only a
\* part that no kept sentence answers, and a page could, is looked for again.
SaysWhatWasPicked(x) ==
  LET picked == Agreed(x.picks, Len(x.lines))
      facts == FactsOf(x.lines, picked, x.asked)
      text == Written(x.replies, x.lines, facts, x.asked)
      first == CHOOSE p \in SelectSeq(x.picks, LAMBDA p : p # {})[1] : TRUE
      again == GaveUp(ChosenParts(x.picks, ToSet(picked), x.lines), <<>>, FALSE)
  IN  picked # <<>> =>
        /\ text.says \subseteq ToSet(facts)
        /\ \A n \in MustSay(x.lines, facts, x.asked) : n \in text.says /\ x.lines[n].source \in text.cites
        /\ ToSet(picked) \subseteq ToSet(facts) \/ ToSet(facts) \subseteq ToSet(picked)
        /\ \A n \in ToSet(facts) \ ToSet(picked) : \E i \in ToSet(picked) : x.lines[n].source = x.lines[i].source
        /\ \A i \in ToSet(again) : ~first[i].off /\ ToSet(picked) \cap ToSet(first[i].says) = {}

\* The best of an office the student asked are said whatever the model picks; one read only
\* beside a situation leaves no trace when nothing is picked of it; and an office nobody
\* asked for is said only for what was picked of it, never past the turn's results.
AskedIsRead(x) ==
  LET got == PickProcedures(x.looked, x.found, x.chosen, TRUE, x.used)
  IN  /\ \A i \in DOMAIN x.looked :
           /\ ~x.looked[i].beside /\ x.looked[i].ranked > 0 =>
                got.asked[i].status = "known" /\ 1..Min({Core, x.looked[i].ranked}) \subseteq ToSet(got.asked[i].values)
           /\ x.looked[i].beside => got.asked[i].status # "unknown"
           /\ Len(got.asked[i].values) <= Kept
      /\ Len(got.others) + x.used <= MaxResults
      /\ x.chosen = {} => got.others = <<>>
      /\ \A k, l \in DOMAIN got.others :
           /\ \A i \in DOMAIN x.looked : got.others[k].office # x.looked[i].office
           /\ k # l => got.others[k].office # got.others[l].office

PagesRead(x) ==
  CASE x.of = "units" -> ReadsCore(x)
    [] x.of = "lines" -> SaysWhatWasPicked(x)
    [] OTHER -> AskedIsRead(x)
=============================================================================
