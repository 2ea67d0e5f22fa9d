------------------------------- MODULE Plain --------------------------------
(***************************************************************************)
(* A lookup's answer said by code in plain sentences (plain_writer.py).    *)
(*                                                                         *)
(* A view is [facts, days, absent, gaps, fields, windows, read].  A fact   *)
(* is [subject, kind, value, week, holds, size, sources, conflicting,      *)
(* current, undated, season, also]; a day [subject, date, day, hours,      *)
(* value, now, at, listed, applies, doubtful, sources, conflicting]; an    *)
(* absence [subject, kind]; a gap [subject, kind, days, sources].  `fields`*)
(* is what was asked of, `windows` and `read` the sources with published   *)
(* dates and with a day they were read.                                    *)
(*                                                                         *)
(* A reply is [lines, daysSaid, notListed, sections, note, failed]; a line *)
(* is [subject, says, of, marks, holds, dated, chars], `note` the sources  *)
(* the note on unpublished dates is marked with, and `failed` the answer   *)
(* left to code's evidence text.                                           *)
(***************************************************************************)
EXTENDS Integers, Sequences, FiniteSets, SequencesExt, FiniteSetsExt

CONSTANTS Quotes  \* how much of a first section and of the others is quoted, longest first

Building == {"map", "places"}
MoreThanOne == {"offices", "phones", "email", "website"}
NotAsked == [relation |-> "none", state |-> "none"]
NoState == [state |-> "none", rest |-> "none"]

Empty == [lines |-> <<>>, daysSaid |-> {}, notListed |-> {}, sections |-> {}, note |-> {}, failed |-> FALSE]
Fail(r) == [r EXCEPT !.failed = TRUE]
Undated(r, sources) == [r EXCEPT !.note = @ \cup sources]

\* A sentence said again of a subject only adds its marks.
Add(r, line) ==
  LET same == {i \in DOMAIN r.lines : /\ r.lines[i].subject = line.subject
                                      /\ r.lines[i].says = line.says /\ r.lines[i].of = line.of}
  IN  [r EXCEPT !.lines = IF same = {} THEN Append(@, line)
                          ELSE [i \in DOMAIN @ |-> IF i \notin same THEN r.lines[i]
                                 ELSE [r.lines[i] EXCEPT !.marks = @ \cup line.marks]]]
Line(subject, says, of, marks) ==
  [subject |-> subject, says |-> says, of |-> of, marks |-> marks, holds |-> {}, dated |-> FALSE, chars |-> 0]
Say(r, subject, says, of, marks) == Add(r, Line(subject, says, of, marks))

-----------------------------------------------------------------------------
(***************************************************************************)
(* Schedules.  A week maps each day to its hours, "not published" or "not  *)
(* listed".                                                                *)
(***************************************************************************)
NotListed(r, f) == [r EXCEPT !.notListed = @ \cup {<<f.subject, d, n>> : d \in {e \in DOMAIN f.week : f.week[e] = "not listed"}, n \in f.sources}]

\* A schedule that is not current is said with its sources' dates, or the note that it has none.
SaysDates(f) == ~f.current /\ ~f.undated /\ ~f.season
Dates(v, r, f) ==
  IF f.current /\ ~f.undated THEN r
  ELSE IF f.undated \/ f.season THEN Undated(r, f.sources)
  ELSE IF f.sources # {} /\ f.sources \subseteq v.windows THEN r ELSE Fail(r)

\* A slip: a week is said as if it were current.
WeekUndated(v, r, f, says, place) ==
  NotListed(Add(r, [Line(f.subject, says, <<place, f.week, FALSE>>, f.sources) EXCEPT !.dated = SaysDates(f)]), f)

Week(v, r, f, says, place) ==
  NotListed(Add(Dates(v, r, f), [Line(f.subject, says, <<place, f.week, SaysDates(f)>>, f.sources) EXCEPT !.dated = SaysDates(f)]), f)

SameSources(group) == Cardinality({group[i].sources : i \in DOMAIN group}) = 1
Lead(r, group, of) ==
  Say(r, group[1].subject, "differ", of, IF SameSources(group) THEN group[1].sources ELSE {})

\* The keys of the conflicting members of a sequence, in order.
KeysOf(s, Key(_)) ==
  FoldLeft(LAMBDA keys, e : IF e.conflicting /\ Key(e) \notin ToSet(keys) THEN Append(keys, Key(e)) ELSE keys, <<>>, s)

\* Hours the pages give differently are all said, with no winner picked.
Conflicts(v, r) ==
  LET hours == SelectSeq(v.facts, LAMBDA f : f.kind = "hours")
      group(s) == SelectSeq(hours, LAMBDA f : f.conflicting /\ f.subject = s)
      each(q, g) == FoldLeft(LAMBDA p, i : Week(v, p, g[i], "listing", i = 1), q, [i \in DOMAIN g |-> i])
  IN  FoldLeft(LAMBDA q, s : each(Lead(q, group(s), <<"hours">>), group(s)), r,
               KeysOf(hours, LAMBDA f : f.subject))

-----------------------------------------------------------------------------
(***************************************************************************)
(* The day asked.  `hours` of a day is "hours", "listed", "not published"  *)
(* or "none".                                                              *)
(***************************************************************************)
Menus(v) == {v.facts[i].subject : i \in {j \in DOMAIN v.facts : v.facts[j].kind = "menu"}}
Doubt(r, e) == IF e.doubtful THEN Undated(r, e.sources) ELSE r
Asked(v, e) == e.at # NotAsked /\ e.subject \notin Menus(v)
Now(r, e) == IF e.now = NoState THEN r ELSE Say(r, e.subject, "open now", e.now, e.sources)

\* The hours of one place; of a time asked "after", only what it is open for from then on.
DayHours(v, r, e) ==
  LET said == [r EXCEPT !.daysSaid = @ \cup {<<e.subject, e.day>>}]
      first == IF Asked(v, e) THEN Say(Now(said, e), e.subject, "open at", <<e.day, e.at>>, e.sources) ELSE said
      now(q, also) == IF also /\ ~Asked(v, e) THEN Now(q, e) ELSE q
  IN  IF ~e.applies THEN r
      ELSE IF Asked(v, e) /\ e.at.relation = "after" THEN
        (IF e.listed \/ e.doubtful THEN Undated(first, e.sources) ELSE first)
      ELSE CASE e.hours = "not published" -> Say(first, e.subject, "publishes no hours", e.day, e.sources)
             [] e.hours = "listed" ->
                  Undated(Say(now(first, e.listed), e.subject, "lists", <<e.day, e.value>>, e.sources), e.sources)
             [] e.hours = "none" -> Say(first, e.subject, "no verified hours", e.day, e.sources)
             [] OTHER -> Doubt(Say(now(first, e.subject \notin Menus(v)), e.subject, "hours on", <<e.day, e.value>>, e.sources), e)

\* A slip: whether it is open now is taken from the first listing.
AgreedFirst(v, group) == {group[1].now} \ {NoState}

\* Whether it is open now, when every listing says so.
Agreed(v, group) ==
  LET nows == {group[i].now : i \in DOMAIN group}
      states == {n.state : n \in nows}
  IN  IF \/ NoState \in nows \/ group[1].subject \in Menus(v)
         \/ Cardinality({group[i].listed : i \in DOMAIN group}) # 1 \/ Cardinality(states) # 1 THEN {}
      ELSE IF Cardinality(nows) = 1 THEN nows
      ELSE {[state |-> st, rest |-> "none"] : st \in states}

\* A day's hours that differ, listing by listing.
DayConflicts(v, r) ==
  LET key(e) == <<e.subject, e.date>>
      group(k) == SelectSeq(v.days, LAMBDA e : e.conflicting /\ key(e) = k /\ e.applies)
      every(g) == UNION {g[i].sources : i \in DOMAIN g}
      began(q, g) == [q EXCEPT !.daysSaid = @ \cup {<<g[1].subject, g[1].day>>}]
      open(q, g) == IF Agreed(v, g) = {} THEN q
                    ELSE Say(q, g[1].subject, "open now", CHOOSE n \in Agreed(v, g) : TRUE, every(g))
      value(e) == IF e.hours \in {"hours", "listed"} THEN e.value ELSE e.hours
      each(q, g) == FoldLeft(LAMBDA p, i : Doubt(Say(p, g[i].subject, "day listing", <<i = 1, value(g[i])>>, g[i].sources), g[i]),
                             q, [i \in DOMAIN g |-> i])
  IN  FoldLeft(LAMBDA q, k : IF group(k) = <<>> THEN q
                             ELSE each(Lead(open(began(q, group(k)), group(k)), group(k), <<"day", k[2]>>), group(k)),
               r, KeysOf(v.days, key))

\* The places open at the time asked come first.
Days(v, r) ==
  LET rest == SelectSeq(v.days, LAMBDA e : ~e.conflicting)
      then == SelectSeq(rest, LAMBDA e : e.at.state = "open")
      other == SelectSeq(rest, LAMBDA e : e.at.state # "open")
  IN  FoldLeft(LAMBDA q, e : DayHours(v, q, e), r, then \o other)

-----------------------------------------------------------------------------
(***************************************************************************)
(* Facts.                                                                  *)
(***************************************************************************)
WithHours(v) == {v.days[i].subject : i \in DOMAIN v.days}
                \cup {v.facts[i].subject : i \in {j \in DOMAIN v.facts : v.facts[j].kind = "hours"}}

\* A building: where it is unless only hours are asked, and whose hours it has.
BuildingSaid(v, r, f) ==
  LET where == "hours" \notin v.fields \/ "offices" \in v.fields
      hours == IF "hours" \notin v.fields THEN r
               ELSE Say(r, f.subject, IF f.holds \cap WithHours(v) # {} THEN "its places list hours" ELSE "no hours", f.kind, {})
  IN  IF f.kind = "map"
        THEN (IF where THEN Add(r, [Line(f.subject, "map", f.value, f.sources) EXCEPT !.holds = {"website"}]) ELSE r)
        ELSE (IF where THEN Say(hours, f.subject, "places", f.value, f.sources) ELSE hours)

\* A page section, once; one not read since with the day it was read, and only its page when long.
Section(v, r, f, quotes) ==
  LET again == \E i \in DOMAIN r.lines : r.lines[i].subject = f.subject /\ r.lines[i].says = "section"
      chars == IF again THEN quotes[2] ELSE quotes[1]
      said == [r EXCEPT !.sections = @ \cup {f.value}]
  IN  IF f.value \in r.sections THEN r
      ELSE IF ~f.current /\ f.sources \cap v.read = {} THEN Fail(r)
      ELSE Add(said, [Line(f.subject, "section", f.value, f.sources) EXCEPT !.dated = ~f.current, !.chars = Min({chars, f.size})])

Fact(v, r, f, quotes) ==
  IF ~f.current /\ f.kind \notin {"hours", "procedures"} THEN Fail(r)
  ELSE IF f.kind = "hours" THEN Week(v, r, f, "hours", TRUE)
  ELSE IF f.kind = "procedures" THEN Section(v, r, f, quotes)
  ELSE IF f.kind \in Building THEN BuildingSaid(v, r, f)
  ELSE Add(r, [Line(f.subject, f.kind, f.value, f.sources) EXCEPT !.holds = f.holds])

Facts(v, r, facts, quotes, also) ==
  LET group(f) == SelectSeq(v.facts, LAMBDA g : g.conflicting /\ g.subject = f.subject /\ g.kind = f.kind)
      said(q, f) == IF ~f.conflicting THEN Fact(v, q, f, quotes)
                    ELSE IF f.kind \in MoreThanOne THEN Fact(v, Lead(q, group(f), <<f.kind>>), f, quotes) ELSE Fail(q)
  IN  FoldLeft(said, r, SelectSeq(facts, LAMBDA f : f.also = also))

-----------------------------------------------------------------------------
(***************************************************************************)
(* What is not known, and the whole reply.                                 *)
(***************************************************************************)
\* A slip: what was said before is not looked at.
SaidKindNever(r, subject, kind) == FALSE
SaidKind(r, subject, kind) == \E i \in DOMAIN r.lines : r.lines[i].subject = subject /\ kind \in r.lines[i].holds

Absent(v, r) ==
  FoldLeft(LAMBDA q, a : IF SaidKind(q, a.subject, a.kind) THEN q ELSE Say(q, a.subject, "publishes no", a.kind, {}), r, v.absent)

\* Days a schedule leaves unknown, unless a day was asked or its week said so.
UnknownDays(r, g) ==
  LET said == \A d \in g.days : g.sources \subseteq {t[3] : t \in {u \in r.notListed : u[1] = g.subject /\ u[2] = d}}
      asked == \E d \in r.daysSaid : d[1] = g.subject
  IN  IF g.days = {} \/ said \/ asked THEN r ELSE Say(r, g.subject, "days unknown", g.days, g.sources)

Gaps(v, r) ==
  FoldLeft(LAMBDA q, g : IF g.kind = "schedule" THEN UnknownDays(q, g) ELSE Say(q, g.subject, "unknown", g.kind, {}), r, v.gaps)

Reply(v, quotes) ==
  LET facts == SelectSeq(v.facts, LAMBDA f : ~(f.conflicting /\ f.kind = "hours"))
      building == SelectSeq(facts, LAMBDA f : f.kind \in Building)
      other == SelectSeq(facts, LAMBDA f : f.kind \notin Building)
      lead == Facts(v, Conflicts(v, Empty), building, quotes, FALSE)
      days == Days(v, DayConflicts(v, lead))
      main == Gaps(v, Absent(v, Facts(v, days, other, quotes, FALSE)))
  IN  Facts(v, main, other, quotes, TRUE)

Size(r) == Len(r.lines) + FoldLeft(LAMBDA n, l : n + l.chars, 0, r.lines)

\* A reply too long quotes its sections shorter, step by step; it is never cut.
PlainText(v, limit) ==
  LET fits == {k \in DOMAIN Quotes : k = Len(Quotes) \/ Size(Reply(v, Quotes[k])) < limit}
  IN  Reply(v, Quotes[Min(fits)])

-----------------------------------------------------------------------------
(***************************************************************************)
(* Properties of a reply that did not fail.                                *)
(***************************************************************************)
Saying(r, says) == {i \in DOMAIN r.lines : r.lines[i].says \in says}
About(r, subject, says) == {i \in Saying(r, says) : r.lines[i].subject = subject}
SaidOf(r, f, says, Is(_)) ==
  \E i \in About(r, f.subject, says) : Is(r.lines[i].of) /\ f.sources \subseteq r.lines[i].marks

\* Every value given is said and marked with all its sources, each of several that differ after a
\* sentence that says so: only a section already said, and what was not asked of a building, are not.
EveryValueSaid(v, r) ==
  \A i \in DOMAIN v.facts : LET f == v.facts[i] IN
    /\ f.kind = "hours" => SaidOf(r, f, {"hours", "listing"}, LAMBDA w : w[2] = f.week)
    /\ f.kind = "procedures" => \E j \in Saying(r, {"section"}) : r.lines[j].of = f.value
    /\ f.kind \notin Building \cup {"hours", "procedures"} => SaidOf(r, f, {f.kind}, LAMBDA o : o = f.value)
    /\ f.conflicting => About(r, f.subject, {"differ"}) # {}

\* Every listing of a day asked is said, or what it is open for then; an open sign over listings
\* that differ is one they all give, marked with all of them.
EveryDaySaid(v, r) ==
  \A i \in DOMAIN v.days : LET e == v.days[i] IN
    /\ e.applies => SaidOf(r, e, {"hours on", "lists", "day listing", "open at", "publishes no hours", "no verified hours"}, LAMBDA o : TRUE)
    /\ e.conflicting /\ e.applies =>
         \A j \in About(r, e.subject, {"open now"}) :
           e.sources \subseteq r.lines[j].marks => r.lines[j].of.state = e.now.state

\* A schedule that may not be current is never said bare: its dates, the note or the day read go with it.
NeverAsCurrent(v, r) ==
  /\ \A i \in DOMAIN v.facts : LET f == v.facts[i] IN
       \/ f.current \/ f.sources \subseteq r.note
       \/ f.kind = "procedures" /\ f.value \in r.sections
       \/ \E j \in DOMAIN r.lines : LET l == r.lines[j] IN
            l.subject = f.subject /\ l.dated /\ (l.says = "section" => l.of = f.value)
  /\ \A i \in DOMAIN v.days : LET e == v.days[i] IN
       (e.applies /\ e.doubtful /\ e.hours \in {"hours", "listed"}) => e.sources \subseteq r.note

\* That a value is not published is never said beside one the office itself gives.
NeverDenied(v, r) ==
  \A j \in Saying(r, {"publishes no"}), i \in DOMAIN v.facts : LET f == v.facts[i] IN
    (f.subject = r.lines[j].subject /\ ~f.also /\ f.kind \notin Building) => r.lines[j].of \notin f.holds

\* Days left unknown are said, unless a day was asked of or the week already said them.
GapsSaid(v, r) ==
  \A i \in DOMAIN v.gaps : LET g == v.gaps[i] IN
    \/ g.kind # "schedule" \/ g.days = {}
    \/ SaidOf(r, g, {"days unknown"}, LAMBDA o : o = g.days)
    \/ About(r, g.subject, {"hours on", "lists", "day listing", "open at", "publishes no hours", "no verified hours"}) # {}
    \/ \A d \in g.days : \E j \in About(r, g.subject, {"hours", "listing"}) : r.lines[j].of[2][d] = "not listed"

\* Asked of a time, a place open then is said before one that is not.
OpenFirst(v, r) ==
  \A i, j \in Saying(r, {"open at"}) :
    i < j => (r.lines[i].of[2].state = "open" \/ r.lines[j].of[2].state # "open")

PlainSound(x) ==
  LET r == PlainText(x.view, x.limit)
  IN  r.failed \/ /\ EveryValueSaid(x.view, r) /\ EveryDaySaid(x.view, r) /\ NeverAsCurrent(x.view, r)
                  /\ NeverDenied(x.view, r) /\ GapsSaid(x.view, r) /\ OpenFirst(x.view, r)
=============================================================================
