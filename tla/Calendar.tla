------------------------------ MODULE Calendar ------------------------------
(***************************************************************************)
(* Questions about the campus calendar and the clubs, answered by code     *)
(* (events.py, kinds.py, the cards of meaning.py and the readings of       *)
(* engine.py).                                                             *)
(*                                                                         *)
(* Time is a count of hours and a date a count of days; the first day is a *)
(* Monday and every month has 31 days.  An event is [id, at, ends, head,   *)
(* body, kinds, groups, score, food, game, passing]: the words of its      *)
(* title, tags and place (its host's only when the question names it), the *)
(* words of its description, its card's labels, the student groups its     *)
(* host is for, its card's score for the question, and whether it says a   *)
(* word the question joins to a club's only in passing.  A question is     *)
(* [when, words, rest, kinds, groups, food, team]: what asked_topic and    *)
(* asked_kinds read of it, `rest` the alternatives left for the words.     *)
(***************************************************************************)
EXTENDS Integers, Sequences, FiniteSets, SequencesExt, FiniteSetsExt

CONSTANTS MaxEvents,   \* events a reply gives of those found
          MaxOutside,  \* events given from outside the window
          MaxNear,     \* titles given that are only near in meaning
          MinCards     \* cards there must be for one to stand out

HOURS == 24
DEFAULT_DAYS == 14
EVENT_NEAR == 8
Day(t) == t \div HOURS
StartOf(day) == HOURS * day
EndOf(day) == HOURS * day + HOURS - 1
Weekday(day) == day % 7
MonthOf(day) == (day \div 31) % 12
MonthStart(day, ahead) == 31 * ((day \div 31) + ahead)
Latest(a, b) == IF a >= b THEN a ELSE b
Earliest(a, b) == IF a <= b THEN a ELSE b

-----------------------------------------------------------------------------
(***************************************************************************)
(* The window a question asks about.                                       *)
(***************************************************************************)
Span(start, end, label) == [start |-> start, end |-> end, label |-> label]

\* A break's own days, the days until it begins, or the two weeks after it.
BreakWindow(b, now) ==
  CASE b.asks = "before" -> Span(now, EndOf(Latest(b.first - 1, Day(now))), "break")
    [] b.asks = "after" -> Span(Latest(now, StartOf(b.last + 1)), EndOf(b.last + DEFAULT_DAYS), "break")
    [] OTHER -> Span(Latest(now, StartOf(b.first)), EndOf(b.last), "break")

\* The weekend asked: on a Saturday or a Sunday, this weekend is now.
WeekendOf(today, next) ==
  (IF Weekday(today) >= 5 THEN today - (Weekday(today) - 4) ELSE today + (4 - Weekday(today)))
  + (IF next THEN 7 ELSE 0)

MonthWindow(now, ahead) ==
  Span(Latest(now, StartOf(MonthStart(Day(now), ahead))), EndOf(MonthStart(Day(now), ahead + 1) - 1), "month")

DaysAsked(when, now) ==
  LET today == Day(now)
      whole(day) == Span(StartOf(day), EndOf(day), "day")
      ahead == (when.day - today) % 7
  IN  CASE when.word = "tonight" -> Span(Latest(now, StartOf(today) + 17), EndOf(today), "tonight")
        [] when.word = "tomorrow" -> whole(today + 1)
        [] when.word = "today" -> whole(today)
        [] when.word = "break" -> BreakWindow(when, now)
        [] when.word = "weekday" -> whole(today + (IF when.next /\ ahead = 0 THEN 7 ELSE ahead))
        [] when.word = "weekend" -> Span(Latest(now, StartOf(WeekendOf(today, when.next)) + 17),
                                         EndOf(WeekendOf(today, when.next) + 2), "weekend")
        [] when.word = "next_week" -> Span(StartOf(today + 7 - Weekday(today)), EndOf(today + 13 - Weekday(today)), "week")
        [] when.word = "this_week" -> Span(now, EndOf(today + 6 - Weekday(today) + (IF Weekday(today) = 6 THEN 7 ELSE 0)), "week")
        [] when.word = "date" -> whole(IF when.day < today THEN when.day + 372 ELSE when.day)
        [] when.word = "this_month" -> [MonthWindow(now, 0) EXCEPT !.start = now]
        [] when.word = "next_month" -> MonthWindow(now, 1)
        [] when.word = "month" -> MonthWindow(now, (when.day - MonthOf(today)) % 12)
        [] when.word = "later_term" -> Span(now, EndOf(MonthStart(today, (IF MonthOf(today) >= 7 THEN 12 ELSE 6) - MonthOf(today)) - 1), "term")
        [] OTHER -> Span(now, EndOf(today + DEFAULT_DAYS), "default")

\* A part of the day narrows a window of one day.
Window(when, now) ==
  LET w == DaysAsked(when, now)
      day == StartOf(Day(w.start))
  IN  IF when.part = <<>> \/ w.label = "tonight" \/ Day(w.start) # Day(w.end) THEN w
      ELSE [w EXCEPT !.start = Latest(@, day + when.part[1]),
                     !.end = IF when.part[2] < HOURS THEN day + when.part[2] ELSE @]

-----------------------------------------------------------------------------
(***************************************************************************)
(* Cards that stand out.                                                   *)
(***************************************************************************)
\* Twice the median of the values f takes over S.
Median(S, f(_)) ==
  LET sorted == SetToSortSeq({<<f(x), x>> : x \in S}, LAMBDA p, q : p[1] < q[1] \/ (p[1] = q[1] /\ p[2] < q[2]))
      n == Len(sorted)
  IN  sorted[(n + 1) \div 2][1] + sorted[(n + 2) \div 2][1]

Distance(a, b) == IF a >= b THEN a - b ELSE b - a

\* Twice the score to reach: the median and `spreads` spreads; {} with no bar to tell by.
StandoutBar(scores, spreads) ==
  LET ids == DOMAIN scores
      mid == Median(ids, LAMBDA i : scores[i])
      spread == Median(ids, LAMBDA i : Distance(2 * scores[i], mid)) \div 2
  IN  IF Cardinality(ids) < MinCards THEN {}
      ELSE IF spread = 0 THEN {} ELSE {mid + spreads * spread}

Stands(score, bar) == \E b \in bar : 2 * score >= b

-----------------------------------------------------------------------------
(***************************************************************************)
(* Events for a topic.                                                     *)
(***************************************************************************)
\* Dated in the window; read, and starting in it or still on when it opens.
EventsIn(events, w) == {e \in events : Day(w.start) <= Day(e.at) /\ Day(e.at) <= Day(w.end)}
InWindow(events, w) == {e \in events : e.at <= w.end /\ (e.at >= w.start \/ e.ends > w.start)}

About(e) == e.head \cup e.body

\* A word says more the fewer listings hold it.
Weight(all, with) == (2 * all + 2) \div (2 * with + 1)

\* Whether a listing holds every word asked, or most of their weight.
ShareOf(e, words, corpus) ==
  LET weight(w) == Weight(Cardinality(corpus), Cardinality({c \in corpus : w \in About(c)}))
      sum(ws) == FoldSet(LAMBDA w, total : total + weight(w), 0, ws)
  IN  IF words \subseteq About(e) THEN "whole"
      ELSE IF 2 * sum(words \cap About(e)) >= sum(words) THEN "most" ELSE "little"

\* The listings that name what is asked: whole in the heading, whole in the description
\* where the card's meaning agrees, else most of it where it stands out.
ByWords(timed, q, corpus) ==
  LET scores == [i \in {c.id : c \in corpus} |-> (CHOOSE c \in corpus : c.id = i).score]
      agrees(e, spreads) == StandoutBar(scores, spreads) = {} \/ Stands(e.score, StandoutBar(scores, spreads))
      shared(e, share) == \E words \in q.rest : ShareOf(e, words, corpus) = share
      titled(e) == \E words \in q.rest : words \subseteq e.head
      said(e) == ~e.passing \/ Stands(e.score, StandoutBar(scores, 4))
      whole == {e \in timed : shared(e, "whole") /\ (titled(e) \/ (agrees(e, 2) /\ said(e)))}
  IN  IF q.rest = {} THEN {} ELSE IF whole # {} THEN whole
      ELSE {e \in timed : (shared(e, "most") \/ shared(e, "whole")) /\ agrees(e, 4)}

\* Found by its card alone: it stands out, and is near the window's best.
NearInMeaning(candidates, timed, corpus) ==
  LET scores == [i \in {c.id : c \in corpus} |-> (CHOOSE c \in corpus : c.id = i).score]
      best == Max({e.score : e \in timed})
      above == {e \in candidates : Stands(e.score, StandoutBar(scores, 4)) /\ e.score >= best - EVENT_NEAR}
      before(d, e) == d.score > e.score \/ (d.score = e.score /\ d.id < e.id)
      first == {e \in above : ~\E d \in above : d.head = e.head /\ before(d, e)}
      titles == {e.head : e \in {e \in first : Cardinality({d \in first : before(d, e)}) < MaxNear}}
  IN  {e \in above : e.head \in titles}

\* How each event of the window matches, the first that holds; "none" when it does not.
MatchedBy(e, timed, q, corpus) ==
  LET worded == ByWords(timed, q, corpus)
      food(d) == q.food /\ d.food
      near == IF q.kinds # {} \/ q.team THEN {}
              ELSE NearInMeaning({d \in timed \ worded : ~food(d)}, timed, corpus)
      kinded == e.kinds \cap q.kinds # {} \/ (q.kinds # {} /\ q.groups # {} /\ q.groups \subseteq e.groups)
  IN  IF kinded THEN "kind" ELSE IF e \in worded THEN "words" ELSE IF food(e) THEN "food"
      ELSE IF e \in near THEN "meaning" ELSE "none"

NoTopic(q) == q.words = {} /\ ~q.food

\* The events ranked in a window and whether the topic matched.  `best` keeps only the
\* most on topic, by how much of it they hold.
RankEvents(values, w, q, corpus, best) ==
  LET timed == InWindow(values, w)
      by == [e \in timed |-> MatchedBy(e, timed, q, corpus)]
      matching == {e \in timed : by[e] # "none"}
      topic(e) == IF by[e] = "kind" \/ (\E words \in q.rest : ShareOf(e, words, corpus) = "whole") THEN 2
                  ELSE IF \E words \in q.rest : ShareOf(e, words, corpus) = "most" THEN 1 ELSE 0
      kept == IF best THEN {e \in matching : \A d \in matching : topic(d) <= topic(e)} ELSE matching
  IN  IF NoTopic(q) THEN [matched |-> "no_topic", by |-> [e \in timed |-> "none"]]
      ELSE IF matching = {} THEN [matched |-> "no", by |-> [e \in timed |-> "none"]]
      ELSE [matched |-> "yes", by |-> [e \in kept |-> by[e]]]

Group(by) == CASE by = "kind" -> 0 [] by \in {"words", "food"} -> 1 [] by = "meaning" -> 2 [] OTHER -> 0
Groups == {"kind", "words", "meaning"}
GroupName(by) == IF by = "food" THEN "words" ELSE by

\* The events a reply gives: the most on topic first, each group's earliest.
ShownEvents(by) ==
  LET order == SetToSortSeq(DOMAIN by, LAMBDA d, e :
                 \/ Group(by[d]) < Group(by[e])
                 \/ Group(by[d]) = Group(by[e]) /\ (d.at < e.at \/ (d.at = e.at /\ d.id < e.id)))
  IN  {order[i] : i \in 1..Min({MaxEvents, Len(order)})}

\* A slip: the matches are counted after the list is cut.
TotalsShown(by) == [g \in Groups |-> Cardinality({e \in ShownEvents(by) : GroupName(by[e]) = g})]

\* How many matched each way, counted before the list is cut.
MatchTotals(by) == [g \in Groups |-> Cardinality({e \in DOMAIN by : GroupName(by[e]) = g})]

\* A calendar question's answer: what is given of the window, the counts said, the later
\* dates, and whether the whole calendar is said to hold nothing.
ReadCalendar(events, q, now) ==
  LET w == Window(q.when, now)
      year == Span(now, EndOf(Day(now) + 366), "year")
      upcoming == InWindow(EventsIn(events, year), year)
      values == EventsIn(events, w)
      found == RankEvents(values, w, q, upcoming \cup values, FALSE)
      given == IF found.matched = "no" /\ w.label = "default" THEN {} ELSE ShownEvents(found.by)
      seeks == found.matched = "no" \/ (found.matched = "yes" /\ w.label = "default")
      later == RankEvents(upcoming \ values, year, q, upcoming \cup values, TRUE)
      outside == IF seeks /\ later.matched = "yes"
                 THEN SetToSortSeq(DOMAIN later.by, LAMBDA d, e : d.at < e.at \/ (d.at = e.at /\ d.id < e.id)) ELSE <<>>
  IN  [window |-> w, matched |-> found.matched, by |-> found.by, given |-> given,
       totals |-> MatchTotals(found.by), inWindow |-> Cardinality(InWindow(values, w)),
       outside |-> {outside[i] : i \in 1..Min({MaxOutside, Len(outside)})},
       never |-> found.matched = "no" /\ outside = <<>>]

\* Uncommon words that an upcoming event's title holds every one of.
RelatedEvents(events, words, now, listings, headings, limit) ==
  LET w == Span(now, now + 30 * HOURS, "related")
      rare == \E word \in words : listings[word] <= 3 /\ headings[word] <= 3
      named == {e \in InWindow(EventsIn(events, w), w) : ~e.game /\ words \subseteq e.head}
      first == {e \in named : \A d \in named : d.head = e.head => d.at > e.at \/ (d.at = e.at /\ d.id >= e.id)}
      order == SetToSortSeq(first, LAMBDA d, e : d.at < e.at \/ (d.at = e.at /\ d.id < e.id))
  IN  IF ~rare THEN {} ELSE {order[i] : i \in 1..Min({limit, Len(order)})}

-----------------------------------------------------------------------------
(***************************************************************************)
(* Clubs: an entry is [id, name, category, kinds, score].                  *)
(***************************************************************************)
\* Named by every word of its name, the club's general words aside.
FindClubs(clubs, words, generic) ==
  {c \in clubs : c.name # {} /\ c.name \subseteq words /\ ~(c.name \subseteq generic)}

\* Clubs whose cards stand out, near the best.
ClubsByMeaning(clubs) ==
  LET scores == [i \in {c.id : c \in clubs} |-> (CHOOSE c \in clubs : c.id = i).score]
      bar == StandoutBar(scores, 4)
      best == Max({c.score : c \in clubs})
  IN  IF clubs = {} \/ ~Stands(best, bar) THEN {}
      ELSE {c \in clubs : Stands(c.score, bar) /\ c.score >= best - EVENT_NEAR}

\* Of the clubs found, those of a kind most of them share.
OfSharedKind(found) ==
  LET shared == {k \in UNION {c.kinds : c \in found} :
                 2 * Cardinality({c \in found : k \in c.kinds}) > Cardinality(found)}
  IN  IF Cardinality(found) < 3 \/ shared = {} THEN found ELSE {c \in found : c.kinds \cap shared # {}}

\* Every club of a category that most of those found share.
ClubCategory(found, directory, general) ==
  LET of(k) == Cardinality({c \in found : c.category = k})
      top == {k \in {c.category : c \in found} \ general : 2 * of(k) >= Cardinality(found)}
  IN  IF Cardinality(found) < 3 \/ top = {} THEN found
      ELSE {c \in directory : c.category = CHOOSE k \in top : \A j \in top : of(k) >= of(j)}

\* An entry that only says its own category stands for the kind.
NamesItsKind(c) == c.name # {} /\ c.name \subseteq c.category
MembersOf(entry, directory) == {c \in directory : c.category = entry.category /\ ~NamesItsKind(c)}

\* Every club of the kind asked and nothing else, each with a page's word that it is inactive.
KindList(directory, words, topic, kinds, generic, inactive) ==
  LET umbrella == {c \in directory : NamesItsKind(c) /\ c.name \subseteq words}
      others == {c \in FindClubs(directory, words, generic) : c \notin umbrella}
      under == IF Cardinality(umbrella) = 1 /\ others = {} THEN umbrella ELSE {}
      listed == IF under # {} THEN UNION {MembersOf(c, directory) : c \in under}
                ELSE {c \in directory : c.kinds \cap kinds # {}}
  IN  IF \E c \in under : ~(topic \subseteq c.name) THEN {}
      ELSE {[club |-> c.id, inactive |-> c.id \in inactive] : c \in listed}

-----------------------------------------------------------------------------
(***************************************************************************)
(* Properties.                                                             *)
(***************************************************************************)
Titled(e, q) == \E words \in q.rest : words # {} /\ words \subseteq e.head

\* An answer about the calendar leaves out nothing on in the time asked that the topic
\* names: every such event is given or counted, the counts are of all that match, none is
\* given twice or from outside its time, and the earliest of a group are the ones given
\* when the list is cut (events.rank_events, match_totals, topic_text).
CalendarTold(x) ==
  LET a == ReadCalendar(x.events, x.q, x.now)
      timed == InWindow(EventsIn(x.events, a.window), a.window)
  IN  /\ a.matched = "no" => ~\E e \in timed : Titled(e, x.q) \/ e.kinds \cap x.q.kinds # {}
      /\ a.matched = "yes" =>
           /\ \A e \in timed : Titled(e, x.q) \/ e.kinds \cap x.q.kinds # {} => e \in DOMAIN a.by
           /\ a.totals["kind"] + a.totals["words"] + a.totals["meaning"] = Cardinality(DOMAIN a.by)
           /\ Cardinality(DOMAIN a.by) <= a.inWindow
      /\ \A e \in a.given, d \in DOMAIN a.by :
           d \notin a.given /\ Group(a.by[d]) = Group(a.by[e]) => e.at <= d.at
      /\ a.given \cap a.outside = {}
      /\ \A e \in a.given \cup a.outside : e.at >= x.now \/ e.ends > x.now \/ Day(e.at) >= Day(a.window.start)
      /\ \A e \in RelatedEvents(x.events, x.q.words, x.now, [w \in x.q.words |-> 1], [w \in x.q.words |-> 1], 2) :
           x.q.words \subseteq e.head

\* When the answer says nothing about the topic is on the whole calendar, nothing is.
NeverMeansNever(x) ==
  LET a == ReadCalendar(x.events, x.q, x.now)
  IN  a.never => ~\E e \in x.events : Titled(e, x.q) /\ e.at > x.now /\ Day(e.at) <= Day(x.now) + 366

\* A club of the kind asked is never left off its list, and never listed as active when a
\* page marks it inactive.
ClubsListed(x) ==
  LET list == KindList(x.directory, x.words, x.words, x.kinds, {}, x.inactive)
  IN  /\ \A c \in list : c.inactive <=> c.club \in x.inactive
      /\ ~(\E c \in x.directory : NamesItsKind(c)) =>
           \A c \in x.directory : c.kinds \cap x.kinds # {} <=> c.id \in {l.club : l \in list}
      /\ OfSharedKind(ClubsByMeaning(x.directory)) \subseteq x.directory
      /\ \A c \in ClubsByMeaning(x.directory) : \A d \in x.directory : d.score > c.score => d \in ClubsByMeaning(x.directory)
      /\ LET f == ClubsByMeaning(x.directory) IN Cardinality(f) >= 3 => OfSharedKind(f) # {}

CalendarHonest(x) == IF x.of = "clubs" THEN ClubsListed(x) ELSE CalendarTold(x)
=============================================================================
