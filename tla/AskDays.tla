------------------------------- MODULE AskDays -------------------------------
(***************************************************************************)
(* What MCBrain asks of the times an answer states: a day's hours at each  *)
(* minute, the packet written from them and the text code writes from the  *)
(* packet, the events of a window, the rides and the dates of a term.      *)
(***************************************************************************)
EXTENDS Integers, Sequences, FiniteSets, TLC

VARIABLE asked

Ask(rule, x) == asked' = [rule |-> rule, of |-> x]
UpTo(n, set) == UNION {[1..k -> set] : k \in 0..n}

-----------------------------------------------------------------------------
(***************************************************************************)
(* The hours of one day, and the parts of a packet read at ten o'clock.    *)
(***************************************************************************)
Span == [label : {"x"}, start : {0, 8, 11, 14}, end : {0, 11, 14, 20}]
Night == [label |-> "x", start |-> 20, end |-> 22]
Listed == UNION {{<<a>>, <<a, b>>, <<a, b, Night>>} : a, b \in Span}

NoText == [text |-> "null", spans |-> <<>>]
Nine == [text |-> "meals", spans |-> <<[label |-> "lunch", start |-> 9, end |-> 17]>>]
Source == [fresh |-> TRUE, cited |-> TRUE, seasonal |-> FALSE, from |-> 0, until |-> 0]
Word(w, year) == [word |-> w, year |-> year]
Seasonal(season) == CASE season = "" -> <<>> [] season = "spring" -> <<Word("spring", 2), Word("term", 1)>>
                      [] OTHER -> <<Word(season, 0)>>
Week(n, season, h, absence) ==
  [schedule |-> n, season |-> Seasonal(season), days |-> (3 :> [hours |-> h, absence |-> absence])]
From(w, ids) == [value |-> w, sources |-> ids]
Property(key, status, values) == [key |-> key, status |-> status, values |-> values, issues |-> {},
  absence |-> [current |-> FALSE, checks |-> key # "hours", sources |-> IF key = "hours" THEN {} ELSE {2}]]
HoursOf(status, s, t, h, absence) ==
  Property("hours", status, <<From(Week(1, s, h, "none"), {1}), From(Week(2, t, Nine, absence), {2})>>)
Doubted(days) == [Property("hours", "known", <<From(Week(1, "", Nine, "none"), {1, 2})>>)
                   EXCEPT !.issues = {[days |-> d, sources |-> {1}] : d \in days}]
Email(status, current) == [Property("email", status, <<From([mail |-> 1], {1})>>) EXCEPT !.absence.current = current]
Phones(fax) == Property("phones", "known", <<From([fax |-> fax], {1}), From([fax |-> FALSE], {2})>>)
When(minute, meal) == {[date |-> 10, at |-> minute, meal |-> meal]}
Whens == {{}, When({}, "lunch"), When({[minute |-> 12, relation |-> "at", now |-> TRUE]}, "")}
Part(venue, props, when, fax, a, b) ==
  [kind |-> "office_facts", office |-> "o", venue |-> venue, props |-> props, when |-> when, also |-> {},
   complete |-> TRUE, fax |-> fax, fields |-> {"hours"}, sources |-> (1 :> a @@ 2 :> b)]
Others == {Doubted(d) : d \in {{}, {{3}}, {{4}}}} \cup {Phones(f) : f \in BOOLEAN}
          \cup {Email(s, c) : s \in {"known", "conflicting", "not_published", "unknown"}, c \in BOOLEAN}

\* What the turn's other lookups found beside it.
Meal(f, m) == Property("menu", "known", <<From([meals |-> m, filter |-> f, rest |-> f], {1})>>)
HowTo(status) == [Property("procedures", status, IF status = "known" THEN <<From([steps |-> 1], {1})>> ELSE <<>>)
                   EXCEPT !.absence.checks = FALSE]
OfOther(part, office) == [part EXCEPT !.office = office, !.sources = (3 :> part.sources[1] @@ 4 :> part.sources[2]),
  !.props = [i \in DOMAIN @ |-> [@[i] EXCEPT !.values = [k \in DOMAIN @ |-> [@[k] EXCEPT !.sources = {id + 2 : id \in @}]],
                                             !.absence.sources = {id + 2 : id \in @}]]]
Asking(props, when) == Part(TRUE, props, when, FALSE, [Source EXCEPT !.from = 8, !.until = 12], Source)
Timetable(special, complete, ids, cited) == [special |-> special, complete |-> complete, status |-> "known",
  values |-> <<[value |-> [trips |-> 1], sources |-> ids]>>, sources |-> (5 :> [Source EXCEPT !.cited = cited])]
Rides(routes) == [kind |-> "shuttle_facts", date |-> 10, routes |-> routes, says |-> {"shuttle_scope"}]
Tuesday == {[date |-> 11, at |-> {}, meal |-> ""]}
Week2(season, issues) == [HoursOf("conflicting", season, "", Nine, "none") EXCEPT !.issues = issues]
Firsts == {[Asking(<<p>>, when) EXCEPT !.complete = c, !.venue = v] : c, v \in BOOLEAN, when \in Whens \cup {Tuesday},
             p \in {HoursOf("multiple", "", "", Nine, "none"), Week2("summer", {}), Week2("", {[days |-> {4}, sources |-> {1}]})}}
          \cup {Asking(<<Meal(FALSE, {"lunch"})>>, {}), Asking(<<HowTo("known")>>, {}), Asking(<<HowTo("unknown")>>, {})}
Again(first) == {[first EXCEPT !.when = w] : w \in {w \in {{}, When({}, "dinner"), Tuesday} : first.props[1].key = "hours"}}
Besides == {Asking(<<Meal(TRUE, {"lunch"})>>, {}), Asking(<<Meal(TRUE, {"dinner"})>>, {}),
        [Asking(<<Email("not_published", TRUE)>>, {}) EXCEPT !.also = {Asking(<<Phones(FALSE)>>, {})}],
        OfOther(Asking(<<HowTo("known")>>, {}), "p"), OfOther(Asking(<<Email("known", TRUE)>>, {}), "p"),
        OfOther(Asking(<<HoursOf("known", "", "", Nine, "none")>>, When({}, "")), "p"),
        OfOther(Part(FALSE, <<Email("known", TRUE)>>, {}, FALSE, [Source EXCEPT !.cited = FALSE], Source), "p"),
        [kind |-> "ambiguous"], [kind |-> "not_found"], [kind |-> "clarification"], [kind |-> "incomplete"],
        [kind |-> "safety", contacts |-> <<OfOther(Asking(<<Email("known", TRUE), Phones(FALSE)>>, {}), "police")>>]}
  \cup {Rides(<<Timetable(s, c, {5}, TRUE), Timetable(FALSE, TRUE, {5}, TRUE)>>) : s, c \in BOOLEAN}
  \cup {Rides(<<Timetable(FALSE, TRUE, {5}, FALSE)>>), Rides(<<Timetable(FALSE, TRUE, {6}, TRUE)>>), Rides(<<Timetable(TRUE, TRUE, {5}, TRUE)>>)}

AskClock ==
  \/ \E t \in {"closed", "seasonal", "all_day", "words", "null"} : Ask("clock", [hours |-> [text |-> t, spans |-> <<>>]])
  \/ \E t \in {"ranges", "meals"}, spans \in Listed : Ask("clock", [hours |-> [text |-> t, spans |-> spans]])

AskPacket ==
  \/ \E venue, fresh, cited \in BOOLEAN, status \in {"known", "multiple"}, s \in {"", "summer"}, t \in {"", "spring"},
        h \in {Nine, NoText}, absence \in {"none", "current", "stale"}, when \in Whens, from \in {0, 8}, until \in {0, 9, 12},
        b \in {[Source EXCEPT !.from = 8, !.until = 12], Source, [Source EXCEPT !.cited = FALSE]} :
        Ask("packet", [now |-> [day |-> 10, minute |-> 10],
          parts |-> <<Part(venue, <<HoursOf(status, s, t, h, absence)>>, when, FALSE,
                           [Source EXCEPT !.fresh = fresh, !.cited = cited, !.from = from, !.until = until], b)>>])
  \/ \E p, q \in Others, fax \in BOOLEAN, when \in Whens, b \in {Source, [Source EXCEPT !.cited = FALSE]},
        a \in {[Source EXCEPT !.from = 8, !.until = 12], [Source EXCEPT !.from = 8, !.until = 9], [Source EXCEPT !.fresh = FALSE]} :
        p.key # q.key /\ Ask("packet", [now |-> [day |-> 10, minute |-> 10], parts |-> <<Part(FALSE, <<p, q>>, when, fax, a, b)>>])
  \/ \E first \in Firsts, late \in BOOLEAN : \E others \in UpTo(2, Besides \cup Again(first)) :
        Ask("packet", [now |-> [day |-> 10, minute |-> 10],
          parts |-> IF late THEN others \o <<first>> ELSE <<first>> \o others])

-----------------------------------------------------------------------------
(***************************************************************************)
(* The packet as the plain writer sees it.                                 *)
(***************************************************************************)
Value(s, k, v, h, n) == [subject |-> s, kind |-> k, value |-> v, week |-> [mon |-> "-", tue |-> "-"], holds |-> h, size |-> 3,
  sources |-> n, conflicting |-> FALSE, current |-> TRUE, undated |-> FALSE, season |-> FALSE, also |-> FALSE]
Hours(mon, tue, n, conflict, current) == [Value("a", "hours", "-", {}, n) EXCEPT
  !.week = [mon |-> mon, tue |-> tue], !.conflicting = conflict, !.current = current]
FactsOf == {Value("a", "email", "e1", {"email"}, {1}), [Value("a", "email", "e1", {"email"}, {1}) EXCEPT !.conflicting = TRUE],
  [Value("a", "email", "e2", {"email"}, {2}) EXCEPT !.conflicting = TRUE],
  Value("a", "contact_note", "t", {"email"}, {2}), [Value("a", "contact_note", "t", {"email"}, {3}) EXCEPT !.also = TRUE],
  Hours("9-5", "not listed", {1}, FALSE, TRUE), Hours("9-5", "not listed", {1}, TRUE, TRUE),
  Hours("9-4", "9-4", {2}, TRUE, FALSE), [Hours("9-3", "9-3", {3}, FALSE, FALSE) EXCEPT !.season = TRUE],
  Value("a", "procedures", "p1", {}, {1}), [Value("b", "procedures", "p1", {}, {2}) EXCEPT !.current = FALSE],
  Value("a", "procedures", "p2", {}, {1}), Value("c", "map", "m", {}, {3}), Value("c", "places", "p", {"a"}, {3}),
  Value("b", "menu", "m", {}, {4})}
Open(s, r) == [state |-> s, rest |-> r]
At(r, s) == [relation |-> r, state |-> s]
Day(s, h, v, now, at, l, n) == [subject |-> s, date |-> 1, day |-> "mon", hours |-> h, value |-> v, now |-> now, at |-> at,
  listed |-> l, applies |-> TRUE, doubtful |-> l, sources |-> n, conflicting |-> FALSE]
Neither == Open("none", "none")
Unasked == At("none", "none")
DaysOf == {[Day("a", "hours", "9-5", Open("open", "5"), Unasked, l, {1}) EXCEPT !.conflicting = c] : c, l \in BOOLEAN}
  \cup {[Day("a", "hours", "9-4", n, Unasked, FALSE, {2}) EXCEPT !.conflicting = TRUE, !.applies = p] :
          n \in {Open("open", "4"), Open("closed", "8"), Neither}, p \in BOOLEAN}
  \cup {Day(s, "hours", "9-5", Neither, At(r, t), FALSE, {1}) : s \in {"a", "b"}, r \in {"at", "after"}, t \in {"open", "closed"}}
  \cup {Day("b", h, "9-3", Open("open", "3"), Unasked, TRUE, {2}) : h \in {"listed", "none", "not published"}}
View(facts, days, fields, windows, limit) ==
  [limit |-> limit, view |-> [facts |-> facts, days |-> days, absent |-> <<[subject |-> "a", kind |-> "email"]>>,
     gaps |-> <<[subject |-> "a", kind |-> "schedule", days |-> {"tue"}, sources |-> {1}]>>,
     fields |-> fields, windows |-> windows, read |-> {2}]]

AskPlain ==
  \/ \E facts \in UpTo(3, FactsOf), windows \in {{}, {2}}, limit \in {0, 4} : Ask("plain", View(facts, <<>>, {}, windows, limit))
  \/ \E days \in UpTo(2, DaysOf), facts \in UpTo(1, FactsOf), fields \in {{}, {"hours"}} :
        Ask("plain", View(facts, days, fields, {2}, 4))

-----------------------------------------------------------------------------
(***************************************************************************)
(* Events by their titles, kinds and closeness; the clubs of a directory.  *)
(***************************************************************************)
Window(word, part) == [word |-> word, day |-> 5, next |-> FALSE, part |-> part, first |-> 6, last |-> 8, asks |-> "after"]
Windows == {Window(w, <<>>) : w \in {"tonight", "tomorrow", "weekend", "month", "break", "later_term", "none"}}
           \cup {Window("tomorrow", <<12, 17>>)}
Wanted(when, rest, kinds, food) == [when |-> when, words |-> {"art", "night"}, rest |-> rest, kinds |-> kinds,
  groups |-> {}, food |-> food, team |-> FALSE]
Event(i, at, head, body, kinds, score, food) == [id |-> i, at |-> at, ends |-> at + 3, head |-> head, body |-> body, kinds |-> kinds,
  groups |-> {}, score |-> score, food |-> food, game |-> FALSE, passing |-> FALSE]
Club(i, name, category, kinds, score) == [id |-> i, name |-> name, category |-> category, kinds |-> kinds, score |-> score]
ClubNames == {{"art"}, {"art", "guild"}, {"chess"}}

AskCalendar ==
  \/ \E when \in Windows, rest \in {{{"art", "night"}, {"art"}, {"night"}}, {}}, kinds, k \in {{}, {"arts"}}, food \in BOOLEAN,
        at \in {14, 20, 36}, head \in {{}, {"art", "night"}, {"trivia"}}, other \in {{"art"}, {"trivia"}}, score \in {1, 9} :
        /\ rest = {} => kinds # {}
        /\ Ask("calendar", [of |-> "calendar", now |-> 10, q |-> Wanted(when, rest, kinds, food),
             events |-> {Event(1, at, head, {"art", "night"}, k, score, FALSE), Event(2, 20, other, {}, {}, 2, TRUE),
                         Event(3, 39, other, {"night"}, k, 1, FALSE), Event(4, 180, {"trivia"}, {}, {}, 4, FALSE)}])
  \/ \E words \in {{"art"}, {"art", "guild"}, {"social"}}, kinds, k \in {{}, {"arts"}}, score \in {1, 9, 12},
        inactive \in SUBSET {1, 2}, m, n \in ClubNames, category \in {{"art"}, {"social"}} :
        Ask("calendar", [of |-> "clubs", words |-> words, kinds |-> kinds, inactive |-> inactive,
          directory |-> {Club(1, n, category, k, score), Club(2, m, {"social"}, {"arts"}, 10),
                         Club(3, {"chess"}, {"games"}, {}, 1), Club(4, {"go"}, {"games"}, k, 2)}])

-----------------------------------------------------------------------------
(***************************************************************************)
(* Rides, and the academic calendar of two years.                          *)
(***************************************************************************)
Call(k, at) == [key |-> k, at |-> at]
Trip(n, leaves, stops, back) == [sequence |-> n, leaves |-> leaves, stops |-> stops, back |-> back]
Route(n, service, trips) == [route |-> n, service |-> service, trips |-> trips]
Rounds == {<<Call("mall", 5)>>, <<Call("mall", 5), Call("train", 6), Call("mall", 8)>>, <<Call("train", 6)>>,
           <<Call("train", 4), Call("mall", 3)>>}

AskShuttle ==
  \E which \in {"next", "first", "last", "all"}, stop \in {{}, {"mall"}, {"campus"}}, after \in {{}, {2}}, by \in {{}, {6}},
     times, home \in BOOLEAN, stops \in Rounds, back \in {-1, 9}, now \in {{}, {2}, {6}}, day \in {0, 4}, third \in {"saturday", "sunday"} :
     Ask("shuttle", [now |-> now, day |-> day,
       q |-> [which |-> which, stop |-> stop, after |-> after, by |-> by, times |-> times, back |-> home],
       table |-> {Route(1, "weekday", {Trip(1, 2, stops, back), Trip(2, 6, <<Call("mall", 7)>>, back)}),
                  Route(2, "weekday", {Trip(1, 3, <<Call("mall", 5)>>, 9)}), Route(3, third, {Trip(1, 4, stops, back)})}])

Term(name, season, year) == [name |-> name, season |-> season, year |-> year]
Dated(i, at, last, kind, named, terms) == [id |-> i, at |-> at, last |-> last, kind |-> kind, names |-> named, terms |-> terms]
Year == {Term("fall1", "fall", 1), Term("spring2", "spring", 2), Term("winter", "winter", 2), Term("fall2", "fall", 2)}
Base == {Dated(1, 10, 10, "classes_begin", {}, {"fall1"}), Dated(2, 20, 21, "classes_end", {}, {"fall1"}),
         Dated(3, 30, 30, "classes_begin", {}, {"spring2"}), Dated(4, 40, 40, "classes_end", {}, {"spring2"}),
         Dated(5, 60, 60, "classes_begin", {}, {"fall2"})}
AddDrops == {{}, {Dated(7, 12, 12, "add_drop", {}, {"fall1"})},
             {Dated(7, 12, 14, "add_drop", {}, {"fall1"}), Dated(8, 32, 32, "add_drop", {}, {"spring2", "winter"})}}

AskTerms ==
  \E kind \in {"break", "add_drop", "classes_begin"}, season \in {"", "fall", "spring"}, year \in {0, 2}, next, this, still, ahead \in BOOLEAN,
     named \in {{}, {"winter"}, {"thanks"}}, today \in {5, 15, 22, 35, 50}, w \in {{}, {Dated(6, 24, 24, "classes_begin", {}, {"winter"})}},
     d \in AddDrops, b \in {{}, {Dated(9, 17, 18, "holiday", {"thanks"}, {"fall1"})}} :
     /\ kind # "break" => named = {}
     /\ next => season = ""
     /\ season = "" => year = 0
     /\ Ask("terms", [terms |-> Year, today |-> today, dates |-> Base \cup w \cup d \cup b,
          q |-> [kind |-> kind, season |-> season, year |-> year, next |-> next, this |-> this, still |-> still,
                 past |-> FALSE, ahead |-> ahead, names |-> named]])

AskAny == AskClock \/ AskPacket \/ AskPlain \/ AskCalendar \/ AskShuttle \/ AskTerms
=============================================================================
