------------------------------ MODULE Shuttle ------------------------------
(***************************************************************************)
(* Which shuttle leaves when (shuttle.py and the shuttle lookup of         *)
(* engine.py).                                                             *)
(*                                                                         *)
(* A timetable is a set of routes [route, service, trips], a trip of it    *)
(* [sequence, leaves, stops, back]: minutes of a day, the calls it makes   *)
(* as a sequence of [key, at], and its time back on campus, each NOTIME    *)
(* when the page's text is not a clock time.  A date is a count of days    *)
(* from a Monday.  A question is [which, stop, after, by, times, back],    *)
(* with {} for a stop or a time that is not asked.                         *)
(***************************************************************************)
EXTENDS Integers, Sequences, FiniteSets, SequencesExt, FiniteSetsExt

CONSTANTS MaxListed,  \* upcoming departures "next" shows
          MaxToday    \* departures a whole-day answer lists from now

NOTIME == -1
SERVICES == {"weekday", "saturday", "sunday"}
Service(day) == CASE day % 7 = 5 -> "saturday" [] day % 7 = 6 -> "sunday" [] OTHER -> "weekday"

-----------------------------------------------------------------------------
(***************************************************************************)
(* The timetable.                                                          *)
(***************************************************************************)
\* A trip whose clocks cannot be read, or run backwards, is left out.
Readable(raw) ==
  LET at == <<raw.leaves>> \o [i \in DOMAIN raw.stops |-> raw.stops[i].at]
  IN  /\ \A i \in DOMAIN at : at[i] # NOTIME
      /\ \A i \in 2..Len(at) : at[i - 1] <= at[i]
      /\ raw.back # NOTIME => raw.back >= at[Len(at)]

TripsOf(table, service) ==
  UNION {{[route |-> r.route, sequence |-> t.sequence, leaves |-> t.leaves, back |-> t.back,
           stops |-> t.stops] : t \in {t \in r.trips : Readable(t)}} :
         r \in {r \in table : r.service = service}}

CallsAt(t) == {t.stops[i].key : i \in DOMAIN t.stops}
StopsServed(table) == UNION {CallsAt(t) : t \in UNION {TripsOf(table, s) : s \in SERVICES}}
ServedOn(table, key) == {s \in SERVICES : \E t \in TripsOf(table, s) : key \in CallsAt(t)}

\* A stop is reached by a trip's first call there, and left by its last.
FirstCall(t, key) == t.stops[Min({i \in DOMAIN t.stops : t.stops[i].key = key})].at
Pickup(t, key) == t.stops[Max({i \in DOMAIN t.stops : t.stops[i].key = key})].at

\* The minute a trip is said by: leaving campus, or at the stop on its way back.
When(t, stop, back) == IF back THEN Pickup(t, CHOOSE k \in stop : TRUE) ELSE t.leaves

InOrder(trips, stop, back) ==
  SetToSortSeq(trips, LAMBDA t, u :
    \/ When(t, stop, back) < When(u, stop, back)
    \/ When(t, stop, back) = When(u, stop, back) /\ t.route < u.route
    \/ When(t, stop, back) = When(u, stop, back) /\ t.route = u.route /\ t.sequence < u.sequence)

Calling(table, day, stop) == {t \in TripsOf(table, Service(day)) : stop \subseteq CallsAt(t)}

\* A slip: any trip that calls at the stop is a ride back.
RidesAny(table, day, stop, back) == Calling(table, day, stop)

\* The trips of a day, or the rides back from a stop: those with a time back on campus.
Rides(table, day, stop, back) ==
  IF back THEN {t \in Calling(table, day, stop) : t.back # NOTIME} ELSE Calling(table, day, stop)

-----------------------------------------------------------------------------
(***************************************************************************)
(* The answer.  What is not said of it is left out of the record.          *)
(***************************************************************************)
Shown(t, stop, back) == [t |-> t, at |-> When(t, stop, back)]
ShownAll(trips, stop, back) == [i \in DOMAIN trips |-> Shown(trips[i], stop, back)]
FirstOf(s, n) == SubSeq(s, 1, Min({n, Len(s)}))
LastOf(s, n) == SubSeq(s, Len(s) - Min({n, Len(s)}) + 1, Len(s))

\* The first trips of the next day, of the coming week, that has one.
NextService(table, day, stop, back) ==
  LET days == {d \in (day + 1)..(day + 7) : Rides(table, d, stop, back) # {}}
      first == Min(days)
      rides == Rides(table, first, stop, back)
      at == Min({When(t, stop, back) : t \in rides})
  IN  IF days = {} THEN {}
      ELSE {[date |-> first, trips |-> ShownAll(InOrder({t \in rides : When(t, stop, back) = at}, stop, back), stop, back)]}

NoneLeft(table, day, stop, back, last) ==
  [said |-> "none_left", last |-> last, trips |-> <<>>, next |-> NextService(table, day, stop, back)]

\* What reaches the stop by the minute asked, of the trips still to come.
ReachBy(upcoming, stop, by) ==
  LET key == CHOOSE k \in stop : TRUE
      reaching == SelectSeq(upcoming, LAMBDA t : FirstCall(t, key) <= by)
  IN  IF reaching # <<>> THEN [said |-> "by", trips |-> ShownAll(LastOf(reaching, MaxListed), stop, FALSE)]
      ELSE [said |-> "none_by", trips |-> <<>>,
            earliest |-> IF upcoming = <<>> THEN {} ELSE {FirstCall(upcoming[1], key)}]

\* A slip: at the minute a trip leaves it has not left.
LeftAt(at, now) == now # {} /\ \E n \in now : at < n

Left(at, now) == \E n \in now : at <= n

\* The question on a day of which nothing has passed.
OnDay(table, day, q) ==
  LET all == InOrder(Rides(table, day, q.stop, q.back), q.stop, q.back)
      after == SelectSeq(all, LAMBDA t : \A a \in q.after : When(t, q.stop, q.back) > a)
  IN  IF all = <<>> THEN {} ELSE {ReachBy(after, q.stop, CHOOSE b \in q.by : TRUE)}

\* The minute asked has passed today: the next day that has an answer.
PassedToday(table, day, q) ==
  LET days == {d \in (day + 1)..(day + 7) : OnDay(table, d, q) # {}}
  IN  [said |-> "by_passed", trips |-> <<>>,
       next |-> IF days = {} THEN {}
                ELSE {[date |-> Min(days), answer |-> a] : a \in OnDay(table, Min(days), q)}]

\* Every departure of a day: counted, and today those from now.
WholeDay(table, day, now, q, calling, upcoming, last) ==
  LET when(t) == When(t, q.stop, q.back)
      listed == FirstOf(upcoming, MaxToday)
  IN  IF now # {} /\ upcoming = <<>> THEN NoneLeft(table, day, q.stop, q.back, last)
      ELSE IF ~q.times
      THEN [said |-> "counted", trips |-> <<>>, count |-> Len(calling), first |-> calling[1].leaves,
            last |-> calling[Len(calling)].leaves, coming |-> IF now = {} THEN 0 ELSE Len(upcoming),
            next |-> IF now = {} THEN {} ELSE {when(upcoming[1])}]
      ELSE IF now = {} THEN [said |-> "all", trips |-> ShownAll(calling, q.stop, q.back), more |-> 0]
      ELSE [said |-> "all", trips |-> ShownAll(listed, q.stop, q.back), more |-> Len(upcoming) - Len(listed)]

Departures(table, day, now, asked) ==
  LET q == [asked EXCEPT !.back = @ /\ asked.stop # {},
                         !.by = IF asked.stop = {} \/ asked.back THEN {} ELSE @]
      when(t) == When(t, q.stop, q.back)
      all == InOrder(Rides(table, day, q.stop, q.back), q.stop, q.back)
      calling == SelectSeq(all, LAMBDA t : \A a \in q.after : when(t) > a)
      upcoming == SelectSeq(calling, LAMBDA t : ~Left(when(t), now))
      last == when(all[Len(all)])
      edge(t) == when(t) = (IF q.which = "first" THEN when(calling[1]) ELSE when(calling[Len(calling)]))
  IN  IF all = <<>> THEN [said |-> "none", trips |-> <<>>,
                          served |-> UNION {ServedOn(table, k) : k \in q.stop}]
      ELSE IF \E b \in q.by, n \in now : b <= n THEN PassedToday(table, day, q)
      ELSE IF q.by # {} THEN ReachBy(upcoming, q.stop, CHOOSE b \in q.by : TRUE)
      ELSE IF calling = <<>>
      THEN IF Left(last, now) THEN NoneLeft(table, day, q.stop, q.back, last)
           ELSE [NoneLeft(table, day, q.stop, q.back, last) EXCEPT !.said = "none_after"]
      ELSE CASE q.which = "all" -> WholeDay(table, day, now, q, calling, upcoming, last)
             [] q.which \in {"first", "last"} ->
                  [said |-> q.which, trips |-> ShownAll(SelectSeq(calling, edge), q.stop, q.back),
                   left |-> \A i \in DOMAIN calling : edge(calling[i]) => Left(when(calling[i]), now)]
             [] OTHER -> IF upcoming = <<>> THEN NoneLeft(table, day, q.stop, q.back, last)
                         ELSE [said |-> "next", trips |-> ShownAll(FirstOf(upcoming, MaxListed), q.stop, q.back)]

\* The lookup: of the route named, else of every route; a stop the trips leave from, or
\* that no trip calls at, is answered with the departures from campus.
Shuttle(table, described, day, now, request) ==
  LET named == {r \in table : r.route \in request.route}
      read == IF named = {} THEN table ELSE named
      origins == {k \in described : k \notin StopsServed(read)}
      away == request.stop \subseteq StopsServed(read)
      asked == IF away THEN request ELSE [request EXCEPT !.stop = {}, !.back = FALSE]
      q == [which |-> asked.which, stop |-> asked.stop, after |-> asked.after, by |-> asked.by,
            times |-> asked.times, back |-> asked.back]
  IN  IF request.route # {} /\ named = {} THEN [of |-> "route_unknown", routes |-> {r.route : r \in table}]
      ELSE [of |-> IF away THEN "stop" ELSE IF request.stop \subseteq origins THEN "origin" ELSE "stop_unknown",
            answer |-> Departures(read, day, now, q),
            from |-> IF Cardinality(origins) = 1 /\ ~(away /\ request.back) THEN origins ELSE {},
            runsOn |-> {r.service : r \in named}]

-----------------------------------------------------------------------------
(***************************************************************************)
(* Properties.                                                             *)
(***************************************************************************)
\* What a trip must be to be offered for a question on a day.
Wanted(t, q, table, day) ==
  /\ t \in TripsOf(table, Service(day)) /\ q.stop \subseteq CallsAt(t)
  /\ q.back /\ q.stop # {} => t.back # NOTIME
Coming(table, day, now, q, at(_)) ==
  {t \in UNION {TripsOf(table, s) : s \in SERVICES} :
     Wanted(t, q, table, day) /\ (\A n \in now : at(t) > n) /\ \A a \in q.after : at(t) > a}

\* A student sent to a stop finds a shuttle there: every trip said is on the day's
\* timetable, calls at the stop, is still to come (or is said to have left), and a ride
\* back ends on campus.  "Next" leaves out none that goes earlier, "none" is said only when
\* nothing is left, and the day named instead is the first one with a trip.
ShuttleComes(x) ==
  LET a == Departures(x.table, x.day, x.now, x.q)
      back == x.q.back /\ x.q.stop # {}
      at(t) == IF back THEN Pickup(t, CHOOSE k \in x.q.stop : TRUE) ELSE t.leaves
      coming == Coming(x.table, x.day, x.now, x.q, at)
      listed == {a.trips[i].t : i \in DOMAIN a.trips}
      reached(t) == FirstCall(t, CHOOSE k \in x.q.stop : TRUE)
  IN  /\ \A t \in listed : Wanted(t, x.q, x.table, x.day)
      /\ a.said \in {"next", "all", "by"} =>
           /\ listed # {} /\ listed \subseteq coming
           /\ a.said # "by" => \A t \in coming \ listed, u \in listed : at(u) <= at(t)
      /\ a.said = "all" => Len(a.trips) + a.more = Cardinality(coming)
      /\ a.said = "by" => \A t \in listed : \A b \in x.q.by : reached(t) <= b
      /\ a.said = "none_by" => \A t \in coming : \A b \in x.q.by : reached(t) > b
      /\ a.said \in {"none_left", "none_after", "none"} => coming = {}
      /\ a.said = "by_passed" => \A n \in a.next :
           n.answer.said = "by" => \A i \in DOMAIN n.answer.trips : \A b \in x.q.by : reached(n.answer.trips[i].t) <= b
      /\ a.said = "counted" /\ x.now # {} => a.coming = Cardinality(coming) /\ a.coming > 0
      /\ a.said \in {"first", "last"} => (a.left <=> listed \cap coming = {})
      /\ a.said \in {"none_left", "none_after"} => \A n \in a.next :
           /\ n.date > x.day
           /\ \A d \in (x.day + 1)..(n.date - 1) : Coming(x.table, d, {}, [x.q EXCEPT !.after = {}], at) = {}
           /\ \A t \in Coming(x.table, n.date, {}, [x.q EXCEPT !.after = {}], at) : n.trips[1].at <= at(t)

\* The lookup answers for the stop asked, or says that it is not.
StopIsAsked(x) ==
  LET s == Shuttle(x.table, {"campus"}, x.day, x.now, x.q @@ [route |-> {}])
  IN  /\ s.of = "stop" => s.answer = Departures(x.table, x.day, x.now, x.q)
      /\ s.of = "origin" => x.q.stop = {"campus"}
      /\ s.of = "stop_unknown" => \A t \in UNION {TripsOf(x.table, v) : v \in SERVICES} : ~(x.q.stop \subseteq CallsAt(t))
ShuttleHonest(x) == ShuttleComes(x) /\ StopIsAsked(x)
=============================================================================
