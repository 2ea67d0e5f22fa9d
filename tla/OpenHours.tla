------------------------------ MODULE OpenHours ------------------------------
(***************************************************************************)
(* What a schedule says of one day, and of one moment of it (hours_on.py,  *)
(* dining.py, season.py and the readings of fact_packet.py).               *)
(*                                                                         *)
(* A day has MIDNIGHT ticks.  Hours are a line of text:                    *)
(*   [text |-> "closed", "seasonal" (a seasonal closure), "all_day",       *)
(*             "ranges" (plain ranges), "meals" (labelled ones), "words"   *)
(*             (anything else) or "null",                                  *)
(*    spans |-> a sequence of [label, start, end]], an end of 0 being      *)
(* 12:00 AM.  What cannot be read is {}; what can is a set of one.         *)
(***************************************************************************)
EXTENDS Integers, Sequences, FiniteSets, SequencesExt, FiniteSetsExt

MIDNIGHT == 24
NOHOURS == [text |-> "null", spans |-> <<>>]
NOTIME == 0

TheOne(S) == CHOOSE x \in S : TRUE

\* Dates are days, counted; a week has seven and a month of this calendar 31.
Weekday(day) == day % 7
Month(day) == 1 + ((day \div 31) % 12)
YEAR == 1

-----------------------------------------------------------------------------
(***************************************************************************)
(* Periods.                                                                *)
(***************************************************************************)
\* The ranges of a line, 12:00 AM as a close being midnight; one that does not end
\* after it starts leaves the whole line unread.
Spans(h) ==
  LET end(e) == IF e = 0 THEN MIDNIGHT ELSE e
  IN  IF \E i \in DOMAIN h.spans : end(h.spans[i].end) <= h.spans[i].start THEN {}
      ELSE {[i \in DOMAIN h.spans |-> [h.spans[i] EXCEPT !.end = end(@)]]}

\* dining.parse: a venue's line, wholly periods, or unread.
Parse(h) ==
  CASE h.text \in {"closed", "seasonal"} -> {<<>>}
    [] h.text = "meals" \/ (h.text = "ranges" /\ Len(h.spans) = 1) -> Spans(h)
    [] OTHER -> {}

\* The periods an office's or a venue's hours name.
Periods(h) ==
  CASE h.text = "all_day" -> {<<[label |-> "", start |-> 0, end |-> MIDNIGHT]>>}
    [] h.text = "ranges" -> Spans(h)
    [] OTHER -> Parse(h)

\* A slip: a period is still open at its closing minute.
InClosed(p, minute) == p.start <= minute /\ minute <= p.end

In(p, minute) == p.start <= minute /\ minute < p.end

Ordered(ps) == SortSeq(ps, LAMBDA p, q : p.start < q.start)

\* The close of the stretch of service that `end` is in: periods that meet are one.
Stretch(ps, end) ==
  FoldLeft(LAMBDA e, p : IF p.start = e /\ p.end > e THEN p.end ELSE e, end, Ordered(ps))

Starts(ps, minute) == {ps[i].start : i \in {i \in DOMAIN ps : ps[i].start > minute}}
NextStart(ps, minute) == IF Starts(ps, minute) = {} THEN NOTIME ELSE Min(Starts(ps, minute))
LastEnd(ps) == IF ps = <<>> THEN NOTIME ELSE Max({ps[i].end : i \in DOMAIN ps})

State(open) == IF open THEN "open" ELSE "closed"
Moment(state, closes, next, last) == [state |-> state, closes |-> closes, next |-> next, last |-> last]

\* Open or closed at one minute, when the line is plain enough to say so.
OpenNow(h, clock) ==
  LET ps == TheOne(Periods(h))
      here == {i \in DOMAIN ps : In(ps[i], clock)}
      end == Stretch(ps, ps[Min(here)].end)
  IN  IF h.text \in {"closed", "all_day"} THEN {Moment(State(h.text = "all_day"), NOTIME, NOTIME, NOTIME)}
      ELSE IF h.text = "seasonal" \/ Periods(h) = {} THEN {}
      ELSE IF h.text = "ranges" THEN {Moment(State(here # {}), NOTIME, NOTIME, NOTIME)}
      ELSE {IF here = {} THEN Moment("closed", NOTIME, NextStart(ps, clock), NOTIME)
            ELSE Moment("open", end, NextStart(ps, end),
                        IF Starts(ps, end) = {} THEN NOTIME ELSE LastEnd(ps))}

\* What a day's hours say of the time a student asks about: from then on, or then.
OpenAt(h, minute, relation) ==
  LET ps == TheOne(Periods(h))
      later == {i \in DOMAIN ps : ps[i].end > minute}
      here == {i \in DOMAIN ps : In(Ordered(ps)[i], minute)}
  IN  IF Periods(h) = {} \/ relation \notin {"after", "at"} THEN {}
      ELSE IF \E i \in DOMAIN ps : ps[i].start = 0 /\ ps[i].end = MIDNIGHT
      THEN {Moment("open", MIDNIGHT, NOTIME, NOTIME)}
      ELSE IF relation = "after"
      THEN {Moment(State(later # {}), NOTIME, NOTIME, IF later = {} THEN LastEnd(ps) ELSE NOTIME)}
      ELSE IF here # {} THEN {Moment("open", Stretch(ps, Ordered(ps)[Min(here)].end), NOTIME, NOTIME)}
      ELSE {Moment("closed", NOTIME, NextStart(ps, minute), NOTIME)}

\* Where a day's service stops and starts again.
Gaps(ps) ==
  LET o == Ordered(ps)
  IN  {[from |-> o[i].end, to |-> o[i + 1].start] :
       i \in {i \in 1..(Len(o) - 1) : o[i + 1].start > o[i].end}}

-----------------------------------------------------------------------------
(***************************************************************************)
(* One day of a schedule.  A window end of 0 is not published.             *)
(***************************************************************************)
Covers(s, day) == (s.from = 0 \/ s.from <= day) /\ (s.until = 0 \/ day <= s.until)

\* The widest published window.
Window(sources) ==
  LET starts == {s.from : s \in sources} \ {0}
      ends == {s.until : s \in sources} \ {0}
  IN  <<IF starts = {} THEN 0 ELSE Min(starts), IF ends = {} THEN 0 ELSE Max(ends)>>

\* A seasonal schedule with no complete published interval over the day is listed, and
\* not known to apply; a day outside the window has no hours at all.
HoursOn(value, sources, day) ==
  LET covered == \E s \in sources : Covers(s, day)
      whole == \E s \in sources : s.from # 0 /\ s.until # 0 /\ Covers(s, day)
      unverified == covered /\ value.season # <<>> /\ ~whole
      listed == IF Weekday(day) \in DOMAIN value.days THEN value.days[Weekday(day)].hours ELSE NOHOURS
      absent == IF covered /\ Weekday(day) \in DOMAIN value.days
                THEN value.days[Weekday(day)].absence ELSE "none"
  IN  [schedule |-> value.schedule, season |-> value.season, day |-> day,
       applies |-> covered /\ ~unverified, unverified |-> unverified,
       hours |-> IF covered /\ ~unverified THEN listed ELSE NOHOURS,
       window |-> IF covered THEN <<0, 0>> ELSE Window(sources),
       listed |-> IF unverified THEN listed ELSE NOHOURS, absence |-> absent]

\* A season label's words in order, each with the year it is (0: none): "out" only when
\* every season it names is plainly another than the day's, by the label's first year.
SeasonFit(label, day) ==
  LET in == [summer |-> {6, 7}, fall |-> {9, 10, 11}, spring |-> {2, 3, 4}, winter |-> {}]
      near == [summer |-> {5, 8}, fall |-> {8, 12}, spring |-> {1, 5}, winter |-> {12, 1, 2}]
      words == {w.word : w \in ToSet(label)}
      seasons == words \cap DOMAIN in
      named == IF seasons = {} /\ "year" \in words THEN {"fall", "spring"} ELSE seasons
      years == SelectSeq(label, LAMBDA w : w.year # 0)
  IN  IF named = {} THEN "unknown"
      ELSE IF years # <<>> /\ years[1].year # YEAR /\ "winter" \notin named THEN "out"
      ELSE IF \E s \in named : Month(day) \in in[s] THEN "in"
      ELSE IF \E s \in named : Month(day) \in near[s] THEN "unknown" ELSE "out"

-----------------------------------------------------------------------------
(***************************************************************************)
(* What a reader of a clock is promised.                                   *)
(***************************************************************************)
Apart(ps) == \A i, j \in DOMAIN ps : i # j => ps[i].end <= ps[j].start \/ ps[j].end <= ps[i].start

\* Open now, open at that minute and open from then on never disagree, over every minute
\* of the day: what is said to close is open till then and, its periods apart, closed
\* then; what is said to open next is closed till then and open then; and a day that is
\* over stays over (fact_packet.open_now, open_at).
ClockAgrees(x) ==
  LET now(m) == OpenNow(x.hours, m)
      at(m) == OpenAt(x.hours, m, "at")
      on(m) == OpenAt(x.hours, m, "after")
      minutes == 0..(MIDNIGHT - 1)
      open(m) == \E p \in at(m) : p.state = "open"
  IN  \A m \in minutes :
        /\ \A p \in now(m), q \in at(m) : p.state = q.state
        /\ \A p \in now(m) \cup at(m) :
             /\ p.closes # NOTIME =>
                  /\ \A k \in m..(p.closes - 1) : open(k)
                  /\ p.closes < MIDNIGHT /\ Apart(TheOne(Periods(x.hours))) => ~open(p.closes)
             /\ p.state = "closed" /\ p.next # NOTIME => open(p.next) /\ \A k \in m..(p.next - 1) : ~open(k)
        /\ \A q \in on(m) : q.state = "closed" <=> \A k \in minutes : k >= m => ~open(k)
        /\ \A p \in Periods(x.hours) : \A g \in Gaps(p) :
             Apart(p) /\ g.from <= m /\ m < g.to => ~open(m)
=============================================================================
