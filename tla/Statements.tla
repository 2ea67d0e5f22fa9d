------------------------------ MODULE Statements ------------------------------
(***************************************************************************)
(* How the published statements of an office become its answers: its       *)
(* schedules, a dining venue's hours with their dated exceptions, and the  *)
(* sections of its pages that speak to what a student wants to do (the     *)
(* second part of retrieval/entity_facts.py).                              *)
(*                                                                         *)
(* One statement of opening hours is captured as a record for each of its  *)
(* days: same page, time, sentence and metadata.  Here those are one       *)
(* number, the record's `statement`.  Hours are a text, "" for none.  Days *)
(* and dates are numbers, 0 for no date.  What is refused is {}.           *)
(***************************************************************************)
EXTENDS Evidence

Window(row) == [since |-> row.since, until |-> row.until]

-----------------------------------------------------------------------------
(***************************************************************************)
(* Schedules.                                                              *)
(***************************************************************************)
\* A reviewed omission may not contradict what is published beside it.
SoundAbsence(row) ==
  /\ row.day \in row.omits => row.hours = ""
  /\ row.omits # {} => row.checked # 0

\* A slip: each day's rows in the order of their (random) row ids.
ByDayId(bucket, day) ==
  SetToSortSeq({r \in bucket : r.day = day}, LAMBDA r, s : r.id < s.id)

\* The rows of each day of a bucket in one order: by statement, then by row.
ByDay(bucket, day) ==
  LET rows == {r \in bucket : r.day = day}
      upTo(r) == {s \in rows : s.statement < r.statement \/ (s.statement = r.statement /\ s.id <= r.id)}
  IN  [n \in 1..Cardinality(rows) |-> CHOOSE r \in rows : Cardinality(upTo(r)) = n]

\* Reading n takes the n-th row of each day, a day with fewer rows its last.
ReadingsOf(bucket) ==
  LET days == {r.day : r \in bucket}
      rows == [d \in days |-> ByDay(bucket, d)]
      longest == Max({Len(rows[d]) : d \in days})
  IN  {[d \in days |-> rows[d][Min({n, Len(rows[d])})]] : n \in 1..longest}

\* A reading as a value: the days and hours of one named schedule, and its sentences.
ScheduleValue(picked) ==
  LET any == picked[CHOOSE d \in DOMAIN picked : TRUE]
  IN  [schedule |-> any.name, season |-> any.season,
       hours |-> [d \in DOMAIN picked |-> picked[d].hours],
       notes |-> {picked[d].note : d \in DOMAIN picked} \ {0}]

HasHours(picked) == \E d \in DOMAIN picked : picked[d].hours # ""

\* A day with no hours is not published only with a reviewed omission naming it, and
\* only in a reading that has hours; otherwise nothing is known of it.
Omitted(picked) ==
  {d \in DOMAIN picked : HasHours(picked) /\ picked[d].hours = "" /\ d \in picked[d].omits}

UnknownDays(picked) == {d \in DOMAIN picked : picked[d].hours = ""} \ Omitted(picked)

\* What a reading leaves open, and whether the publisher found a conflict.
Issue(picked) ==
  LET problems == {picked[d].problem : d \in DOMAIN picked} \ {"none"}
      value == ScheduleValue(picked)
  IN  IF UnknownDays(picked) = {} /\ problems = {} THEN {}
      ELSE {[schedule |-> value.schedule, season |-> value.season, days |-> UnknownDays(picked),
             status |-> IF "conflicting" \in problems THEN "conflicting" ELSE "unknown"]}

\* The hours property: one value for each content, with the windows and statements it
\* was read in.
ScheduleProperty(rows) ==
  LET key(r) == <<r.name, r.season, r.since, r.until>>
      buckets == {{r \in rows : key(r) = k} : k \in {key(r) : r \in rows}}
      readings == UNION {ReadingsOf(b) : b \in buckets}
      stated == {p \in readings : HasHours(p)}
      values == {ScheduleValue(p) : p \in stated}
      of(v) == {Window(p[CHOOSE d \in DOMAIN p : TRUE]) : p \in {q \in stated : ScheduleValue(q) = v}}
      same(v) == {w \in values : w.schedule = v.schedule /\ w.season = v.season}
      separate(v) == \A w, x \in same(v) : w # x => \A a \in of(w), b \in of(x) : Disjoint(a, b)
      issues == UNION {Issue(p) : p \in readings}
      doubted == \E i \in issues : i.status = "conflicting" /\ \E v \in values :
                    v.schedule = i.schedule /\ v.season = i.season
  IN  IF \E r \in rows : ~SoundAbsence(r) \/ (r.since # 0 /\ r.until # 0 /\ r.since > r.until)
      THEN {}
      ELSE {[values |-> values, windows |-> [v \in values |-> of(v)], issues |-> issues,
             absent |-> [v \in values |-> UNION {Omitted(p) : p \in {q \in stated : ScheduleValue(q) = v}}],
             status |-> CASE values = {} -> "unknown"
                          [] values # {} /\ (doubted \/ \E v \in values : ~separate(v)) -> "conflicting"
                          [] OTHER -> IF \E v \in values : Cardinality(same(v)) > 1
                                      THEN "multiple" ELSE "known"]}

\* A dining venue: exceptions that are over are left out, and readings of different
\* windows stand side by side.
DiningProperty(rows, today) ==
  LET \* the window of the first source of a value, whichever others it was read in
      first(windows) == CHOOSE w \in windows : \A x \in windows :
                          w.since < x.since \/ (w.since = x.since /\ w.until <= x.until)
      of(p) == {[value |-> v, window |-> first(p.windows[v])] : v \in p.values}
      clash(p) == \/ \E a, b \in of(p) : a # b /\ a.window = b.window
                  \/ \E i \in p.issues : i.status = "conflicting"
  IN  {IF Cardinality(p.values) > 1 /\ p.status \in {"conflicting", "multiple"}
       THEN [p EXCEPT !.status = IF clash(p) THEN "conflicting" ELSE "multiple"] ELSE p :
       p \in ScheduleProperty({r \in rows : r.until = 0 \/ r.until >= today})}

-----------------------------------------------------------------------------
(***************************************************************************)
(* Procedures: a page offers its listed how-to entries and its sections.   *)
(***************************************************************************)
MAX_PROCEDURES == 3       \* bound: 16 in the code
MeaningPastTerm == 10     \* MEANING_PAST_TERM and MEANING_OLD_PAGE in hundredths
MeaningOldPage == 5

\* 100 log(1 + all / with): a word few of the office's sections have weighs more.
WordWeight(all, with) ==
  LET ratio == (10 * all) \div with
  IN  IF ratio <= 10 THEN 69 ELSE IF ratio <= 15 THEN 92 ELSE IF ratio <= 20 THEN 110
      ELSE IF ratio <= 30 THEN 139 ELSE 161

\* The terms a section's text names have all ended, or those its page's address names, or
\* the deadlines it gives; or every year its heading names is two years past.
Over(unit, today, year) ==
  \/ \E ends \in {unit.names.text, unit.names.address, unit.names.deadlines} :
       ends # {} /\ \A end \in ends : end < today
  \/ unit.names.heading # {} /\ \A y \in unit.names.heading : y <= year - 2

OLD_PAGE_YEARS == 3
OldPage(unit, year) == unit.updated # 0 /\ unit.updated <= year - OLD_PAGE_YEARS

\* How well a unit speaks to the words asked; 0 when it does not.
WordScore(unit, units, wanted, today, year) ==
  LET with(w) == Cardinality({u \in units : w \in u.top \cup u.body})
      weight(w) == WordWeight(Cardinality(units), with(w))
      sum(words) == FoldSet(LAMBDA w, total : total + weight(w), 0, words)
      score == 3 * sum(wanted \cap unit.top) + sum(wanted \cap unit.body)
      past == IF Over(unit, today, year) THEN score \div 2 ELSE score
  IN  IF wanted \cap unit.top = {} /\ Cardinality(wanted \cap unit.body) < 2 THEN 0
      ELSE IF OldPage(unit, year) THEN (3 * past) \div 4 ELSE past

\* By meaning, when the question was embedded; a unit without a similarity is none.
MeaningScore(unit, today, year) ==
  IF unit.similar = 0 THEN 0
  ELSE unit.similar - (IF Over(unit, today, year) THEN MeaningPastTerm ELSE 0)
                    - (IF OldPage(unit, year) THEN MeaningOldPage ELSE 0)

\* A slip: a section must only match as well as some entry of its page.
BesideEntriesAny(unit, scored, score) ==
  unit.entry \/ \E e \in scored : ~e.entry \/ e.page # unit.page \/ score[unit] >= score[e]

\* A section is kept beside its page's entries only when it matches better than each.
BesideEntries(unit, scored, score) ==
  unit.entry \/ \A e \in scored : e.entry /\ e.page = unit.page => score[unit] > score[e]

\* The units offered, best first: a tie goes to the earlier page and unit.
ProceduresProperty(units, wanted, meaning, today, year) ==
  LET score == [u \in units |-> IF meaning THEN MeaningScore(u, today, year)
                                ELSE WordScore(u, units, wanted, today, year)]
      scored == {u \in units : score[u] # 0}
      kept == {u \in scored : BesideEntries(u, scored, score)}
      before(u, v) == \/ score[u] > score[v]
                      \/ score[u] = score[v] /\ (u.page < v.page \/ (u.page = v.page /\ u.index < v.index))
      ranked == SetToSortSeq(kept, before)
      near == SelectSeq(ranked, LAMBDA u : meaning \/ 4 * score[u] >= score[ranked[1]])
  IN  IF wanted = {} \/ scored = {} THEN [offered |-> <<>>, score |-> score]
      ELSE [offered |-> SubSeq(near, 1, Min({MAX_PROCEDURES, Len(near)})), score |-> score]

-----------------------------------------------------------------------------
\* A venue's own listing names no menu page: every listing read must say so, be readable
\* and not be dated later than now.
MenuListingAbsence(rows, now) ==
  IF rows = {} \/ \E r \in rows : r.dated # "no" \/ r.seen = 0 \/ ~r.cited \/ r.seen > now THEN {}
  ELSE {[checked |-> Min({r.seen : r \in rows}),
         current |-> \A r \in rows : r.sla > 0 /\ now <= r.seen + r.sla]}

-----------------------------------------------------------------------------
(***************************************************************************)
(* Properties.                                                             *)
(***************************************************************************)
\* Statements that each give the same days.
Complete(bucket) ==
  \A d \in {r.day : r \in bucket} : \A n \in {r.statement : r \in bucket} :
    Cardinality({r \in bucket : r.day = d /\ r.statement = n}) = 1

\* "Reading N is that statement's own week and never a mix of two statements' days", and
\* no statement's week is lost.
OwnWeeks(rows, p) ==
  \A k \in {<<r.name, r.season, Window(r)>> : r \in rows} :
    LET bucket == {r \in rows : <<r.name, r.season, Window(r)>> = k}
        week(n) == [d \in {r.day : r \in bucket} |->
                      (CHOOSE r \in bucket : r.day = d /\ r.statement = n).hours]
        weeks == {week(n) : n \in {r.statement : r \in bucket}}
        said == {v.hours : v \in {w \in p.values : w.schedule = k[1] /\ w.season = k[2] /\
                                                    k[3] \in p.windows[w]}}
    IN  Complete(bucket) =>
          said = {w \in weeks : \E d \in DOMAIN w : w[d] # ""}

\* Two records that give one schedule different hours for one day, in windows that may
\* overlap, are never said without saying that they conflict.
ClashIsSaid(rows, p) ==
  (\E r, s \in rows : /\ r.name = s.name /\ r.season = s.season /\ r.day = s.day
                      /\ r.hours # s.hours /\ r.hours # "" /\ s.hours # ""
                      /\ ~Disjoint(r, s)) => p.status = "conflicting"

\* A day is said to be left out by the publisher only when a record of it says so and
\* none of the same window gives it hours under the same sentence.
OmittedIsProven(rows, p) ==
  \A v \in p.values : \A d \in p.absent[v] :
    v.hours[d] = "" /\ \E r \in rows : r.day = d /\ d \in r.omits /\ r.hours = ""

\* A venue's dated exception never conflicts with its weekly row, but two readings of one
\* window still do (while each is read in that window alone: the code looks at the
\* window of a value's first source).
ExceptionsStand(rows, p) ==
  LET windows == {Window(r) : r \in rows}
  IN  /\ Cardinality(windows) = Cardinality(rows) /\ (\A r \in rows : r.problem = "none") =>
           p.status # "conflicting"
      /\ (\E r, s \in rows : r.name = s.name /\ r.season = s.season /\ Window(r) = Window(s)
             /\ r.day = s.day /\ r.hours # s.hours /\ "" \notin {r.hours, s.hours})
         /\ (\A v \in p.values : Cardinality(p.windows[v]) = 1) =>
           p.status = "conflicting"

ScheduleStated(x) ==
  /\ \A p \in ScheduleProperty(x.rows) :
       OwnWeeks(x.rows, p) /\ ClashIsSaid(x.rows, p) /\ OmittedIsProven(x.rows, p)
  /\ LET current == {r \in x.rows : r.until = 0 \/ r.until >= x.today}
     IN  \A p \in DiningProperty(x.rows, x.today) : ExceptionsStand(current, p)

\* The unit that matches best is offered or matched by one that is; a unit about a time
\* that is over is never offered before its equal of today; and a section that one of its
\* page's entries matches as well is left to the entry.
ProcedureOffered(x) ==
  LET found == ProceduresProperty(x.units, x.wanted, x.meaning, x.today, x.year)
      offered == ToSet(found.offered)
      at(u) == CHOOSE i \in DOMAIN found.offered : found.offered[i] = u
      alike(u, v) == u.top = v.top /\ u.body = v.body /\ u.similar = v.similar
                     /\ u.updated = v.updated /\ u.entry = v.entry
  IN  /\ \A u \in x.units : x.wanted # {} /\ found.score[u] > 0 =>
           \E v \in offered : found.score[v] >= found.score[u]
      /\ \A u, v \in offered : alike(u, v) /\ Over(u, x.today, x.year) /\ ~Over(v, x.today, x.year) => at(v) < at(u)
      /\ \A u \in offered, e \in x.units :
           ~u.entry /\ e.entry /\ e.page = u.page => found.score[e] < found.score[u]

StatementsKept(x) == IF x.of = "schedule" THEN ScheduleStated(x) ELSE ProcedureOffered(x)
=============================================================================
