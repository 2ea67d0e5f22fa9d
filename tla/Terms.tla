------------------------------- MODULE Terms -------------------------------
(***************************************************************************)
(* When a date of the academic calendar is (academic_calendar.py).         *)
(*                                                                         *)
(* A term is [name, season, year]; an entry is [id, at, last, kind, names, *)
(* terms]: its first and last day, its kind, the breaks or options its     *)
(* title names and the terms whose pages list it.  A question is           *)
(*   [kind, season, year, next, this, still, past, ahead, names]:          *)
(* the kind of date, the term it names ("" for none), "next semester",     *)
(* "this semester", "can I still", "when was", "the next", and the breaks  *)
(* or grading options it names.                                            *)
(***************************************************************************)
EXTENDS Integers, Sequences, FiniteSets, FiniteSetsExt

SEMESTERS == {"fall", "spring"}
BETWEEN == [winter |-> [before |-> "fall", after |-> "spring"],
            summer |-> [before |-> "spring", after |-> "fall"]]

-----------------------------------------------------------------------------
(***************************************************************************)
(* Terms.                                                                  *)
(***************************************************************************)
Of(term, dates) == {e \in dates : term.name \in e.terms}
Dated(terms, dates) == {t \in terms : Of(t, dates) # {}}

\* A term's first and last listed day.
FirstDay(t, dates) == Min({e.at : e \in Of(t, dates)})
LastDay(t, dates) == Max({e.at : e \in Of(t, dates)})

\* The first of some terms to start, as a set of at most one.
Earliest(terms, dates) == {t \in terms : \A u \in terms : FirstDay(t, dates) < FirstDay(u, dates) \/ t = u}
Latest(terms, dates) == {t \in terms : \A u \in terms : FirstDay(t, dates) > FirstDay(u, dates) \/ t = u}

\* The term in session, a semester before any other.
Current(terms, dates, today) ==
  LET on == {t \in Dated(terms, dates) : FirstDay(t, dates) <= today /\ today <= LastDay(t, dates)}
      semesters == {t \in on : t.season \in SEMESTERS}
  IN  Earliest(IF semesters # {} THEN semesters ELSE on, dates)

\* A slip: a season named is its first term on the calendar.
SeasonFirst(terms, dates, today, q) ==
  Earliest({t \in Dated(terms, dates) : t.season = q.season /\ q.year \in {0, t.year}}, dates)

\* A season named alone is its term in session or the next one.
SeasonNamed(terms, dates, today, q) ==
  Earliest({t \in Dated(terms, dates) : t.season = q.season /\
              IF q.year # 0 THEN t.year = q.year ELSE LastDay(t, dates) >= today}, dates)

\* The semester after the current one.
NextSemester(terms, dates, today) ==
  UNION {Earliest({t \in Dated(terms, dates) : t.season \in SEMESTERS /\ FirstDay(t, dates) > LastDay(c, dates)}, dates) :
         c \in Current(terms, dates, today)}

TermAsked(terms, dates, today, q) ==
  LET current == Current(terms, dates, today)
  IN  IF q.season # "" THEN SeasonNamed(terms, dates, today, q)
      ELSE IF q.next THEN NextSemester(terms, dates, today)
      ELSE IF current # {} THEN current
      ELSE Earliest({t \in Dated(terms, dates) : FirstDay(t, dates) >= today}, dates)

-----------------------------------------------------------------------------
(***************************************************************************)
(* Entries.                                                                *)
(***************************************************************************)
\* The term's entries of the kind asked; those that bear a name the question says, when it
\* says one that can tell them apart.
EntriesAsked(kind, names, term, dates) ==
  LET listed == {e \in Of(term, dates) : IF kind = "break" THEN e.kind \in {"break", "holiday"} ELSE e.kind = kind}
  IN  IF names = {} \/ kind \notin {"break", "grading_option"} THEN listed
      ELSE {e \in listed : e.names \cap names # {}}

\* The semesters around the next winter or summer break, and the dates that bound it.
BetweenTerms(season, terms, dates, today) ==
  LET dated == Dated(terms, dates)
      starting == Earliest({t \in dated : t.season = BETWEEN[season].after /\ FirstDay(t, dates) >= today}, dates)
      before(s) == Latest({t \in dated : t.season = BETWEEN[season].before /\ LastDay(t, dates) <= FirstDay(s, dates)}, dates)
      ends(t) == {e \in Of(t, dates) : e.kind = "classes_end"}
      begins(t) == {e \in Of(t, dates) : e.kind = "classes_begin"}
      bound(t, s) == [ending |-> t, starting |-> s,
                      ends |-> CHOOSE e \in ends(t) : \A f \in ends(t) : f.at <= e.at,
                      begins |-> CHOOSE e \in begins(s) : \A f \in begins(s) : e.at <= f.at]
      bounds == {bound(p[1], p[2]) : p \in {p \in (UNION {before(s) : s \in starting}) \X starting :
                                               ends(p[1]) # {} /\ begins(p[2]) # {}}}
  IN  {[ending |-> b.ending, starting |-> b.starting, first |-> b.ends, last |-> b.begins,
        entries |-> {b.ends, b.begins} \cup
          {e \in dates : e.kind = "classes_begin" /\ b.ends.at < e.at /\ e.at < b.begins.at}] : b \in bounds}

\* Every break the calendar dates, and those between the semesters.
BreakSpans(terms, dates, today) ==
  {[name |-> e.id, first |-> e.at, last |-> e.last] : e \in {e \in dates : e.kind \in {"break", "holiday"}}}
  \cup {s \in UNION {{[name |-> season, first |-> b.first.last + 1, last |-> b.last.at - 1] :
                       b \in BetweenTerms(season, terms, dates, today)} : season \in DOMAIN BETWEEN} :
          s.first <= s.last}

\* The next term that has one of that kind ahead, when the term asked has none left.
AheadOf(term, terms, dates, today, q) ==
  LET with == {t \in Dated(terms, dates) : FirstDay(t, dates) > FirstDay(term, dates) /\
                 \E e \in EntriesAsked(q.kind, q.names, t, dates) : e.last >= today}
      over == \A e \in EntriesAsked(q.kind, q.names, term, dates) : e.last < today
      anyTerm == q.season = "" /\ ~q.next /\ ~q.this /\ ~q.still /\ ~q.past
  IN  IF anyTerm /\ over /\ with # {} THEN Earliest(with, dates) ELSE {term}

\* What code says, {} when the model reads the pages: the dates, each passed or not, and
\* whether the break asked is said not to be listed.
DatesSaid(terms, dates, today, q) ==
  LET season == IF q.kind = "break" /\ Cardinality(q.names) = 1 THEN q.names ELSE {}
      unnamed == q.season = "" /\ ~q.next /\ ~q.this
      said(t, es, listed) == {[terms |-> t, listed |-> listed, entries |-> {[entry |-> e, passed |-> e.last < today] : e \in es}]}
      asked(t) == EntriesAsked(q.kind, q.names, t, dates)
      ahead(es) == {e \in es : e.last >= today}
      answer(t) ==
        LET es == IF q.ahead /\ ahead(asked(t)) # {} THEN ahead(asked(t)) ELSE asked(t)
        IN  IF es # {} THEN said({t}, es, TRUE)
            ELSE IF season = {} THEN {} ELSE said({t}, ahead(EntriesAsked("break", {}, t, dates)), FALSE)
  IN  IF season # {} /\ season \subseteq DOMAIN BETWEEN /\ unnamed
      THEN UNION {said({b.ending, b.starting}, b.entries, FALSE) :
                  b \in UNION {BetweenTerms(s, terms, dates, today) : s \in season}}
      ELSE UNION {answer(t) : t \in UNION {AheadOf(t, terms, dates, today, q) : t \in TermAsked(terms, dates, today, q)}}

-----------------------------------------------------------------------------
(***************************************************************************)
(* Properties.                                                             *)
(***************************************************************************)
\* A student who asks when a date is, and does not name a term or the past, is not told of
\* dates that are over while a later term lists one to come; a date said is of the kind
\* asked and of the term it is said of, and marked as passed exactly when it is.
DateToCome(x) ==
  \A a \in DatesSaid(x.terms, x.dates, x.today, x.q) :
    /\ \A e \in a.entries : e.passed <=> e.entry.last < x.today
    /\ a.listed => \A e \in a.entries, t \in a.terms : t.name \in e.entry.terms
    /\ x.q.kind = "break" \/ \A e \in a.entries : e.entry.kind = x.q.kind
    /\ x.q.season # "" /\ x.q.year = 0 /\ x.q.kind # "break" =>
         \A t \in a.terms : t.season = x.q.season /\ \E e \in Of(t, x.dates) : e.at >= x.today
    /\ a.listed /\ x.q.season = "" /\ ~x.q.next /\ ~x.q.this /\ ~x.q.still /\ ~x.q.past
         /\ (\A e \in a.entries : e.passed) =>
         \A t \in a.terms, u \in Dated(x.terms, x.dates) : FirstDay(u, x.dates) > FirstDay(t, x.dates) =>
           \A e \in EntriesAsked(x.q.kind, x.q.names, u, x.dates) : e.last < x.today

\* No class of either semester meets within the break between them.
BreaksAreFree(x) ==
  \A s \in DOMAIN BETWEEN : \A b \in BetweenTerms(s, x.terms, x.dates, x.today) :
    /\ b.first.at <= LastDay(b.ending, x.dates) /\ FirstDay(b.starting, x.dates) >= x.today
    /\ b.ending.season # b.starting.season
    /\ \A e \in Of(b.ending, x.dates) : e.kind = "classes_end" => e.at <= b.first.at
    /\ b.first.at < b.last.at => \A e \in b.entries : b.first.at <= e.at /\ e.at <= b.last.at
DatesHonest(x) == DateToCome(x) /\ BreaksAreFree(x)
=============================================================================
