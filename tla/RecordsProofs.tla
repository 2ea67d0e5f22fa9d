---------------------------- MODULE RecordsProofs ----------------------------
(***************************************************************************)
(* What is stated of the published rows, for any rows: a field of an       *)
(* office and the rows an entity owns (Evidence), a dining menu and a      *)
(* posted board (Menus), the schedules of an office (Statements), what an  *)
(* office's answer says is missing (Registry).                             *)
(*                                                                         *)
(* The operators of Evidence walk a sequence of rows, as the code does.    *)
(* The first lemmas say that all but the order of a field's values comes   *)
(* from the set of rows; the rest of the argument is about that set.  A    *)
(* registry is accepted by the pins of all its links joined, so the rows   *)
(* an entity owns need what the joining of sequences does: by a least      *)
(* position at which it would not.                                         *)
(***************************************************************************)
EXTENDS Registry, FiniteSetTheorems, WellFoundedInduction, TLAPS

\* A set of natural numbers that is not empty has a least one.
LEMMA LeastNumber ==
  ASSUME NEW T \in SUBSET Nat, T # {}
  PROVE  \E x \in T : \A y \in T : x <= y
<1> DEFINE R == OpToRel(<, Nat)
<1>1. IsWellFoundedOn(R, Nat)
  BY NatLessThanWellFounded
<1>2. \A x, y \in Nat : <<y, x>> \in R <=> y < x
  BY DEF OpToRel
<1> HIDE DEF R
<1>3. PICK x \in T : \A y \in T : ~ (<<y, x>> \in R)
  BY <1>1, WFMin
<1>4. ASSUME NEW y \in T
      PROVE  x <= y
  <2>1. x \in Nat /\ y \in Nat
    OBVIOUS
  <2>2. ~ (y < x)
    BY <1>2, <1>3, <2>1
  <2> QED
    BY <2>1, <2>2
<1> QED
  BY <1>4

-----------------------------------------------------------------------------
(***************************************************************************)
(* A field of an office comes from the set of its rows.                     *)
(***************************************************************************)
Texts == DOMAIN Spelt

\* A contact row as the database gives it: dates are numbers of their days.
Row(Ids, Keys, Fields) ==
  [id : Ids, key : Keys, since : Nat, until : Nat, seen : Nat, sla : Int,
   raw : [Fields -> Texts], conflicts : [Fields -> Seq(Texts)],
   claim : [Fields -> Seq(Nat)], doubted : SUBSET Fields,
   observed : [captured : Nat, fields : SUBSET Fields, pages : SUBSET Nat,
               raw : [Fields -> Texts]]]

\* The operators of OfficeField, of a set of rows.
Sources(R, now) ==
  UNION {Source(r, now, Day(now)) \cup The(ObservationSources(r, now)) : r \in R}

SourceOf(sources, field, row, index) ==
  LET derived == {s \in sources : s.of = row.id /\ s.field = field}
  IN  IF index = 0 /\ derived # {} THEN The(derived)
      ELSE The({s \in sources : s.of = row.id /\ s.field = ""})

Said(R, field, sources) ==
  UNION {{[value |-> p.value, source |-> SourceOf(sources, field, r, p.index)] :
            p \in {q \in ToSet(Projections(r, field)) : q.value # ""}} : r \in R}

Claiming(R, field, now) ==
  {r \in R : r.raw[field] = "" /\ field \notin r.doubted /\ GoodClaim(r.claim[field], now)}

Recent(r, field, now) == r.sla > 0 /\ \A t \in ToSet(r.claim[field]) : now - t <= r.sla

Checks(C, field) == UNION {ToSet(r.claim[field]) : r \in C}

AbsenceOf(R, field, now) ==
  LET C == Claiming(R, field, now)
  IN  IF C = {} THEN {}
      ELSE {[rows |-> {r.id : r \in C}, checked |-> Min(Checks(C, field)),
             current |-> \A r \in C : Recent(r, field, now)]}

Meaning(said, confirmed, offered) ==
  LET values == {a.value : a \in said}
      of(v) == {a.source : a \in {b \in said : b.value = v}}
      absence == IF values = {} THEN confirmed ELSE {}
      separate == \A v, w \in values : v # w => \A s \in of(v), t \in of(w) : Disjoint(s, t)
  IN  [values |-> values,
       sources |-> [v \in values |-> of(v)],
       offered |-> offered,
       absence |-> absence,
       status |-> CASE absence # {} -> "not_published"
                    [] absence = {} /\ values = {} -> "unknown"
                    [] Cardinality(values) = 1 -> "known"
                    [] OTHER -> IF separate THEN "multiple" ELSE "conflicting"]

PropertyOf(R, field, sources, now, offered) ==
  Meaning(Said(R, field, sources), AbsenceOf(R, field, now), offered)

\* A row that refuses the whole field: its dates contradict one another, or its later look
\* is not bound to it.
Refused(r, now) == Source(r, now, Day(now)) = {} \/ ObservationSources(r, now) = {}


\* A confirmed absence depends on the rows only.
LEMMA AbsenceIsOfRows ==
  ASSUME NEW rows, NEW field, NEW now
  PROVE  ConfirmedAbsence(rows, field, now) = AbsenceOf(ToSet(rows), field, now)
<1> DEFINE I == {i \in DOMAIN rows : /\ rows[i].raw[field] = ""
                                     /\ field \notin rows[i].doubted
                                     /\ GoodClaim(rows[i].claim[field], now)}
           C == Claiming(ToSet(rows), field, now)
<1>1. C = {rows[i] : i \in I}
  BY DEF Claiming, ToSet
<1>2. (I = {}) <=> (C = {})
  BY <1>1
<1>3. {rows[i].id : i \in I} = {r.id : r \in C}
  BY <1>1
<1>4. UNION {ToSet(rows[i].claim[field]) : i \in I} = Checks(C, field)
  BY <1>1 DEF Checks
<1>5. (\A i \in I : rows[i].sla > 0 /\ \A t \in ToSet(rows[i].claim[field]) : now - t <= rows[i].sla)
        = (\A r \in C : Recent(r, field, now))
  BY <1>1 DEF Recent
<1> HIDE DEF C
<1>6. ConfirmedAbsence(rows, field, now) =
        IF I = {} THEN {}
        ELSE {[rows |-> {rows[i].id : i \in I},
               checked |-> Min(UNION {ToSet(rows[i].claim[field]) : i \in I}),
               current |-> \A i \in I : rows[i].sla > 0 /\ \A t \in ToSet(rows[i].claim[field]) : now - t <= rows[i].sla]}
  BY Zenon DEF ConfirmedAbsence
<1> HIDE DEF I
<1>7. ConfirmedAbsence(rows, field, now) =
        IF C = {} THEN {}
        ELSE {[rows |-> {r.id : r \in C}, checked |-> Min(Checks(C, field)),
               current |-> \A r \in C : Recent(r, field, now)]}
  BY <1>2, <1>3, <1>4, <1>5, <1>6, Zenon
<1> QED
  BY <1>7, Zenon DEF AbsenceOf, C

\* So does what a field is said to be.
LEMMA PropertyIsOfRows ==
  ASSUME NEW rows, NEW field, NEW sources, NEW now
  PROVE  CanonicalProperty(rows, field, sources, now) =
           PropertyOf(ToSet(rows), field, sources, now, Offered(rows, field))
<1> DEFINE told == UNION {{[value |-> p.value, source |-> SourceOf(sources, field, rows[i], p.index)] :
                             p \in {q \in ToSet(Projections(rows[i], field)) : q.value # ""}} : i \in DOMAIN rows}
<1>1. told = Said(ToSet(rows), field, sources)
  <2> DEFINE F(r) == {[value |-> p.value, source |-> SourceOf(sources, field, r, p.index)] :
                             p \in {q \in ToSet(Projections(r, field)) : q.value # ""}}
  <2>1. told = UNION {F(rows[i]) : i \in DOMAIN rows}
    OBVIOUS
  <2>2. Said(ToSet(rows), field, sources) = UNION {F(r) : r \in ToSet(rows)}
    BY DEF Said
  <2> HIDE DEF F
  <2>3. {F(rows[i]) : i \in DOMAIN rows} = {F(r) : r \in ToSet(rows)}
    BY DEF ToSet
  <2> QED
    BY <2>1, <2>2, <2>3, Zenon
<1>2. CanonicalProperty(rows, field, sources, now) = 
        Meaning(told, ConfirmedAbsence(rows, field, now), Offered(rows, field))
  BY Zenon DEF CanonicalProperty, SourceOf, Meaning
<1> HIDE DEF told
<1>3. ConfirmedAbsence(rows, field, now) = AbsenceOf(ToSet(rows), field, now)
  BY AbsenceIsOfRows, Zenon
<1> QED
  BY <1>1, <1>2, <1>3, Zenon DEF PropertyOf

\* And so does the field, with the sources it is stated from.
LEMMA FieldIsOfRows ==
  ASSUME NEW rows, NEW field, NEW now
  PROVE  OfficeField(rows, field, now) =
           IF (\E r \in ToSet(rows) : Refused(r, now)) \/ ~IdsApart(rows) THEN {}
           ELSE {PropertyOf(ToSet(rows), field, Sources(ToSet(rows), now), now, Offered(rows, field))}
<1> DEFINE own == [i \in DOMAIN rows |-> Source(rows[i], now, Day(now))]
           again == [i \in DOMAIN rows |-> ObservationSources(rows[i], now)]
           S == UNION {own[i] \cup The(again[i]) : i \in DOMAIN rows}
<1>1. S = Sources(ToSet(rows), now)
  <2> DEFINE F(r) == Source(r, now, Day(now)) \cup The(ObservationSources(r, now))
  <2>1. {own[i] \cup The(again[i]) : i \in DOMAIN rows} = {F(rows[i]) : i \in DOMAIN rows}
    OBVIOUS
  <2>2. Sources(ToSet(rows), now) = UNION {F(r) : r \in ToSet(rows)}
    BY DEF Sources
  <2> HIDE DEF F
  <2>3. {F(rows[i]) : i \in DOMAIN rows} = {F(r) : r \in ToSet(rows)}
    BY DEF ToSet
  <2> QED
    BY <2>1, <2>2, <2>3, Zenon
<1>2. (\E i \in DOMAIN rows : own[i] = {} \/ again[i] = {}) <=> (\E r \in ToSet(rows) : Refused(r, now))
  BY DEF Refused, ToSet
<1>3. OfficeField(rows, field, now) =
        IF (\E i \in DOMAIN rows : own[i] = {} \/ again[i] = {}) \/ ~IdsApart(rows) THEN {}
        ELSE {CanonicalProperty(rows, field, S, now)}
  BY Zenon DEF OfficeField
<1> HIDE DEF own, again, S
<1> QED
  BY <1>1, <1>2, <1>3, PropertyIsOfRows, Zenon

-----------------------------------------------------------------------------
\* Rows that are not refused, and sets of them.
Rows(Ids, Keys, Fields, now) == {r \in Row(Ids, Keys, Fields) : ~ Refused(r, now)}

Accepted(Ids, Keys, Fields, now) == SUBSET Rows(Ids, Keys, Fields, now)

\* The one element of a set of one.
LEMMA TheOne == \A x : The({x}) = x
BY DEF The

\* A row's own source has the row's dates.
LEMMA SourceOfOne ==
  ASSUME NEW row, NEW now, NEW on, NEW s \in Source(row, now, on)
  PROVE  /\ s.of = row.id /\ s.field = "" /\ s.seen = row.seen
         /\ s.since = row.since /\ s.until = row.until
<1> DEFINE fresh == Freshness(row.seen, row.sla, now)
           valid == Validity(row.since, row.until, on)
           made == [of |-> row.id, field |-> "", since |-> row.since, until |-> row.until,
                    seen |-> row.seen, freshness |-> fresh, validity |-> valid]
<1>1. Source(row, now, on) = {made}
  BY Zenon DEF Source
<1> HIDE DEF fresh, valid
<1>2. s = made
  BY <1>1
<1> QED
  BY <1>1, <1>2

\* The source of a row seen again is of that row, for a field the later look recorded, and
\* later than the row was seen.
LEMMA SeenAgainLater ==
  ASSUME NEW Ids, NEW Keys, NEW Fields, NEW now,
         NEW row \in Rows(Ids, Keys, Fields, now), NEW s \in The(ObservationSources(row, now))
  PROVE  /\ s.of = row.id /\ s.since = row.since /\ s.until = row.until
         /\ s.field \in OBSERVED_FIELDS /\ s.field \in row.observed.fields
         /\ s.seen \in Nat /\ s.seen > row.seen
<1> DEFINE o == row.observed
           seen == [row EXCEPT !.seen = o.captured]
           one == The(Source(seen, now, Day(now)))
           O == {[one EXCEPT !.field = f] : f \in o.fields}
<1>1. row \in Row(Ids, Keys, Fields) /\ ObservationSources(row, now) # {} /\ Source(row, now, Day(now)) # {}
  BY DEF Rows, Refused
<1>2. \/ ObservationSources(row, now) = {{}}
      \/ /\ ObservationSources(row, now) = {O}
         /\ o.captured # 0 /\ ~ (row.seen # 0 /\ o.captured <= row.seen)
         /\ o.fields \subseteq OBSERVED_FIELDS
  BY <1>1, Zenon DEF ObservationSources
<1>3. The(ObservationSources(row, now)) = O /\ o.captured # 0 /\ ~ (row.seen # 0 /\ o.captured <= row.seen)
        /\ o.fields \subseteq OBSERVED_FIELDS
  BY <1>2, TheOne
<1>4. o.captured \in Nat /\ row.seen \in Nat
  BY <1>1 DEF Row
<1>5. o.captured > row.seen
  BY <1>3, <1>4
<1>6. /\ seen.id = row.id /\ seen.since = row.since /\ seen.until = row.until /\ seen.seen = o.captured
      /\ seen.sla = row.sla
  BY <1>1 DEF Row
<1> DEFINE made == [of |-> row.id, field |-> "", since |-> row.since, until |-> row.until,
                    seen |-> o.captured, freshness |-> Freshness(o.captured, row.sla, now),
                    validity |-> Validity(row.since, row.until, Day(now))]
<1>7. ~ (row.since # 0 /\ row.until # 0 /\ row.since > row.until)
  BY <1>1, Zenon DEF Source
<1> HIDE DEF seen
<1>8. Source(seen, now, Day(now)) = {made}
  BY <1>6, <1>7, Zenon DEF Source
<1>9. one = made
  BY <1>8, TheOne
<1>10. PICK f \in o.fields : s = [one EXCEPT !.field = f]
  BY <1>3
<1>11. s = [made EXCEPT !.field = f]
  BY <1>9, <1>10
<1>12. s.of = row.id /\ s.since = row.since /\ s.until = row.until /\ s.field = f /\ s.seen = o.captured
  BY <1>11
<1> QED
  BY <1>3, <1>4, <1>5, <1>10, <1>12

\* Every row of an accepted field has a source of its own.
LEMMA OwnSource ==
  ASSUME NEW Ids, NEW Keys, NEW Fields, NEW now, NEW R \in Accepted(Ids, Keys, Fields, now),
         NEW r \in R
  PROVE  \E s \in Sources(R, now) : s.of = r.id /\ s.field = ""
<1>1. Source(r, now, Day(now)) # {}
  BY DEF Accepted, Rows, Refused
<1>2. PICK s \in Source(r, now, Day(now)) : TRUE
  BY <1>1
<1>3. s \in Sources(R, now)
  BY <1>2 DEF Sources
<1>4. s.of = r.id /\ s.field = ""
  BY <1>2, SourceOfOne
<1> QED
  BY <1>3, <1>4

\* Every source is of a row, no earlier than the row was seen; one for a field alone is
\* later.
LEMMA SourcesKnown ==
  ASSUME NEW Ids, NEW Keys, NEW Fields, NEW now, NEW R \in Accepted(Ids, Keys, Fields, now)
  PROVE  \A s \in Sources(R, now) :
           /\ s.since \in Nat /\ s.until \in Nat
           /\ \E r \in R : /\ r.id = s.of /\ s.seen >= r.seen
                           /\ s.field # "" => s.field \in r.observed.fields /\ s.seen > r.seen
<1>1. \A x, y \in Nat : x = y \/ x > y => x >= y
  OBVIOUS
<1>2. ASSUME NEW s \in Sources(R, now)
      PROVE  /\ s.since \in Nat /\ s.until \in Nat
             /\ \E r \in R : /\ r.id = s.of /\ s.seen >= r.seen
                             /\ s.field # "" => s.field \in r.observed.fields /\ s.seen > r.seen
  <2>1. PICK r \in R : s \in Source(r, now, Day(now)) \cup The(ObservationSources(r, now))
    BY DEF Sources
  <2>2. r \in Rows(Ids, Keys, Fields, now)
    BY DEF Accepted
  <2>3. r.since \in Nat /\ r.until \in Nat /\ r.seen \in Nat
    BY <2>2 DEF Rows, Row
  <2>4. CASE s \in Source(r, now, Day(now))
    <3>1. s.of = r.id /\ s.field = "" /\ s.seen = r.seen /\ s.since = r.since /\ s.until = r.until
      BY <2>4, SourceOfOne
    <3>2. s.seen >= r.seen
      BY <1>1, <2>3, <3>1, Zenon
    <3> QED
      BY <2>3, <3>1, <3>2
  <2>5. CASE s \in The(ObservationSources(r, now))
    <3>1. /\ s.of = r.id /\ s.since = r.since /\ s.until = r.until
          /\ s.field \in r.observed.fields /\ s.seen \in Nat /\ s.seen > r.seen
      BY <2>2, <2>5, SeenAgainLater
    <3>2. s.seen >= r.seen
      BY <1>1, <2>3, <3>1, Zenon
    <3> QED
      BY <2>3, <3>1, <3>2
  <2> QED
    BY <2>1, <2>4, <2>5
<1> QED
  BY <1>2

\* The source a value is given is one of the sources, for the field or for the whole row.
LEMMA SourceOfKnown ==
  ASSUME NEW Ids, NEW Keys, NEW Fields, NEW now, NEW R \in Accepted(Ids, Keys, Fields, now),
         NEW field, NEW r \in R, NEW index
  PROVE  /\ SourceOf(Sources(R, now), field, r, index) \in Sources(R, now)
         /\ SourceOf(Sources(R, now), field, r, index).field \in {"", field}
<1> DEFINE S == Sources(R, now)
           derived == {s \in S : s.of = r.id /\ s.field = field}
           own == {s \in S : s.of = r.id /\ s.field = ""}
<1>1. own # {}
  <2>1. \E s \in Sources(R, now) : s.of = r.id /\ s.field = ""
    BY OwnSource
  <2> QED
    BY <2>1, Zenon
<1>2. \A X : X # {} => The(X) \in X
  BY DEF The
<1>3. \/ derived # {} /\ SourceOf(S, field, r, index) = The(derived)
      \/ SourceOf(S, field, r, index) = The(own)
  BY Zenon DEF SourceOf
<1> HIDE DEF S
<1> QED
  BY <1>1, <1>2, <1>3 DEF S

\* So is the source of every value said.
LEMMA SaidBySources ==
  ASSUME NEW Ids, NEW Keys, NEW Fields, NEW now, NEW R \in Accepted(Ids, Keys, Fields, now),
         NEW field, NEW a \in Said(R, field, Sources(R, now))
  PROVE  a.source \in Sources(R, now) /\ a.source.field \in {"", field}
<1>1. PICK r \in R : \E p \in ToSet(Projections(r, field)) :
          a = [value |-> p.value, source |-> SourceOf(Sources(R, now), field, r, p.index)]
  BY DEF Said
<1>2. PICK p \in ToSet(Projections(r, field)) :
        a = [value |-> p.value, source |-> SourceOf(Sources(R, now), field, r, p.index)]
  BY <1>1
<1> DEFINE chosen == SourceOf(Sources(R, now), field, r, p.index)
<1>3. a.source = chosen
  BY <1>2
<1>4. chosen \in Sources(R, now) /\ chosen.field \in {"", field}
  BY SourceOfKnown
<1> HIDE DEF chosen
<1> QED
  BY <1>3, <1>4

\* What a status stands for: nothing said and an absence confirmed, or values whose
\* sources are apart.
LEMMA MeaningOfSaid ==
  ASSUME NEW said, NEW confirmed, NEW offered
  PROVE  LET p == Meaning(said, confirmed, offered)
         IN  /\ p.values = {a.value : a \in said}
             /\ \A v \in p.values : p.sources[v] = {a.source : a \in {b \in said : b.value = v}}
             /\ p.status = "not_published" => p.values = {} /\ p.absence = confirmed
             /\ p.status = "multiple" =>
                  \A v, w \in p.values : v # w =>
                    \A s \in p.sources[v], t \in p.sources[w] : Disjoint(s, t)
<1> DEFINE values == {a.value : a \in said}
           of(v) == {a.source : a \in {b \in said : b.value = v}}
           absence == IF values = {} THEN confirmed ELSE {}
           separate == \A v, w \in values : v # w => \A s \in of(v), t \in of(w) : Disjoint(s, t)
           status == CASE absence # {} -> "not_published"
                       [] absence = {} /\ values = {} -> "unknown"
                       [] Cardinality(values) = 1 -> "known"
                       [] OTHER -> IF separate THEN "multiple" ELSE "conflicting"
           p == Meaning(said, confirmed, offered)
<1>1. p = [values |-> values, sources |-> [v \in values |-> of(v)], offered |-> offered,
           absence |-> absence, status |-> status]
  BY Zenon DEF Meaning
<1>2. status = "not_published" => absence # {}
  OBVIOUS
<1>3. status = "multiple" => separate
  OBVIOUS
<1>4. absence # {} => values = {} /\ absence = confirmed
  OBVIOUS
<1> HIDE DEF p, status, separate, absence, of, values
<1>5. p.values = values /\ p.absence = absence /\ p.status = status /\ \A v \in values : p.sources[v] = of(v)
  BY <1>1
<1> QED
  BY <1>2, <1>3, <1>4, <1>5 DEF p, values, of, separate

-----------------------------------------------------------------------------
\* The field, of rows that are accepted.
FieldOf(R, field, now, offered) == PropertyOf(R, field, Sources(R, now), now, offered)

\* The field is the meaning of what its rows say.
LEMMA FieldMeaning ==
  ASSUME NEW R, NEW field, NEW now, NEW offered
  PROVE  FieldOf(R, field, now, offered) =
           Meaning(Said(R, field, Sources(R, now)), AbsenceOf(R, field, now), offered)
BY Zenon DEF FieldOf, PropertyOf

\* The sources of a stated value are sources of the rows.
LEMMA FieldSources ==
  ASSUME NEW Ids, NEW Keys, NEW Fields, NEW now, NEW R \in Accepted(Ids, Keys, Fields, now), NEW field, NEW offered,
         NEW v \in FieldOf(R, field, now, offered).values, NEW s \in FieldOf(R, field, now, offered).sources[v]
  PROVE  s \in Sources(R, now) /\ s.field \in {"", field}
<1> DEFINE said == Said(R, field, Sources(R, now))
           p == FieldOf(R, field, now, offered)
<1>1. p.sources[v] = {a.source : a \in {b \in said : b.value = v}}
  BY FieldMeaning, MeaningOfSaid
<1>2. PICK a \in said : s = a.source
  BY <1>1
<1>3. a.source \in Sources(R, now) /\ a.source.field \in {"", field}
  BY SaidBySources
<1> QED
  BY <1>2, <1>3

\* A value is cited from its own row, as of a later look only when that look was of the
\* field.
LEMMA LookedAtAgainHolds ==
  ASSUME NEW Ids, NEW Keys, NEW Fields, NEW now, NEW rows,
         ToSet(rows) \in Accepted(Ids, Keys, Fields, now), NEW field, NEW offered
  PROVE  LookedAtAgain(rows, field, FieldOf(ToSet(rows), field, now, offered))
<1> DEFINE R == ToSet(rows)
           p == FieldOf(R, field, now, offered)
<1>1. SUFFICES ASSUME NEW v \in p.values, NEW s \in p.sources[v]
               PROVE  \E i \in DOMAIN rows :
                        /\ rows[i].id = s.of
                        /\ s.seen >= rows[i].seen
                        /\ s.field # "" => /\ s.field = field /\ field \in rows[i].observed.fields
                                           /\ s.seen > rows[i].seen
  BY DEF LookedAtAgain
<1>2. s \in Sources(R, now) /\ s.field \in {"", field}
  BY FieldSources
<1>3. PICK r \in R : /\ r.id = s.of /\ s.seen >= r.seen
                     /\ s.field # "" => s.field \in r.observed.fields /\ s.seen > r.seen
  BY <1>2, SourcesKnown
<1>4. PICK i \in DOMAIN rows : r = rows[i]
  BY DEF ToSet
<1> QED
  BY <1>2, <1>3, <1>4

\* No day of any calendar, where the run tries the first twenty-one.
NeverTogether(p) ==
  p.status = "multiple" =>
    \A v, w \in p.values : v # w =>
      \A s \in p.sources[v], t \in p.sources[w] :
        \A day \in Int : ~(HoldsOn(s, day) /\ HoldsOn(t, day))

\* Two spans that are disjoint share no day.
LEMMA DisjointNeverBoth ==
  ASSUME NEW s, NEW t, s.since \in Nat, s.until \in Nat, t.since \in Nat, t.until \in Nat,
         Disjoint(s, t), NEW day \in Int
  PROVE  ~ (HoldsOn(s, day) /\ HoldsOn(t, day))
<1> DEFINE a == s.since
           b == s.until
           c == t.since
           d == t.until
<1>1. a \in Nat /\ b \in Nat /\ c \in Nat /\ d \in Nat
  OBVIOUS
<1>2. a # 0 /\ b # 0 /\ c # 0 /\ d # 0 /\ (b < c \/ d < a)
  BY DEF Disjoint
<1>3. HoldsOn(s, day) /\ HoldsOn(t, day) => (a = 0 \/ a <= day) /\ (b = 0 \/ day <= b) /\ (c = 0 \/ c <= day) /\ (d = 0 \/ day <= d)
  BY Zenon DEF HoldsOn
<1> HIDE DEF a, b, c, d
<1> QED
  BY <1>1, <1>2, <1>3

\* Two values stated side by side never hold on one day.
LEMMA NeverTogetherHolds ==
  ASSUME NEW Ids, NEW Keys, NEW Fields, NEW now, NEW R \in Accepted(Ids, Keys, Fields, now), NEW field, NEW offered
  PROVE  NeverTogether(FieldOf(R, field, now, offered))
<1> DEFINE p == FieldOf(R, field, now, offered)
<1>1. SUFFICES ASSUME p.status = "multiple", NEW v \in p.values, NEW w \in p.values, v # w,
                      NEW s \in p.sources[v], NEW t \in p.sources[w], NEW day \in Int
               PROVE  ~ (HoldsOn(s, day) /\ HoldsOn(t, day))
  BY DEF NeverTogether
<1>2. Disjoint(s, t)
  BY <1>1, FieldMeaning, MeaningOfSaid
<1>3. s \in Sources(R, now) /\ t \in Sources(R, now)
  BY FieldSources
<1>4. s.since \in Nat /\ s.until \in Nat /\ t.since \in Nat /\ t.until \in Nat
  BY <1>3, SourcesKnown
<1> QED
  BY <1>2, <1>4, DisjointNeverBoth

-----------------------------------------------------------------------------
\* The least of a set of numbers.
LEMMA LeastIsIn ==
  ASSUME NEW T \in SUBSET Nat, T # {}
  PROVE  Min(T) \in T /\ \A y \in T : Min(T) <= y
<1>1. \E x \in T : \A y \in T : x <= y
  BY LeastNumber
<1> QED
  BY <1>1 DEF Min

\* The projections of a row have its text and each of its conflicting texts.
LEMMA ProjectedTexts ==
  ASSUME NEW Ids, NEW Keys, NEW Fields, NEW row \in Row(Ids, Keys, Fields), NEW field \in Fields
  PROVE  /\ \E q \in ToSet(Projections(row, field)) : q.value = Spelt[row.raw[field]]
         /\ \A c \in ToSet(row.conflicts[field]) :
              \E q \in ToSet(Projections(row, field)) : q.value = Spelt[c]
<1> DEFINE one == <<[value |-> Spelt[row.raw[field]], index |-> 0]>>
           con == row.conflicts[field]
           more == [i \in DOMAIN con |-> [value |-> Spelt[con[i]], index |-> i]]
           P == Projections(row, field)
<1>1. con \in Seq(Texts)
  BY DEF Row
<1> HIDE DEF con
<1>2. Len(con) \in Nat /\ DOMAIN con = 1..Len(con)
  BY <1>1
<1>3. more \in Seq({more[i] : i \in 1..Len(con)}) /\ Len(more) = Len(con)
  BY <1>2
<1>4. P = one \o more
  BY Zenon DEF Projections, con
<1>5. P[1] = one[1] /\ 1 \in DOMAIN P
  BY <1>2, <1>3, <1>4
<1>6. one[1].value = Spelt[row.raw[field]]
  OBVIOUS
<1>7. ASSUME NEW i \in DOMAIN con
      PROVE  i + 1 \in DOMAIN P /\ P[i + 1].value = Spelt[con[i]]
  <2>1. i \in 1..Len(con)
    BY <1>2
  <2>2. Len(one) = 1 /\ one \in Seq({one[1]})
    OBVIOUS
  <2>3. i + 1 \in DOMAIN P /\ P[i + 1] = more[i]
    BY <1>2, <1>3, <1>4, <2>1, <2>2
  <2>4. more[i].value = Spelt[con[i]]
    OBVIOUS
  <2> QED
    BY <2>3, <2>4
<1> HIDE DEF P, one
<1>8. \E q \in ToSet(P) : q.value = Spelt[row.raw[field]]
  BY <1>5, <1>6 DEF ToSet
<1>9. ASSUME NEW c \in ToSet(con)
      PROVE  \E q \in ToSet(P) : q.value = Spelt[c]
  <2>1. PICK i \in DOMAIN con : c = con[i]
    BY DEF ToSet
  <2> QED
    BY <1>7, <2>1 DEF ToSet
<1> QED
  BY <1>8, <1>9 DEF P, con

\* Nothing is said of a field; a row has no text for it.
Silent(R, field, sources) == Said(R, field, sources) = {}

SaysNothing(row, field) ==
  Spelt[row.raw[field]] = "" /\ \A c \in ToSet(row.conflicts[field]) : Spelt[c] = ""

\* When nothing is said of a field, each row is silent on it.
LEMMA SilentRows ==
  ASSUME NEW Ids, NEW Keys, NEW Fields, NEW row \in Row(Ids, Keys, Fields), NEW field \in Fields,
         NEW R, row \in R, NEW sources, Silent(R, field, sources)
  PROVE  SaysNothing(row, field)
<1> DEFINE P == ToSet(Projections(row, field))
<1>1. ASSUME NEW q \in P
      PROVE  q.value = ""
  <2> DEFINE told == {[value |-> p.value, source |-> SourceOf(sources, field, row, p.index)] :
                        p \in {x \in P : x.value # ""}}
  <2>1. told \subseteq Said(R, field, sources)
    BY Zenon DEF Said
  <2>2. told = {}
    BY <2>1 DEF Silent
  <2>3. CASE q.value # ""
    <3>1. [value |-> q.value, source |-> SourceOf(sources, field, row, q.index)] \in told
      BY <2>3, Zenon
    <3> QED
      BY <2>2, <3>1, Zenon
  <2> QED
    BY <2>3
<1>2. /\ \E q \in P : q.value = Spelt[row.raw[field]]
      /\ \A c \in ToSet(row.conflicts[field]) : \E q \in P : q.value = Spelt[c]
  BY ProjectedTexts
<1> HIDE DEF P
<1> QED
  BY <1>1, <1>2 DEF SaysNothing

\* A good claim of absence has a check, and none after now.
LEMMA ChecksInTime ==
  ASSUME NEW Ids, NEW Keys, NEW Fields, NEW now \in Nat, NEW R \in SUBSET Row(Ids, Keys, Fields),
         NEW field \in Fields, NEW r \in Claiming(R, field, now)
  PROVE  /\ ToSet(r.claim[field]) \in SUBSET Nat /\ ToSet(r.claim[field]) # {}
         /\ \A t \in ToSet(r.claim[field]) : t <= now
<1> DEFINE claim == r.claim[field]
<1>1. r \in Row(Ids, Keys, Fields) /\ GoodClaim(claim, now)
  BY DEF Claiming
<1>2. claim \in Seq(Nat)
  BY <1>1 DEF Row
<1> HIDE DEF claim
<1>3. claim # <<>> /\ \A i \in DOMAIN claim : claim[i] <= now
  BY <1>1 DEF GoodClaim
<1>4. 1 \in DOMAIN claim
  BY <1>2, <1>3
<1>5. \A i \in DOMAIN claim : claim[i] \in Nat
  BY <1>2
<1> QED
  BY <1>3, <1>4, <1>5 DEF ToSet, claim

\* A field is said to be unpublished only when every row is silent and the absence was
\* checked.
LEMMA ValueBeatsAbsenceHolds ==
  ASSUME NEW Ids, NEW Keys, NEW Fields, NEW now \in Nat, NEW field \in Fields, NEW rows,
         ToSet(rows) \in Accepted(Ids, Keys, Fields, now), IdsApart(rows), NEW offered
  PROVE  ValueBeatsAbsence(rows, field, now, FieldOf(ToSet(rows), field, now, offered))
<1> DEFINE R == ToSet(rows)
           p == FieldOf(R, field, now, offered)
           said == Said(R, field, Sources(R, now))
           C == Claiming(R, field, now)
<1>0. R \in SUBSET Row(Ids, Keys, Fields)
  BY DEF Accepted, Rows
<1>1. SUFFICES ASSUME p.status = "not_published"
               PROVE  /\ \A i \in DOMAIN rows :
                           /\ Spelt[rows[i].raw[field]] = ""
                           /\ \A c \in ToSet(rows[i].conflicts[field]) : Spelt[c] = ""
                      /\ \A a \in p.absence :
                           /\ a.rows # {} /\ a.checked <= now
                           /\ \A i \in DOMAIN rows : rows[i].id \in a.rows =>
                                /\ field \notin rows[i].doubted
                                /\ a.current => now <= a.checked + rows[i].sla \/ \E j \in DOMAIN rows :
                                                  rows[j].id \in a.rows /\ j # i
  BY DEF ValueBeatsAbsence
<1>2. p.values = {} /\ p.absence = AbsenceOf(R, field, now)
  BY <1>1, FieldMeaning, MeaningOfSaid
<1>3. said = {}
  <2>1. p.values = {a.value : a \in said}
    BY FieldMeaning, MeaningOfSaid
  <2> QED
    BY <1>2, <2>1
<1>4. ASSUME NEW i \in DOMAIN rows
      PROVE  /\ Spelt[rows[i].raw[field]] = ""
             /\ \A c \in ToSet(rows[i].conflicts[field]) : Spelt[c] = ""
  <2>1. Silent(R, field, Sources(R, now))
    BY <1>3 DEF Silent
  <2>2. rows[i] \in R
    BY DEF ToSet
  <2> HIDE DEF R
  <2> DEFINE row == rows[i]
  <2>3. row \in Row(Ids, Keys, Fields)
    BY <1>0, <2>2
  <2>4. row \in R
    BY <2>2
  <2> HIDE DEF row
  <2>5. SaysNothing(row, field)
    BY <2>1, <2>3, <2>4, SilentRows
  <2> QED
    BY <2>5 DEF row, SaysNothing
<1>5. ASSUME NEW a \in p.absence
      PROVE  /\ a.rows # {} /\ a.checked <= now
             /\ \A i \in DOMAIN rows : rows[i].id \in a.rows =>
                  /\ field \notin rows[i].doubted
                  /\ a.current => now <= a.checked + rows[i].sla \/ \E j \in DOMAIN rows :
                                    rows[j].id \in a.rows /\ j # i
  <2> DEFINE least == Min(Checks(C, field))
             current == \A r \in C : Recent(r, field, now)
  <2>1. C # {} /\ a = [rows |-> {r.id : r \in C}, checked |-> least, current |-> current]
    BY <1>2 DEF AbsenceOf
  <2>2. a.rows = {r.id : r \in C} /\ a.checked = least /\ a.current = current
    BY <2>1
  <2>3. \A r \in C : /\ ToSet(r.claim[field]) \in SUBSET Nat /\ ToSet(r.claim[field]) # {}
                     /\ \A t \in ToSet(r.claim[field]) : t <= now
    BY <1>0, ChecksInTime
  <2>4. Checks(C, field) \in SUBSET Nat /\ Checks(C, field) # {}
    BY <2>1, <2>3 DEF Checks
  <2>5. least \in Checks(C, field)
    BY <2>4, LeastIsIn
  <2>6. PICK k \in C : least \in ToSet(k.claim[field])
    BY <2>5 DEF Checks
  <2>7. least \in Nat /\ least <= now
    BY <2>3, <2>6
  <2>8. ASSUME NEW i \in DOMAIN rows, rows[i].id \in a.rows
        PROVE  /\ field \notin rows[i].doubted
               /\ a.current => now <= a.checked + rows[i].sla \/ \E j \in DOMAIN rows :
                                 rows[j].id \in a.rows /\ j # i
    <3>1. PICK r \in C : r.id = rows[i].id
      BY <2>2, <2>8
    <3>2. PICK m \in DOMAIN rows : r = rows[m]
      BY DEF Claiming, ToSet
    <3>3. r = rows[i]
      BY <3>1, <3>2 DEF IdsApart
    <3>4. field \notin rows[i].doubted
      BY <3>3 DEF Claiming
    <3>5. PICK n \in DOMAIN rows : k = rows[n]
      BY <2>6 DEF Claiming, ToSet
    <3>6. rows[n].id \in a.rows
      BY <2>2, <3>5
    <3>7. ASSUME a.current, n = i
          PROVE  now <= a.checked + rows[i].sla
      <4>1. k = rows[i] /\ Recent(k, field, now)
        BY <2>2, <3>5, <3>7
      <4>2. now - least <= rows[i].sla
        BY <2>6, <4>1 DEF Recent
      <4>3. rows[i].sla \in Int
        BY <1>0, <3>3 DEF Claiming, Row
      <4> QED
        BY <2>2, <2>7, <4>2, <4>3
    <3> QED
      BY <3>4, <3>6, <3>7
  <2> QED
    BY <2>1, <2>2, <2>7, <2>8
<1> QED
  BY <1>4, <1>5

-----------------------------------------------------------------------------
\* A field that is stated has no refused row and no two rows of one id, and is the field
\* of its rows.
LEMMA AcceptedField ==
  ASSUME NEW Ids, NEW Keys, NEW Fields, NEW rows \in Seq(Row(Ids, Keys, Fields)),
         NEW field, NEW now, NEW p \in OfficeField(rows, field, now)
  PROVE  /\ ToSet(rows) \in Accepted(Ids, Keys, Fields, now) /\ IdsApart(rows)
         /\ p = FieldOf(ToSet(rows), field, now, Offered(rows, field))
<1> DEFINE R == ToSet(rows)
<1>1. OfficeField(rows, field, now) =
        IF (\E r \in R : Refused(r, now)) \/ ~IdsApart(rows) THEN {}
        ELSE {FieldOf(R, field, now, Offered(rows, field))}
  BY FieldIsOfRows, Zenon DEF FieldOf
<1>2. ~ (\E r \in R : Refused(r, now)) /\ IdsApart(rows)
  BY <1>1, Zenon
<1>3. OfficeField(rows, field, now) = {FieldOf(R, field, now, Offered(rows, field))}
  BY <1>1, <1>2, Zenon
<1>4. \A r \in R : r \in Row(Ids, Keys, Fields)
  BY DEF ToSet
<1>5. R \in Accepted(Ids, Keys, Fields, now)
  BY <1>2, <1>4 DEF Accepted, Rows
<1> QED
  BY <1>2, <1>3, <1>5

(***************************************************************************)
(* Two values stated side by side ("multiple") hold on no day together, on *)
(* any day of any calendar: they are a succession, not a disagreement      *)
(* (canonical_property, entity_facts.py).                                  *)
(***************************************************************************)
THEOREM NeverOnOneDay ==
  ASSUME NEW Ids, NEW Keys, NEW Fields, NEW rows \in Seq(Row(Ids, Keys, Fields)),
         NEW field, NEW now, NEW p \in OfficeField(rows, field, now)
  PROVE  NeverTogether(p)
BY AcceptedField, NeverTogetherHolds

\* Every projection of a row is a text it publishes.
LEMMA ProjectedArePublished ==
  ASSUME NEW Ids, NEW Keys, NEW Fields, NEW row \in Row(Ids, Keys, Fields), NEW field \in Fields,
         NEW q \in ToSet(Projections(row, field))
  PROVE  q.value \in Published(row, field)
<1> DEFINE one == <<[value |-> Spelt[row.raw[field]], index |-> 0]>>
           con == row.conflicts[field]
           more == [i \in DOMAIN con |-> [value |-> Spelt[con[i]], index |-> i]]
           P == Projections(row, field)
<1>1. con \in Seq(Texts)
  BY DEF Row
<1>2. P = one \o more
  BY Zenon DEF Projections
<1>3. PICK k \in DOMAIN P : q = P[k]
  BY DEF ToSet
<1> HIDE DEF con, P
<1>4. Len(con) \in Nat /\ DOMAIN con = 1..Len(con)
  BY <1>1
<1>5. more \in Seq({more[i] : i \in 1..Len(con)}) /\ Len(more) = Len(con)
  BY <1>4
<1>6. one \in Seq({one[1]}) /\ Len(one) = 1
  OBVIOUS
<1>7. k \in 1..(1 + Len(con))
  BY <1>2, <1>3, <1>4, <1>5, <1>6
<1>8. CASE k = 1
  <2>1. q = one[1]
    BY <1>2, <1>3, <1>4, <1>5, <1>6, <1>8
  <2>2. q.value = Spelt[row.raw[field]]
    BY <2>1
  <2> QED
    BY <2>2 DEF Published
<1>9. CASE k # 1
  <2>1. k - 1 \in 1..Len(con)
    BY <1>4, <1>7, <1>9
  <2>2. q = more[k - 1]
    BY <1>2, <1>3, <1>4, <1>5, <1>6, <2>1
  <2>3. q.value = Spelt[con[k - 1]] /\ con[k - 1] \in ToSet(con)
    BY <1>4, <2>1, <2>2 DEF ToSet
  <2> QED
    BY <2>3 DEF Published, con
<1> QED
  BY <1>8, <1>9

\* And every text it publishes is one of its projections.
Projects(row, field, v) == \E q \in ToSet(Projections(row, field)) : q.value = v

LEMMA PublishedAreProjected ==
  ASSUME NEW Ids, NEW Keys, NEW Fields, NEW row \in Row(Ids, Keys, Fields), NEW field \in Fields,
         NEW v \in Published(row, field)
  PROVE  Projects(row, field, v)
BY ProjectedTexts DEF Published, Projects

\* The source a value is given is of the row that says it.
LEMMA SourceOfOwn ==
  ASSUME NEW Ids, NEW Keys, NEW Fields, NEW now, NEW R \in Accepted(Ids, Keys, Fields, now),
         NEW field, NEW r \in R, NEW index
  PROVE  SourceOf(Sources(R, now), field, r, index).of = r.id
<1> DEFINE S == Sources(R, now)
           derived == {s \in S : s.of = r.id /\ s.field = field}
           own == {s \in S : s.of = r.id /\ s.field = ""}
<1>1. own # {}
  <2>1. \E s \in Sources(R, now) : s.of = r.id /\ s.field = ""
    BY OwnSource
  <2> QED
    BY <2>1, Zenon
<1>2. \A X : X # {} => The(X) \in X
  BY DEF The
<1>3. \/ derived # {} /\ SourceOf(S, field, r, index) = The(derived)
      \/ SourceOf(S, field, r, index) = The(own)
  BY Zenon DEF SourceOf
<1> HIDE DEF S
<1> QED
  BY <1>1, <1>2, <1>3 DEF S

\* Nothing a row publishes is dropped, and no value is cited from a row that has it not.
LEMMA NothingDroppedHolds ==
  ASSUME NEW Ids, NEW Keys, NEW Fields, NEW now, NEW rows,
         ToSet(rows) \in Accepted(Ids, Keys, Fields, now), NEW field \in Fields, NEW offered
  PROVE  NothingDropped(rows, field, FieldOf(ToSet(rows), field, now, offered))
<1> DEFINE R == ToSet(rows)
           S == Sources(R, now)
           said == Said(R, field, S)
           p == FieldOf(R, field, now, offered)
<1>1. /\ p.values = {a.value : a \in said}
      /\ \A v \in p.values : p.sources[v] = {a.source : a \in {b \in said : b.value = v}}
  BY FieldMeaning, MeaningOfSaid
<1>2. \A r \in R : r \in Row(Ids, Keys, Fields)
  BY DEF Accepted, Rows
<1>3. ASSUME NEW r \in R, NEW q \in ToSet(Projections(r, field)), q.value # ""
      PROVE  q.value \in p.values /\ \E s \in p.sources[q.value] : s.of = r.id
  <2> DEFINE a == [value |-> q.value, source |-> SourceOf(S, field, r, q.index)]
             told == {[value |-> x.value, source |-> SourceOf(S, field, r, x.index)] :
                        x \in {y \in ToSet(Projections(r, field)) : y.value # ""}}
  <2>1. a \in told
    BY <1>3, Zenon
  <2>2. told \subseteq said
    BY Zenon DEF Said
  <2>3. a \in said
    BY <2>1, <2>2, Zenon
  <2>4. SourceOf(S, field, r, q.index).of = r.id
    BY SourceOfOwn
  <2>5. a.value = q.value /\ a.source.of = r.id
    BY <2>4
  <2> HIDE DEF a, told, said, p
  <2>6. q.value \in p.values
    BY <1>1, <2>3, <2>5
  <2>7. a.source \in p.sources[q.value]
    BY <1>1, <2>3, <2>5, <2>6
  <2> QED
    BY <2>5, <2>6, <2>7
<1>4. ASSUME NEW i \in DOMAIN rows, NEW v \in Published(rows[i], field) \ {""}
      PROVE  v \in p.values /\ \E s \in p.sources[v] : s.of = rows[i].id
  <2>1. PICK r \in R : r = rows[i]
    BY DEF ToSet
  <2>2. r \in Row(Ids, Keys, Fields) /\ v \in Published(r, field) /\ v # ""
    BY <1>2, <2>1
  <2>3. Projects(r, field, v)
    BY <2>2, PublishedAreProjected
  <2>4. PICK q \in ToSet(Projections(r, field)) : q.value = v
    BY <2>3 DEF Projects
  <2> QED
    BY <1>3, <2>1, <2>2, <2>4
<1>5. ASSUME NEW v \in p.values, NEW s \in p.sources[v]
      PROVE  \E i \in DOMAIN rows : rows[i].id = s.of /\ v \in Published(rows[i], field)
  <2>1. PICK a \in said : a.value = v /\ a.source = s
    BY <1>1
  <2>2. PICK r \in R : \E q \in ToSet(Projections(r, field)) :
          a = [value |-> q.value, source |-> SourceOf(S, field, r, q.index)]
    BY <2>1 DEF Said
  <2>3. PICK q \in ToSet(Projections(r, field)) :
          a = [value |-> q.value, source |-> SourceOf(S, field, r, q.index)]
    BY <2>2
  <2> DEFINE chosen == SourceOf(S, field, r, q.index)
  <2>4. v = q.value /\ s = chosen
    BY <2>1, <2>3
  <2>5. chosen.of = r.id
    BY SourceOfOwn
  <2> HIDE DEF chosen
  <2>6. s.of = r.id /\ v \in Published(r, field)
    BY <1>2, <2>4, <2>5, ProjectedArePublished
  <2>7. PICK i \in DOMAIN rows : r = rows[i]
    BY DEF ToSet
  <2> QED
    BY <2>6, <2>7
<1> HIDE DEF p
<1> QED
  BY <1>4, <1>5 DEF NothingDropped, p

(***************************************************************************)
(* FieldStated for any rows, any field and any moment: no text a row       *)
(* publishes is dropped, whatever its dates or its doubts, and none is     *)
(* cited from a row that has it not; values side by side never hold at     *)
(* once; an absence is stated only when every row is silent and no check   *)
(* of it is still to come; a later look is cited only for the field it was *)
(* of.  That no two rows go by one id is the code's own refusal            *)
(* (canonical_properties, confirmed_absence, entity_facts.py).             *)
(***************************************************************************)
THEOREM EveryFieldStated ==
  ASSUME NEW Ids, NEW Keys, NEW Fields, NEW rows \in Seq(Row(Ids, Keys, Fields)),
         NEW field \in Fields, NEW now \in Nat
  PROVE  FieldStated([rows |-> rows, field |-> field, now |-> now])
<1> DEFINE x == [rows |-> rows, field |-> field, now |-> now]
<1>1. x.rows = rows /\ x.field = field /\ x.now = now
  OBVIOUS
<1>2. SUFFICES ASSUME NEW p \in OfficeField(rows, field, now)
               PROVE  /\ NothingDropped(rows, field, p)
                      /\ NeverBothAtOnce(p)
                      /\ ValueBeatsAbsence(rows, field, now, p)
                      /\ LookedAtAgain(rows, field, p)
  BY <1>1 DEF FieldStated
<1>3. /\ ToSet(rows) \in Accepted(Ids, Keys, Fields, now) /\ IdsApart(rows)
      /\ p = FieldOf(ToSet(rows), field, now, Offered(rows, field))
  BY AcceptedField
<1>4. NothingDropped(rows, field, p)
  BY <1>3, NothingDroppedHolds
<1>5. NeverBothAtOnce(p)
  <2>1. NeverTogether(p)
    BY NeverOnOneDay
  <2>2. \A day \in 0..20 : day \in Int
    OBVIOUS
  <2> QED
    BY <2>1, <2>2, Zenon DEF NeverTogether, NeverBothAtOnce
<1>6. ValueBeatsAbsence(rows, field, now, p)
  BY <1>3, ValueBeatsAbsenceHolds
<1>7. LookedAtAgain(rows, field, p)
  BY <1>3, LookedAtAgainHolds
<1> QED
  BY <1>4, <1>5, <1>6, <1>7

-----------------------------------------------------------------------------
\* Joining sequences: the sequence joined so far, step by step.
Joins(seqs, n, f) == f = [i \in 1..n |-> IF i = 1 THEN seqs[i] ELSE f[i - 1] \o seqs[i]]

\* There is a function of what is joined so far: a least length without one is none.
LEMMA JoinsExist ==
  ASSUME NEW seqs, NEW n \in Nat
  PROVE  \E f : Joins(seqs, n, f)
<1> DEFINE T == {m \in Nat : ~ \E f : Joins(seqs, m, f)}
<1>1. SUFFICES ASSUME T # {}
               PROVE  FALSE
  BY <1>1
<1>2. PICK m \in T : \A k \in T : m <= k
  BY <1>1, LeastNumber
<1>3. m \in Nat /\ ~ \E f : Joins(seqs, m, f)
  BY <1>2
<1>4. m # 0
  <2> DEFINE none == [i \in 1..0 |-> seqs[i]]
  <2>1. 1..0 = {}
    OBVIOUS
  <2>2. Joins(seqs, 0, none)
    BY <2>1 DEF Joins
  <2> QED
    BY <1>3, <2>2
<1>5. m - 1 \in Nat /\ m - 1 \notin T
  BY <1>2, <1>3, <1>4
<1>6. PICK f : Joins(seqs, m - 1, f)
  BY <1>5
<1>7. f = [i \in 1..(m - 1) |-> IF i = 1 THEN seqs[i] ELSE f[i - 1] \o seqs[i]]
  BY <1>6 DEF Joins
<1> DEFINE step(h, i) == IF i = 1 THEN seqs[i] ELSE h[i - 1] \o seqs[i]
           g == [i \in 1..m |-> IF i = m THEN step(f, m) ELSE f[i]]
<1>8. ASSUME NEW i \in 1..m
      PROVE  g[i] = step(g, i)
  <2>1. CASE i = 1
    <3>1. step(g, i) = seqs[1] /\ step(f, i) = seqs[1]
      BY <2>1
    <3>2. CASE m = 1
      BY <1>3, <2>1, <3>1, <3>2
    <3>3. CASE m # 1
      <4>1. 1 \in 1..(m - 1) /\ i # m
        BY <1>3, <1>4, <2>1, <3>3
      <4>2. f[1] = seqs[1]
        BY <1>7, <4>1
      <4> QED
        BY <2>1, <3>1, <4>1, <4>2
    <3> QED
      BY <3>2, <3>3
  <2>2. CASE i # 1
    <3>1. i - 1 \in 1..(m - 1) /\ i - 1 \in 1..m /\ i - 1 # m
      BY <1>3, <2>2
    <3>2. g[i - 1] = f[i - 1]
      BY <3>1
    <3>3. step(g, i) = f[i - 1] \o seqs[i] /\ step(f, i) = f[i - 1] \o seqs[i]
      BY <2>2, <3>2, Zenon
    <3>4. CASE i = m
      BY <3>3, <3>4
    <3>5. CASE i # m
      <4>1. i \in 1..(m - 1)
        BY <1>3, <3>5
      <4>2. f[i] = f[i - 1] \o seqs[i]
        BY <1>7, <2>2, <4>1, Zenon
      <4> QED
        BY <3>3, <3>5, <4>2
    <3> QED
      BY <3>4, <3>5
  <2> QED
    BY <2>1, <2>2
<1>9. g = [i \in 1..m |-> step(g, i)]
  <2> HIDE DEF step
  <2> QED
    BY <1>8
<1>10. Joins(seqs, m, g)
  BY <1>9, Zenon DEF Joins
<1> QED
  BY <1>3, <1>10

\* It starts with the first sequence,
LEMMA JoinStart ==
  ASSUME NEW seqs, NEW n, NEW f, Joins(seqs, n, f), 1 \in 1..n
  PROVE  f[1] = seqs[1]
<1>1. f = [i \in 1..n |-> IF i = 1 THEN seqs[i] ELSE f[i - 1] \o seqs[i]]
  BY DEF Joins
<1> QED
  BY <1>1, Zenon

\* and goes on with each next one.
LEMMA JoinSteps ==
  ASSUME NEW seqs, NEW n \in Nat, NEW f, Joins(seqs, n, f)
  PROVE  \A i \in 1..n : i # 1 => i - 1 \in 1..n /\ f[i] = f[i - 1] \o seqs[i]
<1>1. f = [i \in 1..n |-> IF i = 1 THEN seqs[i] ELSE f[i - 1] \o seqs[i]]
  BY DEF Joins
<1>2. \A i \in 1..n : f[i] = IF i = 1 THEN seqs[i] ELSE f[i - 1] \o seqs[i]
  BY <1>1, Zenon
<1>3. \A i \in 1..n : i # 1 => i - 1 \in 1..n
  OBVIOUS
<1> QED
  BY <1>2, <1>3, Zenon

\* Where the j-th sequence begins in what is joined.
Before(f, j) == IF j = 1 THEN 0 ELSE Len(f[j - 1])

\* The first i sequences joined: each is there whole, after the ones before it.
JoinedWhole(L, seqs, f, i) ==
  /\ f[i] \in Seq(L)
  /\ Before(f, i) \in Nat /\ Before(f, i) + Len(seqs[i]) = Len(f[i])
  /\ \A j \in 1..i : /\ Len(f[j]) \in Nat /\ Len(f[j]) <= Len(f[i])
                     /\ \A k \in DOMAIN seqs[j] : f[i][Before(f, j) + k] = seqs[j][k]

\* Two sequences joined.
LEMMA JoinOne ==
  ASSUME NEW L, NEW s \in Seq(L), NEW t \in Seq(L)
  PROVE  /\ s \o t \in Seq(L) /\ Len(s \o t) = Len(s) + Len(t)
         /\ Len(s) \in Nat /\ Len(t) \in Nat /\ DOMAIN s = 1..Len(s) /\ DOMAIN t = 1..Len(t)
         /\ \A k \in 1..Len(s) : (s \o t)[k] = s[k]
         /\ \A k \in 1..Len(t) : (s \o t)[Len(s) + k] = t[k]
OBVIOUS

\* What is joined up to one sequence is joined up to the next.
LEMMA JoinedWholeSteps ==
  ASSUME NEW L, NEW seqs \in Seq(Seq(L)), NEW f, Joins(seqs, Len(seqs), f),
         NEW i \in 1..Len(seqs), i # 1,
         \A j \in 1..(i - 1) : JoinedWhole(L, seqs, f, j)
  PROVE  JoinedWhole(L, seqs, f, i)
<1> DEFINE s == f[i - 1]
           t == seqs[i]
<1>1. i - 1 \in 1..Len(seqs) /\ f[i] = s \o t /\ i - 1 \in 1..(i - 1)
  <2>1. Len(seqs) \in Nat /\ i - 1 \in 1..(i - 1)
    OBVIOUS
  <2>2. i - 1 \in 1..Len(seqs) /\ f[i] = s \o t
    BY <2>1, JoinSteps, Zenon
  <2> QED
    BY <2>1, <2>2
<1>2. s \in Seq(L) /\ t \in Seq(L)
  BY <1>1 DEF JoinedWhole
<1>3. Before(f, i) = Len(s)
  BY DEF Before
<1> HIDE DEF s, t
<1>4. /\ f[i] \in Seq(L) /\ Len(f[i]) = Len(s) + Len(t) /\ Len(s) \in Nat /\ Len(t) \in Nat
      /\ DOMAIN t = 1..Len(t)
      /\ \A k \in 1..Len(s) : f[i][k] = s[k]
      /\ \A k \in 1..Len(t) : f[i][Len(s) + k] = t[k]
  BY <1>1, <1>2, JoinOne
<1>5. ASSUME NEW j \in 1..i
      PROVE  /\ Len(f[j]) \in Nat /\ Len(f[j]) <= Len(f[i])
             /\ \A k \in DOMAIN seqs[j] : f[i][Before(f, j) + k] = seqs[j][k]
  <2>1. CASE j = i
    <3>1. seqs[j] = t /\ Before(f, j) = Len(s)
      BY <1>3, <2>1 DEF t
    <3>2. \A k \in DOMAIN seqs[j] : f[i][Before(f, j) + k] = seqs[j][k]
      BY <1>4, <3>1
    <3>3. Len(f[j]) = Len(f[i]) /\ Len(f[i]) \in Nat
      BY <1>4, <2>1
    <3> QED
      BY <3>2, <3>3
  <2>2. CASE j # i
    <3>1. j \in 1..(i - 1) /\ i - 1 \in 1..(i - 1)
      BY <1>1, <2>2
    <3>2. JoinedWhole(L, seqs, f, i - 1) /\ JoinedWhole(L, seqs, f, j)
      BY <3>1
    <3>3. Len(f[j]) \in Nat /\ Len(f[j]) <= Len(s)
      BY <3>1, <3>2 DEF JoinedWhole, s
    <3>4. Before(f, j) \in Nat /\ Before(f, j) + Len(seqs[j]) = Len(f[j])
      BY <3>2 DEF JoinedWhole
    <3>5. ASSUME NEW k \in DOMAIN seqs[j]
          PROVE  f[i][Before(f, j) + k] = seqs[j][k]
      <4>1. s[Before(f, j) + k] = seqs[j][k]
        BY <3>1, <3>2 DEF JoinedWhole, s
      <4>2. seqs[j] \in Seq(L)
        BY <1>1, <3>1
      <4>3. k \in 1..Len(seqs[j]) /\ Len(seqs[j]) \in Nat
        BY <4>2
      <4>4. Before(f, j) + k \in 1..Len(s)
        BY <1>4, <3>3, <3>4, <4>3
      <4> QED
        BY <1>4, <4>1, <4>4
    <3>6. Len(f[j]) <= Len(f[i])
      BY <1>4, <3>3
    <3> QED
      BY <3>3, <3>5, <3>6
  <2> QED
    BY <2>1, <2>2
<1>6. Before(f, i) \in Nat /\ Before(f, i) + Len(seqs[i]) = Len(f[i])
  BY <1>3, <1>4 DEF t
<1> QED
  BY <1>4, <1>5, <1>6 DEF JoinedWhole

\* All of it is joined: there is no least sequence at which it is not.
LEMMA JoinedWholeAlways ==
  ASSUME NEW L, NEW seqs \in Seq(Seq(L)), NEW f, Joins(seqs, Len(seqs), f)
  PROVE  \A i \in 1..Len(seqs) : JoinedWhole(L, seqs, f, i)
<1> DEFINE T == {i \in 1..Len(seqs) : ~ JoinedWhole(L, seqs, f, i)}
<1>1. SUFFICES ASSUME T # {}
               PROVE  FALSE
  BY <1>1
<1>2. Len(seqs) \in Nat /\ T \in SUBSET Nat
  OBVIOUS
<1>3. PICK i \in T : \A k \in T : i <= k
  BY <1>1, <1>2, LeastNumber
<1>4. i \in 1..Len(seqs) /\ ~ JoinedWhole(L, seqs, f, i)
  BY <1>3
<1>5. CASE i = 1
  <2>0. 1 \in 1..Len(seqs)
    BY <1>2, <1>4
  <2>1. f[1] = seqs[1]
    BY <2>0, JoinStart
  <2>2. seqs[1] \in Seq(L)
    BY <1>4, <1>5
  <2>3. Before(f, 1) = 0
    BY DEF Before
  <2>4. 1..1 = {1}
    OBVIOUS
  <2>5. Len(f[1]) \in Nat /\ \A k \in DOMAIN seqs[1] : k \in Nat /\ 0 + k = k
    BY <2>1, <2>2
  <2>6. JoinedWhole(L, seqs, f, 1)
    BY <2>1, <2>2, <2>3, <2>4, <2>5 DEF JoinedWhole
  <2> QED
    BY <1>4, <1>5, <2>6
<1>6. CASE i # 1
  <2>1. \A j \in 1..(i - 1) : j \in 1..Len(seqs) /\ j \notin T
    BY <1>2, <1>3, <1>4
  <2>2. \A j \in 1..(i - 1) : JoinedWhole(L, seqs, f, j)
    BY <2>1
  <2> QED
    BY <1>4, <1>6, <2>2, JoinedWholeSteps
<1> QED
  BY <1>5, <1>6

\* FlattenSeq is the last of what is joined.
LEMMA FlattenIsJoin ==
  ASSUME NEW seqs, Len(seqs) \in Nat, Len(seqs) # 0
  PROVE  \E f : Joins(seqs, Len(seqs), f) /\ FlattenSeq(seqs) = f[Len(seqs)]
<1> DEFINE n == Len(seqs)
           f == CHOOSE h : h = [i \in 1..n |-> IF i = 1 THEN seqs[i] ELSE h[i - 1] \o seqs[i]]
<1>1. \E h : Joins(seqs, n, h)
  BY JoinsExist
<1>2. f = [i \in 1..n |-> IF i = 1 THEN seqs[i] ELSE f[i - 1] \o seqs[i]]
  BY <1>1, Zenon DEF Joins
<1>3. FlattenSeq(seqs) = f[n]
  BY Zenon DEF FlattenSeq
<1> HIDE DEF f
<1> QED
  BY <1>2, <1>3, Zenon DEF Joins

\* Elements of two sequences stand in the joined one in the order of their sequences.
LEMMA FlattenKeepsApart ==
  ASSUME NEW L, NEW seqs \in Seq(Seq(L)), NEW i \in DOMAIN seqs, NEW j \in DOMAIN seqs, i < j,
         NEW a \in DOMAIN seqs[i], NEW b \in DOMAIN seqs[j]
  PROVE  \E m, n \in DOMAIN FlattenSeq(seqs) :
           m < n /\ FlattenSeq(seqs)[m] = seqs[i][a] /\ FlattenSeq(seqs)[n] = seqs[j][b]
<1> DEFINE N == Len(seqs)
<1>1. N \in Nat /\ N # 0 /\ DOMAIN seqs = 1..N
  OBVIOUS
<1>2. PICK f : Joins(seqs, N, f) /\ FlattenSeq(seqs) = f[N]
  BY <1>1, FlattenIsJoin
<1>3. \A k \in 1..N : JoinedWhole(L, seqs, f, k)
  BY <1>2, JoinedWholeAlways
<1>4. i \in 1..N /\ j \in 1..N /\ N \in 1..N /\ j - 1 \in 1..N /\ i \in 1..(j - 1) /\ j # 1
  BY <1>1
<1>5. seqs[i] \in Seq(L) /\ seqs[j] \in Seq(L)
  BY <1>1
<1> DEFINE s == f[N]
           m == Before(f, i) + a
           n == Before(f, j) + b
<1>6. s \in Seq(L) /\ s[m] = seqs[i][a] /\ s[n] = seqs[j][b]
  BY <1>3, <1>4 DEF JoinedWhole
<1>7. /\ Before(f, i) \in Nat /\ Before(f, i) + Len(seqs[i]) = Len(f[i])
      /\ Before(f, j) \in Nat /\ Before(f, j) + Len(seqs[j]) = Len(f[j])
      /\ Len(f[i]) \in Nat /\ Len(f[i]) <= Len(f[j - 1])
      /\ Len(f[j]) \in Nat /\ Len(f[j]) <= Len(s)
  <2>1. JoinedWhole(L, seqs, f, i) /\ JoinedWhole(L, seqs, f, j) /\ JoinedWhole(L, seqs, f, j - 1) /\ JoinedWhole(L, seqs, f, N)
    BY <1>3, <1>4
  <2>2. Len(f[i]) \in Nat /\ Len(f[i]) <= Len(f[j - 1])
    BY <1>4, <2>1 DEF JoinedWhole
  <2>3. Len(f[j]) \in Nat /\ Len(f[j]) <= Len(s)
    BY <1>4, <2>1 DEF JoinedWhole
  <2> QED
    BY <2>1, <2>2, <2>3 DEF JoinedWhole
<1>8. Before(f, j) = Len(f[j - 1])
  BY <1>4 DEF Before
<1>9. a \in 1..Len(seqs[i]) /\ b \in 1..Len(seqs[j]) /\ Len(seqs[i]) \in Nat /\ Len(seqs[j]) \in Nat
  BY <1>5
<1>10. DOMAIN s = 1..Len(s) /\ Len(s) \in Nat
  BY <1>6
<1> HIDE DEF s, N
<1>11. m \in 1..Len(s) /\ n \in 1..Len(s) /\ m < n
  <2> DEFINE before == Before(f, i)
             long == Len(seqs[i])
             after == Len(f[i])
             starts == Before(f, j)
             more == Len(seqs[j])
             ends == Len(f[j])
             all == Len(s)
  <2>1. /\ before \in Nat /\ long \in Nat /\ after \in Nat /\ starts \in Nat /\ more \in Nat
        /\ ends \in Nat /\ all \in Nat
        /\ before + long = after /\ starts + more = ends /\ after <= starts /\ ends <= all
    BY <1>7, <1>8, <1>9, <1>10
  <2>2. a \in 1..long /\ b \in 1..more /\ m = before + a /\ n = starts + b
    BY <1>9
  <2> HIDE DEF before, long, after, starts, more, ends, all, m, n
  <2>3. m \in 1..all /\ n \in 1..all /\ m < n
    BY <2>1, <2>2
  <2> QED
    BY <2>3 DEF all
<1> HIDE DEF m, n
<1> QED
  BY <1>2, <1>6, <1>10, <1>11 DEF s

\* An entity of the registry and its links: the keys a row may have, the rows pinned.
Link(Ids, Keys) == [keys : SUBSET Keys, pins : SUBSET Ids]

Entity(Ids, Keys, Kinds) ==
  [id : Ids, kind : Kinds, links : Seq(Link(Ids, Keys)), hours : SUBSET Keys]

\* In a registry whose links are owned once, no row is linked to two entities.
LEMMA NoTwoOwners ==
  ASSUME NEW Ids, NEW Keys, NEW Kinds, NEW entities \in Seq(Entity(Ids, Keys, Kinds)),
         OwnedOnce(FlattenSeq([i \in DOMAIN entities |-> entities[i].links])),
         NEW i \in DOMAIN entities, NEW j \in DOMAIN entities, i < j, NEW rows, NEW r
  PROVE  ~ (r \in LinkedContacts(entities[i], rows) /\ r \in LinkedContacts(entities[j], rows))
<1> DEFINE L == Link(Ids, Keys)
           seqs == [k \in DOMAIN entities |-> entities[k].links]
           flat == FlattenSeq(seqs)
<1>1. seqs \in Seq(Seq(L))
  <2>1. DOMAIN entities = 1..Len(entities) /\ Len(entities) \in Nat
    OBVIOUS
  <2>2. \A e \in Entity(Ids, Keys, Kinds) : e.links \in Seq(L)
    BY DEF Entity
  <2>3. \A k \in DOMAIN entities : entities[k] \in Entity(Ids, Keys, Kinds)
    OBVIOUS
  <2> HIDE DEF L
  <2> QED
    BY <2>1, <2>2, <2>3
<1>2. DOMAIN seqs = DOMAIN entities /\ seqs[i] = entities[i].links /\ seqs[j] = entities[j].links
  OBVIOUS
<1> HIDE DEF L, seqs
<1>3. SUFFICES ASSUME r \in LinkedContacts(entities[i], rows), r \in LinkedContacts(entities[j], rows)
               PROVE  FALSE
  OBVIOUS
<1>4. PICK a \in DOMAIN seqs[i] : /\ r.key \in seqs[i][a].keys
                                  /\ seqs[i][a].pins # {} => r.id \in seqs[i][a].pins
  BY <1>2, <1>3 DEF LinkedContacts
<1>5. PICK b \in DOMAIN seqs[j] : /\ r.key \in seqs[j][b].keys
                                  /\ seqs[j][b].pins # {} => r.id \in seqs[j][b].pins
  BY <1>2, <1>3 DEF LinkedContacts
<1>6. PICK m \in DOMAIN flat, n \in DOMAIN flat : m < n /\ flat[m] = seqs[i][a] /\ flat[n] = seqs[j][b]
  BY <1>1, <1>2, FlattenKeepsApart
<1> HIDE DEF flat
<1> DEFINE left == flat[m]
           right == flat[n]
<1>7. left = seqs[i][a] /\ right = seqs[j][b]
  BY <1>6
<1> HIDE DEF left, right
<1>8. /\ r.key \in left.keys /\ r.key \in right.keys
      /\ left.pins # {} => r.id \in left.pins
      /\ right.pins # {} => r.id \in right.pins
  BY <1>4, <1>5, <1>7
<1>9. left.keys \cap right.keys # {}
  BY <1>8, Zenon
<1>10. left.pins # {} /\ right.pins # {} /\ left.pins \cap right.pins = {}
  BY <1>6, <1>9, Zenon DEF OwnedOnce, seqs, flat, left, right
<1> QED
  BY <1>8, <1>10, Zenon

(***************************************************************************)
(* RowOwnedOnce for any registry and any rows: in a registry that is       *)
(* accepted no contact row answers for two entities, whatever keys their   *)
(* links share (validate_entities and linked_contacts, entity_facts.py).   *)
(***************************************************************************)
THEOREM EveryRowOwnedOnce ==
  ASSUME NEW Ids, NEW Keys, NEW Kinds, NEW rows, NEW entities \in Seq(Entity(Ids, Keys, Kinds))
  PROVE  RowOwnedOnce([entities |-> entities, rows |-> rows])
<1> DEFINE x == [entities |-> entities, rows |-> rows]
           kept == [i \in DOMAIN entities |-> [entities[i] EXCEPT !.kind = DeskKind(entities[i])]]
<1>1. x.entities = entities /\ x.rows = rows
  OBVIOUS
<1>2. SUFFICES ASSUME NEW accepted \in ValidateEntities(entities), NEW r \in rows
               PROVE  Cardinality({i \in DOMAIN accepted : r \in LinkedContacts(accepted[i], rows)}) <= 1
  BY <1>1 DEF RowOwnedOnce
<1>3. accepted = kept /\ OwnedOnce(FlattenSeq([i \in DOMAIN entities |-> entities[i].links]))
  BY <1>2 DEF ValidateEntities
<1>4. DOMAIN accepted = DOMAIN entities /\ \A i \in DOMAIN entities : accepted[i].links = entities[i].links
  <2>1. \A i \in DOMAIN entities : entities[i] \in Entity(Ids, Keys, Kinds)
    OBVIOUS
  <2>2. \A e \in Entity(Ids, Keys, Kinds) : \A k : [e EXCEPT !.kind = k].links = e.links
    BY DEF Entity
  <2> QED
    BY <1>3, <2>1, <2>2
<1>5. \A i \in DOMAIN entities : LinkedContacts(accepted[i], rows) = LinkedContacts(entities[i], rows)
  BY <1>4, Zenon DEF LinkedContacts
<1> DEFINE owners == {i \in DOMAIN entities : r \in LinkedContacts(entities[i], rows)}
<1>6. {i \in DOMAIN accepted : r \in LinkedContacts(accepted[i], rows)} = owners
  BY <1>4, <1>5
<1>7. ASSUME NEW i \in owners, NEW j \in owners
      PROVE  i = j
  <2>1. i \in Int /\ j \in Int /\ i \in DOMAIN entities /\ j \in DOMAIN entities
    OBVIOUS
  <2>2. ~ (i < j) /\ ~ (j < i)
    BY <1>3, <2>1, NoTwoOwners
  <2> QED
    BY <2>1, <2>2
<1> HIDE DEF owners
<1>8. Cardinality(owners) <= 1
  <2>1. CASE owners = {}
    BY <2>1, FS_EmptySet
  <2>2. CASE owners # {}
    <3>1. PICK i \in owners : owners = {i}
      BY <1>7, <2>2
    <3>2. Cardinality({i}) = 1
      BY FS_Singleton
    <3> QED
      BY <3>1, <3>2
  <2> QED
    BY <2>1, <2>2
<1> QED
  BY <1>6, <1>8

-----------------------------------------------------------------------------
(***************************************************************************)
(* A menu says only what its labels do.                                    *)
(***************************************************************************)
Query(Words) == [diet : BOOLEAN, contains : SUBSET Words, with : SUBSET Words, without : SUBSET Words]

\* What a filter that labels can answer keeps of a question.
LEMMA AnswerableParts ==
  ASSUME NEW Words, NEW query \in Query(Words), NEW vocabulary
  PROVE  /\ Answerable(query, vocabulary).diet = query.diet
         /\ Answerable(query, vocabulary).contains = query.contains \ NUTRIENTS
         /\ Answerable(query, vocabulary).with = query.with \ Unlabelled(query, vocabulary)
         /\ Answerable(query, vocabulary).without = query.without \ Unlabelled(query, vocabulary)
         /\ Answerable(query, vocabulary) \in Query(Words)
<1> DEFINE u == Unlabelled(query, vocabulary)
           one == [query EXCEPT !.with = query.with \ u]
           two == [one EXCEPT !.without = query.without \ u]
           three == [two EXCEPT !.contains = query.contains \ NUTRIENTS]
<1>1. Answerable(query, vocabulary) = three
  BY DEF Query, Answerable
<1> HIDE DEF u
<1>2. /\ one \in Query(Words) /\ one.diet = query.diet /\ one.contains = query.contains
      /\ one.with = query.with \ u /\ one.without = query.without
  BY DEF Query
<1> HIDE DEF one
<1>3. /\ two \in Query(Words) /\ two.diet = query.diet /\ two.contains = query.contains
      /\ two.with = query.with \ u /\ two.without = query.without \ u
  BY <1>2 DEF Query
<1> HIDE DEF two
<1>4. /\ three \in Query(Words) /\ three.diet = query.diet /\ three.contains = query.contains \ NUTRIENTS
      /\ three.with = query.with \ u /\ three.without = query.without \ u
  BY <1>3 DEF Query
<1> HIDE DEF three
<1> QED
  BY <1>1, <1>4 DEF u

\* A filter that is none asks nothing, and one that asks nothing is none.
LEMMA FilterIsNone ==
  ASSUME NEW Words, NEW query \in Query(Words)
  PROVE  query = NoFilter <=>
           query.diet = FALSE /\ query.contains = {} /\ query.with = {} /\ query.without = {}
<1>1. query = [diet |-> query.diet, contains |-> query.contains, with |-> query.with,
               without |-> query.without]
  BY DEF Query
<1> QED
  BY <1>1 DEF NoFilter

\* The question as it is with what no label could answer taken out asks nothing.
LEMMA NothingToAnswer ==
  ASSUME NEW Words, NEW query \in Query(Words), NEW vocabulary,
         query.without \subseteq Unlabelled(query, vocabulary), query.without # {},
         query.diet = FALSE, query.contains = {}, query.with = {}
  PROVE  /\ Answerable(query, vocabulary) = NoFilter
         /\ [Answerable(query, vocabulary) EXCEPT !.contains = query.contains] = NoFilter
         /\ Unlabelled(query, vocabulary) # {}
<1> DEFINE filter == Answerable(query, vocabulary)
<1>1. filter = NoFilter
  <2>1. filter \in Query(Words) /\ filter.diet = FALSE /\ filter.contains = {} /\ filter.with = {} /\ filter.without = {}
    BY AnswerableParts
  <2> HIDE DEF filter
  <2> QED
    BY <2>1, FilterIsNone
<1> QED
  BY <1>1 DEF NoFilter

\* What passes a filter is of the labels it asks for: a vegan dish is marked so, what is
\* asked to be free of an allergen a label names is read and free of it.
LEMMA KeptByLabel ==
  ASSUME NEW Words, NEW query \in Query(Words), NEW vocabulary, NEW r,
         MenuKept(r, Answerable(query, vocabulary))
  PROVE  /\ query.diet => r.vegan
         /\ \A a \in query.without :
              a \in Unlabelled(query, vocabulary)
                \/ ("allergens" \in r.covers /\ LabelsFor(a, r.labels) = {})
         /\ query.with # {} /\ query.with \cap Unlabelled(query, vocabulary) = {} =>
              \E a \in query.with : LabelsFor(a, r.labels) # {}
<1> DEFINE filter == Answerable(query, vocabulary)
           u == Unlabelled(query, vocabulary)
<1>1. /\ filter.diet = query.diet
      /\ filter.with = query.with \ u
      /\ filter.without = query.without \ u
  BY AnswerableParts
<1> HIDE DEF filter, u
<1>2. /\ filter.diet => r.vegan
      /\ filter.with # {} => \E a \in filter.with : LabelsFor(a, r.labels) # {}
      /\ filter.without # {} => "allergens" \in r.covers /\ ~ \E a \in filter.without : LabelsFor(a, r.labels) # {}
  BY Zenon DEF MenuKept, filter
<1>3. ASSUME NEW a \in query.without, a \notin u
      PROVE  "allergens" \in r.covers /\ LabelsFor(a, r.labels) = {}
  BY <1>1, <1>2, <1>3
<1>4. query.with # {} /\ query.with \cap u = {} => filter.with = query.with
  BY <1>1
<1> QED
  BY <1>1, <1>2, <1>3, <1>4 DEF u

\* What is shown of the dishes that passed is some of them, and some whenever any did.
LEMMA ShownOfPicked ==
  ASSUME NEW picked
  PROVE  Shown(picked) \subseteq picked
<1> DEFINE before(r, s) == \/ MealRank(r.meal) < MealRank(s.meal)
                           \/ r.meal = s.meal /\ (r.station < s.station \/ (r.station = s.station /\ r.id < s.id))
           few == {r \in picked : Cardinality({s \in picked : s.meal = r.meal /\ s.station = r.station
                                                              /\ before(s, r)}) < MATCHES_PER_STATION}
<1>1. Shown(picked) = IF Cardinality(picked) <= MAX_MATCHES_LISTED THEN picked
                      ELSE {r \in few : Cardinality({s \in few : before(s, r)}) < MATCHES_SHOWN}
  BY Zenon DEF Shown
<1> QED
  BY <1>1, Zenon

\* Every meal has a rank.
LEMMA MealsAreRanked ==
  ASSUME NEW meal \in ToSet(MealOrder)
  PROVE  MealRank(meal) \in Nat
<1>1. PICK i \in DOMAIN MealOrder : MealOrder[i] = meal
  BY DEF ToSet
<1>2. MealRank(meal) \in DOMAIN MealOrder
  BY <1>1 DEF MealRank
<1>3. DOMAIN MealOrder = 1..4
  BY DEF MealOrder
<1> QED
  BY <1>2, <1>3

\* Of dishes that passed, some dish is shown: the first of a station of the earliest meal.
LEMMA SomeShown ==
  ASSUME NEW picked, picked # {},
         \A r \in picked : r.meal \in ToSet(MealOrder) /\ r.station \in Nat /\ r.id \in Nat
  PROVE  Shown(picked) # {}
<1> DEFINE before(r, s) == \/ MealRank(r.meal) < MealRank(s.meal)
                           \/ r.meal = s.meal /\ (r.station < s.station \/ (r.station = s.station /\ r.id < s.id))
           few == {r \in picked : Cardinality({s \in picked : s.meal = r.meal /\ s.station = r.station
                                                              /\ before(s, r)}) < MATCHES_PER_STATION}
           meals == {MealRank(r.meal) : r \in picked}
<1>1. meals \in SUBSET Nat /\ meals # {}
  BY MealsAreRanked
<1>2. PICK m \in meals : \A n \in meals : m <= n
  BY <1>1, LeastNumber
<1> DEFINE first == {r \in picked : MealRank(r.meal) = m}
           stations == {r.station : r \in first}
<1>3. first # {} /\ stations \in SUBSET Nat /\ stations # {}
  BY <1>2
<1>4. PICK t \in stations : \A n \in stations : t <= n
  BY <1>3, LeastNumber
<1> DEFINE there == {r \in first : r.station = t}
           ids == {r.id : r \in there}
<1>5. there # {} /\ ids \in SUBSET Nat /\ ids # {}
  BY <1>4
<1>6. PICK d \in ids : \A n \in ids : d <= n
  BY <1>5, LeastNumber
<1>7. PICK r \in there : r.id = d
  BY <1>6
<1>8. r \in picked /\ MealRank(r.meal) = m /\ r.station = t /\ r.id = d
  BY <1>7
<1>9. m \in Nat /\ t \in Nat /\ d \in Nat
  BY <1>1, <1>2, <1>3, <1>4, <1>5, <1>6
<1>10. ASSUME NEW s \in picked
       PROVE  ~ before(s, r)
  <2>1. MealRank(s.meal) \in Nat /\ s.station \in Nat /\ s.id \in Nat
    BY MealsAreRanked
  <2>2. m <= MealRank(s.meal)
    BY <1>2
  <2>3. s.meal = r.meal => t <= s.station
    BY <1>4, <1>8
  <2>4. s.meal = r.meal /\ s.station = r.station => d <= s.id
    BY <1>6, <1>8
  <2> QED
    BY <1>8, <1>9, <2>1, <2>2, <2>3, <2>4
<1> HIDE DEF before
<1>11. Cardinality({}) < MATCHES_PER_STATION /\ Cardinality({}) < MATCHES_SHOWN
  BY FS_EmptySet DEF MATCHES_PER_STATION, MATCHES_SHOWN
<1>12. {s \in picked : s.meal = r.meal /\ s.station = r.station /\ before(s, r)} = {}
  BY <1>10
<1>13. r \in few
  BY <1>8, <1>11, <1>12
<1>14. {s \in few : before(s, r)} = {}
  BY <1>10
<1>15. Shown(picked) = IF Cardinality(picked) <= MAX_MATCHES_LISTED THEN picked
                       ELSE {x \in few : Cardinality({s \in few : before(s, x)}) < MATCHES_SHOWN}
  BY Zenon DEF Shown, before
<1> HIDE DEF few
<1>16. r \in {x \in few : Cardinality({s \in few : before(s, x)}) < MATCHES_SHOWN}
  BY <1>11, <1>13, <1>14
<1> QED
  BY <1>8, <1>15, <1>16

\* The dishes read for a meal are of that meal, or of the brunch in its place.
LEMMA MealRowsOf ==
  ASSUME NEW day, NEW meal
  PROVE  /\ MealRows(day, meal) \subseteq day
         /\ meal # "" => \A r \in MealRows(day, meal) :
                           r.meal = meal \/ (meal \in {"breakfast", "lunch"} /\ r.meal = "brunch")
<1> DEFINE of(m) == {r \in day : r.meal = m}
<1>1. MealRows(day, meal) = IF meal = "" THEN day
        ELSE IF of(meal) # {} THEN of(meal)
        ELSE IF meal \in {"breakfast", "lunch"} THEN of("brunch") ELSE {}
  BY Zenon DEF MealRows
<1> QED
  BY <1>1

\* The menu of a date, as the filters of MenuProperty make it: what it says of the dishes.
LEMMA MenuParts ==
  ASSUME NEW Words, NEW query \in Query(Words), NEW rows, NEW on, NEW meal,
         \A r \in rows : r.meal \in ToSet(MealOrder) /\ r.station \in Nat /\ r.id \in Nat,
         IsFiniteSet(rows),
         MenuProperty(rows, on, meal, query).status = "known"
  PROVE  LET x == [rows |-> rows, meal |-> meal, query |-> query]
             found == MenuProperty(rows, on, meal, query)
         IN  /\ FreeOnlyByLabel(x, found, LAMBDA r : "allergens" \in r.covers)
             /\ UnlabelledAlone(x, found)
             /\ MealAnswered(x, found)
<1> DEFINE x == [rows |-> rows, meal |-> meal, query |-> query]
           found == MenuProperty(rows, on, meal, query)
           day == {r \in rows : r.date = on}
           asked == MealRows(day, meal)
           notListed == asked = {}
           read == IF notListed THEN day ELSE asked
           vocabulary == UNION {r.labels : r \in read}
           unlabelled == Unlabelled(query, vocabulary)
           filter == Answerable(query, vocabulary)
           unanswerable == unlabelled # {} /\ [filter EXCEPT !.contains = query.contains] = NoFilter
           filtering == filter # NoFilter
           passing == {r \in read : MenuKept(r, filter)}
           picked == IF unanswerable THEN {} ELSE IF filtering THEN passing ELSE read
           later == {r \in rows : r.date > on /\ MenuKept(r, filter)}
           items == IF notListed THEN {} ELSE IF filtering THEN Shown(picked) ELSE picked
           matched == IF filtering THEN Cardinality(picked) ELSE -1
           meals == IF filtering /\ picked = {} THEN {r.meal : r \in read}
                    ELSE IF notListed THEN {r.meal : r \in picked} ELSE {}
           others == IF filtering /\ picked = {} /\ filter.contains # {} THEN later ELSE {}
           rest == IF filtering /\ (filter.diet \/ filter.with # {} \/ filter.without # {})
                   THEN read \ picked ELSE {}
           cited == IF picked = {} THEN read ELSE picked
<1>1. found = IF day = {} THEN [status |-> "unknown", dates |-> {r.date : r \in rows}]
              ELSE [status |-> "known", items |-> items, matched |-> matched, unlabelled |-> unlabelled,
                    nutrients |-> query.contains \cap NUTRIENTS, notListed |-> notListed,
                    meals |-> meals, later |-> others, rest |-> rest, cited |-> cited]
  BY Zenon DEF MenuProperty
<1>2. query \in Query(Words)
  OBVIOUS
<1> DEFINE unknown == [status |-> "unknown", dates |-> {r.date : r \in rows}]
<1>3. unknown.status # "known"
  OBVIOUS
<1> HIDE DEF found, day, asked, notListed, read, vocabulary, unlabelled, filter, unanswerable,
            filtering, passing, picked, items, matched, meals, others, rest, cited, unknown
<1>4. day # {}
  BY <1>1, <1>3, Zenon DEF found, unknown
<1>5. /\ found.items = items /\ found.matched = matched /\ found.unlabelled = unlabelled
      /\ found.notListed = notListed /\ found.meals = meals
  BY <1>1, <1>4
<1>6. asked \subseteq day /\ (meal # "" => \A r \in asked :
                                r.meal = meal \/ (meal \in {"breakfast", "lunch"} /\ r.meal = "brunch"))
  BY MealRowsOf DEF asked
<1>7. read # {} /\ read \subseteq day /\ (~ notListed => read = asked)
  BY <1>4, <1>6 DEF read, notListed
<1>8. picked \subseteq read /\ items \subseteq picked /\ (notListed => items = {})
  BY ShownOfPicked DEF picked, items, passing
<1>9. x.meal = meal /\ x.query = query
  OBVIOUS
<1> HIDE DEF x
<1>10. filtering => picked \subseteq passing
  BY DEF picked
<1>11. FreeOnlyByLabel(x, found, LAMBDA r : "allergens" \in r.covers)
  <2>1. ASSUME NEW r \in items
        PROVE  /\ query.diet => r.vegan
               /\ \A a \in query.without :
                    a \in unlabelled \/ ("allergens" \in r.covers /\ LabelsFor(a, r.labels) = {})
               /\ query.with # {} /\ query.with \cap unlabelled = {} =>
                    \E a \in query.with : LabelsFor(a, r.labels) # {}
    <3>1. CASE filtering
      <4>1. MenuKept(r, filter)
        BY <1>8, <1>10, <3>1 DEF passing
      <4> QED
        BY <4>1, KeptByLabel DEF filter, unlabelled
    <3>2. CASE ~ filtering
      <4>1. /\ query.diet = FALSE
            /\ query.with \ unlabelled = {}
            /\ query.without \ unlabelled = {}
        <5>1. filter = NoFilter
          BY <3>2 DEF filtering
        <5>2. filter.diet = FALSE /\ filter.with = {} /\ filter.without = {}
          BY <5>1 DEF NoFilter
        <5> QED
          BY <5>2, AnswerableParts DEF filter, unlabelled
      <4> QED
        BY <4>1
    <3> QED
      BY <3>1, <3>2
  <2> QED
    BY <1>5, <1>9, <2>1, Zenon DEF FreeOnlyByLabel
<1>12. UnlabelledAlone(x, found)
  <2>1. SUFFICES ASSUME query.without \subseteq unlabelled, query.without # {}, ~ query.diet,
                        query.contains = {}, query.with = {}
                 PROVE  items = {}
    BY <1>5, <1>9, Zenon DEF UnlabelledAlone
  <2>2. query.diet = FALSE
    BY <2>1 DEF Query
  <2>3. filter = NoFilter /\ unanswerable
    BY <2>1, <2>2, NothingToAnswer DEF filter, unlabelled, unanswerable
  <2>4. picked = {}
    BY <2>3 DEF picked
  <2> QED
    BY <1>8, <2>4
<1>13. MealAnswered(x, found)
  <2>1. ASSUME meal # "", NEW r \in items
        PROVE  r.meal = meal \/ (meal \in {"breakfast", "lunch"} /\ r.meal = "brunch")
    BY <1>6, <1>7, <1>8, <2>1
  <2>2. IsFiniteSet(picked)
    <3>1. picked \subseteq rows
      BY <1>7, <1>8 DEF day
    <3> QED
      BY <3>1, FS_Subset
  <2>3. ASSUME matched = 0
        PROVE  meals # {} /\ items = {}
    <3>1. filtering /\ Cardinality(picked) = 0
      BY <2>3 DEF matched
    <3>2. picked = {}
      BY <2>2, <3>1, FS_EmptySet
    <3> QED
      BY <1>7, <1>8, <3>1, <3>2 DEF meals
  <2>4. ASSUME notListed, unlabelled = {}
        PROVE  meals # {} /\ items = {}
    <3>1. CASE filtering /\ picked = {}
      BY <1>7, <1>8, <2>4, <3>1 DEF meals
    <3>2. CASE ~ (filtering /\ picked = {})
      <4>1. ~ unanswerable
        BY <2>4 DEF unanswerable
      <4>2. picked # {}
        BY <1>7, <3>2, <4>1 DEF picked
      <4> QED
        BY <1>8, <2>4, <3>2, <4>2 DEF meals
    <3> QED
      BY <3>1, <3>2
  <2>5. ASSUME matched > 0, ~ notListed
        PROVE  items # {}
    <3>1. filtering /\ Cardinality(picked) > 0
      BY <2>5 DEF matched
    <3>2. picked # {}
      BY <3>1, FS_EmptySet
    <3>3. \A r \in picked : r.meal \in ToSet(MealOrder) /\ r.station \in Nat /\ r.id \in Nat
      BY <1>7, <1>8 DEF day
    <3> QED
      BY <2>5, <3>1, <3>2, <3>3, SomeShown DEF items
  <2> QED
    BY <1>5, <1>9, <2>1, <2>3, <2>4, <2>5, Zenon DEF MealAnswered
<1> QED
  BY <1>11, <1>12, <1>13, Zenon DEF x, found

\* The same of a board, whose labels are its items' alone.
LEMMA KeptOnBoard ==
  ASSUME NEW Words, NEW query \in Query(Words), NEW vocabulary, NEW r,
         BoardKept(r, Answerable(query, vocabulary))
  PROVE  /\ query.diet => r.vegan
         /\ \A a \in query.without :
              a \in Unlabelled(query, vocabulary) \/ (r.labels # {} /\ LabelsFor(a, r.labels) = {})
         /\ query.with # {} /\ query.with \cap Unlabelled(query, vocabulary) = {} =>
              \E a \in query.with : LabelsFor(a, r.labels) # {}
<1> DEFINE filter == Answerable(query, vocabulary)
           u == Unlabelled(query, vocabulary)
<1>1. /\ filter.diet = query.diet
      /\ filter.with = query.with \ u
      /\ filter.without = query.without \ u
  BY AnswerableParts
<1> HIDE DEF filter, u
<1>2. /\ filter.diet => r.vegan
      /\ filter.with # {} => \E a \in filter.with : LabelsFor(a, r.labels) # {}
      /\ filter.without # {} => r.labels # {} /\ ~ \E a \in filter.without : LabelsFor(a, r.labels) # {}
  BY Zenon DEF BoardKept, filter
<1>3. ASSUME NEW a \in query.without, a \notin u
      PROVE  r.labels # {} /\ LabelsFor(a, r.labels) = {}
  BY <1>1, <1>2, <1>3
<1>4. query.with # {} /\ query.with \cap u = {} => filter.with = query.with
  BY <1>1
<1> QED
  BY <1>1, <1>2, <1>3, <1>4 DEF u

\* The dishes read of a board for a meal are of no other meal, if it has any such.
LEMMA BoardRowsOf ==
  ASSUME NEW board, NEW meal
  PROVE  /\ BoardRows(board, meal) \subseteq board
         /\ meal # "" /\ (\E r \in board : ~ OtherMeal(r.section, meal)) =>
              \A r \in BoardRows(board, meal) : ~ OtherMeal(r.section, meal)
<1> DEFINE named == {r \in board : r.section = meal}
           kept == {r \in board : ~ OtherMeal(r.section, meal)}
<1>1. BoardRows(board, meal) = IF meal = "" THEN board
        ELSE IF named # {} THEN named ELSE IF kept # {} THEN kept ELSE board
  BY Zenon DEF BoardRows
<1>2. ~ OtherMeal(meal, meal)
  BY DEF OtherMeal
<1>3. \A r \in named : ~ OtherMeal(r.section, meal)
  BY <1>2
<1>4. \A r \in kept : ~ OtherMeal(r.section, meal)
  OBVIOUS
<1>5. named \subseteq board /\ kept \subseteq board
  OBVIOUS
<1>6. (\E r \in board : ~ OtherMeal(r.section, meal)) => kept # {}
  OBVIOUS
<1> HIDE DEF named, kept
<1> QED
  BY <1>1, <1>3, <1>4, <1>5, <1>6

\* The same of a board: what it says of its items.
LEMMA BoardParts ==
  ASSUME NEW Words, NEW query \in Query(Words), NEW rows, NEW meal, IsFiniteSet(rows),
         NEW found \in MenuBoardProperty(rows, meal, query)
  PROVE  LET x == [rows |-> rows, meal |-> meal, query |-> query]
         IN  /\ FreeOnlyByLabel(x, found, LAMBDA r : r.labels # {})
             /\ UnlabelledAlone(x, found)
             /\ BoardAnswered(x, found)
<1> DEFINE x == [rows |-> rows, meal |-> meal, query |-> query]
           vocabulary == UNION {r.labels : r \in rows}
           filter == Answerable(query, vocabulary)
           unlabelled == Unlabelled(query, vocabulary)
           read == BoardRows(rows, meal)
           passing == {r \in read : BoardKept(r, filter)}
           picked == IF filter # NoFilter THEN passing ELSE IF unlabelled # {} THEN {} ELSE read
           matched == IF filter # NoFilter THEN Cardinality(picked) ELSE -1
           leftOut == {r.section : r \in {s \in rows \ read : OtherMeal(s.section, meal)}}
           stations == IF filter # NoFilter /\ picked = {} THEN {r.station : r \in rows} ELSE {}
           detailed == \/ filter # NoFilter /\ Cardinality(picked) <= MAX_BOARD_DETAILED
                       \/ meal # "" /\ \E r \in rows : r.section = meal
           board == [status |-> "known", items |-> picked, unlabelled |-> unlabelled, matched |-> matched,
                     leftOut |-> leftOut, stations |-> stations, detailed |-> detailed]
<1>1. MenuBoardProperty(rows, meal, query) =
        IF rows = {} \/ Cardinality({r.title : r \in rows}) # 1 THEN {} ELSE {board}
  BY Zenon DEF MenuBoardProperty
<1>2. x.rows = rows /\ x.meal = meal /\ x.query = query
  OBVIOUS
<1> HIDE DEF x, vocabulary, filter, unlabelled, read, passing, picked, matched, leftOut, stations, detailed
<1>3. rows # {} /\ found = board
  BY <1>1
<1>4. /\ found.items = picked /\ found.matched = matched /\ found.unlabelled = unlabelled
      /\ found.stations = stations
  BY <1>3
<1>5. /\ read \subseteq rows
      /\ meal # "" /\ (\E r \in rows : ~ OtherMeal(r.section, meal)) =>
           \A r \in read : ~ OtherMeal(r.section, meal)
  BY BoardRowsOf DEF read
<1>6. picked \subseteq read
  BY DEF picked, passing
<1>7. FreeOnlyByLabel(x, found, LAMBDA r : r.labels # {})
  <2>1. ASSUME NEW r \in picked
        PROVE  /\ query.diet => r.vegan
               /\ \A a \in query.without : a \in unlabelled \/ (r.labels # {} /\ LabelsFor(a, r.labels) = {})
               /\ query.with # {} /\ query.with \cap unlabelled = {} =>
                    \E a \in query.with : LabelsFor(a, r.labels) # {}
    <3>1. CASE filter # NoFilter
      <4>1. BoardKept(r, filter)
        BY <3>1 DEF picked, passing
      <4> QED
        BY <4>1, KeptOnBoard DEF filter, unlabelled
    <3>2. CASE filter = NoFilter
      <4>1. filter.diet = FALSE /\ filter.with = {} /\ filter.without = {}
        BY <3>2 DEF NoFilter
      <4>2. query.diet = FALSE /\ query.with \ unlabelled = {} /\ query.without \ unlabelled = {}
        BY <4>1, AnswerableParts DEF filter, unlabelled
      <4> QED
        BY <4>2
    <3> QED
      BY <3>1, <3>2
  <2> QED
    BY <1>2, <1>4, <2>1, Zenon DEF FreeOnlyByLabel
<1>8. UnlabelledAlone(x, found)
  <2>1. SUFFICES ASSUME query.without \subseteq unlabelled, query.without # {}, ~ query.diet,
                        query.contains = {}, query.with = {}
                 PROVE  picked = {}
    BY <1>2, <1>4, Zenon DEF UnlabelledAlone
  <2>2. query.diet = FALSE
    BY <2>1 DEF Query
  <2>3. filter = NoFilter /\ unlabelled # {}
    BY <2>1, <2>2, NothingToAnswer DEF filter, unlabelled
  <2> QED
    BY <2>3 DEF picked
<1>9. BoardAnswered(x, found)
  <2>1. ASSUME matched = 0
        PROVE  stations # {}
    <3>1. filter # NoFilter /\ Cardinality(picked) = 0
      BY <2>1 DEF matched
    <3>2. IsFiniteSet(picked)
      BY <1>5, <1>6, FS_Subset
    <3>3. picked = {}
      BY <3>1, <3>2, FS_EmptySet
    <3> QED
      BY <1>3, <3>1, <3>3 DEF stations
  <2>2. meal # "" /\ (\E r \in rows : ~ OtherMeal(r.section, meal)) =>
          \A r \in picked : ~ OtherMeal(r.section, meal)
    BY <1>5, <1>6
  <2> QED
    BY <1>2, <1>4, <2>1, <2>2, Zenon DEF BoardAnswered
<1> QED
  BY <1>7, <1>8, <1>9, Zenon DEF x

(***************************************************************************)
(* MenuSafe for any finite menu or board and any question: a dish is       *)
(* offered as free of an allergen, or vegan, only on labels that were      *)
(* published for it, an allergen no label names offers nothing by itself,  *)
(* no meal but the one asked is read out, and "none" comes with what the   *)
(* menu does have (menu_property and menu_board_property,                  *)
(* entity_facts.py).                                                       *)
(***************************************************************************)
THEOREM EveryMenuSafe ==
  ASSUME NEW Words, NEW query \in Query(Words), NEW rows, IsFiniteSet(rows), NEW meal, NEW board \in BOOLEAN,
         \A r \in rows : r.meal \in ToSet(MealOrder) /\ r.station \in Nat /\ r.id \in Nat
  PROVE  MenuSafe([board |-> board, rows |-> rows, meal |-> meal, query |-> query])
<1> DEFINE x == [board |-> board, rows |-> rows, meal |-> meal, query |-> query]
           y == [rows |-> rows, meal |-> meal, query |-> query]
<1>1. x.rows = rows /\ x.meal = meal /\ x.query = query /\ x.board = board
  OBVIOUS
<1>2. y.rows = rows /\ y.meal = meal /\ y.query = query
  OBVIOUS
<1> HIDE DEF x, y
<1>4. \A found : UnlabelledAlone(y, found) => UnlabelledAlone(x, found)
  BY <1>1, <1>2, Zenon DEF UnlabelledAlone
<1>5. ASSUME board
      PROVE  MenuSafe(x)
  <2>1. ASSUME NEW found \in MenuBoardProperty(rows, meal, query)
        PROVE  /\ FreeOnlyByLabel(x, found, LAMBDA r : r.labels # {})
               /\ UnlabelledAlone(x, found)
               /\ BoardAnswered(x, found)
    <3>1. /\ FreeOnlyByLabel(y, found, LAMBDA r : r.labels # {})
          /\ UnlabelledAlone(y, found)
          /\ BoardAnswered(y, found)
      BY BoardParts DEF y
    <3>2. FreeOnlyByLabel(x, found, LAMBDA r : r.labels # {})
      BY <1>1, <1>2, <3>1, Zenon DEF FreeOnlyByLabel
    <3>3. BoardAnswered(x, found)
      BY <1>1, <1>2, <3>1, Zenon DEF BoardAnswered
    <3> QED
      BY <1>4, <3>1, <3>2, <3>3
  <2> QED
    BY <1>1, <1>5, <2>1, Zenon DEF MenuSafe
<1>6. ASSUME ~ board
      PROVE  MenuSafe(x)
  <2> DEFINE found == MenuProperty(rows, 1, meal, query)
  <2>1. ASSUME found.status = "known"
        PROVE  /\ FreeOnlyByLabel(x, found, LAMBDA r : "allergens" \in r.covers)
               /\ UnlabelledAlone(x, found)
               /\ MealAnswered(x, found)
    <3>1. /\ FreeOnlyByLabel(y, found, LAMBDA r : "allergens" \in r.covers)
          /\ UnlabelledAlone(y, found)
          /\ MealAnswered(y, found)
      BY <2>1, MenuParts DEF y
    <3> HIDE DEF found
    <3>2. FreeOnlyByLabel(x, found, LAMBDA r : "allergens" \in r.covers)
      BY <1>1, <1>2, <3>1, Zenon DEF FreeOnlyByLabel
    <3>3. MealAnswered(x, found)
      BY <1>1, <1>2, <3>1, Zenon DEF MealAnswered
    <3> QED
      BY <1>4, <3>1, <3>2, <3>3
  <2> QED
    BY <1>1, <1>6, <2>1, Zenon DEF MenuSafe
<1> QED
  BY <1>5, <1>6 DEF x

-----------------------------------------------------------------------------
(***************************************************************************)
(* The schedules of an office.  A reading of a bucket takes the n-th row   *)
(* of each day.  Where each statement has one row of each day, the rows of *)
(* every day are counted off as the statements are, so the n-th rows are   *)
(* those of one statement: the n-th reading is its week.  What is said is  *)
(* then compared window by window.                                         *)
(***************************************************************************)
\* The greatest of finitely many numbers is one that the fewest are above.
LEMMA MaxIsGreatest ==
  ASSUME NEW T \in SUBSET Nat, T # {}, IsFiniteSet(T)
  PROVE  Max(T) \in T /\ \A y \in T : Max(T) >= y
<1> DEFINE Above(x) == {y \in T : y > x}
           counts == {Cardinality(Above(x)) : x \in T}
<1>1. \A x \in T : IsFiniteSet(Above(x)) /\ Cardinality(Above(x)) \in Nat
  BY FS_Subset, FS_CardinalityType
<1>2. counts \in SUBSET Nat /\ counts # {}
  BY <1>1
<1>3. PICK x \in T : \A y \in T : Cardinality(Above(x)) <= Cardinality(Above(y))
  <2> HIDE DEF counts
  <2>1. PICK l \in counts : \A c \in counts : l <= c
    BY <1>2, LeastNumber
  <2> USE DEF counts
  <2> HIDE DEF Above
  <2>2. PICK x \in T : l = Cardinality(Above(x))
    OBVIOUS
  <2> QED
    BY <2>1, <2>2
<1>4. ASSUME NEW y \in T, ~ (x >= y)
      PROVE  FALSE
  <2>1. y > x /\ x \in Nat /\ y \in Nat
    BY <1>4
  <2>2. Above(y) \subseteq Above(x) /\ y \in Above(x) /\ y \notin Above(y)
    <3>1. ASSUME NEW z \in Above(y)
          PROVE  z \in Above(x)
      <4>1. z \in T /\ z \in Nat /\ z > y
        BY <3>1
      <4> QED
        BY <2>1, <4>1
    <3>2. y \in Above(x) /\ ~ (y > y)
      BY <2>1
    <3> QED
      BY <3>1, <3>2
  <2> HIDE DEF Above
  <2>3. Cardinality(Above(y)) <= Cardinality(Above(x)) /\ Cardinality(Above(y)) # Cardinality(Above(x))
    BY <1>1, <2>2, FS_Subset
  <2> QED
    BY <1>1, <1>3, <2>3
<1>5. \A y \in T : x >= y
  BY <1>4
<1> QED
  BY <1>5 DEF Max

-----------------------------------------------------------------------------
\* How far a member is in an order of a set: x is before y when <<x, y>> is in R.
UpTo(S, R, x) == {y \in S : y = x \/ <<y, x>> \in R}

\* The members of a finite set, in a strict order of all of them, are counted off by how
\* many come up to each.
LEMMA OrderedOff ==
  ASSUME NEW S, IsFiniteSet(S), NEW R,
         \A x \in S : <<x, x>> \notin R,
         \A x, y \in S : x = y \/ <<x, y>> \in R \/ <<y, x>> \in R,
         \A x, y, z \in S : <<x, y>> \in R /\ <<y, z>> \in R => <<x, z>> \in R
  PROVE  /\ \A x \in S : Cardinality(UpTo(S, R, x)) \in 1..Cardinality(S)
         /\ \A x, y \in S : Cardinality(UpTo(S, R, x)) = Cardinality(UpTo(S, R, y)) => x = y
         /\ \A n \in 1..Cardinality(S) : \E x \in S : Cardinality(UpTo(S, R, x)) = n
<1> DEFINE rank == [x \in S |-> Cardinality(UpTo(S, R, x))]
<1>1. \A x \in S : IsFiniteSet(UpTo(S, R, x)) /\ Cardinality(UpTo(S, R, x)) \in 1..Cardinality(S)
  <2> TAKE x \in S
  <2>1. IsFiniteSet(UpTo(S, R, x)) /\ Cardinality(UpTo(S, R, x)) <= Cardinality(S)
    BY FS_Subset DEF UpTo
  <2>2. x \in UpTo(S, R, x)
    BY DEF UpTo
  <2>3. Cardinality(UpTo(S, R, x)) # 0
    BY <2>1, <2>2, FS_EmptySet
  <2>4. Cardinality(UpTo(S, R, x)) \in Nat /\ Cardinality(S) \in Nat
    BY <2>1, FS_CardinalityType
  <2> QED
    BY <2>1, <2>3, <2>4
<1>2. ASSUME NEW x \in S, NEW y \in S, <<x, y>> \in R
      PROVE  Cardinality(UpTo(S, R, x)) # Cardinality(UpTo(S, R, y))
  <2>1. <<y, x>> \notin R /\ x # y
    BY <1>2
  <2>2. y \in UpTo(S, R, y) /\ y \notin UpTo(S, R, x)
    BY <2>1 DEF UpTo
  <2>3. UpTo(S, R, x) \subseteq UpTo(S, R, y)
    BY <1>2 DEF UpTo
  <2>4. UpTo(S, R, x) # UpTo(S, R, y)
    BY <2>2
  <2> QED
    BY <1>1, <2>3, <2>4, FS_Subset
<1>3. \A x, y \in S : Cardinality(UpTo(S, R, x)) = Cardinality(UpTo(S, R, y)) => x = y
  BY <1>2
<1>4. rank \in Injection(S, 1..Cardinality(S))
  <2>1. rank \in [S -> 1..Cardinality(S)]
    BY <1>1
  <2> QED
    BY <1>3, <2>1 DEF Injection, IsInjective
<1>5. IsFiniteSet(1..Cardinality(S)) /\ Cardinality(1..Cardinality(S)) = Cardinality(S)
  BY FS_CardinalityType, FS_Interval
<1>6. rank \in Surjection(S, 1..Cardinality(S))
  <2> HIDE DEF rank
  <2> QED
    BY <1>4, <1>5, FS_Injection
<1>7. \A n \in 1..Cardinality(S) : \E x \in S : Cardinality(UpTo(S, R, x)) = n
  BY <1>6 DEF Surjection
<1> QED
  BY <1>1, <1>3, <1>7

-----------------------------------------------------------------------------
\* Schedules.
\* A published record of opening hours.
Listing(Words) ==
  [id : Nat, name : Words, season : Words, since : Nat, until : Nat, day : Nat, statement : Nat, hours : Words,
   omits : SUBSET Nat, checked : Nat, problem : Words, note : Nat]

\* The schedule records of an office: finitely many, each with an id of its own.
Listings(Words) ==
  {rows \in SUBSET Listing(Words) : IsFiniteSet(rows) /\ \A r, s \in rows : r.id = s.id => r = s}

\* One record is read before another.
Earlier(r, s) == r.statement < s.statement \/ (r.statement = s.statement /\ r.id < s.id)

OfDay(bucket, day) == {r \in bucket : r.day = day}

\* The rows of a day, each once and in order.
LEMMA ByDayIs ==
  ASSUME NEW Words, NEW bucket \in Listings(Words), NEW day
  PROVE  LET rows == OfDay(bucket, day)
             q == ByDay(bucket, day)
         IN  /\ Cardinality(rows) \in Nat
             /\ DOMAIN q = 1..Cardinality(rows) /\ Len(q) = Cardinality(rows)
             /\ \A n \in 1..Cardinality(rows) :
                  q[n] \in rows /\ Cardinality({s \in rows : s = q[n] \/ Earlier(s, q[n])}) = n
             /\ \A r \in rows : \E n \in 1..Cardinality(rows) : q[n] = r
<1> DEFINE rows == OfDay(bucket, day)
           upTo(r) == {s \in rows : s.statement < r.statement \/ (s.statement = r.statement /\ s.id <= r.id)}
           till(r) == {s \in rows : s = r \/ Earlier(s, r)}
           q == [n \in 1..Cardinality(rows) |-> CHOOSE r \in rows : Cardinality(upTo(r)) = n]
           R == {p \in rows \X rows : Earlier(p[1], p[2])}
<1>1. ByDay(bucket, day) = q
  BY Zenon DEF ByDay, OfDay
<1>2. IsFiniteSet(rows) /\ Cardinality(rows) \in Nat
  BY FS_Subset, FS_CardinalityType DEF Listings, OfDay
<1>3. \A r \in rows : r.statement \in Nat /\ r.id \in Nat
  BY DEF Listings, Listing, OfDay
<1>4. \A r, s \in rows : r.id = s.id => r = s
  BY DEF Listings, OfDay
<1> HIDE DEF rows
<1>5. \A r \in rows : till(r) = upTo(r)
  BY <1>3, <1>4 DEF Earlier
<1>6. \A r, s \in rows : <<r, s>> \in R <=> Earlier(r, s)
  OBVIOUS
<1>7. \A r \in rows : UpTo(rows, R, r) = till(r)
  BY <1>6 DEF UpTo
<1>8. /\ \A x \in rows : <<x, x>> \notin R
      /\ \A x, y \in rows : x = y \/ <<x, y>> \in R \/ <<y, x>> \in R
      /\ \A x, y, z \in rows : <<x, y>> \in R /\ <<y, z>> \in R => <<x, z>> \in R
  <2> HIDE DEF R
  <2> QED
    BY <1>3, <1>4, <1>6 DEF Earlier
<1>9. /\ \A x \in rows : Cardinality(UpTo(rows, R, x)) \in 1..Cardinality(rows)
      /\ \A x, y \in rows : Cardinality(UpTo(rows, R, x)) = Cardinality(UpTo(rows, R, y)) => x = y
      /\ \A n \in 1..Cardinality(rows) : \E x \in rows : Cardinality(UpTo(rows, R, x)) = n
  <2> HIDE DEF R
  <2> QED
    BY <1>2, <1>8, OrderedOff
<1> HIDE DEF till, upTo, R
<1>10. \A n \in 1..Cardinality(rows) : q[n] \in rows /\ Cardinality(till(q[n])) = n
  BY <1>5, <1>7, <1>9
<1>11. \A r, s \in rows : Cardinality(till(r)) = Cardinality(till(s)) => r = s
  BY <1>7, <1>9
<1>12. \A r \in rows : \E n \in 1..Cardinality(rows) : q[n] = r
  <2> TAKE r \in rows
  <2>1. Cardinality(till(r)) \in 1..Cardinality(rows)
    BY <1>7, <1>9
  <2> WITNESS Cardinality(till(r)) \in 1..Cardinality(rows)
  <2> HIDE DEF q
  <2> QED
    BY <1>10, <1>11, <2>1
<1>13. Len(q) = Cardinality(rows) /\ DOMAIN q = 1..Cardinality(rows)
  BY <1>2
<1> HIDE DEF q
<1> QED
  BY <1>1, <1>2, <1>10, <1>12, <1>13 DEF till, rows

LEMMA LeastOfTwo ==
  ASSUME NEW n \in Nat, NEW k \in Nat
  PROVE  Min({n, k}) = IF n <= k THEN n ELSE k
<1>1. \E x \in {n, k} : \A y \in {n, k} : x <= y
  OBVIOUS
<1> QED
  BY <1>1 DEF Min

\* The longest day of some rows.
Longest(bucket) == Max({Cardinality(OfDay(bucket, d)) : d \in {r.day : r \in bucket}})

\* The n-th reading of some rows.
Reading(bucket, n) ==
  [d \in {r.day : r \in bucket} |->
     ByDay(bucket, d)[IF n <= Cardinality(OfDay(bucket, d)) THEN n ELSE Cardinality(OfDay(bucket, d))]]

\* The days of finitely many rows are finitely many.
LEMMA DaysAreFinite ==
  ASSUME NEW bucket, IsFiniteSet(bucket)
  PROVE  IsFiniteSet({r.day : r \in bucket})
<1> DEFINE days == {r.day : r \in bucket}
           f == [r \in bucket |-> r.day]
<1>1. f \in Surjection(bucket, days)
  BY DEF Surjection
<1> HIDE DEF f, days
<1>2. IsFiniteSet(days)
  BY <1>1, FS_Surjection
<1> QED
  BY <1>2 DEF days

LEMMA LongestIs ==
  ASSUME NEW Words, NEW bucket \in Listings(Words), bucket # {}
  PROVE  /\ Longest(bucket) \in Nat
         /\ \A d \in {r.day : r \in bucket} : Cardinality(OfDay(bucket, d)) \in 1..Longest(bucket)
         /\ \E d \in {r.day : r \in bucket} : Cardinality(OfDay(bucket, d)) = Longest(bucket)
<1> DEFINE days == {r.day : r \in bucket}
           size(d) == Cardinality(OfDay(bucket, d))
           sizes == {size(d) : d \in days}
           f == [d \in days |-> size(d)]
<1>1. \A d \in days : size(d) \in Nat /\ size(d) # 0
  <2> TAKE d \in days
  <2>1. IsFiniteSet(OfDay(bucket, d)) /\ OfDay(bucket, d) # {}
    BY FS_Subset DEF Listings, OfDay
  <2> QED
    BY <2>1, FS_EmptySet, FS_CardinalityType
<1>2. days # {} /\ IsFiniteSet(days)
  BY DaysAreFinite DEF Listings
<1> HIDE DEF size, days
<1>3. f \in Surjection(days, sizes)
  BY DEF Surjection
<1>4. sizes \in SUBSET Nat /\ sizes # {}
  BY <1>1, <1>2
<1> HIDE DEF f
<1>5. IsFiniteSet(sizes)
  <2> HIDE DEF sizes
  <2> QED
    BY <1>2, <1>3, FS_Surjection
<1>6. Max(sizes) \in sizes /\ \A y \in sizes : Max(sizes) >= y
  <2> HIDE DEF sizes
  <2> QED
    BY <1>4, <1>5, MaxIsGreatest
<1>7. Longest(bucket) = Max(sizes)
  BY Zenon DEF Longest, size, days
<1>8. \A d \in days : Max(sizes) >= size(d)
  BY <1>6
<1>9. \E d \in days : size(d) = Max(sizes)
  BY <1>6
<1>10. Max(sizes) \in Nat
  BY <1>4, <1>6
<1> HIDE DEF sizes
<1>11. \A d \in days : size(d) \in 1..Longest(bucket)
  BY <1>1, <1>7, <1>8, <1>10
<1> QED
  BY <1>7, <1>9, <1>10, <1>11 DEF size, days

\* A reading takes a row of each day, and each row is in a reading.
LEMMA ReadingsAre ==
  ASSUME NEW Words, NEW bucket \in Listings(Words), bucket # {}
  PROVE  /\ ReadingsOf(bucket) = {Reading(bucket, n) : n \in 1..Longest(bucket)}
         /\ \A p \in ReadingsOf(bucket) :
              DOMAIN p = {r.day : r \in bucket} /\ \A d \in DOMAIN p : p[d] \in bucket /\ p[d].day = d
         /\ \A r \in bucket : \E p \in ReadingsOf(bucket) : r.day \in DOMAIN p /\ p[r.day] = r
<1> DEFINE days == {r.day : r \in bucket}
           size(d) == Cardinality(OfDay(bucket, d))
           rows == [d \in days |-> ByDay(bucket, d)]
           long == Max({Len(rows[d]) : d \in days})
           taken(n) == [d \in days |-> rows[d][Min({n, Len(rows[d])})]]
<1>1. \A d \in days : size(d) \in Nat /\ size(d) \in 1..Longest(bucket) /\ Longest(bucket) \in Nat
  BY LongestIs
<1>2. \A d \in days : Len(rows[d]) = size(d) /\ rows[d] = ByDay(bucket, d)
  BY ByDayIs
<1>3. {Len(rows[d]) : d \in days} = {size(d) : d \in days}
  BY <1>2
<1>4. long = Longest(bucket)
  BY <1>3, Zenon DEF Longest
<1>5. ReadingsOf(bucket) = {taken(n) : n \in 1..long}
  BY Zenon DEF ReadingsOf
<1>6. \A n \in 1..Longest(bucket) : taken(n) = Reading(bucket, n)
  <2> SUFFICES ASSUME NEW n \in 1..Longest(bucket), NEW d \in days
               PROVE  rows[d][Min({n, Len(rows[d])})] =
                        ByDay(bucket, d)[IF n <= size(d) THEN n ELSE size(d)]
    BY DEF Reading
  <2>1. n \in Nat /\ size(d) \in Nat
    BY <1>1
  <2>2. Min({n, size(d)}) = IF n <= size(d) THEN n ELSE size(d)
    <3> HIDE DEF size
    <3> QED
      BY <2>1, LeastOfTwo
  <2> HIDE DEF size, rows
  <2> QED
    BY <1>2, <2>2
<1>7. ReadingsOf(bucket) = {Reading(bucket, n) : n \in 1..Longest(bucket)}
  <2> HIDE DEF taken
  <2> QED
    BY <1>4, <1>5, <1>6
<1> HIDE DEF rows, long, taken
<1>8. \A n \in 1..Longest(bucket), d \in days :
        /\ (IF n <= size(d) THEN n ELSE size(d)) \in 1..size(d)
        /\ Reading(bucket, n)[d] = ByDay(bucket, d)[IF n <= size(d) THEN n ELSE size(d)]
        /\ DOMAIN Reading(bucket, n) = days
  <2> TAKE n \in 1..Longest(bucket), d \in days
  <2>1. n \in Nat /\ n >= 1 /\ size(d) \in Nat /\ size(d) >= 1
    BY <1>1
  <2>2. Reading(bucket, n)[d] = ByDay(bucket, d)[IF n <= size(d) THEN n ELSE size(d)]
    BY DEF Reading
  <2>3. DOMAIN Reading(bucket, n) = days
    BY DEF Reading
  <2> HIDE DEF size
  <2> QED
    BY <2>1, <2>2, <2>3
<1>9. \A n \in 1..Longest(bucket), d \in days : Reading(bucket, n)[d] \in OfDay(bucket, d)
  <2> TAKE n \in 1..Longest(bucket), d \in days
  <2>1. \A k \in 1..size(d) : ByDay(bucket, d)[k] \in OfDay(bucket, d)
    BY ByDayIs
  <2> HIDE DEF size
  <2> QED
    BY <1>8, <2>1
<1>10. ASSUME NEW p \in ReadingsOf(bucket)
       PROVE  DOMAIN p = days /\ \A d \in DOMAIN p : p[d] \in bucket /\ p[d].day = d
  <2>1. PICK n \in 1..Longest(bucket) : p = Reading(bucket, n)
    BY <1>7
  <2>2. DOMAIN p = days
    BY <2>1 DEF Reading
  <2> QED
    BY <1>9, <2>1, <2>2 DEF OfDay
<1>11. ASSUME NEW r \in bucket
       PROVE  \E p \in ReadingsOf(bucket) : r.day \in DOMAIN p /\ p[r.day] = r
  <2>1. r.day \in days /\ r \in OfDay(bucket, r.day)
    BY DEF OfDay
  <2>2. PICK n \in 1..size(r.day) : ByDay(bucket, r.day)[n] = r
    BY <2>1, ByDayIs
  <2>3. n \in 1..Longest(bucket) /\ n <= size(r.day)
    <3> HIDE DEF size
    <3> QED
      BY <1>1, <2>1, <2>2
  <2>4. Reading(bucket, n)[r.day] = r /\ DOMAIN Reading(bucket, n) = days
    <3> HIDE DEF size
    <3> QED
      BY <1>8, <2>1, <2>2, <2>3
  <2> QED
    BY <1>7, <2>1, <2>3, <2>4
<1> QED
  BY <1>7, <1>10, <1>11

-----------------------------------------------------------------------------
\* The rows of one statement, day by day.
WeekOf(bucket, n) == [d \in {r.day : r \in bucket} |-> CHOOSE r \in bucket : r.day = d /\ r.statement = n]

\* In a complete bucket each statement has one row of each day.
LEMMA OneRowEach ==
  ASSUME NEW bucket, Complete(bucket), IsFiniteSet(bucket),
         NEW d \in {r.day : r \in bucket}, NEW n \in {r.statement : r \in bucket}
  PROVE  /\ WeekOf(bucket, n)[d] \in bucket
         /\ WeekOf(bucket, n)[d].day = d /\ WeekOf(bucket, n)[d].statement = n
         /\ \A r \in bucket : r.day = d /\ r.statement = n => r = WeekOf(bucket, n)[d]
<1> DEFINE those == {r \in bucket : r.day = d /\ r.statement = n}
<1>1. IsFiniteSet(those)
  BY FS_Subset
<1>2. Cardinality(those) = 1
  BY DEF Complete
<1>3. PICK r : those = {r}
  <2> HIDE DEF those
  <2> QED
    BY <1>1, <1>2, FS_Singleton
<1>4. r \in bucket /\ r.day = d /\ r.statement = n /\ \A s \in bucket : s.day = d /\ s.statement = n => s = r
  BY <1>3
<1>5. WeekOf(bucket, n)[d] = CHOOSE s \in bucket : s.day = d /\ s.statement = n
  BY DEF WeekOf
<1> QED
  BY <1>4, <1>5

\* Numbers that are counted off by as many are the same.
Below(N, m) == {k \in N : k = m \/ k < m}

LEMMA CountsTell ==
  ASSUME NEW N, N \subseteq Nat, IsFiniteSet(N)
  PROVE  /\ \A m \in N : Cardinality(Below(N, m)) \in 1..Cardinality(N)
         /\ \A m, k \in N : Cardinality(Below(N, m)) = Cardinality(Below(N, k)) => m = k
         /\ \A n \in 1..Cardinality(N) : \E m \in N : Cardinality(Below(N, m)) = n
<1> DEFINE R == {p \in N \X N : p[1] < p[2]}
<1>1. \A m, k \in N : <<k, m>> \in R <=> k < m
  OBVIOUS
<1>2. \A m \in N : UpTo(N, R, m) = Below(N, m)
  BY <1>1 DEF UpTo, Below
<1>3. /\ \A x \in N : <<x, x>> \notin R
      /\ \A x, y \in N : x = y \/ <<x, y>> \in R \/ <<y, x>> \in R
      /\ \A x, y, z \in N : <<x, y>> \in R /\ <<y, z>> \in R => <<x, z>> \in R
  <2>1. \A x \in N : x \in Nat
    OBVIOUS
  <2> HIDE DEF R
  <2> QED
    BY <1>1, <2>1
<1> HIDE DEF R
<1>4. /\ \A x \in N : Cardinality(UpTo(N, R, x)) \in 1..Cardinality(N)
      /\ \A x, y \in N : Cardinality(UpTo(N, R, x)) = Cardinality(UpTo(N, R, y)) => x = y
      /\ \A n \in 1..Cardinality(N) : \E x \in N : Cardinality(UpTo(N, R, x)) = n
  <2>1. /\ \A x \in N : <<x, x>> \notin R
        /\ \A x, y \in N : x = y \/ <<x, y>> \in R \/ <<y, x>> \in R
        /\ \A x, y, z \in N : <<x, y>> \in R /\ <<y, z>> \in R => <<x, z>> \in R
        /\ IsFiniteSet(N)
    BY <1>3
  <2> QED
    BY ONLY <2>1, OrderedOff
<1> QED
  BY <1>2, <1>4

-----------------------------------------------------------------------------
\* The readings of a complete bucket are the weeks of its statements.
LEMMA WeeksAreRead ==
  ASSUME NEW Words, NEW bucket \in Listings(Words), bucket # {}, Complete(bucket)
  PROVE  ReadingsOf(bucket) = {WeekOf(bucket, n) : n \in {r.statement : r \in bucket}}
<1> DEFINE days == {r.day : r \in bucket}
           N == {r.statement : r \in bucket}
           below(m) == Below(N, m)
           till(d, r) == {s \in OfDay(bucket, d) : s = r \/ Earlier(s, r)}
           f == [r \in bucket |-> r.statement]
<1>1. IsFiniteSet(bucket) /\ \A r \in bucket : r.statement \in Nat /\ r.id \in Nat
  BY DEF Listings, Listing
<1>2. \A r \in bucket : r.day \in days /\ r.statement \in N
  OBVIOUS
<1>3. N \in SUBSET Nat /\ IsFiniteSet(N)
  <2>1. f \in Surjection(bucket, N)
    BY DEF Surjection
  <2>2. N \in SUBSET Nat
    BY <1>1
  <2> HIDE DEF f, N
  <2> QED
    BY <1>1, <2>1, <2>2, FS_Surjection
<1>4. \A d \in days, n \in N :
        /\ WeekOf(bucket, n)[d] \in bucket
        /\ WeekOf(bucket, n)[d].day = d /\ WeekOf(bucket, n)[d].statement = n
        /\ \A r \in bucket : r.day = d /\ r.statement = n => r = WeekOf(bucket, n)[d]
  BY <1>1, OneRowEach
<1>5. \A n \in N : DOMAIN WeekOf(bucket, n) = days
  BY DEF WeekOf
<1>6. \A m, k \in N : Cardinality(below(m)) = Cardinality(below(k)) => m = k
  <2> HIDE DEF N
  <2> QED
    BY <1>3, CountsTell
<1>7. \A m \in N : Cardinality(below(m)) \in 1..Cardinality(N)
  <2> HIDE DEF N
  <2> QED
    BY <1>3, CountsTell
<1>8. \A n \in 1..Cardinality(N) : \E m \in N : Cardinality(below(m)) = n
  <2> HIDE DEF N
  <2> QED
    BY <1>3, CountsTell
<1> HIDE DEF N, days, f
<1>9. \A d \in days : \A r, s \in OfDay(bucket, d) : r.statement = s.statement => r = s
  BY <1>2, <1>4 DEF OfDay
<1>10. ASSUME NEW d \in days, NEW r \in OfDay(bucket, d)
       PROVE  Cardinality(till(d, r)) = Cardinality(below(r.statement))
  <2> DEFINE g == [s \in till(d, r) |-> s.statement]
  <2>1. \A s \in OfDay(bucket, d) : s \in bucket /\ s.statement \in Nat /\ s.id \in Nat /\ s.statement \in N
    BY <1>1, <1>2 DEF OfDay
  <2>2. \A s \in till(d, r) : s \in OfDay(bucket, d) /\ s.statement \in below(r.statement)
    BY <1>9, <2>1 DEF Earlier, Below
  <2>3. ASSUME NEW k \in below(r.statement)
        PROVE  \E s \in till(d, r) : s.statement = k
    <3>1. k \in N /\ (k = r.statement \/ k < r.statement)
      BY DEF Below
    <3>2. WeekOf(bucket, k)[d] \in OfDay(bucket, d) /\ WeekOf(bucket, k)[d].statement = k
      BY <1>4, <3>1 DEF OfDay
    <3>3. WeekOf(bucket, k)[d] \in till(d, r)
      BY <3>1, <3>2, <1>9 DEF Earlier
    <3> QED
      BY <3>2, <3>3
  <2>4. IsFiniteSet(till(d, r))
    BY <1>1, FS_Subset DEF OfDay
  <2> HIDE DEF till, below
  <2>5. g \in Bijection(till(d, r), below(r.statement))
    <3>1. g \in [till(d, r) -> below(r.statement)]
      BY <2>2
    <3>2. \A s, t \in till(d, r) : g[s] = g[t] => s = t
      BY <1>9, <2>2
    <3>3. \A k \in below(r.statement) : \E s \in till(d, r) : g[s] = k
      BY <2>3
    <3> QED
      BY <3>1, <3>2, <3>3 DEF Bijection, Injection, Surjection, IsInjective
  <2> HIDE DEF g
  <2> QED
    BY <2>4, <2>5, FS_Bijection DEF ExistsBijection
<1>11. ASSUME NEW d \in days
       PROVE  Cardinality(OfDay(bucket, d)) = Cardinality(N)
  <2> DEFINE g == [s \in OfDay(bucket, d) |-> s.statement]
  <2>1. \A s \in OfDay(bucket, d) : s.statement \in N
    BY <1>2 DEF OfDay
  <2>2. \A k \in N : WeekOf(bucket, k)[d] \in OfDay(bucket, d) /\ WeekOf(bucket, k)[d].statement = k
    BY <1>4 DEF OfDay
  <2>3. IsFiniteSet(OfDay(bucket, d))
    BY <1>1, FS_Subset DEF OfDay
  <2>4. g \in Bijection(OfDay(bucket, d), N)
    <3>1. g \in [OfDay(bucket, d) -> N]
      BY <2>1
    <3>2. \A s, t \in OfDay(bucket, d) : g[s] = g[t] => s = t
      BY <1>9
    <3>3. \A k \in N : \E s \in OfDay(bucket, d) : g[s] = k
      BY <2>2
    <3> QED
      BY <3>1, <3>2, <3>3 DEF Bijection, Injection, Surjection, IsInjective
  <2> HIDE DEF g
  <2> QED
    BY <2>3, <2>4, FS_Bijection DEF ExistsBijection
<1>12. Longest(bucket) = Cardinality(N) /\ Cardinality(N) \in Nat
  BY <1>3, <1>11, LongestIs, FS_CardinalityType DEF days
<1>13. ASSUME NEW m \in N
       PROVE  Reading(bucket, Cardinality(below(m))) = WeekOf(bucket, m)
  <2> DEFINE n == Cardinality(below(m))
  <2>1. n \in 1..Cardinality(N)
    BY <1>7
  <2> HIDE DEF n
  <2>2. ASSUME NEW d \in days
        PROVE  Reading(bucket, n)[d] = WeekOf(bucket, m)[d]
    <3>1. n <= Cardinality(OfDay(bucket, d)) /\ n \in 1..Cardinality(OfDay(bucket, d))
      BY <1>11, <1>12, <2>1
    <3>2. Reading(bucket, n)[d] = ByDay(bucket, d)[n]
      BY <3>1 DEF Reading, days
    <3>3. ByDay(bucket, d)[n] \in OfDay(bucket, d) /\ Cardinality(till(d, ByDay(bucket, d)[n])) = n
      BY <3>1, ByDayIs
    <3>4. ByDay(bucket, d)[n] \in bucket /\ ByDay(bucket, d)[n].day = d
      BY <3>3 DEF OfDay
    <3>5. ByDay(bucket, d)[n].statement \in N
      BY <1>2, <3>4
    <3> HIDE DEF till
    <3>6. Cardinality(below(ByDay(bucket, d)[n].statement)) = n
      BY <1>10, <3>3
    <3> HIDE DEF below
    <3>7. ByDay(bucket, d)[n].statement = m
      BY <1>6, <3>5, <3>6 DEF n
    <3> QED
      BY <1>4, <3>2, <3>4, <3>7
  <2>3. Reading(bucket, n) = [d \in days |-> Reading(bucket, n)[d]] /\ WeekOf(bucket, m) = [d \in days |-> WeekOf(bucket, m)[d]]
    BY DEF Reading, WeekOf, days
  <2>4. Reading(bucket, n) = WeekOf(bucket, m)
    BY <2>2, <2>3
  <2> QED
    BY <2>4 DEF n
<1> HIDE DEF below
<1>14. ReadingsOf(bucket) = {Reading(bucket, n) : n \in 1..Cardinality(N)}
  BY <1>12, ReadingsAre
<1>15. {Reading(bucket, n) : n \in 1..Cardinality(N)} = {WeekOf(bucket, m) : m \in N}
  BY <1>7, <1>8, <1>13
<1> QED
  BY <1>14, <1>15 DEF N

-----------------------------------------------------------------------------
\* What a listing is published as, the rows published alike, and their readings.
KeyOf(r) == <<r.name, r.season, r.since, r.until>>
Bucket(rows, r) == {s \in rows : KeyOf(s) = KeyOf(r)}
Readings(rows) == UNION {ReadingsOf(Bucket(rows, r)) : r \in rows}
Stated(rows) == {p \in Readings(rows) : HasHours(p)}
ValuesOf(rows) == {ScheduleValue(p) : p \in Stated(rows)}
AnyDay(p) == CHOOSE d \in DOMAIN p : TRUE
WindowsOf(rows, v) == {Window(p[AnyDay(p)]) : p \in {q \in Stated(rows) : ScheduleValue(q) = v}}
SameOf(rows, v) == {w \in ValuesOf(rows) : w.schedule = v.schedule /\ w.season = v.season}
SeparateIn(rows, v) ==
  \A w, x \in SameOf(rows, v) : w # x => \A a \in WindowsOf(rows, w), b \in WindowsOf(rows, x) : Disjoint(a, b)
IssuesOf(rows) == UNION {Issue(p) : p \in Readings(rows)}
DoubtedIn(rows) ==
  \E i \in IssuesOf(rows) : i.status = "conflicting" /\ \E v \in ValuesOf(rows) :
     v.schedule = i.schedule /\ v.season = i.season

\* The hours property, part by part.
LEMMA ScheduleIs ==
  ASSUME NEW rows, NEW p \in ScheduleProperty(rows)
  PROVE  /\ \A r \in rows : SoundAbsence(r) /\ ~ (r.since # 0 /\ r.until # 0 /\ r.since > r.until)
         /\ ScheduleProperty(rows) = {p}
         /\ p.values = ValuesOf(rows)
         /\ p.windows = [v \in ValuesOf(rows) |-> WindowsOf(rows, v)]
         /\ p.issues = IssuesOf(rows)
         /\ p.absent = [v \in ValuesOf(rows) |-> UNION {Omitted(q) : q \in {o \in Stated(rows) : ScheduleValue(o) = v}}]
         /\ (\E v \in ValuesOf(rows) : ~ SeparateIn(rows, v)) => p.status = "conflicting"
         /\ p.status = "conflicting" => DoubtedIn(rows) \/ \E v \in ValuesOf(rows) : ~ SeparateIn(rows, v)
         /\ DOMAIN p = {"values", "windows", "issues", "absent", "status"}
         /\ p.status \in {"unknown", "known", "multiple", "conflicting"}
<1> DEFINE key(r) == <<r.name, r.season, r.since, r.until>>
           buckets == {{r \in rows : key(r) = k} : k \in {key(r) : r \in rows}}
           readings == UNION {ReadingsOf(b) : b \in buckets}
           stated == {q \in readings : HasHours(q)}
           values == {ScheduleValue(q) : q \in stated}
           of(v) == {Window(q[CHOOSE d \in DOMAIN q : TRUE]) : q \in {o \in stated : ScheduleValue(o) = v}}
           same(v) == {w \in values : w.schedule = v.schedule /\ w.season = v.season}
           separate(v) == \A w, x \in same(v) : w # x => \A a \in of(w), b \in of(x) : Disjoint(a, b)
           issues == UNION {Issue(q) : q \in readings}
           doubted == \E i \in issues : i.status = "conflicting" /\ \E v \in values :
                         v.schedule = i.schedule /\ v.season = i.season
           refused == \E r \in rows : ~SoundAbsence(r) \/ (r.since # 0 /\ r.until # 0 /\ r.since > r.until)
           told == [values |-> values, windows |-> [v \in values |-> of(v)], issues |-> issues,
                    absent |-> [v \in values |-> UNION {Omitted(q) : q \in {o \in stated : ScheduleValue(o) = v}}],
                    status |-> CASE values = {} -> "unknown"
                                 [] values # {} /\ (doubted \/ \E v \in values : ~separate(v)) -> "conflicting"
                                 [] OTHER -> IF \E v \in values : Cardinality(same(v)) > 1
                                             THEN "multiple" ELSE "known"]
<1>1. ScheduleProperty(rows) = IF refused THEN {} ELSE {told}
  BY Zenon DEF ScheduleProperty
<1>2. buckets = {Bucket(rows, r) : r \in rows}
  BY DEF Bucket, KeyOf
<1> HIDE DEF buckets
<1>3. readings = Readings(rows)
  BY <1>2 DEF Readings
<1> HIDE DEF readings
<1>4. stated = Stated(rows)
  BY <1>3 DEF Stated
<1> HIDE DEF stated
<1>5. values = ValuesOf(rows)
  BY <1>4 DEF ValuesOf
<1>6. \A v : of(v) = WindowsOf(rows, v)
  BY <1>4 DEF WindowsOf, AnyDay
<1> HIDE DEF values, of
<1>7. \A v : same(v) = SameOf(rows, v)
  BY <1>5 DEF SameOf
<1> HIDE DEF same
<1>8. \A v : separate(v) <=> SeparateIn(rows, v)
  BY <1>6, <1>7 DEF SeparateIn
<1> HIDE DEF separate
<1>9. issues = IssuesOf(rows)
  BY <1>3 DEF IssuesOf
<1> HIDE DEF issues
<1>10. doubted <=> DoubtedIn(rows)
  BY <1>5, <1>9 DEF DoubtedIn
<1> HIDE DEF doubted
<1>11. ~ refused /\ p = told /\ ScheduleProperty(rows) = {told}
  <2> HIDE DEF told
  <2> QED
    BY <1>1
<1>12. \A r \in rows : SoundAbsence(r) /\ ~ (r.since # 0 /\ r.until # 0 /\ r.since > r.until)
  BY <1>11
<1> HIDE DEF refused
<1>13. p.values = values /\ p.issues = issues
  BY <1>11
<1>14. p.windows = [v \in values |-> of(v)]
  BY <1>11
<1>15. p.absent = [v \in values |-> UNION {Omitted(q) : q \in {o \in stated : ScheduleValue(o) = v}}]
  BY <1>11
<1>16. p.status = CASE values = {} -> "unknown"
                    [] values # {} /\ (doubted \/ \E v \in values : ~separate(v)) -> "conflicting"
                    [] OTHER -> IF \E v \in values : Cardinality(same(v)) > 1
                                THEN "multiple" ELSE "known"
  BY <1>11
<1>17. /\ (\E v \in values : ~ separate(v)) => p.status = "conflicting"
       /\ p.status = "conflicting" => doubted \/ \E v \in values : ~ separate(v)
  BY <1>16
<1>18. DOMAIN p = {"values", "windows", "issues", "absent", "status"}
  BY <1>11
<1>21. p.status \in {"unknown", "known", "multiple", "conflicting"}
  BY <1>16
<1>19. p.windows = [v \in ValuesOf(rows) |-> WindowsOf(rows, v)]
  BY <1>5, <1>6, <1>14
<1>20. p.absent = [v \in ValuesOf(rows) |-> UNION {Omitted(q) : q \in {o \in Stated(rows) : ScheduleValue(o) = v}}]
  BY <1>4, <1>5, <1>15
<1> HIDE DEF told
<1> QED
  BY <1>5, <1>8, <1>9, <1>10, <1>11, <1>12, <1>13, <1>17, <1>18, <1>19, <1>20, <1>21

LEMMA BucketsAreListings ==
  ASSUME NEW Words, NEW rows \in Listings(Words), NEW r \in rows
  PROVE  Bucket(rows, r) \in Listings(Words) /\ r \in Bucket(rows, r)
BY FS_Subset DEF Listings, Bucket

\* What a reading is made of.
LEMMA ReadingTells ==
  ASSUME NEW Words, NEW rows \in Listings(Words), NEW r \in rows, NEW p \in ReadingsOf(Bucket(rows, r))
  PROVE  /\ p \in Readings(rows)
         /\ DOMAIN p # {} /\ AnyDay(p) \in DOMAIN p
         /\ \A d \in DOMAIN p : p[d] \in rows /\ p[d].day = d
                                /\ p[d].name = r.name /\ p[d].season = r.season
                                /\ p[d].since = r.since /\ p[d].until = r.until
         /\ ScheduleValue(p).schedule = r.name /\ ScheduleValue(p).season = r.season
         /\ ScheduleValue(p).hours = [d \in DOMAIN p |-> p[d].hours]
         /\ Window(p[AnyDay(p)]) = Window(r)
<1>1. Bucket(rows, r) \in Listings(Words) /\ Bucket(rows, r) # {}
  BY BucketsAreListings
<1>2. DOMAIN p = {s.day : s \in Bucket(rows, r)} /\ \A d \in DOMAIN p : p[d] \in Bucket(rows, r) /\ p[d].day = d
  BY <1>1, ReadingsAre
<1>3. \A s \in Bucket(rows, r) : s \in rows /\ s.name = r.name /\ s.season = r.season /\ s.since = r.since /\ s.until = r.until
  BY DEF Bucket, KeyOf
<1>4. DOMAIN p # {} /\ AnyDay(p) \in DOMAIN p
  BY <1>1, <1>2 DEF AnyDay
<1>5. /\ ScheduleValue(p).schedule = p[AnyDay(p)].name /\ ScheduleValue(p).season = p[AnyDay(p)].season
      /\ ScheduleValue(p).hours = [d \in DOMAIN p |-> p[d].hours]
  BY DEF ScheduleValue, AnyDay
<1>6. Window(p[AnyDay(p)]) = Window(r)
  BY <1>2, <1>3, <1>4 DEF Window
<1>7. p \in Readings(rows)
  BY DEF Readings
<1> QED
  BY <1>2, <1>3, <1>4, <1>5, <1>6, <1>7

\* Each row with hours is stated.
LEMMA RowIsStated ==
  ASSUME NEW Words, NEW rows \in Listings(Words), NEW r \in rows, r.hours # ""
  PROVE  \E v \in ValuesOf(rows) :
            /\ v.schedule = r.name /\ v.season = r.season
            /\ r.day \in DOMAIN v.hours /\ v.hours[r.day] = r.hours
            /\ Window(r) \in WindowsOf(rows, v)
<1>1. Bucket(rows, r) \in Listings(Words) /\ r \in Bucket(rows, r)
  BY BucketsAreListings
<1> DEFINE b == Bucket(rows, r)
<1>2. PICK p \in ReadingsOf(b) : r.day \in DOMAIN p /\ p[r.day] = r
  <2> HIDE DEF b
  <2>1. b \in Listings(Words) /\ r \in b /\ b # {}
    BY <1>1 DEF b
  <2>2. \A s \in b : \E p \in ReadingsOf(b) : s.day \in DOMAIN p /\ p[s.day] = s
    BY ONLY <2>1, ReadingsAre
  <2> QED
    BY <2>1, <2>2
<1>3. p \in Stated(rows)
  <2>1. p \in Readings(rows)
    BY ReadingTells
  <2> QED
    BY <1>2, <2>1 DEF Stated, HasHours
<1>4. /\ ScheduleValue(p).schedule = r.name /\ ScheduleValue(p).season = r.season
      /\ ScheduleValue(p).hours = [d \in DOMAIN p |-> p[d].hours]
      /\ Window(p[AnyDay(p)]) = Window(r)
  BY ONLY rows \in Listings(Words), r \in rows, p \in ReadingsOf(Bucket(rows, r)), ReadingTells
<1>5. ScheduleValue(p) \in ValuesOf(rows) /\ Window(r) \in WindowsOf(rows, ScheduleValue(p))
  BY <1>3, <1>4 DEF ValuesOf, WindowsOf
<1> QED
  BY <1>2, <1>4, <1>5

LEMMA StatedHas ==
  ASSUME NEW Words, NEW rows \in Listings(Words), NEW p \in Stated(rows)
  PROVE  \E r \in rows : p \in ReadingsOf(Bucket(rows, r)) /\ HasHours(p)
BY DEF Stated, Readings

\* No schedule is said for a day, in two ways that may hold at once, without saying so.
LEMMA ClashesAreSaid ==
  ASSUME NEW Words, NEW rows \in Listings(Words), NEW p \in ScheduleProperty(rows)
  PROVE  ClashIsSaid(rows, p)
<1> SUFFICES ASSUME NEW r \in rows, NEW s \in rows,
                    r.name = s.name, r.season = s.season, r.day = s.day,
                    r.hours # s.hours, r.hours # "", s.hours # "", ~ Disjoint(r, s)
             PROVE  p.status = "conflicting"
  BY DEF ClashIsSaid
<1>1. PICK v \in ValuesOf(rows) :
         /\ v.schedule = r.name /\ v.season = r.season
         /\ r.day \in DOMAIN v.hours /\ v.hours[r.day] = r.hours
         /\ Window(r) \in WindowsOf(rows, v)
  BY RowIsStated
<1>2. PICK w \in ValuesOf(rows) :
         /\ w.schedule = s.name /\ w.season = s.season
         /\ s.day \in DOMAIN w.hours /\ w.hours[s.day] = s.hours
         /\ Window(s) \in WindowsOf(rows, w)
  BY RowIsStated
<1>3. v # w /\ v \in SameOf(rows, v) /\ w \in SameOf(rows, v)
  BY <1>1, <1>2 DEF SameOf
<1>4. ~ Disjoint(Window(r), Window(s))
  BY DEF Disjoint, Window
<1>5. ~ SeparateIn(rows, v)
  BY <1>1, <1>2, <1>3, <1>4 DEF SeparateIn
<1> QED
  BY <1>5, ScheduleIs

\* A day is said to be left out only where a record leaves it out.
LEMMA OmissionsAreProven ==
  ASSUME NEW Words, NEW rows \in Listings(Words), NEW p \in ScheduleProperty(rows)
  PROVE  OmittedIsProven(rows, p)
<1> SUFFICES ASSUME NEW v \in p.values, NEW d \in p.absent[v]
             PROVE  v.hours[d] = "" /\ \E r \in rows : r.day = d /\ d \in r.omits /\ r.hours = ""
  BY DEF OmittedIsProven
<1>1. v \in ValuesOf(rows) /\ p.absent[v] = UNION {Omitted(q) : q \in {o \in Stated(rows) : ScheduleValue(o) = v}}
  <2>1. p.values = ValuesOf(rows)
    BY ScheduleIs
  <2>2. p.absent = [u \in ValuesOf(rows) |-> UNION {Omitted(q) : q \in {o \in Stated(rows) : ScheduleValue(o) = u}}]
    BY ScheduleIs
  <2> QED
    BY <2>1, <2>2
<1>2. PICK q \in Stated(rows) : ScheduleValue(q) = v /\ d \in Omitted(q)
  BY <1>1
<1>3. PICK r \in rows : q \in ReadingsOf(Bucket(rows, r))
  BY StatedHas
<1>4. d \in DOMAIN q /\ q[d].hours = "" /\ d \in q[d].omits
  BY <1>2 DEF Omitted
<1>5. /\ \A e \in DOMAIN q : q[e] \in rows /\ q[e].day = e
      /\ ScheduleValue(q).hours = [e \in DOMAIN q |-> q[e].hours]
  BY ONLY rows \in Listings(Words), r \in rows, q \in ReadingsOf(Bucket(rows, r)), ReadingTells
<1> QED
  BY <1>2, <1>4, <1>5

\* What is said of a schedule in a window is the weeks of its statements, whole.
LEMMA WeeksAreOwn ==
  ASSUME NEW Words, NEW rows \in Listings(Words), NEW p \in ScheduleProperty(rows)
  PROVE  OwnWeeks(rows, p)
<1> DEFINE alike(k) == {r \in rows : <<r.name, r.season, Window(r)>> = k}
           weekIn(k, n) == [d \in {r.day : r \in alike(k)} |->
                              (CHOOSE r \in alike(k) : r.day = d /\ r.statement = n).hours]
           weeksIn(k) == {weekIn(k, n) : n \in {r.statement : r \in alike(k)}}
           saidIn(k) == {v.hours : v \in {w \in p.values : w.schedule = k[1] /\ w.season = k[2] /\
                                                           k[3] \in p.windows[w]}}
<1>1. OwnWeeks(rows, p) <=> \A k \in {<<r.name, r.season, Window(r)>> : r \in rows} :
                              Complete(alike(k)) => saidIn(k) = {w \in weeksIn(k) : \E d \in DOMAIN w : w[d] # ""}
  BY Zenon DEF OwnWeeks
<1>2. p.values = ValuesOf(rows)
  BY ScheduleIs
<1>3. p.windows = [v \in ValuesOf(rows) |-> WindowsOf(rows, v)]
  BY ScheduleIs
<1>4. ASSUME NEW k \in {<<r.name, r.season, Window(r)>> : r \in rows}, Complete(alike(k))
      PROVE  saidIn(k) = {w \in weeksIn(k) : \E d \in DOMAIN w : w[d] # ""}
  <2>0. PICK r \in rows : k = <<r.name, r.season, Window(r)>>
    OBVIOUS
  <2> DEFINE b == Bucket(rows, r)
             days == {s.day : s \in b}
             N == {s.statement : s \in b}
             week(n) == [d \in days |-> (CHOOSE s \in b : s.day = d /\ s.statement = n).hours]
             weeks == {week(n) : n \in N}
             asked == {w \in p.values : w.schedule = r.name /\ w.season = r.season /\ Window(r) \in p.windows[w]}
             said == {v.hours : v \in asked}
             open(w) == \E d \in DOMAIN w : w[d] # ""
  <2>1. alike(k) = b
    BY <2>0 DEF Bucket, KeyOf, Window
  <2>2. b \in Listings(Words) /\ b # {} /\ Complete(b)
    BY <1>4, <2>1, BucketsAreListings
  <2>3. ReadingsOf(b) = {WeekOf(b, n) : n \in N}
    <3> HIDE DEF b
    <3> QED
      BY <2>2, WeeksAreRead
  <2>4. \A w : w \in asked <=> w \in ValuesOf(rows) /\ w.schedule = r.name /\ w.season = r.season
                               /\ Window(r) \in WindowsOf(rows, w)
    BY <1>2, <1>3
  <2>5. \A n \in N : DOMAIN WeekOf(b, n) = days /\ week(n) = [d \in days |-> WeekOf(b, n)[d].hours]
    BY DEF WeekOf
  <2>6. \A n \in N : HasHours(WeekOf(b, n)) <=> open(week(n))
    <3> HIDE DEF N, days
    <3> TAKE n \in N
    <3>1. DOMAIN WeekOf(b, n) = days /\ DOMAIN week(n) = days /\ \A d \in days : week(n)[d] = WeekOf(b, n)[d].hours
      BY <2>5
    <3> HIDE DEF week
    <3> QED
      BY <3>1 DEF HasHours
  <2> HIDE DEF b, N, days, week, asked
  <2>7. ASSUME NEW v \in asked
        PROVE  v.hours \in weeks /\ open(v.hours)
    <3>1. v \in ValuesOf(rows) /\ Window(r) \in WindowsOf(rows, v) /\ v.schedule = r.name /\ v.season = r.season
      BY <2>4
    <3>2. PICK q \in Stated(rows) : ScheduleValue(q) = v /\ Window(q[AnyDay(q)]) = Window(r)
      BY <3>1 DEF WindowsOf
    <3>3. PICK s \in rows : q \in ReadingsOf(Bucket(rows, s)) /\ HasHours(q)
      BY StatedHas
    <3>4. /\ ScheduleValue(q).schedule = s.name /\ ScheduleValue(q).season = s.season
          /\ ScheduleValue(q).hours = [d \in DOMAIN q |-> q[d].hours]
          /\ Window(q[AnyDay(q)]) = Window(s)
      BY ONLY rows \in Listings(Words), <3>3, ReadingTells
    <3>5. KeyOf(s) = KeyOf(r)
      BY <3>1, <3>2, <3>4 DEF KeyOf, Window
    <3>6. q \in ReadingsOf(b)
      BY <3>3, <3>5 DEF Bucket, b
    <3>7. PICK n \in N : q = WeekOf(b, n)
      BY <2>3, <3>6
    <3>8. v.hours = week(n)
      BY <2>5, <3>2, <3>4, <3>7
    <3> QED
      BY <2>6, <3>3, <3>7, <3>8
  <2>8. ASSUME NEW n \in N, open(week(n))
        PROVE  week(n) \in said
    <3> DEFINE q == WeekOf(b, n)
    <3>1. q \in ReadingsOf(b) /\ HasHours(q)
      BY <2>3, <2>6, <2>8
    <3>2. ReadingsOf(b) = ReadingsOf(Bucket(rows, r))
      BY DEF b
    <3> HIDE DEF q
    <3>3. /\ q \in Readings(rows)
          /\ ScheduleValue(q).schedule = r.name /\ ScheduleValue(q).season = r.season
          /\ ScheduleValue(q).hours = [d \in DOMAIN q |-> q[d].hours]
          /\ Window(q[AnyDay(q)]) = Window(r)
      <4>1. q \in ReadingsOf(Bucket(rows, r))
        BY <3>1, <3>2
      <4> QED
        BY ONLY rows \in Listings(Words), r \in rows, <4>1, ReadingTells
    <3>4. q \in Stated(rows)
      BY <3>1, <3>3 DEF Stated
    <3>5. ScheduleValue(q) \in ValuesOf(rows) /\ Window(r) \in WindowsOf(rows, ScheduleValue(q))
      BY <3>3, <3>4 DEF ValuesOf, WindowsOf
    <3>6. ScheduleValue(q) \in asked
      BY <2>4, <3>3, <3>5
    <3>7. ScheduleValue(q).hours = week(n)
      BY <2>5, <3>3 DEF q
    <3> QED
      BY <3>6, <3>7
  <2>9. said = {w \in weeks : open(w)}
    BY <2>7, <2>8
  <2> USE DEF N, days
  <2>10. weeksIn(k) = weeks
    <3> DEFINE hours(some, n) ==
                 [d \in {s.day : s \in some} |-> (CHOOSE s \in some : s.day = d /\ s.statement = n).hours]
    <3>1. \A n : weekIn(k, n) = week(n)
      <4> TAKE n
      <4>1. weekIn(k, n) = hours(alike(k), n) /\ week(n) = hours(b, n)
        BY Zenon DEF week
      <4> HIDE DEF hours, weekIn, alike
      <4> QED
        BY <2>1, <4>1
    <3> QED
      BY <2>1, <3>1
  <2>11. saidIn(k) = said
    <3>1. k[1] = r.name /\ k[2] = r.season /\ k[3] = Window(r)
      BY <2>0
    <3> QED
      BY <3>1 DEF asked
  <2> HIDE DEF weeksIn, weeks, saidIn, said, open
  <2>12. {w \in weeksIn(k) : \E d \in DOMAIN w : w[d] # ""} = {w \in weeks : open(w)}
    BY <2>10 DEF open
  <2> QED
    BY <2>9, <2>11, <2>12
<1> HIDE DEF alike, saidIn, weeksIn
<1> QED
  BY <1>1, <1>4

-----------------------------------------------------------------------------
\* The window that is dated first.
FirstDated(windows) == CHOOSE w \in windows : \A x \in windows :
                      w.since < x.since \/ (w.since = x.since /\ w.until <= x.until)

ClashOf(p) == \/ \E v, w \in p.values : v # w /\ FirstDated(p.windows[v]) = FirstDated(p.windows[w])
              \/ \E i \in p.issues : i.status = "conflicting"

\* The rows that are not over.
CurrentOf(rows, today) == {r \in rows : r.until = 0 \/ r.until >= today}

LEMMA FirstIsOne ==
  ASSUME NEW windows, windows \subseteq [since : Nat, until : Nat], windows # {}
  PROVE  FirstDated(windows) \in windows
<1> DEFINE least(w) == \A x \in windows : w.since < x.since \/ (w.since = x.since /\ w.until <= x.until)
           starts == {w.since : w \in windows}
<1>1. \A w \in windows : w.since \in Nat /\ w.until \in Nat
  OBVIOUS
<1>2. starts \in SUBSET Nat /\ starts # {}
  BY <1>1
<1>3. PICK n \in starts : \A m \in starts : n <= m
  <2> HIDE DEF starts
  <2> QED
    BY <1>2, LeastNumber
<1> DEFINE ends == {w.until : w \in {x \in windows : x.since = n}}
<1>4. ends \in SUBSET Nat /\ ends # {}
  BY <1>1
<1>5. PICK k \in ends : \A m \in ends : k <= m
  <2> HIDE DEF ends
  <2> QED
    BY <1>4, LeastNumber
<1>6. PICK w \in windows : w.since = n /\ w.until = k
  OBVIOUS
<1>7. ASSUME NEW x \in windows
      PROVE  w.since < x.since \/ (w.since = x.since /\ w.until <= x.until)
  <2>1. w.since <= x.since /\ x.since \in Nat /\ w.since \in Nat
    BY <1>1, <1>3, <1>6
  <2>2. x.since = n => k <= x.until
    BY <1>5
  <2> QED
    BY <1>6, <2>1, <2>2
<1>8. least(w)
  BY <1>7
<1>9. FirstDated(windows) = CHOOSE y \in windows : least(y)
  BY Zenon DEF FirstDated
<1> HIDE DEF least
<1> QED
  BY <1>8, <1>9

\* The dining property, from the hours property of the rows that are not over.
LEMMA DiningIs ==
  ASSUME NEW rows, NEW today, NEW p \in DiningProperty(rows, today)
  PROVE  \E o \in ScheduleProperty(CurrentOf(rows, today)) :
           /\ p.values = o.values /\ p.windows = o.windows
           /\ p.status = IF Cardinality(o.values) > 1 /\ o.status \in {"conflicting", "multiple"}
                         THEN IF ClashOf(o) THEN "conflicting" ELSE "multiple" ELSE o.status
<1> DEFINE first(windows) == CHOOSE w \in windows : \A x \in windows :
                               w.since < x.since \/ (w.since = x.since /\ w.until <= x.until)
           of(o) == {[value |-> v, window |-> first(o.windows[v])] : v \in o.values}
           clash(o) == \/ \E a, b \in of(o) : a # b /\ a.window = b.window
                       \/ \E i \in o.issues : i.status = "conflicting"
           told(o) == IF Cardinality(o.values) > 1 /\ o.status \in {"conflicting", "multiple"}
                      THEN [o EXCEPT !.status = IF clash(o) THEN "conflicting" ELSE "multiple"] ELSE o
<1>1. DiningProperty(rows, today) = {told(o) : o \in ScheduleProperty(CurrentOf(rows, today))}
  BY Zenon DEF DiningProperty, CurrentOf
<1> HIDE DEF told
<1>2. PICK o \in ScheduleProperty(CurrentOf(rows, today)) : p = told(o)
  BY <1>1
<1> USE DEF told
<1>3. \A windows : first(windows) = FirstDated(windows)
  BY Zenon DEF FirstDated
<1> HIDE DEF first
<1>4. clash(o) <=> ClashOf(o)
  <2> DEFINE pair(v) == [value |-> v, window |-> FirstDated(o.windows[v])]
  <2>1. of(o) = {pair(v) : v \in o.values}
    BY <1>3
  <2>2. \A v, w : (pair(v) # pair(w) /\ pair(v).window = pair(w).window)
                  <=> (v # w /\ FirstDated(o.windows[v]) = FirstDated(o.windows[w]))
    OBVIOUS
  <2> HIDE DEF of, pair
  <2>3. (\E a, b \in of(o) : a # b /\ a.window = b.window)
         <=> \E v, w \in o.values : pair(v) # pair(w) /\ pair(v).window = pair(w).window
    BY <2>1
  <2>4. (\E a, b \in of(o) : a # b /\ a.window = b.window)
         <=> \E v, w \in o.values : v # w /\ FirstDated(o.windows[v]) = FirstDated(o.windows[w])
    BY <2>2, <2>3
  <2> QED
    BY <2>4 DEF ClashOf
<1>5. DOMAIN o = {"values", "windows", "issues", "absent", "status"}
  BY ScheduleIs
<1> HIDE DEF clash
<1>6. p.values = o.values /\ p.windows = o.windows
  BY <1>2, <1>5
<1>7. p.status = IF Cardinality(o.values) > 1 /\ o.status \in {"conflicting", "multiple"}
                 THEN IF clash(o) THEN "conflicting" ELSE "multiple" ELSE o.status
  BY <1>2, <1>5
<1> QED
  BY <1>4, <1>6, <1>7

\* What is said is finitely much.
LEMMA ValuesAreFinite ==
  ASSUME NEW Words, NEW rows \in Listings(Words)
  PROVE  IsFiniteSet(ValuesOf(rows))
<1> DEFINE one == [r \in rows |-> ReadingsOf(Bucket(rows, r))]
           all == {ReadingsOf(Bucket(rows, r)) : r \in rows}
           value == [p \in Stated(rows) |-> ScheduleValue(p)]
<1>1. ASSUME NEW r \in rows
      PROVE  IsFiniteSet(ReadingsOf(Bucket(rows, r)))
  <2> DEFINE b == Bucket(rows, r)
             f == [n \in 1..Longest(b) |-> Reading(b, n)]
  <2>1. b \in Listings(Words) /\ b # {}
    BY BucketsAreListings
  <2> HIDE DEF b
  <2>2. Longest(b) \in Nat /\ ReadingsOf(b) = {Reading(b, n) : n \in 1..Longest(b)}
    BY <2>1, LongestIs, ReadingsAre
  <2>3. IsFiniteSet(1..Longest(b))
    BY <2>2, FS_Interval
  <2>4. f \in Surjection(1..Longest(b), ReadingsOf(b))
    BY <2>2 DEF Surjection
  <2> HIDE DEF f
  <2>5. IsFiniteSet(ReadingsOf(b))
    BY <2>3, <2>4, FS_Surjection
  <2> QED
    BY <2>5 DEF b
<1>2. one \in Surjection(rows, all)
  BY DEF Surjection
<1>3. IsFiniteSet(rows)
  BY DEF Listings
<1>4. IsFiniteSet(all)
  <2> HIDE DEF one, all
  <2> QED
    BY <1>2, <1>3, FS_Surjection
<1>5. IsFiniteSet(UNION all)
  <2>1. \A T \in all : IsFiniteSet(T)
    BY <1>1
  <2> HIDE DEF all
  <2> QED
    BY <1>4, <2>1, FS_UNION
<1>6. IsFiniteSet(Stated(rows))
  BY <1>5, FS_Subset DEF Stated, Readings
<1>7. value \in Surjection(Stated(rows), ValuesOf(rows))
  BY DEF Surjection, ValuesOf
<1> HIDE DEF value
<1> QED
  BY <1>6, <1>7, FS_Surjection

LEMMA TwoAreMore ==
  ASSUME NEW S, IsFiniteSet(S), NEW v \in S, NEW w \in S, v # w
  PROVE  Cardinality(S) > 1
<1>1. Cardinality(S) \in Nat
  BY FS_CardinalityType
<1>2. Cardinality(S) # 0
  BY FS_EmptySet
<1>3. Cardinality(S) # 1
  <2>1. \A x : S # {x}
    OBVIOUS
  <2> QED
    BY <2>1, FS_Singleton
<1> QED
  BY <1>1, <1>2, <1>3

LEMMA WindowsAreDates ==
  ASSUME NEW Words, NEW rows \in Listings(Words), NEW v \in ValuesOf(rows)
  PROVE  /\ WindowsOf(rows, v) # {} /\ WindowsOf(rows, v) \subseteq [since : Nat, until : Nat]
         /\ \A a \in WindowsOf(rows, v) : \E r \in rows :
              a = Window(r) /\ \E q \in ReadingsOf(Bucket(rows, r)) : ScheduleValue(q) = v
<1>1. \E q \in Stated(rows) : ScheduleValue(q) = v
  BY DEF ValuesOf
<1>2. WindowsOf(rows, v) # {}
  BY <1>1 DEF WindowsOf
<1>3. ASSUME NEW a \in WindowsOf(rows, v)
      PROVE  \E r \in rows : a = Window(r) /\ \E q \in ReadingsOf(Bucket(rows, r)) : ScheduleValue(q) = v
  <2>1. PICK q \in Stated(rows) : ScheduleValue(q) = v /\ a = Window(q[AnyDay(q)])
    BY DEF WindowsOf
  <2>2. PICK r \in rows : q \in ReadingsOf(Bucket(rows, r))
    BY StatedHas
  <2>3. /\ ScheduleValue(q).schedule = r.name /\ ScheduleValue(q).season = r.season
        /\ ScheduleValue(q).hours = [d \in DOMAIN q |-> q[d].hours]
        /\ Window(q[AnyDay(q)]) = Window(r)
    BY ONLY rows \in Listings(Words), <2>2, ReadingTells
  <2> QED
    BY <2>1, <2>2, <2>3
<1>4. \A r \in rows : Window(r) \in [since : Nat, until : Nat]
  BY DEF Listings, Listing, Window
<1> QED
  BY <1>2, <1>3, <1>4

\* In rows that each have a window of their own, each reading is a row's.
LEMMA AloneInWindow ==
  ASSUME NEW Words, NEW rows \in Listings(Words),
         Cardinality({Window(r) : r \in rows}) = Cardinality(rows)
  PROVE  /\ \A r, s \in rows : Window(r) = Window(s) => r = s
         /\ \A r \in rows : \A p, q \in ReadingsOf(Bucket(rows, r)) : p = q
<1> DEFINE windows == {Window(r) : r \in rows}
           f == [r \in rows |-> Window(r)]
<1>1. IsFiniteSet(rows) /\ Cardinality(windows) = Cardinality(rows)
  BY DEF Listings
<1>2. f \in Surjection(rows, windows)
  BY DEF Surjection
<1>3. f \in Injection(rows, windows)
  <2> HIDE DEF f, windows
  <2>1. IsFiniteSet(windows)
    BY <1>1, <1>2, FS_Surjection
  <2> QED
    BY <1>1, <1>2, FS_Surjection
<1>4. \A r, s \in rows : Window(r) = Window(s) => r = s
  BY <1>3 DEF Injection, IsInjective
<1>5. ASSUME NEW r \in rows, NEW p \in ReadingsOf(Bucket(rows, r))
      PROVE  p = [d \in {r.day} |-> r]
  <2> DEFINE b == Bucket(rows, r)
  <2>1. b \in Listings(Words) /\ b # {} /\ p \in ReadingsOf(b)
    BY BucketsAreListings
  <2>2. b = {r}
    <3>1. \A s \in b : s \in rows /\ Window(s) = Window(r)
      BY DEF Bucket, KeyOf, Window
    <3>2. r \in b
      BY BucketsAreListings
    <3> HIDE DEF b
    <3> QED
      BY <1>4, <3>1, <3>2
  <2> HIDE DEF b
  <2>3. DOMAIN p = {s.day : s \in b} /\ \A d \in DOMAIN p : p[d] \in b
    BY <2>1, ReadingsAre
  <2>4. DOMAIN p = {r.day} /\ p[r.day] = r
    BY <2>2, <2>3
  <2>5. \E n \in 1..Longest(b) : p = Reading(b, n)
    BY <2>1, ReadingsAre
  <2>6. p = [d \in DOMAIN p |-> p[d]]
    BY <2>5 DEF Reading
  <2> QED
    BY <2>4, <2>6
<1> QED
  BY <1>4, <1>5

\* Exceptions of a venue, each dated on its own, never conflict; two hours of one day do.
LEMMA ExceptionsDoStand ==
  ASSUME NEW Words, NEW rows \in Listings(Words), NEW today, NEW p \in DiningProperty(rows, today)
  PROVE  ExceptionsStand(CurrentOf(rows, today), p)
<1> DEFINE current == CurrentOf(rows, today)
<1>1. current \in Listings(Words)
  BY FS_Subset DEF Listings, CurrentOf
<1>2. PICK o \in ScheduleProperty(current) :
         /\ p.values = o.values /\ p.windows = o.windows
         /\ p.status = IF Cardinality(o.values) > 1 /\ o.status \in {"conflicting", "multiple"}
                       THEN IF ClashOf(o) THEN "conflicting" ELSE "multiple" ELSE o.status
  BY DiningIs
<1> HIDE DEF current
<1>3. o.values = ValuesOf(current) /\ o.issues = IssuesOf(current)
  BY ScheduleIs
<1>4. o.windows = [v \in ValuesOf(current) |-> WindowsOf(current, v)]
  BY ScheduleIs
<1>5. \A r \in current : ~ (r.since # 0 /\ r.until # 0 /\ r.since > r.until)
  BY ScheduleIs
<1>6. o.status = "conflicting" => DoubtedIn(current) \/ \E v \in ValuesOf(current) : ~ SeparateIn(current, v)
  BY ScheduleIs
<1>7. IsFiniteSet(ValuesOf(current))
  BY <1>1, ValuesAreFinite
<1>8. ASSUME Cardinality({Window(r) : r \in current}) = Cardinality(current),
             \A r \in current : r.problem = "none"
      PROVE  p.status # "conflicting"
  <2>1. \A i \in IssuesOf(current) : i.status # "conflicting"
    <3> SUFFICES ASSUME NEW r \in current, NEW q \in ReadingsOf(Bucket(current, r)), NEW i \in Issue(q)
                 PROVE  i.status # "conflicting"
      BY DEF IssuesOf, Readings
    <3>1. \A d \in DOMAIN q : q[d] \in current
      BY <1>1, ReadingTells
    <3>2. {q[d].problem : d \in DOMAIN q} \ {"none"} = {}
      BY <1>8, <3>1
    <3>3. ~ ("conflicting" \in {q[d].problem : d \in DOMAIN q} \ {"none"})
      BY <3>2
    <3> QED
      BY <3>3 DEF Issue
  <2>2. ~ DoubtedIn(current)
    BY <2>1 DEF DoubtedIn
  <2>3. ASSUME NEW v \in ValuesOf(current), NEW w \in ValuesOf(current), v # w
        PROVE  FirstDated(WindowsOf(current, v)) # FirstDated(WindowsOf(current, w))
    <3>1. FirstDated(WindowsOf(current, v)) \in WindowsOf(current, v)
          /\ FirstDated(WindowsOf(current, w)) \in WindowsOf(current, w)
      BY <1>1, WindowsAreDates, FirstIsOne
    <3>2. PICK r \in current : FirstDated(WindowsOf(current, v)) = Window(r)
                               /\ \E q \in ReadingsOf(Bucket(current, r)) : ScheduleValue(q) = v
      BY <1>1, <3>1, WindowsAreDates
    <3>3. PICK s \in current : FirstDated(WindowsOf(current, w)) = Window(s)
                               /\ \E q \in ReadingsOf(Bucket(current, s)) : ScheduleValue(q) = w
      BY <1>1, <3>1, WindowsAreDates
    <3>4. r # s
      BY <1>1, <1>8, <2>3, <3>2, <3>3, AloneInWindow
    <3> QED
      BY <1>1, <1>8, <3>2, <3>3, <3>4, AloneInWindow
  <2>4. ~ ClashOf(o)
    BY <1>3, <1>4, <2>1, <2>3 DEF ClashOf
  <2>5. ASSUME o.status = "conflicting"
        PROVE  Cardinality(o.values) > 1
    <3>1. PICK v \in ValuesOf(current) : ~ SeparateIn(current, v)
      BY <1>6, <2>2, <2>5
    <3>2. PICK w \in ValuesOf(current), x \in ValuesOf(current) : w # x
      BY <3>1 DEF SeparateIn, SameOf
    <3> QED
      BY <1>3, <1>7, <3>2, TwoAreMore
  <2> QED
    BY <1>2, <2>4, <2>5
<1>9. ASSUME NEW r \in current, NEW s \in current, r.name = s.name, r.season = s.season,
             Window(r) = Window(s), r.day = s.day, r.hours # s.hours, "" \notin {r.hours, s.hours},
             \A v \in p.values : Cardinality(p.windows[v]) = 1
      PROVE  p.status = "conflicting"
  <2>1. r.since = s.since /\ r.until = s.until
    BY <1>9 DEF Window
  <2>2. r.since \in Nat /\ r.until \in Nat
    BY <1>1 DEF Listings, Listing
  <2>3. ~ Disjoint(r, s)
    BY <1>5, <2>1, <2>2 DEF Disjoint
  <2>4. r.hours # "" /\ s.hours # ""
    BY <1>9
  <2>5. o.status = "conflicting"
    <3>1. ClashIsSaid(current, o)
      BY <1>1, ClashesAreSaid
    <3> QED
      BY <1>9, <2>3, <2>4, <3>1 DEF ClashIsSaid
  <2>6. PICK v \in ValuesOf(current) :
           r.day \in DOMAIN v.hours /\ v.hours[r.day] = r.hours /\ Window(r) \in WindowsOf(current, v)
    BY <1>1, <2>4, RowIsStated
  <2>7. PICK w \in ValuesOf(current) :
           s.day \in DOMAIN w.hours /\ w.hours[s.day] = s.hours /\ Window(s) \in WindowsOf(current, w)
    BY <1>1, <2>4, RowIsStated
  <2>8. v # w
    BY <1>9, <2>6, <2>7
  <2>9. Cardinality(o.values) > 1
    BY <1>3, <1>7, <2>8, TwoAreMore
  <2>10. ASSUME NEW u \in ValuesOf(current), Window(r) \in WindowsOf(current, u)
         PROVE  FirstDated(WindowsOf(current, u)) = Window(r)
    <3> DEFINE W == WindowsOf(current, u)
    <3>1. Cardinality(W) = 1
      <4>1. u \in p.values /\ p.windows[u] = W
        BY <1>2, <1>3, <1>4
      <4>2. Cardinality(p.windows[u]) = 1
        BY <1>9, <4>1
      <4> QED
        BY <4>1, <4>2
    <3>2. FirstDated(W) \in W
      BY <1>1, WindowsAreDates, FirstIsOne
    <3>3. IsFiniteSet(W)
      <4> DEFINE all == {Window(t) : t \in current}
                 f == [t \in current |-> Window(t)]
      <4>1. f \in Surjection(current, all)
        BY DEF Surjection
      <4>2. IsFiniteSet(current)
        BY <1>1 DEF Listings
      <4>3. W \subseteq all
        BY <1>1, WindowsAreDates
      <4> HIDE DEF f, all, W
      <4>4. IsFiniteSet(all)
        BY <4>1, <4>2, FS_Surjection
      <4> QED
        BY <4>3, <4>4, FS_Subset
    <3>4. Window(r) \in W
      BY <2>10
    <3> HIDE DEF W
    <3>5. PICK x : W = {x}
      BY <3>1, <3>3, FS_Singleton
    <3>6. FirstDated(W) = Window(r)
      BY <3>2, <3>4, <3>5
    <3> QED
      BY <3>6 DEF W
  <2>11. Window(s) = Window(r)
    BY <1>9
  <2>12. FirstDated(o.windows[v]) = FirstDated(o.windows[w])
    BY <1>4, <2>6, <2>7, <2>10, <2>11
  <2>13. ClashOf(o)
    BY <1>3, <2>8, <2>12 DEF ClashOf
  <2> QED
    BY <1>2, <2>5, <2>9, <2>13
<1> USE DEF current
<1> QED
  BY <1>8, <1>9 DEF ExceptionsStand

\* What is said of an office's hours and of a venue's is what their records say.
THEOREM SchedulesAreOwn ==
  ASSUME NEW Words, NEW x, x.rows \in Listings(Words)
  PROVE  ScheduleStated(x)
<1>1. \A p \in ScheduleProperty(x.rows) :
        OwnWeeks(x.rows, p) /\ ClashIsSaid(x.rows, p) /\ OmittedIsProven(x.rows, p)
  BY WeeksAreOwn, ClashesAreSaid, OmissionsAreProven
<1>2. \A p \in DiningProperty(x.rows, x.today) : ExceptionsStand(CurrentOf(x.rows, x.today), p)
  BY ExceptionsDoStand
<1> QED
  BY <1>1, <1>2, Zenon DEF ScheduleStated, CurrentOf

\* The rows an office is read from: record_reader gives linked schedules only, and a board is the
\* items of one file (of two, menu_board_property gives no board).
ReadOf(o) ==
  /\ {r.id : r \in o.schedules} \subseteq o.linkedHours
  /\ o.board # {} => Cardinality({r.title : r \in o.board}) = 1

\* The hours of an office are said not to be published only when no schedule is linked.
LEMMA HoursAreNoGap ==
  ASSUME NEW o, ReadOf(o), NEW now, NEW p \in Hours(o, now), p.status = "not_published"
  PROVE  o.linkedHours = {} /\ o.schedules = {}
<1>1. CASE o.kind = "venue"
  <2>1. p \in DiningProperty(o.schedules, Day(now))
    BY <1>1 DEF Hours
  <2>2. PICK q \in ScheduleProperty(CurrentOf(o.schedules, Day(now))) :
           p.status = IF Cardinality(q.values) > 1 /\ q.status \in {"conflicting", "multiple"}
                      THEN IF ClashOf(q) THEN "conflicting" ELSE "multiple" ELSE q.status
    BY <2>1, DiningIs
  <2>3. q.status # "not_published"
    BY ScheduleIs
  <2> QED
    BY <2>2, <2>3
<1>2. CASE o.kind # "venue"
  <2> DEFINE silent(q) == q.status = "unknown" /\ o.linkedHours = {} /\ ConfirmedAbsence(o.rows, "hours", now) # {}
  <2>1. PICK q \in ScheduleProperty(o.schedules) :
           p = IF silent(q) THEN [q EXCEPT !.status = "not_published"] ELSE q
    BY <1>2 DEF Hours
  <2>2. q.status # "not_published"
    BY ScheduleIs
  <2>3. o.linkedHours = {}
    BY <2>1, <2>2
  <2>4. \A r \in o.schedules : r.id \in o.linkedHours
    BY DEF ReadOf
  <2> QED
    BY <2>3, <2>4
<1> QED
  BY <1>1, <1>2

\* A menu is said not to be published only when its listing says so and no other is read.
MenuOwned(o, menu) ==
  menu.status = "not_published" => o.menuRows = {} /\ o.listings # {} /\ o.board = {}

LEMMA MenuIsNoGap ==
  ASSUME NEW o, ReadOf(o), NEW now, NEW on, NEW meal, NEW query
  PROVE  MenuOwned(o, Menu(o, now, on, meal, query))
<1> SUFFICES ASSUME Menu(o, now, on, meal, query).status = "not_published"
             PROVE  o.menuRows = {} /\ o.listings # {} /\ o.board = {}
  BY DEF MenuOwned
<1> DEFINE dated == MenuProperty(o.menuRows, on, meal, query)
           board == IF o.menuRows = {} THEN MenuBoardProperty(o.board, meal, query) ELSE {}
           listed == IF o.menuRows = {} THEN MenuListingAbsence(o.listings, now) ELSE {}
<1>1. Menu(o, now, on, meal, query) =
        IF o.kind # "venue" THEN [status |-> "unknown", by |-> NONE]
        ELSE IF dated.status = "known" THEN [status |-> "known", by |-> "dated"]
        ELSE IF board # {} THEN [status |-> "known", by |-> "board"]
        ELSE IF listed # {} THEN [status |-> "not_published", by |-> "listing"]
        ELSE [status |-> "unknown", by |-> IF o.menuFiles THEN "documents" ELSE NONE]
  BY Zenon DEF Menu
<1> HIDE DEF dated, board, listed
<1>2. board = {} /\ listed # {}
  BY <1>1
<1> USE DEF board, listed
<1>3. o.menuRows = {} /\ MenuListingAbsence(o.listings, now) # {} /\ MenuBoardProperty(o.board, meal, query) = {}
  BY <1>2
<1>4. o.listings # {}
  BY <1>3 DEF MenuListingAbsence
<1>5. o.board = {} \/ Cardinality({r.title : r \in o.board}) # 1
  BY <1>3, Zenon DEF MenuBoardProperty
<1> QED
  BY <1>3, <1>4, <1>5 DEF ReadOf

\* A building is said only of a place whose records publish no room.
RoomsOwned(o, rooms) ==
  \A b \in rooms.in : /\ b.name # o.place.name
                      /\ \A i \in DOMAIN o.rows : Spelt[o.rows[i].raw["offices"]] = ""

LEMMA RoomsAreNoGap ==
  ASSUME NEW Ids, NEW Keys, NEW Fields, NEW o, o.rows \in Seq(Row(Ids, Keys, Fields)), "offices" \in Fields,
         NEW now, NEW f \in Rooms(o, now)
  PROVE  RoomsOwned(o, f)
<1> SUFFICES ASSUME NEW b \in f.in
             PROVE  /\ b.name # o.place.name
                    /\ \A i \in DOMAIN o.rows : Spelt[o.rows[i].raw["offices"]] = ""
  BY DEF RoomsOwned
<1>1. PICK p \in OfficeField(o.rows, "offices", now) :
         f = [published |-> p,
              in |-> IF p.values = {} /\ p.status \in {"unknown", "not_published"}
                     THEN BuildingProperty(o.place, o.buildings) ELSE {}]
  BY DEF Rooms
<1>2. p.values = {} /\ b \in BuildingProperty(o.place, o.buildings)
  BY <1>1
<1>3. b.name # o.place.name
  BY <1>2 DEF BuildingProperty
<1> DEFINE R == ToSet(o.rows)
           said == Said(R, "offices", Sources(R, now))
<1>4. R \in Accepted(Ids, Keys, Fields, now) /\ p = FieldOf(R, "offices", now, Offered(o.rows, "offices"))
  BY AcceptedField
<1>5. p.values = {a.value : a \in said}
  BY <1>4, FieldMeaning, MeaningOfSaid
<1>6. Silent(R, "offices", Sources(R, now))
  BY <1>2, <1>5 DEF Silent
<1>7. ASSUME NEW i \in DOMAIN o.rows
      PROVE  Spelt[o.rows[i].raw["offices"]] = ""
  <2>1. o.rows[i] \in R /\ o.rows[i] \in Row(Ids, Keys, Fields)
    BY DEF ToSet
  <2> HIDE DEF R
  <2>2. SaysNothing(o.rows[i], "offices")
    BY <1>6, <2>1, SilentRows
  <2> QED
    BY <2>2 DEF SaysNothing
<1> QED
  BY <1>3, <1>7

\* OfficeHonest: an office's hours, menu and building are said to be missing only when no row of
\* that office answers, and a linked schedule that is not read leaves the answer incomplete
\* (get_office_facts).
THEOREM GapsAreNoAbsence ==
  ASSUME NEW Ids, NEW Keys, NEW Fields, "offices" \in Fields,
         NEW x, x.office.rows \in Seq(Row(Ids, Keys, Fields)), ReadOf(x.office)
  PROVE  OfficeHonest(x)
<1> DEFINE o == x.office
           now == x.now
<1> SUFFICES ASSUME NEW f \in GetOfficeFacts(o, now, 1, "", NoFilter)
             PROVE  GapIsNoAbsence(o, f)
  BY DEF OfficeHonest
<1> DEFINE hours == Hours(o, now)
           rooms == Rooms(o, now)
           email == OfficeField(o.rows, "email", now)
<1>1. GetOfficeFacts(o, now, 1, "", NoFilter) =
        IF hours = {} \/ rooms = {} \/ email = {} THEN {}
        ELSE {[hours |-> The(hours), rooms |-> The(rooms), email |-> The(email),
               menu |-> Menu(o, now, 1, "", NoFilter), complete |-> ~Missing(o)]}
  BY Zenon DEF GetOfficeFacts
<1>2. hours # {} /\ rooms # {} /\ f = [hours |-> The(hours), rooms |-> The(rooms), email |-> The(email),
                                       menu |-> Menu(o, now, 1, "", NoFilter), complete |-> ~Missing(o)]
  <2> HIDE DEF hours, rooms, email, o, now
  <2> QED
    BY <1>1
<1> HIDE DEF hours, rooms, email
<1>3. f.hours \in hours /\ f.rooms \in rooms /\ f.menu = Menu(o, now, 1, "", NoFilter) /\ f.complete = ~Missing(o)
  <2>1. The(hours) \in hours /\ The(rooms) \in rooms
    BY <1>2 DEF The
  <2> QED
    BY <1>2, <2>1
<1>4. f.hours.status = "not_published" => o.linkedHours = {} /\ o.schedules = {}
  BY <1>3, HoursAreNoGap DEF hours
<1>5. f.menu.status = "not_published" => o.menuRows = {} /\ o.listings # {} /\ o.board = {}
  <2>1. MenuOwned(o, Menu(o, now, 1, "", NoFilter))
    BY MenuIsNoGap
  <2>2. MenuOwned(o, f.menu)
    BY <1>3, <2>1
  <2> QED
    BY <2>2 DEF MenuOwned
<1>6. (o.linkedHours # {} /\ o.schedules = {}) => ~f.complete
  BY <1>3 DEF Missing
<1>7. \A b \in f.rooms.in : b.name # o.place.name /\ \A i \in DOMAIN o.rows : Spelt[o.rows[i].raw["offices"]] = ""
  <2>1. o.rows \in Seq(Row(Ids, Keys, Fields))
    OBVIOUS
  <2>2. f.rooms \in Rooms(o, now)
    BY <1>3 DEF rooms
  <2> HIDE DEF o, now
  <2>3. RoomsOwned(o, f.rooms)
    BY <2>1, <2>2, RoomsAreNoGap
  <2> QED
    BY <2>3 DEF RoomsOwned
<1>8. (\E i \in DOMAIN o.rows : Spelt[o.rows[i].raw.offices] # "") => f.rooms.in = {}
  BY <1>7
<1> QED
  BY <1>4, <1>5, <1>6, <1>7, <1>8 DEF GapIsNoAbsence
====
