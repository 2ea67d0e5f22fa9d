------------------------------- MODULE Evidence -------------------------------
(***************************************************************************)
(* How the published records of an office become what may be said of it:   *)
(* the first part of retrieval/entity_facts.py.  Nothing is decided by     *)
(* vote: every value published is kept with the records that say it.       *)
(*                                                                         *)
(* A time is an hour, a date a day of HoursInDay hours; 0 is no time.  A   *)
(* row holds a raw text for each field ("" when it publishes none), and a  *)
(* text has other spellings that mean the same.  A function that refuses   *)
(* what it is given returns the empty set, and otherwise a set of one.     *)
(***************************************************************************)
EXTENDS Integers, Sequences, FiniteSets, SequencesExt, FiniteSetsExt

HoursInDay == 10                \* an abstract day
MAX_ABSENCE_CHECKS == 2         \* bound: 16 in the code
MapSla == 30                    \* CAMPUS_MAP_FRESHNESS_HOURS
OBSERVED_FIELDS == {"email", "offices"}
DESK_KINDS == {"club", "organization", "facility"}
Spelt == [raw \in {"", "a", "A", "b", "c"} |-> IF raw = "A" THEN "a" ELSE raw]

Day(hour) == hour \div HoursInDay
The(refusable) == CHOOSE x \in refusable : TRUE

-----------------------------------------------------------------------------
(***************************************************************************)
(* Sources.                                                                *)
(***************************************************************************)
Freshness(seen, sla, now) ==
  IF seen = 0 \/ sla <= 0 THEN "unknown"
  ELSE IF seen <= now /\ now <= seen + sla THEN "fresh" ELSE "stale"

Validity(since, until, today) ==
  IF since = 0 /\ until = 0 THEN "unspecified"
  ELSE IF since # 0 /\ today < since THEN "future"
  ELSE IF until # 0 /\ today > until THEN "expired" ELSE "current"

\* A record as a source, read for a day (`on`) but judged fresh at this hour.
Source(row, now, on) ==
  IF row.since # 0 /\ row.until # 0 /\ row.since > row.until THEN {}
  ELSE {[of |-> row.id, field |-> "", since |-> row.since, until |-> row.until,
         seen |-> row.seen, freshness |-> Freshness(row.seen, row.sla, now),
         validity |-> Validity(row.since, row.until, on)]}

\* A slip: a time that is not given is compared as if it were one.
DisjointOpen(left, right) == left.until < right.since \/ right.until < left.since

\* Two sources hold for different days only when both say when they hold, whole.
Disjoint(left, right) ==
  /\ left.since # 0 /\ left.until # 0 /\ right.since # 0 /\ right.until # 0
  /\ left.until < right.since \/ right.until < left.since

\* A field seen again on the office's own pages, as a source of that field alone.  It
\* must be bound to the raw text as it is and to its oldest page, and never replaces a
\* look at least as recent.
ObservationSources(row, now) ==
  LET o == row.observed
      sound == /\ o.fields # {} /\ o.fields \subseteq OBSERVED_FIELDS
               /\ o.pages # {} /\ \A page \in o.pages : page <= now
               /\ o.captured = Min(o.pages)
               /\ \A f \in o.fields : o.raw[f] = row.raw[f] /\ Spelt[row.raw[f]] # ""
  IN  IF o.captured = 0 THEN {{}}
      ELSE IF ~sound THEN {}
      ELSE IF row.seen # 0 /\ o.captured <= row.seen THEN {{}}
      ELSE {{[The(Source([row EXCEPT !.seen = o.captured], now, Day(now)))
                EXCEPT !.field = f] : f \in o.fields}}

-----------------------------------------------------------------------------
(***************************************************************************)
(* What the records say of a field.                                        *)
(***************************************************************************)
\* A row's own text, then the same-purpose contacts a reviewer found elsewhere.
Projections(row, field) ==
  <<[value |-> Spelt[row.raw[field]], index |-> 0]>>
    \o [i \in DOMAIN row.conflicts[field] |->
          [value |-> Spelt[row.conflicts[field][i]], index |-> i]]

\* The values in the order the rows first say them: a row's own text before a reviewer's.
Offered(rows, field) ==
  LET at(v) == UNION {{<<i, k>> : k \in {n \in DOMAIN Projections(rows[i], field) :
                                          Projections(rows[i], field)[n].value = v}} : i \in DOMAIN rows}
      values == {Spelt[raw] : raw \in DOMAIN Spelt} \ {""}
      earlier(v, w) == \E a \in at(v) : \A b \in at(w) : a[1] < b[1] \/ (a[1] = b[1] /\ a[2] < b[2])
  IN  SetToSortSeq({v \in values : at(v) # {}}, earlier)

\* One claim that the pages read do not publish the field: 0 is an unreadable check.
GoodClaim(claim, now) ==
  /\ claim # <<>> /\ Len(claim) <= MAX_ABSENCE_CHECKS
  /\ \A i \in DOMAIN claim : claim[i] # 0 /\ claim[i] <= now

\* The confirmation that a field is not published: current while every check is inside
\* its own row's allowance.
ConfirmedAbsence(rows, field, now) ==
  LET claiming == {i \in DOMAIN rows : /\ rows[i].raw[field] = ""
                                       /\ field \notin rows[i].doubted
                                       /\ GoodClaim(rows[i].claim[field], now)}
      checks(i) == ToSet(rows[i].claim[field])
      recent(i) == rows[i].sla > 0 /\ \A t \in checks(i) : now - t <= rows[i].sla
  IN  IF claiming = {} THEN {}
      ELSE {[rows |-> {rows[i].id : i \in claiming},
             checked |-> Min(UNION {checks(i) : i \in claiming}),
             current |-> \A i \in claiming : recent(i)]}

IdsApart(rows) == \A i, j \in DOMAIN rows : rows[i].id = rows[j].id => i = j

\* A field's values and what they come to.  Two values hold side by side only when
\* every pair of their sources is disjoint.
CanonicalProperty(rows, field, sources, now) ==
  LET \* a derived source stands for its row's own text, never for a reviewer's
      sourceOf(row, index) ==
        LET derived == {s \in sources : s.of = row.id /\ s.field = field}
        IN  IF index = 0 /\ derived # {} THEN The(derived)
            ELSE The({s \in sources : s.of = row.id /\ s.field = ""})
      said == UNION {{[value |-> p.value, source |-> sourceOf(rows[i], p.index)] :
                        p \in {q \in ToSet(Projections(rows[i], field)) : q.value # ""}} :
                     i \in DOMAIN rows}
      values == {a.value : a \in said}
      of(v) == {a.source : a \in {b \in said : b.value = v}}
      absence == IF values = {} THEN ConfirmedAbsence(rows, field, now) ELSE {}
      separate == \A v, w \in values : v # w => \A s \in of(v), t \in of(w) : Disjoint(s, t)
  IN  [values |-> values,
       sources |-> [v \in values |-> of(v)],
       offered |-> Offered(rows, field),
       absence |-> absence,
       status |-> CASE absence # {} -> "not_published"
                    [] absence = {} /\ values = {} -> "unknown"
                    [] Cardinality(values) = 1 -> "known"
                    [] OTHER -> IF separate THEN "multiple" ELSE "conflicting"]

\* What an office's rows give for a field, or nothing when any of them is refused, or two
\* of them go by one id: a value must rest on exactly one record.
OfficeField(rows, field, now) ==
  LET own == [i \in DOMAIN rows |-> Source(rows[i], now, Day(now))]
      again == [i \in DOMAIN rows |-> ObservationSources(rows[i], now)]
  IN  IF (\E i \in DOMAIN rows : own[i] = {} \/ again[i] = {}) \/ ~IdsApart(rows) THEN {}
      ELSE {CanonicalProperty(rows, field,
              UNION {own[i] \cup The(again[i]) : i \in DOMAIN rows}, now)}

-----------------------------------------------------------------------------
(***************************************************************************)
(* The building a place is in.                                             *)
(***************************************************************************)
\* What puts a place in a building: the map's entry for it, a reviewed page, the map's
\* building of its name, or only then its own room.
Placed(place, building) ==
  LET said == {e \in place.evidence : e.building = building.id}
      map == {e \in said : \/ e.from = "map_places" /\ e.record \in place.mapRecords
                           \/ e.from = "reviewed" /\ e.cited
                           \/ e.from = "buildings" /\ e.cited /\ building.mapUrl}
      room == {e \in said : e.from = "contacts" /\ place.roomCited}
  IN  IF map # {} THEN {e.from : e \in map} ELSE {e.from : e \in room}

\* A building of the place's own name is the place itself; one without a single map
\* record, or without a page on the map, is not said.
BuildingProperty(place, buildings) ==
  {b \in buildings : /\ \E e \in place.evidence : e.building = b.id
                     /\ place.name \notin {b.name} \cup b.aliases
                     /\ b.mapRecords = 1 /\ b.mapUrl
                     /\ Placed(place, b) # {}}

-----------------------------------------------------------------------------
(***************************************************************************)
(* The registry of identities.                                             *)
(***************************************************************************)
\* A slip: a link with no pins may share a record that others pin.
OwnedOnceUnpinned(links) ==
  \A i, j \in DOMAIN links : i < j /\ links[i].keys \cap links[j].keys # {} =>
    links[i].pins \cap links[j].pins = {}

\* No two links name one contact record, unless both pin rows and no row twice.
OwnedOnce(links) ==
  \A i, j \in DOMAIN links : i < j /\ links[i].keys \cap links[j].keys # {} =>
    links[i].pins # {} /\ links[j].pins # {} /\ links[i].pins \cap links[j].pins = {}

\* A desk with contacts of its own is read as an office, and so is a facility with no more
\* than published hours.
DeskKind(entity) ==
  IF /\ entity.kind \in DESK_KINDS
     /\ \/ \E i \in DOMAIN entity.links : entity.links[i].keys # {}
        \/ entity.kind = "facility" /\ entity.hours # {}
  THEN "office" ELSE entity.kind

ValidateEntities(entities) ==
  LET links == FlattenSeq([i \in DOMAIN entities |-> entities[i].links])
      ids == [i \in DOMAIN entities |-> entities[i].id]
  IN  IF IsInjective(ids) /\ OwnedOnce(links)
      THEN {[i \in DOMAIN entities |-> [entities[i] EXCEPT !.kind = DeskKind(entities[i])]]}
      ELSE {}

\* The rows an entity's links name by record key, and by row where they pin it.
LinkedContacts(entity, rows) ==
  {r \in rows : \E i \in DOMAIN entity.links :
                  /\ r.key \in entity.links[i].keys
                  /\ entity.links[i].pins # {} => r.id \in entity.links[i].pins}

-----------------------------------------------------------------------------
(***************************************************************************)
(* Properties.                                                             *)
(***************************************************************************)
HoldsOn(source, day) ==
  (source.since = 0 \/ source.since <= day) /\ (source.until = 0 \/ day <= source.until)

\* Two values are offered side by side only when no day exists on which two records
\* that disagree may both hold.
NeverBothAtOnce(p) ==
  p.status = "multiple" =>
    \A v, w \in p.values : v # w =>
      \A s \in p.sources[v], t \in p.sources[w] :
        \A day \in 0..20 : ~(HoldsOn(s, day) /\ HoldsOn(t, day))

\* One value that any record publishes beats every confirmed absence, and an absence
\* rests on rows that publish nothing for the field and are not doubted; it is current
\* only while every page it cites was read within the allowance of the row citing it.
ValueBeatsAbsence(rows, field, now, p) ==
  p.status = "not_published" =>
    /\ \A i \in DOMAIN rows :
         Spelt[rows[i].raw[field]] = "" /\ \A c \in ToSet(rows[i].conflicts[field]) : Spelt[c] = ""
    /\ \A a \in p.absence :
         /\ a.rows # {} /\ a.checked <= now
         /\ \A i \in DOMAIN rows : rows[i].id \in a.rows =>
              /\ field \notin rows[i].doubted
              /\ a.current => now <= a.checked + rows[i].sla \/ \E j \in DOMAIN rows :
                                rows[j].id \in a.rows /\ j # i

\* Looking again at one field never makes it look older than its record, and says
\* nothing of the other fields.
LookedAtAgain(rows, field, p) ==
  \A v \in p.values : \A s \in p.sources[v] : \E i \in DOMAIN rows :
    /\ rows[i].id = s.of
    /\ s.seen >= rows[i].seen
    /\ s.field # "" => s.field = field /\ field \in rows[i].observed.fields /\ s.seen > rows[i].seen

\* What a row publishes of a field, its reviewers' findings included.
Published(row, field) ==
  {Spelt[row.raw[field]]} \cup {Spelt[c] : c \in ToSet(row.conflicts[field])}

\* Nothing a record publishes is dropped, an expired or a doubted one's included: it is stated
\* with a source of that record, and no value is cited from a record that does not publish it.
NothingDropped(rows, field, p) ==
  /\ \A i \in DOMAIN rows : \A v \in Published(rows[i], field) \ {""} :
       v \in p.values /\ \E s \in p.sources[v] : s.of = rows[i].id
  /\ \A v \in p.values : \A s \in p.sources[v] : \E i \in DOMAIN rows :
       rows[i].id = s.of /\ v \in Published(rows[i], field)

\* What an office's field comes to.
FieldStated(x) ==
  \A p \in OfficeField(x.rows, x.field, x.now) :
    /\ NothingDropped(x.rows, x.field, p)
    /\ NeverBothAtOnce(p)
    /\ ValueBeatsAbsence(x.rows, x.field, x.now, p)
    /\ LookedAtAgain(x.rows, x.field, p)

\* In a registry that is accepted, a contact row answers for one identity.
RowOwnedOnce(x) ==
  \A entities \in ValidateEntities(x.entities) : \A r \in x.rows :
    Cardinality({i \in DOMAIN entities : r \in LinkedContacts(entities[i], x.rows)}) <= 1
=============================================================================
