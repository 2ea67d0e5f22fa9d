------------------------------- MODULE Packet -------------------------------
(***************************************************************************)
(* The Fact Packet a turn's findings leave in, and the part of it a writer *)
(* is handed (fact_packet.py, writer_view.py).                             *)
(*                                                                         *)
(* A part is what one lookup found: an office's properties, a choice of    *)
(* offices, a name that matched none, a safety reply, a shuttle's routes   *)
(* or a notice.  A property is [key, status, values, issues, absence];     *)
(* values and issues cite sources by id.  The builder's lists are          *)
(* sequences where their order numbers them, sets elsewhere.  A part's     *)
(* topic is a part after it; the fixed wordings beside a menu and beside   *)
(* an office's appointments are left out, being about no fact's value.     *)
(***************************************************************************)
EXTENDS OpenHours

SomeOf(S) == CHOOSE x \in S : TRUE

Empty == [facts |-> <<>>, derived |-> <<>>, missing |-> {}, absent |-> {}, notices |-> {},
          ambiguous |-> FALSE, unresolved |-> FALSE, fields |-> {}, sources |-> <<>>, refused |-> FALSE]

Refused(b) == [b EXCEPT !.refused = TRUE]

\* answers._current: fresh, inside its window today, and seasonal only with whole dates.
SourceCurrent(s, today) == s.fresh /\ Covers(s, today) /\ (s.seasonal => s.from # 0 /\ s.until # 0)

Cites(ids, table) == \E id \in ids : table[id].cited
Fresh(ids, table, today) == \E id \in ids : SourceCurrent(table[id], today)
Lacks(ids, table) == ids = {} \/ ~(ids \subseteq DOMAIN table)

Gap(part, key, reason, days) == [office |-> part.office, key |-> key, reason |-> reason, days |-> days]

-----------------------------------------------------------------------------
(***************************************************************************)
(* One property of one office.                                             *)
(***************************************************************************)
\* A gap in a schedule says which days it is about; one that cites nothing is withheld.
Issues(part, prop) ==
  {Gap(part, prop.key,
       IF ~Cites(i.sources, part.sources) THEN "no_citable_source"
       ELSE IF prop.values = <<>> THEN "unverified_schedule" ELSE "partially_unknown_schedule",
       IF Cites(i.sources, part.sources) THEN i.days ELSE {}) : i \in prop.issues}

\* The days a schedule's pages were read for and do not publish, each still current.
AbsencesCurrent(value) == \A d \in DOMAIN value.days : value.days[d].absence \in {"none", "current"}

\* A venue's weekly row and its dated exceptions are one schedule, not a dispute.
FactStatus(part, prop) ==
  IF prop.status = "multiple" /\ prop.key = "hours" /\ part.venue THEN "known" ELSE prop.status

FactOf(part, prop, value, purpose, today) ==
  [office |-> part.office, key |-> prop.key, value |-> value.value, status |-> FactStatus(part, prop),
   current |-> Fresh(value.sources, part.sources, today)
               /\ (prop.key = "hours" => AbsencesCurrent(value.value)),
   sources |-> value.sources, purpose |-> purpose]

\* A slip: a value is stated whether or not anything can be cited for it.
CiteableAny(ids, table) == TRUE

Citable(ids, table) == Cites(ids, table)

AddValue(b, part, prop, value, purpose, today) ==
  IF Lacks(value.sources, part.sources) THEN Refused(b)
  ELSE IF ~Citable(value.sources, part.sources)
  THEN [b EXCEPT !.missing = @ \cup {Gap(part, prop.key, "no_citable_source", {})}]
  ELSE [b EXCEPT !.facts = Append(@, FactOf(part, prop, value, purpose, today))]

\* A fax asked for is only the lines published as one; lines without one are no gap unread.
FaxOnly(part, prop, purpose) == prop.key = "phones" /\ part.fax /\ purpose = "asked"

AddProp(b, part, prop, purpose, today) ==
  LET said == [b EXCEPT !.missing = @ \cup Issues(part, prop)]
      faxes == SelectSeq(prop.values, LAMBDA v : v.value.fax)
      values == IF FaxOnly(part, prop, purpose) THEN faxes ELSE prop.values
      lines == UNION {prop.values[i].sources : i \in DOMAIN prop.values}
  IN  IF \E i \in prop.issues : Lacks(i.sources, part.sources) THEN Refused(b)
      ELSE IF prop.status = "not_published"
      THEN IF Lacks(prop.absence.sources, part.sources) \/ ~prop.absence.checks THEN Refused(said)
           ELSE [said EXCEPT !.absent = @ \cup
                   {[office |-> part.office, key |-> prop.key, purpose |-> purpose,
                     current |-> prop.absence.current /\ Fresh(prop.absence.sources, part.sources, today),
                     sources |-> prop.absence.sources]}]
      ELSE IF prop.status = "unknown" \/ prop.values = <<>>
      THEN IF prop.issues # {} THEN said
           ELSE [said EXCEPT !.missing = @ \cup {Gap(part, prop.key, "unknown", {})}]
      ELSE IF values = <<>>
      THEN [said EXCEPT !.missing = @ \cup
              {Gap(part, "phones", IF \E id \in lines : part.sources[id].cited
                                   THEN "no_fax_line" ELSE "unknown", {})}]
      ELSE FoldLeft(LAMBDA acc, v : AddValue(acc, part, prop, v, purpose, today), said, values)

-----------------------------------------------------------------------------
(***************************************************************************)
(* The day a student asked about, worked out from each schedule.           *)
(***************************************************************************)
\* A slip: a venue's every row answers for the date asked.
EveryPick(picks, dated, venue) == picks

\* A venue's dated row is an exception to its weekly row for the dates it covers.
KeptPicks(picks, dated, venue) ==
  LET applying == {p \in picks : p.picked.applies}
  IN  IF ~venue \/ applying = {} THEN picks
      ELSE IF applying \cap dated # {} THEN dated ELSE applying

\* Hours that are listed and not known to apply are never said to be open now: only by
\* their listing.  A time asked is answered for that time.
OpenFor(picked, when, now) ==
  LET line == IF picked.unverified THEN picked.listed ELSE picked.hours
      speaks == picked.applies \/ picked.unverified
  IN  [now |-> IF ~speaks \/ picked.day # now.day \/ (when.at # {} /\ ~SomeOf(when.at).now) THEN {}
               ELSE OpenNow(line, now.minute),
       at |-> IF ~speaks \/ when.at = {} THEN {}
              ELSE OpenAt(line, SomeOf(when.at).minute, SomeOf(when.at).relation)]

NotAsked == [meal |-> "", of |-> "not_asked"]

\* A meal asked of a venue's day: served, not served, or its periods name no meals.
MealAsked(picked, meal) ==
  LET ps == SomeOf(Parse(picked.hours))
      labels == {ps[i].label : i \in DOMAIN ps}
  IN  IF Parse(picked.hours) \in {{}, {<<>>}} \/ meal = "" THEN NotAsked
      ELSE [meal |-> meal, of |-> IF labels = {""} THEN "not_labelled"
                                  ELSE IF meal \in labels THEN "served" ELSE "not_served"]

Derived(b, part, pick, when, now) ==
  LET fact == b.facts[pick.at]
      picked == pick.picked
      fresh == (\E id \in fact.sources : part.sources[id].fresh) /\ AbsencesCurrent(fact.value)
  IN  [office |-> part.office, date |-> when.date, picked |-> picked,
       current |-> fresh /\ picked.applies /\ (picked.hours # NOHOURS \/ picked.absence = "current"),
       open |-> OpenFor(picked, when, now),
       meal |-> IF part.venue THEN MealAsked(picked, when.meal) ELSE NotAsked,
       disputed |-> fact.status # "known",
       from |-> {pick.at}, sources |-> fact.sources]

\* A schedule read twice for one day and one meal works its day out once, from both.
AddDerived(b, d) ==
  LET same == {i \in DOMAIN b.derived : LET e == b.derived[i]
                                        IN  e.office = d.office /\ e.picked = d.picked /\ e.meal = d.meal}
      i == Min(same)
  IN  IF same = {} THEN [b EXCEPT !.derived = Append(@, d)]
      ELSE [b EXCEPT !.derived[i].from = @ \cup d.from, !.derived[i].sources = @ \cup d.sources]

\* Every schedule this part added, read for the day; what an exception replaced is set
\* aside, and counts as read.
AddDays(b, part, first, now) ==
  LET when == SomeOf(part.when)
      hours == {i \in first..Len(b.facts) : b.facts[i].key = "hours"}
      sources(i) == {part.sources[id] : id \in b.facts[i].sources}
      picks == {[at |-> i, picked |-> HoursOn(b.facts[i].value, sources(i), when.date)] : i \in hours}
      dated == {p \in picks : \E s \in sources(p.at) : s.from # 0 \/ s.until # 0}
      kept == KeptPicks(picks, dated, part.venue)
      aside == {p.at : p \in picks \ kept}
      built == FoldLeft(LAMBDA acc, p : AddDerived(acc, Derived(b, part, p, when, now)), b,
                        SetToSortSeq(kept, LAMBDA p, q : p.at < q.at))
      made == {i \in DOMAIN built.derived : /\ built.derived[i].office = part.office
                                            /\ built.derived[i].date = when.date}
  IN  IF part.venue /\ aside # {} /\ made # {}
      THEN [built EXCEPT !.derived[Min(made)].from = @ \cup aside] ELSE built

-----------------------------------------------------------------------------
(***************************************************************************)
(* The packet.                                                             *)
(***************************************************************************)
\* Two records under one id must be one record.
AddSources(b, part) ==
  IF \E id \in DOMAIN b.sources \cap DOMAIN part.sources : b.sources[id] # part.sources[id]
  THEN Refused(b)
  ELSE [b EXCEPT !.sources = [id \in DOMAIN @ \cup DOMAIN part.sources |->
                               IF id \in DOMAIN part.sources THEN part.sources[id] ELSE @[id]]]

AddOffice(b, part, purpose, now) ==
  LET asked == IF purpose = "asked" THEN [b EXCEPT !.fields = @ \cup part.fields] ELSE b
      read == FoldLeft(LAMBDA acc, prop : AddProp(acc, part, prop, purpose, now.day),
                       AddSources(asked, part), part.props)
      days == IF part.when # {} /\ purpose = "asked" THEN AddDays(read, part, Len(b.facts) + 1, now) ELSE read
  IN  IF part.complete THEN days ELSE [days EXCEPT !.notices = @ \cup {"evidence_incomplete"}]

SHUTTLE == "shuttle"
Unknown(office, key) == [office |-> office, key |-> key, reason |-> "unknown", days |-> {}]

\* One route's timetable.  What it states must name sources it read, and is stated
\* whether or not one of them has a page to cite.
AddRoute(b, route, now) ==
  LET trips == [i \in DOMAIN route.values |->
                  [office |-> SHUTTLE, key |-> "trips", value |-> route.values[i].value, status |-> route.status,
                   purpose |-> "asked", sources |-> route.values[i].sources,
                   current |-> Fresh(route.values[i].sources, route.sources, now.day)]]
      read == AddSources(b, route)
  IN  IF \E i \in DOMAIN route.values : Lacks(route.values[i].sources, route.sources) THEN Refused(read)
      ELSE [read EXCEPT !.facts = @ \o trips,
                        !.notices = @ \cup IF route.complete THEN {} ELSE {"evidence_incomplete"}]

\* The timetables read for a shuttle, and the departures worked out from them.  A special
\* day's is offered by name, never as a day's facts; what is said of every answer beside
\* the departures is in part.says.
AddShuttle(b, part, now) ==
  LET special == \E i \in DOMAIN part.routes : part.routes[i].special
      read == FoldLeft(LAMBDA acc, r : AddRoute(acc, r, now), b, SelectSeq(part.routes, LAMBDA r : ~r.special))
      from == Len(b.facts) + 1..Len(read.facts)
      picked == [applies |-> TRUE, unverified |-> FALSE, day |-> part.date, season |-> <<>>, schedule |-> 0,
                 window |-> <<0, 0>>, hours |-> NOHOURS, listed |-> NOHOURS, absence |-> "none"]
  IN  IF from = {} THEN [read EXCEPT !.missing = @ \cup {Unknown(SHUTTLE, "departures")}]
      ELSE [read EXCEPT
             !.notices = @ \cup part.says \cup IF special THEN {"shuttle_special"} ELSE {},
             !.derived = Append(@,
               [office |-> SHUTTLE, date |-> part.date, picked |-> picked,
                current |-> \A i \in from : read.facts[i].current,
                open |-> [now |-> {}, at |-> {}], meal |-> NotAsked, disputed |-> FALSE,
                from |-> from, sources |-> UNION {read.facts[i].sources : i \in from}])]

Add(b, part, now) ==
  CASE part.kind = "office_facts" ->
         LET own == AddOffice(b, part, "asked", now)
         IN  IF part.also = {} THEN own
             ELSE AddOffice(own, SomeOf(part.also), "also_published", now)
    [] part.kind = "shuttle_facts" -> AddShuttle(b, part, now)
    [] part.kind = "ambiguous" -> [b EXCEPT !.ambiguous = TRUE]
    [] part.kind = "not_found" -> [b EXCEPT !.unresolved = TRUE]
    [] part.kind = "safety" ->
         [FoldLeft(LAMBDA acc, c : AddOffice(acc, c, "emergency_contact", now), b, part.contacts)
            EXCEPT !.notices = @ \cup {"safety"}]
    [] OTHER -> [b EXCEPT !.notices = @ \cup {part.kind}]

CANNOT_ANSWER == {"unsupported", "account_limit", "clarification"}

Status(b) ==
  LET days(office) == {Weekday(b.derived[i].date) : i \in {i \in DOMAIN b.derived : b.derived[i].office = office}}
      beside(g) == g.reason = "partially_unknown_schedule" /\ days(g.office) # {} /\ days(g.office) \cap g.days = {}
      missing == {g \in b.missing : ~beside(g)}
      replaced == UNION {b.derived[i].from : i \in DOMAIN b.derived}
      asked == {b.facts[i] : i \in {i \in DOMAIN b.facts \ replaced : b.facts[i].purpose = "asked"}}
      absent == {a \in b.absent : a.purpose = "asked"}
      answered == asked # {} \/ absent # {} \/ b.derived # <<>>
      degraded ==
        \/ missing # {} \/ b.ambiguous \/ b.unresolved
        \/ b.notices \cap ({"evidence_incomplete", "incomplete"} \cup CANNOT_ANSWER) # {}
        \/ \E f \in asked : ~f.current \/ f.status # "known"
        \/ \E i \in DOMAIN b.derived : ~b.derived[i].current
        \/ \E a \in absent : ~a.current
  IN  IF "safety" \in b.notices THEN "emergency"
      ELSE IF ~answered /\ (b.ambiguous \/ "clarification" \in b.notices) THEN "ambiguous"
      ELSE IF ~answered /\ b.unresolved THEN "not_found"
      ELSE IF answered THEN (IF degraded THEN "partial" ELSE "complete")
      ELSE IF b.missing # {} \/ b.notices \cap CANNOT_ANSWER # {} THEN "insufficient"
      ELSE "no_facts_needed"

\* A field is never both answered, or owned up to as a gap, and confirmed not published.
Valid(b) ==
  LET held == {<<b.facts[i].office, b.facts[i].key>> : i \in DOMAIN b.facts} \cup {<<g.office, g.key>> : g \in b.missing}
  IN  ~b.refused /\ \A a \in b.absent : <<a.office, a.key>> \notin held

BuildPacket(parts, now) == FoldLeft(LAMBDA b, part : Add(b, part, now), Empty, parts)

-----------------------------------------------------------------------------
(***************************************************************************)
(* What the writer is handed.                                              *)
(***************************************************************************)
\* A schedule of plainly another season, beside one that can be the answer.
AnotherSeason(derived) ==
  LET group(i) == {j \in DOMAIN derived : derived[j].office = derived[i].office /\ derived[j].date = derived[i].date}
      out == {i \in DOMAIN derived : SeasonFit(derived[i].picked.season, derived[i].date) = "out"}
  IN  {i \in out : ~(group(i) \subseteq out)}

\* The whole menu of a meal, asked with a list filtered from the same meal.
WholeMenus(facts) ==
  LET menu(i) == facts[i].key = "menu" /\ facts[i].value.meals # {}
      same(i, j) == facts[i].office = facts[j].office /\ facts[i].value.meals = facts[j].value.meals
  IN  {i \in DOMAIN facts : /\ menu(i) /\ ~facts[i].value.filter
                            /\ \E j \in DOMAIN facts : menu(j) /\ facts[j].value.filter /\ facts[j].value.rest /\ same(i, j)}

WriterView(b) ==
  LET replaced == UNION {b.derived[i].from : i \in DOMAIN b.derived}
      answered(office) == {Weekday(b.derived[i].date) :
                           i \in {i \in DOMAIN b.derived : b.derived[i].office = office /\ b.derived[i].picked.applies
                                                           /\ office # SHUTTLE}}
      how == \E i \in DOMAIN b.facts : b.facts[i].key = "procedures"
      beside(g) == /\ g.key = "hours" /\ g.days # {}
                   /\ answered(g.office) # {} /\ answered(g.office) \cap g.days = {}
  IN  [derived |-> {b.derived[i] : i \in DOMAIN b.derived \ AnotherSeason(b.derived)},
       facts |-> {b.facts[i] : i \in DOMAIN b.facts \ (replaced \cup WholeMenus(b.facts))},
       missing |-> {g \in b.missing : ~(how /\ g.key = "procedures") /\ ~beside(g)},
       absent |-> b.absent, notices |-> b.notices]

-----------------------------------------------------------------------------
(***************************************************************************)
(* Properties.                                                             *)
(***************************************************************************)
AskedOf(parts) == {parts[i] : i \in {i \in DOMAIN parts : parts[i].kind = "office_facts"}}
OfOffice(parts, office) == {p \in AskedOf(parts) : p.office = office}
PropsOf(part) == {part.props[i] : i \in DOMAIN part.props}
ValuesOf(prop) == {prop.values[i] : i \in DOMAIN prop.values}

\* A reply called complete leaves nothing a student asked for unsaid: every property
\* looked up is stated by a citable source that speaks for today, or for the day asked, or
\* is a current absence; what stays unread is about other days; and no name was left open,
\* no lookup cut short and no question put back, by any part (fact_packet._status).
CompleteIsWhole(parts, now, b) ==
  Status(b) = "complete" =>
    /\ \A i \in DOMAIN parts : parts[i].kind \notin {"ambiguous", "not_found", "incomplete"} \cup CANNOT_ANSWER
    /\ \A part \in AskedOf(parts) : part.complete /\ \A prop \in PropsOf(part) :
         /\ prop.status # "unknown"
         /\ prop.status # "not_published" /\ prop.values # <<>> /\ ~FaxOnly(part, prop, "asked") =>
              \A v \in ValuesOf(prop) : Cites(v.sources, part.sources)
         /\ prop.status \in {"known", "multiple"} /\ ~FaxOnly(part, prop, "asked") =>
              \E v \in ValuesOf(prop) :
                /\ \E id \in v.sources : part.sources[id].fresh
                /\ \E id \in v.sources :
                     Covers(part.sources[id], IF prop.key = "hours" /\ part.when # {}
                                              THEN SomeOf(part.when).date ELSE now.day)

\* No office's value reaches the writer without something to cite it by, week or day, asked
\* or shown.  A shuttle's timetable is stated on its sources alone, cited or not
\* (fact_packet.py:603).
NothingUncited(b) ==
  LET view == WriterView(b)
  IN  \A entry \in view.derived \cup view.facts :
        entry.office # SHUTTLE => \E id \in entry.sources : b.sources[id].cited

\* A day asked of an office whose schedule was read is never left without a word: some
\* reading of that day reaches the writer, one for each meal asked of a venue's meals, and
\* no whole week asked for its day beside it.
DaySaid(parts, b) ==
  LET view == WriterView(b)
      weeks(office) == {i \in DOMAIN b.facts : /\ b.facts[i].office = office /\ b.facts[i].key = "hours"
                                               /\ b.facts[i].purpose = "asked"}
      all(office) == \A p \in OfOffice(parts, office) : p.when # {} \/ \A prop \in PropsOf(p) : prop.key # "hours"
  IN  \A part \in {p \in AskedOf(parts) : p.when # {} /\ weeks(p.office) # {}} :
        (\E prop \in PropsOf(part) : prop.key = "hours") =>
          /\ \E d \in view.derived : d.office = part.office /\ d.date = SomeOf(part.when).date
          /\ LET here == {d.meal : d \in {d \in view.derived : d.office = part.office
                                                             /\ d.date = SomeOf(part.when).date}}
                 meal == SomeOf(part.when).meal
             IN  meal # "" /\ here # {NotAsked} => \E m \in here : m.meal = meal
          /\ all(part.office) => ~\E f \in view.facts : /\ f.office = part.office /\ f.key = "hours"
                                                        /\ f.purpose = "asked"

\* On a date a venue publishes an exception for, its weekly row is not also the answer.
ExceptionWins(parts, b) ==
  LET view == WriterView(b)
      dated(d) == \E id \in d.sources : b.sources[id].from # 0 \/ b.sources[id].until # 0
      said(office, date) == {d \in view.derived : d.office = office /\ d.date = date /\ d.picked.applies}
  IN  \A part \in {p \in AskedOf(parts) : p.when # {} /\ p.venue} :
        LET here == said(part.office, SomeOf(part.when).date)
        IN  (\E d \in here : dated(d)) => \A d \in here : dated(d)

\* What the pages dispute is disputed to the writer too: a property asked for in conflict
\* reaches it as one, in the value or in the day worked out from it, whatever else was
\* looked up, set aside or left out beside it (writer_view.py:166, :224).
ConflictsStay(parts, b) ==
  LET view == WriterView(b)
  IN  \A part \in AskedOf(parts) : \A prop \in {p \in PropsOf(part) : p.status = "conflicting"} :
        (\E v \in ValuesOf(prop) : Cites(v.sources, part.sources)) /\ ~FaxOnly(part, prop, "asked") =>
          \/ \E f \in view.facts : f.office = part.office /\ f.key = prop.key /\ f.status = "conflicting"
          \/ /\ prop.key = "hours"
             /\ \E d \in view.derived : d.office = part.office /\ d.disputed

\* A gap is kept from the writer only beside an answer to the same question: another
\* office's how-to, or the hours of a day asked that the schedule speaks for, the gap being
\* about no such day (writer_view.py:251).
GapsStay(parts, b) ==
  LET view == WriterView(b)
      speaks(part, date) ==
        \E prop \in {p \in PropsOf(part) : p.key = "hours"} : \E v \in ValuesOf(prop) :
          /\ v.value.season = <<>> /\ Cites(v.sources, part.sources)
          /\ \E id \in v.sources : Covers(part.sources[id], date)
      dates(office) == UNION {{w.date : w \in {w \in p.when : speaks(p, w.date)}} : p \in OfOffice(parts, office)}
  IN  \A g \in b.missing \ view.missing :
        \/ g.key = "procedures" /\ \E f \in view.facts : f.key = "procedures"
        \/ /\ g.key = "hours" /\ \E d \in view.derived : d.office = g.office
           /\ \A w \in dates(g.office) : Weekday(w) \notin g.days

\* What was looked up and is left out was answered another way: a schedule by a day of its
\* office, a menu by a list filtered from that menu (writer_view.py:162, :212).
LeftOutIsAnswered(b) ==
  LET view == WriterView(b)
  IN  \A i \in DOMAIN b.facts : b.facts[i] \notin view.facts =>
        \/ \E d \in view.derived : d.office = b.facts[i].office
        \/ \E f \in view.facts : f.office = b.facts[i].office /\ f.key = "menu" /\ b.facts[i].key = "menu"
                                 /\ f.value.filter /\ f.value.meals = b.facts[i].value.meals

PacketHonest(x) ==
  LET b == BuildPacket(x.parts, x.now)
  IN  Valid(b) => /\ CompleteIsWhole(x.parts, x.now, b)
                  /\ NothingUncited(b)
                  /\ DaySaid(x.parts, b)
                  /\ ExceptionWins(x.parts, b)
                  /\ ConflictsStay(x.parts, b)
                  /\ GapsStay(x.parts, b)
                  /\ LeftOutIsAnswered(b)
=============================================================================
