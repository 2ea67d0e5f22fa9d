------------------------------- MODULE Registry -------------------------------
(***************************************************************************)
(* What the registry of identities is asked for (the third part of         *)
(* retrieval/entity_facts.py): the facts of one office or venue, put       *)
(* together from its contacts, schedules, menus and pages; the offices a   *)
(* question names; and the people, programs and topics read by their one   *)
(* record.                                                                 *)
(*                                                                         *)
(* A name is the set of its words.  A read that is refused is {}.          *)
(***************************************************************************)
EXTENDS Evidence, Statements, Menus

NONE == "none"

-----------------------------------------------------------------------------
(***************************************************************************)
(* The facts of one office or venue.                                       *)
(***************************************************************************)
\* A slip: hours are said not to be published whenever none were read.
HoursUnlinked(o, now) ==
  IF o.kind = "venue" THEN DiningProperty(o.schedules, Day(now))
  ELSE {IF p.status = "unknown" /\ ConfirmedAbsence(o.rows, "hours", now) # {}
        THEN [p EXCEPT !.status = "not_published"] ELSE p : p \in ScheduleProperty(o.schedules)}

\* A link to a schedule says hours exist: unread rows are a gap, not an absence.
Hours(o, now) ==
  IF o.kind = "venue" THEN DiningProperty(o.schedules, Day(now))
  ELSE {IF p.status = "unknown" /\ o.linkedHours = {} /\ ConfirmedAbsence(o.rows, "hours", now) # {}
        THEN [p EXCEPT !.status = "not_published"] ELSE p : p \in ScheduleProperty(o.schedules)}

\* The dated menu, else the board that was read, else what the listing says.
Menu(o, now, on, meal, query) ==
  LET dated == MenuProperty(o.menuRows, on, meal, query)
      board == IF o.menuRows = {} THEN MenuBoardProperty(o.board, meal, query) ELSE {}
      listed == IF o.menuRows = {} THEN MenuListingAbsence(o.listings, now) ELSE {}
  IN  IF o.kind # "venue" THEN [status |-> "unknown", by |-> NONE]
      ELSE IF dated.status = "known" THEN [status |-> "known", by |-> "dated"]
      ELSE IF board # {} THEN [status |-> "known", by |-> "board"]
      ELSE IF listed # {} THEN [status |-> "not_published", by |-> "listing"]
      ELSE [status |-> "unknown", by |-> IF o.menuFiles THEN "documents" ELSE NONE]

\* Where it is, when its own records publish no room: the buildings it is placed in.
Rooms(o, now) ==
  {[published |-> p,
    in |-> IF p.values = {} /\ p.status \in {"unknown", "not_published"}
           THEN BuildingProperty(o.place, o.buildings) ELSE {}] :
   p \in OfficeField(o.rows, "offices", now)}

\* Every linked record that was not read is a gap the facts own up to.
Missing(o) ==
  \/ o.linkedContacts \ {o.rows[i].key : i \in DOMAIN o.rows} # {}
  \/ o.linkedHours \ {r.id : r \in o.schedules} # {}
  \/ o.rows = <<>> /\ o.kind # "venue"

GetOfficeFacts(o, now, on, meal, query) ==
  LET hours == Hours(o, now)
      rooms == Rooms(o, now)
      email == OfficeField(o.rows, "email", now)
  IN  IF hours = {} \/ rooms = {} \/ email = {} THEN {}
      ELSE {[hours |-> The(hours), rooms |-> The(rooms), email |-> The(email),
             menu |-> Menu(o, now, on, meal, query), complete |-> ~Missing(o)]}

-----------------------------------------------------------------------------
(***************************************************************************)
(* The offices a question names.                                           *)
(***************************************************************************)
\* How an identity's names meet the words of a query; the first name is its own.
Match(names, query) ==
  LET inside == {i \in DOMAIN names : names[i] # {} /\ names[i] \subseteq query /\ names[i] # query}
      part == query # {} /\ \E i \in DOMAIN names : query \subseteq names[i]
      longest == CHOOSE i \in inside : \A j \in inside :
                   \/ Cardinality(names[i]) > Cardinality(names[j])
                   \/ Cardinality(names[i]) = Cardinality(names[j]) /\ i <= j
  IN  CASE names[1] = query -> [basis |-> "name", covers |-> {}]
        [] names[1] # query /\ query \in ToSet(names) -> [basis |-> "alias", covers |-> {}]
        [] query \notin ToSet(names) /\ 1 \in inside -> [basis |-> "contains_name", covers |-> names[1]]
        [] query \notin ToSet(names) /\ 1 \notin inside /\ inside # {} ->
             [basis |-> "contains_alias", covers |-> names[longest]]
        [] OTHER -> [basis |-> IF part THEN "part" ELSE NONE, covers |-> {}]

\* Exact matches first, then the names that take up most of the question.
SearchOffices(entities, query, limit) ==
  LET match(e) == Match(e.names, query)
      exact(e) == match(e).basis \in {"name", "alias"}
      found == {e \in entities : match(e).basis # NONE}
      before(d, e) ==
        \/ exact(d) /\ ~exact(e)
        \/ exact(d) = exact(e) /\ Cardinality(match(d).covers) > Cardinality(match(e).covers)
        \/ exact(d) = exact(e) /\ Cardinality(match(d).covers) = Cardinality(match(e).covers) /\ d.id < e.id
      ranked == SetToSortSeq(found, before)
  IN  [candidates |-> SubSeq(ranked, 1, Min({limit, Len(ranked)})), truncated |-> Len(ranked) > limit]

\* A slip: offices are held against half of the best section anywhere, the asked
\* office's own included.
TopScoreAnywhere(best, others) == Max({best[o].score : o \in DOMAIN best})

\* The best section of an office that is not asked about.
TopScore(best, others) == Max({best[o].score : o \in others})

\* The other offices whose own pages best speak to what a student wants to do: an office
\* counts by its best section, a page counts once, and a page an asked office links is
\* not another's.
OfficesByProcedure(sections, wanted, exclude, limit) ==
  LET all == Cardinality(sections)
      with(w) == Cardinality({s \in sections : w \in s.top \cup s.body})
      sum(words) == FoldSet(LAMBDA w, total : total + WordWeight(all, with(w)), 0, words)
      score(s) == 3 * sum(wanted \cap s.top) + sum(wanted \cap s.body)
      speaks == {s \in sections : wanted \cap s.top # {} \/ Cardinality(wanted \cap s.body) > 1}
      best == [o \in {s.office : s \in speaks} |->
                 LET s == CHOOSE s \in speaks : s.office = o /\ \A t \in speaks : t.office = o =>
                            score(s) > score(t) \/ (score(s) = score(t) /\ s.at <= t.at)
                 IN  [score |-> score(s), page |-> s.page]]
      theirs == {s.page : s \in {t \in sections : t.office \in exclude}}
      others == {o \in DOMAIN best : o \notin exclude /\ best[o].page \notin theirs}
      before(o, p) == best[o].score > best[p].score \/ (best[o].score = best[p].score /\ o < p)
      near == SetToSortSeq({o \in others : 2 * best[o].score >= TopScore(best, others)}, before)
      once == SelectSeq([i \in DOMAIN near |-> <<i, near[i]>>],
                        LAMBDA n : ~\E j \in 1..(n[1] - 1) : best[near[j]].page = best[n[2]].page)
  IN  IF others = {} THEN <<>>
      ELSE [i \in 1..Min({limit, Len(once)}) |-> once[i][2]]

-----------------------------------------------------------------------------
(***************************************************************************)
(* Identities read by their one record.                                    *)
(***************************************************************************)
\* Every identity asked for, in that order, each with its single linked record; any
\* unknown or doubtful one refuses the whole read.
BatchFacts(ids, known, records) ==
  LET of(id) == {r \in records : r.of = id}
  IN  IF \E i \in DOMAIN ids : ids[i] \notin known \/ Cardinality(of(ids[i])) # 1 THEN {}
      ELSE {[i \in DOMAIN ids |-> The(of(ids[i]))]}

\* A topic's offices: each name must be one office of this release; a retired topic has
\* none and a current one some.
GetTopic(row, offices) ==
  LET of(name) == {o \in offices : o.names[1] = name}
  IN  IF \/ \E i \in DOMAIN row.handledBy : Cardinality(of(row.handledBy[i])) # 1
         \/ (row.status = "current") # (row.handledBy # <<>>)
      THEN {} ELSE {[i \in DOMAIN row.handledBy |-> The(of(row.handledBy[i])).id]}

\* A person's value: the directory first, then the profile, then the staff page.
PersonProperty(contact, profile, staff) ==
  LET first(f) == IF contact[f] # "" THEN contact[f] ELSE IF profile[f] # "" THEN profile[f] ELSE staff[f]
  IN  [f \in DOMAIN contact |-> first(f)]

\* The people a program's links name, once each and in the catalog's order.
ProgramPeople(links, people) ==
  LET add(found, l) == IF l.to \notin people \/ l.to \in ToSet(found[l.type]) THEN found
                       ELSE [found EXCEPT ![l.type] = Append(@, l.to)]
  IN  FoldLeft(add, [convener |-> <<>>, faculty |-> <<>>], links)

\* A program's requirement groups in the order its link lists them, what is missing, and
\* whether its plans are for several cohorts.
GetProgramFacts(wanted, groups, plans) ==
  LET held == SelectSeq(wanted, LAMBDA key : key \in {g.key : g \in groups})
  IN  [groups |-> held, missing |-> Len(wanted) - Len(held),
       plans |-> IF plans = {} THEN "unknown"
                 ELSE IF Cardinality({p.cohort : p \in plans}) > 1 THEN "multiple" ELSE "known"]

-----------------------------------------------------------------------------
(***************************************************************************)
(* Properties.                                                             *)
(***************************************************************************)
\* A gap is never said to be an absence: hours are "not published" only with no schedule
\* linked, read or unread, a menu only with no dated row, no board, and a listing that
\* says so, and facts with an unread linked record never call themselves complete.  A
\* room the office publishes is never replaced by a building.
GapIsNoAbsence(o, f) ==
  /\ f.hours.status = "not_published" => o.linkedHours = {} /\ o.schedules = {}
  /\ f.menu.status = "not_published" => o.menuRows = {} /\ o.listings # {} /\ o.board = {}
  /\ (o.linkedHours # {} /\ o.schedules = {}) => ~f.complete
  /\ (\E i \in DOMAIN o.rows : Spelt[o.rows[i].raw.offices] # "") =>
       f.rooms.in = {}
  /\ \A b \in f.rooms.in : b.name # o.place.name

OfficeHonest(x) ==
  \A f \in GetOfficeFacts(x.office, x.now, 1, "", NoFilter) : GapIsNoAbsence(x.office, f)

\* The office the words name whole is offered before every other, and no name inside the
\* question is cut off for one that takes up less of it.
NamedFirst(x) ==
  LET found == SearchOffices(x.entities, x.query, x.limit)
      said(e) == {n \in ToSet(e.names) : n # {} /\ n \subseteq x.query}
  IN  /\ \A e \in x.entities : x.query \in ToSet(e.names) =>
           \/ e \in ToSet(found.candidates)
           \/ \A i \in DOMAIN found.candidates : x.query \in ToSet(found.candidates[i].names)
      /\ \A e \in x.entities : said(e) # {} => e \in ToSet(found.candidates) \/ found.truncated

\* The other offices offered for a procedure are the same whatever the asked office's own
\* pages hold: at least one whenever another office's page speaks to it, never one of
\* the asked office's pages, and no page twice.
OthersOffered(x) ==
  LET found == OfficesByProcedure(x.sections, x.wanted, x.exclude, 2)
      of(o) == {s.page : s \in {t \in x.sections : t.office = o}}
      asked == UNION {of(o) : o \in x.exclude}
  IN  /\ ToSet(found) \cap x.exclude = {}
      /\ \A i, j \in DOMAIN found : i # j => of(found[i]) \cap of(found[j]) = {} \/ Cardinality(of(found[i])) > 1
                                             \/ Cardinality(of(found[j])) > 1
      /\ (\E s \in x.sections : s.office \notin x.exclude /\ of(s.office) \cap asked = {}
                                /\ s.top \cap x.wanted # {}) => found # <<>>

RegistryAnswers(x) ==
  CASE x.of = "office" -> OfficeHonest(x)
    [] x.of = "search" -> NamedFirst(x)
    [] x.of = "procedure" -> OthersOffered(x)
=============================================================================
