------------------------------ MODULE OneCall ------------------------------
(***************************************************************************)
(* One model call from what code found (ChatEngine._one_call): the readers *)
(* number their sources one after another, code says what it can, the      *)
(* model says the rest, and only what the evidence holds goes out.         *)
(***************************************************************************)
EXTENDS Integers, Sequences, FiniteSets, SequencesExt, FiniteSetsExt

CONSTANTS
  MaxDropped,    \* statements a reply may lose
  MaxOffices,    \* offices whose contacts are said
  MaxPicked      \* programs, or courses, of a catalog pick

-----------------------------------------------------------------------------
(***************************************************************************)
(* The kinds of question code answers alone.  A question q is [asks,       *)
(* named, programs, earlier]: what its words ask, how many people and      *)
(* which catalog entries code found in it, and whether another came before.*)
(***************************************************************************)
Asks(q, what) == what \in q.asks
Calendar(q) == Asks(q, "events") \/ Asks(q, "clubs")
KindListed(q) == Asks(q, "clubs") /\ Asks(q, "kind")
Teaches(q) == Asks(q, "teaches") /\ q.named = 0
More(q) == Asks(q, "more") \/ Asks(q, "reach")

CodeKind(q) ==
  IF Asks(q, "reach") /\ Asks(q, "who") /\ Asks(q, "leaders") /\ ~Asks(q, "more") THEN "leaders"
  ELSE IF q.named = 0 /\ q.programs = "none" /\ Asks(q, "window") THEN "events"
  ELSE IF More(q) THEN "none"
  ELSE IF Asks(q, "clubs") /\ (Asks(q, "hosts") \/ Asks(q, "exists")) THEN "club"
  ELSE IF q.named = 1 /\ Asks(q, "who") THEN "person"
  ELSE IF Asks(q, "leaders") /\ Asks(q, "who") THEN "leaders"
  ELSE IF q.programs = "course" /\ Asks(q, "course") THEN "course" ELSE "none"

\* What is found by name alone, before any list of a kind: nothing else is asked.
Only(q) == ~q.earlier /\ q.named = 0 /\ ~Asks(q, "people") /\ q.programs = "none"

\* What code may answer alone, in the order it tries.
AloneInOrder(q) ==
  LET kind == CodeKind(q)
  IN  <<[by |-> "events", if |-> kind = "events" /\ Calendar(q) /\ ~q.earlier /\ ~Asks(q, "people")],
        [by |-> "club", if |-> kind = "club" /\ ~q.earlier /\ ~Asks(q, "people")],
        [by |-> "contacts", if |-> Asks(q, "contact") /\ Only(q)],
        [by |-> "teachers", if |-> Teaches(q) /\ ~q.earlier /\ ~More(q)],
        [by |-> "faculty", if |-> /\ q.programs = "program" /\ q.named = 0 /\ ~q.earlier
                                  /\ ~Teaches(q) /\ Asks(q, "faculty") /\ ~More(q)],
        [by |-> "course", if |-> kind = "course"],
        [by |-> "people", if |-> kind \in {"leaders", "person"}],
        [by |-> "kinds", if |-> KindListed(q) /\ ~Asks(q, "events") /\ ~Asks(q, "hosts") /\ Only(q) /\ ~More(q)],
        [by |-> "calendar", if |-> /\ Calendar(q) /\ ~Asks(q, "clubs") /\ Only(q) /\ ~More(q)
                                   /\ ~Asks(q, "sessions")]>>

\* What code says is its answer when it cites a source and holds nothing its facts do not.
CodeAnswer(said) == said = "held"

\* Who answers alone; what is said of each is "none", "uncited", "unheld" or "held".
Alone(q, said) ==
  LET tried == AloneInOrder(q)
      may == {i \in DOMAIN tried : tried[i].if /\ CodeAnswer(said[tried[i].by])}
  IN  IF may = {} THEN "model" ELSE tried[Min(may)].by

-----------------------------------------------------------------------------
(***************************************************************************)
(* The evidence: its sources, in order, and what was given [n, id], each   *)
(* with the number of its source.                                          *)
(***************************************************************************)
Empty == [sources |-> <<>>, given |-> {}]

\* A slip: a reader numbers its sources from one.
NumberedAlone(s, ids) ==
  [sources |-> s.sources \o ids, given |-> s.given \cup {[n |-> i, id |-> ids[i]] : i \in DOMAIN ids}]

Numbered(s, ids) ==
  [sources |-> s.sources \o ids,
   given |-> s.given \cup {[n |-> Len(s.sources) + i, id |-> ids[i]] : i \in DOMAIN ids}]

\* What is given already keeps its number: the rest, in the order found, are new.
Fresh(s, ids) ==
  LET new == {i \in DOMAIN ids : \A g \in s.given : g.id # ids[i]}
      nth(n) == CHOOSE i \in new : Cardinality({j \in new : j <= i}) = n
  IN  [n \in 1..Cardinality(new) |-> ids[nth(n)]]
NumberedNew(s, ids) == Numbered(s, Fresh(s, ids))

\* What each reader finds (finds[reader]) when it runs, in the order they run: the question's
\* programs and people, the calendar and clubs, the picks, the people and clubs of a topic, who
\* leads, the pages' sections, the catalog's listing, and what code says of faculty and dates.
Pick(q, searchable) == searchable /\ CodeKind(q) # "course" /\ (q.programs # "none" \/ Asks(q, "academics"))
ByPages(q) == q.named = 0 /\ q.programs = "none" /\ ~Asks(q, "people") /\ ~Calendar(q)
Read(s, on, finds, reader) == IF on THEN Numbered(s, finds[reader]) ELSE s
ReadNew(s, on, finds, reader) == IF on THEN NumberedNew(s, finds[reader]) ELSE s

\* What names itself, the events asked about, and the catalog entries picked.  A question that
\* names nothing takes, when nothing is picked, the programs nearest in meaning in place of all
\* sources so far.
Records(q, finds, searchable, picked) ==
  LET pick == Pick(q, searchable)
      s1 == Read(Empty, q.programs # "none" /\ ~pick, finds, "programs")
      s2 == Read(s1, q.named > 0, finds, "named")
      s3 == Read(s2, KindListed(q), finds, "kinds")
      s4 == Read(s3, Calendar(q), finds, "calendar")
      s5 == Read(s4, Calendar(q) /\ ~KindListed(q), finds, "clubs")
      s6 == Read(s5, pick /\ picked, finds, "picked")
      s7 == Read(s6, pick /\ ~picked /\ q.programs # "none", finds, "programs")
  IN  IF pick /\ ~picked /\ ByPages(q) THEN [Numbered(Empty, finds["meant"]) EXCEPT !.given = @ \cup s7.given] ELSE s7

\* Then what is searched for, each list after the records it may repeat.
Evidence(q, finds, searchable, picked) ==
  LET people == Asks(q, "people")
      clubs == searchable /\ Asks(q, "clubs") /\ ~KindListed(q)
      s8 == Read(Records(q, finds, searchable, picked),
                 searchable /\ people /\ q.named = 0 /\ Asks(q, "list"), finds, "listed")
      s9 == ReadNew(s8, searchable /\ people /\ Asks(q, "topic") /\ ~Teaches(q) /\ ~Asks(q, "leaders"), finds, "taught")
      s10 == Read(s9, clubs /\ finds["clubs"] = <<>>, finds, "clubsNear")
      s11 == ReadNew(s10, clubs, finds, "clubsByWord")
      s12 == ReadNew(s11, (people \/ q.named > 0) /\ Asks(q, "leaders"), finds, "leaders")
      s13 == Read(s12, Asks(q, "clubs") /\ Asks(q, "hosts"), finds, "hosted")
      s14 == Read(s13, searchable, finds, "sections")
      s15 == ReadNew(s14, Asks(q, "subjects"), finds, "catalog")
      s16 == ReadNew(s15, clubs, finds, "onPages")
      s17 == Read(s16, Teaches(q), finds, "teachers")
      s18 == Read(s17, ~Teaches(q) /\ q.programs = "program" /\ q.named = 0 /\ Asks(q, "faculty"), finds, "faculty")
  IN  Read(s18, Asks(q, "dates"), finds, "dates")

-----------------------------------------------------------------------------
(***************************************************************************)
(* The catalog pick: of names the catalog has; what the student named in   *)
(* full is read first, and the pick only adds.                             *)
(***************************************************************************)
Once(s) == FoldLeft(LAMBDA o, e : IF e \in ToSet(o) THEN o ELSE Append(o, e), <<>>, s)
FirstOf(s, n) == SubSeq(s, 1, Min({n, Len(s)}))
ReadPick(names, catalog) == FirstOf(Once(SelectSeq(names, LAMBDA n : n \in catalog)), MaxPicked)

\* A slip: what was named is read last, within the pick's limit.
WithNamedLast(named, picked) == FirstOf(Once(picked \o named), MaxPicked)
WithNamed(named, picked) == FirstOf(Once(named \o picked), Max({MaxPicked, Len(named)}))

-----------------------------------------------------------------------------
(***************************************************************************)
(* The reply.  A statement is [says, cites, held, size]: what it says, the *)
(* numbers of its marks, whether the facts hold its details, its length.   *)
(***************************************************************************)
Held(statement, sources) == statement.held /\ statement.cites \subseteq DOMAIN sources
AllHeld(text, sources) == \A i \in DOMAIN text : Held(text[i], sources)
Size(text) == FoldLeft(LAMBDA sum, st : sum + st.size, 0, text)
WithoutRepeats(written, parts) == SelectSeq(written, LAMBDA st : st.says \notin {parts[i].says : i \in DOMAIN parts})

\* A slip: what is left is not checked for a citation, nor for how much was taken away.
WithoutUnsupportedAny(written, sources) ==
  LET kept == SelectSeq(written, LAMBDA st : Held(st, sources)) IN IF kept = written THEN {} ELSE {kept}

\* {} when nothing, or too much, would go, or nothing left is cited.
WithoutUnsupported(written, sources) ==
  LET kept == SelectSeq(written, LAMBDA st : Held(st, sources))
      dropped == Len(written) - Len(kept)
  IN  IF \/ dropped = 0 \/ dropped > MaxDropped
         \/ 100 * (Size(written) - Size(kept)) > 35 * Size(written)
         \/ \A i \in DOMAIN kept : kept[i].cites = {}
      THEN {} ELSE {kept}

\* The first office cited, and another cited and called by name; each with those that
\* share its plain name.  officeOf: of each section's number.
CitedOffices(written, officeOf, called, siblings) ==
  LET marks == FlattenSeq([i \in DOMAIN written |-> SetToSortSeq(written[i].cites, <)])
      offices == Once(SelectSeq([i \in DOMAIN marks |-> IF marks[i] \in DOMAIN officeOf THEN officeOf[marks[i]] ELSE "none"],
                                LAMBDA o : o # "none"))
      chosen == FirstOf(SelectSeq(offices, LAMBDA o : o = offices[1] \/ o \in called), 2)
  IN  FirstOf(Once(FlattenSeq([i \in DOMAIN chosen |-> <<chosen[i]>> \o SetToSeq(siblings[chosen[i]])])), MaxOffices)

\* Each office's contacts with the directory page they are from; one page has one number.
OfficeContacts(offices, pageOf, sources) ==
  LET known == SelectSeq(offices, LAMBDA o : pageOf[o] # "none")
      pages == Once([i \in DOMAIN known |-> pageOf[known[i]]])
      at(o) == Len(sources) + CHOOSE k \in DOMAIN pages : pages[k] = pageOf[o]
  IN  [text |-> [i \in DOMAIN known |-> [says |-> known[i], cites |-> {at(known[i])}, held |-> TRUE, size |-> 1]],
       sources |-> sources \o pages]

\* A first reply and a second look: {} when it found no part to look for, when its search or
\* its call failed, and {[written, more]} otherwise: the words, and the sections' sources
\* numbered after the first's.  The first reply stands when it fails.
Looked(first, sources, second) ==
  [written |-> FoldSet(LAMBDA s, w : s.written, first, second),
   sources |-> FoldSet(LAMBDA s, w : w \o s.more, sources, second)]

\* A reply sent is [code, model, after, sources]: code's parts, the model's words, the
\* contacts; {} when the question is left to the lookups.
Reply(parts, first, sources, second, officeOf, called, siblings, pageOf) ==
  LET looked == Looked(first, sources, second)
      written == WithoutRepeats(looked.written, parts)
      contacts == OfficeContacts(CitedOffices(written, officeOf, called, siblings), pageOf, looked.sources)
      reply(model) == [code |-> parts, model |-> model, after |-> contacts.text, sources |-> contacts.sources]
      kept == WithoutUnsupported(written, contacts.sources)
  IN  IF parts \o written = <<>> THEN {}
      ELSE IF AllHeld(parts \o written \o contacts.text, contacts.sources) THEN {reply(written)}
      ELSE IF kept # {} THEN {reply(m) : m \in kept}
      ELSE IF parts = <<>> THEN {} ELSE {reply(<<>>)}

-----------------------------------------------------------------------------
(***************************************************************************)
(* Properties.                                                             *)
(***************************************************************************)
\* Whichever readers ran, in one look or two, every number given with a fact is the number of
\* that fact's own source, and a person or club (once) that two readers find has one number.
NumbersHold(x) ==
  LET s == Evidence(x.q, x.finds, x.searchable, x.picked)
      again == IF x.second THEN Numbered(s, x.finds["second"]) ELSE s
  IN  /\ \A g \in again.given : g.n \in DOMAIN again.sources /\ again.sources[g.n] = g.id
      /\ \A g, h \in again.given : g.n = h.n \/ (g.id = h.id /\ g.id \in x.once) => g = h

\* Nothing goes out alone that is not cited and held, nor over a question that asks more: only a
\* window of events, an office's contacts, or a leader and how to reach them.
AloneIsWhole(x) ==
  LET by == Alone(x.q, x.said)
  IN  by # "model" =>
        /\ x.said[by] = "held"
        /\ More(x.q) => by \in {"events", "contacts"} \/ (by = "people" /\ Asks(x.q, "reach") /\ ~Asks(x.q, "more"))
        /\ x.q.earlier => by \in {"course", "people"}

\* Everything the student named in full is read, whatever the model picks; nothing is read
\* twice, and nothing the catalog does not have.
NamedIsRead(x) ==
  LET read == WithNamed(x.named, ReadPick(x.names, x.catalog))
  IN  /\ ToSet(x.named) \subseteq ToSet(read)
      /\ ToSet(read) \subseteq ToSet(x.named) \cup x.catalog
      /\ \A i, j \in DOMAIN read : i # j => read[i] # read[j]

\* Of the model's words only what the evidence holds goes out, with a citation when any had to
\* be taken out; what code said is never lost and never said twice; contacts are said of no
\* office whose sections the words did not cite; and every mark of the words names a source.
ReplyHolds(x) ==
  LET sent == Reply(x.parts, x.first, x.sources, x.second, x.officeOf, x.called, x.siblings, x.pageOf)
      written == Looked(x.first, x.sources, x.second).written
      own == WithoutRepeats(written, x.parts)
      cited == {x.officeOf[n] : n \in UNION {written[i].cites : i \in DOMAIN written} \cap DOMAIN x.officeOf}
  IN  /\ sent = {} => x.parts = <<>>
      /\ \A r \in sent :
           /\ r.code = x.parts
           /\ AllHeld(r.model, r.sources)
           /\ \A i \in DOMAIN r.model : \A j \in DOMAIN r.code : r.model[i].says # r.code[j].says
           /\ r.model \notin {written, own, <<>>} => \E i \in DOMAIN r.model : r.model[i].cites # {}
           /\ \A i \in DOMAIN r.after : \E o \in cited : r.after[i].says \in {o} \cup x.siblings[o]
           /\ Len(own) - Len(r.model) > MaxDropped => r.model = <<>> /\ x.parts # <<>>

OneCallHolds(x) ==
  CASE x.of = "numbers" -> NumbersHold(x)
    [] x.of = "alone" -> AloneIsWhole(x)
    [] x.of = "pick" -> NamedIsRead(x)
    [] OTHER -> ReplyHolds(x)
=============================================================================
