------------------------------- MODULE People -------------------------------
(***************************************************************************)
(* Who, and which program, a question names (people.py, academics.py).     *)
(*                                                                         *)
(* A person is [id, first, last, about]: a first name, the parts of a last *)
(* name (two when it is hyphenated), the words of their title and school.  *)
(* A question is [words, cued, titled, short, ordinary, near]: its words,  *)
(* whether it asks of people and says a title, which words have two        *)
(* letters, which are the pages' own, and which <<word, id>> are near      *)
(* spellings of a last name.                                               *)
(***************************************************************************)
EXTENDS Integers, Sequences, FiniteSets, SequencesExt, FiniteSetsExt

CONSTANTS MaxPeople,    \* people a question names
          MaxPrograms,  \* programs a question names
          Beside        \* words before a subject that may give its level

\* n of a set, when it has more: the published order decides which.
Some(n, all) == IF Cardinality(all) <= n THEN {all} ELSE kSubset(n, all)

-----------------------------------------------------------------------------
(***************************************************************************)
(* People.  What is found is a set of [who, near].                         *)
(***************************************************************************)
NameOf(p) == {p.first} \cup p.last
Keys(p) == {p.last} \cup {{w} : w \in p.last}
Owners(people, key) == {p \in people : key \in Keys(p)}
As(people, near) == {[who |-> p, near |-> near] : p \in people}

NearNames(people, words, q) ==
  LET near == {p \in people : \E w \in words \ q.ordinary : <<w, p.id>> \in q.near}
      first == {p \in near : p.first \in words \ q.ordinary}
  IN  {As(s, TRUE) : s \in Some(MaxPeople, IF first # {} THEN first ELSE near)}

\* The names said that someone has: one that is an ordinary word only in a question of people.
Said(people, words, q) ==
  LET usable == IF q.cued THEN words ELSE IF q.ordinary = {} THEN {} ELSE words \ q.ordinary
  IN  {k \in UNION {Keys(p) : p \in people} : k \subseteq usable /\ (q.titled \/ k \cap q.short = {})}

\* A slip: of those who share a name, the first is meant.
LastNamesFirst(people, words, q) ==
  {As({CHOOSE p \in Owners(people, k) : \A o \in Owners(people, k) : p.id <= o.id}, FALSE) : k \in Said(people, words, q)}

\* Those whose name said is theirs alone; else all who share the longest name said; else near.
LastNames(people, words, q) ==
  LET said == Said(people, words, q)
      alone == UNION {Owners(people, k) : k \in {j \in said : Cardinality(Owners(people, j)) = 1}}
      shared == {k \in said : Cardinality(Owners(people, k)) <= MaxPeople}
      widest == {k \in shared : \A j \in shared : Cardinality(j) <= Cardinality(k)}
  IN  IF alone # {} THEN {As(s, FALSE) : s \in Some(MaxPeople, alone)}
      ELSE IF shared # {} THEN {As(Owners(people, k), FALSE) : k \in widest}
      ELSE IF said = {} /\ q.cued THEN NearNames(people, words, q) ELSE {{}}

Whole(people, q) == {p \in people : NameOf(p) \subseteq q.words}

\* Everyone named in full, and beside them those named by last name.
FindPeople(people, q) ==
  LET whole == Whole(people, q)
      beside(r) == {f \in r : ~f.near /\ f.who \notin whole}
      left == q.words \ UNION {NameOf(p) : p \in whole}
  IN  IF whole = {} THEN LastNames(people, q.words, q)
      ELSE IF Cardinality(whole) >= MaxPeople THEN {As(s, FALSE) : s \in Some(MaxPeople, whole)}
      ELSE UNION {{As(whole, FALSE) \cup s : s \in Some(MaxPeople - Cardinality(whole), beside(r))} :
                  r \in LastNames(people, left, q)}

OneName(found) == Cardinality({f.who.last : f \in found}) = 1

\* Of those who share a last name, the ones their title or school was said of.
Score(f, words) == Cardinality((f.who.about \ NameOf(f.who)) \cap words)
Narrow(found, words) ==
  LET best == Max({Score(f, words) : f \in found})
  IN  IF Cardinality(found) < 2 \/ ~OneName(found) \/ best = 0 THEN found
      ELSE {f \in found : Score(f, words) = best}

\* What code works out: whose facts it says, and whom the student is asked about.
Answers(found) ==
  IF Cardinality(found) > 1 /\ OneName(found) THEN [said |-> {}, ask |-> found]
  ELSE [said |-> found, ask |-> {f \in found : f.near}]

-----------------------------------------------------------------------------
(***************************************************************************)
(* Who leads.  An entry is [id, school, retired, title, fields], its title *)
(* one of "dean", "interim", "vice" (dean), "chair" and "none".            *)
(***************************************************************************)
Active(directory) == {e \in directory : ~e.retired}
Deans(directory, of) ==
  LET found == {e \in Active(directory) : e.school = of /\ e.title \in {"dean", "interim"}}
      permanent == {e \in found : e.title = "dean"}
      lead == IF permanent # {} THEN permanent ELSE found
      named == {e \in Active(directory) : e.school = of /\ e.title = "vice"}
  IN  IF found = {} THEN {[says |-> "no dean", of |-> of]} \cup {[says |-> "titled", of |-> of, who |-> e] : e \in named}
      ELSE {[says |-> "dean", of |-> of, who |-> e] : e \in lead} \cup
           {[says |-> "also", of |-> of, who |-> e] : e \in found \ lead}

Leading(directory, field) == {e \in Active(directory) : field \in e.fields /\ e.title # "none"}

\* The school most of a field's people are in (several when as many).
Homes(directory, field) ==
  LET titled == {e \in Active(directory) : field \in e.fields}
      of(s) == Cardinality({e \in titled : e.school = s})
  IN  {s \in {e.school : e \in titled} : \A t \in {e.school : e \in titled} : of(t) <= of(s)}

\* The lines said, one set for each school that may be taken for a field's.
Leaders(directory, schools, named, fields, dean) ==
  LET own == IF dean THEN UNION {Deans(directory, s) : s \in named} ELSE {}
      listed == {l.who : l \in {m \in own : "who" \in DOMAIN m}}
      asked == IF \E f \in fields : Leading(directory, f) # {} THEN {f \in fields : Leading(directory, f) # {}} ELSE fields
      leads(f) == {[says |-> "leads", of |-> f, who |-> e] : e \in Leading(directory, f) \ listed}
      lacking == {f \in asked : leads(f) = {} /\ ~(named # {} /\ dean)}
      unled(home) == UNION {{[says |-> "none leads", of |-> f]} \cup (UNION {Deans(directory, s) : s \in home[f]}) : f \in lacking}
      lines(home) == own \cup (UNION {leads(f) : f \in asked}) \cup unled(home)
      homes == {h \in [lacking -> SUBSET schools] : \A f \in lacking :
                  IF Homes(directory, f) = {} THEN h[f] = {} ELSE \E s \in Homes(directory, f) : h[f] = {s}}
  IN  {IF lines(h) = {} /\ dean THEN UNION {Deans(directory, s) : s \in schools} ELSE lines(h) : h \in homes}

-----------------------------------------------------------------------------
(***************************************************************************)
(* Programs.  A program is [name, core, level, alias]: the words of its    *)
(* name without the level, and its short names.  A message is a sequence   *)
(* of words; short[w] holds the longer words w is a short form of, size[w] *)
(* a word's letters and levels[w] the levels it names.                     *)
(***************************************************************************)
PlacesOf(message, word, short) == {k \in DOMAIN message : message[k] = word \/ word \in short[message[k]]}

\* A slip: a short form stands for every word it starts.
MentionsAll(programs, message, short, size) ==
  {[p |-> p, at |-> {Min(PlacesOf(message, w, short)) : w \in p.core}, every |-> UNION {PlacesOf(message, w, short) : w \in p.core}] :
     p \in {q \in programs : \A w \in q.core : PlacesOf(message, w, short) # {}}}

\* Where each program named is said; a short form stands for the shortest word it starts.
Mentions(programs, message, short, size) ==
  LET whole == {p \in programs : \A w \in p.core : PlacesOf(message, w, short) # {}}
      stood(p) == UNION {{<<k, size[w]>> : k \in {j \in PlacesOf(message, w, short) : message[j] # w}} : w \in p.core}
      all == UNION {stood(p) : p \in whole}
      longer(p) == \E s \in stood(p), t \in all : s[1] = t[1] /\ t[2] < s[2]
      alias(p) == {k \in DOMAIN message : message[k] \in p.alias}
  IN  {[p |-> p, at |-> {Min(PlacesOf(message, w, short)) : w \in p.core},
        every |-> UNION {PlacesOf(message, w, short) : w \in p.core}] : p \in {q \in whole : ~longer(q)}}
      \cup {[p |-> p, at |-> alias(p), every |-> alias(p)] : p \in {q \in programs \ whole : alias(q) # {}}}

\* Of a subject's programs, those at a level said beside it, else anywhere, else the major.
AtLevel(group, message, levels) ==
  LET from == Min(UNION {m.at : m \in group})
      to == Max(UNION {m.at : m \in group})
      near == UNION {levels[message[k]] : k \in {j \in DOMAIN message : from - Beside <= j /\ j <= to + Beside}}
      asked == IF near # {} THEN near ELSE UNION {levels[message[k]] : k \in DOMAIN message}
      pick == {m \in group : m.p.level \in IF asked # {} THEN asked ELSE {"major"}}
  IN  {m.p : m \in IF pick # {} THEN pick ELSE group}

FindPrograms(programs, message, short, size, levels) ==
  LET named == Mentions(programs, message, short, size)
      inside(m) == \E o \in named : m.p.core # o.p.core /\ m.p.core \subseteq o.p.core /\ m.every \subseteq o.at
      kept == {m \in named : ~inside(m)}
      chosen == UNION {AtLevel({m \in kept : m.p.core = c}, message, levels) : c \in {m.p.core : m \in kept}}
  IN  Some(MaxPrograms, chosen)

NamedInFull(found, message) ==
  {p \in found : p.core \subseteq ToSet(message) \/ p.alias \cap ToSet(message) # {}}

-----------------------------------------------------------------------------
(***************************************************************************)
(* Plans.  A recommended plan is [cohort, track, base, terms]: its year,   *)
(* the words of its track, whether it is the program's own and whether its *)
(* semesters are published.  A question is [years, standing, words].       *)
(***************************************************************************)
AskedFor(plan, words) == plan.track # {} /\ plan.track \subseteq words

ChoosePlan(plans, current, q) ==
  LET cohorts == {p.cohort : p \in plans}
      years == {y \in q.years : y \in cohorts}
      own == IF years # {} THEN Min(years) ELSE current - q.standing
      near == IF own \in cohorts THEN own ELSE Max(cohorts)
      tracks == {p \in plans : p.terms /\ AskedFor(p, q.words)}
      cohort == IF years # {} \/ tracks = {} \/ (\E p \in tracks : p.cohort = near) THEN near
                ELSE Max({p.cohort : p \in tracks})
      pool == {p \in plans : p.cohort = cohort /\ p.terms}
      track == {p \in pool : AskedFor(p, q.words)}
      base == {p \in pool : p.base}
  IN  IF plans = {} THEN {} ELSE IF track # {} THEN track ELSE IF base # {} THEN base ELSE pool

-----------------------------------------------------------------------------
(***************************************************************************)
(* Properties.                                                             *)
(***************************************************************************)
\* No one's facts are said for another who has the name said: whoever shares it is said too, or
\* asked about, or set aside by a title or school said of the others, or gave way to a full name;
\* and a near spelling is only asked about, when nobody has a name said.
NobodyPassedOver(x) ==
  \A found \in FindPeople(x.people, x.q) :
    LET kept == Narrow(found, x.q.words)
        got == Answers(kept)
    IN  \A f \in got.said :
          /\ f.near => f \in got.ask /\ Said(x.people, x.q.words, x.q) = {}
          /\ ~f.near /\ ~(NameOf(f.who) \subseteq x.q.words) =>
               \E k \in Keys(f.who) :
                 /\ k \subseteq x.q.words
                 /\ \A p \in Owners(x.people, k) :
                      \/ p \in {g.who : g \in found}
                      \/ Cardinality(Whole(x.people, x.q)) + Cardinality(Owners(x.people, k)) > MaxPeople
          /\ \A g \in found \ kept : Score(g, x.q.words) < Score(f, x.q.words) /\ g.who.last = f.who.last

\* No one retired, and no vice dean, is said to be a dean; an interim one only of a school that
\* has no other; and that nobody leads a school or a field is said only when nobody does.
LeadersHold(x) ==
  \A lines \in Leaders(x.directory, x.schools, x.named, x.fields, x.dean) : \A l \in lines :
    /\ l.says \in {"dean", "leads"} => ~l.who.retired
    /\ l.says = "dean" =>
         /\ l.who.school = l.of /\ l.who.title \in {"dean", "interim"}
         /\ l.who.title = "interim" => \A e \in x.directory : ~(e.school = l.of /\ e.title = "dean" /\ ~e.retired)
    /\ l.says = "no dean" => \A e \in Active(x.directory) : e.school = l.of => e.title \notin {"dean", "interim"}
    /\ l.says = "none leads" => \A f \in x.fields : Leading(x.directory, f) = {}

\* Every subject typed in whole words is answered by a program of it, at a level said when it has
\* one; only a name inside a longer one gives way, or one that a short form also in the message
\* begins. And one short form never stands for a shorter and a longer word at once.
SubjectsFound(x) ==
  \A found \in FindPrograms(x.programs, x.message, x.short, x.size, x.levels) :
    /\ \A p \in x.programs :
         LET typed == p.core \subseteq ToSet(x.message)
             other == \E q \in x.programs : p.core # q.core /\ p.core \subseteq q.core
             begun == \E w \in p.core, v \in ToSet(x.message) : w \in x.short[v]
         IN  typed /\ ~other /\ ~begun /\ Cardinality(found) < MaxPrograms =>
               \E g \in found : g.core = p.core /\ g \in NamedInFull(found, x.message)
    /\ \A g \in found : g.level \in {"major", "minor"} =>
         \A p \in x.programs : p.core = g.core /\ p.level = "major" /\ p \notin found =>
           \E w \in ToSet(x.message) : g.level \in x.levels[w]
    /\ \A g, h \in found, v \in ToSet(x.message) :
         g.alias \cup h.alias = {} =>
           \A w \in g.core \cap x.short[v], u \in h.core \cap x.short[v] : x.size[w] = x.size[u]

\* A student is given a plan with its semesters, of the year named or of their own class when one
\* is published, and of the track asked whenever any class has one.
PlanIsTheirs(x) ==
  LET own == x.current - x.q.standing
      asked(p) == p.terms /\ AskedFor(p, x.q.words)
  IN  \A p \in ChoosePlan(x.plans, x.current, x.q) :
        /\ p.terms
        /\ x.q.years \cap {o.cohort : o \in x.plans} # {} => p.cohort \in x.q.years
        /\ x.q.years = {} => /\ (\E o \in x.plans : asked(o)) => asked(p)
                             /\ (\E o \in x.plans : asked(o) /\ o.cohort = own) => p.cohort = own
                             /\ (\A o \in x.plans : ~asked(o)) /\ (\E o \in x.plans : o.cohort = own) => p.cohort = own

PeopleMeant(x) ==
  CASE x.of = "people" -> NobodyPassedOver(x)
    [] x.of = "leaders" -> LeadersHold(x)
    [] x.of = "programs" -> SubjectsFound(x)
    [] OTHER -> PlanIsTheirs(x)
=============================================================================
