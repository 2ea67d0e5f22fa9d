-------------------------------- MODULE Walk --------------------------------
(***************************************************************************)
(* How a name a student used becomes one place, or a question back         *)
(* (campus_graph.py, ChatEngine._lookup, router.py), and the links the     *)
(* campus graph's browser shows (graph_browse.py).                         *)
(*                                                                         *)
(* An identity is [id, names]; its first name is its own, the others are   *)
(* its aliases.  A choice that is not sure is {}.                          *)
(***************************************************************************)
EXTENDS Registry

CONSTANT MaxAsked  \* offices of a service, or places of a name, offered or routed

Basis(e, query) == Match(e.names, query).basis
Exact(e, query) == Basis(e, query) \in {"name", "alias"}
Aliases(e) == {e.names[i] : i \in 2..Len(e.names)}
Only(some) == IF Cardinality(some) = 1 THEN some ELSE {}

-----------------------------------------------------------------------------
(***************************************************************************)
(* Which candidate is the one meant.                                       *)
(***************************************************************************)
\* Of names inside the question: the widest, an office's own name before another's alias.
Inside(candidates, query) ==
  LET covers(e) == Match(e.names, query).covers
      widest == {e \in candidates : ~\E f \in candidates : covers(e) \subseteq covers(f) /\ covers(e) # covers(f)}
      own == {e \in widest : Basis(e, query) = "contains_name"}
  IN  IF \/ \E e \in candidates : Basis(e, query) \notin {"contains_name", "contains_alias"}
         \/ Cardinality({covers(e) : e \in widest}) # 1
      THEN {} ELSE IF Cardinality(own) = 1 THEN own ELSE Only(widest)

\* A slip: the first of several exact matches is taken.
LookupChoiceFirst(found, query) ==
  LET candidates == ToSet(found.candidates)
      exact == {e \in candidates : Exact(e, query)}
  IN  IF found.truncated THEN {}
      ELSE IF Cardinality(candidates) = 1 THEN candidates
      ELSE IF exact # {} THEN {CHOOSE e \in exact : \A f \in exact : e.id <= f.id}
      ELSE Inside(candidates, query)

LookupChoice(found, query) ==
  LET candidates == ToSet(found.candidates)
      exact == {e \in candidates : Exact(e, query)}
  IN  IF found.truncated THEN {}
      ELSE IF Cardinality(candidates) = 1 THEN candidates
      ELSE IF Cardinality(exact) = 1 THEN exact
      ELSE IF exact # {} THEN Only({e \in exact : Basis(e, query) = "name"})
      ELSE Inside(candidates, query)

\* The tied candidate with an alias the conversation used that no other lists.
NamedByConversation(candidates, said) ==
  Only({e \in candidates : \E a \in Aliases(e) :
          a # {} /\ a \subseteq said /\ \A f \in candidates \ {e} : a \notin Aliases(f)})

\* The topic the words exactly name: {} or {its offices}.
TopicNamed(topics, query) ==
  LET exact == {t \in topics : Exact(t, query)} IN {t.offices : t \in Only(exact)}

\* One traversal: [read, ask], the office read (or none) and the choices offered.
Lookup(x, query, exactName) ==
  LET found == SearchOffices(x.entities, query, x.limit)
      named == [found EXCEPT !.candidates = IF exactName THEN SelectSeq(@, LAMBDA e : e.names[1] = query) ELSE @]
      candidates == ToSet(named.candidates)
      sure == LookupChoice(named, query)
      topic == IF exactName \/ (\E e \in candidates : Exact(e, query)) THEN {} ELSE TopicNamed(x.topics, query)
      said == IF exactName \/ named.truncated \/ x.conversation = {} THEN {}
              ELSE NamedByConversation(candidates, x.conversation)
      chosen == IF topic # {} THEN Only(The(topic)) ELSE IF sure # {} THEN sure ELSE said
  IN  [read |-> {e.id : e \in chosen},
       ask |-> IF chosen # {} THEN {} ELSE {e.id : e \in IF topic # {} THEN The(topic) ELSE candidates},
       topic |-> topic # {}]

-----------------------------------------------------------------------------
(***************************************************************************)
(* The lookup of a turn, with what it falls back to when no name matched.  *)
(* A building is [name, places]: the venues in it.  A service is [of,      *)
(* label, head]: the office that lists it, its words and the last of them. *)
(***************************************************************************)
\* A building the query is the whole name of, when no office or venue is called that.
BuildingNamed(x, query) ==
  IF \E e \in x.entities : query \in ToSet(e.names) THEN {} ELSE Only({b \in x.buildings : b.name = query})

\* The venues in a building the words name by two words.
VenuesInBuilding(x, words) == UNION {b.places : b \in {c \in x.buildings : Cardinality(c.name \cap words) >= 2}}

OfficesByService(x, query) == {s.of : s \in {t \in x.services : query # {} /\ query \subseteq t.label /\ t.head \subseteq query}}

\* The place a name of a place leads to: read as that place, when it is sure.
Of(x, ids) == UNION {Lookup(x, e.names[1], FALSE).read : e \in {f \in x.entities : f.id \in ids}}

TurnLookup(x, exactName) ==
  LET building == IF exactName \/ x.menu THEN {} ELSE BuildingNamed(x, x.query)
      walk == Lookup(x, x.query, exactName)
      none == walk.read = {} /\ walk.ask = {} /\ ~walk.topic
      there == IF none THEN VenuesInBuilding(x, x.query) ELSE {}
      serving == IF none /\ there = {} /\ ~x.menu THEN OfficesByService(x, x.query) ELSE {}
      read == walk.read \cup Of(x, Only(there) \cup Only(serving))
      offered == there \cup IF Cardinality(serving) <= MaxAsked THEN serving ELSE {}
      shared == IF exactName THEN {} ELSE VenuesInBuilding(x, x.latest)
      named == {e.id : e \in {f \in x.entities : \E i \in DOMAIN f.names : f.names[i] \subseteq x.latest}}
  IN  IF building # {} THEN [of |-> "building", read |-> {}, ask |-> {}]
      ELSE IF Cardinality(shared) > 1 /\ (read \cap shared) \ named # {} THEN [of |-> "place", read |-> {}, ask |-> shared]
      ELSE [of |-> "place", read |-> read, ask |-> walk.ask \cup (offered \ read)]

\* The office whose number an emergency gives: the one of exactly that name, or none.
CampusHelp(x) == TurnLookup(x, TRUE).read \cap {e.id : e \in {f \in x.entities : f.names[1] = x.query}}

-----------------------------------------------------------------------------
(***************************************************************************)
(* A plain question code routes with no model call: [message, listed,      *)
(* rooms, menus, plain].  A message and a name are sequences of words;     *)
(* listed: the names [key, kind, of]; rooms: the room-number prefixes of   *)
(* buildings [prefix, of]; menus: the venues that publish a menu.  A word  *)
(* stands for the words that ask the same.                                 *)
(***************************************************************************)
ROOM_NUMBER == "407"
INSIDE == "inside"              \* what is in a building
ASKS == [word \in {"menu", "open"} |-> IF word = "menu" THEN "menu" ELSE "hours"]

SaidAt(message, key, i) == i + Len(key) - 1 <= Len(message) /\ SubSeq(message, i, i + Len(key) - 1) = key

\* A building's name that an office or venue also has is theirs.
Owners(listed, key) ==
  LET all == {n \in listed : n.key = key}
      others == {n \in all : n.kind # "building"}
  IN  {<<n.kind, n.of>> : n \in IF others # {} THEN others ELSE all}

\* A room said by its building's prefix, also where the prefix alone is an office's name.
RoomOwners(rooms, word) == {<<"building", r.of>> : r \in {q \in rooms : q.prefix = word}}

\* Where names are read from: the offices, the venues, then the buildings.
ListedAt(n) == n.of + CASE n.kind = "office" -> 0 [] n.kind = "venue" -> 10 [] n.kind = "building" -> 20

NamesSaid(x) ==
  UNION {{[from |-> i, to |-> i + Len(n.key) - 1, owners |-> Owners(x.listed, n.key), room |-> FALSE,
           at |-> Min({ListedAt(m) : m \in {l \in x.listed : l.key = n.key}})] :
            n \in {m \in x.listed : SaidAt(x.message, m.key, i)}} : i \in DOMAIN x.message}

RoomsSaid(x) ==
  {[from |-> i, to |-> i + 1, owners |-> RoomOwners(x.rooms, x.message[i]), room |-> TRUE, at |-> 30] :
     i \in {j \in 1..(Len(x.message) - 1) : /\ x.message[j + 1] = ROOM_NUMBER
                                           /\ RoomOwners(x.rooms, x.message[j]) # {}}}

\* Every name and room said, the longest first: one inside a longer one is not said.
Said(x) ==
  LET long(s) == s.to - s.from
      longer(s, t) == \/ long(s) > long(t)
                      \/ long(s) = long(t) /\ (s.at < t.at \/ (s.at = t.at /\ s.from < t.from))
      add(kept, s) == IF \E k \in ToSet(kept) : k.from <= s.to /\ s.from <= k.to THEN kept ELSE Append(kept, s)
  IN  FoldLeft(add, <<>>, SetToSortSeq(NamesSaid(x) \cup RoomsSaid(x), longer))

\* A menu asked of no place is asked of every venue that publishes one.
EveryMenu(x) == [from |-> 1, to |-> 0, owners |-> {<<"venue", v>> : v \in x.menus}, room |-> FALSE, at |-> 0]

\* The places looked up: those of the one name said, when every other word is a plain one and
\* what is asked fits; {} leaves the question to the model.
CodeRoute(x) ==
  LET named == Said(x)
      said == IF named = <<>> /\ x.menus # {} /\ "menu" \in ToSet(x.message) THEN <<EveryMenu(x)>> ELSE named
      owners == said[1].owners
      kinds == {o[1] : o \in owners}
      rest == {x.message[i] : i \in DOMAIN x.message \ (said[1].from..said[1].to)}
      asked == {ASKS[word] : word \in rest \cap DOMAIN ASKS}
      fields == IF asked = {} /\ kinds = {"building"} /\ (said[1].room \/ INSIDE \in rest)
                THEN {"offices"} ELSE asked
  IN  IF \/ Len(said) # 1
         \/ Cardinality(owners) > MaxAsked \/ Cardinality(kinds) # 1
         \/ ~(rest \subseteq x.plain) \/ fields = {}
         \/ "menu" \in fields /\ kinds # {"venue"}
         \/ named = <<>> /\ fields # {"menu"}
         \/ kinds = {"building"} /\ (Cardinality(owners) # 1 \/ ~(fields \subseteq {"offices", "hours"}))
         \/ said[1].room /\ fields # {"offices"}
      THEN {} ELSE owners

-----------------------------------------------------------------------------
(***************************************************************************)
(* The browser.  An entity is [id, kind, owns, links]: the records it owns *)
(* and its relations, each to an entity or to a record, [to] or [record].  *)
(***************************************************************************)
OwnersOf(entities, record) == {e.id : e \in {f \in entities : record \in f.owns}}

\* A slip: a link to a record links nothing.
TargetsNamed(entities, link) == IF "to" \in DOMAIN link THEN {link.to} ELSE {}
Targets(entities, link) == IF "to" \in DOMAIN link THEN {link.to} ELSE OwnersOf(entities, link.record)

Ids(entities) == {e.id : e \in entities}
LinkedIds(entities) ==
  UNION {{p[1].id, p[2]} : p \in {q \in entities \X Ids(entities) : \E l \in q[1].links : q[2] \in Targets(entities, l)}}

\* A card's links: out, those that lead to no entity of the release marked so, and in.
Card(entities, e) ==
  [out |-> UNION {Targets(entities, l) \cap Ids(entities) : l \in e.links},
   missing |-> UNION {Targets(entities, l) \ Ids(entities) : l \in e.links},
   record |-> {l \in e.links : Targets(entities, l) = {}},
   into |-> {f.id : f \in {g \in entities : \E l \in g.links : e.id \in Targets(entities, l)}}]
UnlinkedList(entities) == Ids(entities) \ LinkedIds(entities)

-----------------------------------------------------------------------------
(***************************************************************************)
(* Properties.                                                             *)
(***************************************************************************)
\* No place is guessed: two offices with the name said are never told apart by code unless the
\* conversation used a name only one has; an emergency gives the number of the one office of
\* exactly that name, whatever else matches; a list that was cut off settles nothing; and a venue of a building two
\* share is read only when the student named it.  The one office with that name of its own is
\* always the one read.
NothingGuessed(x) ==
  LET got == TurnLookup(x, FALSE)
      called == {e \in x.entities : x.query \in ToSet(e.names)}
      own == {e \in called : e.names[1] = x.query}
      venues == VenuesInBuilding(x, x.latest)
      all == SearchOffices(x.entities, x.query, x.limit)
      named(e) == \E i \in DOMAIN e.names : e.names[i] \subseteq x.latest
  IN  /\ Cardinality(got.read) <= 1
      /\ (own # {} /\ ~all.truncated) => CampusHelp(x) = {e.id : e \in Only(own)}
      /\ (Cardinality(called) > 1 /\ Cardinality(own) # 1 /\ x.conversation = {}) => got.read = {}
      /\ (\E e, f \in x.entities : /\ e # f /\ called = {} /\ e.names[1] \subseteq x.query /\ f.names[1] \subseteq x.query
                                   /\ ~(e.names[1] \subseteq f.names[1]) /\ ~(f.names[1] \subseteq e.names[1]))
           /\ x.topics = {} /\ x.conversation = {} => got.read = {}
      /\ all.truncated /\ x.topics = {} => got.read = {}
      /\ Cardinality(venues) > 1 =>
           \A e \in x.entities : e.id \in got.read \cap venues => named(e)
      /\ (Cardinality(own) = 1 /\ ~all.truncated) =>
           got.read = {e.id : e \in own} \/ got.ask = venues

\* A question code routes by itself has one name or room said and no other listed name or room
\* apart from it, and goes to all its places: a room to its building, never to the office its
\* prefix names, and only for where it is.  One that names no place at all asks for a menu and
\* nothing else, and goes to every venue that publishes one.  Every other word of it is one code
\* understands, so no part of the question is dropped.
RoutedIsWhole(x) ==
  LET places == CodeRoute(x)
      spans == UNION {{<<i, i + Len(n.key) - 1, Owners(x.listed, n.key)>> :
                         n \in {m \in x.listed : SaidAt(x.message, m.key, i)}} : i \in DOMAIN x.message}
      rooms == {<<i, i + 1, RoomOwners(x.rooms, x.message[i])>> :
                  i \in {j \in DOMAIN x.message : /\ \E r \in x.rooms : r.prefix = x.message[j]
                                                 /\ j < Len(x.message) /\ x.message[j + 1] = ROOM_NUMBER}}
      words(from, to) == {x.message[j] : j \in DOMAIN x.message \ (from..to)}
      one(m) == /\ places = m[3] /\ words(m[1], m[2]) \subseteq x.plain
                /\ m \in rooms => words(m[1], m[2]) \cap DOMAIN ASKS = {}
                /\ \A n \in spans \cup rooms :
                     m[1] <= n[2] /\ n[1] <= m[2] /\ n[2] - n[1] <= m[2] - m[1]
      every == /\ places = {<<"venue", v>> : v \in x.menus} /\ spans \cup rooms = {}
               /\ "menu" \in ToSet(x.message) /\ "open" \notin ToSet(x.message)
               /\ ToSet(x.message) \subseteq x.plain
  IN  places # {} => every \/ \E m \in spans \cup rooms : one(m)

\* The three views agree: an entity is listed as unlinked exactly when its own card shows no
\* link to or from an entity of the release, every card's link is on the other's card, and only
\* a record nobody owns is left as a record.
CardsAgree(x) ==
  \A e \in x.entities :
    LET card == Card(x.entities, e)
    IN  /\ e.id \in UnlinkedList(x.entities) <=> card.out = {} /\ card.into = {}
        /\ \A f \in x.entities : f.id \in card.out <=> e.id \in Card(x.entities, f).into
        /\ \A l \in card.record : \A f \in x.entities : l.record \notin f.owns

WalkSure(x) ==
  CASE x.of = "lookup" -> NothingGuessed(x)
    [] x.of = "route" -> RoutedIsWhole(x)
    [] x.of = "browse" -> CardsAgree(x)
    [] OTHER -> RegistryAnswers(x)
=============================================================================
