-------------------------------- MODULE Menus --------------------------------
(***************************************************************************)
(* A dining venue's menu as a student asks for it: dated menus and the     *)
(* posted board (menu_property and menu_board_property of                  *)
(* retrieval/entity_facts.py).                                             *)
(*                                                                         *)
(* A menu row is an item of one meal at one station on a date.  A food or  *)
(* a label is a word; a student's word stands for labels (dairy is milk)   *)
(* and for kinds of dish.  `covers` holds the kinds of label the source    *)
(* published for the item.                                                 *)
(***************************************************************************)
EXTENDS Integers, Sequences, FiniteSets, SequencesExt, FiniteSetsExt

MealOrder == <<"breakfast", "brunch", "lunch", "dinner">>
MAX_MATCHES_LISTED == 2      \* bounds: 30, 3 and 24 in the code
MATCHES_PER_STATION == 1
MATCHES_SHOWN == 2
MAX_BOARD_DETAILED == 1      \* bound: 8 in the code
NUTRIENTS == {"protein"}
DishWords == [f \in {"pasta"} |-> {"pasta", "ziti"}]
AllergenWords == [a \in {"dairy", "nuts"} |-> IF a = "dairy" THEN {"milk", "dairy"} ELSE {"peanut", "nuts"}]
NoFilter == [diet |-> FALSE, contains |-> {}, with |-> {}, without |-> {}]

MealRank(meal) == CHOOSE i \in DOMAIN MealOrder : MealOrder[i] = meal

\* The published labels a student's word stands for.
LabelsFor(asked, labels) ==
  labels \cap (IF asked \in DOMAIN AllergenWords THEN AllergenWords[asked] ELSE {asked})

Dishes(foods) == UNION {IF f \in DOMAIN DishWords THEN DishWords[f] ELSE {f} : f \in foods}

\* What the labels seen cannot answer is taken out of the question, and said.
Unlabelled(query, vocabulary) == {a \in query.with \cup query.without : LabelsFor(a, vocabulary) = {}}
Answerable(query, vocabulary) ==
  [query EXCEPT !.with = @ \ Unlabelled(query, vocabulary),
                !.without = @ \ Unlabelled(query, vocabulary),
                !.contains = @ \ NUTRIENTS]

-----------------------------------------------------------------------------
(***************************************************************************)
(* Dated menus.                                                            *)
(***************************************************************************)
\* A slip: an item whose allergen labels were not published passes as free of them.
MenuKeptUnread(row, query) ==
  LET named(asked) == \E a \in asked : LabelsFor(a, row.labels) # {}
  IN  /\ query.diet => row.vegan /\ "vegan" \in row.covers
      /\ query.contains # {} => Dishes(query.contains) \cap row.food # {}
      /\ query.with # {} => "allergens" \in row.covers /\ named(query.with)
      /\ query.without # {} => ~named(query.without)

\* An item passes a filter only on labels its source published.
MenuKept(row, query) ==
  LET named(asked) == \E a \in asked : LabelsFor(a, row.labels) # {}
  IN  /\ query.diet => row.vegan /\ "vegan" \in row.covers
      /\ query.contains # {} => Dishes(query.contains) \cap row.food # {}
      /\ query.with # {} => "allergens" \in row.covers /\ named(query.with)
      /\ query.without # {} => "allergens" \in row.covers /\ ~named(query.without)

\* The meal asked for, or the brunch served in its place; nothing when the date has
\* neither ("" asks for the whole day).
MealRows(day, meal) ==
  LET of(m) == {r \in day : r.meal = m}
  IN  IF meal = "" THEN day
      ELSE IF of(meal) # {} THEN of(meal)
      ELSE IF meal \in {"breakfast", "lunch"} THEN of("brunch") ELSE {}

\* More matches than can be said: a few of each station, in serving order.
Shown(picked) ==
  LET before(r, s) == \/ MealRank(r.meal) < MealRank(s.meal)
                      \/ r.meal = s.meal /\ (r.station < s.station \/ (r.station = s.station /\ r.id < s.id))
      few == {r \in picked : Cardinality({s \in picked : s.meal = r.meal /\ s.station = r.station
                                                         /\ before(s, r)}) < MATCHES_PER_STATION}
  IN  IF Cardinality(picked) <= MAX_MATCHES_LISTED THEN picked
      ELSE {r \in few : Cardinality({s \in few : before(s, r)}) < MATCHES_SHOWN}

MenuProperty(rows, on, meal, query) ==
  LET day == {r \in rows : r.date = on}
      asked == MealRows(day, meal)
      \* the date has no such meal: it is said, with the meals it has
      notListed == asked = {}
      read == IF notListed THEN day ELSE asked
      vocabulary == UNION {r.labels : r \in read}
      unlabelled == Unlabelled(query, vocabulary)
      filter == Answerable(query, vocabulary)
      \* nothing was asked that a label could answer
      unanswerable == unlabelled # {} /\ [filter EXCEPT !.contains = query.contains] = NoFilter
      filtering == filter # NoFilter
      picked == IF unanswerable THEN {} ELSE IF filtering THEN {r \in read : MenuKept(r, filter)} ELSE read
      later == {r \in rows : r.date > on /\ MenuKept(r, filter)}
  IN  IF day = {} THEN [status |-> "unknown", dates |-> {r.date : r \in rows}]
      ELSE [status |-> "known",
            items |-> IF notListed THEN {} ELSE IF filtering THEN Shown(picked) ELSE picked,
            matched |-> IF filtering THEN Cardinality(picked) ELSE -1,
            unlabelled |-> unlabelled,
            nutrients |-> query.contains \cap NUTRIENTS,
            notListed |-> notListed,
            \* what the menu does have when nothing passes, and later dates of the food
            meals |-> IF filtering /\ picked = {} THEN {r.meal : r \in read}
                      ELSE IF notListed THEN {r.meal : r \in picked} ELSE {},
            later |-> IF filtering /\ picked = {} /\ filter.contains # {} THEN later ELSE {},
            rest |-> IF filtering /\ (filter.diet \/ filter.with # {} \/ filter.without # {})
                     THEN read \ picked ELSE {},
            cited |-> IF picked = {} THEN read ELSE picked]

-----------------------------------------------------------------------------
(***************************************************************************)
(* The posted board: not dated, in sections that may be named for a meal.  *)
(***************************************************************************)
\* The meal a section is named for when it is not the meal asked; brunch is breakfast
\* and lunch, and a section served all day is every meal's.
OtherMeal(section, asked) ==
  /\ section \notin {"", "all day", asked}
  /\ ~(asked = "brunch" /\ section \in {"breakfast", "lunch"})
  /\ ~(asked \in {"breakfast", "lunch"} /\ section = "brunch")

BoardRows(board, meal) ==
  LET named == {r \in board : r.section = meal}
      kept == {r \in board : ~OtherMeal(r.section, meal)}
  IN  IF meal = "" THEN board
      ELSE IF named # {} THEN named
      ELSE IF kept # {} THEN kept ELSE board

\* An item is of the food asked by its own words or by some of its options.
BoardKept(row, query) ==
  LET named(asked) == \E a \in asked : LabelsFor(a, row.labels) # {}
  IN  /\ query.diet => row.vegan
      /\ query.contains # {} => Dishes(query.contains) \cap (row.food \cup row.options) # {}
      /\ query.with # {} => named(query.with)
      /\ query.without # {} => row.labels # {} /\ ~named(query.without)

\* One readable board: one title, one address.  Its labels are the whole board's.
MenuBoardProperty(rows, meal, query) ==
  LET vocabulary == UNION {r.labels : r \in rows}
      filter == Answerable(query, vocabulary)
      unlabelled == Unlabelled(query, vocabulary)
      read == BoardRows(rows, meal)
      picked == IF filter # NoFilter THEN {r \in read : BoardKept(r, filter)}
                ELSE IF unlabelled # {} THEN {} ELSE read
  IN  IF rows = {} \/ Cardinality({r.title : r \in rows}) # 1 THEN {}
      ELSE {[status |-> "known", items |-> picked, unlabelled |-> unlabelled,
             matched |-> IF filter # NoFilter THEN Cardinality(picked) ELSE -1,
             leftOut |-> {r.section : r \in {s \in rows \ read : OtherMeal(s.section, meal)}},
             stations |-> IF filter # NoFilter /\ picked = {} THEN {r.station : r \in rows} ELSE {},
             detailed |-> \/ filter # NoFilter /\ Cardinality(picked) <= MAX_BOARD_DETAILED
                          \/ meal # "" /\ \E r \in rows : r.section = meal]}

-----------------------------------------------------------------------------
(***************************************************************************)
(* Properties.                                                             *)
(***************************************************************************)
\* No item is offered as free of an allergen, or as vegan, unless its own published
\* labels say so, whatever else was asked: an allergen no label names is said to be
\* unlabelled and never passes for absent.
FreeOnlyByLabel(x, found, published(_)) ==
  \A r \in found.items :
    /\ x.query.diet => r.vegan
    /\ \A a \in x.query.without :
         a \in found.unlabelled \/ (published(r) /\ LabelsFor(a, r.labels) = {})
    /\ x.query.with # {} /\ x.query.with \cap found.unlabelled = {} =>
         \E a \in x.query.with : LabelsFor(a, r.labels) # {}

\* An allergen the labels cannot answer, asked alone, offers no item at all.
UnlabelledAlone(x, found) ==
  x.query.without \subseteq found.unlabelled /\ x.query.without # {} /\ ~x.query.diet
    /\ x.query.contains = {} /\ x.query.with = {} => found.items = {}

\* A student who asks for one meal is never read another one's, and "none" is never a
\* dead end: it comes with what the menu does have (but for a meal the date lacks asked
\* only for an allergen no label names).
MealAnswered(x, found) ==
  /\ x.meal # "" => \A r \in found.items : r.meal = x.meal \/ (x.meal \in {"breakfast", "lunch"} /\ r.meal = "brunch")
  /\ found.matched = 0 \/ (found.notListed /\ found.unlabelled = {}) =>
       found.meals # {} /\ found.items = {}
  /\ found.matched > 0 /\ ~found.notListed => found.items # {}

BoardAnswered(x, found) ==
  /\ (\E r \in x.rows : ~OtherMeal(r.section, x.meal)) /\ x.meal # "" =>
       \A r \in found.items : ~OtherMeal(r.section, x.meal)
  /\ found.matched = 0 => found.stations # {}

MenuSafe(x) ==
  IF x.board
  THEN \A found \in MenuBoardProperty(x.rows, x.meal, x.query) :
         /\ FreeOnlyByLabel(x, found, LAMBDA r : r.labels # {})
         /\ UnlabelledAlone(x, found)
         /\ BoardAnswered(x, found)
  ELSE LET found == MenuProperty(x.rows, 1, x.meal, x.query)
       IN  found.status = "known" =>
             /\ FreeOnlyByLabel(x, found, LAMBDA r : "allergens" \in r.covers)
             /\ UnlabelledAlone(x, found)
             /\ MealAnswered(x, found)
=============================================================================
