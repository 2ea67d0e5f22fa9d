----------------------------- MODULE AskAnswers -----------------------------
(***************************************************************************)
(* What MCBrain asks of the paths to an answer: whom and which place a     *)
(* message means, the pages read for it, and the one call that answers it  *)
(* from every reader's sources.                                            *)
(***************************************************************************)
EXTENDS Integers, Sequences, FiniteSets

VARIABLE asked

Ask(rule, x) == asked' = [rule |-> rule, of |-> x]

-----------------------------------------------------------------------------
(***************************************************************************)
(* The campus graph: what is looked up, routed to and browsed; the records *)
(* an office answers from, the search over names, the sections beside.     *)
(***************************************************************************)
Named(i, n) == [id |-> i, names |-> n]
PlaceNames == {<<{"pine"}>>, <<{"safety"}, {"parking"}>>, <<{"safety", "night"}, {"safety"}>>, <<{"hall"}, {"pine"}>>, <<{"cafe"}, {"parking"}>>}
Lookups == {{"pine"}, {"safety"}, {"safety", "night"}, {"pine", "cafe"}, {"pine", "hall"}, {"center", "student"}, {"mail"}, {"center", "student", "food"}}
Topics == {{}, {[names |-> <<{"mail"}>>, offices |-> {Named(1, <<{"pine"}>>)}]}}
Center(places) == [name |-> {"center", "student"}, places |-> places]
Key(k, i, o) == [key |-> k, kind |-> i, of |-> o]
Keyed == {Key(<<"pine">>, "office", 1), Key(<<"pine", "hall">>, "building", 2), Key(<<"hall">>, "venue", 3),
          Key(<<"pine">>, "office", 4), Key(<<"pine">>, "building", 5), Key(<<"hall", "menu">>, "venue", 6)}
Room(of) == [prefix |-> "pine", of |-> of]
MenusAndRooms == {<<{}, {}>>, <<{3, 6}, {Room(2)}>>, <<{3, 6, 7}, {Room(2), Room(5)}>>}
Entity(i, kind, owns, links) == [id |-> i, kind |-> kind, owns |-> owns, links |-> links]
Links == {{}, {[to |-> 1]}, {[to |-> 2], [record |-> 7]}, {[record |-> 8]}, {[to |-> 9]}}

AskWalk ==
  \/ \E a, b, c \in PlaceNames, query \in Lookups, topics \in Topics, latest \in {{}, {"center", "student"}, {"center", "student", "cafe"}},
        earlier \in {{}, {"parking"}}, limit \in {1, 3}, places \in {{3}, {1, 3}} :
        Ask("walk", [of |-> "lookup", entities |-> {Named(1, a), Named(2, b), Named(3, c)}, query |-> query, limit |-> limit,
          topics |-> topics, conversation |-> earlier, latest |-> latest, menu |-> FALSE, buildings |-> {Center(places)},
          services |-> {[of |-> 2, label |-> {"mail", "room"}, head |-> {"mail"}]}])
  \/ \E message \in [1..3 -> {"pine", "hall", "menu", "open", "inside", "407"}], p \in MenusAndRooms,
        listed \in {some \in SUBSET Keyed : Cardinality(some) <= 3} :
        Ask("walk", [of |-> "route", message |-> message, listed |-> listed, plain |-> {"menu", "open", "inside"},
          menus |-> p[1], rooms |-> p[2]])
  \/ \E k, l, m \in Links, o, p \in {{}, {7}, {8}} :
        Ask("walk", [of |-> "browse",
          entities |-> {Entity(1, "office", {}, k), Entity(2, "office", o, l), Entity(3, "person", p, m)}])

Blank == [email |-> "", offices |-> "", hours |-> ""]
Unset == [email |-> <<>>, offices |-> <<>>, hours |-> <<>>]
Contact(offices, claim) == [id |-> 1, key |-> "k", seen |-> 25, sla |-> 20, since |-> 0, until |-> 0,
  raw |-> [email |-> "a", offices |-> offices, hours |-> ""], observed |-> [captured |-> 0, fields |-> {}, pages |-> {}, raw |-> Blank],
  conflicts |-> Unset, doubted |-> {}, claim |-> [Unset EXCEPT !.offices = claim, !.hours = claim]]
Schedule(hours) == [id |-> 1, name |-> "desk", season |-> "", since |-> 0, until |-> 0, day |-> 1, statement |-> 1,
  hours |-> hours, omits |-> {}, checked |-> 1, problem |-> "none", note |-> 0]
Dish(date) == [id |-> 1, date |-> date, meal |-> "lunch", station |-> 1, food |-> {"soup"}, vegan |-> TRUE, covers |-> {}, labels |-> {},
  section |-> "lunch", options |-> {}, title |-> 1]
Hall == [id |-> 1, name |-> {"hall"}, aliases |-> {}, mapRecords |-> 1, mapUrl |-> TRUE]
Listing(dated) == [dated |-> dated, seen |-> 20, cited |-> TRUE, sla |-> 10]
Office(kind, contact, linked, schedules, dishes, board, listings, name, from) ==
  [kind |-> kind, rows |-> <<contact>>, linkedHours |-> linked, schedules |-> schedules, menuRows |-> dishes, board |-> board,
   menuFiles |-> FALSE, listings |-> listings, linkedContacts |-> {"k"}, buildings |-> {Hall},
   place |-> [name |-> name, evidence |-> {[building |-> 1, from |-> from, record |-> 1, cited |-> TRUE]}, mapRecords |-> {1}, roomCited |-> TRUE]]
Section(at, office, page, top, body) == [at |-> at, office |-> office, page |-> page, top |-> top, body |-> body]
NameWords == SUBSET {"public", "safety", "emergency"} \ {{}}
Printing == SUBSET {"print", "form"}

AskRegistry ==
  \/ \E kind \in {"office", "venue"}, r \in {"", "a"}, claim \in {<<>>, <<30>>}, linked \in {{}, {1}},
        s \in {{}, {Schedule("9-5")}, {Schedule("")}}, m \in {{}, {Dish(1)}, {Dish(2)}}, b \in {{}, {Dish(1)}},
        g \in {{}, {Listing("no")}, {Listing("yes")}}, name \in {{"hall"}, {"desk"}}, from \in {"map_places", "contacts"} :
        /\ s # {} => linked = {1}
        /\ Ask("walk", [of |-> "office", now |-> 45, office |-> Office(kind, Contact(r, claim), linked, s, m, b, g, name, from)])
  \/ \E query, a, b, c \in NameWords, limit \in 1..2 :
        Ask("walk", [of |-> "search", query |-> query, limit |-> limit,
          entities |-> {Named(1, <<a>>), Named(2, <<b, c>>), Named(3, <<{"safety"}>>)}])
  \/ \E exclude \in {{}, {1}}, p \in {1, 2}, q \in {1, 2, 3}, a, b, c, d \in Printing :
        Ask("walk", [of |-> "procedure", wanted |-> {"print", "form"}, exclude |-> exclude,
          sections |-> {Section(1, 1, 1, {"print", "form"}, {"print", "form"}), Section(2, 2, p, a, b), Section(3, 3, q, c, d),
                        Section(4, 3, 4, {}, {"print"})}])

-----------------------------------------------------------------------------
(***************************************************************************)
(* The directory and the catalog.                                          *)
(***************************************************************************)
Person(i, first, last, about) == [id |-> i, first |-> first, last |-> last, about |-> about]
Everyone == {Person(1, "ann", {"lee"}, {"business"}), Person(2, "bo", {"lee"}, {"nursing"}), Person(3, "cy", {"lee", "good"}, {}),
             Person(4, "ann", {"xu"}, {"business"}), Person(5, "di", {"good"}, {"nursing"})}
Entry(i, school, retired, title, fields) == [id |-> i, school |-> school, retired |-> retired, title |-> title, fields |-> fields]
Titles == {"dean", "interim", "vice", "chair"}
Typed == {"biochemistry", "biology", "bio", "data", "science", "minor", "major", "cs"}
Short == [w \in Typed |-> IF w = "bio" THEN {"biology", "biochemistry"} ELSE {}]
Size == [w \in Typed |-> IF w = "biology" THEN 7 ELSE 12]
Levels == [w \in Typed |-> IF w \in {"minor", "major"} THEN {w} ELSE {}]
Program(n, core, level, alias) == [name |-> n, core |-> core, level |-> level, alias |-> alias]
Programs == {Program(1, {"biology"}, "major", {}), Program(2, {"biology"}, "minor", {}), Program(3, {"biochemistry"}, "major", {}),
             Program(4, {"data", "science"}, "major", {}), Program(5, {"science"}, "minor", {"cs"})}
Plan(cohort, track, base, terms) == [cohort |-> cohort, track |-> track, base |-> base, terms |-> terms]
Plans == {Plan(c, t, t = {}, s) : c \in 1..3, t \in {{}, {"med"}}, s \in BOOLEAN}

AskPeople ==
  \/ \E people \in SUBSET Everyone, words \in SUBSET {"ann", "bo", "lee", "good", "xu", "business", "godo"}, cued, titled \in BOOLEAN,
        ordinary \in {{}, {"good"}} :
        /\ Cardinality(people) = 3
        /\ Ask("people", [of |-> "people", people |-> people, q |-> [words |-> words, cued |-> cued, titled |-> titled,
                            short |-> {"xu"}, ordinary |-> ordinary, near |-> {<<"godo", 5>>, <<"godo", 3>>, <<"bo", 4>>}]])
  \/ \E a, b \in Titles, c \in {"chair", "none", "dean"}, r, t \in BOOLEAN, f, g \in {{}, {"nursing"}},
        named \in SUBSET {"arts", "health"}, fields \in SUBSET {"nursing", "art"}, dean \in BOOLEAN :
        Ask("people", [of |-> "leaders", schools |-> {"arts", "health"}, named |-> named, fields |-> fields, dean |-> dean,
          directory |-> {Entry(1, "arts", r, a, f), Entry(2, "arts", FALSE, b, g), Entry(3, "health", t, c, {"nursing"}),
                         Entry(4, "health", FALSE, "none", {"art"})}])
  \/ \E a, b, c, d \in Typed :
        Ask("people", [of |-> "programs", programs |-> Programs, message |-> <<a, b, c, d>>, short |-> Short, size |-> Size, levels |-> Levels])
  \/ \E plans \in SUBSET Plans, years \in SUBSET {2, 3}, standing \in {0, 1}, words \in {{}, {"med"}} :
        /\ Cardinality(plans) <= 3
        /\ Ask("people", [of |-> "plans", plans |-> plans, current |-> 3, q |-> [years |-> years, standing |-> standing, words |-> words]])

-----------------------------------------------------------------------------
(***************************************************************************)
(* Ranked units of three pages, with the picks of three calls over them;   *)
(* the lines read from two pages; the office page lent to an answer.       *)
(***************************************************************************)
Unit(p, n) == [page |-> p, at |-> n]
Rankings == {<<Unit("a",2), Unit("b",1), Unit("a",1), Unit("c",1), Unit("a",3)>>, <<Unit("c",1), Unit("a",3), Unit("b",1), Unit("a",2), Unit("a",1)>>,
             <<Unit("b",1), Unit("c",1), Unit("a",1), Unit("a",3), Unit("a",2)>>}
Policies == {[p \in {"a"} |-> <<Unit("a",1), Unit("a",2), Unit("a",3)>>], [p \in {} |-> <<>>]}
Votes == <<{}, {<<>>}, {<<3>>}, {<<4, 3, 2>>}, {<<1, 3, 3, 9>>}>>
Pick(off, says) == [off |-> off, says |-> says]
LinePicks == {{}, {<<>>}, {<<Pick(FALSE, <<2, 1>>)>>}, {<<Pick(FALSE, <<3>>), Pick(FALSE, <<>>)>>}, {<<Pick(FALSE, <<2>>), Pick(TRUE, <<>>)>>}}
Line(s, n, k) == [source |-> s, place |-> n, kinds |-> k]
Kinds == {{}, {"deadline"}}
Says(s, c) == [says |-> s, cites |-> c]
Replies == {<<>>, <<Says({1, 2}, {7})>>, <<Says({0, 2}, {7}), Says({2}, {7})>>, <<Says({2}, {8}), Says({1, 3}, {7, 8})>>}
Chosen == {{}, {<<>>}, {<< <<2>>, <<1>>, <<2, 1>> >>}, {<< <<>>, <<3, 2>>, <<1>> >>}}
Looked(n, beside) == [office |-> "registrar", ranked |-> n, beside |-> beside]
Found == {[office |-> o, pages |-> p, ranked |-> 2] : o \in {"registrar", "aid", "safety"}, p \in {1, 2}}

AskPages ==
  \/ \E r, t \in Rankings, i, j, k \in DOMAIN Votes, policies \in Policies :
        /\ r # t /\ i <= j /\ j <= k
        /\ Ask("pages", [of |-> "units", parts |-> <<r, t>>, picks |-> <<Votes[i], Votes[j], Votes[k]>>, policies |-> policies])
  \/ \E p, q, r \in LinePicks, k, l, m \in Kinds, replies \in Replies :
        Ask("pages", [of |-> "lines", lines |-> <<Line(7, 0, k), Line(7, 1, l), Line(8, 0, m)>>, picks |-> <<p, q, r>>,
          asked |-> {"deadline"}, replies |-> replies])
  \/ \E n \in {0, 1, 3}, beside \in BOOLEAN, dean \in {0, 2}, f, g \in Found, chosen \in Chosen, used \in {1, 2} :
        Ask("pages", [of |-> "offices", looked |-> <<Looked(n, beside), [office |-> "dean", ranked |-> dean, beside |-> FALSE]>>,
          found |-> <<f, g>>, chosen |-> chosen, used |-> used])

-----------------------------------------------------------------------------
(***************************************************************************)
(* What the one call is given and writes.                                  *)
(***************************************************************************)
Asks == {"events", "clubs", "more", "reach", "who", "leaders", "window", "hosts", "exists", "course", "people", "contact",
         "teaches", "faculty", "sessions", "kind"}
Beside == {"academics", "list", "topic", "subjects", "dates"}
Question(asks, named, programs, earlier) == [asks |-> asks, named |-> named, programs |-> programs, earlier |-> earlier]
ThreeOf(words) == {{a, b, c} : a, b, c \in words} \cup {{}}
Readers == [programs |-> <<"p1">>, named |-> <<"a1", "a2">>, kinds |-> <<"k1", "k2">>, calendar |-> <<"e1">>, clubs |-> <<>>,
  picked |-> <<"p1", "catalog">>, meant |-> <<"p5">>, listed |-> <<"a3">>, taught |-> <<"a1", "a4">>, clubsNear |-> <<"c1">>,
  clubsByWord |-> <<"c1", "c2">>, leaders |-> <<"a2", "a5">>, hosted |-> <<"e2">>, sections |-> <<"s1", "s2">>,
  catalog |-> <<"catalog">>, onPages |-> <<"c2", "k1">>, teachers |-> <<"t1">>, faculty |-> <<"f1">>, dates |-> <<"d1">>, second |-> <<"s3">>]
By == {"events", "club", "contacts", "teachers", "faculty", "course", "people", "kinds", "calendar"}
State(says, cites, held, size) == [says |-> says, cites |-> cites, held |-> held, size |-> size]
States == {State("a", {1}, TRUE, 2), State("b", {}, TRUE, 3), State("c", {2}, FALSE, 1), State("d", {2, 4}, TRUE, 2), State("e", {9}, TRUE, 1)}
Texts == {<<>>} \cup {<<p>> : p \in States} \cup {<<p, q, r>> : p, q, r \in States}
OwnParts == {<<>>, <<State("a", {1}, TRUE, 1)>>, <<State("z", {2}, FALSE, 1)>>}
Seconds == {{}, {[written |-> <<State("d", {2, 4}, TRUE, 2), State("c", {2}, FALSE, 1)>>, more |-> <<"s4">>]}}
PagesOf == {[safety |-> "x", emergency |-> "x", aid |-> "y"], [safety |-> "none", emergency |-> "x", aid |-> "none"]}

AskOneCall ==
  \/ \E asks \in ThreeOf(Asks \cup Beside), named \in 0..1, programs \in {"none", "program", "course"}, searchable, picked \in BOOLEAN :
        Ask("onecall", [of |-> "numbers", q |-> Question(asks, named, programs, FALSE), finds |-> Readers, searchable |-> searchable,
          picked |-> picked, second |-> searchable, once |-> {"a1", "a2", "a4", "a5", "c1", "c2", "catalog"}])
  \/ \E asks \in ThreeOf(Asks), named \in 0..1, programs \in {"none", "program", "course"}, earlier \in BOOLEAN :
        Ask("onecall", [of |-> "alone", q |-> Question(asks, named, programs, earlier),
          said |-> [b \in By |-> IF b = "course" THEN "uncited" ELSE "held"]])
  \/ \E p, q, r \in {"p1", "p2", "p3"}, named \in {<<>>, <<"p1">>, <<"p2", "p3">>} :
        Ask("onecall", [of |-> "pick", named |-> named, names |-> <<p, q, r, p>>, catalog |-> {"p1", "p2"}])
  \/ \E parts \in OwnParts, first \in Texts, second \in Seconds, pageOf \in PagesOf, called \in {{}, {"aid"}} :
        Ask("onecall", [of |-> "reply", parts |-> parts, first |-> first, sources |-> <<"s1", "s2", "s3">>, second |-> second,
          officeOf |-> [n \in 1..4 |-> IF n < 3 THEN "safety" ELSE "aid"], called |-> called,
          siblings |-> [safety |-> {"emergency"}, emergency |-> {"safety"}, aid |-> {}], pageOf |-> pageOf])

AskAny == AskWalk \/ AskRegistry \/ AskPeople \/ AskPages \/ AskOneCall
=============================================================================
