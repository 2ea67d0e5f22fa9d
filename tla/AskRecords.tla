----------------------------- MODULE AskRecords -----------------------------
(***************************************************************************)
(* What MCBrain asks of the reading of a message and of the records of a   *)
(* release: three reads of one message; two offices' contact rows, dated,  *)
(* doubted and in conflict; schedules and procedures read in parts; the    *)
(* dishes of a date with and without labels.                               *)
(***************************************************************************)
EXTENDS Integers, Sequences, FiniteSets

VARIABLE asked

Ask(rule, x) == asked' = [rule |-> rule, of |-> x]

Given(s, d, n, l, q) == [social |-> s, danger |-> d, needs |-> n, limit |-> l, question |-> q]
Givens == <<Given("none", "none", {}, "none", {"when", "events"}), Given("none", "none", {}, "none", {"registrar", "phone"}),
  Given("none", "garbled", {}, "none", {}), Given("none", "none", {}, "none", {}), Given("none", "medical", {}, "none", {"how"}),
  Given("none", "fire", {}, "clock", {}), Given("thanks", "none", {}, "none", {}), Given("none", "none", {"money", "school_trouble"}, "none", {}),
  Given("none", "none", {"thinking_of_leaving"}, "none", {"how"}), Given("nonsense", "none", {}, "none", {}), Given("none", "none", {}, "prediction", {"when", "101"}),
  Given("none", "none", {}, "writing", {"how"}), Given("none", "none", {}, "clock", {"the", "time"}), Given("none", "none", {}, "opinion", {"events"}),
  Given("none", "none", {"school_trouble"}, "my_records", {}), Given("none", "none", {}, "live_status", {"registrar", "phone"})>>
Latests == {{"when", "events"}, {"registrar", "phone"}, {"if", "my"}, {"the", "time", "how"}, {"wen", "registrar"}, {"thanks", "leave"}, {"hurt", "registrar", "phone"}}
Contact == [id |-> 1, key |-> "k", seen |-> 25, sla |-> 20, since |-> 0, until |-> 0,
          raw |-> [email |-> "a", offices |-> "", hours |-> ""], observed |-> [captured |-> 0, fields |-> {}, pages |-> {}, raw |-> [email |-> "", offices |-> "", hours |-> ""]],
          conflicts |-> [email |-> <<>>, offices |-> <<>>, hours |-> <<>>], doubted |-> {},
          claim |-> [email |-> <<>>, offices |-> <<>>, hours |-> <<>>]]
ContactsOf(i) == {[Contact EXCEPT !.id = i, !.raw.email = e, !.conflicts.email = c, !.since = w[1], !.until = w[2], !.claim.email = k, !.doubted = d] :
   e \in {"", "a", "A", "b"}, c \in {<<>>, <<"c">>}, w \in {<<0, 0>>, <<1, 3>>, <<4, 6>>, <<4, 0>>}, k \in {<<>>, <<30>>, <<44, 20>>}, d \in {{}, {"email"}}}
SeenAgain == {[Contact EXCEPT !.id = 1, !.observed = [captured |-> t, fields |-> f, pages |-> p, raw |-> [email |-> r, offices |-> "", hours |-> ""]]] :
   t \in {20, 30}, f \in {{"email"}, {"email", "offices"}}, p \in {{30}, {30, 40}, {20}}, r \in {"a", "b"}}
Keys == {{}, {"k"}, {"k", "j"}}
Pins == {{}, {1}, {2}, {1, 2}}
Linked == {<<[keys |-> k, pins |-> p]>> : k \in Keys, p \in Pins}
Entity(i, l, k, h) == [id |-> i, kind |-> k, links |-> l, hours |-> h]
Sched(i, d, n, h, s, u, o, p) == [id |-> i, name |-> "desk", season |-> "", since |-> s, until |-> u, day |-> d, statement |-> n,
   hours |-> h, omits |-> o, checked |-> 1, problem |-> p, note |-> 0]
Texts == {"", "9-5", "8-4"}
Unit(p, i, e, t, b, s, n, u) == [page |-> p, index |-> i, entry |-> e, top |-> t, body |-> b, similar |-> s, names |-> n, updated |-> u]
Naming(text, address, heading) == [text |-> text, address |-> address, deadlines |-> {}, heading |-> heading]
Namings == {Naming({}, {}, {}), Naming({2}, {9}, {})}
OtherNamings == {Naming({2, 9}, {}, {}), Naming({}, {}, {7})}
Units(p, i, names) == {Unit(p, i, e, t, b, s, n, u) : e \in BOOLEAN, t \in {{}, {"print"}}, b \in {{}, {"print", "form"}}, s \in {0, 30}, n \in names, u \in {0}}
Dish(i, c, l, f, m, s, d) == [id |-> i, date |-> d, meal |-> m, station |-> 1, food |-> f, vegan |-> "ziti" \notin f, covers |-> c, labels |-> l, section |-> s, options |-> {}, title |-> 1]
DishesOf(i) == {Dish(i, c, l, {f}, m, m, d) : c \in {{"allergens"}, {"allergens", "vegan"}, {}}, l \in {{}, {"milk"}}, f \in {"soup", "ziti"}, m \in {"brunch", "dinner"}, d \in {1}}
Query(d, c, w, o) == [diet |-> d, contains |-> c, with |-> w, without |-> o]
Queries == {Query(d, c, w, o) : d \in BOOLEAN, c \in {{}, {"pasta"}, {"protein"}}, w \in {{}, {"dairy"}}, o \in {{}, {"dairy"}, {"nuts"}, {"dairy", "nuts"}}}

AskReading ==
  \E i, j, k \in DOMAIN Givens, t \in Latests, f \in {<<FALSE, FALSE>>, <<TRUE, FALSE>>, <<FALSE, TRUE>>} :
       /\ i <= j /\ j <= k /\ (f[1] \/ f[2] => t \in {{"when", "events"}, {"if", "my"}})
       /\ Ask("reading", [latest |-> t, follows |-> f[1], beside |-> f[2], calls |-> <<Givens[i], Givens[j], Givens[k]>>])

AskField ==
  \E r \in ContactsOf(1) \cup SeenAgain, s \in {Contact} \cup {c \in ContactsOf(2) : c.doubted = {} /\ c.claim.email # <<44, 20>>} : Ask("field", [rows |-> <<r, s>>, field |-> "email", now |-> 45])

AskRows ==
  \E l, m, n \in Linked, k \in {"office", "club", "facility"}, h \in {{}, {"h"}} :
     Ask("rows", [entities |-> <<Entity(1, l, k, h), Entity(2, m \o n, "office", h)>>, rows |-> {[id |-> 1, key |-> "k"], [id |-> 2, key |-> "k"], [id |-> 3, key |-> "j"]}])

AskSchedule ==
  \E a, b, c, d \in Texts, o \in {{}, {2}}, p \in {"none", "conflicting"}, w \in {<<0, 0>>, <<1, 3>>, <<3, 4>>}, i \in BOOLEAN :
       Ask("schedule", [of |-> "schedule", today |-> 4, rows |-> {Sched(1, 1, IF i THEN 2 ELSE 1, a, 0, 0, {}, "none"), Sched(2, 1, IF i THEN 1 ELSE 2, b, w[1], w[2], {}, "none"),
          Sched(3, 2, 1, c, 0, 0, IF c = "" THEN o ELSE {}, "none"), Sched(4, 2, 2, d, w[1], w[2], {}, p)}])

AskProcedure ==
  \E u \in Units(1, 1, Namings), v \in Units(1, 2, Namings), x \in Units(2, 1, OtherNamings), m \in BOOLEAN :
     Ask("schedule", [of |-> "procedure", units |-> {u, v, x}, wanted |-> {"print", "form"}, meaning |-> m,
                      today |-> 4, year |-> 9])

AskMenu ==
  \E r \in DishesOf(1), s \in DishesOf(2), b \in BOOLEAN, m \in {"", "lunch", "dinner"}, q \in Queries :
       r.id # s.id /\ (r.meal = "dinner" => r.covers = {}) /\ Ask("menu", [board |-> b, rows |-> {r, s, Dish(3, {"allergens"}, {"peanut"}, {"ziti"}, "dinner", "", 2)}, meal |-> m, query |-> q])

AskAny == AskReading \/ AskField \/ AskRows \/ AskSchedule \/ AskProcedure \/ AskMenu
=============================================================================
