------------------------------ MODULE Reading ------------------------------
(***************************************************************************)
(* How a message is read before anything is searched: triage.py, and in    *)
(* engine.py the read made several times at once, what code corrects in    *)
(* it, and what the turn then answers.                                     *)
(*                                                                         *)
(* A text is the set of its words; the word lists of the code are sets of  *)
(* one or two words.  An empty set is no question.  The order of words,    *)
(* and spelling beyond one misspelt word, are left out.                    *)
(***************************************************************************)
EXTENDS Integers, Sequences, FiniteSets, SequencesExt, FiniteSetsExt

\* Labels, in the order a tie is broken in; "none" is no label.
SOCIAL == <<"none", "thanks", "nonsense", "upset">>
DANGER == <<"none", "self_harm", "medical", "fire">>
NEED_ORDER == <<"thinking_of_leaving", "school_trouble", "money">>
LIMITS == <<"none", "clock", "off_topic", "my_records", "homework", "writing",
            "opinion", "prediction", "live_status">>

SMALL_TALK_WORDS == {"thanks"}
GRAMMAR_WORDS == {"the", "when"}
QUESTION_WORDS == {"when", "how"}
CLOCK_WORDS == {"the", "time"}
NumberWords == {"101"}
HYPOTHETICAL == {"if"}
TROUBLE_SAID == {"failed"}
CHANCE_WORDS == {"admitted"}
OWN_WORDS == {"my"}
LEAVING_WORDS == {"leave"}
CHOICE_WORDS == {"best"}
LIVE_WORDS == {"crowded"}
RESULT_WORDS == {"score"}
EventWords == {"events"}
Places == {"registrar"}
Details == {"phone"}
DangerWords == {"hurt"}
SIDE_AFTER_OWN_WORDS == {"my_records", "opinion", "prediction", "live_status"}
SpelledOut == [w \in {"wen"} |-> "when"]   \* text-speak and what it stands for
MAX_QUESTION == 5                          \* bound: MAX_QUESTION_CHARS, in words

Says(text, words) == text \cap words # {}
LabelsOf(order) == ToSet(order)
Rank(order, label) == CHOOSE i \in DOMAIN order : order[i] = label
NoReading == [social |-> "none", danger |-> "none", needs |-> {}, limit |-> "none", question |-> {}]

-----------------------------------------------------------------------------
(***************************************************************************)
(* One read, and what most reads say.                                      *)
(***************************************************************************)
\* What a call gave as a reading, or none when it is not the shape asked for.  The
\* clean question is dropped when it adds a number, runs long or, beside a problem
\* shared, asks nothing.
ReadingOf(given, latest) ==
  LET needs == given.needs \cap LabelsOf(NEED_ORDER)
      dropped == \/ Cardinality(given.question) > MAX_QUESTION
                 \/ ~(given.question \cap NumberWords \subseteq latest)
                 \/ needs # {} /\ ~Says(given.question, QUESTION_WORDS)
  IN  IF /\ given.social \in LabelsOf(SOCIAL) /\ given.danger \in LabelsOf(DANGER)
         /\ given.limit \in LabelsOf(LIMITS)
      THEN {[given EXCEPT !.needs = needs, !.question = IF dropped THEN {} ELSE @]}
      ELSE {}

\* The reads that came back well, each under the number of its call.
Readings(calls, latest) ==
  [i \in {j \in DOMAIN calls : ReadingOf(calls[j], latest) # {}} |->
     CHOOSE r \in ReadingOf(calls[i], latest) : TRUE]

Votes(values, v) == Cardinality({i \in DOMAIN values : values[i] = v})

\* The label most values give, a tie going to the one listed first.
Most(values, order) ==
  LET ahead(v, w) == \/ Votes(values, v) > Votes(values, w)
                     \/ Votes(values, v) = Votes(values, w) /\ Rank(order, v) <= Rank(order, w)
      leading == {v \in ToSet(values) : \A w \in ToSet(values) : ahead(v, w)}
  IN  CHOOSE v \in leading : TRUE

\* How near two wordings are: the share of their words they have in common, in 60ths
\* (no two wordings have more than six words between them).
Near(q, r) == (60 * Cardinality(q \cap r)) \div Cardinality(q \cup r)

\* The question most reads word the same way, then the wording nearest the others,
\* then the shortest, then the first in the alphabet: of wordings that tie, CHOOSE takes
\* one whoever gave it.  The nearness of a wording to each of the others is counted out.
Nearness(asked, i) ==
  Cardinality(UNION {{j} \X (1..Near(asked[i], asked[j])) : j \in DOMAIN asked \ {i}})

MostAsked(asked) ==
  LET better(i, j) ==
        LET vi == Votes(asked, asked[i])   vj == Votes(asked, asked[j])
            ni == Nearness(asked, i)       nj == Nearness(asked, j)
        IN  \/ vi > vj
            \/ vi = vj /\ ni > nj
            \/ vi = vj /\ ni = nj /\ Cardinality(asked[i]) < Cardinality(asked[j])
      best == {asked[i] : i \in {i \in DOMAIN asked : \A j \in DOMAIN asked : ~better(j, i)}}
  IN  CHOOSE q \in best : TRUE

\* What the reads say of one thing, and only those that say something of it.
Field(reads, field) == [i \in DOMAIN reads |-> reads[i][field]]
Naming(reads, field, nothing) == Restrict(Field(reads, field), {i \in DOMAIN reads : reads[i][field] # nothing})

\* What more than half of the reads say: the needs each of them gives, and the question
\* when so many ask one.
NeedsOfMost(reads) ==
  {n \in LabelsOf(NEED_ORDER) :
     Cardinality({i \in DOMAIN reads : n \in reads[i].needs}) > Cardinality(DOMAIN reads) \div 2}
QuestionOfMost(reads) ==
  LET asked == Naming(reads, "question", {})
  IN  IF Cardinality(DOMAIN asked) > Cardinality(DOMAIN reads) \div 2 THEN MostAsked(asked) ELSE {}

\* A slip: a danger is decided by vote like any other label.
MajorityVoted(reads) ==
  [social |-> Most(Field(reads, "social"), SOCIAL),
   danger |-> Most(Field(reads, "danger"), DANGER),
   needs |-> NeedsOfMost(reads),
   limit |-> Most(Field(reads, "limit"), LIMITS),
   question |-> QuestionOfMost(reads)]

\* What most reads say.  A danger any read finds is kept.
Majority(reads) ==
  LET dangers == Naming(reads, "danger", "none")
  IN  [social |-> Most(Field(reads, "social"), SOCIAL),
       danger |-> IF DOMAIN dangers = {} THEN "none" ELSE Most(dangers, DANGER),
       needs |-> NeedsOfMost(reads),
       limit |-> Most(Field(reads, "limit"), LIMITS),
       question |-> QuestionOfMost(reads)]

-----------------------------------------------------------------------------
(***************************************************************************)
(* What code knows better than the read.                                   *)
(***************************************************************************)
\* A plain lookup of one listed place, which code answers by itself.
CodeLookup(question) == Says(question, Places) /\ Says(question, Details)

\* What the college publishes for a day.
Published(question) == Says(question, EventWords) \/ CodeLookup(question)

\* Code understands the whole message: it is not read at all.
CodeUnderstands(latest, follows) ==
  /\ ~follows
  /\ ~Says(latest, DangerWords)
  /\ CodeLookup(latest)

\* Homework and writing always have the same campus side.
LimitQuestion(limit) ==
  CASE limit = "homework" -> {"how", "tutoring"}
    [] limit = "writing" -> {"how", "essay"}
    [] OTHER -> {}

AsksOnlyTheClock(question) == question # {} /\ question \subseteq CLOCK_WORDS /\ "time" \in question

\* A prediction asked as a hypothetical, or records that are not the student's own,
\* ask a rule.
LimitMisread(limit, latest) ==
  \/ limit = "prediction" /\ Says(latest, HYPOTHETICAL) /\ ~Says(latest, CHANCE_WORDS)
  \/ limit = "my_records" /\ (~Says(latest, OWN_WORDS) \/ Says(latest, HYPOTHETICAL))

\* The first correction that applies, in the code's order.
Corrected(latest, r) ==
  LET asksOwn == [r EXCEPT !.limit = "none", !.question = latest]
  IN  IF r.social = "nonsense" /\ r.question = {} /\ r.danger = "none"
      THEN IF Says(latest, Places) THEN [r EXCEPT !.social = "none", !.question = latest] ELSE r
      ELSE IF r.question = {} /\ LimitQuestion(r.limit) # {}
      THEN [r EXCEPT !.question = LimitQuestion(r.limit)]
      ELSE IF r.limit = "clock" /\ AsksOnlyTheClock(r.question) THEN [r EXCEPT !.question = {}]
      ELSE IF r.limit = "live_status" /\ r.question # {} /\ ~Says(r.question, LIVE_WORDS) /\ Published(r.question)
      THEN [r EXCEPT !.limit = "none"]
      ELSE IF r.limit \in {"off_topic", "prediction"} /\ r.danger = "none"
              /\ ~Says(latest, RESULT_WORDS) /\ Says(latest, EventWords)
      THEN [r EXCEPT !.limit = "none", !.question = IF @ = {} THEN latest ELSE @]
      ELSE IF \/ r.limit \in {"my_records", "prediction"} /\ r.question # {} /\ r.danger = "none"
                 /\ LimitMisread(r.limit, latest)
              \/ r.limit = "opinion" /\ r.question # {} /\ ~Says(latest, CHOICE_WORDS)
      THEN asksOwn ELSE r

\* The needs the message bears out.
NeedsChecked(needs, latest) ==
  {n \in needs :
     /\ n = "thinking_of_leaving" => Says(latest, LEAVING_WORDS)
     /\ n = "school_trouble" => ~Says(latest, HYPOTHETICAL) \/ Says(latest, TROUBLE_SAID)}

\* The read with what code knows for sure put first.  When the needs dropped were all
\* it found, the student's own words are the question.
ReadChecked(latest, r) ==
  LET checked == Corrected(latest, r)
      needs == NeedsChecked(checked.needs, latest)
      nothing == needs = {} /\ checked.limit = "none" /\ checked.social = "none"
  IN  IF needs = checked.needs THEN checked
      ELSE [checked EXCEPT !.needs = needs,
                           !.question = IF @ = {} /\ nothing THEN latest ELSE @]

-----------------------------------------------------------------------------
(***************************************************************************)
(* What is asked, and what the turn says.                                  *)
(***************************************************************************)
\* Every word typed is in the question, spelt out, and every word it adds is one of
\* those or grammar; small talk and the droppable words may go.
KeepsWords(latest, question, droppable) ==
  LET spelt(w) == IF w \in DOMAIN SpelledOut THEN SpelledOut[w] ELSE w
  IN  /\ question # {}
      /\ \A w \in latest \ (SMALL_TALK_WORDS \cup droppable) :
           w \in GRAMMAR_WORDS \/ w \in question \/ spelt(w) \in question
      /\ \A w \in question : w \in GRAMMAR_WORDS \/ w \in {spelt(v) : v \in latest} \cup latest

AsksMore(latest, question) ==
  Cardinality(latest \cap (QUESTION_WORDS \cup DOMAIN SpelledOut))
    > Cardinality(question \cap QUESTION_WORDS)

\* triage.asked: what a first message asks; {} means the student's own words.
Asked(latest, r) ==
  IF r.question = {} THEN {}
  ELSE IF \/ r.danger # "none"
          \/ r.limit \in {"homework", "writing", "off_topic"}
          \/ KeepsWords(latest, r.question, IF r.limit = "clock" THEN CLOCK_WORDS ELSE {})
       THEN r.question
  ELSE IF r.limit \in SIDE_AFTER_OWN_WORDS THEN latest \cup r.question
  ELSE {}

\* A follow-up keeps its words; beside an emergency the read's question is asked; a
\* plain lookup that is all the student asked is asked in the read's words.
AskedInTurn(latest, follows, beside, r) ==
  LET question == Asked(latest, r)
  IN  IF follows THEN IF r.question = LimitQuestion(r.limit) THEN r.question ELSE {}
      ELSE IF beside THEN r.question
      ELSE IF /\ r.question # {} /\ question # r.question
              /\ ~AsksMore(latest, r.question) /\ CodeLookup(r.question)
           THEN r.question
      ELSE question

\* Does code itself say the whole reply to a message that asks nothing of campus?
CodeReplies(r) ==
  /\ r.question = {}
  /\ r.needs # {} \/ r.limit # "none" \/ r.social \notin {"none"}

\* The offices for the needs, in their order, then the one for the limit, three at most.
SupportOffices(needs, limit) ==
  LET of(need) == CASE need = "thinking_of_leaving" -> <<"Advising", "Counseling", "Financial Aid">>
                    [] need = "school_trouble" -> <<"Advising">>
                    [] need = "money" -> <<"Financial Aid", "Student Accounts">>
      listed == FlattenSeq([i \in DOMAIN NEED_ORDER |->
                              IF NEED_ORDER[i] \in needs THEN of(NEED_ORDER[i]) ELSE <<>>])
                \o IF limit = "writing" THEN <<"Writing Center">> ELSE <<>>
      once == FoldLeft(LAMBDA seen, o : IF o \in ToSet(seen) THEN seen ELSE Append(seen, o),
                       <<>>, listed)
  IN  SubSeq(once, 1, Min({3, Len(once)}))

\* What becomes of a message whose reads came back as they did: how it is answered,
\* which danger leads, what is asked ({} its own words) and whose contacts follow.
Outcome(latest, follows, beside, calls) ==
  LET reads == Readings(calls, latest)
      r == ReadChecked(latest, Majority(reads))
      asked == AskedInTurn(latest, follows, beside, r)
      unread == [by |-> "campus", danger |-> "none", asked |-> {}, help |-> <<>>]
  IN  IF CodeUnderstands(latest, follows) \/ DOMAIN reads = {} THEN unread
      ELSE IF r.danger # "none"
           THEN [unread EXCEPT !.by = "emergency", !.danger = r.danger,
                   !.asked = IF r.danger = "self_harm" THEN {} ELSE asked]
      ELSE IF CodeReplies(r)
           THEN [unread EXCEPT !.by = "code", !.help = SupportOffices(r.needs, "none")]
      ELSE [unread EXCEPT !.asked = asked, !.help = SupportOffices(r.needs, r.limit)]

-----------------------------------------------------------------------------
(***************************************************************************)
(* Properties of one message: [latest, follows, beside, calls].            *)
(***************************************************************************)
\* Whichever read comes back first, and whichever fail or are malformed, the turn goes
\* the same way.
OrderFree(m) ==
  \A p \in Bijection(DOMAIN m.calls, DOMAIN m.calls) :
    Outcome(m.latest, m.follows, m.beside, [i \in DOMAIN m.calls |-> m.calls[p[i]]])
      = Outcome(m.latest, m.follows, m.beside, m.calls)

\* "The read can only add an emergency, never take one away": a danger any read finds
\* leads the reply, through every correction of the read.
DangerLeads(m) ==
  ~CodeUnderstands(m.latest, m.follows) /\ (\E i \in DOMAIN Readings(m.calls, m.latest) :
                                Readings(m.calls, m.latest)[i].danger # "none") =>
    Outcome(m.latest, m.follows, m.beside, m.calls).by = "emergency"

\* A message is answered by fixed words only when most reads found something to say of
\* it and no campus question: fewer than half never take the question away.
QuestionNotLost(m) ==
  LET reads == Readings(m.calls, m.latest)
      o == Outcome(m.latest, m.follows, m.beside, m.calls)
      asking == {i \in DOMAIN reads : reads[i].question # {}}
  IN  o.by = "code" /\ 2 * Cardinality(asking) > Cardinality(DOMAIN reads) =>
        \* the clock line answers such a question whole
        Majority(reads).limit = "clock"

\* A first message is searched in words of its own, unless the read's words ask one
\* plain lookup or the campus side of what cannot be done.
OwnWordsKept(m) ==
  LET o == Outcome(m.latest, m.follows, m.beside, m.calls)
      limits == {"homework", "writing", "off_topic"}
  IN  o.by = "campus" /\ ~m.beside /\ o.asked # {} =>
        \/ KeepsWords(m.latest, o.asked, CLOCK_WORDS)
        \/ m.latest \subseteq o.asked
        \/ CodeLookup(o.asked)
        \/ Majority(Readings(m.calls, m.latest)).limit \in limits

MessageRead(m) ==
  /\ OrderFree(m)
  /\ DangerLeads(m)
  /\ QuestionNotLost(m)
  /\ OwnWordsKept(m)
=============================================================================
