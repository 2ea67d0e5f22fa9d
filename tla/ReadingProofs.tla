---------------------------- MODULE ReadingProofs ----------------------------
(***************************************************************************)
(* What a question is taken to ask, for any message, any number of calls   *)
(* and whatever each of them gave: what the majority of its reads may      *)
(* decide (Reading), which people, deans, plans (People) and dates (Terms) *)
(* are meant, and that the one call answers it whole, each mark with its   *)
(* own source (OneCall).                                                   *)
(***************************************************************************)
EXTENDS Reading, People, Terms, OneCall, FiniteSetTheorems, WellFoundedInduction, TLAPS

\* What a call may give: any labels, any needs, a question of finitely many words.
Calls(Labels, Words) ==
  [social : Labels, danger : Labels, needs : SUBSET Labels, limit : Labels,
   question : {q \in SUBSET Words : IsFiniteSet(q)}]

\* What a read is once it is checked.
Good(Labels, Words) ==
  [social : LabelsOf(SOCIAL), danger : LabelsOf(DANGER), needs : SUBSET Labels,
   limit : LabelsOf(LIMITS), question : {q \in SUBSET Words : IsFiniteSet(q)}]

\* A set of natural numbers that is not empty has a least one.
LEMMA LeastNumber ==
  ASSUME NEW T \in SUBSET Nat, T # {}
  PROVE  \E x \in T : \A y \in T : x <= y
<1> DEFINE R == OpToRel(<, Nat)
<1>1. IsWellFoundedOn(R, Nat)
  BY NatLessThanWellFounded
<1>2. \A x, y \in Nat : <<y, x>> \in R <=> y < x
  BY DEF OpToRel
<1> HIDE DEF R
<1>3. PICK x \in T : \A y \in T : ~ (<<y, x>> \in R)
  BY <1>1, WFMin
<1>4. ASSUME NEW y \in T
      PROVE  x <= y
  <2>1. x \in Nat /\ y \in Nat
    OBVIOUS
  <2>2. ~ (y < x)
    BY <1>2, <1>3, <2>1
  <2> QED
    BY <2>1, <2>2
<1> QED
  BY <1>4

\* A call's reading is checked, and is the only one of that call.
LEMMA ReadingIsGood ==
  ASSUME NEW Labels, NEW Words, NEW given \in Calls(Labels, Words), NEW latest,
         NEW r \in ReadingOf(given, latest)
  PROVE  r \in Good(Labels, Words) /\ ReadingOf(given, latest) = {r}
<1> DEFINE needs == given.needs \cap LabelsOf(NEED_ORDER)
           dropped == \/ Cardinality(given.question) > MAX_QUESTION
                      \/ ~(given.question \cap NumberWords \subseteq latest)
                      \/ needs # {} /\ ~Says(given.question, QUESTION_WORDS)
           asked == IF dropped THEN {} ELSE given.question
           made == [given EXCEPT !.needs = needs, !.question = asked]
<1>1. /\ given.social \in LabelsOf(SOCIAL) /\ given.danger \in LabelsOf(DANGER)
      /\ given.limit \in LabelsOf(LIMITS)
      /\ ReadingOf(given, latest) = {made}
  BY DEF ReadingOf
<1>2. needs \in SUBSET Labels
  BY DEF Calls
<1>3. asked \in {q \in SUBSET Words : IsFiniteSet(q)}
  BY FS_EmptySet DEF Calls
<1> HIDE DEF needs, asked
<1>4. made \in Good(Labels, Words)
  BY <1>1, <1>2, <1>3 DEF Calls, Good
<1> QED
  BY <1>1, <1>4

\* Reads are under the numbers of some of the calls.
LEMMA ReadsAreGood ==
  ASSUME NEW Labels, NEW Words, NEW calls \in Seq(Calls(Labels, Words)), NEW latest
  PROVE  /\ DOMAIN Readings(calls, latest) \subseteq DOMAIN calls
         /\ IsFiniteSet(DOMAIN Readings(calls, latest))
         /\ \A i \in DOMAIN Readings(calls, latest) :
              /\ Readings(calls, latest)[i] \in Good(Labels, Words)
              /\ ReadingOf(calls[i], latest) = {Readings(calls, latest)[i]}
<1> DEFINE D == {j \in DOMAIN calls : ReadingOf(calls[j], latest) # {}}
           reads == Readings(calls, latest)
<1>1. DOMAIN reads = D /\ \A i \in D : reads[i] = CHOOSE r \in ReadingOf(calls[i], latest) : TRUE
  BY DEF Readings
<1>2. IsFiniteSet(DOMAIN calls)
  <2>1. Len(calls) \in Nat /\ DOMAIN calls = 1..Len(calls)
    OBVIOUS
  <2> QED
    BY <2>1, FS_Interval
<1>3. ASSUME NEW i \in D
      PROVE  reads[i] \in Good(Labels, Words) /\ ReadingOf(calls[i], latest) = {reads[i]}
  <2>1. reads[i] \in ReadingOf(calls[i], latest)
    BY <1>1
  <2>2. calls[i] \in Calls(Labels, Words)
    OBVIOUS
  <2> QED
    BY <2>1, <2>2, ReadingIsGood
<1> HIDE DEF reads
<1>4. DOMAIN reads \subseteq DOMAIN calls
  BY <1>1
<1>5. IsFiniteSet(DOMAIN reads)
  BY <1>2, <1>4, FS_Subset
<1> QED
  BY <1>1, <1>3, <1>4, <1>5 DEF reads

-----------------------------------------------------------------------------
\* Values given by finitely many, each of them a label of the order.
Labelled(values, order) == IsFiniteSet(DOMAIN values) /\ \A i \in DOMAIN values : values[i] \in ToSet(order)

\* A value is voted for no more often than there are votes.
LEMMA VotesAreCounted ==
  ASSUME NEW values, IsFiniteSet(DOMAIN values), NEW v
  PROVE  Votes(values, v) \in Nat /\ Votes(values, v) <= Cardinality(DOMAIN values)
BY FS_Subset, FS_CardinalityType DEF Votes

\* A label of the order has a place in it.
LEMMA LabelsAreRanked ==
  ASSUME NEW order, DOMAIN order \in SUBSET Nat, NEW v \in ToSet(order)
  PROVE  Rank(order, v) \in Nat
BY DEF Rank, ToSet

\* The label most values give is one of them.
LEMMA MostIsGiven ==
  ASSUME NEW order, DOMAIN order \in SUBSET Nat, NEW values, Labelled(values, order), DOMAIN values # {}
  PROVE  Most(values, order) \in ToSet(values)
<1> DEFINE n == Cardinality(DOMAIN values)
           T == ToSet(values)
           ahead(v, w) == \/ Votes(values, v) > Votes(values, w)
                          \/ Votes(values, v) = Votes(values, w) /\ Rank(order, v) <= Rank(order, w)
           leading == {v \in T : \A w \in T : ahead(v, w)}
           lacking == {n - Votes(values, v) : v \in T}
<1>1. T # {} /\ \A v \in T : v \in ToSet(order)
  BY DEF ToSet, Labelled
<1>2. n \in Nat /\ \A v \in T : Votes(values, v) \in Nat /\ Votes(values, v) <= n
  BY VotesAreCounted, FS_CardinalityType DEF Labelled
<1>3. \A v \in T : Rank(order, v) \in Nat
  BY <1>1, LabelsAreRanked
<1>4. Most(values, order) = CHOOSE v \in leading : TRUE
  BY DEF Most
<1> HIDE DEF n, T
<1>5. lacking \in SUBSET Nat /\ lacking # {}
  BY <1>1, <1>2
<1>6. PICK top \in T : \A v \in T : n - Votes(values, top) <= n - Votes(values, v)
  <2> HIDE DEF lacking
  <2>1. PICK l \in lacking : \A m \in lacking : l <= m
    BY <1>5, LeastNumber
  <2> USE DEF lacking
  <2>2. PICK v \in T : l = n - Votes(values, v)
    OBVIOUS
  <2> QED
    BY <2>1, <2>2
<1>7. \A v \in T : Votes(values, v) <= Votes(values, top)
  BY <1>2, <1>6
<1> DEFINE best == {v \in T : Votes(values, v) = Votes(values, top)}
           ranks == {Rank(order, v) : v \in best}
<1>8. ranks \in SUBSET Nat /\ ranks # {}
  BY <1>3
<1>9. PICK first \in best : \A v \in best : Rank(order, first) <= Rank(order, v)
  <2> HIDE DEF ranks
  <2>1. PICK l \in ranks : \A m \in ranks : l <= m
    BY <1>8, LeastNumber
  <2> USE DEF ranks
  <2>2. PICK v \in best : l = Rank(order, v)
    OBVIOUS
  <2> QED
    BY <2>1, <2>2
<1>10. ASSUME NEW w \in T
       PROVE  ahead(first, w)
  BY <1>2, <1>7, <1>9
<1>11. first \in leading
  BY <1>9, <1>10
<1> HIDE DEF leading
<1>12. Most(values, order) \in leading
  BY <1>4, <1>11
<1> QED
  BY <1>12 DEF leading, T

\* What the majority says of the labels is some read's, or none of a danger nobody names.
LEMMA FieldIsLabelled ==
  ASSUME NEW Labels, NEW Words, NEW reads, IsFiniteSet(DOMAIN reads),
         \A i \in DOMAIN reads : reads[i] \in Good(Labels, Words)
  PROVE  /\ Labelled(Field(reads, "social"), SOCIAL)
         /\ Labelled(Naming(reads, "danger", "none"), DANGER)
         /\ Labelled(Field(reads, "limit"), LIMITS)
<1>1. DOMAIN Field(reads, "social") = DOMAIN reads /\ DOMAIN Field(reads, "limit") = DOMAIN reads
  BY DEF Field
<1>2. \A i \in DOMAIN reads : Field(reads, "social")[i] = reads[i].social /\ Field(reads, "limit")[i] = reads[i].limit
  BY DEF Field
<1> DEFINE named == {i \in DOMAIN reads : reads[i].danger # "none"}
<1>3. DOMAIN Naming(reads, "danger", "none") = named /\ \A i \in named : Naming(reads, "danger", "none")[i] = reads[i].danger
  BY DEF Naming, Restrict, Field
<1>4. IsFiniteSet(named)
  BY FS_Subset
<1>5. \A i \in DOMAIN reads : /\ reads[i].social \in ToSet(SOCIAL) /\ reads[i].danger \in ToSet(DANGER)
                              /\ reads[i].limit \in ToSet(LIMITS)
  BY DEF Good, LabelsOf
<1> QED
  BY <1>1, <1>2, <1>3, <1>4, <1>5 DEF Labelled

\* A danger one read names is a danger the majority names.
LEMMA DangerIsKept ==
  ASSUME NEW Labels, NEW Words, NEW reads, IsFiniteSet(DOMAIN reads),
         \A i \in DOMAIN reads : reads[i] \in Good(Labels, Words),
         NEW i \in DOMAIN reads, reads[i].danger # "none"
  PROVE  Majority(reads).danger # "none"
<1> DEFINE dangers == Naming(reads, "danger", "none")
           named == {j \in DOMAIN reads : reads[j].danger # "none"}
<1>1. DOMAIN dangers = named /\ \A j \in named : dangers[j] = reads[j].danger
  BY DEF Naming, Restrict, Field
<1>2. Labelled(dangers, DANGER)
  BY FieldIsLabelled
<1>3. DOMAIN DANGER \in SUBSET Nat
  BY DEF DANGER
<1>4. DOMAIN dangers # {}
  BY <1>1
<1>5. Majority(reads).danger = Most(dangers, DANGER)
  BY <1>4 DEF Majority
<1> HIDE DEF dangers
<1>6. Most(dangers, DANGER) \in ToSet(dangers)
  BY <1>2, <1>3, <1>4, MostIsGiven
<1>7. PICK j \in DOMAIN dangers : dangers[j] = Most(dangers, DANGER)
  BY <1>6 DEF ToSet
<1> QED
  BY <1>1, <1>5, <1>7

-----------------------------------------------------------------------------
\* The fields of a reading.
Reading(r) == r = [social |-> r.social, danger |-> r.danger, needs |-> r.needs,
                   limit |-> r.limit, question |-> r.question]

\* The majority is a reading of the same fields.
LEMMA MajorityIsReading == \A reads : Reading(Majority(reads))
BY DEF Majority, Reading

\* Code corrects no danger, and no social label but a nonsense that names a place.
LEMMA CorrectedKeeps ==
  ASSUME NEW latest, NEW r, Reading(r)
  PROVE  /\ Reading(Corrected(latest, r))
         /\ Corrected(latest, r).danger = r.danger
         /\ Corrected(latest, r).limit \in {"none", r.limit}
BY DEF Corrected, Reading

\* Nor does dropping a need.
LEMMA CheckedKeeps ==
  ASSUME NEW latest, NEW r, Reading(r)
  PROVE  /\ ReadChecked(latest, r).danger = r.danger
         /\ ReadChecked(latest, r).limit \in {"none", r.limit}
<1> DEFINE checked == Corrected(latest, r)
           needs == NeedsChecked(checked.needs, latest)
           nothing == needs = {} /\ checked.limit = "none" /\ checked.social = "none"
<1>1. Reading(checked) /\ checked.danger = r.danger /\ checked.limit \in {"none", r.limit}
  BY CorrectedKeeps
<1>2. ReadChecked(latest, r) =
        IF needs = checked.needs THEN checked
        ELSE [checked EXCEPT !.needs = needs,
                             !.question = IF @ = {} /\ nothing THEN latest ELSE @]
  BY DEF ReadChecked
<1> HIDE DEF checked, needs
<1> QED
  BY <1>1, <1>2 DEF Reading

\* A message has a word, and any number of calls read it.
Messages(Labels, Words) ==
  [latest : (SUBSET Words) \ {{}}, follows : BOOLEAN, beside : BOOLEAN, calls : Seq(Calls(Labels, Words))]

(***************************************************************************)
(* DangerLeads for any message, any number of calls and whatever each of   *)
(* them gave: a danger one read finds, of however many, leads the reply.   *)
(* No vote of the others and no correction of code takes it away (majority *)
(* and corrected in triage.py, _read_message in engine.py).                *)
(***************************************************************************)
THEOREM DangerAlwaysLeads ==
  ASSUME NEW Labels, NEW Words, NEW m \in Messages(Labels, Words)
  PROVE  DangerLeads(m)
<1> DEFINE reads == Readings(m.calls, m.latest)
           r == ReadChecked(m.latest, Majority(reads))
           asked == AskedInTurn(m.latest, m.follows, m.beside, r)
           unread == [by |-> "campus", danger |-> "none", asked |-> {}, help |-> <<>>]
           led == [unread EXCEPT !.by = "emergency", !.danger = r.danger,
                     !.asked = IF r.danger = "self_harm" THEN {} ELSE asked]
<1>1. SUFFICES ASSUME ~CodeUnderstands(m.latest, m.follows),
                      NEW i \in DOMAIN reads, reads[i].danger # "none"
               PROVE  Outcome(m.latest, m.follows, m.beside, m.calls).by = "emergency"
  BY DEF DangerLeads
<1>2. m.calls \in Seq(Calls(Labels, Words))
  BY DEF Messages
<1>3. IsFiniteSet(DOMAIN reads) /\ \A j \in DOMAIN reads : reads[j] \in Good(Labels, Words)
  BY <1>2, ReadsAreGood
<1> HIDE DEF reads
<1>4. Majority(reads).danger # "none"
  BY <1>1, <1>3, DangerIsKept
<1>5. r.danger # "none"
  BY <1>4, MajorityIsReading, CheckedKeeps
<1>6. Outcome(m.latest, m.follows, m.beside, m.calls) = led
  BY <1>1, <1>5, Zenon DEF Outcome, reads
<1> QED
  BY <1>6

\* What code may say of a first message's question.
LEMMA FewerWordsToKeep ==
  ASSUME NEW latest, NEW question, NEW some, NEW more, some \subseteq more,
         KeepsWords(latest, question, some)
  PROVE  KeepsWords(latest, question, more)
BY DEF KeepsWords

\* A first message is asked in words of its own, or of a limit that asks a campus side.
LEMMA AskedIsOwn ==
  ASSUME NEW latest, NEW r, r.danger = "none", Asked(latest, r) # {}
  PROVE  \/ KeepsWords(latest, Asked(latest, r), CLOCK_WORDS)
         \/ latest \subseteq Asked(latest, r)
         \/ r.limit \in {"homework", "writing", "off_topic"}
<1> DEFINE droppable == IF r.limit = "clock" THEN CLOCK_WORDS ELSE {}
<1>1. CASE KeepsWords(latest, r.question, droppable) /\ Asked(latest, r) = r.question
  <2>1. droppable \subseteq CLOCK_WORDS
    OBVIOUS
  <2> HIDE DEF droppable
  <2>2. KeepsWords(latest, Asked(latest, r), CLOCK_WORDS)
    BY <1>1, <2>1, FewerWordsToKeep
  <2> QED
    BY <2>2
<1>2. CASE r.limit \in {"homework", "writing", "off_topic"}
  BY <1>2
<1>3. CASE Asked(latest, r) = latest \cup r.question
  BY <1>3
<1> QED
  BY <1>1, <1>2, <1>3 DEF Asked

\* So is what the turn asks, beside no emergency.
LEMMA AskedInTurnIsOwn ==
  ASSUME NEW latest, NEW follows \in BOOLEAN, NEW r, r.danger = "none",
         AskedInTurn(latest, follows, FALSE, r) # {}
  PROVE  LET asked == AskedInTurn(latest, follows, FALSE, r)
         IN  \/ KeepsWords(latest, asked, CLOCK_WORDS)
             \/ latest \subseteq asked
             \/ CodeLookup(asked)
             \/ r.limit \in {"homework", "writing", "off_topic"}
<1> DEFINE asked == AskedInTurn(latest, follows, FALSE, r)
<1>1. CASE follows
  <2>1. r.question = LimitQuestion(r.limit) /\ r.question # {}
    BY <1>1 DEF AskedInTurn
  <2>2. r.limit \in {"homework", "writing"}
    BY <2>1 DEF LimitQuestion
  <2> QED
    BY <2>2
<1>2. CASE ~follows
  <2>1. \/ asked = r.question /\ CodeLookup(r.question)
        \/ asked = Asked(latest, r)
    BY <1>2 DEF AskedInTurn
  <2> QED
    BY <2>1, AskedIsOwn
<1> QED
  BY <1>1, <1>2

\* What the turn does with its reads: the ways of Outcome.
LEMMA OutcomeWays ==
  ASSUME NEW m
  PROVE  LET reads == Readings(m.calls, m.latest)
             r == ReadChecked(m.latest, Majority(reads))
             o == Outcome(m.latest, m.follows, m.beside, m.calls)
         IN  \/ o.by = "campus" /\ o.asked = {} /\ (CodeUnderstands(m.latest, m.follows) \/ DOMAIN reads = {})
             \/ o.by = "emergency"
             \/ o.by = "code" /\ r.danger = "none" /\ CodeReplies(r) /\ DOMAIN reads # {}
             \/ /\ o.by = "campus" /\ r.danger = "none"
                /\ o.asked = AskedInTurn(m.latest, m.follows, m.beside, r)
<1> DEFINE reads == Readings(m.calls, m.latest)
           r == ReadChecked(m.latest, Majority(reads))
           asked == AskedInTurn(m.latest, m.follows, m.beside, r)
           o == Outcome(m.latest, m.follows, m.beside, m.calls)
           unread == [by |-> "campus", danger |-> "none", asked |-> {}, help |-> <<>>]
           led == [unread EXCEPT !.by = "emergency", !.danger = r.danger,
                     !.asked = IF r.danger = "self_harm" THEN {} ELSE asked]
           said == [unread EXCEPT !.by = "code", !.help = SupportOffices(r.needs, "none")]
           searched == [unread EXCEPT !.asked = asked, !.help = SupportOffices(r.needs, r.limit)]
<1>1. o = IF CodeUnderstands(m.latest, m.follows) \/ DOMAIN reads = {} THEN unread
          ELSE IF r.danger # "none" THEN led
          ELSE IF CodeReplies(r) THEN said ELSE searched
  BY Zenon DEF Outcome
<1>2. unread.by = "campus" /\ unread.asked = {}
  OBVIOUS
<1>3. led.by = "emergency" /\ said.by = "code" /\ searched.by = "campus" /\ searched.asked = asked
  OBVIOUS
<1> HIDE DEF reads, r, asked, o, unread, led, said, searched
<1>4. \/ o.by = "campus" /\ o.asked = {} /\ (CodeUnderstands(m.latest, m.follows) \/ DOMAIN reads = {})
      \/ o.by = "emergency"
      \/ o.by = "code" /\ r.danger = "none" /\ CodeReplies(r) /\ DOMAIN reads # {}
      \/ o.by = "campus" /\ r.danger = "none" /\ o.asked = asked
  BY <1>1, <1>2, <1>3
<1> QED
  BY <1>4 DEF reads, r, asked, o

(***************************************************************************)
(* OwnWordsKept for any message and any reads: what a first message is     *)
(* searched for keeps its words, unless the read's words ask one plain     *)
(* lookup or the campus side of what cannot be done (asked in triage.py,   *)
(* the turn's use of it in engine.py).                                     *)
(***************************************************************************)
THEOREM WordsAreKept ==
  ASSUME NEW Labels, NEW Words, NEW m \in Messages(Labels, Words)
  PROVE  OwnWordsKept(m)
<1> DEFINE reads == Readings(m.calls, m.latest)
           r == ReadChecked(m.latest, Majority(reads))
           o == Outcome(m.latest, m.follows, m.beside, m.calls)
<1>1. SUFFICES ASSUME o.by = "campus", ~m.beside, o.asked # {}
               PROVE  \/ KeepsWords(m.latest, o.asked, CLOCK_WORDS)
                      \/ m.latest \subseteq o.asked
                      \/ CodeLookup(o.asked)
                      \/ Majority(reads).limit \in {"homework", "writing", "off_topic"}
  BY DEF OwnWordsKept
<1>2. r.danger = "none" /\ o.asked = AskedInTurn(m.latest, m.follows, m.beside, r)
  BY <1>1, OutcomeWays
<1>3. m.beside = FALSE /\ m.follows \in BOOLEAN
  BY <1>1 DEF Messages
<1>4. r.limit \in {"none", Majority(reads).limit}
  BY MajorityIsReading, CheckedKeeps
<1> HIDE DEF r, o, reads
<1>5. \/ KeepsWords(m.latest, o.asked, CLOCK_WORDS)
      \/ m.latest \subseteq o.asked
      \/ CodeLookup(o.asked)
      \/ r.limit \in {"homework", "writing", "off_topic"}
  BY <1>1, <1>2, <1>3, AskedInTurnIsOwn
<1> QED
  BY <1>4, <1>5

-----------------------------------------------------------------------------
(***************************************************************************)
(* The question most reads ask is one of those asked.                      *)
(***************************************************************************)
LEMMA ShareOfSixty ==
  ASSUME NEW a \in Nat, NEW b \in Nat, a <= b, b > 0
  PROVE  (60 * a) \div b \in Nat /\ (60 * a) \div b <= 60
<1> DEFINE q == (60 * a) \div b
<1>1. q \in Int /\ b * q <= 60 * a /\ 60 * a < b * (q + 1)
  OBVIOUS
<1> HIDE DEF q
<1>2. q >= 0
  BY <1>1
<1>3. q <= 60
  BY <1>1
<1> QED
  BY <1>2, <1>3 DEF q

\* Sixty numbers are finitely many.
LEMMA SixtyAreFinite == IsFiniteSet(1..60)
<1>1. 1 \in Int /\ 60 \in Int
  OBVIOUS
<1> QED
  BY <1>1, FS_Interval

\* Two wordings have at most sixty sixtieths of their words in common.
LEMMA NearInSixtieths ==
  ASSUME NEW q, IsFiniteSet(q), q # {}, NEW r, IsFiniteSet(r)
  PROVE  Near(q, r) \in Nat /\ Near(q, r) <= 60
<1>1. IsFiniteSet(q \cup r) /\ q \cap r \subseteq q \cup r /\ q \cup r # {}
  BY FS_Union
<1>2. /\ Cardinality(q \cap r) \in Nat /\ Cardinality(q \cup r) \in Nat
      /\ Cardinality(q \cap r) <= Cardinality(q \cup r) /\ Cardinality(q \cup r) # 0
  BY <1>1, FS_Subset, FS_CardinalityType, FS_EmptySet
<1> QED
  BY <1>2, ShareOfSixty DEF Near

\* Wordings given by finitely many, each of some words and finitely many.
Wordings(asked) ==
  /\ IsFiniteSet(DOMAIN asked)
  /\ \A i \in DOMAIN asked : IsFiniteSet(asked[i]) /\ asked[i] # {}

\* What nearness counts: the sixtieths shared with each of the others.
Shared(asked, i) == UNION {{j} \X (1..Near(asked[i], asked[j])) : j \in DOMAIN asked \ {i}}

\* The nearness of a wording to the others is a number, bounded for all of them.
LEMMA NearnessIsBounded ==
  ASSUME NEW asked, Wordings(asked), NEW i \in DOMAIN asked
  PROVE  /\ IsFiniteSet(Shared(asked, i))
         /\ Nearness(asked, i) = Cardinality(Shared(asked, i))
         /\ Nearness(asked, i) \in Nat
         /\ Nearness(asked, i) <= Cardinality((DOMAIN asked) \X (1..60))
<1> DEFINE all == (DOMAIN asked) \X (1..60)
<1>1. IsFiniteSet(all)
  <2>1. IsFiniteSet(DOMAIN asked) /\ IsFiniteSet(1..60)
    BY SixtyAreFinite DEF Wordings
  <2> QED
    BY <2>1, FS_Product
<1>2. ASSUME NEW j \in DOMAIN asked
      PROVE  1..Near(asked[i], asked[j]) \subseteq 1..60
  <2>1. Near(asked[i], asked[j]) \in Nat /\ Near(asked[i], asked[j]) <= 60
    BY NearInSixtieths DEF Wordings
  <2> QED
    BY <2>1
<1>3. ASSUME NEW x \in Shared(asked, i)
      PROVE  x \in all
  <2>1. PICK j \in DOMAIN asked \ {i} : x \in {j} \X (1..Near(asked[i], asked[j]))
    BY DEF Shared
  <2>2. {j} \X (1..Near(asked[i], asked[j])) \subseteq {j} \X (1..60)
    BY <1>2
  <2> QED
    BY <2>1, <2>2
<1>4. Nearness(asked, i) = Cardinality(Shared(asked, i))
  BY DEF Nearness, Shared
<1> HIDE DEF all
<1>5. /\ IsFiniteSet(Shared(asked, i)) /\ Cardinality(Shared(asked, i)) \in Nat
      /\ Cardinality(Shared(asked, i)) <= Cardinality(all)
  <2>1. Shared(asked, i) \subseteq all
    BY <1>3
  <2> QED
    BY <1>1, <2>1, FS_Subset, FS_CardinalityType
<1> QED
  BY <1>4, <1>5 DEF all

\* Of finitely or infinitely many, one has the lowest number.
LEMMA LowestOf ==
  ASSUME NEW D, D # {}, NEW f, \A d \in D : f[d] \in Nat
  PROVE  \E d \in D : \A e \in D : f[d] <= f[e]
<1> DEFINE T == {f[d] : d \in D}
<1>1. T \in SUBSET Nat /\ T # {}
  OBVIOUS
<1> HIDE DEF T
<1>2. PICK l \in T : \A t \in T : l <= t
  BY <1>1, LeastNumber
<1> USE DEF T
<1>3. PICK d \in D : l = f[d]
  OBVIOUS
<1> QED
  BY <1>2, <1>3

\* Of those with a bounded number, one has the highest.
LEMMA HighestOf ==
  ASSUME NEW D, D # {}, NEW f, NEW n \in Nat, \A d \in D : f[d] \in Nat /\ f[d] <= n
  PROVE  \E d \in D : \A e \in D : f[e] <= f[d]
<1> DEFINE g == [d \in D |-> n - f[d]]
<1>1. \A d \in D : g[d] = n - f[d] /\ g[d] \in Nat
  OBVIOUS
<1> HIDE DEF g
<1>2. PICK d \in D : \A e \in D : g[d] <= g[e]
  BY <1>1, LowestOf
<1>3. ASSUME NEW e \in D
      PROVE  f[e] <= f[d]
  BY <1>1, <1>2
<1> QED
  BY <1>3

\* Is wording i asked by more, nearer the others or shorter than wording j?
Better(asked, i, j) ==
  \/ Votes(asked, asked[i]) > Votes(asked, asked[j])
  \/ Votes(asked, asked[i]) = Votes(asked, asked[j]) /\ Nearness(asked, i) > Nearness(asked, j)
  \/ /\ Votes(asked, asked[i]) = Votes(asked, asked[j]) /\ Nearness(asked, i) = Nearness(asked, j)
     /\ Cardinality(asked[i]) < Cardinality(asked[j])

\* The wordings no other is better than.
BestAsked(asked) == {asked[i] : i \in {k \in DOMAIN asked : \A j \in DOMAIN asked : ~Better(asked, j, k)}}

\* The wording taken is one no other is better than.
LEMMA MostAskedIsBest == \A asked : MostAsked(asked) = CHOOSE q \in BestAsked(asked) : TRUE
BY Zenon DEF MostAsked, BestAsked, Better

\* There is a wording no other is better than: of those with the most votes the
\* nearest, and of these the shortest.
LEMMA SomeIsBest ==
  ASSUME NEW asked, Wordings(asked), DOMAIN asked # {}
  PROVE  BestAsked(asked) # {}
<1> DEFINE D == DOMAIN asked
           votes == [i \in D |-> Votes(asked, asked[i])]
           near == [i \in D |-> Nearness(asked, i)]
           long == [i \in D |-> Cardinality(asked[i])]
           n == Cardinality(D)
           m == Cardinality(D \X (1..60))
<1>1. n \in Nat /\ m \in Nat
  <2>1. IsFiniteSet(D) /\ IsFiniteSet(1..60)
    BY SixtyAreFinite DEF Wordings
  <2>2. IsFiniteSet(D \X (1..60))
    BY <2>1, FS_Product
  <2> QED
    BY <2>1, <2>2, FS_CardinalityType
<1>2. \A i \in D : votes[i] \in Nat /\ votes[i] <= n
  BY VotesAreCounted DEF Wordings
<1>3. \A i \in D : near[i] \in Nat /\ near[i] <= m
  BY NearnessIsBounded DEF near, m, D
<1>4. \A i \in D : long[i] \in Nat
  BY FS_CardinalityType DEF Wordings
<1>5. \A i, j \in D : Better(asked, j, i) <=>
        \/ votes[j] > votes[i]
        \/ votes[j] = votes[i] /\ near[j] > near[i]
        \/ votes[j] = votes[i] /\ near[j] = near[i] /\ long[j] < long[i]
  BY Zenon DEF Better
<1> HIDE DEF votes, near, long, n, m
<1>6. PICK a \in D : \A e \in D : votes[e] <= votes[a]
  BY <1>1, <1>2, HighestOf
<1> DEFINE A == {d \in D : votes[d] = votes[a]}
<1>7. PICK b \in A : \A e \in A : near[e] <= near[b]
  <2>1. A # {} /\ \A d \in A : near[d] \in Nat /\ near[d] <= m
    BY <1>3
  <2> HIDE DEF A
  <2> QED
    BY <1>1, <2>1, HighestOf
<1> DEFINE B == {d \in A : near[d] = near[b]}
<1>8. PICK c \in B : \A e \in B : long[c] <= long[e]
  <2>1. B # {} /\ \A d \in B : long[d] \in Nat
    BY <1>4
  <2> HIDE DEF B
  <2> QED
    BY <2>1, LowestOf
<1>9. ASSUME NEW j \in D
      PROVE  ~ (\/ votes[j] > votes[c]
                \/ votes[j] = votes[c] /\ near[j] > near[c]
                \/ votes[j] = votes[c] /\ near[j] = near[c] /\ long[j] < long[c])
  BY <1>2, <1>3, <1>4, <1>6, <1>7, <1>8
<1>10. c \in D /\ \A j \in D : ~Better(asked, j, c)
  BY <1>5, <1>9
<1> QED
  BY <1>10 DEF BestAsked

\* The wording taken is one that was asked.
LEMMA MostAskedIsAsked ==
  ASSUME NEW asked, Wordings(asked), DOMAIN asked # {}
  PROVE  MostAsked(asked) \in ToSet(asked)
<1>1. MostAsked(asked) \in BestAsked(asked)
  BY MostAskedIsBest, SomeIsBest
<1> QED
  BY <1>1 DEF BestAsked, ToSet

\* A question more than half of the reads ask is the majority's question.
LEMMA QuestionIsKept ==
  ASSUME NEW Labels, NEW Words, NEW reads, IsFiniteSet(DOMAIN reads),
         \A i \in DOMAIN reads : reads[i] \in Good(Labels, Words),
         2 * Cardinality({i \in DOMAIN reads : reads[i].question # {}}) > Cardinality(DOMAIN reads)
  PROVE  Majority(reads).question # {}
<1> DEFINE asking == {i \in DOMAIN reads : reads[i].question # {}}
           asked == Naming(reads, "question", {})
<1>1. DOMAIN asked = asking /\ \A i \in asking : asked[i] = reads[i].question
  BY DEF Naming, Restrict, Field
<1>2. IsFiniteSet(asking) /\ Cardinality(asking) \in Nat /\ Cardinality(DOMAIN reads) \in Nat
  BY FS_Subset, FS_CardinalityType
<1>3. Wordings(asked)
  BY <1>1, <1>2 DEF Wordings, Good
<1>4. Majority(reads).question =
        IF Cardinality(DOMAIN asked) > Cardinality(DOMAIN reads) \div 2 THEN MostAsked(asked) ELSE {}
  BY DEF Majority, QuestionOfMost
<1> HIDE DEF asked, asking
<1>5. Cardinality(asking) > Cardinality(DOMAIN reads) \div 2 /\ Cardinality(asking) # 0
  BY <1>2 DEF asking
<1>6. asking # {}
  BY <1>5, FS_EmptySet
<1>7. MostAsked(asked) \in ToSet(asked)
  BY <1>1, <1>3, <1>6, MostAskedIsAsked
<1>8. PICK i \in asking : MostAsked(asked) = reads[i].question
  BY <1>1, <1>7 DEF ToSet
<1> QED
  BY <1>1, <1>4, <1>5, <1>8 DEF asking

\* Code takes a question away only when it asks the time alone.
LEMMA OnlyTheClockIsAnswered ==
  ASSUME NEW latest, NEW r, Reading(r), r.question # {}, r.limit # "clock"
  PROVE  ReadChecked(latest, r).question # {} \/ latest = {}
<1> DEFINE checked == Corrected(latest, r)
           needs == NeedsChecked(checked.needs, latest)
           nothing == needs = {} /\ checked.limit = "none" /\ checked.social = "none"
<1>1. Reading(checked) /\ (checked.question # {} \/ latest = {})
  BY CorrectedKeeps DEF Corrected, Reading
<1>2. ReadChecked(latest, r) =
        IF needs = checked.needs THEN checked
        ELSE [checked EXCEPT !.needs = needs,
                             !.question = IF @ = {} /\ nothing THEN latest ELSE @]
  BY DEF ReadChecked
<1> HIDE DEF checked, needs
<1> QED
  BY <1>1, <1>2 DEF Reading

(***************************************************************************)
(* QuestionNotLost for any message and any reads: when more than half of   *)
(* the reads ask something, code by itself answers only what the clock     *)
(* answers (majority, corrected and code_replies in triage.py). The        *)
(* wording taken is one that was asked, so it is not empty; every          *)
(* correction keeps a question but the clock's.                            *)
(***************************************************************************)
THEOREM QuestionIsAnswered ==
  ASSUME NEW Labels, NEW Words, NEW m \in Messages(Labels, Words)
  PROVE  QuestionNotLost(m)
<1> DEFINE reads == Readings(m.calls, m.latest)
           r == ReadChecked(m.latest, Majority(reads))
           o == Outcome(m.latest, m.follows, m.beside, m.calls)
<1>1. SUFFICES ASSUME o.by = "code",
                      2 * Cardinality({i \in DOMAIN reads : reads[i].question # {}}) > Cardinality(DOMAIN reads),
                      Majority(reads).limit # "clock"
               PROVE  FALSE
  BY DEF QuestionNotLost
<1>2. r.question = {}
  BY <1>1, OutcomeWays DEF CodeReplies
<1>3. IsFiniteSet(DOMAIN reads) /\ \A j \in DOMAIN reads : reads[j] \in Good(Labels, Words)
  BY ReadsAreGood DEF Messages
<1> HIDE DEF reads
<1>4. Majority(reads).question # {}
  BY <1>1, <1>3, QuestionIsKept
<1>5. m.latest # {}
  BY DEF Messages
<1> QED
  BY <1>1, <1>2, <1>4, <1>5, MajorityIsReading, OnlyTheClockIsAnswered

-----------------------------------------------------------------------------
(***************************************************************************)
(* The reads in another order.                                             *)
(***************************************************************************)
\* The values of g are those of f, each once and under another number.
Same(f, g, p) ==
  /\ p \in Bijection(DOMAIN g, DOMAIN f)
  /\ \A i \in DOMAIN g : g[i] = f[p[i]]

\* What it is for g to be f in another order.
LEMMA SameIs ==
  ASSUME NEW f, NEW g, NEW p, Same(f, g, p)
  PROVE  /\ \A i \in DOMAIN g : p[i] \in DOMAIN f /\ g[i] = f[p[i]]
         /\ \A i, j \in DOMAIN g : p[i] = p[j] => i = j
         /\ \A k \in DOMAIN f : \E i \in DOMAIN g : p[i] = k
BY DEF Same, Bijection, Injection, Surjection, IsInjective

\* What it takes to be a bijection.
LEMMA BijectionIs ==
  ASSUME NEW S, NEW T, NEW q \in [S -> T],
         \A x, y \in S : q[x] = q[y] => x = y,
         \A y \in T : \E x \in S : q[x] = y
  PROVE  q \in Bijection(S, T) /\ ExistsBijection(S, T)
BY DEF ExistsBijection, Bijection, Injection, Surjection, IsInjective

\* Part of the values of one are as many as that part of the other's.
\* The numbers whose values are in X.
Part(h, X) == {j \in DOMAIN h : h[j] \in X}

\* Part of the values of one are that part of the other's, and as many.
LEMMA SamePart ==
  ASSUME NEW f, NEW g, NEW p, Same(f, g, p), NEW X
  PROVE  /\ [i \in Part(g, X) |-> p[i]] \in Bijection(Part(g, X), Part(f, X))
         /\ IsFiniteSet(DOMAIN f) => Cardinality(Part(g, X)) = Cardinality(Part(f, X))
<1> DEFINE S == Part(g, X)
           T == Part(f, X)
           q == [i \in S |-> p[i]]
<1> USE DEF Part
<1>1. \A i \in S : q[i] = p[i]
  OBVIOUS
<1>2. \A x \in S : p[x] \in T
  BY SameIs
<1>3. q \in [S -> T]
  BY <1>2
<1>4. \A x, y \in S : q[x] = q[y] => x = y
  BY <1>1, SameIs
<1>5. ASSUME NEW y \in T
      PROVE  \E x \in S : q[x] = y
  <2>1. PICK x \in DOMAIN g : p[x] = y
    BY SameIs
  <2>2. x \in S
    BY <2>1, SameIs
  <2> QED
    BY <1>1, <2>1, <2>2
<1> HIDE DEF q, S, T, Part
<1>6. q \in Bijection(S, T) /\ ExistsBijection(S, T)
  BY <1>3, <1>4, <1>5, BijectionIs
<1>7. ASSUME IsFiniteSet(DOMAIN f)
      PROVE  Cardinality(S) = Cardinality(T)
  <2>1. IsFiniteSet(T)
    BY <1>7, FS_Subset DEF T, Part
  <2>2. q \in Surjection(S, T) /\ q \in Injection(S, T)
    BY <1>6 DEF Bijection
  <2>3. IsFiniteSet(S)
    BY <2>1, <2>2, FS_Injection
  <2> QED
    BY <1>6, <2>3, FS_Bijection
<1> QED
  BY <1>6, <1>7 DEF q, S, T

\* As many, of finitely many.
LEMMA SameMany ==
  ASSUME NEW f, NEW g, NEW p, Same(f, g, p), IsFiniteSet(DOMAIN f), NEW X
  PROVE  Cardinality(Part(g, X)) = Cardinality(Part(f, X))
BY SamePart

\* The same values,
LEMMA SameValues ==
  ASSUME NEW f, NEW g, NEW p, Same(f, g, p)
  PROVE  ToSet(g) = ToSet(f)
<1>1. \A x \in ToSet(g) : x \in ToSet(f)
  BY SameIs DEF ToSet
<1>2. ASSUME NEW x \in ToSet(f)
      PROVE  x \in ToSet(g)
  <2>1. PICK k \in DOMAIN f : x = f[k]
    BY DEF ToSet
  <2>2. PICK i \in DOMAIN g : p[i] = k
    BY SameIs
  <2> QED
    BY <2>1, <2>2, SameIs DEF ToSet
<1> QED
  BY <1>1, <1>2

\* as often,
LEMMA SameVotes ==
  ASSUME NEW f, NEW g, NEW p, Same(f, g, p), IsFiniteSet(DOMAIN f), NEW v
  PROVE  Votes(g, v) = Votes(f, v)
<1>1. Cardinality({j \in DOMAIN g : g[j] \in {v}}) = Cardinality({j \in DOMAIN f : f[j] \in {v}})
  <2> DEFINE X == {v}
  <2> HIDE DEF X
  <2>1. Cardinality(Part(g, X)) = Cardinality(Part(f, X))
    BY SameMany
  <2> QED
    BY <2>1 DEF X, Part
<1>2. \A h : {j \in DOMAIN h : h[j] \in {v}} = {j \in DOMAIN h : h[j] = v}
  OBVIOUS
<1> QED
  BY <1>1, <1>2 DEF Votes

\* and as many in all.
LEMMA SameCount ==
  ASSUME NEW f, NEW g, NEW p, Same(f, g, p), IsFiniteSet(DOMAIN f)
  PROVE  /\ IsFiniteSet(DOMAIN g)
         /\ Cardinality(DOMAIN g) = Cardinality(DOMAIN f)
<1>1. p \in Injection(DOMAIN g, DOMAIN f) /\ p \in Bijection(DOMAIN g, DOMAIN f)
  BY DEF Same, Bijection
<1>2. IsFiniteSet(DOMAIN g) /\ ExistsBijection(DOMAIN g, DOMAIN f)
  BY <1>1, FS_Injection DEF ExistsBijection
<1> QED
  BY <1>2, FS_Bijection

\* The label most of them give is the same.
LEMMA SameMost ==
  ASSUME NEW f, NEW g, NEW p, Same(f, g, p), IsFiniteSet(DOMAIN f), NEW order
  PROVE  Most(g, order) = Most(f, order)
<1> DEFINE ahead(h, v, w) == \/ Votes(h, v) > Votes(h, w)
                             \/ Votes(h, v) = Votes(h, w) /\ Rank(order, v) <= Rank(order, w)
           leading(h) == {v \in ToSet(h) : \A w \in ToSet(h) : ahead(h, v, w)}
<1>1. \A h : Most(h, order) = CHOOSE v \in leading(h) : TRUE
  BY Zenon DEF Most
<1>2. \A v : Votes(g, v) = Votes(f, v)
  BY SameVotes
<1>3. ToSet(g) = ToSet(f)
  BY SameValues
<1>4. leading(g) = leading(f)
  BY <1>2, <1>3
<1> HIDE DEF leading
<1> QED
  BY <1>1, <1>4

\* The same reads say the same of one thing,
LEMMA SameField ==
  ASSUME NEW f, NEW g, NEW p, Same(f, g, p), NEW field
  PROVE  Same(Field(f, field), Field(g, field), p)
<1> DEFINE F == Field(f, field)
           G == Field(g, field)
<1>1. /\ DOMAIN F = DOMAIN f /\ DOMAIN G = DOMAIN g
      /\ \A i \in DOMAIN f : F[i] = f[i][field]
      /\ \A i \in DOMAIN g : G[i] = g[i][field]
  BY DEF Field
<1> HIDE DEF F, G
<1>2. \A i \in DOMAIN g : G[i] = F[p[i]]
  BY <1>1, SameIs
<1>3. p \in Bijection(DOMAIN G, DOMAIN F)
  BY <1>1 DEF Same
<1>4. Same(F, G, p)
  BY <1>1, <1>2, <1>3 DEF Same
<1> QED
  BY <1>4 DEF F, G

\* also without those that say nothing of it.
LEMMA SameNaming ==
  ASSUME NEW f, NEW g, NEW p, Same(f, g, p), NEW field, NEW nothing
  PROVE  \E q : Same(Naming(f, field, nothing), Naming(g, field, nothing), q)
<1> DEFINE F == Field(f, field)
           G == Field(g, field)
           X == {x \in ToSet(F) : x # nothing}
           S == Part(G, X)
           T == Part(F, X)
           q == [i \in S |-> p[i]]
<1>1. Same(F, G, p)
  BY SameField
<1>2. q \in Bijection(S, T)
  <2> HIDE DEF F, G, X
  <2> QED
    BY <1>1, SamePart
<1>3. /\ DOMAIN F = DOMAIN f /\ DOMAIN G = DOMAIN g
      /\ \A i \in DOMAIN f : F[i] = f[i][field]
      /\ \A i \in DOMAIN g : G[i] = g[i][field]
  BY DEF Field
<1>4. ToSet(F) = ToSet(G)
  BY <1>1, SameValues
<1> DEFINE NF == Naming(f, field, nothing)
           NG == Naming(g, field, nothing)
<1>5. NF = [i \in {j \in DOMAIN f : f[j][field] # nothing} |-> F[i]]
  BY DEF Naming, Restrict
<1>6. NG = [i \in {j \in DOMAIN g : g[j][field] # nothing} |-> G[i]]
  BY DEF Naming, Restrict
<1> HIDE DEF F, G, q
<1>7. {j \in DOMAIN f : f[j][field] # nothing} = T
  BY <1>3 DEF ToSet, Part
<1>8. {j \in DOMAIN g : g[j][field] # nothing} = S
  BY <1>3, <1>4 DEF ToSet, Part
<1>9. DOMAIN NF = T /\ DOMAIN NG = S /\ (\A i \in T : NF[i] = F[i]) /\ (\A i \in S : NG[i] = G[i])
  BY <1>5, <1>6, <1>7, <1>8
<1>10. \A i \in S : q[i] = p[i] /\ p[i] \in T /\ G[i] = F[p[i]]
  <2>1. \A i \in S : q[i] = p[i]
    BY DEF q
  <2>2. \A i \in S : i \in DOMAIN G /\ G[i] \in X
    BY DEF S, Part
  <2> HIDE DEF X
  <2>3. \A i \in S : p[i] \in DOMAIN F /\ G[i] = F[p[i]]
    BY <1>1, <2>2, SameIs
  <2>4. \A i \in S : p[i] \in T
    BY <2>2, <2>3 DEF T, Part
  <2> QED
    BY <2>1, <2>3, <2>4
<1> HIDE DEF S, T, NF, NG
<1>11. Same(NF, NG, q)
  BY <1>2, <1>9, <1>10 DEF Same
<1> QED
  BY <1>11 DEF NF, NG

\* A wording is as near the others, wherever it stands.
LEMMA SameNearness ==
  ASSUME NEW f, NEW g, NEW p, Same(f, g, p), Wordings(f), NEW i \in DOMAIN g
  PROVE  Nearness(g, i) = Nearness(f, p[i])
<1> DEFINE S == Shared(g, i)
           T == Shared(f, p[i])
           q == [x \in S |-> <<p[x[1]], x[2]>>]
<1>1. \A x : x \in S <=> \E j \in DOMAIN g, n \in Nat :
                           j # i /\ x = <<j, n>> /\ n \in 1..Near(g[i], g[j])
  BY DEF Shared
<1>2. \A x : x \in T <=> \E j \in DOMAIN f, n \in Nat :
                           j # p[i] /\ x = <<j, n>> /\ n \in 1..Near(f[p[i]], f[j])
  BY DEF Shared
<1> HIDE DEF S, T
<1>3. \A j \in DOMAIN g : \A n : <<j, n>> \in S => q[<<j, n>>] = <<p[j], n>>
  OBVIOUS
<1>4. ASSUME NEW x \in S
      PROVE  q[x] \in T
  <2>1. PICK j \in DOMAIN g, n \in Nat : j # i /\ x = <<j, n>> /\ n \in 1..Near(g[i], g[j])
    BY <1>1
  <2>2. p[j] \in DOMAIN f /\ p[j] # p[i] /\ g[i] = f[p[i]] /\ g[j] = f[p[j]]
    BY <2>1, SameIs
  <2>3. <<p[j], n>> \in T
    BY <1>2, <2>1, <2>2
  <2> QED
    BY <1>3, <2>1, <2>3
<1>5. ASSUME NEW x \in S, NEW y \in S, q[x] = q[y]
      PROVE  x = y
  <2>1. PICK j \in DOMAIN g, n \in Nat : x = <<j, n>>
    BY <1>1
  <2>2. PICK k \in DOMAIN g, m \in Nat : y = <<k, m>>
    BY <1>1
  <2>3. p[j] = p[k] /\ n = m
    BY <1>3, <1>5, <2>1, <2>2
  <2> QED
    BY <2>1, <2>2, <2>3, SameIs
<1>6. ASSUME NEW y \in T
      PROVE  \E x \in S : q[x] = y
  <2>1. PICK k \in DOMAIN f, n \in Nat : k # p[i] /\ y = <<k, n>> /\ n \in 1..Near(f[p[i]], f[k])
    BY <1>2
  <2>2. PICK j \in DOMAIN g : p[j] = k
    BY SameIs
  <2>3. j # i /\ g[i] = f[p[i]] /\ g[j] = f[k]
    BY <2>1, <2>2, SameIs
  <2>4. <<j, n>> \in S
    BY <1>1, <2>1, <2>3
  <2> QED
    BY <1>3, <2>1, <2>2, <2>4
<1>7. q \in [S -> T]
  BY <1>4
<1> HIDE DEF q
<1>8. q \in Bijection(S, T) /\ ExistsBijection(S, T)
  BY <1>5, <1>6, <1>7, BijectionIs
<1>9. p[i] \in DOMAIN f
  BY SameIs
<1>10. IsFiniteSet(T)
  BY <1>9, NearnessIsBounded DEF T
<1>11. q \in Injection(S, T)
  BY <1>8 DEF Bijection
<1>12. IsFiniteSet(S)
  BY <1>10, <1>11, FS_Injection
<1>13. Cardinality(T) = Cardinality(S)
  BY <1>8, <1>12, FS_Bijection
<1> QED
  BY <1>13 DEF S, T, Shared, Nearness

\* Wordings in another order are wordings.
LEMMA SameWordings ==
  ASSUME NEW f, NEW g, NEW p, Same(f, g, p), Wordings(f)
  PROVE  Wordings(g)
<1>1. p \in Injection(DOMAIN g, DOMAIN f)
  BY DEF Same, Bijection
<1>2. IsFiniteSet(DOMAIN g)
  BY <1>1, FS_Injection DEF Wordings
<1> QED
  BY <1>2, SameIs DEF Wordings

\* Which of two wordings is better does not depend on where they stand.
LEMMA SameBetter ==
  ASSUME NEW f, NEW g, NEW p, Same(f, g, p), Wordings(f), NEW i \in DOMAIN g, NEW j \in DOMAIN g
  PROVE  Better(g, i, j) <=> Better(f, p[i], p[j])
<1>1. g[i] = f[p[i]] /\ g[j] = f[p[j]]
  BY SameIs
<1>2. \A v : Votes(g, v) = Votes(f, v)
  BY SameVotes DEF Wordings
<1>3. Nearness(g, i) = Nearness(f, p[i]) /\ Nearness(g, j) = Nearness(f, p[j])
  BY SameNearness
<1> QED
  BY <1>1, <1>2, <1>3 DEF Better

\* Nor does the wording taken.
LEMMA SameMostAsked ==
  ASSUME NEW f, NEW g, NEW p, Same(f, g, p), Wordings(f)
  PROVE  MostAsked(g) = MostAsked(f)
<1>1. ASSUME NEW x \in BestAsked(g)
      PROVE  x \in BestAsked(f)
  <2>1. PICK i \in DOMAIN g : x = g[i] /\ \A j \in DOMAIN g : ~Better(g, j, i)
    BY <1>1 DEF BestAsked
  <2>2. p[i] \in DOMAIN f /\ x = f[p[i]]
    BY <2>1, SameIs
  <2>3. ASSUME NEW k \in DOMAIN f
        PROVE  ~Better(f, k, p[i])
    <3>1. PICK j \in DOMAIN g : p[j] = k
      BY SameIs
    <3> QED
      BY <2>1, <3>1, SameBetter
  <2> QED
    BY <2>2, <2>3 DEF BestAsked
<1>2. ASSUME NEW x \in BestAsked(f)
      PROVE  x \in BestAsked(g)
  <2>1. PICK k \in DOMAIN f : x = f[k] /\ \A l \in DOMAIN f : ~Better(f, l, k)
    BY <1>2 DEF BestAsked
  <2>2. PICK i \in DOMAIN g : p[i] = k
    BY SameIs
  <2>3. ASSUME NEW j \in DOMAIN g
        PROVE  ~Better(g, j, i)
    BY <2>1, <2>2, SameIs, SameBetter
  <2>4. x = g[i]
    BY <2>1, <2>2, SameIs
  <2> QED
    BY <2>3, <2>4 DEF BestAsked
<1>3. BestAsked(g) = BestAsked(f)
  BY <1>1, <1>2
<1> QED
  BY <1>3, MostAskedIsBest

\* The needs of most reads are the same,
LEMMA SameNeeds ==
  ASSUME NEW f, NEW g, NEW p, Same(f, g, p), IsFiniteSet(DOMAIN f)
  PROVE  NeedsOfMost(g) = NeedsOfMost(f)
<1>1. ASSUME NEW n
      PROVE  Cardinality({i \in DOMAIN g : n \in g[i].needs}) = Cardinality({i \in DOMAIN f : n \in f[i].needs})
  <2> DEFINE X == {r \in ToSet(f) : n \in r.needs}
  <2>1. {i \in DOMAIN f : n \in f[i].needs} = {i \in DOMAIN f : f[i] \in X}
    BY DEF ToSet
  <2>2. {i \in DOMAIN g : n \in g[i].needs} = {i \in DOMAIN g : g[i] \in X}
    BY SameIs DEF ToSet
  <2> HIDE DEF X
  <2>3. Cardinality(Part(g, X)) = Cardinality(Part(f, X))
    BY SameMany
  <2> QED
    BY <2>1, <2>2, <2>3 DEF Part
<1>2. Cardinality(DOMAIN g) = Cardinality(DOMAIN f)
  BY SameCount
<1> QED
  BY <1>1, <1>2 DEF NeedsOfMost

\* the question,
LEMMA SameQuestion ==
  ASSUME NEW Labels, NEW Words, NEW f, NEW g, NEW p, Same(f, g, p), IsFiniteSet(DOMAIN f),
         \A i \in DOMAIN f : f[i] \in Good(Labels, Words)
  PROVE  QuestionOfMost(g) = QuestionOfMost(f)
<1> DEFINE F == Naming(f, "question", {})
           G == Naming(g, "question", {})
<1>1. PICK q : Same(F, G, q)
  BY SameNaming
<1>2. Wordings(F)
  <2>1. DOMAIN F = {i \in DOMAIN f : f[i].question # {}} /\ \A i \in DOMAIN F : F[i] = f[i].question
    BY DEF Naming, Restrict, Field
  <2>2. IsFiniteSet(DOMAIN F)
    BY <2>1, FS_Subset
  <2> QED
    BY <2>1, <2>2 DEF Wordings, Good
<1> HIDE DEF F, G
<1>3. MostAsked(G) = MostAsked(F)
  BY <1>1, <1>2, SameMostAsked
<1>4. Cardinality(DOMAIN G) = Cardinality(DOMAIN F) /\ Cardinality(DOMAIN g) = Cardinality(DOMAIN f)
  BY <1>1, <1>2, SameCount DEF Wordings
<1> QED
  BY <1>3, <1>4 DEF QuestionOfMost, F, G

\* and all that most of them say.
LEMMA SameMajority ==
  ASSUME NEW Labels, NEW Words, NEW f, NEW g, NEW p, Same(f, g, p), IsFiniteSet(DOMAIN f),
         \A i \in DOMAIN f : f[i] \in Good(Labels, Words)
  PROVE  Majority(g) = Majority(f)
<1> DEFINE F == Naming(f, "danger", "none")
           G == Naming(g, "danger", "none")
<1>1. PICK q : Same(F, G, q)
  BY SameNaming
<1>2. IsFiniteSet(DOMAIN F)
  <2>1. DOMAIN F = {i \in DOMAIN f : f[i].danger # "none"}
    BY DEF Naming, Restrict
  <2> QED
    BY <2>1, FS_Subset
<1> HIDE DEF F, G
<1>3. Most(G, DANGER) = Most(F, DANGER)
  BY <1>1, <1>2, SameMost
<1>4. DOMAIN G = {} <=> DOMAIN F = {}
  BY <1>1, SameIs
<1>5. /\ Most(Field(g, "social"), SOCIAL) = Most(Field(f, "social"), SOCIAL)
      /\ Most(Field(g, "limit"), LIMITS) = Most(Field(f, "limit"), LIMITS)
  <2>1. \A field : DOMAIN Field(f, field) = DOMAIN f
    BY DEF Field
  <2> QED
    BY <2>1, SameField, SameMost
<1>6. NeedsOfMost(g) = NeedsOfMost(f)
  BY SameNeeds
<1>7. QuestionOfMost(g) = QuestionOfMost(f)
  BY SameQuestion
<1> QED
  BY <1>3, <1>4, <1>5, <1>6, <1>7 DEF Majority, F, G

\* The reads of calls in another order are the reads in another order.
LEMMA SameReads ==
  ASSUME NEW calls, NEW latest, NEW p \in Bijection(DOMAIN calls, DOMAIN calls)
  PROVE  \E q : Same(Readings(calls, latest),
                     Readings([i \in DOMAIN calls |-> calls[p[i]]], latest), q)
<1> DEFINE others == [i \in DOMAIN calls |-> calls[p[i]]]
           f == Readings(calls, latest)
           g == Readings(others, latest)
           q == [i \in DOMAIN g |-> p[i]]
<1>1. Same(calls, others, p)
  BY DEF Same
<1>2. DOMAIN others = DOMAIN calls
  OBVIOUS
<1> HIDE DEF others
<1>3. /\ DOMAIN f = {i \in DOMAIN calls : ReadingOf(calls[i], latest) # {}}
      /\ \A i \in DOMAIN f : f[i] = CHOOSE r \in ReadingOf(calls[i], latest) : TRUE
  BY DEF Readings
<1>4. /\ DOMAIN g = {i \in DOMAIN others : ReadingOf(others[i], latest) # {}}
      /\ \A i \in DOMAIN g : g[i] = CHOOSE r \in ReadingOf(others[i], latest) : TRUE
  BY DEF Readings
<1>5. \A i \in DOMAIN g : q[i] = p[i]
  OBVIOUS
<1>6. q = [i \in DOMAIN g |-> p[i]]
  OBVIOUS
<1> HIDE DEF f, g, q
<1>7. ASSUME NEW i \in DOMAIN g
      PROVE  p[i] \in DOMAIN f /\ g[i] = f[p[i]]
  <2>1. i \in DOMAIN others /\ ReadingOf(others[i], latest) # {}
    BY <1>4
  <2>2. p[i] \in DOMAIN calls /\ others[i] = calls[p[i]]
    BY <1>1, <2>1, SameIs
  <2>3. p[i] \in DOMAIN f
    BY <1>3, <2>1, <2>2
  <2>4. g[i] = CHOOSE r \in ReadingOf(calls[p[i]], latest) : TRUE
    BY <1>4, <2>2, Zenon
  <2>5. f[p[i]] = CHOOSE r \in ReadingOf(calls[p[i]], latest) : TRUE
    BY <1>3, <2>3, Zenon
  <2> QED
    BY <2>3, <2>4, <2>5
<1>8. \A i, j \in DOMAIN g : p[i] = p[j] => i = j
  BY <1>1, <1>4, SameIs
<1>9. ASSUME NEW k \in DOMAIN f
      PROVE  \E i \in DOMAIN g : p[i] = k
  <2>1. PICK i \in DOMAIN others : p[i] = k
    BY <1>1, <1>3, SameIs
  <2>2. others[i] = calls[k]
    BY <1>1, <2>1, SameIs
  <2>3. i \in DOMAIN g
    BY <1>3, <1>4, <2>2
  <2> QED
    BY <2>1, <2>3
<1>10. q \in [DOMAIN g -> DOMAIN f]
  BY <1>6, <1>7
<1>11. q \in Bijection(DOMAIN g, DOMAIN f)
  BY <1>5, <1>8, <1>9, <1>10, BijectionIs
<1>12. Same(f, g, q)
  BY <1>5, <1>7, <1>11 DEF Same
<1> QED
  BY <1>12 DEF f, g, others

\* What is told of a message whose reads, if there are any, say this.
Told(latest, follows, beside, none, said) ==
  LET r == ReadChecked(latest, said)
      asked == AskedInTurn(latest, follows, beside, r)
      unread == [by |-> "campus", danger |-> "none", asked |-> {}, help |-> <<>>]
  IN  IF CodeUnderstands(latest, follows) \/ none THEN unread
      ELSE IF r.danger # "none"
           THEN [unread EXCEPT !.by = "emergency", !.danger = r.danger,
                   !.asked = IF r.danger = "self_harm" THEN {} ELSE asked]
      ELSE IF CodeReplies(r)
           THEN [unread EXCEPT !.by = "code", !.help = SupportOffices(r.needs, "none")]
      ELSE [unread EXCEPT !.asked = asked, !.help = SupportOffices(r.needs, r.limit)]

\* The turn uses no more of its reads than that.
LEMMA OutcomeIsTold ==
  \A latest, follows, beside, calls :
    Outcome(latest, follows, beside, calls) =
      Told(latest, follows, beside, DOMAIN Readings(calls, latest) = {},
           Majority(Readings(calls, latest)))
BY Zenon DEF Outcome, Told

(***************************************************************************)
(* OrderFree for any message, any reads and any order they come back in:   *)
(* the reply, the danger that leads it, what is asked and the offices      *)
(* named depend on the reads alone (majority in triage.py). Ties of votes  *)
(* go by the order of the labels; of wordings by their nearness, their     *)
(* length and at last by the wording itself, never by the number of a      *)
(* call.                                                                   *)
(***************************************************************************)
THEOREM OrderMakesNoDifference ==
  ASSUME NEW Labels, NEW Words, NEW m \in Messages(Labels, Words)
  PROVE  OrderFree(m)
<1> SUFFICES ASSUME NEW p \in Bijection(DOMAIN m.calls, DOMAIN m.calls)
             PROVE  Outcome(m.latest, m.follows, m.beside, [i \in DOMAIN m.calls |-> m.calls[p[i]]])
                      = Outcome(m.latest, m.follows, m.beside, m.calls)
  BY DEF OrderFree
<1> DEFINE others == [i \in DOMAIN m.calls |-> m.calls[p[i]]]
           f == Readings(m.calls, m.latest)
           g == Readings(others, m.latest)
<1>1. PICK q : Same(f, g, q)
  BY SameReads
<1>2. IsFiniteSet(DOMAIN f) /\ \A i \in DOMAIN f : f[i] \in Good(Labels, Words)
  BY ReadsAreGood DEF Messages
<1> HIDE DEF f, g
<1>3. Majority(g) = Majority(f)
  BY <1>1, <1>2, SameMajority
<1>4. DOMAIN g = {} <=> DOMAIN f = {}
  BY <1>1, SameIs
<1> HIDE DEF others
<1>5. Told(m.latest, m.follows, m.beside, DOMAIN g = {}, Majority(g))
        = Told(m.latest, m.follows, m.beside, DOMAIN f = {}, Majority(f))
  <2>1. CASE DOMAIN f = {}
    <3>1. (DOMAIN g = {}) = (DOMAIN f = {})
      BY <1>4
    <3> QED
      BY <1>3, <3>1, Zenon
  <2>2. CASE DOMAIN f # {}
    <3>1. (DOMAIN g = {}) = (DOMAIN f = {})
      BY <1>4
    <3> QED
      BY <1>3, <3>1, Zenon
  <2> QED
    BY <2>1, <2>2
<1> QED
  BY <1>5, OutcomeIsTold, Zenon DEF f, g, others

(***************************************************************************)
(* MessageRead for any message and any reads: the four rules above.        *)
(***************************************************************************)
THEOREM EveryMessageRead ==
  ASSUME NEW Labels, NEW Words, NEW m \in Messages(Labels, Words)
  PROVE  MessageRead(m)
BY OrderMakesNoDifference, DangerAlwaysLeads, QuestionIsAnswered, WordsAreKept DEF MessageRead

-----------------------------------------------------------------------------

\* So do the community modules' Min and Max.
LEMMA MinIsLeast ==
  ASSUME NEW T \in SUBSET Nat, T # {}
  PROVE  Min(T) \in T /\ \A y \in T : Min(T) <= y
<1>1. \E x \in T : \A y \in T : x <= y
  BY LeastNumber
<1> QED
  BY <1>1 DEF Min

\* A finite set of natural numbers that is not empty has a greatest one.
LEMMA MaxIsGreatest ==
  ASSUME NEW T \in SUBSET Nat, T # {}, IsFiniteSet(T)
  PROVE  Max(T) \in T /\ \A y \in T : Max(T) >= y
<1> DEFINE Above(x) == {y \in T : y > x}
           counts == {Cardinality(Above(x)) : x \in T}
<1>1. \A x \in T : IsFiniteSet(Above(x)) /\ Cardinality(Above(x)) \in Nat
  BY FS_Subset, FS_CardinalityType
<1>2. counts \in SUBSET Nat /\ counts # {}
  BY <1>1
<1>3. PICK x \in T : \A y \in T : Cardinality(Above(x)) <= Cardinality(Above(y))
  <2> HIDE DEF counts
  <2>1. PICK l \in counts : \A c \in counts : l <= c
    BY <1>2, LeastNumber
  <2> USE DEF counts
  <2> HIDE DEF Above
  <2>2. PICK x \in T : l = Cardinality(Above(x))
    OBVIOUS
  <2> QED
    BY <2>1, <2>2
<1>4. ASSUME NEW y \in T, ~ (x >= y)
      PROVE  FALSE
  <2>1. y > x /\ x \in Nat /\ y \in Nat
    BY <1>4
  <2>2. Above(y) \subseteq Above(x) /\ y \in Above(x) /\ y \notin Above(y)
    <3>1. ASSUME NEW z \in Above(y)
          PROVE  z \in Above(x)
      <4>1. z \in T /\ z \in Nat /\ z > y
        BY <3>1
      <4> QED
        BY <2>1, <4>1
    <3>2. y \in Above(x) /\ ~ (y > y)
      BY <2>1
    <3> QED
      BY <3>1, <3>2
  <2> HIDE DEF Above
  <2>3. Cardinality(Above(y)) <= Cardinality(Above(x)) /\ Cardinality(Above(y)) # Cardinality(Above(x))
    BY <1>1, <2>2, FS_Subset
  <2> QED
    BY <1>1, <1>3, <2>3
<1>5. \A y \in T : x >= y
  BY <1>4
<1> QED
  BY <1>5 DEF Max

-----------------------------------------------------------------------------
\* Plans.
AnyPlans(Words) ==
  {plans \in SUBSET [cohort : Nat, track : SUBSET Words, base : BOOLEAN, terms : BOOLEAN] : IsFiniteSet(plans)}

\* The cohorts of some plans are finitely many numbers.
LEMMA CohortsAreFinite ==
  ASSUME NEW Words, NEW plans \in AnyPlans(Words), NEW some \in SUBSET plans
  PROVE  LET cohorts == {p.cohort : p \in some}
         IN  cohorts \in SUBSET Nat /\ IsFiniteSet(cohorts)
<1>1. IsFiniteSet(some)
  BY FS_Subset DEF AnyPlans
<1> DEFINE f == [p \in some |-> p.cohort]
           T == {p.cohort : p \in some}
<1>2. IsFiniteSet(T)
  <2>1. f \in Surjection(some, T)
    BY DEF Surjection
  <2> HIDE DEF f, T
  <2> QED
    BY <1>1, <2>1, FS_Surjection
<1> QED
  BY <1>2 DEF AnyPlans

(***************************************************************************)
(* Of any finite set of plans, a student is given one with its semesters,  *)
(* of the year named, or of the track asked whenever any class has one,    *)
(* and of their own class when that one is published (academics.py).       *)
(***************************************************************************)
THEOREM PlanIsOwn ==
  ASSUME NEW Words, NEW plans \in AnyPlans(Words), NEW current \in Nat, NEW standing \in Int,
         NEW years \in SUBSET Nat, NEW words,
         NEW x, x = [plans |-> plans, current |-> current,
                     q |-> [years |-> years, standing |-> standing, words |-> words]]
  PROVE  PlanIsTheirs(x)
<1> DEFINE q == x.q
           asked(p) == p.terms /\ AskedFor(p, words)
           cohorts == {p.cohort : p \in plans}
           named == {y \in years : y \in cohorts}
           class == current - standing
           own == IF named # {} THEN Min(named) ELSE class
           near == IF own \in cohorts THEN own ELSE Max(cohorts)
           tracks == {p \in plans : p.terms /\ AskedFor(p, words)}
           latest == Max({p.cohort : p \in tracks})
           cohort == IF named # {} \/ tracks = {} \/ (\E p \in tracks : p.cohort = near) THEN near
                     ELSE latest
           pool == {p \in plans : p.cohort = cohort /\ p.terms}
           track == {p \in pool : AskedFor(p, words)}
           base == {p \in pool : p.base}
           chosen == ChoosePlan(plans, current, q)
<1>1. chosen = IF plans = {} THEN {} ELSE IF track # {} THEN track ELSE IF base # {} THEN base ELSE pool
  BY Zenon DEF ChoosePlan
<1>2. cohorts \in SUBSET Nat /\ {p.cohort : p \in tracks} \in SUBSET Nat /\ IsFiniteSet({p.cohort : p \in tracks})
  BY CohortsAreFinite
<1>3. tracks # {} => \E p \in tracks : p.cohort = latest
  <2> SUFFICES ASSUME tracks # {} PROVE \E p \in tracks : p.cohort = latest
    OBVIOUS
  <2> HIDE DEF tracks
  <2>1. latest \in {p.cohort : p \in tracks}
    BY <1>2, MaxIsGreatest
  <2> HIDE DEF latest
  <2> QED
    BY <2>1
<1>4. named # {} => near \in years
  <2>1. named \in SUBSET Nat
    BY <1>2
  <2> HIDE DEF named
  <2>2. named # {} => Min(named) \in named
    BY <2>1, MinIsLeast
  <2> QED
    BY <2>2 DEF named
<1>5. named = {} => (class \in cohorts => near = class)
  OBVIOUS
<1> HIDE DEF near, latest
<1>6. (named # {} => cohort = near) /\ (named = {} /\ tracks = {} => cohort = near)
      /\ (named = {} /\ (\E p \in tracks : p.cohort = near) => cohort = near)
      /\ (named = {} /\ tracks # {} => \E p \in tracks : p.cohort = cohort)
  BY <1>3
<1> HIDE DEF cohort, chosen
<1>7. ASSUME NEW p \in chosen
      PROVE  /\ p \in plans /\ p.terms /\ p.cohort = cohort
             /\ track # {} => AskedFor(p, words)
  BY <1>1
<1>8. ASSUME NEW p \in chosen, named # {}
      PROVE  p.cohort \in years
  BY <1>4, <1>6, <1>7, <1>8
<1>9. named = {} /\ tracks # {} => track # {}
  BY <1>6
<1>10. ASSUME NEW p \in chosen, years = {}
       PROVE  /\ (\E o \in plans : asked(o)) => asked(p)
              /\ (\E o \in plans : asked(o) /\ o.cohort = class) => p.cohort = class
              /\ (\A o \in plans : ~asked(o)) /\ (\E o \in plans : o.cohort = class) => p.cohort = class
  <2>1. named = {}
    BY <1>10
  <2>2. (\E o \in plans : asked(o)) => tracks # {}
    OBVIOUS
  <2>3. (\E o \in plans : o.cohort = class) => class \in cohorts
    OBVIOUS
  <2>4. (\E o \in plans : asked(o) /\ o.cohort = class) => cohort = class
    <3> SUFFICES ASSUME NEW o \in plans, asked(o), o.cohort = class PROVE cohort = class
      OBVIOUS
    <3>1. near = class /\ o \in tracks
      BY <1>5, <2>1, <2>3
    <3> HIDE DEF tracks
    <3> QED
      BY <1>6, <2>1, <3>1
  <2>5. (\A o \in plans : ~asked(o)) => tracks = {}
    OBVIOUS
  <2> HIDE DEF cohorts, tracks, named, track, class
  <2>6. (\A o \in plans : ~asked(o)) /\ (\E o \in plans : o.cohort = class) => cohort = class
    BY <1>5, <1>6, <2>1, <2>3, <2>5
  <2> QED
    BY <1>7, <1>9, <2>1, <2>2, <2>4, <2>6
<1>11. years \cap cohorts = named
  OBVIOUS
<1> HIDE DEF named, cohorts, track, tracks, class
<1> QED
  BY <1>7, <1>8, <1>10, <1>11 DEF PlanIsTheirs, chosen, class, cohorts

-----------------------------------------------------------------------------
\* What a line may say of a directory.
LineHolds(directory, l) ==
  /\ l.says \in {"dean", "leads"} => ~l.who.retired
  /\ l.says = "dean" =>
       /\ l.who.school = l.of /\ l.who.title \in {"dean", "interim"}
       /\ l.who.title = "interim" => \A e \in directory : ~(e.school = l.of /\ e.title = "dean" /\ ~e.retired)
  /\ l.says = "no dean" => \A e \in Active(directory) : e.school = l.of => e.title \notin {"dean", "interim"}

\* What is said of the deans of a school is so.
LEMMA DeansHold ==
  ASSUME NEW directory, NEW of, NEW l \in Deans(directory, of)
  PROVE  LineHolds(directory, l) /\ l.says \in {"no dean", "titled", "dean", "also"}
<1> DEFINE found == {e \in Active(directory) : e.school = of /\ e.title \in {"dean", "interim"}}
           permanent == {e \in found : e.title = "dean"}
           lead == IF permanent # {} THEN permanent ELSE found
           named == {e \in Active(directory) : e.school = of /\ e.title = "vice"}
<1>1. Deans(directory, of) =
        IF found = {} THEN {[says |-> "no dean", of |-> of]} \cup {[says |-> "titled", of |-> of, who |-> e] : e \in named}
        ELSE {[says |-> "dean", of |-> of, who |-> e] : e \in lead} \cup
             {[says |-> "also", of |-> of, who |-> e] : e \in found \ lead}
  BY Zenon DEF Deans
<1>2. CASE l = [says |-> "no dean", of |-> of] /\ found = {}
  BY <1>2 DEF LineHolds
<1>3. CASE \E e \in named : l = [says |-> "titled", of |-> of, who |-> e]
  BY <1>3 DEF LineHolds
<1>4. CASE \E e \in lead : l = [says |-> "dean", of |-> of, who |-> e]
  <2>1. PICK e \in lead : l = [says |-> "dean", of |-> of, who |-> e]
    BY <1>4
  <2>2. /\ l.says = "dean" /\ l.of = of /\ l.who = e
        /\ e \in Active(directory) /\ e.school = of /\ e.title \in {"dean", "interim"}
    BY <2>1
  <2>3. ~e.retired
    BY <2>2 DEF Active
  <2>4. e.title = "interim" => permanent = {}
    BY <2>1
  <2>5. permanent = {} => \A d \in directory : ~(d.school = of /\ d.title = "dean" /\ ~d.retired)
    BY DEF Active
  <2> QED
    BY <2>2, <2>3, <2>4, <2>5 DEF LineHolds
<1>5. CASE \E e \in found \ lead : l = [says |-> "also", of |-> of, who |-> e]
  BY <1>5 DEF LineHolds
<1> HIDE DEF found, lead, named
<1> QED
  BY <1>1, <1>2, <1>3, <1>4, <1>5

(***************************************************************************)
(* Whatever the directory lists, no one retired and no vice dean is said   *)
(* to be a dean, an interim one only of a school that has no other, and    *)
(* nobody is said to lead a school or field only when nobody does          *)
(* (people.py).                                                            *)
(***************************************************************************)
THEOREM LeadersAreReal ==
  ASSUME NEW x
  PROVE  LeadersHold(x)
<1> DEFINE directory == x.directory
           own == IF x.dean THEN UNION {Deans(directory, s) : s \in x.named} ELSE {}
           listed == {l.who : l \in {m \in own : "who" \in DOMAIN m}}
           leading == {f \in x.fields : Leading(directory, f) # {}}
           asked == IF \E f \in x.fields : Leading(directory, f) # {} THEN leading ELSE x.fields
           leads(f) == {[says |-> "leads", of |-> f, who |-> e] : e \in Leading(directory, f) \ listed}
           lacking == {f \in asked : leads(f) = {} /\ ~(x.named # {} /\ x.dean)}
           unled(home) == UNION {{[says |-> "none leads", of |-> f]} \cup (UNION {Deans(directory, s) : s \in home[f]}) : f \in lacking}
           lines(home) == own \cup (UNION {leads(f) : f \in asked}) \cup unled(home)
           homes == {h \in [lacking -> SUBSET x.schools] : \A f \in lacking :
                       IF Homes(directory, f) = {} THEN h[f] = {} ELSE \E s \in Homes(directory, f) : h[f] = {s}}
           every == UNION {Deans(directory, s) : s \in x.schools}
<1>1. Leaders(directory, x.schools, x.named, x.fields, x.dean)
        = {IF lines(h) = {} /\ x.dean THEN every ELSE lines(h) : h \in homes}
  BY Zenon DEF Leaders
<1> DEFINE holds(l) == /\ LineHolds(directory, l)
                       /\ l.says = "none leads" => \A f \in x.fields : Leading(directory, f) = {}
<1>2. ASSUME NEW s, NEW l \in Deans(directory, s)
      PROVE  holds(l)
  BY DeansHold
<1>3. ASSUME NEW l \in every
      PROVE  holds(l)
  BY <1>2
<1>4. ASSUME NEW l \in own
      PROVE  holds(l)
  BY <1>2
<1>5. ASSUME NEW f, NEW l \in leads(f)
      PROVE  holds(l)
  <2>1. PICK e \in Leading(directory, f) : l = [says |-> "leads", of |-> f, who |-> e]
    OBVIOUS
  <2>2. l.says = "leads" /\ l.who = e /\ ~e.retired
    BY <2>1 DEF Leading, Active
  <2> QED
    BY <2>2 DEF LineHolds
<1>6. ASSUME NEW f \in lacking
      PROVE  \A g \in x.fields : Leading(directory, g) = {}
  <2>1. own = {}
    BY <1>6
  <2>2. listed = {}
    BY <2>1
  <2>3. leads(f) = {} /\ f \in asked
    BY <1>6
  <2>4. Leading(directory, f) = {}
    <3>1. ASSUME NEW e \in Leading(directory, f)
          PROVE  [says |-> "leads", of |-> f, who |-> e] \in leads(f)
      BY <2>2
    <3> QED
      BY <2>3, <3>1
  <2> QED
    BY <2>3, <2>4
<1>7. ASSUME NEW h \in homes, NEW l \in lines(h)
      PROVE  holds(l)
  <2>1. CASE l \in own
    BY <1>4, <2>1
  <2>2. CASE \E f \in asked : l \in leads(f)
    BY <1>5, <2>2
  <2>3. CASE \E f \in lacking : l = [says |-> "none leads", of |-> f]
    <3>1. PICK f \in lacking : l = [says |-> "none leads", of |-> f]
      BY <2>3
    <3>2. l.says = "none leads"
      BY <3>1
    <3>3. \A g \in x.fields : Leading(directory, g) = {}
      BY <1>6
    <3> HIDE DEF lacking
    <3> QED
      BY <3>2, <3>3 DEF LineHolds
  <2>4. CASE \E f \in lacking : \E s \in h[f] : l \in Deans(directory, s)
    BY <1>2, <2>4
  <2>5. CASE l \in UNION {leads(f) : f \in asked}
    BY <2>2, <2>5
  <2>6. CASE l \in unled(h)
    <3>1. PICK f \in lacking :
            l \in {[says |-> "none leads", of |-> f]} \cup (UNION {Deans(directory, s) : s \in h[f]})
      BY <2>6
    <3> HIDE DEF lacking, holds
    <3> QED
      BY <2>3, <2>4, <3>1
  <2> HIDE DEF own, asked, leads, lacking, homes, holds, unled
  <2> QED
    BY <1>7, <2>1, <2>5, <2>6
<1> HIDE DEF unled
<1> HIDE DEF lines, every, homes, holds
<1>8. \A ls \in Leaders(directory, x.schools, x.named, x.fields, x.dean) : \A l \in ls : holds(l)
  BY <1>1, <1>3, <1>7
<1> QED
  BY <1>8 DEF LeadersHold, holds, LineHolds

-----------------------------------------------------------------------------
\* Any finite directory, each of whose entries says finitely many words of someone.
AnyPeople(Ids, Words) ==
  {people \in SUBSET [id : Ids, first : Words, last : SUBSET Words,
                      about : {a \in SUBSET Words : IsFiniteSet(a)}] : IsFiniteSet(people)}

\* Some of a set is all of it when it is small enough.
LEMMA SomeOf ==
  ASSUME NEW n \in Nat, NEW S, IsFiniteSet(S), NEW s \in Some(n, S)
  PROVE  s \subseteq S /\ IsFiniteSet(s) /\ (Cardinality(S) <= n => s = S)
<1>1. Cardinality(S) \in Nat
  BY FS_CardinalityType
<1>2. s \subseteq S /\ (Cardinality(S) <= n => s = S)
  BY <1>1 DEF Some, kSubset
<1> QED
  BY <1>2, FS_Subset

\* People found are people listed, each once.
LEMMA AsIs ==
  ASSUME NEW people, NEW near
  PROVE  /\ \A f \in As(people, near) : f.who \in people /\ f.near = near
         /\ \A p \in people : \E f \in As(people, near) : f.who = p
         /\ IsFiniteSet(people) => /\ IsFiniteSet(As(people, near))
                                 /\ Cardinality(As(people, near)) <= Cardinality(people)
<1> DEFINE made == [p \in people |-> [who |-> p, near |-> near]]
           T == As(people, near)
<1>1. made \in Surjection(people, T)
  BY DEF As, Surjection
<1>2. IsFiniteSet(people) => IsFiniteSet(T) /\ Cardinality(T) <= Cardinality(people)
  <2> HIDE DEF made, T
  <2> QED
    BY <1>1, FS_Surjection
<1>3. \A f \in As(people, near) : f.who \in people /\ f.near = near
  BY DEF As
<1>4. ASSUME NEW p \in people
      PROVE  \E f \in As(people, near) : f.who = p
  <2>1. [who |-> p, near |-> near] \in As(people, near)
    BY DEF As
  <2> QED
    BY <2>1
<1> QED
  BY <1>2, <1>3, <1>4

\* Whose name, alone among all, the words say.
OnlyTheirs(people, words, who) ==
  \E k \in Keys(who) : k \subseteq words /\ Owners(people, k) = {who}

\* A name said is in the words.
LEMMA SaidIs ==
  ASSUME NEW people, NEW words, NEW q, NEW k \in Said(people, words, q)
  PROVE  k \subseteq words
<1> DEFINE usable == IF q.cued THEN words ELSE IF q.ordinary = {} THEN {} ELSE words \ q.ordinary
<1>1. k \subseteq usable
  BY DEF Said
<1>2. usable \subseteq words
  OBVIOUS
<1> HIDE DEF usable
<1> QED
  BY <1>1, <1>2

\* What a last name finds: those it is alone, all who share one, or near spellings of it.
LEMMA LastNamesWays ==
  ASSUME MaxPeople \in Nat, NEW Ids, NEW Words, NEW people \in AnyPeople(Ids, Words),
         NEW words, NEW q, NEW r \in LastNames(people, words, q)
  PROVE  \/ IsFiniteSet(r) /\ \A f \in r : ~f.near /\ f.who \in people /\ OnlyTheirs(people, words, f.who)
         \/ \E k : k \subseteq words /\ r = As(Owners(people, k), FALSE)
         \/ IsFiniteSet(r) /\ \A f \in r : f.near /\ f.who \in people /\ Said(people, words, q) = {}
<1> DEFINE said == Said(people, words, q)
           alone == UNION {Owners(people, k) : k \in {j \in said : Cardinality(Owners(people, j)) = 1}}
           shared == {k \in said : Cardinality(Owners(people, k)) <= MaxPeople}
           widest == {k \in shared : \A j \in shared : Cardinality(j) <= Cardinality(k)}
<1>1. LastNames(people, words, q) =
        IF alone # {} THEN {As(s, FALSE) : s \in Some(MaxPeople, alone)}
        ELSE IF shared # {} THEN {As(Owners(people, k), FALSE) : k \in widest}
        ELSE IF said = {} /\ q.cued THEN NearNames(people, words, q) ELSE {{}}
  BY Zenon DEF LastNames
<1>2. IsFiniteSet(people) /\ \A k : Owners(people, k) \subseteq people /\ IsFiniteSet(Owners(people, k))
  BY FS_Subset DEF AnyPeople, Owners
<1>3. alone \subseteq people /\ IsFiniteSet(alone)
  <2>1. alone \subseteq people
    BY <1>2
  <2> HIDE DEF alone
  <2> QED
    BY <1>2, <2>1, FS_Subset
<1>4. ASSUME NEW who \in alone
      PROVE  who \in people /\ OnlyTheirs(people, words, who)
  <2>1. PICK k \in said : who \in Owners(people, k) /\ Cardinality(Owners(people, k)) = 1
    OBVIOUS
  <2>2. Owners(people, k) = {who}
    BY <1>2, <2>1, FS_Singleton
  <2>3. k \subseteq words
    BY SaidIs
  <2>4. who \in people /\ k \in Keys(who)
    BY <2>1 DEF Owners
  <2> QED
    BY <2>2, <2>3, <2>4 DEF OnlyTheirs
<1>5. CASE \E s \in Some(MaxPeople, alone) : r = As(s, FALSE)
  <2> HIDE DEF alone
  <2>1. PICK s \in Some(MaxPeople, alone) : r = As(s, FALSE)
    BY <1>5
  <2>2. s \subseteq alone /\ IsFiniteSet(s)
    BY <1>3, SomeOf
  <2> QED
    BY <1>4, <2>1, <2>2, AsIs
<1>6. CASE \E k \in said : r = As(Owners(people, k), FALSE)
  BY <1>6, SaidIs
<1>7. CASE said = {} /\ r \in NearNames(people, words, q)
  <2> DEFINE near == {p \in people : \E w \in words \ q.ordinary : <<w, p.id>> \in q.near}
             first == {p \in near : p.first \in words \ q.ordinary}
             some == IF first # {} THEN first ELSE near
  <2>1. NearNames(people, words, q) = {As(s, TRUE) : s \in Some(MaxPeople, some)}
    BY Zenon DEF NearNames
  <2>2. some \subseteq people
    OBVIOUS
  <2> HIDE DEF some
  <2>3. IsFiniteSet(some)
    BY <1>2, <2>2, FS_Subset
  <2>4. PICK s \in Some(MaxPeople, some) : r = As(s, TRUE)
    BY <1>7, <2>1
  <2>6. IsFiniteSet(s) /\ s \subseteq some
    BY <2>3, SomeOf
  <2> QED
    BY <1>7, <2>2, <2>4, <2>6, AsIs
<1>8. CASE r = {}
  BY <1>8, FS_EmptySet
<1> HIDE DEF said, alone, shared
<1>9. widest \subseteq said
  BY DEF shared
<1> HIDE DEF widest
<1> QED
  BY <1>1, <1>5, <1>6, <1>7, <1>8, <1>9

\* What may have been found of a name: those it is alone, all who share it or who were
\* named in full beside them, or near spellings of a name nobody has.
LEMMA FindPeopleWays ==
  ASSUME MaxPeople \in Nat, NEW Ids, NEW Words, NEW people \in AnyPeople(Ids, Words),
         NEW q, NEW found \in FindPeople(people, q)
  PROVE  /\ IsFiniteSet(found)
         /\ \A f \in found : f.who \in people
         /\ \A f \in found : f.near => Said(people, q.words, q) = {}
         /\ \A f \in found : ~f.near /\ ~(NameOf(f.who) \subseteq q.words) =>
              \E k \in Keys(f.who) :
                /\ k \subseteq q.words
                /\ \A p \in Owners(people, k) :
                     \/ p \in {g.who : g \in found}
                     \/ Cardinality(Whole(people, q)) + Cardinality(Owners(people, k)) > MaxPeople
<1> DEFINE whole == Whole(people, q)
           beside(r) == {f \in r : ~f.near /\ f.who \notin whole}
           left == q.words \ UNION {NameOf(p) : p \in whole}
           n == MaxPeople - Cardinality(whole)
           passed(f) == \E k \in Keys(f.who) :
                /\ k \subseteq q.words
                /\ \A p \in Owners(people, k) :
                     \/ p \in {g.who : g \in found}
                     \/ Cardinality(Whole(people, q)) + Cardinality(Owners(people, k)) > MaxPeople
<1>1. FindPeople(people, q) =
        IF whole = {} THEN LastNames(people, q.words, q)
        ELSE IF Cardinality(whole) >= MaxPeople THEN {As(s, FALSE) : s \in Some(MaxPeople, whole)}
        ELSE UNION {{As(whole, FALSE) \cup s : s \in Some(n, beside(r))} : r \in LastNames(people, left, q)}
  BY Zenon DEF FindPeople
<1>2. /\ IsFiniteSet(people) /\ IsFiniteSet(whole) /\ Cardinality(whole) \in Nat
      /\ \A k : IsFiniteSet(Owners(people, k)) /\ Owners(people, k) \subseteq people /\ Cardinality(Owners(people, k)) \in Nat
  <2>1. IsFiniteSet(people)
    BY DEF AnyPeople
  <2>2. whole \subseteq people /\ \A k : Owners(people, k) \subseteq people
    BY DEF Whole, Owners
  <2> HIDE DEF whole
  <2>3. IsFiniteSet(whole) /\ \A k : IsFiniteSet(Owners(people, k))
    BY <2>1, <2>2, FS_Subset
  <2> QED
    BY <2>1, <2>2, <2>3, FS_CardinalityType
<1>3. \A p \in whole : p \in people /\ NameOf(p) \subseteq q.words
  BY DEF Whole
<1>4. \A f, k : k \in Keys(f.who) /\ k \subseteq q.words /\ Owners(people, k) = {f.who} /\ f \in found => passed(f)
  OBVIOUS
<1>5. \A f \in found : OnlyTheirs(people, q.words, f.who) => passed(f)
  BY <1>4 DEF OnlyTheirs
<1>6. CASE whole = {}
  <2>1. found \in LastNames(people, q.words, q)
    BY <1>1, <1>6
  <2>2. CASE IsFiniteSet(found) /\ \A f \in found : ~f.near /\ f.who \in people /\ OnlyTheirs(people, q.words, f.who)
    BY <1>5, <2>2
  <2>3. CASE \E k : k \subseteq q.words /\ found = As(Owners(people, k), FALSE)
    <3>1. PICK k : k \subseteq q.words /\ found = As(Owners(people, k), FALSE)
      BY <2>3
    <3> DEFINE owners == Owners(people, k)
    <3>2. /\ IsFiniteSet(found) /\ \A f \in found : f.who \in owners /\ f.near = FALSE
          /\ \A p \in owners : \E g \in found : g.who = p
      <4>1. IsFiniteSet(owners) /\ found = As(owners, FALSE)
        BY <1>2, <3>1
      <4> HIDE DEF owners
      <4> DEFINE all == As(owners, FALSE)
      <4>2. /\ IsFiniteSet(all) /\ \A f \in all : f.who \in owners /\ f.near = FALSE
            /\ \A p \in owners : \E g \in all : g.who = p
        BY <4>1, AsIs
      <4>3. found = all
        BY <4>1
      <4> HIDE DEF all
      <4> QED
        BY <4>2, <4>3
    <3>3. \A p \in Owners(people, k) : p \in {g.who : g \in found}
      BY <3>2
    <3>4. \A f \in found : f.who \in people /\ k \in Keys(f.who)
      BY <3>2 DEF Owners
    <3> QED
      BY <3>1, <3>2, <3>3, <3>4
  <2>4. CASE IsFiniteSet(found) /\ \A f \in found : f.near /\ f.who \in people /\ Said(people, q.words, q) = {}
    BY <2>4
  <2> QED
    BY <2>1, <2>2, <2>3, <2>4, LastNamesWays

<1>7. CASE whole # {} /\ Cardinality(whole) >= MaxPeople
  <2>1. PICK s \in Some(MaxPeople, whole) : found = As(s, FALSE)
    BY <1>1, <1>7
  <2> HIDE DEF whole
  <2>2. s \subseteq whole /\ IsFiniteSet(s)
    BY <1>2, SomeOf
  <2>3. IsFiniteSet(found) /\ \A f \in found : f.who \in whole /\ f.near = FALSE
    BY <2>1, <2>2, AsIs
  <2> QED
    BY <1>3, <2>3
<1>8. CASE whole # {} /\ ~(Cardinality(whole) >= MaxPeople)
  <2>1. PICK r \in LastNames(people, left, q) :
          \E s \in Some(n, beside(r)) : found = As(whole, FALSE) \cup s
    <3>1. found \in UNION {{As(whole, FALSE) \cup s : s \in Some(n, beside(r))} : r \in LastNames(people, left, q)}
      BY <1>1, <1>8
    <3> HIDE DEF whole, left, n, beside
    <3> QED
      BY <3>1
  <2>2. PICK s \in Some(n, beside(r)) : found = As(whole, FALSE) \cup s
    BY <2>1
  <2>3. left \subseteq q.words /\ n \in Nat /\ beside(r) \subseteq r
    BY <1>2, <1>8
  <2> HIDE DEF left
  <2>4. /\ IsFiniteSet(As(whole, FALSE))
        /\ \A f \in As(whole, FALSE) : f.near = FALSE /\ f.who \in people /\ NameOf(f.who) \subseteq q.words
        /\ \A p \in whole : \E g \in As(whole, FALSE) : g.who = p
    BY <1>2, <1>3, AsIs
  <2>5. \A f \in beside(r) : ~f.near
    OBVIOUS
  <2>6. CASE IsFiniteSet(r) /\ \A f \in r : ~f.near /\ f.who \in people /\ OnlyTheirs(people, left, f.who)
    <3>1. s \subseteq r /\ IsFiniteSet(s)
      <4> DEFINE b == beside(r)
      <4> HIDE DEF b
      <4>1. b \subseteq r /\ s \in Some(n, b)
        BY <2>3 DEF b
      <4> QED
        BY <2>3, <2>6, <4>1, SomeOf, FS_Subset
    <3>2. IsFiniteSet(found)
      BY <2>2, <2>4, <3>1, FS_Union
    <3>3. \A f \in s : ~f.near /\ f.who \in people /\ OnlyTheirs(people, q.words, f.who)
      BY <2>3, <2>6, <3>1 DEF OnlyTheirs
    <3>4. \A f \in s : passed(f)
      BY <1>5, <2>2, <3>3
    <3> HIDE DEF passed
    <3>5. \A f \in found : f \in s \/ f \in As(whole, FALSE)
      BY <2>2
    <3>6. \A f \in found : ~f.near /\ f.who \in people /\ (~(NameOf(f.who) \subseteq q.words) => passed(f))
      BY <2>4, <3>3, <3>4, <3>5
    <3> QED
      BY <3>2, <3>6 DEF passed
  <2>7. CASE \E k : k \subseteq left /\ r = As(Owners(people, k), FALSE)
    <3>1. PICK k : k \subseteq left /\ r = As(Owners(people, k), FALSE)
      BY <2>7
    <3>2. /\ IsFiniteSet(r) /\ Cardinality(r) <= Cardinality(Owners(people, k))
          /\ \A f \in r : f.near = FALSE /\ f.who \in Owners(people, k)
          /\ \A p \in Owners(people, k) : \E g \in r : g.who = p
      <4> DEFINE owners == Owners(people, k)
      <4>1. IsFiniteSet(owners) /\ r = As(owners, FALSE)
        BY <1>2, <3>1
      <4> HIDE DEF owners
      <4>2. /\ IsFiniteSet(r) /\ Cardinality(r) <= Cardinality(owners)
            /\ \A f \in r : f.near = FALSE /\ f.who \in owners
            /\ \A p \in owners : \E g \in r : g.who = p
        <5> DEFINE all == As(owners, FALSE)
        <5>1. /\ IsFiniteSet(all) /\ Cardinality(all) <= Cardinality(owners)
              /\ \A f \in all : f.near = FALSE /\ f.who \in owners
              /\ \A p \in owners : \E g \in all : g.who = p
          BY <4>1, AsIs
        <5>2. r = all
          BY <4>1
        <5> HIDE DEF all
        <5> QED
          BY <5>1, <5>2
      <4> QED
        BY <4>2 DEF owners
    <3> DEFINE b == beside(r)
    <3>3. \A p \in Owners(people, k) : p \in whole \/ \E g \in b : g.who = p
      BY <3>2
    <3>4. b \subseteq r /\ s \in Some(n, b)
      BY <2>3
    <3> HIDE DEF b
    <3>5. IsFiniteSet(b) /\ Cardinality(b) <= Cardinality(r) /\ Cardinality(b) \in Nat /\ Cardinality(r) \in Nat
      BY <3>2, <3>4, FS_Subset, FS_CardinalityType
    <3>6. s \subseteq b /\ IsFiniteSet(s) /\ (Cardinality(b) <= n => s = b)
      BY <2>3, <3>4, <3>5, SomeOf
    <3>7. IsFiniteSet(found)
      BY <2>2, <2>4, <3>6, FS_Union
    <3>8. ASSUME NEW p \in Owners(people, k)
          PROVE  \/ p \in {g.who : g \in found}
                 \/ Cardinality(whole) + Cardinality(Owners(people, k)) > MaxPeople
      <4>1. CASE Cardinality(b) <= n
        BY <2>2, <2>4, <3>3, <3>6, <4>1
      <4>2. CASE ~(Cardinality(b) <= n)
        <5>1. Cardinality(Owners(people, k)) > n
          <6> HIDE DEF n
          <6> QED
            BY <1>2, <2>3, <3>2, <3>5, <4>2
        <5> QED
          BY <1>2, <5>1
      <4> QED
        BY <4>1, <4>2
    <3>9. \A f \in s : ~f.near /\ f.who \in people /\ k \in Keys(f.who)
      BY <3>2, <3>4, <3>6 DEF Owners
    <3>10. k \subseteq q.words
      BY <2>3, <3>1
    <3>11. \A f \in found : f \in s \/ f \in As(whole, FALSE)
      BY <2>2
    <3> HIDE DEF whole
    <3>12. \A f \in s : passed(f)
      BY <3>8, <3>9, <3>10 DEF whole
    <3> HIDE DEF passed
    <3>13. \A f \in found : ~f.near /\ f.who \in people /\ (~(NameOf(f.who) \subseteq q.words) => passed(f))
      BY <2>4, <3>9, <3>11, <3>12
    <3> QED
      BY <3>7, <3>13 DEF passed
  <2>8. CASE IsFiniteSet(r) /\ \A f \in r : f.near /\ f.who \in people /\ Said(people, left, q) = {}
    <3>1. beside(r) = {}
      BY <2>8
    <3>2. s = {}
      <4> DEFINE b == beside(r)
      <4> HIDE DEF b
      <4>1. b = {} /\ s \in Some(n, b)
        BY <3>1 DEF b
      <4> QED
        BY <2>3, <4>1, SomeOf, FS_EmptySet
    <3>3. found = As(whole, FALSE)
      BY <2>2, <3>2
    <3> QED
      BY <2>4, <3>3
  <2> QED
    BY <2>6, <2>7, <2>8, LastNamesWays
<1> QED
  BY <1>6, <1>7, <1>8

\* Of those found, the ones set aside share a last name with the ones kept, and less was
\* said of them.
LEMMA NarrowSetsAside ==
  ASSUME NEW Ids, NEW Words, NEW people \in AnyPeople(Ids, Words), NEW words,
         NEW found, IsFiniteSet(found), \A f \in found : f.who \in people
  PROVE  /\ Narrow(found, words) \subseteq found
         /\ \A f \in Narrow(found, words) : \A g \in found \ Narrow(found, words) :
              Score(g, words) < Score(f, words) /\ g.who.last = f.who.last
<1> DEFINE scores == {Score(f, words) : f \in found}
           best == Max(scores)
           kept == Narrow(found, words)
           lasts == {f.who.last : f \in found}
<1>1. kept = IF Cardinality(found) < 2 \/ ~OneName(found) \/ best = 0 THEN found
             ELSE {f \in found : Score(f, words) = best}
  BY Zenon DEF Narrow
<1>2. \A f \in found : Score(f, words) \in Nat
  <2> SUFFICES ASSUME NEW f \in found PROVE Score(f, words) \in Nat
    OBVIOUS
  <2>1. IsFiniteSet(f.who.about)
    BY DEF AnyPeople
  <2>2. IsFiniteSet((f.who.about \ NameOf(f.who)) \cap words)
    BY <2>1, FS_Subset
  <2> QED
    BY <2>2, FS_CardinalityType DEF Score
<1>3. scores \in SUBSET Nat /\ IsFiniteSet(scores)
  <2> DEFINE scored == [f \in found |-> Score(f, words)]
  <2>1. scored \in Surjection(found, scores)
    BY DEF Surjection
  <2>2. scores \in SUBSET Nat
    BY <1>2
  <2> HIDE DEF scored, scores
  <2> QED
    BY <2>1, <2>2, FS_Surjection
<1>4. \A f \in found : best >= Score(f, words)
  <2> SUFFICES ASSUME NEW f \in found PROVE best >= Score(f, words)
    OBVIOUS
  <2>1. Score(f, words) \in scores
    OBVIOUS
  <2> HIDE DEF scores
  <2> QED
    BY <1>3, <2>1, MaxIsGreatest
<1>5. best \in Nat \/ found = {}
  <2>1. found # {} => scores # {}
    OBVIOUS
  <2> HIDE DEF scores
  <2> QED
    BY <1>3, <2>1, MaxIsGreatest
<1>6. kept \subseteq found
  BY <1>1
<1>7. ASSUME NEW f \in kept, NEW g \in found \ kept
      PROVE  Score(g, words) < Score(f, words) /\ g.who.last = f.who.last
  <2>1. /\ OneName(found) /\ Score(f, words) = best /\ Score(g, words) # best
        /\ f \in found /\ g \in found
    <3> HIDE DEF best
    <3> QED
      BY <1>1, <1>7
  <2>2. f.who.last \in lasts /\ g.who.last \in lasts
    BY <2>1
  <2>3. Cardinality(lasts) = 1
    BY <2>1 DEF OneName
  <2>4. IsFiniteSet(lasts)
    <3> DEFINE named == [h \in found |-> h.who.last]
    <3>1. named \in Surjection(found, lasts)
      BY DEF Surjection
    <3> HIDE DEF named, lasts
    <3> QED
      BY <3>1, FS_Surjection
  <2>5. PICK l : lasts = {l}
    <3> HIDE DEF lasts
    <3> QED
      BY <2>3, <2>4, FS_Singleton
  <2>6. f.who.last = g.who.last
    <3> HIDE DEF lasts
    <3> QED
      BY <2>2, <2>5
  <2> HIDE DEF best
  <2>7. Score(g, words) < Score(f, words)
    BY <1>2, <1>4, <1>5, <2>1
  <2> QED
    BY <2>6, <2>7
<1> HIDE DEF kept
<1> QED
  BY <1>6, <1>7 DEF kept

(***************************************************************************)
(* In any finite directory, a person is answered for only when the words   *)
(* say their name: everyone who shares it was found too unless they were   *)
(* more than can be asked about, a near spelling is asked back and never   *)
(* assumed, and whoever is set aside has the same last name and less said  *)
(* of them (people.py).                                                    *)
(***************************************************************************)
THEOREM NobodyIsPassedOver ==
  ASSUME MaxPeople \in Nat, NEW Ids, NEW Words, NEW x, x.people \in AnyPeople(Ids, Words)
  PROVE  NobodyPassedOver(x)
<1> SUFFICES ASSUME NEW found \in FindPeople(x.people, x.q),
                    NEW f \in Answers(Narrow(found, x.q.words)).said
             PROVE  LET kept == Narrow(found, x.q.words)
                        got == Answers(kept)
                    IN  /\ f.near => f \in got.ask /\ Said(x.people, x.q.words, x.q) = {}
                        /\ ~f.near /\ ~(NameOf(f.who) \subseteq x.q.words) =>
                             \E k \in Keys(f.who) :
                               /\ k \subseteq x.q.words
                               /\ \A p \in Owners(x.people, k) :
                                    \/ p \in {g.who : g \in found}
                                    \/ Cardinality(Whole(x.people, x.q)) + Cardinality(Owners(x.people, k)) > MaxPeople
                        /\ \A g \in found \ kept : Score(g, x.q.words) < Score(f, x.q.words) /\ g.who.last = f.who.last
  BY DEF NobodyPassedOver
<1> DEFINE kept == Narrow(found, x.q.words)
           got == Answers(kept)
<1>1. IsFiniteSet(found) /\ \A g \in found : g.who \in x.people
  BY FindPeopleWays
<1>2. /\ kept \subseteq found
      /\ \A h \in kept : \A g \in found \ kept : Score(g, x.q.words) < Score(h, x.q.words) /\ g.who.last = h.who.last
  BY <1>1, NarrowSetsAside
<1> HIDE DEF kept
<1>3. f \in kept /\ (f.near => f \in got.ask)
  BY DEF Answers, kept
<1> HIDE DEF got
<1>4. f \in found
  BY <1>2, <1>3
<1>5. f.near => Said(x.people, x.q.words, x.q) = {}
  BY <1>4, FindPeopleWays
<1>6. ~f.near /\ ~(NameOf(f.who) \subseteq x.q.words) =>
        \E k \in Keys(f.who) :
          /\ k \subseteq x.q.words
          /\ \A p \in Owners(x.people, k) :
               \/ p \in {g.who : g \in found}
               \/ Cardinality(Whole(x.people, x.q)) + Cardinality(Owners(x.people, k)) > MaxPeople
  BY <1>4, FindPeopleWays
<1> QED
  BY <1>2, <1>3, <1>5, <1>6 DEF kept, got

-----------------------------------------------------------------------------
\* Dates.
\* Any calendar: finitely many entries, each on a day and listed for some terms.
AnyDates(Ids, Names) ==
  {dates \in SUBSET [id : Ids, at : Nat, last : Nat, kind : Names, names : SUBSET Names, terms : SUBSET Names] :
     IsFiniteSet(dates)}

\* Of some entries, there is one on the first of their days, and one on the last.
LEMMA EndsOf ==
  ASSUME NEW Ids, NEW Names, NEW dates \in AnyDates(Ids, Names), NEW some \in SUBSET dates, some # {}
  PROVE  /\ \E e \in some : \A f \in some : e.at <= f.at
         /\ \E e \in some : \A f \in some : f.at <= e.at
         /\ \E e \in some : e.at = Max({f.at : f \in some})
         /\ \A e \in some : e.at <= Max({f.at : f \in some})
<1> DEFINE days == {e.at : e \in some}
           day == [e \in some |-> e.at]
<1>1. IsFiniteSet(some)
  BY FS_Subset DEF AnyDates
<1>2. day \in Surjection(some, days)
  BY DEF Surjection
<1>3. days \in SUBSET Nat /\ days # {}
  BY DEF AnyDates
<1>4. IsFiniteSet(days)
  <2> HIDE DEF day, days
  <2> QED
    BY <1>1, <1>2, FS_Surjection
<1>5. \A e \in some : e.at \in days
  OBVIOUS
<1>6. \A d \in days : \E e \in some : e.at = d
  OBVIOUS
<1> HIDE DEF days, day
<1>7. PICK a \in days : \A b \in days : a <= b
  BY <1>3, LeastNumber
<1>8. Max(days) \in days /\ \A b \in days : Max(days) >= b
  BY <1>3, <1>4, MaxIsGreatest
<1>9. \A e \in some : e.at <= Max(days)
  BY <1>3, <1>5, <1>8
<1>10. PICK e \in some : e.at = Max(days)
  BY <1>6, <1>8
<1>11. PICK f \in some : f.at = a
  BY <1>6
<1> QED
  BY <1>5, <1>7, <1>9, <1>10, <1>11 DEF days

\* A term's last day is one of an entry of its own, and none of its entries is later.
LEMMA LastDayIs ==
  ASSUME NEW Ids, NEW Names, NEW dates \in AnyDates(Ids, Names), NEW t, Of(t, dates) # {}
  PROVE  /\ \E e \in Of(t, dates) : e.at = LastDay(t, dates)
         /\ \A e \in Of(t, dates) : e.at <= LastDay(t, dates)
<1>1. Of(t, dates) \subseteq dates
  BY DEF Of
<1> DEFINE own == Of(t, dates)
<1>2. /\ \E e \in own : e.at = Max({f.at : f \in own})
      /\ \A e \in own : e.at <= Max({f.at : f \in own})
  <2> HIDE DEF own
  <2> QED
    BY <1>1, EndsOf DEF own
<1> QED
  BY <1>2 DEF LastDay

\* The semesters around a break, and the days that bound it.
LEMMA BetweenIs ==
  ASSUME NEW Ids, NEW Names, NEW dates \in AnyDates(Ids, Names), NEW terms, NEW today \in Nat,
         NEW season \in DOMAIN BETWEEN, NEW b \in BetweenTerms(season, terms, dates, today)
  PROVE  /\ b.ending.season = BETWEEN[season].before /\ b.starting.season = BETWEEN[season].after
         /\ FirstDay(b.starting, dates) >= today
         /\ b.first \in Of(b.ending, dates) /\ b.last \in Of(b.starting, dates)
         /\ \A e \in Of(b.ending, dates) : e.kind = "classes_end" => e.at <= b.first.at
         /\ \A e \in b.entries : e \in {b.first, b.last} \/ (b.first.at < e.at /\ e.at < b.last.at)
         /\ \A e \in b.entries : e \in dates
<1> DEFINE dated == Dated(terms, dates)
           starting == Earliest({t \in dated : t.season = BETWEEN[season].after /\ FirstDay(t, dates) >= today}, dates)
           before(s) == Latest({t \in dated : t.season = BETWEEN[season].before /\ LastDay(t, dates) <= FirstDay(s, dates)}, dates)
           ends(t) == {e \in Of(t, dates) : e.kind = "classes_end"}
           begins(t) == {e \in Of(t, dates) : e.kind = "classes_begin"}
           bound(t, s) == [ending |-> t, starting |-> s,
                           ends |-> CHOOSE e \in ends(t) : \A f \in ends(t) : f.at <= e.at,
                           begins |-> CHOOSE e \in begins(s) : \A f \in begins(s) : e.at <= f.at]
           bounds == {bound(p[1], p[2]) : p \in {p \in (UNION {before(s) : s \in starting}) \X starting :
                                                   ends(p[1]) # {} /\ begins(p[2]) # {}}}
           made(c) == [ending |-> c.ending, starting |-> c.starting, first |-> c.ends, last |-> c.begins,
                       entries |-> {c.ends, c.begins} \cup
                         {e \in dates : e.kind = "classes_begin" /\ c.ends.at < e.at /\ e.at < c.begins.at}]
<1>1. BetweenTerms(season, terms, dates, today) = {made(c) : c \in bounds}
  BY Zenon DEF BetweenTerms
<1> HIDE DEF bounds
<1>2. PICK c \in bounds : b = made(c)
  BY <1>1
<1> USE DEF bounds
<1>3. PICK t \in UNION {before(s) : s \in starting}, s \in starting : c = bound(t, s) /\ ends(t) # {} /\ begins(s) # {}
  <2> HIDE DEF bound, starting, before, ends, begins
  <2> QED
    BY <1>2
<1>4. t.season = BETWEEN[season].before
  BY DEF Latest
<1>5. s.season = BETWEEN[season].after /\ FirstDay(s, dates) >= today
  BY DEF Earliest
<1>6. ends(t) \in SUBSET dates /\ begins(s) \in SUBSET dates
  BY DEF Of
<1>7. c.ends \in ends(t) /\ \A f \in ends(t) : f.at <= c.ends.at
  <2> HIDE DEF ends
  <2>1. \E e \in ends(t) : \A f \in ends(t) : f.at <= e.at
    BY <1>3, <1>6, EndsOf
  <2>2. c.ends = CHOOSE e \in ends(t) : \A f \in ends(t) : f.at <= e.at
    BY <1>3
  <2> QED
    BY <2>1, <2>2
<1>8. c.begins \in begins(s)
  <2> HIDE DEF begins
  <2>1. \E e \in begins(s) : \A f \in begins(s) : e.at <= f.at
    BY <1>3, <1>6, EndsOf
  <2>2. c.begins = CHOOSE e \in begins(s) : \A f \in begins(s) : e.at <= f.at
    BY <1>3
  <2> QED
    BY <2>1, <2>2
<1>9. c.ending = t /\ c.starting = s
  BY <1>3
<1>10. b.ending = t /\ b.starting = s /\ b.first = c.ends /\ b.last = c.begins
  BY <1>2, <1>9
<1>11. b.entries = {c.ends, c.begins} \cup
         {e \in dates : e.kind = "classes_begin" /\ c.ends.at < e.at /\ e.at < c.begins.at}
  BY <1>2
<1>12. \A e \in Of(t, dates) : e.kind = "classes_end" => e.at <= b.first.at
  BY <1>7, <1>10
<1>13. b.first \in Of(t, dates) /\ b.last \in Of(s, dates)
  BY <1>7, <1>8, <1>10
<1>14. b.first \in dates /\ b.last \in dates
  BY <1>6, <1>7, <1>8, <1>10
<1> HIDE DEF starting, before, ends, begins, bound, bounds, made
<1> QED
  BY <1>4, <1>5, <1>10, <1>11, <1>12, <1>13, <1>14

(***************************************************************************)
(* On any calendar, a break lies between the last classes of a semester    *)
(* and the first of the next one, and the break named is one still to      *)
(* start (academic_calendar.py).                                           *)
(***************************************************************************)
THEOREM BreaksStayFree ==
  ASSUME NEW Ids, NEW Names, NEW x, x.dates \in AnyDates(Ids, Names), x.today \in Nat
  PROVE  BreaksAreFree(x)
<1> SUFFICES ASSUME NEW s \in DOMAIN BETWEEN, NEW b \in BetweenTerms(s, x.terms, x.dates, x.today)
             PROVE  /\ b.first.at <= LastDay(b.ending, x.dates) /\ FirstDay(b.starting, x.dates) >= x.today
                    /\ b.ending.season # b.starting.season
                    /\ \A e \in Of(b.ending, x.dates) : e.kind = "classes_end" => e.at <= b.first.at
                    /\ b.first.at < b.last.at => \A e \in b.entries : b.first.at <= e.at /\ e.at <= b.last.at
  BY DEF BreaksAreFree
<1>1. BETWEEN[s].before # BETWEEN[s].after
  BY DEF BETWEEN
<1>2. /\ b.ending.season = BETWEEN[s].before /\ b.starting.season = BETWEEN[s].after
      /\ FirstDay(b.starting, x.dates) >= x.today
      /\ b.first \in Of(b.ending, x.dates) /\ b.last \in Of(b.starting, x.dates)
      /\ \A e \in Of(b.ending, x.dates) : e.kind = "classes_end" => e.at <= b.first.at
      /\ \A e \in b.entries : e \in {b.first, b.last} \/ (b.first.at < e.at /\ e.at < b.last.at)
      /\ \A e \in b.entries : e \in x.dates
  BY BetweenIs
<1>3. b.first.at <= LastDay(b.ending, x.dates)
  BY <1>2, LastDayIs
<1>4. b.first.at \in Nat /\ b.last.at \in Nat /\ \A e \in b.entries : e.at \in Nat
  BY <1>2 DEF AnyDates, Of
<1>5. b.first.at < b.last.at => \A e \in b.entries : b.first.at <= e.at /\ e.at <= b.last.at
  BY <1>2, <1>4
<1> QED
  BY <1>1, <1>2, <1>3, <1>5

\* An answer about dates says nothing but the entries of a term of those asked, or of the
\* two around a break.
AskedOf(x, t) == EntriesAsked(x.q.kind, x.q.names, t, x.dates)
StatedOf(x, a, t) ==
  /\ a.terms = {t}
  /\ a.entries # {} \/ ~a.listed
  /\ a.listed => \A m \in a.entries : m.entry \in AskedOf(x, t)
  /\ ~a.listed => x.q.kind = "break"
  /\ \A m \in a.entries : m.passed <=> m.entry.last < x.today
  /\ a.listed => \A e \in AskedOf(x, t) : e.last >= x.today => \E m \in a.entries : ~m.passed

\* One answer: some entries, each passed or not.
Answered(c, t, some, listed, today) ==
  /\ c.terms = t /\ c.listed = listed
  /\ \A m \in c.entries : m.entry \in some /\ (m.passed <=> m.entry.last < today)
  /\ \A e \in some : \E m \in c.entries : m.entry = e

LEMMA AnsweredIs ==
  ASSUME NEW t, NEW some, NEW listed, NEW today, NEW c,
         c \in {[terms |-> t, listed |-> listed, entries |-> {[entry |-> e, passed |-> e.last < today] : e \in some}]}
  PROVE  Answered(c, t, some, listed, today)
<1> DEFINE made(e) == [entry |-> e, passed |-> e.last < today]
<1>1. c.terms = t /\ c.listed = listed /\ c.entries = {made(e) : e \in some}
  OBVIOUS
<1>2. \A e : made(e).entry = e
  OBVIOUS
<1>3. \A e : made(e).passed <=> e.last < today
  BY Zenon
<1> HIDE DEF made
<1> QED
  BY <1>1, <1>2, <1>3 DEF Answered

\* An entry asked for is the term's own, and of the kind asked.
LEMMA AskedOfIs ==
  ASSUME NEW Ids, NEW Names, NEW x, x.dates \in AnyDates(Ids, Names), NEW t, NEW e \in AskedOf(x, t)
  PROVE  /\ e \in Of(t, x.dates) /\ e \in x.dates /\ e.last \in Nat /\ t.name \in e.terms
         /\ x.q.kind # "break" => e.kind = x.q.kind
<1>1. e \in Of(t, x.dates) /\ (x.q.kind # "break" => e.kind = x.q.kind)
  BY DEF AskedOf, EntriesAsked
<1>2. e \in x.dates /\ t.name \in e.terms
  BY <1>1 DEF Of
<1> QED
  BY <1>1, <1>2 DEF AnyDates

\* What is said of dates is of a break between terms, or of one term that was asked of.
LEMMA SaidWays ==
  ASSUME NEW Ids, NEW Names, NEW x, x.dates \in AnyDates(Ids, Names), x.today \in Nat, NEW a \in DatesSaid(x.terms, x.dates, x.today, x.q)
  PROVE  \/ /\ x.q.kind = "break" /\ ~a.listed
            /\ \A m \in a.entries : m.passed <=> m.entry.last < x.today
         \/ \E t \in TermAsked(x.terms, x.dates, x.today, x.q) :
              \E u \in AheadOf(t, x.terms, x.dates, x.today, x.q) : StatedOf(x, a, u)
<1> DEFINE terms == x.terms
           dates == x.dates
           today == x.today
           q == x.q
           season == IF q.kind = "break" /\ Cardinality(q.names) = 1 THEN q.names ELSE {}
           unnamed == q.season = "" /\ ~q.next /\ ~q.this
           said(t, es, listed) == {[terms |-> t, listed |-> listed, entries |-> {[entry |-> e, passed |-> e.last < today] : e \in es}]}
           asked(t) == EntriesAsked(q.kind, q.names, t, dates)
           ahead(es) == {e \in es : e.last >= today}
           es(t) == IF q.ahead /\ ahead(asked(t)) # {} THEN ahead(asked(t)) ELSE asked(t)
           answer(t) == IF es(t) # {} THEN said({t}, es(t), TRUE)
                        ELSE IF season = {} THEN {} ELSE said({t}, ahead(EntriesAsked("break", {}, t, dates)), FALSE)
           between == UNION {said({b.ending, b.starting}, b.entries, FALSE) :
                               b \in UNION {BetweenTerms(s, terms, dates, today) : s \in season}}
           rest == UNION {answer(t) : t \in UNION {AheadOf(t, terms, dates, today, q) : t \in TermAsked(terms, dates, today, q)}}
<1>1. DatesSaid(x.terms, x.dates, x.today, x.q) =
        IF season # {} /\ season \subseteq DOMAIN BETWEEN /\ unnamed THEN between ELSE rest
  BY Zenon DEF DatesSaid
<1>2. \A t, some, listed : \A c \in said(t, some, listed) : Answered(c, t, some, listed, today)
  BY AnsweredIs
<1> HIDE DEF said
<1>3. CASE season # {} /\ a \in between
  <2>1. PICK b : a \in said({b.ending, b.starting}, b.entries, FALSE)
    BY <1>3
  <2>2. Answered(a, {b.ending, b.starting}, b.entries, FALSE, today)
    BY <1>2, <2>1
  <2>4. ~a.listed /\ \A m \in a.entries : m.passed <=> m.entry.last < x.today
    BY <2>2 DEF Answered
  <2>3. x.q.kind = "break"
    BY <1>3
  <2> QED
    BY <2>3, <2>4
<1>4. CASE a \in rest
  <2>1. PICK t \in TermAsked(terms, dates, today, q) : \E u \in AheadOf(t, terms, dates, today, q) : a \in answer(u)
    <3> HIDE DEF answer
    <3> QED
      BY <1>4
  <2> PICK u \in AheadOf(t, terms, dates, today, q) : a \in answer(u)
    BY <2>1
  <2>2. CASE es(u) # {} /\ a \in said({u}, es(u), TRUE)
    <3>8. Answered(a, {u}, es(u), TRUE, today)
      <4> HIDE DEF es
      <4> QED
        BY <1>2, <2>2
    <3>1. a.terms = {u} /\ a.listed
      BY <3>8 DEF Answered
    <3>2. \A m \in a.entries : m.entry \in es(u) /\ (m.passed <=> m.entry.last < today)
      <4> HIDE DEF es
      <4> QED
        BY <3>8 DEF Answered
    <3>3. \A e \in es(u) : \E m \in a.entries : m.entry = e
      <4> HIDE DEF es
      <4> QED
        BY <3>8 DEF Answered
    <3>4. es(u) \subseteq asked(u) /\ \A e \in asked(u) : e.last >= today => e \in es(u)
      OBVIOUS
    <3> HIDE DEF es, said, answer
    <3>5. \A e \in AskedOf(x, u) : e.last >= x.today => \E m \in a.entries : ~m.passed
      <4> SUFFICES ASSUME NEW e \in AskedOf(x, u), e.last >= x.today
                   PROVE  \E m \in a.entries : ~m.passed
        OBVIOUS
      <4>1. e \in es(u)
        BY <3>4 DEF AskedOf
      <4>2. PICK m \in a.entries : m.entry = e
        BY <3>3, <4>1
      <4>3. e.last \in Nat
        BY AskedOfIs
      <4>4. ~(e.last < today)
        BY <4>3
      <4> QED
        BY <3>2, <4>2, <4>4
    <3>6. a.entries # {}
      BY <2>2, <3>3
    <3>7. \A m \in a.entries : m.entry \in AskedOf(x, u)
      BY <3>2, <3>4 DEF AskedOf
    <3> QED
      BY <2>1, <3>1, <3>2, <3>5, <3>6, <3>7 DEF StatedOf
  <2>3. CASE season # {} /\ a \in said({u}, ahead(EntriesAsked("break", {}, u, dates)), FALSE)
    <3>3. Answered(a, {u}, ahead(EntriesAsked("break", {}, u, dates)), FALSE, today)
      <4> HIDE DEF ahead
      <4> QED
        BY <1>2, <2>3
    <3>1. a.terms = {u} /\ ~a.listed /\ \A m \in a.entries : m.passed <=> m.entry.last < today
      <4> HIDE DEF ahead
      <4> QED
        BY <3>3 DEF Answered
    <3>2. x.q.kind = "break"
      BY <2>3
    <3> QED
      BY <2>1, <3>1, <3>2 DEF StatedOf
  <2> HIDE DEF es, season
  <2> QED
    BY <2>1, <2>2, <2>3
<1> HIDE DEF between, rest, season
<1> QED
  BY <1>1, <1>3, <1>4

\* A term asked of by its season alone is one of that season that has a date to come.
LEMMA SeasonIsAhead ==
  ASSUME NEW Ids, NEW Names, NEW x, x.dates \in AnyDates(Ids, Names), x.today \in Nat,
         x.q.season # "", x.q.year = 0, NEW t \in TermAsked(x.terms, x.dates, x.today, x.q)
  PROVE  t.season = x.q.season /\ \E e \in Of(t, x.dates) : e.at >= x.today
<1>1. t \in {u \in Dated(x.terms, x.dates) : u.season = x.q.season /\ LastDay(u, x.dates) >= x.today}
  BY DEF TermAsked, SeasonNamed, Earliest
<1>2. t.season = x.q.season /\ LastDay(t, x.dates) >= x.today /\ Of(t, x.dates) # {}
  BY <1>1 DEF Dated
<1>3. PICK e \in Of(t, x.dates) : e.at = LastDay(t, x.dates)
  BY <1>2, LastDayIs
<1> QED
  BY <1>2, <1>3

\* A question of no term, no season and not the past.
AnyTime(q) == q.season = "" /\ ~q.next /\ ~q.this /\ ~q.still /\ ~q.past

\* When no term, season or past is asked of, a term with nothing left to come is answered
\* of only when no later one has anything either.
LEMMA NothingComesLater ==
  ASSUME NEW Ids, NEW Names, NEW x, x.dates \in AnyDates(Ids, Names), x.today \in Nat,
         NEW t, NEW u \in AheadOf(t, x.terms, x.dates, x.today, x.q),
         AnyTime(x.q), \A e \in AskedOf(x, u) : ~(e.last >= x.today)
  PROVE  \A v \in Dated(x.terms, x.dates) : FirstDay(v, x.dates) > FirstDay(u, x.dates) =>
           \A e \in AskedOf(x, v) : e.last < x.today
<1> DEFINE with == {v \in Dated(x.terms, x.dates) : FirstDay(v, x.dates) > FirstDay(t, x.dates) /\
                      \E e \in AskedOf(x, v) : e.last >= x.today}
           over == \A e \in AskedOf(x, t) : e.last < x.today
<1>1. AheadOf(t, x.terms, x.dates, x.today, x.q) = IF over /\ with # {} THEN Earliest(with, x.dates) ELSE {t}
  BY DEF AheadOf, AskedOf, AnyTime
<1>2. Earliest(with, x.dates) \subseteq with
  BY DEF Earliest
<1>3. u \notin with
  <2> HIDE DEF over
  <2> QED
    OBVIOUS
<1>4. u = t /\ (over => with = {})
  <2> HIDE DEF over, with
  <2> QED
    BY <1>1, <1>2, <1>3
<1>7. \A v : \A e \in AskedOf(x, v) : e.last \in Nat
  BY AskedOfIs
<1>5. over
  <2> SUFFICES ASSUME NEW e \in AskedOf(x, t)
               PROVE  e.last < x.today
    OBVIOUS
  <2>1. ~(e.last >= x.today)
    BY <1>4
  <2>2. e.last \in Nat
    BY <1>7
  <2> QED
    BY <2>1, <2>2
<1>6. ASSUME NEW v \in Dated(x.terms, x.dates), FirstDay(v, x.dates) > FirstDay(u, x.dates),
             NEW e \in AskedOf(x, v)
      PROVE  e.last < x.today
  <2>1. v \notin with
    BY <1>4, <1>5
  <2>2. ~(e.last >= x.today)
    BY <1>4, <1>6, <2>1
  <2>3. e.last \in Nat
    BY <1>7
  <2> QED
    BY <2>2, <2>3
<1> QED
  BY <1>6

(***************************************************************************)
(* On any calendar and day, a date said is of the kind and term asked and  *)
(* marked as passed exactly when it is, and a student who does not ask of  *)
(* the past is told of a passed one only when no later term lists one to   *)
(* come (academic_calendar.py).                                            *)
(***************************************************************************)
THEOREM DateIsToCome ==
  ASSUME NEW Ids, NEW Names, NEW x, x.dates \in AnyDates(Ids, Names), x.today \in Nat
  PROVE  DateToCome(x)
<1> SUFFICES ASSUME NEW a \in DatesSaid(x.terms, x.dates, x.today, x.q)
             PROVE  /\ \A e \in a.entries : e.passed <=> e.entry.last < x.today
                    /\ a.listed => \A e \in a.entries, t \in a.terms : t.name \in e.entry.terms
                    /\ x.q.kind = "break" \/ \A e \in a.entries : e.entry.kind = x.q.kind
                    /\ x.q.season # "" /\ x.q.year = 0 /\ x.q.kind # "break" =>
                         \A t \in a.terms : t.season = x.q.season /\ \E e \in Of(t, x.dates) : e.at >= x.today
                    /\ a.listed /\ x.q.season = "" /\ ~x.q.next /\ ~x.q.this /\ ~x.q.still /\ ~x.q.past
                         /\ (\A e \in a.entries : e.passed) =>
                         \A t \in a.terms, u \in Dated(x.terms, x.dates) : FirstDay(u, x.dates) > FirstDay(t, x.dates) =>
                           \A e \in EntriesAsked(x.q.kind, x.q.names, u, x.dates) : e.last < x.today
  BY DEF DateToCome
<1>1. CASE /\ x.q.kind = "break" /\ ~a.listed
           /\ \A m \in a.entries : m.passed <=> m.entry.last < x.today
  BY <1>1
<1>2. CASE \E t \in TermAsked(x.terms, x.dates, x.today, x.q) :
             \E u \in AheadOf(t, x.terms, x.dates, x.today, x.q) : StatedOf(x, a, u)
  <2>1. PICK t \in TermAsked(x.terms, x.dates, x.today, x.q) :
               \E u \in AheadOf(t, x.terms, x.dates, x.today, x.q) : StatedOf(x, a, u)
    BY <1>2
  <2> PICK u \in AheadOf(t, x.terms, x.dates, x.today, x.q) : StatedOf(x, a, u)
    BY <2>1
  <2>2. /\ a.terms = {u}
        /\ a.listed => \A m \in a.entries : m.entry \in AskedOf(x, u)
        /\ ~a.listed => x.q.kind = "break"
        /\ \A m \in a.entries : m.passed <=> m.entry.last < x.today
        /\ a.listed => \A e \in AskedOf(x, u) : e.last >= x.today => \E m \in a.entries : ~m.passed
    BY DEF StatedOf
  <2>3. a.listed => \A m \in a.entries, v \in a.terms : v.name \in m.entry.terms
    BY <2>2, AskedOfIs
  <2>4. x.q.kind = "break" \/ \A m \in a.entries : m.entry.kind = x.q.kind
    BY <2>2, AskedOfIs
  <2>5. ASSUME x.q.season # "", x.q.year = 0
        PROVE  u.season = x.q.season /\ \E e \in Of(u, x.dates) : e.at >= x.today
    <3>1. u = t
      BY <2>5 DEF AheadOf
    <3> QED
      BY <2>5, <3>1, SeasonIsAhead
  <2>6. ASSUME a.listed, x.q.season = "", ~x.q.next, ~x.q.this, ~x.q.still, ~x.q.past,
               \A m \in a.entries : m.passed
        PROVE  \A v \in Dated(x.terms, x.dates) : FirstDay(v, x.dates) > FirstDay(u, x.dates) =>
                 \A e \in AskedOf(x, v) : e.last < x.today
    <3>1. \A e \in AskedOf(x, u) : ~(e.last >= x.today)
      BY <2>2, <2>6
    <3> QED
      BY <2>6, <3>1, NothingComesLater DEF AnyTime
  <2> QED
    BY <2>2, <2>3, <2>4, <2>5, <2>6 DEF AskedOf
<1> QED
  BY <1>1, <1>2, SaidWays

(***************************************************************************)
(* Both: the rule of dates that the brain run checks of two years, on any  *)
(* calendar.                                                               *)
(***************************************************************************)
THEOREM DatesAreHonest ==
  ASSUME NEW Ids, NEW Names, NEW x, x.dates \in AnyDates(Ids, Names), x.today \in Nat
  PROVE  DatesHonest(x)
BY DateIsToCome, BreaksStayFree DEF DatesHonest

-----------------------------------------------------------------------------
\* The one call.
(***************************************************************************)
(* Whatever the question's words ask, code answers alone only what it can  *)
(* cite and hold, over a question that asks more only a window of events,  *)
(* contacts or a leader and how to reach them, and after another question  *)
(* only a course or people (one_call.py, ChatEngine._one_call).            *)
(***************************************************************************)
THEOREM CodeAnswersWhole ==
  ASSUME NEW x
  PROVE  AloneIsWhole(x)
<1> DEFINE q == x.q
           tried == AloneInOrder(q)
           may == {i \in DOMAIN tried : tried[i].if /\ CodeAnswer(x.said[tried[i].by])}
           whole(by) == /\ More(q) => by \in {"events", "contacts"} \/ (by = "people" /\ Asks(q, "reach") /\ ~Asks(q, "more"))
                        /\ q.earlier => by \in {"course", "people"}
<1>1. Alone(q, x.said) = IF may = {} THEN "model" ELSE tried[Min(may)].by
  BY Zenon DEF Alone
<1>2. may # {} => Min(may) \in may
  <2>1. may \in SUBSET Nat
    BY DEF AloneInOrder
  <2> HIDE DEF may
  <2> QED
    BY <2>1, MinIsLeast
<1>3. More(q) => CodeKind(q) \in {"leaders", "events", "none"}
  BY DEF CodeKind
<1>4. More(q) /\ CodeKind(q) = "leaders" => Asks(q, "reach") /\ ~Asks(q, "more")
  BY DEF CodeKind
<1>5. Only(q) => ~q.earlier
  BY DEF Only
<1>6. \A i \in DOMAIN tried : tried[i].if => whole(tried[i].by)
  <2>0. DOMAIN tried = 1..9
    BY DEF AloneInOrder
  <2>1. tried[1].by = "events" /\ (tried[1].if => ~q.earlier)
    BY DEF AloneInOrder
  <2>2. tried[2].by = "club" /\ (tried[2].if => CodeKind(q) = "club" /\ ~q.earlier)
    BY DEF AloneInOrder
  <2>3. tried[3].by = "contacts" /\ (tried[3].if => Only(q))
    BY DEF AloneInOrder
  <2>4. tried[4].by = "teachers" /\ (tried[4].if => ~More(q) /\ ~q.earlier)
    BY DEF AloneInOrder
  <2>5. tried[5].by = "faculty" /\ (tried[5].if => ~More(q) /\ ~q.earlier)
    BY DEF AloneInOrder
  <2>6. tried[6].by = "course" /\ (tried[6].if => CodeKind(q) = "course")
    BY DEF AloneInOrder
  <2>7. tried[7].by = "people" /\ (tried[7].if => CodeKind(q) \in {"leaders", "person"})
    BY DEF AloneInOrder
  <2>8. tried[8].by = "kinds" /\ (tried[8].if => Only(q) /\ ~More(q))
    BY DEF AloneInOrder
  <2>9. tried[9].by = "calendar" /\ (tried[9].if => Only(q) /\ ~More(q))
    BY DEF AloneInOrder
  <2> HIDE DEF tried
  <2>10. \A i \in {3, 8, 9} : tried[i].if => whole(tried[i].by)
    BY <1>5, <2>3, <2>8, <2>9
  <2>11. \A i \in {1, 2, 4, 5} : tried[i].if => whole(tried[i].by)
    BY <1>3, <2>1, <2>2, <2>4, <2>5
  <2>12. \A i \in {6, 7} : tried[i].if => whole(tried[i].by)
    BY <1>3, <1>4, <2>6, <2>7
  <2> HIDE DEF whole
  <2> QED
    BY <2>0, <2>10, <2>11, <2>12
<1>7. may # {} => x.said[tried[Min(may)].by] = "held" /\ whole(tried[Min(may)].by)
  BY <1>2, <1>6 DEF CodeAnswer
<1> HIDE DEF may, tried
<1> QED
  BY <1>1, <1>7 DEF AloneIsWhole

-----------------------------------------------------------------------------
\* The members of a finite set of numbers can be counted off in order.
LEMMA CountedOff ==
  ASSUME NEW new \in SUBSET Nat, IsFiniteSet(new), NEW n \in 1..Cardinality(new)
  PROVE  \E i \in new : Cardinality({j \in new : j <= i}) = n
<1> DEFINE upTo(i) == {j \in new : j <= i}
           rank == [i \in new |-> Cardinality(upTo(i))]
<1>1. \A i \in new : IsFiniteSet(upTo(i)) /\ Cardinality(upTo(i)) \in 1..Cardinality(new)
  <2> TAKE i \in new
  <2>1. IsFiniteSet(upTo(i)) /\ Cardinality(upTo(i)) <= Cardinality(new)
    BY FS_Subset
  <2>2. i \in upTo(i)
    OBVIOUS
  <2>3. Cardinality(upTo(i)) # 0
    <3> HIDE DEF upTo
    <3> QED
      BY <2>1, <2>2, FS_EmptySet
  <2> HIDE DEF upTo
  <2>4. Cardinality(upTo(i)) \in Nat /\ Cardinality(new) \in Nat
    BY <2>1, FS_CardinalityType
  <2> QED
    BY <2>1, <2>3, <2>4
<1>2. \A i, j \in new : i < j => Cardinality(upTo(i)) < Cardinality(upTo(j))
  <2> SUFFICES ASSUME NEW i \in new, NEW j \in new, i < j
               PROVE  Cardinality(upTo(i)) < Cardinality(upTo(j))
    OBVIOUS
  <2>2. i \in Nat /\ j \in Nat /\ j \in upTo(j) /\ j \notin upTo(i)
    OBVIOUS
  <2>3. \A k \in new : k <= i => k <= j
    OBVIOUS
  <2>1. upTo(i) \subseteq upTo(j) /\ upTo(i) # upTo(j)
    BY <2>2, <2>3
  <2> HIDE DEF upTo
  <2> QED
    BY <1>1, <2>1, FS_Subset
<1>3. rank \in Injection(new, 1..Cardinality(new))
  <2> HIDE DEF upTo
  <2>1. rank \in [new -> 1..Cardinality(new)]
    BY <1>1
  <2>2. \A i, j \in new : rank[i] = rank[j] => i = j
    <3> SUFFICES ASSUME NEW i \in new, NEW j \in new, i # j
                 PROVE  rank[i] # rank[j]
      OBVIOUS
    <3>1. i < j \/ j < i
      OBVIOUS
    <3>2. rank[i] \in Nat /\ rank[j] \in Nat
      BY <1>1
    <3> QED
      BY <1>2, <3>1, <3>2
  <2> QED
    BY <2>1, <2>2 DEF Injection, IsInjective
<1>4. IsFiniteSet(1..Cardinality(new)) /\ Cardinality(1..Cardinality(new)) = Cardinality(new)
  BY FS_CardinalityType, FS_Interval
<1>5. rank \in Surjection(new, 1..Cardinality(new))
  <2> HIDE DEF rank
  <2> QED
    BY <1>3, <1>4, FS_Injection
<1>6. PICK i \in new : rank[i] = n
  BY <1>5 DEF Surjection
<1> QED
  BY <1>6

\* What is new of a list comes from places of its own, and was not given before.
NewOf(Ids, ids, s, fresh) ==
  /\ fresh \in Seq(Ids)
  /\ \A n \in DOMAIN fresh : \E i \in DOMAIN ids : fresh[n] = ids[i] /\ \A g \in s.given : g.id # ids[i]
  /\ \A n, m \in DOMAIN fresh : n # m =>
       \E i, j \in DOMAIN ids : i # j /\ fresh[n] = ids[i] /\ fresh[m] = ids[j]

LEMMA FreshIs ==
  ASSUME NEW Ids, NEW ids \in Seq(Ids), NEW s
  PROVE  NewOf(Ids, ids, s, Fresh(s, ids))
<1> DEFINE new == {i \in DOMAIN ids : \A g \in s.given : g.id # ids[i]}
           nth(n) == CHOOSE i \in new : Cardinality({j \in new : j <= i}) = n
           fresh == [n \in 1..Cardinality(new) |-> ids[nth(n)]]
<1>1. Fresh(s, ids) = fresh
  BY Zenon DEF Fresh
<1>2. new \in SUBSET Nat /\ new \subseteq DOMAIN ids /\ IsFiniteSet(new)
  <2>1. DOMAIN ids = 1..Len(ids) /\ Len(ids) \in Nat
    OBVIOUS
  <2>2. IsFiniteSet(DOMAIN ids) /\ DOMAIN ids \in SUBSET Nat
    BY <2>1, FS_Interval
  <2>3. new \subseteq DOMAIN ids
    OBVIOUS
  <2> HIDE DEF new
  <2> QED
    BY <2>2, <2>3, FS_Subset
<1>3. Cardinality(new) \in Nat
  BY <1>2, FS_CardinalityType
<1>4. \A i \in new : \A g \in s.given : g.id # ids[i]
  OBVIOUS
<1> HIDE DEF new
<1>5. \A n \in 1..Cardinality(new) : nth(n) \in new /\ Cardinality({j \in new : j <= nth(n)}) = n
  <2> TAKE n \in 1..Cardinality(new)
  <2>1. \E i \in new : Cardinality({j \in new : j <= i}) = n
    BY <1>2, CountedOff
  <2> QED
    BY <2>1
<1>6. \A n, m \in 1..Cardinality(new) : n # m => nth(n) # nth(m)
  BY <1>5
<1> HIDE DEF nth
<1>7. DOMAIN fresh = 1..Cardinality(new) /\ \A n \in DOMAIN fresh : fresh[n] = ids[nth(n)]
  OBVIOUS
<1>8. fresh \in Seq(Ids)
  <2>1. \A i \in DOMAIN ids : ids[i] \in Ids
    OBVIOUS
  <2>2. \A n \in 1..Cardinality(new) : ids[nth(n)] \in Ids
    BY <1>2, <1>5, <2>1
  <2> QED
    BY <1>3, <2>2
<1> HIDE DEF fresh
<1>9. \A n \in DOMAIN fresh : \E i \in DOMAIN ids : fresh[n] = ids[i] /\ \A g \in s.given : g.id # ids[i]
  BY <1>2, <1>4, <1>5, <1>7
<1>10. \A n, m \in DOMAIN fresh : n # m =>
         \E i, j \in DOMAIN ids : i # j /\ fresh[n] = ids[i] /\ fresh[m] = ids[j]
  BY <1>2, <1>5, <1>6, <1>7
<1> QED
  BY <1>1, <1>8, <1>9, <1>10 DEF NewOf

-----------------------------------------------------------------------------
\* The readers in their turns.  Some look at what is given before they add to it.
Turns == <<"programs", "named", "kinds", "calendar", "clubs", "picked", "meant", "listed", "taught", "clubsNear",
           "clubsByWord", "leaders", "hosted", "sections", "catalog", "onPages", "teachers", "faculty", "dates", "second">>
Readers == {Turns[i] : i \in DOMAIN Turns}
Look == {"taught", "clubsByWord", "leaders", "catalog", "onPages"}

Has(ids, id) == \E i \in DOMAIN ids : ids[i] = id

\* No reader finds a person or club (once) twice, and one that does not look at what is
\* given finds none that a reader before it finds.
FoundOnce(finds, once) ==
  /\ \A r \in Readers : \A i, j \in DOMAIN finds[r] : finds[r][i] = finds[r][j] /\ finds[r][i] \in once => i = j
  /\ \A i, j \in DOMAIN Turns : i < j /\ Turns[j] \notin Look =>
       \A id \in once : ~(Has(finds[Turns[i]], id) /\ Has(finds[Turns[j]], id))

\* The evidence after some readers: what is given is every source with its number, a person
\* or club is one source, and every source was found by one of those readers.
Fits(x, Ids, s, run) ==
  /\ s.sources \in Seq(Ids)
  /\ s.given = {[n |-> i, id |-> s.sources[i]] : i \in DOMAIN s.sources}
  /\ \A i, j \in DOMAIN s.sources : s.sources[i] = s.sources[j] /\ s.sources[i] \in x.once => i = j
  /\ \A i \in DOMAIN s.sources : \E r \in run : Has(x.finds[r], s.sources[i])

\* So it is once a reader has numbered what it found.
LEMMA NumberedFits ==
  ASSUME NEW x, NEW Ids, NEW s, NEW run, Fits(x, Ids, s, run), NEW ids \in Seq(Ids), NEW r,
         \A i, j \in DOMAIN ids : ids[i] = ids[j] /\ ids[i] \in x.once => i = j,
         \A i \in DOMAIN ids : Has(x.finds[r], ids[i]),
         \A i \in DOMAIN ids, j \in DOMAIN s.sources : ids[i] \in x.once => ids[i] # s.sources[j]
  PROVE  Fits(x, Ids, Numbered(s, ids), run \cup {r})
<1> DEFINE n == Len(s.sources)
           m == Len(ids)
           all == s.sources \o ids
<1>1. s.sources \in Seq(Ids) /\ n \in Nat /\ m \in Nat /\ DOMAIN s.sources = 1..n /\ DOMAIN ids = 1..m
  BY DEF Fits
<1>2. all \in Seq(Ids) /\ DOMAIN all = 1..(n + m)
  BY <1>1
<1>3. \A i \in 1..n : all[i] = s.sources[i]
  BY <1>1
<1>4. \A i \in 1..m : all[n + i] = ids[i]
  BY <1>1
<1>5. \A i \in 1..(n + m) : i \in 1..n \/ \E k \in 1..m : i = n + k
  <2> TAKE i \in 1..(n + m)
  <2>1. CASE i <= n
    BY <1>1, <2>1
  <2>2. CASE ~(i <= n)
    <3>1. i - n \in 1..m /\ i = n + (i - n)
      BY <1>1, <2>2
    <3> QED
      BY <3>1
  <2> QED
    BY <2>1, <2>2
<1>6. Numbered(s, ids).sources = all
  BY DEF Numbered
<1>7. Numbered(s, ids).given = {[n |-> i, id |-> all[i]] : i \in DOMAIN all}
  <2>1. Numbered(s, ids).given = s.given \cup {[n |-> n + i, id |-> ids[i]] : i \in DOMAIN ids}
    BY DEF Numbered
  <2>2. s.given = {[n |-> i, id |-> all[i]] : i \in 1..n}
    BY <1>1, <1>3 DEF Fits
  <2>3. {[n |-> n + i, id |-> ids[i]] : i \in DOMAIN ids} = {[n |-> n + i, id |-> all[n + i]] : i \in 1..m}
    BY <1>1, <1>4
  <2>4. \A i \in 1..m : n + i \in 1..(n + m)
    BY <1>1
  <2>5. 1..n \subseteq 1..(n + m)
    BY <1>1
  <2> HIDE DEF n, m, all
  <2>6. {[n |-> i, id |-> all[i]] : i \in 1..n} \cup {[n |-> n + i, id |-> all[n + i]] : i \in 1..m}
          = {[n |-> i, id |-> all[i]] : i \in 1..(n + m)}
    BY <1>5, <2>4, <2>5
  <2> QED
    BY <1>2, <2>1, <2>2, <2>3, <2>6
<1>8. ASSUME NEW i \in 1..(n + m), NEW j \in 1..(n + m), all[i] = all[j], all[i] \in x.once
      PROVE  i = j
  <2>1. CASE i \in 1..n /\ j \in 1..n
    BY <1>1, <1>3, <1>8, <2>1 DEF Fits
  <2>2. CASE i \in 1..n /\ \E k \in 1..m : j = n + k
    BY <1>1, <1>3, <1>4, <1>8, <2>2
  <2>3. CASE j \in 1..n /\ \E k \in 1..m : i = n + k
    BY <1>1, <1>3, <1>4, <1>8, <2>3
  <2>4. CASE (\E k \in 1..m : i = n + k) /\ \E k \in 1..m : j = n + k
    BY <1>1, <1>4, <1>8, <2>4
  <2> QED
    BY <1>5, <2>1, <2>2, <2>3, <2>4
<1>9. ASSUME NEW i \in 1..(n + m)
      PROVE  \E p \in run \cup {r} : Has(x.finds[p], all[i])
  <2>1. CASE i \in 1..n
    BY <1>1, <1>3, <2>1 DEF Fits
  <2>2. CASE \E k \in 1..m : i = n + k
    BY <1>1, <1>4, <2>2
  <2> QED
    BY <1>5, <2>1, <2>2
<1> HIDE DEF all, n, m
<1> QED
  BY <1>2, <1>6, <1>7, <1>8, <1>9 DEF Fits

\* Two readers find no person or club both.
Apart(x, p, r) == \A id \in x.once : ~(Has(x.finds[p], id) /\ Has(x.finds[r], id))

\* A question whose readers each find some list.
Finding(x, Ids) == x.finds \in [Readers -> Seq(Ids)] /\ FoundOnce(x.finds, x.once)

\* A reader that does not run changes nothing.
LEMMA MoreFits ==
  ASSUME NEW x, NEW Ids, NEW s, NEW run, NEW r, Fits(x, Ids, s, run)
  PROVE  Fits(x, Ids, s, run \cup {r})
BY DEF Fits

\* A reader that shares nobody with those before it keeps the evidence so.
LEMMA ReadFits ==
  ASSUME NEW x, NEW Ids, Finding(x, Ids), NEW s, NEW run, Fits(x, Ids, s, run), NEW on,
         NEW r \in Readers, \A p \in run : Apart(x, p, r)
  PROVE  Fits(x, Ids, Read(s, on, x.finds, r), run \cup {r})
<1> DEFINE ids == x.finds[r]
<1>1. ids \in Seq(Ids) /\ \A i, j \in DOMAIN ids : ids[i] = ids[j] /\ ids[i] \in x.once => i = j
  BY DEF Finding, FoundOnce
<1>2. \A i \in DOMAIN ids : Has(x.finds[r], ids[i])
  BY DEF Has
<1>3. ASSUME NEW i \in DOMAIN ids, NEW j \in DOMAIN s.sources, ids[i] \in x.once
      PROVE  ids[i] # s.sources[j]
  <2>1. PICK p \in run : Has(x.finds[p], s.sources[j])
    BY DEF Fits
  <2> QED
    BY <1>2, <1>3, <2>1 DEF Apart
<1> HIDE DEF ids
<1>4. Fits(x, Ids, Numbered(s, ids), run \cup {r})
  BY <1>1, <1>2, <1>3, NumberedFits
<1> QED
  BY <1>4, MoreFits DEF Read, ids

\* A reader that looks at what is given keeps it so whoever it shares.
LEMMA ReadNewFits ==
  ASSUME NEW x, NEW Ids, Finding(x, Ids), NEW s, NEW run, Fits(x, Ids, s, run), NEW on, NEW r \in Readers
  PROVE  Fits(x, Ids, ReadNew(s, on, x.finds, r), run \cup {r})
<1> DEFINE ids == x.finds[r]
           fresh == Fresh(s, ids)
<1>1. ids \in Seq(Ids) /\ \A i, j \in DOMAIN ids : ids[i] = ids[j] /\ ids[i] \in x.once => i = j
  BY DEF Finding, FoundOnce
<1>2. \A i \in DOMAIN ids : Has(x.finds[r], ids[i])
  BY DEF Has
<1> HIDE DEF ids
<1>3. NewOf(Ids, ids, s, fresh)
  BY <1>1, FreshIs
<1> HIDE DEF fresh
<1>4. \A n, m \in DOMAIN fresh : fresh[n] = fresh[m] /\ fresh[n] \in x.once => n = m
  BY <1>1, <1>3 DEF NewOf
<1>5. \A n \in DOMAIN fresh : Has(x.finds[r], fresh[n])
  BY <1>2, <1>3 DEF NewOf
<1>6. ASSUME NEW n \in DOMAIN fresh, NEW j \in DOMAIN s.sources
      PROVE  fresh[n] # s.sources[j]
  <2>1. [n |-> j, id |-> s.sources[j]] \in s.given
    BY DEF Fits
  <2>2. \A g \in s.given : g.id # fresh[n]
    BY <1>3 DEF NewOf
  <2> QED
    BY <2>1, <2>2
<1>8. fresh \in Seq(Ids)
  BY <1>3 DEF NewOf
<1>7. Fits(x, Ids, Numbered(s, fresh), run \cup {r})
  BY <1>8, <1>4, <1>5, <1>6, NumberedFits
<1> QED
  BY <1>7, MoreFits DEF ReadNew, NumberedNew, fresh, ids

\* The readers before the n-th.
Before(n) == {Turns[i] : i \in 1..(n - 1)}

\* Each reader in its turn keeps the evidence so.
LEMMA InTurn ==
  ASSUME NEW x, NEW Ids, Finding(x, Ids), NEW n \in 1..20, NEW s, Fits(x, Ids, s, Before(n)), NEW on, NEW r, r = Turns[n]
  PROVE  /\ r \notin Look => Fits(x, Ids, Read(s, on, x.finds, r), Before(n + 1))
         /\ Fits(x, Ids, ReadNew(s, on, x.finds, r), Before(n + 1))
<1>1. Before(n + 1) = Before(n) \cup {r}
  <2>1. \A i : i \in 1..n <=> i \in 1..(n - 1) \/ i = n
    OBVIOUS
  <2> QED
    BY <2>1 DEF Before
<1>2. DOMAIN Turns = 1..20
  BY DEF Turns
<1>3. r \in Readers
  BY <1>2 DEF Readers
<1>4. r \notin Look => \A p \in Before(n) : Apart(x, p, r)
  <2> SUFFICES ASSUME r \notin Look, NEW i \in 1..(n - 1)
               PROVE  Apart(x, Turns[i], r)
    BY DEF Before
  <2>1. i \in 1..20 /\ i < n
    OBVIOUS
  <2> QED
    BY <1>2, <2>1 DEF Apart, Finding, FoundOnce
<1> QED
  BY <1>1, <1>3, <1>4, ReadFits, ReadNewFits

\* The readers that run before any looks at what is given, in whatever turns.
LEMMA RecordsFit ==
  ASSUME NEW x, NEW Ids, Finding(x, Ids)
  PROVE  Fits(x, Ids, Records(x.q, x.finds, x.searchable, x.picked), Before(8))
<1> DEFINE q == x.q
           finds == x.finds
           pick == Pick(q, x.searchable)
           s1 == Read(Empty, q.programs # "none" /\ ~pick, finds, "programs")
           s2 == Read(s1, q.named > 0, finds, "named")
           s3 == Read(s2, KindListed(q), finds, "kinds")
           s4 == Read(s3, Calendar(q), finds, "calendar")
           s5 == Read(s4, Calendar(q) /\ ~KindListed(q), finds, "clubs")
           s6 == Read(s5, pick /\ x.picked, finds, "picked")
           s7 == Read(s6, pick /\ ~x.picked /\ q.programs # "none", finds, "programs")
           instead == pick /\ ~x.picked /\ ByPages(q)
           records == IF instead THEN [Numbered(Empty, finds["meant"]) EXCEPT !.given = @ \cup s7.given] ELSE s7
           Named == {"named", "kinds", "calendar", "clubs", "picked"}
<1>1. Records(q, finds, x.searchable, x.picked) = records
  BY Zenon DEF Records
<1>2. /\ Turns[1] = "programs" /\ Turns[2] = "named" /\ Turns[3] = "kinds" /\ Turns[4] = "calendar"
      /\ Turns[5] = "clubs" /\ Turns[6] = "picked" /\ Turns[7] = "meant" /\ DOMAIN Turns = 1..20
  BY DEF Turns
<1>3. Before(8) = {"programs", "meant"} \cup Named
  BY <1>2 DEF Before
<1>4. \A p, r \in Before(8) : p # r => Apart(x, p, r)
  <2> SUFFICES ASSUME NEW i \in 1..7, NEW j \in 1..7, i # j
               PROVE  Apart(x, Turns[i], Turns[j])
    BY DEF Before
  <2>1. Turns[i] \notin Look /\ Turns[j] \notin Look
    BY DEF Turns, Look
  <2>2. i < j \/ j < i
    OBVIOUS
  <2>3. \A k, l \in 1..20 : k < l /\ Turns[l] \notin Look => Apart(x, Turns[k], Turns[l])
    BY <1>2 DEF Apart, Finding, FoundOnce
  <2>4. Apart(x, Turns[j], Turns[i]) => Apart(x, Turns[i], Turns[j])
    BY DEF Apart
  <2>5. i \in 1..20 /\ j \in 1..20
    OBVIOUS
  <2> QED
    BY <2>1, <2>2, <2>3, <2>4, <2>5
<1>5. Before(8) \subseteq Readers
  BY <1>2 DEF Before, Readers
<1>6. \A s, on, r, run : r \in Before(8) /\ run \subseteq Before(8) \ {r} /\ Fits(x, Ids, s, run)
                       => Fits(x, Ids, Read(s, on, finds, r), run \cup {r})
  <2> HIDE DEF finds
  <2> SUFFICES ASSUME NEW s, NEW on, NEW r, NEW run, r \in Before(8), run \subseteq Before(8) \ {r}, Fits(x, Ids, s, run)
               PROVE  Fits(x, Ids, Read(s, on, finds, r), run \cup {r})
    OBVIOUS
  <2>1. \A p \in run : Apart(x, p, r)
    BY <1>4
  <2> QED
    BY <1>5, <2>1, ReadFits DEF finds
<1>7. \A s, run, more : Fits(x, Ids, s, run) /\ run \subseteq more => Fits(x, Ids, s, more)
  BY DEF Fits
<1>8. Fits(x, Ids, Empty, {})
  BY DEF Fits, Empty
<1>9. CASE instead
  <2>1. q.named = 0 /\ q.programs = "none" /\ ~Calendar(q) /\ ~KindListed(q)
    BY <1>9 DEF ByPages, KindListed, Calendar
  <2>2. s7 = Empty
    BY <1>9, <2>1 DEF Read
  <2>3. Empty.given = {}
    BY DEF Empty
  <2> HIDE DEF s7
  <2>4. records = Numbered(Empty, finds["meant"])
    BY <1>9, <2>2, <2>3 DEF Numbered
  <2>5. Fits(x, Ids, Read(Empty, TRUE, finds, "meant"), {} \cup {"meant"})
    BY <1>3, <1>6, <1>8
  <2>6. Fits(x, Ids, records, {"meant"})
    BY <2>4, <2>5 DEF Read
  <2> HIDE DEF records
  <2> QED
    BY <1>1, <1>3, <1>7, <2>6
<1>10. CASE ~instead
  <2>1. CASE pick
    <3>1. s1 = Empty
      BY <2>1 DEF Read
    <3> HIDE DEF s1
    <3>2. Fits(x, Ids, s2, {"named"})
      BY <1>3, <1>6, <1>8, <3>1
    <3> HIDE DEF s2
    <3>3. Fits(x, Ids, s3, {"named", "kinds"})
      <4>1. {"named"} \cup {"kinds"} = {"named", "kinds"} /\ "kinds" \in Before(8) /\ {"named"} \subseteq Before(8) \ {"kinds"}
        BY <1>3
      <4> QED
        BY <1>6, <3>2, <4>1
    <3> HIDE DEF s3
    <3>4. Fits(x, Ids, s4, {"named", "kinds", "calendar"})
      <4>1. /\ {"named", "kinds"} \cup {"calendar"} = {"named", "kinds", "calendar"}
            /\ "calendar" \in Before(8) /\ {"named", "kinds"} \subseteq Before(8) \ {"calendar"}
        BY <1>3
      <4> QED
        BY <1>6, <3>3, <4>1
    <3> HIDE DEF s4
    <3>5. Fits(x, Ids, s5, {"named", "kinds", "calendar", "clubs"})
      <4>1. /\ {"named", "kinds", "calendar"} \cup {"clubs"} = {"named", "kinds", "calendar", "clubs"}
            /\ "clubs" \in Before(8) /\ {"named", "kinds", "calendar"} \subseteq Before(8) \ {"clubs"}
        BY <1>3
      <4> QED
        BY <1>6, <3>4, <4>1
    <3> HIDE DEF s5
    <3>6. Fits(x, Ids, s6, Named)
      <4>1. /\ {"named", "kinds", "calendar", "clubs"} \cup {"picked"} = Named
            /\ "picked" \in Before(8) /\ {"named", "kinds", "calendar", "clubs"} \subseteq Before(8) \ {"picked"}
        BY <1>3
      <4> QED
        BY <1>6, <3>5, <4>1
    <3> HIDE DEF s6
    <3>7. Fits(x, Ids, s7, Named \cup {"programs"})
      <4>1. "programs" \in Before(8) /\ Named \subseteq Before(8) \ {"programs"}
        BY <1>3
      <4> QED
        BY <1>6, <3>6, <4>1
    <3> HIDE DEF s7
    <3> QED
      BY <1>1, <1>3, <1>7, <1>10, <3>7
  <2>2. CASE ~pick
    <3>0. Before(1) = {} /\ \A n \in 1..6 : Turns[n] \notin Look
      BY DEF Before, Turns, Look
    <3>1. Fits(x, Ids, s1, Before(2))
      BY <1>2, <1>8, <3>0, InTurn
    <3> HIDE DEF s1
    <3>2. Fits(x, Ids, s2, Before(3))
      BY <1>2, <3>0, <3>1, InTurn
    <3> HIDE DEF s2
    <3>3. Fits(x, Ids, s3, Before(4))
      BY <1>2, <3>0, <3>2, InTurn
    <3> HIDE DEF s3
    <3>4. Fits(x, Ids, s4, Before(5))
      BY <1>2, <3>0, <3>3, InTurn
    <3> HIDE DEF s4
    <3>5. Fits(x, Ids, s5, Before(6))
      BY <1>2, <3>0, <3>4, InTurn
    <3> HIDE DEF s5
    <3>6. Fits(x, Ids, s6, Before(7))
      BY <1>2, <3>0, <3>5, InTurn
    <3>7. s7 = s6
      BY <2>2 DEF Read
    <3>8. Before(7) \subseteq Before(8)
      BY DEF Before
    <3> HIDE DEF s6, s7
    <3> QED
      BY <1>1, <1>7, <1>10, <3>6, <3>7, <3>8
  <2> QED
    BY <2>1, <2>2
<1> QED
  BY <1>9, <1>10

(***************************************************************************)
(* Whichever readers run and whatever they find, in one look or two, every *)
(* number given with a fact is the number of that fact's own source, and a *)
(* person or club that two readers find has one number                     *)
(* (ChatEngine._one_call, one_call.gather).                                *)
(***************************************************************************)
THEOREM MarksNameTheirSources ==
  ASSUME NEW Ids, NEW x, Finding(x, Ids)
  PROVE  NumbersHold(x)
<1> DEFINE q == x.q
           finds == x.finds
           people == Asks(q, "people")
           clubs == x.searchable /\ Asks(q, "clubs") /\ ~KindListed(q)
           s8 == Read(Records(q, finds, x.searchable, x.picked),
                      x.searchable /\ people /\ q.named = 0 /\ Asks(q, "list"), finds, "listed")
           s9 == ReadNew(s8, x.searchable /\ people /\ Asks(q, "topic") /\ ~Teaches(q) /\ ~Asks(q, "leaders"), finds, "taught")
           s10 == Read(s9, clubs /\ finds["clubs"] = <<>>, finds, "clubsNear")
           s11 == ReadNew(s10, clubs, finds, "clubsByWord")
           s12 == ReadNew(s11, (people \/ q.named > 0) /\ Asks(q, "leaders"), finds, "leaders")
           s13 == Read(s12, Asks(q, "clubs") /\ Asks(q, "hosts"), finds, "hosted")
           s14 == Read(s13, x.searchable, finds, "sections")
           s15 == ReadNew(s14, Asks(q, "subjects"), finds, "catalog")
           s16 == ReadNew(s15, clubs, finds, "onPages")
           s17 == Read(s16, Teaches(q), finds, "teachers")
           s18 == Read(s17, ~Teaches(q) /\ q.programs = "program" /\ q.named = 0 /\ Asks(q, "faculty"), finds, "faculty")
           s19 == Read(s18, Asks(q, "dates"), finds, "dates")
           again == Read(s19, x.second, finds, "second")
<1>1. Evidence(q, finds, x.searchable, x.picked) = s19
  BY Zenon DEF Evidence
<1>2. /\ Turns[8] = "listed" /\ Turns[9] = "taught" /\ Turns[10] = "clubsNear" /\ Turns[11] = "clubsByWord"
      /\ Turns[12] = "leaders" /\ Turns[13] = "hosted" /\ Turns[14] = "sections" /\ Turns[15] = "catalog"
      /\ Turns[16] = "onPages" /\ Turns[17] = "teachers" /\ Turns[18] = "faculty" /\ Turns[19] = "dates" /\ Turns[20] = "second"
  BY DEF Turns
<1>3. {"listed", "clubsNear", "hosted", "sections", "teachers", "faculty", "dates", "second"} \cap Look = {}
  BY DEF Look
<1>8. Fits(x, Ids, s8, Before(9))
  BY <1>2, <1>3, RecordsFit, InTurn
<1> HIDE DEF s8
<1>9. Fits(x, Ids, s9, Before(10))
  BY <1>2, <1>3, <1>8, InTurn
<1> HIDE DEF s9
<1>10. Fits(x, Ids, s10, Before(11))
  BY <1>2, <1>3, <1>9, InTurn
<1> HIDE DEF s10
<1>11. Fits(x, Ids, s11, Before(12))
  BY <1>2, <1>3, <1>10, InTurn
<1> HIDE DEF s11
<1>12. Fits(x, Ids, s12, Before(13))
  BY <1>2, <1>3, <1>11, InTurn
<1> HIDE DEF s12
<1>13. Fits(x, Ids, s13, Before(14))
  BY <1>2, <1>3, <1>12, InTurn
<1> HIDE DEF s13
<1>14. Fits(x, Ids, s14, Before(15))
  BY <1>2, <1>3, <1>13, InTurn
<1> HIDE DEF s14
<1>15. Fits(x, Ids, s15, Before(16))
  BY <1>2, <1>3, <1>14, InTurn
<1> HIDE DEF s15
<1>16. Fits(x, Ids, s16, Before(17))
  BY <1>2, <1>3, <1>15, InTurn
<1> HIDE DEF s16
<1>17. Fits(x, Ids, s17, Before(18))
  BY <1>2, <1>3, <1>16, InTurn
<1> HIDE DEF s17
<1>18. Fits(x, Ids, s18, Before(19))
  BY <1>2, <1>3, <1>17, InTurn
<1> HIDE DEF s18
<1>19. Fits(x, Ids, s19, Before(20))
  BY <1>2, <1>3, <1>18, InTurn
<1> HIDE DEF s19
<1>20. Fits(x, Ids, again, Before(21))
  BY <1>2, <1>3, <1>19, InTurn
<1>21. (IF x.second THEN Numbered(s19, x.finds["second"]) ELSE s19) = again
  BY DEF Read
<1> HIDE DEF again
<1>22. \A g \in again.given : /\ g.n \in DOMAIN again.sources /\ again.sources[g.n] = g.id
                              /\ g = [n |-> g.n, id |-> g.id]
  BY <1>20 DEF Fits
<1>23. \A g, h \in again.given : g.n = h.n => g = h
  BY <1>22
<1>24. \A g, h \in again.given : g.id = h.id /\ g.id \in x.once => g = h
  <2> SUFFICES ASSUME NEW g \in again.given, NEW h \in again.given, g.id = h.id, g.id \in x.once
               PROVE  g.n = h.n
    BY <1>23
  <2> QED
    BY <1>20, <1>22 DEF Fits
<1> QED
  BY <1>1, <1>21, <1>22, <1>23, <1>24 DEF NumbersHold
=============================================================================
