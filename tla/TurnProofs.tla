----------------------------- MODULE TurnProofs -----------------------------
(***************************************************************************)
(* What a reply keeps, for any number of requests and places, any limits   *)
(* and any number of releases: the emergency of the phrase floor, lookups  *)
(* of one release, and an emergency the read or the model named.  What the *)
(* answers under way keep: no more of them than there are places, and no   *)
(* clock past its limit.                                                   *)
(***************************************************************************)
EXTENDS Turn, TLAPS, FiniteSetTheorems

\* The stages before the first lookup, and those whose reply has its facts.
Early == {"new", "floorHelp", "read", "readHelp", "prelude"}
Replied == {"support", "besideHelp", "done"}

\* A turn without the bounds of its counters.
Shape == [pc: Answering \cup {"new", "floorHelp", "done"},
          floor: Floor,
          danger: {"none", "read", "late", "model"},
          clock: Int, since: Int, helps: Int,
          pin: {None} \cup Releases,
          facts: SUBSET Releases,
          seen: SUBSET Releases,
          attempts: Int,
          reply: Reply]

\* The releases of a reply's facts are all one.
One(facts) == \E r \in Releases : facts \subseteq {r}

FloorHeld(turn) ==
  /\ turn.pc = "new" => turn.floor = "quiet"
  /\ turn.floor = "emergency" => turn.pc \in {"floorHelp", "done"}
  /\ turn.pc = "done" /\ turn.floor # "quiet" /\ Written => turn.reply.emergency

FactsHeld(turn) ==
  /\ turn.pc \in Early => turn.facts = {}
  /\ turn.pc \notin Replied => turn.reply.facts = {}
  /\ turn.facts \subseteq {turn.pin}
  /\ One(turn.facts \cup turn.reply.facts)

Held(turn) == turn \in Shape /\ FloorHeld(turn) /\ FactsHeld(turn)

TurnInvariant ==
  /\ published \in Releases
  /\ DOMAIN turns = Requests
  /\ turns = [q \in Requests |-> turns[q]]
  /\ \A q \in Requests : Held(turns[q])

\* What may be answered while a turn is in its present stage.
Fits(turn, reply) ==
  /\ reply \in Reply
  /\ turn.floor # "quiet" /\ Written /\ reply.status = "ok" => reply.emergency
  /\ turn.floor # "emergency" \/ reply.status = "ok"
  /\ One(reply.facts)

-----------------------------------------------------------------------------
(***************************************************************************)
(* Changing one turn.                                                      *)
(***************************************************************************)
LEMMA SetHeld ==
  ASSUME TurnInvariant, NEW q \in Requests, NEW turn, Held(turn), Set(q, turn)
  PROVE  TurnInvariant'
BY DEF TurnInvariant, Set

LEMMA Entered ==
  ASSUME NEW turn \in Shape, NEW pc \in Answering \cup {"floorHelp"}, NEW helps \in Int
  PROVE  [turn EXCEPT !.pc = pc, !.since = 0, !.seen = {}, !.helps = helps] \in Shape
<1> DEFINE entered == [turn EXCEPT !.pc = pc]
           timed == [entered EXCEPT !.since = 0]
           started == [timed EXCEPT !.seen = {}]
<1>1. entered \in Shape
  BY DEF Shape
<1>2. timed \in Shape
  <2> HIDE DEF entered
  <2> QED
    BY <1>1 DEF Shape
<1>3. started \in Shape
  <2> HIDE DEF timed
  <2> QED
    BY <1>2 DEF Shape
<1>4. [started EXCEPT !.helps = helps] \in Shape
  <2> HIDE DEF started
  <2> QED
    BY <1>3 DEF Shape
<1> QED
  BY <1>4

LEMMA InHeld ==
  ASSUME NEW turn \in Shape, NEW pc \in Answering \cup {"floorHelp"},
         turn.floor # "emergency" \/ pc = "floorHelp",
         turn.facts \subseteq {turn.pin}, One(turn.facts \cup turn.reply.facts),
         pc \in Early => turn.facts = {},
         pc \notin Replied => turn.reply.facts = {}
  PROVE  Held(In(turn, pc))
<1> DEFINE next == In(turn, pc)
<1>1. /\ turn.helps \in Int
      /\ turn \in Shape
  BY DEF Held, Shape
<1>2. /\ next.pc = pc /\ next.floor = turn.floor /\ next.facts = turn.facts
      /\ next.pin = turn.pin /\ next.reply = turn.reply
  BY <1>1 DEF In, Shape
<1>3. next.helps \in Int
  BY <1>1 DEF In, Shape
<1>4. next \in Shape
  BY <1>1, <1>3, Entered DEF In
<1> QED
  BY <1>2, <1>4 DEF Held, FloorHeld, FactsHeld, Answering

LEMMA DoneHeld ==
  ASSUME NEW turn \in Shape, NEW reply \in Reply, One(reply.facts),
         turn.floor # "quiet" /\ Written => reply.emergency
  PROVE  Held(Done(turn, reply))
<1> DEFINE done == Done(turn, reply)
<1>1. /\ done.pc = "done" /\ done.floor = turn.floor /\ done.reply = reply
      /\ done.facts = {}
  BY DEF Done
<1>2. /\ turn.floor \in Floor /\ turn.helps \in Int
      /\ turn.danger \in {"none", "read", "late", "model"}
  BY DEF Held, Shape
<1>3. done \in Shape
  BY <1>2 DEF Done, Shape
<1> QED
  BY <1>1, <1>3 DEF Held, FloorHeld, FactsHeld, Early, Replied
-----------------------------------------------------------------------------
(***************************************************************************)
(* The replies of a turn under way.                                        *)
(***************************************************************************)
LEMMA NothingOne == One({})
BY TurnAssumption DEF One, Releases

LEMMA Replies ==
  /\ Failed \in Reply /\ Failed.facts = {} /\ Failed.status = "failed"
  /\ \A emergency \in BOOLEAN, facts \in SUBSET Releases :
       /\ Ok(emergency, facts) \in Reply /\ Ok(emergency, facts).facts = facts
       /\ Ok(emergency, facts).status = "ok" /\ Ok(emergency, facts).emergency = emergency
  /\ \A code \in SUBSET Releases :
       /\ [Ok(FALSE, {}) EXCEPT !.code = code] \in Reply
       /\ [Ok(FALSE, {}) EXCEPT !.code = code].facts = {}
BY DEF Failed, Ok, Reply

LEMMA AnswerKept ==
  ASSUME TurnInvariant, NEW q \in Requests, NEW reply, Fits(turns[q], reply), Answer(q, reply)
  PROVE  TurnInvariant'
<1> DEFINE said == IF turns[q].floor = "asks" /\ reply.status # "ok"
                   THEN Ok(TRUE, {}) ELSE reply
<1>1. turns[q] \in Shape /\ turns[q].floor \in Floor
  BY DEF TurnInvariant, Held, Shape
<1>2. said \in Reply /\ One(said.facts)
  BY Replies, NothingOne DEF Fits
<1>3. turns[q].floor # "quiet" /\ Written => said.emergency
  BY <1>1, Replies DEF Fits, Floor
<1>4. Held(Done(turns[q], said))
  BY <1>1, <1>2, <1>3, DoneHeld
<1> QED
  BY <1>4, SetHeld DEF Answer

LEMMA FailKept ==
  ASSUME TurnInvariant, NEW q \in Requests, turns[q].floor # "emergency", Fail(q)
  PROVE  TurnInvariant'
BY AnswerKept, Replies, NothingOne DEF Fail, Fits

LEMMA WaitKept ==
  ASSUME TurnInvariant, NEW q \in Requests, NEW pc \in Answering \ Replied,
         turns[q].pc \notin Replied, turns[q].floor # "emergency",
         pc \in Early => turns[q].facts = {}, Wait(q, pc)
  PROVE  TurnInvariant'
<1>1. Held(In(turns[q], pc))
  BY InHeld DEF TurnInvariant, Held, FactsHeld
<1> QED
  BY <1>1, SetHeld DEF Wait

LEMMA CampusReplyKept ==
  ASSUME TurnInvariant, NEW q \in Requests, NEW reply \in Reply,
         turns[q].floor # "emergency", One(turns[q].facts \cup reply.facts),
         CampusReply(q, reply)
  PROVE  TurnInvariant'
<1> DEFINE turn == [turns[q] EXCEPT !.reply = reply]
<1>1. turns[q] \in Shape /\ turns[q].floor \in Floor
  BY DEF TurnInvariant, Held, Shape
<1>2. /\ turn \in Shape /\ turn.floor = turns[q].floor /\ turn.danger = turns[q].danger
      /\ turn.facts = turns[q].facts /\ turn.pin = turns[q].pin /\ turn.reply = reply
  BY <1>1 DEF Shape
<1>3. ASSUME NEW pc \in {"besideHelp", "support"}
      PROVE  Held(In(turn, pc))
  <2>1. pc \in Answering /\ pc \notin Early /\ pc \in Replied
    BY DEF Answering, Early, Replied
  <2> QED
    BY <1>2, <2>1, InHeld DEF TurnInvariant, Held, FactsHeld
<1>4. One(reply.facts)
  BY DEF One
<1>5. CASE reply.status # "ok"
  BY <1>5, FailKept DEF CampusReply
<1>6. CASE reply.status = "ok" /\ (reply.emergency \/ ~Written)
  <2>1. Fits(turns[q], reply)
    BY <1>4, <1>6 DEF Fits
  <2> QED
    BY <1>6, <2>1, AnswerKept DEF CampusReply
<1>7. CASE reply.status = "ok" /\ ~(reply.emergency \/ ~Written)
  <2>1. CASE Set(q, In(turn, "besideHelp"))
    BY <1>3, <2>1, SetHeld
  <2>2. CASE Set(q, In(turn, "support"))
    BY <1>3, <2>2, SetHeld
  <2>3. CASE ~Beside(turn) /\ Answer(q, reply)
    <3>1. turns[q].floor = "quiet"
      BY <1>1, <1>2, <1>7, <2>3 DEF Beside, Floor
    <3>2. Fits(turns[q], reply)
      BY <1>4, <3>1, <1>7 DEF Fits
    <3> QED
      BY <2>3, <3>2, AnswerKept
  <2> QED
    BY <1>7, <2>1, <2>2, <2>3 DEF CampusReply
<1> QED
  BY <1>5, <1>6, <1>7

LEMMA FallbackKept ==
  ASSUME TurnInvariant, NEW q \in Requests, turns[q].floor # "emergency",
         NEW changed, Fallback(q, changed)
  PROVE  TurnInvariant'
<1>1. turns[q].facts \in SUBSET Releases /\ One(turns[q].facts)
  BY DEF TurnInvariant, Held, Shape, FactsHeld, One
<1>2. One(turns[q].facts \cup Failed.facts)
      /\ One(turns[q].facts \cup Ok(FALSE, turns[q].facts).facts)
  BY <1>1, Replies
<1> QED
  BY <1>1, <1>2, Replies, CampusReplyKept DEF Fallback

-----------------------------------------------------------------------------
(***************************************************************************)
(* Every step keeps the invariant.                                         *)
(***************************************************************************)
LEMMA InitInvariant == Init => TurnInvariant
<1> SUFFICES ASSUME Init
             PROVE  TurnInvariant
  OBVIOUS
<1>1. NewTurn \in Shape
  BY Replies DEF NewTurn, Shape, None, Floor
<1>2. Held(NewTurn)
  BY <1>1, Replies, NothingOne DEF Held, FloorHeld, FactsHeld, NewTurn, Early, Replied
<1>3. published \in Releases
  BY TurnAssumption DEF Init, Releases
<1> QED
  BY <1>2, <1>3 DEF Init, TurnInvariant

\* The stages whose turn is not one the phrase floor alone answers.
LEMMA Asked ==
  ASSUME TurnInvariant, NEW q \in Requests, turns[q].pc \notin {"floorHelp", "done"}
  PROVE  turns[q].floor # "emergency"
BY DEF TurnInvariant, Held, FloorHeld

LEMMA ChosenRelease ==
  ASSUME TurnInvariant, NEW facts \in {{}, {published}}
  PROVE  facts \in SUBSET Releases /\ One(facts)
BY DEF TurnInvariant, One

LEMMA BeginKept ==
  ASSUME TurnInvariant, NEW q \in Requests, turns[q].pc \in {"new", "floorHelp"},
         turns[q].floor # "emergency", NEW turn \in Begin(turns[q]), Set(q, turn)
  PROVE  TurnInvariant'
<1> DEFINE started == [turns[q] EXCEPT !.clock = 0]
<1>1. PICK pc \in {"read", "prelude"} : turn = In(started, pc)
  BY DEF Begin
<1>2. turns[q] \in Shape /\ FactsHeld(turns[q])
  BY DEF TurnInvariant, Held
<1>3. /\ started \in Shape /\ started.floor = turns[q].floor
      /\ started.facts = turns[q].facts /\ started.pin = turns[q].pin
      /\ started.reply = turns[q].reply
  BY <1>2 DEF Shape
<1>4. started.facts = {} /\ started.reply.facts = {}
  BY <1>2, <1>3 DEF FactsHeld, Early, Replied
<1>5. pc \in Answering
  BY DEF Answering
<1>6. Held(In(started, pc))
  BY <1>2, <1>3, <1>4, <1>5, InHeld DEF FactsHeld
<1> QED
  BY <1>1, <1>6, SetHeld

LEMMA ArriveKept ==
  ASSUME TurnInvariant, NEW q \in Requests, Arrive(q)
  PROVE  TurnInvariant'
<1>1. turns[q].pc = "new" /\ turns[q] \in Shape /\ FactsHeld(turns[q])
      /\ turns[q].floor = "quiet"
  BY DEF Arrive, TurnInvariant, Held, FloorHeld
<1>2. ASSUME NEW floor \in {"emergency", "asks"},
             Set(q, In([turns[q] EXCEPT !.floor = floor], "floorHelp"))
      PROVE  TurnInvariant'
  <2> DEFINE turn == [turns[q] EXCEPT !.floor = floor]
  <2>1. /\ turn \in Shape /\ turn.facts = turns[q].facts /\ turn.pin = turns[q].pin
        /\ turn.reply = turns[q].reply
    BY <1>1 DEF Shape, Floor
  <2>2. Held(In(turn, "floorHelp"))
    BY <1>1, <2>1, InHeld DEF FactsHeld, Early, Replied
  <2> QED
    BY <1>2, <2>2, SetHeld
<1>3. CASE Answer(q, [Failed EXCEPT !.status = "busy"])
  <2>1. Fits(turns[q], [Failed EXCEPT !.status = "busy"])
    BY <1>1, NothingOne DEF Fits, Failed, Reply
  <2> QED
    BY <1>3, <2>1, AnswerKept
<1>4. ASSUME NEW turn \in Begin(turns[q]), Set(q, turn)
      PROVE  TurnInvariant'
  BY <1>1, <1>4, BeginKept
<1> QED
  BY <1>2, <1>3, <1>4 DEF Arrive

LEMMA EmergencyFits ==
  ASSUME TurnInvariant, NEW q \in Requests
  PROVE  Fits(turns[q], Ok(TRUE, {}))
BY Replies, NothingOne DEF Fits

LEMMA FloorRepliesKept ==
  ASSUME TurnInvariant, NEW q \in Requests, FloorReplies(q)
  PROVE  TurnInvariant'
BY EmergencyFits, AnswerKept, BeginKept DEF FloorReplies

LEMMA ReadKept ==
  ASSUME TurnInvariant, NEW q \in Requests, Read(q)
  PROVE  TurnInvariant'
<1>1. /\ turns[q].pc = "read" /\ turns[q].floor # "emergency"
      /\ turns[q] \in Shape /\ FactsHeld(turns[q])
  BY Asked DEF Read, TurnInvariant, Held
<1>2. turns[q].facts = {}
  BY <1>1 DEF FactsHeld, Early
<1>3. CASE Wait(q, "prelude")
  BY <1>1, <1>2, <1>3, WaitKept DEF Answering, Replied
<1>4. ASSUME NEW found \in {"read", "late"},
             Set(q, In([turns[q] EXCEPT !.danger = found], "readHelp"))
      PROVE  TurnInvariant'
  <2> DEFINE turn == [turns[q] EXCEPT !.danger = found]
  <2>1. /\ turn \in Shape /\ turn.facts = turns[q].facts /\ turn.pin = turns[q].pin
        /\ turn.reply = turns[q].reply /\ turn.floor = turns[q].floor
    BY <1>1 DEF Shape
  <2>2. Held(In(turn, "readHelp"))
    BY <1>1, <1>2, <2>1, InHeld DEF FactsHeld, Answering, Early, Replied
  <2> QED
    BY <1>4, <2>2, SetHeld
<1>5. CASE CampusReply(q, Ok(FALSE, {}))
  BY <1>1, <1>2, <1>5, Replies, NothingOne, CampusReplyKept
<1> QED
  BY <1>3, <1>4, <1>5 DEF Read

\* A reader of code's own answers changes only what was read.
LEMMA CodeReadsSet ==
  ASSUME TurnInvariant, NEW q \in Requests, CodeReads(q)
  PROVE  \E turn \in Shape :
           /\ Set(q, turn) /\ turn.seen \in SUBSET Releases
           /\ \A field \in DOMAIN turns[q] \ {"seen"} : turn[field] = turns[q][field]
           /\ turn.pc = "prelude" /\ turns[q].pc = "prelude"
<1> DEFINE turn == [turns[q] EXCEPT !.seen = @ \cup {published}]
<1>1. turns[q] \in Shape /\ published \in Releases /\ turns[q].pc = "prelude" /\ Set(q, turn)
  BY DEF CodeReads, TurnInvariant, Held
<1>2. turn \in Shape /\ turn.pc = "prelude"
  BY <1>1 DEF Shape
<1>3. \A field \in DOMAIN turns[q] \ {"seen"} : turn[field] = turns[q][field]
  BY <1>1 DEF Shape
<1> QED
  BY <1>1, <1>2, <1>3 DEF Shape

LEMMA CodeReadsKept ==
  ASSUME TurnInvariant, NEW q \in Requests, CodeReads(q)
  PROVE  TurnInvariant'
<1>1. PICK turn \in Shape :
        /\ Set(q, turn) /\ turn.seen \in SUBSET Releases
        /\ \A field \in DOMAIN turns[q] \ {"seen"} : turn[field] = turns[q][field]
        /\ turn.pc = "prelude" /\ turns[q].pc = "prelude"
  BY CodeReadsSet
<1>2. turns[q] \in Shape /\ FloorHeld(turns[q]) /\ FactsHeld(turns[q])
  BY DEF TurnInvariant, Held
<1>3. /\ turn.floor = turns[q].floor /\ turn.facts = turns[q].facts
      /\ turn.pin = turns[q].pin /\ turn.reply = turns[q].reply
  BY <1>1, <1>2 DEF Shape
<1>4. Held(turn)
  BY <1>1, <1>2, <1>3 DEF Held, FloorHeld, FactsHeld
<1> QED
  BY <1>1, <1>4, SetHeld

LEMMA PreludeKept ==
  ASSUME TurnInvariant, NEW q \in Requests, ReadReplies(q) \/ Prelude(q)
  PROVE  TurnInvariant'
<1>1. /\ turns[q].pc \in {"readHelp", "prelude"} /\ turns[q].floor # "emergency"
      /\ FactsHeld(turns[q]) /\ turns[q].pc \notin Replied
  BY Asked DEF ReadReplies, Prelude, TurnInvariant, Held, Replied
<1>2. turns[q].facts = {}
  BY <1>1 DEF FactsHeld, Early
<1>3. CASE Answer(q, Ok(TRUE, {}))
  BY <1>3, EmergencyFits, AnswerKept
<1>4. ASSUME NEW pc \in {"prelude", "loop"}, Wait(q, pc)
      PROVE  TurnInvariant'
  BY <1>1, <1>2, <1>4, WaitKept DEF Answering, Replied
<1>5. CASE CampusReply(q, [Ok(FALSE, {}) EXCEPT !.code = turns[q].seen])
  <2>1. turns[q].seen \in SUBSET Releases
    BY DEF TurnInvariant, Held, Shape
  <2> QED
    BY <1>1, <1>2, <1>5, <2>1, Replies, NothingOne, CampusReplyKept
<1>6. CASE Fallback(q, FALSE)
  BY <1>1, <1>6, FallbackKept
<1> QED
  BY <1>3, <1>4, <1>5, <1>6 DEF ReadReplies, Prelude

LEMMA AskKept ==
  ASSUME TurnInvariant, NEW q \in Requests, Ask(q)
  PROVE  TurnInvariant'
<1> DEFINE turn == [turns[q] EXCEPT !.attempts = @ + 1]
<1>1. /\ turns[q].pc = "loop" /\ turns[q].floor # "emergency"
      /\ turns[q] \in Shape /\ FactsHeld(turns[q])
  BY Asked DEF Ask, TurnInvariant, Held
<1>2. /\ turn \in Shape /\ turn.facts = turns[q].facts /\ turn.pin = turns[q].pin
      /\ turn.reply = turns[q].reply /\ turn.floor = turns[q].floor
  BY <1>1 DEF Shape
<1>3. Held(In(turn, "lookup"))
  BY <1>1, <1>2, InHeld DEF FactsHeld, Answering, Early, Replied
<1> QED
  BY <1>3, SetHeld DEF Ask

\* The facts of a turn are of its pin, so a lookup that reads another release adds to
\* nothing.
LEMMA LookupKept ==
  ASSUME TurnInvariant, NEW q \in Requests, Lookup(q)
  PROVE  TurnInvariant'
<1>1. /\ turns[q].pc = "lookup" /\ turns[q].floor # "emergency"
      /\ turns[q] \in Shape /\ FactsHeld(turns[q]) /\ published \in Releases
      /\ turns[q].pin \in {None, published}
  BY Asked DEF Lookup, TurnInvariant, Held
<1>2. PICK facts \in {{}, {published}} :
        Set(q, In([turns[q] EXCEPT !.pin = published, !.facts = @ \cup facts], "loop"))
  BY DEF Lookup
<1> DEFINE pinned == [turns[q] EXCEPT !.pin = published]
           turn == [pinned EXCEPT !.facts = turns[q].facts \cup facts]
<1>3. turns[q].facts \subseteq {published}
  BY <1>1, TurnAssumption DEF FactsHeld, Shape, None, Releases
<1>4. /\ pinned \in Shape /\ pinned.facts = turns[q].facts /\ pinned.pin = published
      /\ pinned.reply = turns[q].reply /\ pinned.floor = turns[q].floor
  BY <1>1 DEF Shape
<1>5. turns[q].facts \cup facts \in SUBSET Releases
  BY <1>1, <1>2, <1>3
<1>6. /\ turn \in Shape /\ turn.facts = turns[q].facts \cup facts /\ turn.pin = published
      /\ turn.reply = turns[q].reply /\ turn.floor = turns[q].floor
  <2> HIDE DEF pinned
  <2> QED
    BY <1>4, <1>5 DEF Shape
<1>7. turn.reply.facts = {}
  BY <1>1, <1>6 DEF FactsHeld, Replied
<1>8. turn.facts \subseteq {published} /\ One(turn.facts \cup turn.reply.facts)
  BY <1>1, <1>3, <1>6, <1>7 DEF One
<1>9. Held(In(turn, "loop"))
  <2> HIDE DEF turn
  <2> QED
    BY <1>1, <1>6, <1>7, <1>8, InHeld DEF Answering, Early, Replied
<1>10. turn = [turns[q] EXCEPT !.pin = published, !.facts = @ \cup facts]
  BY <1>1 DEF Shape
<1> QED
  BY <1>2, <1>9, <1>10, SetHeld

LEMMA FallingBackKept ==
  ASSUME TurnInvariant, NEW q \in Requests,
         DatasetChanges(q) \/ Stuck(q) \/ TurnTimeout(q)
  PROVE  TurnInvariant'
<1>1. turns[q].floor # "emergency"
  BY Asked DEF DatasetChanges, Stuck, TurnTimeout, Limited
<1> QED
  BY <1>1, FallbackKept DEF DatasetChanges, Stuck, TurnTimeout

LEMMA FinishKept ==
  ASSUME TurnInvariant, NEW q \in Requests, Finish(q)
  PROVE  TurnInvariant'
<1>1. /\ turns[q].pc = "loop" /\ turns[q].floor # "emergency"
      /\ turns[q] \in Shape /\ FactsHeld(turns[q])
  BY Asked DEF Finish, TurnInvariant, Held
<1>2. turns[q].facts \in SUBSET Releases /\ One(turns[q].facts)
  BY <1>1 DEF Shape, FactsHeld, One
<1>3. CASE CampusReply(q, Ok(FALSE, turns[q].facts))
  BY <1>1, <1>2, <1>3, Replies, CampusReplyKept
<1>4. CASE Fallback(q, FALSE)
  BY <1>1, <1>4, FallbackKept
<1>5. ASSUME NEW pc \in {"finishHelp", "safetyHelp"}, NEW danger \in {"none", "read", "late", "model"},
             Set(q, In([turns[q] EXCEPT !.danger = danger], pc))
      PROVE  TurnInvariant'
  <2> DEFINE turn == [turns[q] EXCEPT !.danger = danger]
  <2>1. /\ turn \in Shape /\ turn.facts = turns[q].facts /\ turn.pin = turns[q].pin
        /\ turn.reply = turns[q].reply /\ turn.floor = turns[q].floor
    BY <1>1 DEF Shape
  <2>2. Held(In(turn, pc))
    BY <1>1, <2>1, InHeld DEF FactsHeld, Answering, Early, Replied
  <2> QED
    BY <1>5, <2>2, SetHeld
<1>6. (IF turns[q].danger = "none" THEN "model" ELSE turns[q].danger)
         \in {"none", "read", "late", "model"}
  BY <1>1 DEF Shape
<1> QED
  BY <1>3, <1>4, <1>5, <1>6 DEF Finish

LEMMA ComposeKept ==
  ASSUME TurnInvariant, NEW q \in Requests, Compose(q) \/ SafetyReplies(q)
  PROVE  TurnInvariant'
<1>1. /\ turns[q].pc \in {"finishHelp", "safetyHelp"} /\ turns[q].floor # "emergency"
      /\ turns[q] \in Shape /\ FactsHeld(turns[q])
  BY Asked DEF Compose, SafetyReplies, TurnInvariant, Held
<1>2. Fits(turns[q], Ok(TRUE, turns[q].facts))
  BY <1>1, Replies DEF Fits, FactsHeld, One, Shape
<1>3. CASE Wait(q, "safetyHelp")
  BY <1>1, <1>3, WaitKept DEF Answering, Replied, Early
<1> QED
  BY <1>2, <1>3, EmergencyFits, AnswerKept DEF Compose, SafetyReplies

LEMMA AddedShape ==
  ASSUME TurnInvariant, NEW q \in Requests, NEW turn \in Added(turns[q])
  PROVE  /\ turn \in Shape /\ turn.facts = turns[q].facts /\ turn.pin = turns[q].pin
         /\ turn.floor = turns[q].floor /\ turn.reply.facts = turns[q].reply.facts
         /\ turn.reply \in Reply
<1>1. PICK more \in {{}, {published}} :
        turn = [turns[q] EXCEPT !.reply.added = @ \cup more]
  BY DEF Added
<1> DEFINE reply == [turns[q].reply EXCEPT !.added = @ \cup more]
<1>2. turns[q] \in Shape /\ turns[q].reply \in Reply
  BY DEF TurnInvariant, Held, Shape
<1>3. reply \in Reply /\ reply.facts = turns[q].reply.facts
  BY <1>2, ChosenRelease DEF Reply
<1>4. turn = [turns[q] EXCEPT !.reply = reply]
  BY <1>1
<1> QED
  <2> HIDE DEF reply
  <2> QED
    BY <1>2, <1>3, <1>4 DEF Shape

LEMMA SupportKept ==
  ASSUME TurnInvariant, NEW q \in Requests, Support(q)
  PROVE  TurnInvariant'
<1>1. /\ turns[q].pc = "support" /\ turns[q].floor # "emergency"
      /\ turns[q] \in Shape /\ FactsHeld(turns[q]) /\ turns[q].floor \in Floor
  BY Asked DEF Support, TurnInvariant, Held, Shape
<1>2. PICK turn \in Added(turns[q]) :
        Set(q, IF Beside(turn) THEN In(turn, "besideHelp") ELSE Done(turn, turn.reply))
  BY DEF Support
<1>3. /\ turn \in Shape /\ turn.facts = turns[q].facts /\ turn.pin = turns[q].pin
      /\ turn.floor = turns[q].floor /\ turn.reply.facts = turns[q].reply.facts
      /\ turn.reply \in Reply
  BY AddedShape
<1>4. Held(In(turn, "besideHelp"))
  BY <1>1, <1>3, InHeld DEF FactsHeld, Answering, Early, Replied
<1>5. ~Beside(turn) => Held(Done(turn, turn.reply))
  <2>1. One(turn.reply.facts)
    BY <1>1, <1>3 DEF FactsHeld, One
  <2>2. ~Beside(turn) => ~(turn.floor # "quiet" /\ Written)
    BY <1>1, <1>3 DEF Beside, Floor
  <2> QED
    BY <1>3, <2>1, <2>2, DoneHeld
<1> QED
  BY <1>2, <1>4, <1>5, SetHeld

LEMMA BesideRepliesKept ==
  ASSUME TurnInvariant, NEW q \in Requests, BesideReplies(q)
  PROVE  TurnInvariant'
<1>1. /\ turns[q].pc = "besideHelp" /\ FactsHeld(turns[q])
  BY DEF BesideReplies, TurnInvariant, Held
<1>2. PICK turn \in Added(turns[q]) :
        Set(q, Done(turn, [turn.reply EXCEPT !.emergency = TRUE]))
  BY DEF BesideReplies
<1>3. turn \in Shape /\ turn.reply.facts = turns[q].reply.facts /\ turn.reply \in Reply
  BY AddedShape
<1> DEFINE reply == [turn.reply EXCEPT !.emergency = TRUE]
<1>4. reply \in Reply /\ reply.facts = turns[q].reply.facts /\ reply.emergency = TRUE
  BY <1>3 DEF Reply
<1>5. One(reply.facts)
  BY <1>1, <1>4 DEF FactsHeld, One
<1>6. Held(Done(turn, reply))
  <2> HIDE DEF reply
  <2> QED
    BY <1>3, <1>4, <1>5, DoneHeld
<1> QED
  BY <1>2, <1>6, SetHeld

LEMMA TickKept ==
  ASSUME TurnInvariant, NEW q \in Requests, Tick(q)
  PROVE  TurnInvariant'
<1> DEFINE timed == [turns[q] EXCEPT !.clock = @ + 1]
           turn == [timed EXCEPT !.since = @ + 1]
<1>1. turns[q] \in Shape /\ FloorHeld(turns[q]) /\ FactsHeld(turns[q])
  BY DEF TurnInvariant, Held
<1>2. /\ timed \in Shape /\ timed.pc = turns[q].pc /\ timed.floor = turns[q].floor
      /\ timed.facts = turns[q].facts /\ timed.pin = turns[q].pin
      /\ timed.reply = turns[q].reply
  BY <1>1 DEF Shape
<1>3. /\ turn \in Shape /\ turn.pc = turns[q].pc /\ turn.floor = turns[q].floor
      /\ turn.facts = turns[q].facts /\ turn.pin = turns[q].pin
      /\ turn.reply = turns[q].reply
  <2> HIDE DEF timed
  <2> QED
    BY <1>2 DEF Shape
<1>4. turn = [turns[q] EXCEPT !.clock = @ + 1, !.since = @ + 1]
  BY <1>1 DEF Shape
<1>5. Held(turn)
  BY <1>1, <1>3 DEF Held, FloorHeld, FactsHeld
<1> QED
  BY <1>4, <1>5, SetHeld DEF Tick

\* The limits and failures that end a turn, and the client that leaves.
LEMMA EndingKept ==
  ASSUME TurnInvariant, NEW q \in Requests,
         BesideTimeout(q) \/ OuterTimeout(q) \/ Break(q) \/ ClientLeaves(q)
  PROVE  TurnInvariant'
<1>1. turns[q].floor # "emergency"
  BY Asked DEF BesideTimeout, OuterTimeout, Break, ClientLeaves, Answering
<1>2. /\ Fits(turns[q], Failed)
      /\ Fits(turns[q], [Failed EXCEPT !.status = "gone"])
  BY <1>1, NothingOne DEF Fits, Failed, Reply
<1> QED
  BY <1>1, <1>2, FailKept, AnswerKept DEF BesideTimeout, OuterTimeout, Break, ClientLeaves

LEMMA StepInvariant == TurnInvariant /\ [Next]_vars => TurnInvariant'
<1> SUFFICES ASSUME TurnInvariant, [Next]_vars
             PROVE  TurnInvariant'
  OBVIOUS
<1>1. CASE Publish
  <2>1. published' \in Releases
    BY <1>1, TurnAssumption DEF Publish, TurnInvariant, Releases
  <2> QED
    BY <1>1, <2>1 DEF Publish, TurnInvariant
<1>2. ASSUME NEW q \in Requests, Arrive(q) \/ Tick(q) \/ Expire(q)
      PROVE  TurnInvariant'
  BY <1>2, ArriveKept, TickKept, FloorRepliesKept, PreludeKept, ComposeKept,
     BesideRepliesKept, FallingBackKept, EndingKept DEF Expire
<1>3. ASSUME NEW q \in Requests,
             \/ Read(q) \/ CodeReads(q) \/ Prelude(q) \/ Ask(q) \/ Lookup(q)
             \/ DatasetChanges(q) \/ Stuck(q) \/ Finish(q)
      PROVE  TurnInvariant'
  BY <1>3, ReadKept, CodeReadsKept, PreludeKept, AskKept, LookupKept, FallingBackKept, FinishKept
<1>4. ASSUME NEW q \in Requests, Support(q) \/ Break(q) \/ ClientLeaves(q)
      PROVE  TurnInvariant'
  BY <1>4, SupportKept, EndingKept
<1>5. CASE UNCHANGED vars
  BY <1>5 DEF vars, TurnInvariant
<1> QED
  BY <1>1, <1>2, <1>3, <1>4, <1>5 DEF Next

LEMMA Invariance == Spec => []TurnInvariant
<1> QED
  BY InitInvariant, StepInvariant, PTL DEF Spec

-----------------------------------------------------------------------------
(***************************************************************************)
(* The theorems.                                                           *)
(***************************************************************************)
\* In the written output a message the phrase floor caught is answered with an emergency
\* text first, whatever becomes of the question beside it: the failures, limits, changed
\* releases and clients that leave of any number of requests.
THEOREM FloorStands ==
  ASSUME Written
  PROVE  Spec => []FloorKept
<1>1. TurnInvariant => FloorKept
  BY DEF TurnInvariant, Held, FloorHeld, FloorKept
<1> QED
  BY <1>1, Invariance, PTL

\* The lookups an answer is made of are of one release, however many are published between
\* them: in every output (engine.py _campus_answer).  An answer of code's own is not one of
\* lookups, and has no such promise.
THEOREM OneRelease == Spec => []LookupsOfOneRelease
<1>1. TurnInvariant => LookupsOfOneRelease
  <2> SUFFICES ASSUME TurnInvariant, NEW q \in Requests
               PROVE  Cardinality(turns[q].facts \cup turns[q].reply.facts) <= 1
    BY DEF LookupsOfOneRelease
  <2>1. PICK r \in Releases : turns[q].facts \cup turns[q].reply.facts \subseteq {r}
    BY DEF TurnInvariant, Held, FactsHeld, One
  <2>2. IsFiniteSet({r}) /\ Cardinality({r}) = 1
    BY FS_Singleton
  <2> QED
    BY <2>1, <2>2, FS_Subset
<1> QED
  BY <1>1, Invariance, PTL

-----------------------------------------------------------------------------
(***************************************************************************)
(* An emergency the read or the model named.  It reaches its reply in time *)
(* as long as the whole answer is given at least a second beyond the turn  *)
(* and one reading of the campus numbers.                                  *)
(***************************************************************************)
\* The second reading of the numbers for one reply is what the limit of the whole answer
\* has no room for.
SaidTwice(turn) == turn.danger = "model" /\ turn.helps = 2

\* Which stages an emergency passes through.
DangerHeld(turn) ==
  /\ turn.pc = "read" \/ ReadFound(turn) => Written
  /\ turn.pc = "readHelp" => ReadFound(turn)
  /\ turn.pc \in {"new", "floorHelp", "read", "support"} => turn.danger = "none"
  /\ turn.danger = "none" => turn.pc \notin {"finishHelp", "safetyHelp"}
  /\ turn.danger = "none" /\ turn.pc # "besideHelp" /\ turn.pc # "done" => turn.helps = 0
  /\ turn.danger = "model" => turn.pc \in {"finishHelp", "safetyHelp", "done"}

\* How much of the limit of the whole answer is left to it there.
ClockHeld(turn) ==
  /\ turn.pc \in Limited => turn.clock <= TurnSeconds
  /\ turn.danger = "read" =>
       /\ turn.clock <= TurnSeconds + HelpSeconds
       /\ turn.pc = "readHelp" =>
            turn.clock <= TurnSeconds + turn.since /\ turn.since <= HelpSeconds
  /\ turn.danger = "model" /\ turn.pc # "done" =>
       /\ turn.helps = 1 \/ (turn.helps = 2 /\ turn.pc = "safetyHelp")
       /\ turn.helps = 1 =>
            turn.clock <= TurnSeconds + turn.since /\ turn.since <= HelpSeconds

Said(turn) ==
  turn.pc = "done" /\ turn.reply.status # "gone" /\ turn.danger \in {"read", "model"}
    => turn.reply.emergency \/ SaidTwice(turn)

Timely(turn) == DangerHeld(turn) /\ ClockHeld(turn) /\ Said(turn)

AllTimely == \A q \in Requests : Timely(turns[q])

-----------------------------------------------------------------------------
(***************************************************************************)
(* Changing one turn.                                                      *)
(***************************************************************************)
LEMMA SetTimely ==
  ASSUME TurnInvariant, AllTimely, NEW q \in Requests, NEW turn, Timely(turn), Set(q, turn)
  PROVE  AllTimely'
BY DEF TurnInvariant, AllTimely, Set

LEMMA InFields ==
  ASSUME NEW turn \in Shape, NEW pc
  PROVE  /\ In(turn, pc).pc = pc /\ In(turn, pc).danger = turn.danger
         /\ In(turn, pc).clock = turn.clock /\ In(turn, pc).since = 0
         /\ pc \notin Helping \ {"floorHelp"} => In(turn, pc).helps = turn.helps
         /\ pc \in Helping \ {"floorHelp"} => In(turn, pc).helps = turn.helps + 1
         /\ In(turn, pc).reply = turn.reply
BY DEF In, Shape

LEMMA ShapeFields ==
  ASSUME NEW turn \in Shape
  PROVE  /\ turn.clock \in Int /\ turn.since \in Int /\ turn.helps \in Int
         /\ turn.floor \in Floor /\ turn.reply \in Reply
         /\ turn.danger \in {"none", "read", "late", "model"}
BY DEF Shape

\* A reply that has the emergency, that no one waits for, or that needs none.
Enough(turn, reply) ==
  \/ reply.emergency
  \/ reply.status = "gone"
  \/ turn.danger \in {"none", "late"}
  \/ SaidTwice(turn)

LEMMA DoneTimely ==
  ASSUME NEW turn \in Shape, NEW reply \in Reply, Enough(turn, reply),
         ReadFound(turn) => Written
  PROVE  Timely(Done(turn, reply))
<1> DEFINE done == Done(turn, reply)
<1>1. /\ done.pc = "done" /\ done.danger = turn.danger /\ done.helps = turn.helps
      /\ done.reply = reply /\ done.clock = 0
  BY DEF Done
<1>2. DangerHeld(done)
  BY <1>1 DEF DangerHeld, ReadFound
<1>3. ClockHeld(done)
  BY <1>1, TurnAssumption DEF ClockHeld, Limited
<1>4. Said(done)
  BY <1>1 DEF Said, Enough, SaidTwice
<1> QED
  BY <1>2, <1>3, <1>4 DEF Timely

LEMMA AnswerTimely ==
  ASSUME TurnInvariant, AllTimely, NEW q \in Requests, NEW reply \in Reply,
         Enough(turns[q], reply), Answer(q, reply)
  PROVE  AllTimely'
<1> DEFINE said == IF turns[q].floor = "asks" /\ reply.status # "ok"
                   THEN Ok(TRUE, {}) ELSE reply
<1>1. turns[q] \in Shape /\ (ReadFound(turns[q]) => Written)
  BY DEF TurnInvariant, Held, AllTimely, Timely, DangerHeld
<1>2. said \in Reply /\ Enough(turns[q], said)
  BY Replies DEF Enough
<1>3. Timely(Done(turns[q], said))
  BY <1>1, <1>2, DoneTimely
<1> QED
  BY <1>3, SetTimely DEF Answer

LEMMA EmergencyTimely ==
  ASSUME TurnInvariant, AllTimely, NEW q \in Requests,
         NEW facts \in SUBSET Releases, Answer(q, Ok(TRUE, facts))
  PROVE  AllTimely'
BY AnswerTimely, Replies DEF Enough

LEMMA FailTimely ==
  ASSUME TurnInvariant, AllTimely, NEW q \in Requests, turns[q].danger # "model", Fail(q)
  PROVE  AllTimely'
<1>1. turns[q].danger \in {"none", "read", "late", "model"}
  BY DEF TurnInvariant, Held, Shape
<1> QED
  BY <1>1, AnswerTimely, Replies DEF Fail, Enough, ReadFound

LEMMA CampusReplyTimely ==
  ASSUME TurnInvariant, AllTimely, NEW q \in Requests, NEW reply \in Reply,
         turns[q].danger # "model", turns[q].pc \notin Replied, CampusReply(q, reply)
  PROVE  AllTimely'
<1> DEFINE turn == [turns[q] EXCEPT !.reply = reply]
<1>1. turns[q] \in Shape /\ DangerHeld(turns[q]) /\ ClockHeld(turns[q])
  BY DEF TurnInvariant, Held, AllTimely, Timely
<1>2. turns[q].danger \in {"none", "read", "late", "model"} /\ turns[q].helps \in Int
  BY <1>1, ShapeFields
<1>3. /\ turn \in Shape /\ turn.danger = turns[q].danger /\ turn.clock = turns[q].clock
      /\ turn.helps = turns[q].helps /\ turn.floor = turns[q].floor
  BY <1>1 DEF Shape
<1>4. CASE Fail(q)
  BY <1>4, FailTimely
<1>5. CASE Answer(q, reply) /\ (reply.emergency \/ ~Written \/ ~Beside(turn))
  BY <1>1, <1>2, <1>3, <1>5, AnswerTimely DEF Enough, DangerHeld, ReadFound, Beside
<1>6. CASE Set(q, In(turn, "besideHelp"))
  <2> DEFINE next == In(turn, "besideHelp")
  <2>1. next.pc = "besideHelp" /\ next.danger = turns[q].danger /\ next.clock = turns[q].clock
    BY <1>3, InFields
  <2>2. Timely(next)
    BY <1>1, <1>2, <2>1 DEF Timely, DangerHeld, ClockHeld, Said, ReadFound, Limited
  <2> QED
    BY <1>6, <2>2, SetTimely
<1>7. CASE turn.danger = "none" /\ Set(q, In(turn, "support"))
  <2> DEFINE next == In(turn, "support")
  <2>1. /\ next.pc = "support" /\ next.danger = "none" /\ next.helps = turns[q].helps
    <3> HIDE DEF turn
    <3>1. "support" \notin Helping
      BY DEF Helping
    <3> QED
      BY <1>2, <1>3, <1>7, <3>1, InFields
  <2>2. turns[q].helps = 0
    BY <1>1, <1>3, <1>7 DEF DangerHeld, Replied
  <2>3. Timely(next)
    BY <2>1, <2>2 DEF Timely, DangerHeld, ClockHeld, Said, ReadFound, Limited
  <2> QED
    BY <1>7, <2>3, SetTimely
<1> QED
  BY <1>4, <1>5, <1>6, <1>7 DEF CampusReply

LEMMA FallbackTimely ==
  ASSUME TurnInvariant, AllTimely, NEW q \in Requests, turns[q].danger # "model",
         turns[q].pc \notin Replied, NEW changed, Fallback(q, changed)
  PROVE  AllTimely'
<1>1. turns[q].facts \in SUBSET Releases
  BY DEF TurnInvariant, Held, Shape
<1> QED
  BY <1>1, Replies, CampusReplyTimely DEF Fallback

-----------------------------------------------------------------------------
(***************************************************************************)
(* Every step keeps it.                                                    *)
(***************************************************************************)
\* A turn the answer goes on with has no emergency the model named.
LEMMA GoingOn ==
  ASSUME TurnInvariant, AllTimely, NEW q \in Requests,
         turns[q].pc \notin {"finishHelp", "safetyHelp", "done"}
  PROVE  turns[q].danger \in {"none", "read", "late"}
BY DEF TurnInvariant, Held, Shape, AllTimely, Timely, DangerHeld

LEMMA BeginTimely ==
  ASSUME TurnInvariant, AllTimely, NEW q \in Requests, turns[q].pc \in {"new", "floorHelp"},
         NEW turn \in Begin(turns[q]), Set(q, turn)
  PROVE  AllTimely'
<1> DEFINE started == [turns[q] EXCEPT !.clock = 0]
<1>1. PICK pc \in (IF Written THEN {"read", "prelude"} ELSE {"prelude"}) :
        turn = In(started, pc)
  BY DEF Begin
<1>2. turns[q] \in Shape /\ DangerHeld(turns[q]) /\ turns[q].helps \in Int
  BY ShapeFields DEF TurnInvariant, Held, AllTimely, Timely
<1>3. turns[q].danger = "none" /\ turns[q].helps = 0
  BY <1>2 DEF DangerHeld
<1>4. started \in Shape /\ started.danger = "none" /\ started.helps = 0
  BY <1>2, <1>3 DEF Shape
<1>5. turn.pc = pc /\ turn.danger = "none" /\ turn.helps = 0
  <2> HIDE DEF started
  <2>1. pc \notin Helping
    BY DEF Helping
  <2> QED
    BY <1>1, <1>4, <2>1, InFields
<1>6. Timely(turn)
  BY <1>1, <1>5 DEF Timely, DangerHeld, ClockHeld, Said, ReadFound, Limited
<1> QED
  BY <1>6, SetTimely

LEMMA ArriveTimely ==
  ASSUME TurnInvariant, AllTimely, NEW q \in Requests, Arrive(q)
  PROVE  AllTimely'
<1>1. /\ turns[q].pc = "new" /\ turns[q] \in Shape /\ turns[q].danger = "none"
      /\ turns[q].helps = 0
  BY DEF Arrive, TurnInvariant, Held, AllTimely, Timely, DangerHeld
<1>2. ASSUME NEW floor \in {"emergency", "asks"},
             Set(q, In([turns[q] EXCEPT !.floor = floor], "floorHelp"))
      PROVE  AllTimely'
  <2> DEFINE turn == [turns[q] EXCEPT !.floor = floor]
             next == In(turn, "floorHelp")
  <2>1. turn \in Shape /\ turn.danger = "none" /\ turn.helps = 0
    BY <1>1 DEF Shape, Floor
  <2>2. next.pc = "floorHelp" /\ next.danger = "none" /\ next.helps = 0
    <3> HIDE DEF turn
    <3> QED
      BY <2>1, InFields
  <2>3. Timely(next)
    BY <2>2 DEF Timely, DangerHeld, ClockHeld, Said, ReadFound, Limited
  <2> QED
    BY <1>2, <2>3, SetTimely
<1>3. CASE Answer(q, [Failed EXCEPT !.status = "busy"])
  <2>1. [Failed EXCEPT !.status = "busy"] \in Reply
    BY DEF Failed, Reply
  <2> QED
    BY <1>1, <1>3, <2>1, AnswerTimely DEF Enough
<1> QED
  BY <1>1, <1>2, <1>3, BeginTimely DEF Arrive

LEMMA FloorRepliesTimely ==
  ASSUME TurnInvariant, AllTimely, NEW q \in Requests, FloorReplies(q)
  PROVE  AllTimely'
<1>1. CASE Answer(q, Ok(TRUE, {}))
  <2>1. Ok(TRUE, {}) \in Reply /\ Ok(TRUE, {}).emergency
    BY Replies
  <2> QED
    BY <1>1, <2>1, AnswerTimely DEF Enough
<1>2. ASSUME NEW turn \in Begin(turns[q]), Set(q, turn), turns[q].pc = "floorHelp"
      PROVE  AllTimely'
  BY <1>2, BeginTimely
<1> QED
  BY <1>1, <1>2 DEF FloorReplies

LEMMA ReadTimely ==
  ASSUME TurnInvariant, AllTimely, NEW q \in Requests, Read(q)
  PROVE  AllTimely'
<1>1. /\ turns[q].pc = "read" /\ turns[q] \in Shape /\ turns[q].danger = "none"
      /\ turns[q].helps = 0 /\ Written /\ turns[q].clock \in Int
  BY ShapeFields DEF Read, TurnInvariant, Held, AllTimely, Timely, DangerHeld
<1>2. CASE Wait(q, "prelude")
  <2>1. /\ In(turns[q], "prelude").pc = "prelude" /\ In(turns[q], "prelude").danger = "none"
        /\ In(turns[q], "prelude").helps = 0
    BY <1>1, InFields DEF Helping
  <2>2. Timely(In(turns[q], "prelude"))
    BY <2>1 DEF Timely, DangerHeld, ClockHeld, Said, ReadFound, Limited
  <2> QED
    BY <1>2, <2>2, SetTimely DEF Wait
<1>3. ASSUME NEW found \in {"read", "late"},
             found = IF turns[q].clock <= TurnSeconds THEN "read" ELSE "late",
             Set(q, In([turns[q] EXCEPT !.danger = found], "readHelp"))
      PROVE  AllTimely'
  <2> DEFINE turn == [turns[q] EXCEPT !.danger = found]
             next == In(turn, "readHelp")
  <2>1. turn \in Shape /\ turn.danger = found /\ turn.clock = turns[q].clock
    BY <1>1 DEF Shape
  <2>2. /\ next.pc = "readHelp" /\ next.danger = found /\ next.clock = turns[q].clock
        /\ next.since = 0
    <3> HIDE DEF turn
    <3> QED
      BY <2>1, InFields
  <2>3. found = "read" => turns[q].clock <= TurnSeconds
    BY <1>3
  <2>4. Timely(next)
    BY <1>1, <2>2, <2>3, TurnAssumption
       DEF Timely, DangerHeld, ClockHeld, Said, ReadFound, Limited
  <2> QED
    BY <1>3, <2>4, SetTimely
<1>4. CASE CampusReply(q, Ok(FALSE, {}))
  BY <1>1, <1>4, Replies, CampusReplyTimely DEF Replied
<1> QED
  BY <1>2, <1>3, <1>4 DEF Read

LEMMA CodeReadsTimely ==
  ASSUME TurnInvariant, AllTimely, NEW q \in Requests, CodeReads(q)
  PROVE  AllTimely'
<1>1. PICK turn \in Shape :
        /\ Set(q, turn) /\ turn.seen \in SUBSET Releases
        /\ \A field \in DOMAIN turns[q] \ {"seen"} : turn[field] = turns[q][field]
        /\ turn.pc = "prelude" /\ turns[q].pc = "prelude"
  BY CodeReadsSet
<1>2. turns[q] \in Shape /\ Timely(turns[q])
  BY DEF TurnInvariant, Held, AllTimely
<1>3. /\ turn.danger = turns[q].danger /\ turn.clock = turns[q].clock
      /\ turn.since = turns[q].since /\ turn.helps = turns[q].helps
      /\ turn.reply = turns[q].reply /\ turn.pc = turns[q].pc
  BY <1>1, <1>2 DEF Shape
<1>4. Timely(turn)
  BY <1>2, <1>3 DEF Timely, DangerHeld, ClockHeld, Said, SaidTwice, ReadFound
<1> QED
  BY <1>1, <1>4, SetTimely

LEMMA PreludeTimely ==
  ASSUME TurnInvariant, AllTimely, NEW q \in Requests, ReadReplies(q) \/ Prelude(q)
  PROVE  AllTimely'
<1>1. /\ turns[q].pc \in {"readHelp", "prelude"} /\ turns[q] \in Shape
      /\ DangerHeld(turns[q]) /\ ClockHeld(turns[q])
  BY DEF ReadReplies, Prelude, TurnInvariant, Held, AllTimely, Timely
<1>2. turns[q].danger \in {"none", "read", "late"} /\ turns[q].pc \notin Replied
  BY <1>1, GoingOn DEF Replied
<1>3. CASE Answer(q, Ok(TRUE, {}))
  <2>1. Ok(TRUE, {}) \in Reply /\ Ok(TRUE, {}).emergency
    BY Replies
  <2> QED
    BY <1>3, <2>1, AnswerTimely DEF Enough
<1>4. ASSUME NEW pc \in {"prelude", "loop"}, Wait(q, pc),
             pc = "prelude" => ReadFound(turns[q]),
             pc = "loop" => turns[q].clock <= TurnSeconds /\ turns[q].pc = "prelude"
      PROVE  AllTimely'
  <2> DEFINE next == In(turns[q], pc)
  <2>1. pc \notin Helping
    BY DEF Helping
  <2>2. /\ next.pc = pc /\ next.danger = turns[q].danger /\ next.clock = turns[q].clock
        /\ next.helps = turns[q].helps
    BY <1>1, <2>1, InFields
  <2>3. DangerHeld(next)
    BY <1>1, <1>2, <1>4, <2>2 DEF DangerHeld, ReadFound
  <2>4. ClockHeld(next)
    BY <1>1, <1>2, <1>4, <2>2 DEF ClockHeld, Limited
  <2>5. Said(next)
    BY <2>2 DEF Said
  <2> QED
    BY <1>4, <2>3, <2>4, <2>5, SetTimely DEF Wait, Timely
<1>5. CASE CampusReply(q, [Ok(FALSE, {}) EXCEPT !.code = turns[q].seen])
  <2>1. [Ok(FALSE, {}) EXCEPT !.code = turns[q].seen] \in Reply
    BY <1>1, Replies DEF Shape
  <2> QED
    BY <1>2, <1>5, <2>1, CampusReplyTimely
<1>6. CASE Fallback(q, FALSE)
  BY <1>2, <1>6, FallbackTimely
<1>7. turns[q].clock \in Int
  BY <1>1, ShapeFields
<1>8. turns[q].clock < TurnSeconds => turns[q].clock <= TurnSeconds
  BY <1>7, TurnAssumption
<1>9. CASE ReadReplies(q)
  BY <1>1, <1>3, <1>4, <1>9 DEF ReadReplies, DangerHeld
<1>10. CASE Prelude(q)
  BY <1>4, <1>5, <1>6, <1>8, <1>10 DEF Prelude
<1> QED
  BY <1>9, <1>10

LEMMA AskTimely ==
  ASSUME TurnInvariant, AllTimely, NEW q \in Requests, Ask(q)
  PROVE  AllTimely'
<1> DEFINE turn == [turns[q] EXCEPT !.attempts = @ + 1]
           next == In(turn, "lookup")
<1>1. /\ turns[q].pc = "loop" /\ turns[q] \in Shape /\ turns[q].danger # "model"
      /\ DangerHeld(turns[q]) /\ ClockHeld(turns[q])
  BY GoingOn DEF Ask, TurnInvariant, Held, AllTimely, Timely
<1>2. /\ turn \in Shape /\ turn.danger = turns[q].danger /\ turn.clock = turns[q].clock
      /\ turn.helps = turns[q].helps
  BY <1>1 DEF Shape
<1>3. /\ next.pc = "lookup" /\ next.danger = turns[q].danger /\ next.clock = turns[q].clock
      /\ next.helps = turns[q].helps
  <2> HIDE DEF turn
  <2>1. "lookup" \notin Helping
    BY DEF Helping
  <2> QED
    BY <1>2, <2>1, InFields
<1>4. Timely(next)
  <2> HIDE DEF next
  <2> QED
    BY <1>1, <1>3 DEF Timely, DangerHeld, ClockHeld, Said, ReadFound, Limited
<1> QED
  BY <1>4, SetTimely DEF Ask

LEMMA LookupTimely ==
  ASSUME TurnInvariant, AllTimely, NEW q \in Requests, Lookup(q)
  PROVE  AllTimely'
<1>1. /\ turns[q].pc = "lookup" /\ turns[q] \in Shape /\ turns[q].danger # "model"
      /\ DangerHeld(turns[q]) /\ ClockHeld(turns[q]) /\ published \in Releases
  BY GoingOn DEF Lookup, TurnInvariant, Held, AllTimely, Timely
<1>2. PICK facts \in {{}, {published}} :
        Set(q, In([turns[q] EXCEPT !.pin = published, !.facts = @ \cup facts], "loop"))
  BY DEF Lookup
<1> DEFINE pinned == [turns[q] EXCEPT !.pin = published]
           turn == [pinned EXCEPT !.facts = turns[q].facts \cup facts]
           next == In(turn, "loop")
<1>3. /\ pinned \in Shape /\ pinned.danger = turns[q].danger
      /\ pinned.clock = turns[q].clock /\ pinned.helps = turns[q].helps
  BY <1>1 DEF Shape
<1>4. turns[q].facts \cup facts \in SUBSET Releases
  BY <1>1, <1>2 DEF Shape
<1>5. /\ turn \in Shape /\ turn.danger = turns[q].danger /\ turn.clock = turns[q].clock
      /\ turn.helps = turns[q].helps
  <2> HIDE DEF pinned
  <2> QED
    BY <1>3, <1>4 DEF Shape
<1>6. turn = [turns[q] EXCEPT !.pin = published, !.facts = @ \cup facts]
  BY <1>1 DEF Shape
<1>7. /\ next.pc = "loop" /\ next.danger = turns[q].danger /\ next.clock = turns[q].clock
      /\ next.helps = turns[q].helps
  <2> HIDE DEF turn
  <2>1. "loop" \notin Helping
    BY DEF Helping
  <2> QED
    BY <1>5, <2>1, InFields
<1>8. Timely(next)
  <2> HIDE DEF next
  <2> QED
    BY <1>1, <1>7 DEF Timely, DangerHeld, ClockHeld, Said, ReadFound, Limited
<1> QED
  BY <1>2, <1>6, <1>8, SetTimely

LEMMA FallingBackTimely ==
  ASSUME TurnInvariant, AllTimely, NEW q \in Requests,
         DatasetChanges(q) \/ Stuck(q) \/ TurnTimeout(q)
  PROVE  AllTimely'
<1>1. turns[q].pc \in {"loop", "lookup"}
  BY DEF DatasetChanges, Stuck, TurnTimeout, Limited
<1>2. turns[q].danger # "model" /\ turns[q].pc \notin Replied
  BY <1>1, GoingOn DEF Replied
<1> QED
  BY <1>2, FallbackTimely DEF DatasetChanges, Stuck, TurnTimeout

\* An emergency the model names has the rest of the answer before it.
LEMMA FinishTimely ==
  ASSUME TurnInvariant, AllTimely, NEW q \in Requests, Finish(q)
  PROVE  AllTimely'
<1>1. /\ turns[q].pc = "loop" /\ turns[q] \in Shape
      /\ DangerHeld(turns[q]) /\ ClockHeld(turns[q])
  BY DEF Finish, TurnInvariant, Held, AllTimely, Timely
<1>2. /\ turns[q].danger \in {"none", "read", "late"} /\ turns[q].pc \notin Replied
      /\ turns[q].clock \in Int /\ turns[q].facts \in SUBSET Releases
  BY <1>1, GoingOn DEF Replied, Shape
<1>3. CASE CampusReply(q, Ok(FALSE, turns[q].facts))
  BY <1>2, <1>3, Replies, CampusReplyTimely
<1>4. CASE Fallback(q, FALSE)
  BY <1>2, <1>4, FallbackTimely
<1>5. ASSUME NEW pc \in {"finishHelp", "safetyHelp"}, NEW danger,
             danger = IF turns[q].danger = "none" THEN "model" ELSE turns[q].danger,
             Set(q, In([turns[q] EXCEPT !.danger = danger], pc))
      PROVE  AllTimely'
  <2> DEFINE turn == [turns[q] EXCEPT !.danger = danger]
             next == In(turn, pc)
  <2>1. danger \in {"model", "read", "late"}
    BY <1>2, <1>5
  <2>2. /\ turn \in Shape /\ turn.danger = danger /\ turn.clock = turns[q].clock
        /\ turn.helps = turns[q].helps
    BY <1>1, <2>1 DEF Shape
  <2>3. /\ next.pc = pc /\ next.danger = danger /\ next.clock = turns[q].clock
        /\ next.since = 0 /\ next.helps = turns[q].helps + 1
    <3> HIDE DEF turn
    <3>1. pc \in Helping \ {"floorHelp"}
      BY DEF Helping
    <3> QED
      BY <2>2, <3>1, InFields
  <2> HIDE DEF next
  <2>4. DangerHeld(next)
    BY <1>1, <1>2, <1>5, <2>1, <2>3 DEF DangerHeld, ReadFound
  <2>5. danger = "model" => turns[q].helps = 0
    BY <1>1, <1>2, <1>5 DEF DangerHeld
  <2>6. turns[q].clock <= TurnSeconds
    BY <1>1 DEF ClockHeld, Limited
  <2>7. ClockHeld(next)
    BY <1>2, <1>5, <2>1, <2>3, <2>5, <2>6, TurnAssumption DEF ClockHeld, Limited
  <2>8. Said(next)
    BY <2>3 DEF Said
  <2> QED
    BY <1>5, <2>4, <2>7, <2>8, SetTimely DEF next, Timely
<1> QED
  BY <1>3, <1>4, <1>5 DEF Finish

LEMMA ComposeTimely ==
  ASSUME TurnInvariant, AllTimely, NEW q \in Requests, Compose(q) \/ SafetyReplies(q)
  PROVE  AllTimely'
<1>1. /\ turns[q].pc \in {"finishHelp", "safetyHelp"} /\ turns[q] \in Shape
      /\ DangerHeld(turns[q]) /\ ClockHeld(turns[q])
  BY DEF Compose, SafetyReplies, TurnInvariant, Held, AllTimely, Timely
<1>2. turns[q].facts \in SUBSET Releases
  BY <1>1 DEF Shape
<1>3. ASSUME NEW facts \in {{}, turns[q].facts}, Answer(q, Ok(TRUE, facts))
      PROVE  AllTimely'
  <2>1. Ok(TRUE, facts) \in Reply /\ Ok(TRUE, facts).emergency
    BY <1>2, Replies
  <2> QED
    BY <1>3, <2>1, AnswerTimely DEF Enough
<1>4. CASE turns[q].pc = "finishHelp" /\ Wait(q, "safetyHelp")
  <2> DEFINE next == In(turns[q], "safetyHelp")
  <2>1. /\ next.pc = "safetyHelp" /\ next.danger = turns[q].danger
        /\ next.clock = turns[q].clock /\ next.helps = turns[q].helps + 1
    <3>1. "safetyHelp" \in Helping \ {"floorHelp"}
      BY DEF Helping
    <3> QED
      BY <1>1, <3>1, InFields
  <2>2. turns[q].danger = "model" => turns[q].helps = 1
    BY <1>1, <1>4 DEF ClockHeld
  <2> HIDE DEF next
  <2>3. DangerHeld(next)
    BY <1>1, <2>1 DEF DangerHeld, ReadFound
  <2>4. ClockHeld(next)
    BY <1>1, <1>4, <2>1, <2>2 DEF ClockHeld, Limited
  <2>5. Said(next)
    BY <2>1 DEF Said
  <2> QED
    BY <1>4, <2>3, <2>4, <2>5, SetTimely DEF next, Timely, Wait
<1> QED
  BY <1>3, <1>4 DEF Compose, SafetyReplies

LEMMA AddedFields ==
  ASSUME TurnInvariant, NEW q \in Requests, NEW turn \in Added(turns[q])
  PROVE  /\ turn.danger = turns[q].danger /\ turn.clock = turns[q].clock
         /\ turn.helps = turns[q].helps
BY DEF Added, TurnInvariant, Held, Shape

LEMMA SupportTimely ==
  ASSUME TurnInvariant, AllTimely, NEW q \in Requests, Support(q) \/ BesideReplies(q)
  PROVE  AllTimely'
<1>1. /\ turns[q].pc \in {"support", "besideHelp"} /\ turns[q] \in Shape
      /\ DangerHeld(turns[q])
  BY DEF Support, BesideReplies, TurnInvariant, Held, AllTimely, Timely
<1>2. CASE Support(q)
  <2>1. PICK turn \in Added(turns[q]) :
          Set(q, IF Beside(turn) THEN In(turn, "besideHelp") ELSE Done(turn, turn.reply))
    BY <1>2 DEF Support
  <2>2. turns[q].danger = "none"
    BY <1>1, <1>2 DEF Support, DangerHeld
  <2>3. turn \in Shape /\ turn.danger = "none" /\ turn.reply \in Reply
    BY <2>2, AddedShape, AddedFields
  <2> DEFINE next == In(turn, "besideHelp")
  <2>4. next.pc = "besideHelp" /\ next.danger = "none"
    BY <2>3, InFields
  <2>5. Timely(next)
    <3> HIDE DEF next
    <3> QED
      BY <2>4 DEF Timely, DangerHeld, ClockHeld, Said, ReadFound, Limited
  <2>6. Timely(Done(turn, turn.reply))
    BY <2>3, DoneTimely DEF Enough, ReadFound
  <2> QED
    BY <2>1, <2>5, <2>6, SetTimely
<1>3. CASE BesideReplies(q)
  <2>1. PICK turn \in Added(turns[q]) :
          Set(q, Done(turn, [turn.reply EXCEPT !.emergency = TRUE]))
    BY <1>3 DEF BesideReplies
  <2> DEFINE reply == [turn.reply EXCEPT !.emergency = TRUE]
  <2>2. /\ turn \in Shape /\ turn.danger = turns[q].danger /\ turn.reply \in Reply
    BY AddedShape, AddedFields
  <2>3. reply \in Reply /\ reply.emergency
    BY <2>2 DEF Reply
  <2>4. Timely(Done(turn, reply))
    <3> HIDE DEF reply
    <3> QED
      BY <1>1, <2>2, <2>3, DoneTimely DEF Enough, DangerHeld, ReadFound
  <2> QED
    BY <2>1, <2>4, SetTimely
<1> QED
  BY <1>2, <1>3

LEMMA TickTimely ==
  ASSUME TurnInvariant, AllTimely, NEW q \in Requests, Tick(q)
  PROVE  AllTimely'
<1> DEFINE timed == [turns[q] EXCEPT !.clock = @ + 1]
           turn == [timed EXCEPT !.since = @ + 1]
<1>1. /\ turns[q] \in Shape /\ DangerHeld(turns[q]) /\ ClockHeld(turns[q])
      /\ turns[q].clock \in Int /\ turns[q].since \in Int
      /\ turns[q].pc # "done" /\ ~Expired(turns[q])
  BY ShapeFields DEF Tick, TurnInvariant, Held, AllTimely, Timely
<1>2. /\ timed \in Shape /\ timed.pc = turns[q].pc /\ timed.danger = turns[q].danger
      /\ timed.clock = turns[q].clock + 1 /\ timed.helps = turns[q].helps
      /\ timed.since = turns[q].since
  BY <1>1 DEF Shape
<1>3. /\ turn.pc = turns[q].pc /\ turn.danger = turns[q].danger
      /\ turn.clock = turns[q].clock + 1 /\ turn.helps = turns[q].helps
      /\ turn.since = turns[q].since + 1
  <2> HIDE DEF timed
  <2> QED
    BY <1>2 DEF Shape
<1>4. turn = [turns[q] EXCEPT !.clock = @ + 1, !.since = @ + 1]
  BY <1>1 DEF Shape
<1> HIDE DEF turn
<1>5. DangerHeld(turn)
  BY <1>1, <1>3 DEF DangerHeld, ReadFound
<1>6. turn.pc \in Limited => turn.clock <= TurnSeconds
  BY <1>1, <1>3, TurnAssumption DEF Expired
<1>7. ASSUME turn.danger = "read"
      PROVE  /\ turn.clock <= TurnSeconds + HelpSeconds
             /\ turn.pc = "readHelp" =>
                  turn.clock <= TurnSeconds + turn.since /\ turn.since <= HelpSeconds
  <2>1. CASE turn.pc = "readHelp"
    BY <1>1, <1>3, <1>7, <2>1, TurnAssumption DEF Expired, ClockHeld, Helping
  <2>2. CASE turn.pc # "readHelp"
    BY <1>1, <1>3, <1>7, <2>2, TurnAssumption DEF Expired, ReadFound
  <2> QED
    BY <2>1, <2>2
<1>8. ASSUME turn.danger = "model"
      PROVE  /\ turn.helps = 1 \/ (turn.helps = 2 /\ turn.pc = "safetyHelp")
             /\ turn.helps = 1 =>
                  turn.clock <= TurnSeconds + turn.since /\ turn.since <= HelpSeconds
  <2>1. turns[q].pc \in {"finishHelp", "safetyHelp"}
    BY <1>1, <1>3, <1>8 DEF DangerHeld
  <2> QED
    BY <1>1, <1>3, <1>8, <2>1, TurnAssumption DEF Expired, ClockHeld, Helping
<1>9. ClockHeld(turn) /\ Said(turn)
  BY <1>1, <1>3, <1>6, <1>7, <1>8 DEF ClockHeld, Said
<1> QED
  BY <1>4, <1>5, <1>9, SetTimely DEF Tick, Timely

\* The limit of the whole answer never meets an emergency that was named in time and
\* whose numbers are read once.
LEMMA OuterTimeoutTimely ==
  ASSUME TurnInvariant, AllTimely, NEW q \in Requests, OuterTimeout(q)
  PROVE  AllTimely'
<1>1. /\ turns[q] \in Shape /\ DangerHeld(turns[q]) /\ ClockHeld(turns[q])
      /\ turns[q].clock = TurnSeconds + HelpSeconds + Grace /\ turns[q].pc # "done"
      /\ turns[q].danger \in {"none", "read", "late", "model"}
  BY ShapeFields
     DEF OuterTimeout, OuterSeconds, TurnInvariant, Held, AllTimely, Timely, Answering
<1>2. turns[q].danger # "read"
  BY <1>1, TurnAssumption DEF ClockHeld
<1>3. turns[q].danger = "model" => turns[q].helps = 2
  <2>1. turns[q].since \in Int
    BY <1>1, ShapeFields
  <2> QED
    BY <1>1, <2>1, TurnAssumption DEF ClockHeld
<1>4. Enough(turns[q], Failed)
  BY <1>1, <1>2, <1>3 DEF Enough, SaidTwice
<1> QED
  BY <1>4, Replies, AnswerTimely DEF OuterTimeout

LEMMA EndingTimely ==
  ASSUME TurnInvariant, AllTimely, NEW q \in Requests,
         BesideTimeout(q) \/ Break(q) \/ ClientLeaves(q)
  PROVE  AllTimely'
<1>1. CASE BesideTimeout(q)
  <2>1. turns[q].danger # "model"
    BY <1>1 DEF BesideTimeout, ReadFound
  <2> QED
    BY <1>1, <2>1, FailTimely DEF BesideTimeout
<1>2. CASE Break(q)
  <2>1. turns[q].danger # "model"
    BY <1>2, GoingOn DEF Break
  <2> QED
    BY <1>2, <2>1, FailTimely DEF Break
<1>3. CASE ClientLeaves(q)
  <2> DEFINE reply == [Failed EXCEPT !.status = "gone"]
  <2>1. reply \in Reply /\ reply.status = "gone"
    BY DEF Failed, Reply
  <2> HIDE DEF reply
  <2>2. Enough(turns[q], reply)
    BY <2>1 DEF Enough
  <2> QED
    BY <1>3, <2>1, <2>2, AnswerTimely DEF ClientLeaves, reply
<1> QED
  BY <1>1, <1>2, <1>3

LEMMA StepTimely == TurnInvariant /\ AllTimely /\ [Next]_vars => AllTimely'
<1> SUFFICES ASSUME TurnInvariant, AllTimely, [Next]_vars
             PROVE  AllTimely'
  OBVIOUS
<1>1. CASE Publish \/ UNCHANGED vars
  BY <1>1 DEF Publish, vars, AllTimely
<1>2. ASSUME NEW q \in Requests, Arrive(q) \/ Tick(q) \/ Expire(q)
      PROVE  AllTimely'
  BY <1>2, ArriveTimely, TickTimely, FloorRepliesTimely, PreludeTimely, ComposeTimely,
     SupportTimely, FallingBackTimely, OuterTimeoutTimely, EndingTimely DEF Expire
<1>3. ASSUME NEW q \in Requests,
             \/ Read(q) \/ CodeReads(q) \/ Prelude(q) \/ Ask(q) \/ Lookup(q)
             \/ DatasetChanges(q) \/ Stuck(q) \/ Finish(q)
      PROVE  AllTimely'
  BY <1>3, ReadTimely, CodeReadsTimely, PreludeTimely, AskTimely, LookupTimely, FallingBackTimely,
     FinishTimely
<1>4. ASSUME NEW q \in Requests, Support(q) \/ Break(q) \/ ClientLeaves(q)
      PROVE  AllTimely'
  BY <1>4, SupportTimely, EndingTimely
<1> QED
  BY <1>1, <1>2, <1>3, <1>4 DEF Next

LEMMA InitTimely == Init => AllTimely
<1>1. Timely(NewTurn)
  BY TurnAssumption DEF NewTurn, Timely, DangerHeld, ClockHeld, Said, ReadFound, Limited
<1> QED
  BY <1>1 DEF Init, AllTimely

-----------------------------------------------------------------------------
\* An emergency the read named in the turn's time, or the model named, is in the reply,
\* through malformed replies, changed releases, failures and every limit, but for one
\* whose reply took a second reading of the campus numbers: in every output.
THEOREM EmergencyIsSaid == Spec => []EmergencySurvives
<1>1. TurnInvariant /\ AllTimely => EmergencySurvives
  BY DEF AllTimely, Timely, Said, SaidTwice, EmergencySurvives, Named
<1> QED
  BY <1>1, InitInvariant, StepInvariant, InitTimely, StepTimely, PTL DEF Spec

-----------------------------------------------------------------------------
(***************************************************************************)
(* What the answers under way keep: no clock passes the limit of the whole *)
(* answer, and no more of them are made at once than there are places.     *)
(***************************************************************************)
\* How often the campus numbers have been read, at most, when a stage is reached.
Readings(pc) ==
  IF pc \in {"new", "floorHelp", "read"} THEN 0
  ELSE IF pc \in {"readHelp", "prelude", "loop", "lookup", "support"} THEN 1
  ELSE IF pc \in {"besideHelp", "finishHelp"} THEN 2 ELSE 3

\* One more reading, in the stages that are one.
More(pc) == IF pc \in Helping \ {"floorHelp"} THEN 1 ELSE 0

Counters(turn) ==
  /\ turn.clock \in 0..OuterSeconds
  /\ turn.helps \in 0..Readings(turn.pc)
  /\ turn.attempts \in 0..MaxAttempts

\* The counters of a turn: a wait is no longer than its answer.
Counted(turn) == Counters(turn) /\ turn.since \in 0..turn.clock

Places == {q \in Requests : turns[q].pc \in Answering}

\* Only requests that came have a place, so the places taken can be counted however many
\* requests there may be.
PlacesHeld == IsFiniteSet(Places) /\ Cardinality(Places) <= Capacity

AllCounted == PlacesHeld /\ \A q \in Requests : Counted(turns[q])

LEMMA OuterTyped == OuterSeconds \in Nat /\ MaxAttempts \in Nat
BY TurnAssumption DEF OuterSeconds

\* A turn changes, and takes a place only if one is free.
LEMMA SetCounted ==
  ASSUME TurnInvariant, AllCounted, NEW q \in Requests, NEW turn, Counted(turn), Set(q, turn),
         turns[q].pc \in Answering \/ turn.pc \notin Answering \/ ~Full
  PROVE  AllCounted'
<1>1. turns'[q] = turn /\ \A p \in Requests \ {q} : turns'[p] = turns[p]
  BY DEF TurnInvariant, Set
<1>2. \A p \in Requests : Counted(turns[p])'
  BY <1>1 DEF AllCounted, Counted, Counters
<1>3. PlacesHeld'
  <2>1. IsFiniteSet(Places) /\ Cardinality(Places) \in Nat /\ Cardinality(Places) <= Capacity
    BY FS_CardinalityType DEF AllCounted, PlacesHeld
  <2>2. CASE turns[q].pc \in Answering \/ turn.pc \notin Answering
    <3>1. Places' \subseteq Places
      BY <1>1, <2>2 DEF Places
    <3>2. IsFiniteSet(Places') /\ Cardinality(Places') <= Cardinality(Places)
      BY <2>1, <3>1, FS_Subset
    <3>3. Cardinality(Places') \in Nat
      BY <3>2, FS_CardinalityType
    <3> QED
      BY <2>1, <3>2, <3>3, TurnAssumption DEF PlacesHeld
  <2>3. CASE ~Full
    <3>1. Places' \subseteq Places \cup {q}
      BY <1>1 DEF Places
    <3>2. IsFiniteSet(Places \cup {q}) /\ Cardinality(Places \cup {q}) <= Cardinality(Places) + 1
      <4>1. IsFiniteSet(Places \cup {q})
            /\ Cardinality(Places \cup {q})
                 = IF q \in Places THEN Cardinality(Places) ELSE Cardinality(Places) + 1
        BY <2>1, FS_AddElement
      <4> QED
        BY <2>1, <4>1
    <3>3. IsFiniteSet(Places') /\ Cardinality(Places') <= Cardinality(Places \cup {q})
      BY <3>1, <3>2, FS_Subset
    <3>4. Cardinality(Places') \in Nat /\ Cardinality(Places \cup {q}) \in Nat
      BY <3>2, <3>3, FS_CardinalityType
    <3>5. Cardinality(Places) < Capacity
      BY <2>1, <2>3, TurnAssumption DEF Full, Places
    <3> QED
      BY <2>1, <3>2, <3>3, <3>4, <3>5, TurnAssumption DEF PlacesHeld
  <2> QED
    BY <2>2, <2>3
<1> QED
  BY <1>2, <1>3 DEF AllCounted

LEMMA InCounted ==
  ASSUME NEW turn \in Shape, Counters(turn), NEW pc,
         Readings(turn.pc) + More(pc) <= Readings(pc)
  PROVE  Counted(In(turn, pc)) /\ In(turn, pc).pc = pc
<1>1. /\ In(turn, pc).pc = pc /\ In(turn, pc).clock = turn.clock /\ In(turn, pc).since = 0
      /\ In(turn, pc).helps = turn.helps + More(pc)
      /\ In(turn, pc).attempts = turn.attempts
  BY DEF In, Shape, More
<1>2. Readings(turn.pc) \in Nat /\ Readings(pc) \in Nat /\ More(pc) \in Nat
  BY DEF Readings, More
<1> QED
  BY <1>1, <1>2 DEF Counted, Counters

\* A stage leads to another with no fewer readings.
LEMMA WaitCounted ==
  ASSUME TurnInvariant, AllCounted, NEW q \in Requests, NEW pc,
         turns[q].pc \in Answering, Readings(turns[q].pc) + More(pc) <= Readings(pc), Wait(q, pc)
  PROVE  AllCounted'
<1>1. turns[q] \in Shape /\ Counters(turns[q])
  BY DEF TurnInvariant, Held, AllCounted, Counted
<1> QED
  BY <1>1, InCounted, SetCounted DEF Wait

\* A reply frees its place and keeps only the number of readings.
LEMMA DoneCounted ==
  ASSUME NEW turn \in Shape, Counted(turn), NEW reply
  PROVE  Counted(Done(turn, reply)) /\ Done(turn, reply).pc \notin Answering
<1>1. /\ Done(turn, reply).pc = "done" /\ Done(turn, reply).clock = 0
      /\ Done(turn, reply).since = 0 /\ Done(turn, reply).helps = turn.helps
      /\ Done(turn, reply).attempts = 0
  BY DEF Done
<1>2. Readings(turn.pc) \in 0..3 /\ Readings("done") = 3
  BY DEF Readings
<1>3. turn.helps \in 0..3
  BY <1>2 DEF Counted, Counters
<1> QED
  BY <1>1, <1>2, <1>3, OuterTyped DEF Counted, Counters, Answering

LEMMA AnswerCounted ==
  ASSUME TurnInvariant, AllCounted, NEW q \in Requests, NEW reply, Answer(q, reply)
  PROVE  AllCounted'
BY DoneCounted, SetCounted DEF Answer, TurnInvariant, Held, AllCounted

LEMMA FailCounted ==
  ASSUME TurnInvariant, AllCounted, NEW q \in Requests, Fail(q)
  PROVE  AllCounted'
BY AnswerCounted DEF Fail

LEMMA CampusReplyCounted ==
  ASSUME TurnInvariant, AllCounted, NEW q \in Requests, NEW reply \in Reply,
         turns[q].pc \in {"read", "prelude", "loop", "lookup"}, CampusReply(q, reply)
  PROVE  AllCounted'
<1> DEFINE turn == [turns[q] EXCEPT !.reply = reply]
<1>1. turns[q] \in Shape /\ Counters(turns[q]) /\ turns[q].pc \in Answering
  BY DEF TurnInvariant, Held, AllCounted, Counted, Answering
<1>2. turn \in Shape /\ Counters(turn) /\ turn.pc = turns[q].pc
  BY <1>1 DEF Shape, Counters
<1> HIDE DEF turn
<1>3. ASSUME NEW pc \in {"besideHelp", "support"}
      PROVE  Counted(In(turn, pc))
  <2>1. Readings(turn.pc) + More(pc) <= Readings(pc)
    BY <1>2 DEF Readings, More, Helping
  <2> QED
    BY <1>2, <2>1, InCounted
<1>4. \/ Fail(q) \/ Answer(q, reply)
      \/ Set(q, In(turn, "besideHelp")) \/ Set(q, In(turn, "support"))
  BY DEF CampusReply, turn
<1>5. CASE Set(q, In(turn, "besideHelp"))
  BY <1>1, <1>3, <1>5, SetCounted
<1>6. CASE Set(q, In(turn, "support"))
  BY <1>1, <1>3, <1>6, SetCounted
<1> QED
  BY <1>4, <1>5, <1>6, FailCounted, AnswerCounted

LEMMA FallbackCounted ==
  ASSUME TurnInvariant, AllCounted, NEW q \in Requests,
         turns[q].pc \in {"prelude", "loop", "lookup"}, NEW changed, Fallback(q, changed)
  PROVE  AllCounted'
<1>1. turns[q].facts \in SUBSET Releases
  BY DEF TurnInvariant, Held, Shape
<1> QED
  BY <1>1, CampusReplyCounted, Replies DEF Fallback

\* An answer begins with a clock of its own.
LEMMA BeginCounted ==
  ASSUME TurnInvariant, AllCounted, NEW q \in Requests, turns[q].pc \in {"new", "floorHelp"},
         ~Full, NEW turn \in Begin(turns[q]), Set(q, turn)
  PROVE  AllCounted'
<1> DEFINE fresh == [turns[q] EXCEPT !.clock = 0]
<1>1. turns[q] \in Shape /\ Counters(turns[q])
  BY DEF TurnInvariant, Held, AllCounted, Counted
<1>2. fresh \in Shape /\ Counters(fresh) /\ fresh.pc = turns[q].pc
  BY <1>1, OuterTyped DEF Shape, Counters
<1> HIDE DEF fresh
<1>3. PICK pc \in {"read", "prelude"} : turn = In(fresh, pc)
  BY DEF Begin, fresh
<1>4. Readings(fresh.pc) + More(pc) <= Readings(pc)
  BY <1>2 DEF Readings, More, Helping
<1>5. Counted(turn)
  BY <1>2, <1>3, <1>4, InCounted
<1> QED
  BY <1>5, SetCounted

LEMMA ArriveCounted ==
  ASSUME TurnInvariant, AllCounted, NEW q \in Requests, Arrive(q)
  PROVE  AllCounted'
<1>1. turns[q] \in Shape /\ Counters(turns[q]) /\ turns[q].pc = "new"
  BY DEF TurnInvariant, Held, AllCounted, Counted, Arrive
<1>2. ASSUME NEW floor \in {"emergency", "asks"},
             Set(q, In([turns[q] EXCEPT !.floor = floor], "floorHelp"))
      PROVE  AllCounted'
  <2> DEFINE turn == [turns[q] EXCEPT !.floor = floor]
  <2>1. turn \in Shape /\ Counters(turn) /\ turn.pc = "new"
    BY <1>1 DEF Shape, Counters, Floor
  <2>2. Set(q, In(turn, "floorHelp"))
    BY <1>2
  <2> HIDE DEF turn
  <2>3. Readings(turn.pc) + More("floorHelp") <= Readings("floorHelp")
    BY <2>1 DEF Readings, More, Helping
  <2>4. Counted(In(turn, "floorHelp")) /\ In(turn, "floorHelp").pc \notin Answering
    BY <2>1, <2>3, InCounted DEF Answering
  <2> QED
    BY <2>2, <2>4, SetCounted
<1> QED
  BY <1>1, <1>2, AnswerCounted, BeginCounted DEF Arrive

LEMMA RepliesCounted ==
  ASSUME TurnInvariant, AllCounted, NEW q \in Requests,
         \/ FloorReplies(q) \/ ReadReplies(q) \/ Compose(q) \/ SafetyReplies(q)
         \/ BesideTimeout(q) \/ OuterTimeout(q) \/ Break(q) \/ ClientLeaves(q)
  PROVE  AllCounted'
<1>1. CASE FloorReplies(q)
  BY <1>1, AnswerCounted, BeginCounted DEF FloorReplies
<1>2. CASE ReadReplies(q)
  <2>1. Readings(turns[q].pc) + More("prelude") <= Readings("prelude")
    BY <1>2 DEF ReadReplies, Readings, More, Helping
  <2> QED
    BY <1>2, <2>1, AnswerCounted, WaitCounted DEF ReadReplies, Answering
<1>3. CASE Compose(q)
  <2>1. Readings(turns[q].pc) + More("safetyHelp") <= Readings("safetyHelp")
    BY <1>3 DEF Compose, Readings, More, Helping
  <2> QED
    BY <1>3, <2>1, AnswerCounted, WaitCounted DEF Compose, Answering
<1> QED
  BY <1>1, <1>2, <1>3, AnswerCounted, FailCounted
     DEF SafetyReplies, BesideTimeout, OuterTimeout, Break, ClientLeaves

LEMMA FallingBackCounted ==
  ASSUME TurnInvariant, AllCounted, NEW q \in Requests,
         DatasetChanges(q) \/ Stuck(q) \/ TurnTimeout(q)
  PROVE  AllCounted'
BY FallbackCounted DEF DatasetChanges, Stuck, TurnTimeout, Limited

LEMMA ReadCounted ==
  ASSUME TurnInvariant, AllCounted, NEW q \in Requests, Read(q)
  PROVE  AllCounted'
<1>1. turns[q] \in Shape /\ Counters(turns[q]) /\ turns[q].pc = "read"
  BY DEF TurnInvariant, Held, AllCounted, Counted, Read
<1>2. CASE Wait(q, "prelude")
  <2>1. Readings(turns[q].pc) + More("prelude") <= Readings("prelude")
    BY <1>1 DEF Readings, More, Helping
  <2> QED
    BY <1>1, <1>2, <2>1, WaitCounted DEF Answering
<1>3. ASSUME NEW found \in {"read", "late"},
             Set(q, In([turns[q] EXCEPT !.danger = found], "readHelp"))
      PROVE  AllCounted'
  <2> DEFINE turn == [turns[q] EXCEPT !.danger = found]
  <2>1. turn \in Shape /\ Counters(turn) /\ turn.pc = "read"
    BY <1>1 DEF Shape, Counters
  <2>2. Set(q, In(turn, "readHelp"))
    BY <1>3
  <2> HIDE DEF turn
  <2>3. Readings(turn.pc) + More("readHelp") <= Readings("readHelp")
    BY <2>1 DEF Readings, More, Helping
  <2>4. Counted(In(turn, "readHelp"))
    BY <2>1, <2>3, InCounted
  <2> QED
    BY <1>1, <2>2, <2>4, SetCounted DEF Answering
<1> QED
  BY <1>1, <1>2, <1>3, Replies, CampusReplyCounted DEF Read

LEMMA CodeReadsCounted ==
  ASSUME TurnInvariant, AllCounted, NEW q \in Requests, CodeReads(q)
  PROVE  AllCounted'
<1>1. PICK turn \in Shape :
        /\ Set(q, turn) /\ turn.seen \in SUBSET Releases
        /\ \A field \in DOMAIN turns[q] \ {"seen"} : turn[field] = turns[q][field]
        /\ turn.pc = "prelude" /\ turns[q].pc = "prelude"
  BY CodeReadsSet
<1>2. turns[q] \in Shape /\ Counted(turns[q])
  BY DEF TurnInvariant, Held, AllCounted
<1>3. /\ turn.clock = turns[q].clock /\ turn.since = turns[q].since
      /\ turn.helps = turns[q].helps /\ turn.attempts = turns[q].attempts
      /\ turn.pc = turns[q].pc
  BY <1>1, <1>2 DEF Shape
<1>4. Counted(turn)
  BY <1>2, <1>3 DEF Counted, Counters
<1> QED
  BY <1>1, <1>4, SetCounted DEF Answering

LEMMA PreludeCounted ==
  ASSUME TurnInvariant, AllCounted, NEW q \in Requests, Prelude(q)
  PROVE  AllCounted'
<1>1. turns[q].pc = "prelude" /\ turns[q].seen \in SUBSET Releases
  BY DEF Prelude, TurnInvariant, Held, Shape
<1>2. Readings(turns[q].pc) + More("loop") <= Readings("loop")
  BY <1>1 DEF Readings, More, Helping
<1> QED
  BY <1>1, <1>2, Replies, CampusReplyCounted, WaitCounted, FallbackCounted DEF Prelude, Answering

LEMMA LookupsCounted ==
  ASSUME TurnInvariant, AllCounted, NEW q \in Requests, Ask(q) \/ Lookup(q)
  PROVE  AllCounted'
<1>1. turns[q] \in Shape /\ Counters(turns[q]) /\ turns[q].pc \in Limited
  BY DEF TurnInvariant, Held, AllCounted, Counted, Ask, Lookup, Limited
<1>2. turns[q].pc \in Answering
  BY <1>1 DEF Limited, Answering
<1>3. CASE Ask(q)
  <2> DEFINE turn == [turns[q] EXCEPT !.attempts = @ + 1]
  <2>1. turn \in Shape /\ Counters(turn) /\ turn.pc = "loop"
    BY <1>1, <1>3, OuterTyped DEF Ask, Shape, Counters
  <2>2. Set(q, In(turn, "lookup"))
    BY <1>3 DEF Ask
  <2> HIDE DEF turn
  <2>3. Readings(turn.pc) + More("lookup") <= Readings("lookup")
    BY <2>1 DEF Readings, More, Helping
  <2>4. Counted(In(turn, "lookup"))
    BY <2>1, <2>3, InCounted
  <2> QED
    BY <1>2, <2>2, <2>4, SetCounted
<1>4. CASE Lookup(q)
  <2>1. PICK facts \in {{}, {published}} :
          Set(q, In([turns[q] EXCEPT !.pin = published, !.facts = @ \cup facts], "loop"))
    BY <1>4 DEF Lookup
  <2> DEFINE pinned == [turns[q] EXCEPT !.pin = published]
             turn == [pinned EXCEPT !.facts = @ \cup facts]
  <2>2. pinned \in Shape /\ Counters(pinned) /\ pinned.pc = "lookup"
        /\ pinned.facts = turns[q].facts
    BY <1>1, <1>4 DEF Lookup, Shape, Counters, TurnInvariant
  <2>3. turn = [turns[q] EXCEPT !.pin = published, !.facts = @ \cup facts]
    BY <1>1 DEF Shape
  <2> HIDE DEF pinned
  <2>4. turn \in Shape /\ Counters(turn) /\ turn.pc = "lookup"
    BY <2>2 DEF Shape, Counters, TurnInvariant
  <2>5. Set(q, In(turn, "loop"))
    BY <2>1, <2>3
  <2> HIDE DEF turn
  <2>6. Readings(turn.pc) + More("loop") <= Readings("loop")
    BY <2>4 DEF Readings, More, Helping
  <2>7. Counted(In(turn, "loop"))
    BY <2>4, <2>6, InCounted
  <2> QED
    BY <1>2, <2>5, <2>7, SetCounted
<1> QED
  BY <1>3, <1>4

LEMMA FinishCounted ==
  ASSUME TurnInvariant, AllCounted, NEW q \in Requests, Finish(q)
  PROVE  AllCounted'
<1>1. turns[q] \in Shape /\ Counters(turns[q]) /\ turns[q].pc = "loop"
      /\ turns[q].facts \in SUBSET Releases
  BY DEF TurnInvariant, Held, AllCounted, Counted, Finish, Shape
<1>2. ASSUME NEW pc \in {"finishHelp", "safetyHelp"},
             Set(q, In([turns[q] EXCEPT !.danger = IF @ = "none" THEN "model" ELSE @], pc))
      PROVE  AllCounted'
  <2> DEFINE turn == [turns[q] EXCEPT !.danger = IF @ = "none" THEN "model" ELSE @]
  <2>1. turn \in Shape /\ Counters(turn) /\ turn.pc = "loop"
    BY <1>1 DEF Shape, Counters
  <2>2. Set(q, In(turn, pc))
    BY <1>2
  <2> HIDE DEF turn
  <2>3. Readings(turn.pc) + More(pc) <= Readings(pc)
    BY <2>1 DEF Readings, More, Helping
  <2>4. Counted(In(turn, pc))
    BY <2>1, <2>3, InCounted
  <2> QED
    BY <1>1, <2>2, <2>4, SetCounted DEF Answering
<1> QED
  BY <1>1, <1>2, Replies, CampusReplyCounted, FallbackCounted DEF Finish

LEMMA AddingCounted ==
  ASSUME TurnInvariant, AllCounted, NEW q \in Requests, Support(q) \/ BesideReplies(q)
  PROVE  AllCounted'
<1>1. turns[q] \in Shape /\ Counted(turns[q]) /\ turns[q].pc \in {"support", "besideHelp"}
  BY DEF TurnInvariant, Held, AllCounted, Support, BesideReplies
<1>2. turns[q].pc \in Answering
  BY <1>1 DEF Answering
<1>3. PICK turn \in Added(turns[q]) :
        \/ turns[q].pc = "support" /\ Set(q, In(turn, "besideHelp"))
        \/ \E reply : Set(q, Done(turn, reply))
  BY DEF Support, BesideReplies
<1>4. turn \in Shape /\ Counted(turn) /\ turn.pc = turns[q].pc
  <2>1. PICK more \in {{}, {published}} : turn = [turns[q] EXCEPT !.reply.added = @ \cup more]
    BY DEF Added
  <2>2. more \in SUBSET Releases
    BY DEF TurnInvariant
  <2>3. turn \in Shape
    BY <1>1, <2>1, <2>2, AddedShape
  <2> QED
    BY <1>1, <2>1, <2>3 DEF Counted, Counters, Shape
<1>5. CASE turns[q].pc = "support" /\ Set(q, In(turn, "besideHelp"))
  <2>1. Readings(turn.pc) + More("besideHelp") <= Readings("besideHelp")
    BY <1>4, <1>5 DEF Readings, More, Helping
  <2>2. Counted(In(turn, "besideHelp"))
    BY <1>4, <2>1, InCounted DEF Counted
  <2> QED
    BY <1>2, <1>5, <2>2, SetCounted
<1>6. CASE \E reply : Set(q, Done(turn, reply))
  BY <1>2, <1>4, <1>6, DoneCounted, SetCounted
<1> QED
  BY <1>3, <1>5, <1>6

\* A second is counted only when no limit has run out.
LEMMA TickCounted ==
  ASSUME TurnInvariant, AllCounted, NEW q \in Requests, Tick(q)
  PROVE  AllCounted'
<1> DEFINE timed == [turns[q] EXCEPT !.clock = @ + 1]
           turn == [timed EXCEPT !.since = @ + 1]
<1>1. turns[q] \in Shape /\ Counted(turns[q]) /\ turns[q].clock # OuterSeconds
  BY DEF TurnInvariant, Held, AllCounted, Tick, Expired
<1>2. turn = [turns[q] EXCEPT !.clock = @ + 1, !.since = @ + 1]
  BY <1>1 DEF Shape
<1>3. /\ turn.clock = turns[q].clock + 1 /\ turn.since = turns[q].since + 1
      /\ turn.helps = turns[q].helps /\ turn.attempts = turns[q].attempts
      /\ turn.pc = turns[q].pc
  BY <1>1 DEF Shape
<1>4. Set(q, turn)
  BY <1>2 DEF Tick
<1> HIDE DEF turn
<1>5. Counted(turn)
  BY <1>1, <1>3, OuterTyped DEF Counted, Counters
<1> QED
  BY <1>3, <1>4, <1>5, SetCounted

LEMMA StepCounted == TurnInvariant /\ AllCounted /\ [Next]_vars => AllCounted'
<1> SUFFICES ASSUME TurnInvariant, AllCounted, [Next]_vars
             PROVE  AllCounted'
  OBVIOUS
<1>1. CASE UNCHANGED turns
  BY <1>1 DEF AllCounted, PlacesHeld, Places, Counted, Counters
<1>2. ASSUME NEW q \in Requests, Arrive(q) \/ Tick(q) \/ Expire(q)
      PROVE  AllCounted'
  BY <1>2, ArriveCounted, TickCounted, RepliesCounted, FallingBackCounted, AddingCounted
     DEF Expire
<1>3. ASSUME NEW q \in Requests,
             \/ Read(q) \/ CodeReads(q) \/ Prelude(q) \/ Ask(q) \/ Lookup(q)
             \/ DatasetChanges(q) \/ Stuck(q) \/ Finish(q)
      PROVE  AllCounted'
  BY <1>3, ReadCounted, CodeReadsCounted, PreludeCounted, LookupsCounted, FallingBackCounted, FinishCounted
<1>4. ASSUME NEW q \in Requests, Support(q) \/ Break(q) \/ ClientLeaves(q)
      PROVE  AllCounted'
  BY <1>4, AddingCounted, RepliesCounted
<1> QED
  BY <1>1, <1>2, <1>3, <1>4 DEF Next, Publish, vars

LEMMA InitCounted == Init => AllCounted
<1> SUFFICES ASSUME Init
             PROVE  AllCounted
  OBVIOUS
<1>1. Places = {}
  BY DEF Init, NewTurn, Places, Answering
<1>2. PlacesHeld
  BY <1>1, FS_EmptySet, TurnAssumption DEF PlacesHeld
<1>3. Counted(NewTurn)
  BY OuterTyped DEF Counted, Counters, NewTurn, Readings
<1> QED
  BY <1>2, <1>3 DEF Init, AllCounted

\* No more answers are made at once than there are places, the questions beside an
\* emergency included, and no clock passes the limit of the whole answer: for any number of
\* requests (api/app.py chat, _connected_answer).
THEOREM TurnTyped == Spec => []TurnTypeOK
<1>1. TurnInvariant /\ AllCounted => TurnTypeOK
  <2> SUFFICES ASSUME TurnInvariant, AllCounted
               PROVE  TurnTypeOK
    OBVIOUS
  <2>1. ASSUME NEW q \in Requests
        PROVE  turns[q] \in Turn
    <3>1. turns[q] \in Shape /\ Counted(turns[q])
      BY DEF TurnInvariant, Held, AllCounted
    <3>2. Readings(turns[q].pc) \in 0..3
      BY DEF Readings
    <3>3. turns[q].clock \in 0..OuterSeconds /\ turns[q].since \in 0..OuterSeconds
          /\ turns[q].helps \in 0..3 /\ turns[q].attempts \in 0..MaxAttempts
      BY <3>1, <3>2, OuterTyped DEF Counted, Counters
    <3> QED
      BY <3>1, <3>3 DEF Shape, Turn
  <2>2. turns \in [Requests -> Turn]
    BY <2>1 DEF TurnInvariant
  <2> QED
    BY <2>2 DEF TurnTypeOK, TurnInvariant, AllCounted, PlacesHeld, Places
<1>2. Spec => []AllCounted
  BY InitCounted, StepCounted, Invariance, PTL DEF Spec
<1> QED
  BY <1>1, <1>2, Invariance, PTL
=============================================================================
