-------------------------------- MODULE Turn --------------------------------
(***************************************************************************)
(* One chat request from the phrase floor to its reply: the chat route and *)
(* _connected_answer in api/app.py, and answer in engine.py with the read  *)
(* of the message, code's own answers, the model's lookups, the emergency  *)
(* text and the reply that goes out when something failed.                 *)
(*                                                                         *)
(* A turn's clock counts the seconds since its answer began.  A wait ends  *)
(* at any second up to its own limit, and a limit in force is never        *)
(* overrun: asyncio cancels what is waiting for it.  The waits that have   *)
(* no limit of their own end, at the latest, with the whole answer.        *)
(*                                                                         *)
(* Facts are the published release they were read from.  A lookup of a     *)
(* turn reads the release its first lookup read, or fails.  The readers of *)
(* an answer of code's own each read what is published as they begin.      *)
(***************************************************************************)
EXTENDS Integers, FiniteSets

CONSTANTS
  Requests,      \* chat requests
  Capacity,      \* answers made at once
  Written,       \* is BRAIN_OUTPUT "written" (else "text" or "json")
  TurnSeconds,   \* ChatEngine.turn_seconds
  HelpSeconds,   \* HELP_SECONDS, of each reading of the campus numbers
  Grace,         \* what _connected_answer gives beyond both
  MaxAttempts,   \* MAX_TOOL_ATTEMPTS
  LastRelease    \* bound: the releases published during the model are 1..LastRelease

ASSUME TurnAssumption ==
  /\ Capacity \in Nat \ {0}
  /\ Written \in BOOLEAN
  /\ {TurnSeconds, HelpSeconds} \subseteq Nat
  /\ Grace \in Nat \ {0}
  /\ MaxAttempts \in Nat
  /\ LastRelease \in Nat \ {0}

VARIABLES
  published,  \* the release the facts are read from now
  turns       \* every request's turn

vars == <<published, turns>>

OuterSeconds == TurnSeconds + HelpSeconds + Grace
Releases == 1..LastRelease
None == 0

\* What the phrase floor says of a message: nothing, an emergency, or an emergency
\* beside which the question is answered too.
Floor == {"quiet", "emergency", "asks"}

\* The read found an emergency: in the turn's time, or after it.
ReadFound(turn) == turn.danger \in {"read", "late"}

\* A reply: whether it starts with an emergency text, the releases of the lookups it
\* answers with, of what code's own readers read for it, and of the offices and numbers
\* that are added to it.
Reply == [status: {"ok", "failed", "busy", "gone"}, emergency: BOOLEAN,
          facts: SUBSET Releases, code: SUBSET Releases, added: SUBSET Releases]
Failed == [status |-> "failed", emergency |-> FALSE, facts |-> {}, code |-> {}, added |-> {}]
Ok(emergency, facts) == [Failed EXCEPT !.status = "ok", !.emergency = emergency, !.facts = facts]

\* The waits of an answer: while one is on, the answer holds a place.
Answering == {"read", "readHelp", "prelude", "loop", "lookup", "finishHelp",
              "safetyHelp", "support", "besideHelp"}
\* The waits that read the campus numbers, and those the turn's own limit ends.
Helping == {"floorHelp", "readHelp", "finishHelp", "safetyHelp", "besideHelp"}
Limited == {"loop", "lookup"}

Turn == [pc: Answering \cup {"new", "floorHelp", "done"},
         floor: Floor,
         danger: {"none", "read", "late", "model"},  \* who named an emergency in this answer
         clock: 0..OuterSeconds,
         since: 0..OuterSeconds,  \* seconds the present wait has lasted
         helps: 0..3,             \* readings of the campus numbers since the answer began
         pin: {None} \cup Releases,
         facts: SUBSET Releases,  \* the releases of the supported results
         seen: SUBSET Releases,   \* those code's readers read in the present wait
         attempts: 0..MaxAttempts,
         reply: Reply]

NewTurn == [pc |-> "new", floor |-> "quiet", danger |-> "none", clock |-> 0, since |-> 0,
            helps |-> 0, pin |-> None, facts |-> {}, seen |-> {}, attempts |-> 0,
            reply |-> Failed]

Full == Cardinality({q \in Requests : turns[q].pc \in Answering}) >= Capacity

Set(q, turn) == turns' = [turns EXCEPT ![q] = turn] /\ UNCHANGED published
In(turn, pc) == [turn EXCEPT !.pc = pc, !.since = 0, !.seen = {},
                             !.helps = @ + (IF pc \in Helping \ {"floorHelp"} THEN 1 ELSE 0)]
Wait(q, pc) == Set(q, In(turns[q], pc))

-----------------------------------------------------------------------------
(***************************************************************************)
(* Replies on their way out.                                               *)
(***************************************************************************)
\* Of a turn that is over, what the properties ask about is kept.
Done(turn, reply) ==
  [pc |-> "done", floor |-> turn.floor, danger |-> turn.danger, clock |-> 0, since |-> 0,
   helps |-> turn.helps, pin |-> None, facts |-> {}, seen |-> {}, attempts |-> 0,
   reply |-> reply]

\* A slip: whatever the answer came to replaces the floor's reply.
AnswerAnyway(q, reply) == Set(q, Done(turns[q], reply))

\* The route: an answer that failed leaves the floor's own reply.
Answer(q, reply) ==
  Set(q, Done(turns[q], IF turns[q].floor = "asks" /\ reply.status # "ok"
                        THEN Ok(TRUE, {}) ELSE reply))

\* What a failure comes to: an emergency the read found has its reply already.
Fail(q) == Answer(q, IF ReadFound(turns[q]) THEN Ok(TRUE, {}) ELSE Failed)

\* Does the emergency of the floor or of the read go before this answer?
Beside(turn) == ReadFound(turn) \/ (Written /\ turn.floor = "asks")

\* The campus answer's reply.  One with facts waits for the emergency beside it or
\* for the offices and events that are added to it.
CampusReply(q, reply) ==
  IF reply.status # "ok" THEN Fail(q)
  ELSE IF reply.emergency \/ ~Written THEN Answer(q, reply)
  ELSE LET turn == [turns[q] EXCEPT !.reply = reply]
       IN  \/ Beside(turn) /\ Set(q, In(turn, "besideHelp"))
           \/ turn.danger = "none" /\ Set(q, In(turn, "support"))
           \/ ~Beside(turn) /\ Answer(q, reply)

\* _fallback: what was looked up still goes out, unless the release changed under it
\* or it is too long.
Fallback(q, changed) ==
  \/ CampusReply(q, Failed)
  \/ /\ ~changed
     /\ turns[q].facts # {}
     /\ CampusReply(q, Ok(FALSE, turns[q].facts))

-----------------------------------------------------------------------------
(***************************************************************************)
(* The route.                                                              *)
(***************************************************************************)
\* Written answers read the message first unless code understands it.
Begin(turn) == {In([turn EXCEPT !.clock = 0], pc) :
                  pc \in IF Written THEN {"read", "prelude"} ELSE {"prelude"}}

Arrive(q) ==
  /\ turns[q].pc = "new"
  /\ \/ \E floor \in {"emergency", "asks"} :
          Set(q, In([turns[q] EXCEPT !.floor = floor], "floorHelp"))
     \/ Full /\ Answer(q, [Failed EXCEPT !.status = "busy"])
     \/ ~Full /\ \E turn \in Begin(turns[q]) : Set(q, turn)

\* A slip: the place of the question beside an emergency is not asked for.
FloorRepliesAtOnce(q) ==
  /\ turns[q].pc = "floorHelp"
  /\ \/ turns[q].floor = "emergency" /\ Answer(q, Ok(TRUE, {}))
     \/ turns[q].floor = "asks" /\ \E turn \in Begin(turns[q]) : Set(q, turn)

\* safety_reply, with the campus numbers or without; then the question beside it, if
\* there is a place for it.
FloorReplies(q) ==
  /\ turns[q].pc = "floorHelp"
  /\ \/ (turns[q].floor = "emergency" \/ Full) /\ Answer(q, Ok(TRUE, {}))
     \/ turns[q].floor = "asks" /\ ~Full /\ \E turn \in Begin(turns[q]) : Set(q, turn)

-----------------------------------------------------------------------------
(***************************************************************************)
(* The read of the message.                                                *)
(***************************************************************************)
\* _code_understands, _read and _read_checked: nothing was read or it is a campus
\* question; it is an emergency; code says the whole reply.  The model's part has a limit,
\* the facts read before and after it do not all have one.
Read(q) ==
  /\ turns[q].pc = "read"
  /\ \/ Wait(q, "prelude")
     \/ LET found == IF turns[q].clock <= TurnSeconds THEN "read" ELSE "late"
        IN  Set(q, In([turns[q] EXCEPT !.danger = found], "readHelp"))
     \/ CampusReply(q, Ok(FALSE, {}))

\* _read_emergency: the question, if there is one and it is not about self-harm, is
\* answered beside the emergency in what is left of the turn.
ReadReplies(q) ==
  /\ turns[q].pc = "readHelp"
  /\ \/ Answer(q, Ok(TRUE, {}))
     \/ Wait(q, "prelude")

-----------------------------------------------------------------------------
(***************************************************************************)
(* The campus answer.                                                      *)
(***************************************************************************)
\* A reader of code's own answers or of the one-call answer, of the written output, takes
\* the release that is published now: the releases of those before it are not looked at.
CodeReads(q) ==
  /\ Written /\ turns[q].pc = "prelude"
  /\ Set(q, [turns[q] EXCEPT !.seen = @ \cup {published}])

\* What they read is the answer; or it comes to nothing and the lookups begin, in what is
\* left of the turn.
Prelude(q) ==
  /\ turns[q].pc = "prelude"
  /\ \/ /\ turns[q].seen # {}
        /\ CampusReply(q, [Ok(FALSE, {}) EXCEPT !.code = turns[q].seen])
     \/ turns[q].clock < TurnSeconds /\ Wait(q, "loop")
     \/ turns[q].clock >= TurnSeconds /\ Fallback(q, FALSE)

\* The model, or code's own route, asks for a lookup.
Ask(q) ==
  /\ turns[q].pc = "loop"
  /\ turns[q].attempts < MaxAttempts
  /\ Set(q, In([turns[q] EXCEPT !.attempts = @ + 1], "lookup"))

\* A slip: a lookup reads whatever is published.
LookupUnpinned(q) ==
  /\ turns[q].pc = "lookup"
  /\ \E facts \in {{}, {published}} :
       Set(q, In([turns[q] EXCEPT !.pin = published, !.facts = @ \cup facts], "loop"))

\* A lookup reads the turn's release, which the first one fixes, and finds facts or none.
Lookup(q) ==
  /\ turns[q].pc = "lookup"
  /\ turns[q].pin \in {None, published}
  /\ \E facts \in {{}, {published}} :
       Set(q, In([turns[q] EXCEPT !.pin = published, !.facts = @ \cup facts], "loop"))

DatasetChanges(q) ==
  /\ turns[q].pc = "lookup"
  /\ turns[q].pin \notin {None, published}
  /\ Fallback(q, TRUE)

\* A model call or a lookup fails, or the turn has used what it may.
Stuck(q) ==
  /\ turns[q].pc \in Limited
  /\ Fallback(q, FALSE)

\* The model is done.  A reply that names an emergency, or the floor's in the outputs
\* that pass it on, reads the campus numbers first; a malformed one is not composed.
Finish(q) ==
  /\ turns[q].pc = "loop"
  /\ \/ /\ Written \/ turns[q].floor # "asks"
        /\ CampusReply(q, Ok(FALSE, turns[q].facts)) \/ Fallback(q, FALSE)
     \/ \E pc \in {"finishHelp", "safetyHelp"} :
          Set(q, In([turns[q] EXCEPT !.danger = IF @ = "none" THEN "model" ELSE @], pc))

\* A slip: an emergency that cannot be composed is a failure like any other.
ComposeOrFail(q) ==
  /\ turns[q].pc = "finishHelp"
  /\ Answer(q, Ok(TRUE, turns[q].facts)) \/ Fallback(q, FALSE)

\* _finish after its numbers; a reply too long or not well formed leaves the emergency
\* text, with the numbers read once more.
Compose(q) ==
  /\ turns[q].pc = "finishHelp"
  /\ Answer(q, Ok(TRUE, turns[q].facts)) \/ Wait(q, "safetyHelp")

SafetyReplies(q) ==
  /\ turns[q].pc = "safetyHelp"
  /\ Answer(q, Ok(TRUE, {}))

-----------------------------------------------------------------------------
(***************************************************************************)
(* What is added to an answer.                                             *)
(***************************************************************************)
Added(turn) ==
  {[turn EXCEPT !.reply.added = @ \cup more] : more \in {{}, {published}}}

\* _with_support and _with_related_events read what is published now.
Support(q) ==
  /\ turns[q].pc = "support"
  /\ \E turn \in Added(turns[q]) :
       Set(q, IF Beside(turn) THEN In(turn, "besideHelp") ELSE Done(turn, turn.reply))

\* _beside_emergency: so do the numbers.
BesideReplies(q) ==
  /\ turns[q].pc = "besideHelp"
  /\ \E turn \in Added(turns[q]) :
       Set(q, Done(turn, [turn.reply EXCEPT !.emergency = TRUE]))

-----------------------------------------------------------------------------
(***************************************************************************)
(* Limits, failures, and the client.                                       *)
(***************************************************************************)
\* The seconds a wait may still last.
Expired(turn) ==
  \/ turn.clock = OuterSeconds
  \/ turn.pc \in Helping /\ turn.since = HelpSeconds
  \/ turn.pc \in Limited /\ turn.clock >= TurnSeconds
  \/ ReadFound(turn) /\ turn.pc # "readHelp" /\ turn.clock >= TurnSeconds

Tick(q) ==
  /\ turns[q].pc \notin {"new", "done"}
  /\ ~Expired(turns[q])
  /\ Set(q, [turns[q] EXCEPT !.clock = @ + 1, !.since = @ + 1])

\* asyncio.timeout of the lookups.
TurnTimeout(q) ==
  /\ turns[q].pc \in Limited
  /\ turns[q].clock >= TurnSeconds
  /\ Fallback(q, FALSE)

\* asyncio.timeout of the question beside an emergency the read found.
BesideTimeout(q) ==
  /\ ReadFound(turns[q]) /\ turns[q].pc \in Answering \ {"readHelp"}
  /\ turns[q].clock >= TurnSeconds
  /\ Fail(q)

\* A slip: only the lookups have a limit.
NoOuterTimeout(q) ==
  /\ turns[q].pc \in Limited
  /\ turns[q].clock = OuterSeconds
  /\ Answer(q, Failed)

\* asyncio.timeout of _connected_answer.
OuterTimeout(q) ==
  /\ turns[q].pc \in Answering
  /\ turns[q].clock = OuterSeconds
  /\ Answer(q, Failed)

\* What no handler expects, in the steps that read facts on their own.
Break(q) == turns[q].pc \in {"prelude", "support"} /\ Fail(q)

ClientLeaves(q) ==
  /\ turns[q].pc \in Answering
  /\ Answer(q, [Failed EXCEPT !.status = "gone"])

Publish ==
  /\ published < LastRelease
  /\ published' = published + 1
  /\ UNCHANGED turns

Init ==
  /\ published = 1
  /\ turns = [q \in Requests |-> NewTurn]

\* What a limit that runs out does.
Expire(q) ==
  \/ FloorReplies(q) \/ ReadReplies(q) \/ Compose(q) \/ SafetyReplies(q)
  \/ BesideReplies(q) \/ TurnTimeout(q) \/ BesideTimeout(q) \/ OuterTimeout(q)

Next ==
  \/ Publish
  \/ \E q \in Requests :
       \/ Arrive(q) \/ Tick(q) \/ Expire(q)
       \/ Read(q) \/ CodeReads(q) \/ Prelude(q) \/ Ask(q) \/ Lookup(q)
       \/ DatasetChanges(q) \/ Stuck(q) \/ Finish(q)
       \/ Support(q) \/ Break(q) \/ ClientLeaves(q)

Spec == Init /\ [][Next]_vars

\* Time passes and limits that ran out are acted upon.  Nothing is assumed of the model,
\* the facts or the client: they may never answer.
Fairness ==
  \A q \in Requests : WF_vars(Tick(q)) /\ WF_vars(Expired(turns[q]) /\ Expire(q))

FairSpec == Spec /\ Fairness

-----------------------------------------------------------------------------
(***************************************************************************)
(* Properties.                                                             *)
(***************************************************************************)
\* No more answers are made at once than there are places, the questions beside an
\* emergency included, and no clock passes the limit of the whole answer.
TurnTypeOK ==
  /\ published \in Releases
  /\ turns \in [Requests -> Turn]
  /\ Cardinality({q \in Requests : turns[q].pc \in Answering}) <= Capacity

\* "Any failure leaves the floor's own reply, which is complete": a message the phrase
\* floor caught is answered with an emergency text first, whatever becomes of the
\* question beside it.
FloorKept ==
  \A q \in Requests :
    turns[q].pc = "done" /\ turns[q].floor # "quiet" => turns[q].reply.emergency

Named(q, by) ==
  /\ turns[q].pc = "done" /\ turns[q].reply.status # "gone"
  /\ turns[q].danger \in by

\* An emergency the read named in the turn's time, or the model named, is in the reply,
\* through malformed replies, changed releases, failures and every limit, but for one the
\* model named whose reply took a second reading of the campus numbers.
EmergencySurvives ==
  \A q \in Requests :
    Named(q, {"read", "model"}) =>
      turns[q].reply.emergency \/ (turns[q].danger = "model" /\ turns[q].helps = 2)

\* "The turn deadline must never turn an emergency reply into a timeout": one the model
\* named is in the reply.
EmergencyNeverTimesOut ==
  \A q \in Requests : Named(q, {"model"}) => turns[q].reply.emergency

\* "The turn answers from one release": the lookups an answer is made of read one release,
\* however often a new one is published between them.
LookupsOfOneRelease ==
  \A q \in Requests : Cardinality(turns[q].facts \cup turns[q].reply.facts) <= 1

\* "A publication change invalidates the whole turn's fact set": so does an answer of
\* code's own, whose readers each take the release they find.
FactsOfOneRelease ==
  \A q \in Requests : Cardinality(turns[q].reply.facts \cup turns[q].reply.code) <= 1

\* With time alone every request gets its reply: no answer waits for ever for the
\* model, the facts, a place, or another answer.
EveryRequestEnds == \A q \in Requests : turns[q].pc # "new" ~> turns[q].pc = "done"
=============================================================================
