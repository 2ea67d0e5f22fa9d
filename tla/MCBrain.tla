------------------------------ MODULE MCBrain ------------------------------
(***************************************************************************)
(* The brain beside its calls, for TLC.  `part` says what is looked at:    *)
(* the two readers of a release that changes under them (a Brain has one   *)
(* of them), or the rules by which one question is read, looked up and     *)
(* answered.  A rule keeps no state: each is asked once, of every input    *)
(* of AskRecords, AskDays and AskAnswers, and must hold of it.             *)
(***************************************************************************)
EXTENDS GraphReader, Loads, TLC

CONSTANTS q1, q2, c1, c2, directory, names
VARIABLES part, asked

mcVars == <<readerVars, loadVars, part, asked>>

TwoQuestions == {q1, q2}
TwoCallers == {c1, c2}
TwoNames == {directory, names}
OnePinned == {directory}

Re == INSTANCE AskRecords
Da == INSTANCE AskDays
An == INSTANCE AskAnswers

Rd == INSTANCE Reading
Ev == INSTANCE Evidence
St == INSTANCE Statements
Mn == INSTANCE Menus
Oh == INSTANCE OpenHours
Pk == INSTANCE Packet
Pl == INSTANCE Plain WITH Quotes <- <<<<2, 2>>, <<1, 1>>, <<1, 0>>, <<0, 0>>>>
Ca == INSTANCE Calendar WITH MaxEvents <- 2, MaxOutside <- 1, MaxNear <- 1, MinCards <- 3
Sh == INSTANCE Shuttle WITH MaxListed <- 1, MaxToday <- 1
Te == INSTANCE Terms
Wk == INSTANCE Walk WITH MaxAsked <- 2
Pe == INSTANCE People WITH MaxPeople <- 2, MaxPrograms <- 2, Beside <- 1
Pg == INSTANCE Pages WITH PerPart <- 3, PerPage <- 1, MaxUnits <- 4, PoolPart <- 4, PoolPage <- 2,
                          CoreRead <- 1, PickedRead <- 3, MaxPolicy <- 1, MaxFacts <- 2, Kept <- 2,
                          Core <- 1, OtherKept <- 1, MaxOthers <- 1, MaxResults <- 2
Oc == INSTANCE OneCall WITH MaxDropped <- 1, MaxOffices <- 2, MaxPicked <- 1

-----------------------------------------------------------------------------
NotAsked == [rule |-> "none"]

MCInit ==
  /\ ReaderInit /\ LoadsInit
  /\ asked = NotAsked
  /\ part \in {"graph", "postgres", "rules"}

MCNext ==
  /\ UNCHANGED part
  /\ \/ part = "graph" /\ ReaderNext /\ UNCHANGED <<loadVars, asked>>
     \/ part = "postgres" /\ LoadsNext /\ UNCHANGED <<readerVars, asked>>
     \/ /\ part = "rules" /\ asked = NotAsked
        /\ Re!AskAny \/ Da!AskAny \/ An!AskAny
        /\ UNCHANGED <<readerVars, loadVars>>

MCSpec == MCInit /\ [][MCNext]_mcVars

(* The questions of a turn and the build a caller waits for go on; a       *)
(* release, and a rule asked, need not.                                    *)
MCFairSpec == MCSpec /\ LoadsFairness

-----------------------------------------------------------------------------
(***************************************************************************)
(* A rule is asked in one step, of what is asked after it: each property   *)
(* says of every such step that the rule answers as it must.               *)
(***************************************************************************)
Asks(rule) == asked'.rule = rule
It == asked'.of

(***************************************************************************)
(* The majority of a message's reads decides only what most of the reads   *)
(* that came back say, and an urgent part or a help line is never voted    *)
(* away with the part it came beside (triage.py, engine.py).               *)
(***************************************************************************)
MessageRead == [][Asks("reading") => Rd!MessageRead(It)]_asked

(***************************************************************************)
(* Nothing a row publishes of a field is dropped or cited from another     *)
(* row, values stand side by side only when no day has both, an absence    *)
(* gives way to any value; and a row two entities claim is the pinned      *)
(* owner's or nobody's (retrieval/entity_facts.py).                        *)
(***************************************************************************)
EvidenceSound ==
  [][ /\ Asks("field") => Ev!FieldStated(It)
      /\ Asks("rows") => Ev!RowOwnedOnce(It) ]_asked

(***************************************************************************)
(* A statement of hours keeps the days it was published with, a procedure  *)
(* only its own entries, and a dish is offered to an asker who avoids an   *)
(* allergen only when its labels were read (retrieval/entity_facts.py).    *)
(***************************************************************************)
PublishedSound ==
  [][ /\ Asks("schedule") => St!StatementsKept(It)
      /\ Asks("menu") => Mn!MenuSafe(It) ]_asked

(***************************************************************************)
(* A name reaches an entity only when it is that entity's alone, code      *)
(* routes a question only to all the places of its one name or room, or a  *)
(* menu of no place to every venue with one; and a person, dean, program   *)
(* or plan is answered only when the message means that one                *)
(* (retrieval/campus_graph.py, router.py, people.py, academics.py).        *)
(***************************************************************************)
NamesSound ==
  [][ /\ Asks("walk") => Wk!WalkSure(It)
      /\ Asks("people") => Pe!PeopleMeant(It) ]_asked

(***************************************************************************)
(* Open or closed at a minute follows the published spans.  A packet of    *)
(* several lookups cites what it states of an office, is complete only     *)
(* when it is whole, and its conflicts and gaps reach the writer.  The     *)
(* text code writes from it denies no value it states (hours_on.py,        *)
(* fact_packet.py, writer_view.py, plain_writer.py).                       *)
(***************************************************************************)
PacketSound ==
  [][ /\ Asks("clock") => Oh!ClockAgrees(It)
      /\ Asks("packet") => Pk!PacketHonest(It)
      /\ Asks("plain") => Pl!PlainSound(It) ]_asked

(***************************************************************************)
(* The events and clubs an answer lists are the ones asked for, what it    *)
(* counts is what there is, and it says so when it lists others            *)
(* (events.py).                                                            *)
(***************************************************************************)
CalendarSound == [][Asks("calendar") => Ca!CalendarHonest(It)]_asked

(***************************************************************************)
(* No ride that has left and no date that has passed is told as the next,  *)
(* and a term's date belongs to that term (shuttle.py,                     *)
(* academic_calendar.py).                                                  *)
(***************************************************************************)
TimesSound ==
  [][ /\ Asks("shuttle") => Sh!ShuttleHonest(It)
      /\ Asks("terms") => Te!DatesHonest(It) ]_asked

(***************************************************************************)
(* What an answer reads is what the picks chose and the limits allow, and  *)
(* every mark it ends with names the source its words were written from    *)
(* (page_facts.py, one_call.py, engine.py).                                *)
(***************************************************************************)
AnswerSound ==
  [][ /\ Asks("pages") => Pg!PagesRead(It)
      /\ Asks("onecall") => Oc!OneCallHolds(It) ]_asked

(***************************************************************************)
(* "No upcoming event on the whole calendar is about it" is said only when *)
(* none is (tests/test_kinds.py:199; events.py:1176).                      *)
(***************************************************************************)
NeverMeansNever == [][Asks("calendar") => Ca!NeverMeansNever(It)]_asked
=============================================================================
