# A verification project for the RockyGPT Brain

The Brain answers a student's question about campus. One chat turn reads published facts, may ask a paid
model a few times, and replies in words that code or a checked writer made of those facts. Two things around
that are easy to get wrong and hard to test: the **money** (every paid request is held in a ledger before it
is sent, and settled, doubted or freed after it, in a database that can fail at any statement), and the
**data release** (built once a day elsewhere, shared through a file store, switched to by a running server).
A third is what a reader must never lose: an **emergency** in a
message is answered before anything else, whatever fails, is late or changes meanwhile. The TLA+ modules
here model those first, as state machines with crashes, late replies and limits. Around them stand the rules
by which one question becomes an answer: which of a message's reads counts, which row may be stated, which
place, person or date a name means, what a reply may cite. They keep no state, and are operators checked over
bounded inputs. All source paths below are under `src/src/rockygpt_brain/` unless
they start at `docs/` or `migrations/`.

## Inventory of the system

| Component | State it keeps | Operations | Interacts with | Hard behaviour | Correct when |
|---|---|---|---|---|---|
| Spending ledger (`spending.py`, `migrations/`) | account row (cap, paused), monthly supplements, one row per operation | reserve, settle, uncertain, release, pause; readiness | gateway calls it; the database serializes on the account row | clock read before the lock; month ends; overruns; late duplicates | the month never commits more than its limit; a settled row is final |
| Paid gateway (`provider.py`, `turn.py`) | a turn's `TurnBudget` (calls, committed, lock) | complete, embed | ledger, provider, the turn that cancels it | lost replies, timeouts after sending, late charges, cancellation at every await | money that may have been spent is held or charged; limits of a turn hold |
| Release store and publisher (`retrieval/graph_sync.py`) | `active.json`, release files | publish | file store, followers | death between steps, same release shared twice | a reader finds the old release or the whole new one |
| Follower and switch (`graph_sync.py`, `api/releases.py`, `api/app.py`, `retrieval/graph_store.py`) | folder, its pointer, refused release, the engine | first download, fetch, check, install, switch, give back memory | store, engine, two threads on one folder | restart anywhere, refusals, disk errors | never serves a release that failed its checks; ends on the newest |
| Chat service (`api/app.py`) | capacity semaphore, engine, startup error | admission, chat, readiness, entity facts | engine, client | full capacity, client leaving, outer limit | emergency text is never refused; capacity is given back |
| Turn engine (`engine.py`, `answers.py`, `context.py`) | the turn's results, pins, trace | answer, reads, routes, model loop, lookups, finish, write, fallback | gateway, facts | deadline against partial results, release changing between lookups | the lookups of an answer read one release; facts already read survive a failure |
| Message reading (`triage.py`) | none | several reads at once, their majority | gateway | some reads fail or are late | order of arrival does not matter; a danger is never voted away |
| Once-per-release values (`engine.py`) | caches and their locks | `_per_release`, `warm` | worker threads, facts | many callers, release change | built once; a value is used only for its own release |
| Folder reader (`retrieval/graph_store.py`) | the loaded file and its stamp, the index beside it | `_graph`, `meaning_index` | publisher, many questions | a publication between any two looks | a new release is served from the next question on |
| Evidence reader (`retrieval/postgres.py`, `entity_facts.py`) | connection pool, meaning index | snapshots, loads; linking, dating and stating rows | database | a slow load overtaken by a newer one; rows that conflict, overlap, are doubted or belong to two | an index of another release is never used; a value is stated only when the rows allow it |
| Campus graph (`retrieval/campus_graph.py`, `retrieval/graph_browse.py`, `meaning.py`) | position and pins of one walk | traverse, search | facts | pins | lookups of a walk read one release |
| Router and boundary (`router.py`, `boundary.py`, `kinds.py`) | none | code routes, emergency floor | engine | precedence of rules | a danger is never routed as a lookup |
| Schedules (`hours_on.py`, `dining.py`, `shuttle.py`, `season.py`, `academic_calendar.py`) | none | the hours of a day, next departures, terms | engine | dates at the edge of a range, past midnight | the most specific dated row wins |
| Catalog, people, events, teams (`academics.py`, `people.py`, `events.py`, `teams.py`) | none | selection and wording | engine | names that match several, parts of a day | the answer is about the one meant, and counts what there is |
| Packet and writer view (`fact_packet.py`, `writer_view.py`) | none | build, cut | engine, writers | several lookups of one question that set each other aside, gaps, disputed values | whole only when every lookup is; what is disputed or missing stays so in the view |
| Writers (`writer.py`, `plain_writer.py`, `page_facts.py`, `one_call.py`) | none | pick, write, check, repair | gateway | a writer that slips | nothing is shown that the check refused |
| Settings, timing, development routes, scripts | | | | | no protocol of their own |

`PROJECT.json` lists the same components with what is modelled, and every hazard of the code at its line
with the property that would catch it.

## Modules

| Module | Models | Correspondence |
|---|---|---|
| `Ledger` | `PostgresLedger` and its tables | every transaction takes the account row's lock first, so each is one action: `Reserve`, `Settle`, `Uncertain`, `Release`, `Pause`. `now` is the month the caller's clock gave before it waited for the lock; `MaxLag` says how many months that may be behind. Rows are records of `ops`; the SQL sum is `Total(Counted(m))` |
| `Allowance` | what the ledger promises, without rows | an amount held, an amount charged this month, open or closed |
| `Gateway` | `complete`, `embed`, `_uncertain` and `TurnBudget`, on top of `Ledger` | one stage per await of the code in `pc`; `Busy` is the turn's lock; every ledger statement has a version whose reply arrives, one whose reply is lost after the commit, and one that does not commit; `Bill` is the provider charging at any time after the request arrived |
| `Releases` | `publish`, `GraphFollower`, `Releases`, `_first_sync` | the data run is `publisher.step`; each of the Brain's two threads has a `pc`; file contents are the release they belong to (a sha256 identifies it), file names are stems |
| `Turn` | the chat route, `_connected_answer`, `ChatEngine.answer` and what it calls | one stage of `pc` per wait: the floor's reply, the read, the reads and replies about an emergency, code's answers, the model, a lookup, what is added to an answer. `Answering` stages hold a place of the capacity semaphore. `clock` and `since` are the seconds of the whole answer and of the present wait; `Expired` says which limit has run out. `pin` is the release of `version` and `identity_hash`, which every lookup must find. Code's own answers and the one call have no such pin: `CodeReads` is one of their readers, which takes the release it finds, and `seen` is what they have read |
| `Picks` | `_picks` and `until_most_back`, with the paid calls around them | `rounds` are the rounds of a turn, each with its start, the end of its wait, its share and its picks; a pick's `hold` is the `committed_nusd` of its own budget; `committed` is the turn's. A pick asks the ledger, is sent and comes back as in `Gateway`, in one step each; late picks move on in later phases of the turn. What a request is charged above its hold (`provider.py:339-344`) fails the call and is counted whole: `over` for the picks still waited for, `above` as part of `committed`. The ledger pauses its account then; `Picks` does not rely on it, and grants later holds as if it had been reviewed. The count of calls, which the engine raises before every call of its own, is left out |
| `GraphReader` | `GraphOnlyFacts` that follows its folder's pointer | the n-th publication is the n-th stamp and names the n-th release; `LookAt`, `UseLoaded`, `Open`, `Opened`, `Index`, ... are the stretches of `_graph` and `meaning_index` between which another thread may run; `loader` is `_lock` |
| `Loads` | `_per_release` in `engine.py` and the meaning index of `PostgresEntityFacts` | `held[name]` is the (key, value) pair of an attribute, a value being the set of releases it was read from; `building[name]` its lock; `kept`, `due`, `loading`, `background` are `_meaning`, `_meaning_checked`, `_meaning_loading` and the thread of `_load_in_background` |
| `LedgerProofs`, `GatewayProofs`, `PicksProofs`, `ReleasesProofs`, `TurnProofs`, `ReadersProofs` | the theorems about the state machines, below | a module each, of the component's name; the two readers and the browser's views are in `ReadersProofs` |
| `RecordsProofs`, `ReadingProofs` | the theorems about the rules | rows, schedules, menus and offices; a message, people, plans, dates and the one call |

The rules of an answer. Each module is constant: an operator per function of the code, over records that hold
what the code branches on.

| Module | Models | What its property says |
|---|---|---|
| `Reading` | `triage.py`, what the engine does around a read | the majority does not depend on the order of arrival and never takes a danger away; a limit or a need is answered only when most reads say it. How near two wordings are is a ratio in the code; here it is exact in 60ths, and a tie that even the wording's text decides is a `CHOOSE` |
| `Evidence` | linking of rows to entities, doubts, second looks, conflicts and validity windows in `entity_facts.py` | nothing a row publishes of a field is dropped, and no value is cited from a row that does not publish it; values side by side never hold on one day; an absence needs every row silent; two rows of one id are refused. Whether a value is still in force is not decided here: an expired row is stated with its window, and `Packet` and `Plain` say what is current. A row two entities claim is the pinned owner's or is nobody's |
| `Statements` | schedules and procedures in `entity_facts.py` | a week keeps its days and is not put together of statements that differ; a procedure offers sections of its own entries only |
| `Menus` | dated menus, diets and allergens | a dish is offered as free of an allergen only when its labels were read |
| `Registry` | `EntityFacts` in `entity_facts.py`: search, contacts, places, listings | an office's answer is of its own records; a better match is never hidden by a worse one |
| `OpenHours` | `hours_on.py`, `dining.py` | open or closed at a minute, and until when, agree with the spans published for the day |
| `Packet` | `fact_packet.py`, `writer_view.py` | over packets of several parts: one said to be complete is whole in every lookup; no office's value reaches the writer uncited (a shuttle's timetable may, `fact_packet.py:603`); the day asked is said, once for each meal; a dated exception is not beside the weekly row; a disputed value reaches the writer as one; a gap is kept back, and a fact left out, only beside an answer to the same question |
| `Plain` | `plain_writer.py` | every value given is said with its sources or the writer gives up; a schedule that is not current is never said bare; nothing is denied that is said |
| `Calendar` | `events.py`, clubs | events listed are of the window and the topic, what is counted is what there is, others are said to be others |
| `Shuttle`, `Terms` | `shuttle.py`, `academic_calendar.py` | no ride that left, no date that passed is told as the next; a term's date is that term's |
| `Walk` | `campus_graph.py`, `graph_browse.py`, `router.py` | a name reaches a place only when it is that place's alone, else the question goes back; code routes a question with one name or room said, to all that name's places, or a menu asked of no place, to every venue that publishes one, and leaves no other word of it unread; a browse shows each record once, under its owner |
| `People` | `people.py`, `academics.py` | the people, deans, programs and plans answered are those the words name |
| `Pages` | the pages a reply is written from (`page_facts.py`, `one_call.py`, `meaning.py`) | what is read is what the picks chose within the limits, whatever their order; office pages are lent once |
| `OneCall` | `_one_call`, `one_call.py`, `catalog.py`, `contacts.py` | each mark of a reply names the source its words were written from, over all readers and the second look; what code says alone holds |

`AskRecords`, `AskDays` and `AskAnswers` hold the inputs these rules are asked of; `MCLedger`, `MCGateway`,
`MCReleases`, `MCTurn`, `MCPaid` and `MCBrain` the instances TLC checks. `MCPaid` puts an account of `Ledger`
and the picks of `Picks` side by side, one of them under way, `MCBrain` the two readers and all the rules. There a rule is asked in one
step, of an input taken from those modules, and its property is an action property: every such step is answered
as it must be.

Operators whose comment starts with "A slip" are plausible mistakes in the code next to them. No behaviour
uses them. `PROJECT.json` names one for each property; the others were tried the same way and break it too,
one for each rule a property is made of.

### Abstractions

Money is counted in whole units, and a sum of amounts is the number of units the rows stand for, so that a
sum over any set of rows can be reasoned about. Token counts and prices are one number, the hold, and one
more, the charge. The bytes of a release file are the release itself. What a release contains is one bit:
it opens and passes its checks (`Good`) or it does not. A read of a good release may still fail: `Refuse`
is possible for every release.

In `Turn` a reply is what its reader must not lose: its status, whether an emergency text comes first, and
the releases of its facts, those of lookups (`facts`), of code's readers (`code`) and of what is added (`added`). Which lookups a question needs, whether they find anything and whether the model
answers are choices. A reading of the message that finds an emergency after the turn's own time is told
apart (`late`): the facts read around the model's part (`_code_understands`, `_read_checked`) have no common
limit, so such a reply may meet the limit of the whole answer, and nothing is claimed of it.

The rules see text only as the kinds of words and values their branches tell apart: a phrase is a member of a
small set of words, hours are spans of minutes or a kind of text ("closed", words), a source is whether it is
fresh, cited and dated. Scores of meaning are small numbers and an input, since the vectors are floating
point. Limits on counts (`MAX_PEOPLE`, `PICKED`, `MAX_OUTSIDE`, ...) are constants of the modules, set to 1 to 4
in `MCBrain` so that every limit is met. A season's label is its words and
years, of which the first year counts (`season.py:56`). A packet's fixed wordings beside a menu or an office's
appointments are left out. Where a rule gives up (`CannotSay`, `PacketInvalid`), the module says
so, and its property is about what does go out.

In `Loads` a build reads the facts twice, the least in which a release can change, and a caller asks for one
thing at a time. In `GraphReader` two publications never share a stamp (time in nanoseconds, and size).

## Runs

| Run | Question | Instance and why it is enough |
|---|---|---|
| `ledger_late_clock` | (violation) Does the cap also hold for a statement that read its clock in the month before? | three operations, cap 3, no supplement, two months, `MaxLag = 1` |
| `gateway_two_turns` | Is money kept, does each turn stay within its calls and its allowance, does the cap hold, whatever is lost, late or cancelled? Does the gateway use the ledger only through its transactions? Does every call end? | one turn that tries two model calls where one is allowed, beside a turn with an embedding; two months and `MaxLag = 1`, so a call may commit with last month's clock; cap 2 above the turn limit 1, so each limit is reached on its own |
| `releases_safety` | Is the store whole, does it keep the release before, is a bad release never served? | two good releases and a bad one, a first download that may outlast the wait for it, a disk that may fail |
| `releases_follow` | Is the folder whole, are the files of the served release kept, does the Brain end up on the newest release? | two good releases with names of their own; store failures, refusals and crashes included; the disk works and the first download is in time |
| `releases_disk_fails` | (violation) Is an install the disk refused tried again? | as above with a failing disk |
| `turn_written` | Does every emergency reach its reply, whatever fails, changes or runs out? Are the lookups of an answer of one release? Does every request end? | two requests and one place, so that one finds it taken, also beside an emergency; two releases and two lookups, so that a lookup meets a changed release; limits of 2, 2 and 1 seconds in place of 52, 3 and 2, so that every limit can run out in every stage and two readings of the numbers exceed the rest |
| `turn_release` | (violation) Is every answer of one release, code's own and the one call's too? | as `turn_written`; two readers and one publication between them are enough |
| `turn_text_floor` | (violation) Does the floor's reply also stand in the text output? | as above, `Written = FALSE` |
| `turn_second_help` | (violation) Can the limit of the whole answer cut an emergency reply? | as `turn_written` |
| `paid` | Does the account row's lock make the cap hold, does an overrun stop admission, are settled rows final, does the ledger implement the abstract account? How does one turn pay: how far may late picks go beyond its allowance, does every pick end? | the account by itself: three operations, three months, cap 2, a supplement of 2 in month 1, amounts up to 2, clocks of the current month. Three rows are what it takes for a hold of an old month, a charge and a new hold to meet; a third month sees holds two months old. The picks by themselves: three, the code's own number, of which one can be late by itself, and two rounds, so that a late pick of the first meets the second; an allowance of 3, one unit a pick; a request charged up to one unit above its hold, before and in a round, so that the next hold meets a budget past its allowance; limits of 3, 2, 1 and 1 seconds in place of 52, 15, 2 and the ledger's 13, in the same order of length |
| `brain` | Is a new release served from the next question on, a value built once and never served mixed, an index given only to its own release, does every load end? Does each rule hold of every input? | two questions and three publications: one may be opened while the next arrives, and a third overtakes both; two callers, two values (one pinned) and two releases. Rules: over 700,000 questions, each asked once (the run has 813,067 distinct states); packets of one to three parts, offices beside a shuttle, an emergency, a name left open, a lookup cut short; two or three rows, people, places, events or sources of every kind that the rule tells apart, since a rule goes wrong between two of them |
| `calendar_never` | (violation) Is "no upcoming event on the whole calendar" only said when there is none? | the calendar's inputs of `brain` |

Bounds are constants: `MaxNusd`, `LastMonth`, `MaxLag` in `Ledger`; `MaxCalls` and `MaxTurn` of `Gateway`
are the code's own limits. `Releases` has no counter. Calls of `Gateway`, operations
of `Ledger` and rounds of `Picks` are finitely many, so their runs turn off the deadlock check: the system
stops when all of them have ended and the last month is over.

### Fairness

`Gateway`: a call under way keeps moving of its own accord (`WF` of `Forward`; cancellation is not relied on). Database statements time out after 3 s,
the wait for a connection after 10 s, and a request at the turn's deadline (`provider.py:287-290`,
`spending.py:71-120`). Nothing is assumed of the provider: it may never charge.

`Releases`: threads run (`WF` of the switch, of `Configure`, of the watcher's timer), and a step that is
tried again and again succeeds some day (`SF` of each forward step): a store that fails for ever, or a
Brain that crashes for ever, promises nothing. `NewestServed` therefore speaks of a store whose pointer and
a process whose uptime are eventually stable.

`Picks`: seconds pass, the ledger answers for a hold in time and a limit that ran out is acted upon (`WF` of
`Tick`, of `Count` and of `Ends` when `Overdue`). The model may never answer: a pick sent ends at its deadline.

`Loads`: a caller that has begun goes on, and so does a load in the background (`WF` of `Forward` and of
`LoadedInBackground`): threads run, and each statement and download has a limit, so that a read ends well or
badly. Nothing is assumed of callers to come, of releases or of the time of the next check.

`Turn`: seconds pass and a limit that ran out is acted upon (`WF` of `Tick` and of `Expire` when `Expired`);
`asyncio.timeout` is all the code relies on. The model, the facts and the client may never answer, so
`EveryRequestEnds` is about the limits alone.

## Findings

1. `CapEnforced` (`ledger_late_clock`): the month is computed from a clock read before the account lock is
   taken. A hold committed just after a month end is weighed against the old month's charges.
2. `InstalledIsServed` (`releases_disk_fails`): the folder's pointer is written before the marker and the
   removals. If one of those fails, install reports failure, and the next fetch finds the folder up to date:
   the release is not tried again until another arrives or the Brain restarts.

3. `FloorKept` (`turn_text_floor`): with `BRAIN_OUTPUT` text, the default, or json, a question beside a
   phrase-floor emergency that fails after a lookup found facts comes back from `_fallback` with status 200,
   and the route takes it in place of the emergency reply. `api/app.py` says any failure leaves the floor's
   own reply. The written output puts the emergency first and is not affected (`turn_written`).
4. `EmergencyNeverTimesOut` (`turn_second_help`): an emergency the model named late in the turn, whose first
   reading of the numbers takes its 3 s and whose reply then cannot be composed, reads them again; the whole
   answer has 3 + 2 s after the turn and is cut. `EmergencySurvives` says this is the only way.

5. `NeverMeansNever` (`calendar_never`): when the window is a part of a day, the events of that day outside the
   part are in neither of the two lists, and "No upcoming event on the whole calendar is about ..." may be said
   at ten in the morning of a topic that is on at two (asked of tonight).

6. `FactsOfOneRelease` (`turn_release`): the readers of code's own and of the one-call answer each call
   `facts.active_release()` (`engine.py` 2277, 2324, 2469, 2511, 2584, 2875, 2956, 3132), and only `gather` is given
   a release (3376-3379, the index's). A publication between two of them mixes facts of both in one reply, dated by
   whichever was read first. `docs/contract.md:259` says a publication change invalidates the whole turn's fact
   set. The lookups of `_campus_answer` are pinned, and `LookupsOfOneRelease` holds of them (`turn_written`).

More were met with the same models and have no run of their own:

- The pause after an unexpected model or usage is a second ledger transaction (`PauseOK` of `Gateway`) and
  can fail or be cancelled alone, which leaves the account open; `docs/contract.md` says it is paused.
- Offices, events and campus numbers are added to an answer from what is published at that moment
  (`_with_support`, `_with_related_events`, `_beside_emergency`), so a reply may mix two releases, while
  `engine.py:1889` says "The turn answers from one release." The model keeps them apart in `added`, and
  `FactsOfOneRelease` is about the facts of the answer itself, without what is added to it.

- A pick that is still asking the ledger for its hold when its round ends is in no count: `_picks` adds what
  the shares are at that moment, while a comment of `tests/test_one_call.py:344` says "The late pick is counted
  in the turn's calls and allowance, as one waited for was." `SpendBounded` says what this comes to: at most
  the shares of fewer than half of the picks, each round, every request counted up to its hold. A charge above a
  hold (more tokens than `input_token_bound` or `max_output_tokens` allowed) comes on top: the call fails and the
  account is paused (`provider.py:339-344`), and nothing of the turn bounds the charge itself. It rests on the ledger answering (10 s for a
  connection, 3 s for the statement that waits for the account) before `PICK_SECONDS` (15 s) are over, which
  `PicksAssumption` states; `BRAIN_PICK_SECONDS` is another limit and does not change it.
- With `SlowStart` (the first download outlasts 300 s and goes on in its thread), the first thread may
  install after the engine was opened, so `InstalledIsServed` fails without any disk error; and the
  watcher's removals may take the files the first thread is about to point to, so `InstalledWhole` fails.
- When two builds of one dataset share file names, publishing the second overwrites files the store's
  pointer still lists, so `StoreWhole` does not hold (seven steps, see `NamesApart` below). A follower notices (the sha256 differs) and stays on
  its release until the pointer follows.
- `docs/phase1.md` says delayed usage is charged to the settlement month "or the admission month, if later";
  the code always charges the settlement month. Clocks that do not run back make the two the same.

Met while the rules were modelled. Each property says what holds, and leaves these out by name:

- Names. "biochemistry or bio major" reads as Biology alone: a program typed in full is dropped when a short
  form in the message begins its word (`academics.py:154-157`), while `named_in_full` says programs named by
  whole words are read. A full name beside a last name that `MAX_PEOPLE` people share drops one of them
  silently (`people.py:116`); a hyphenated name gives two people's facts without asking; beside a last name
  only one person has, a shared one is dropped.
- `_lookup` with `exact_name_only` may fall back to a building's venue or a service's label, though
  `campus_graph.py:170` says otherwise; its caller in `_campus_help` guards against it.
- Once per release. Within `MEANING_CHECK_SECONDS` an index of the release before may be used, though
  `postgres.py:627` says never; a slow load may replace a newer index in `_meaning`, which `OwnIndex` shows to
  be harmless.
- One call. When a part code wrote itself is refused, the model's words are dropped whole and code's go out; the
  contacts of offices only the dropped words cited are still said. A mark the model invents just past the last
  source becomes the contacts' number. A range "4-6" counts as a citation of 4 and 6. The branch of
  `engine.py:3260-3271` assigns `sources` where the others append; nothing was read before it there.
- Pages. A staged page answer that the ordinary writer rewrites still sends the first draft's `pageFacts`.
- Hours and menus. Of overlapping meal periods "closes" is the end of the first; "closed (seasonal closure)" gives
  closed at a time but no "open now"; a dining answer looks at its first source's window alone; dishes removed
  for unlabelled allergens are filtered by today's labels on other dates too; a meal the date lacks gives an
  empty list of meals; statements of which one omits days may be mixed by their order.
- Packet. A derived `current` mixes sources of different dates; an unknown property of a part with a purpose is
  named as missing without it.
- Plain text. A missing email is said to be unknown beside a contact note that holds one (the guard at
  `plain_writer.py:1237` has no counterpart at 1252); a building's map address counts as its website; a gap
  without sources is never said; the note on dates keeps its first reason.
- Times. An event that began earlier and is still on is not read for a window; a ride back without return times
  is answered with the days of the route.

## Proofs

TLAPS proves the following. Of the state machines: for every set of operations, turns and calls, every cap,
supplement, bound and lag, every set of requests, number of places and limits of a turn, any number of picks and
rounds, and every set of questions, callers, values and publications. Of the rules: for every input of the shape
the theorem names, where the runs ask some. The assumptions are the named `ASSUME`s of the modules: finitely many
operations and a positive cap; a released dataset, and at least a second of `Grace` beyond the turn and one reading
of the numbers; the ledger's answer before a round of picks may end (`AskSeconds < PickSeconds`); no caller is named
like the free lock. Some theorems assume more and say so in their `ASSUME`:

- `NamesApart`: no two builds have the same file names. It is a real limit of the store and not a convenience. The
  names are made of the dataset's version and hash alone (`graph_path` in `retrieval/graph_store.py`), so a second
  build of one dataset (a newer encoding, or `scripts/build_meaning_index.py --kinds-only`, which rewrites an index
  already built) has the names of the first. With `StemOf` giving two builds one name, TLC finds `StoreWhole`, which
  `graph_sync.py:14` promises, broken in seven steps.
- No `SlowStart`, no `DiskFails`: without these two the theorems that name them are false (see Findings).
- `MaxLag = 0`: every clock is read in the month of its commit; with a lag the refinement is false, which is the
  finding of `ledger_late_clock`.
- Of rows, menus, messages, people and dates: what the code's types say (numbers where numbers are, finitely many
  rows), ids that differ (`ViewsAgree`: nodes of one dataset), and for the one
  call `FoundOnce`: a reader of the engine finds nobody twice, and one that does not look at what is given finds
  nobody that a reader before it found. TLC finds all of these true of every input of `brain`.

| Theorem | States | Along |
|---|---|---|
| `LedgerTypeCorrect` | `[]LedgerTypeOK` | inductive as it stands |
| `CapHolds` | `[]WithinCap` | `CapInvariant`: the type invariant, `NoRowFromTheFuture` (no row is admitted or charged in a month that has not begun) and `WithinCap`. Without the second, a charge of the new month could be there before the month is, and the step of `NextMonth` would fail. `TotalMonotone` and `TotalAdd` compare the sums before and after a step |
| `LedgerIsAllowance` | `ImplementsAllowance`, if `MaxLag = 0` | `CountedIsBoth`: the sum of the admission check is what is held plus what this month was charged, so one hold settled moves between the two sums; `NoChargeFromTheFuture`, so that a new month starts with nothing charged |
| `OverrunsStopAdmission` | `NoAdmissionAfterOverrun` | every overrun that has not been reviewed has the account paused, which is inductive because a settle pauses in its own commit |
| `SettledStaysSettled` | `SettledIsFinal` | by the guards of each action, under the type invariant |
| `GatewayUsesLedger` | `Spec => LedgerSpec` | `CallInvariant` ties a call's stage to the state of its row and to the clock it carries (`RowFollows`, `ClockFollows`); with it every gateway step is a ledger step or a stutter |
| `MoneyStaysKept` | `[]MoneyIsKept` | the same invariant: after sending, a row is open or settled at the provider's charge |
| `GatewayWithinCap` | `[]WithinCap` in `Gateway` | the refinement and `CapHolds` |
| `GatewayTypeCorrect`, `CallsWithinLimit`, `TurnsStayWithin` | `[]GatewayTypeOK`, `[]CallsBounded`, `[]TurnWithinAllowance` | `LimitsInvariant`: what a turn has committed is the sum of what each of its calls still owes it (`Owed`), the count of its calls covers those sent, and the turn's lock keeps what was checked before a hold true until the hold is counted (`OneAtATime`, `Room`). `TotalChange` and `TotalSplit` follow a sum when one row changes |
| `PicksAreKept`, `PicksTyped`, `PicksBounded` | `[]PicksTypeOK`, `[]SpendBounded` | `PicksTypeOK` bounds `committed - above`, and `Spent` counts each request up to its hold: charges above one, of any size up to `MaxAbove`, come on top. `PicksInvariant`: a pick that still asks the ledger counts with its whole share from the start (`Worth`), so nothing it does later raises the sum. When a round is counted only a minority of its picks still asks: the ledger has answered all (`AskSeconds < PickSeconds`), or the wait ended early, which takes a usable majority. `MayCost` and `Holding` are sets of units of money, compared by their cardinalities |
| `ReleasesTypeCorrect` | `[]ReleasesTypeOK` | `TypeInvariant`: the store, the folder and the threads, conjunct by conjunct |
| `StoreStaysWhole`, `OldStays` | `[]StoreWhole`, `[]OldStillThere`, if `NamesApart` | `StoreInvariant`: before the pointer is written the files it will name are stored, and the release it displaced stays on the pointer's list of previous files, which nothing removes |
| `OnlyGoodServed` | `[]ServedIsGood`, if `NamesApart` | `GoodInvariant`: a thread past its check works on a good release, and so are the folder's pointer and the engine; a file holds the release its name says |
| `FolderStaysWhole` | `[]InstalledWhole`, if `NamesApart` and no `SlowStart` | `FolderInvariant`, with `OneThread`: only one thread writes the folder, and it writes the files before the pointer |
| `ServedFilesStay` | `[]ServedFilesKept`, if also no `DiskFails` | `ServedInvariant`: but for a thread between its pointer and its switch the engine is of the release installed, and that thread keeps the files of what is served |
| `FloorStands` | `[]FloorKept`, for the written output | `TurnInvariant`: the turns' shape without the bounds of their counters; `FloorHeld`, which keeps a phrase-floor emergency out of the stages that answer a question; `FactsHeld`, which says in which stages there may be facts. `Fits` is what may be answered in a turn's present stage |
| `OneRelease` | `[]LookupsOfOneRelease`, in every output | the same invariant: facts of lookups are of the pinned release, which is set before the first of them is read. Of code's own answers it says nothing (`turn_release`) |
| `EmergencyIsSaid` | `[]EmergencySurvives` | `AllTimely` beside it: `DangerHeld` (the stages an emergency passes through), `ClockHeld` (what is left of the limit of the whole answer there: an emergency named in the turn's time, whose numbers are read once, is answered by `TurnSeconds + HelpSeconds`, so the limit, `Grace` later, cannot meet it) and `Said` |
| `TurnTyped` | `[]TurnTypeOK` | `AllCounted`: what is left of the capacity is the places less the requests in `Answering` (`PlacesHeld`), through every way an answer may end; the readings of the numbers so far are bounded by the stage (`Readings`); `since` is not more than `clock` |
| `NewReleaseServed` | `[]ServesFromNextQuestion` | `ReaderInvariant`: a question's stamp is not newer than the pointer, a file it opens is not older than its stamp, and what is kept for later questions has a release no older than its stamp (`KeptTimely`). Without the last, a question that uses what another loaded could get an older release |
| `MixedNeverServed`, `BuiltOnce` | `[]MixedIsNeverCurrent`, `[]NoSecondBuild` | `LoadsInvariant`: whoever builds a value holds its lock and saw nothing held for its release since (`CallerHolds`); what it has read lies between its key's release and the published one, so that what differs from the key is unpinned and over (`MayMix`), which no later publication undoes |
| `IndexIsOwn` | `[]OwnIndex` | the same invariant: `OneLoad` ties the flag to the one load under way, and an index is compared with the caller's release before it is given |

The rules. Each theorem says of every input what `brain` asks of some; its statement is the operator of the
rule's module that the run's property is made of.

| Theorem | States | Along |
|---|---|---|
| `DangerAlwaysLeads`, `WordsAreKept`, `QuestionIsAnswered` | `DangerLeads`, `OwnWordsKept`, `QuestionNotLost` of `Reading`: for any message, any number of calls and whatever each gave, garbled or missing | the leading label and the wording taken exist because finitely many votes have a greatest count and finitely many wordings a least; each correction of code is looked at by itself |
| `OrderMakesNoDifference` | `OrderFree`: any permutation of the calls leads to the same outcome | the calls that could be read correspond one to one under the permutation, so votes are equal (a bijection of finite sets), and every tie is decided by the label, the nearness, the length or the wording |
| `EveryMessageRead` | `MessageRead`, the rule itself | the four above |
| `NeverOnOneDay`, `EveryFieldStated` | values side by side share no day of any calendar; `FieldStated` of `Evidence`, for any rows: that two of one id are refused is a step of the rule and no hypothesis | every value of a row, its reviewers' included, has a source of that row, found once since ids differ; a later look is the row's own source moved; the rest is about windows of days |
| `EveryRowOwnedOnce` | `RowOwnedOnce`: in an accepted registry no row answers for two entities | pins are joined into one sequence, and acceptance says it has no repetition. That every pin is in the joined sequence, at a place of its own, is an induction, done by the least position at which it would fail |
| `EveryMenuSafe` | `MenuSafe` of `Menus` | by what may be offered (labels read, diet kept) and the words that go with none |
| `SchedulesAreOwn` | `ScheduleStated` of `Statements`, for any finite set of schedule records with ids of their own, on any day: a reading of a complete schedule is one statement's week and none is lost; two hours of one day that may hold at once are said to conflict; a day left out is one a record leaves out; a venue's dated exceptions stand beside its week | in a complete bucket the rows of every day are counted off as the statements are (`OrderedOff`, `ByDayIs`), so the n-th rows of all days are of one statement (`WeeksAreRead`); every row with hours is in a reading (`RowIsStated`); where windows differ each reading is one row (`AloneInWindow`) |
| `GapsAreNoAbsence` | `OfficeHonest` of `Registry`, for any rows of an office whose schedules are linked ones (what `record_reader` gives) and whose board, if any, is of one file | hours and menus are unpublished only on a confirmed absence, in the order the code tries them; a building is said only where every row is silent about rooms (`SilentRows`). Without the second hypothesis the rule does not hold of the operator: a board of two files is passed over (`menu_board_property` returns None) and a listing may then say the menu is unpublished |
| `PlanIsOwn` | `PlanIsTheirs` of `People` | a finite set of cohorts has a greatest; the cases are the code's order: year named, track asked, own class |
| `LeadersAreReal` | `LeadersHold` | by the kinds of line that may be said of a school or a field |
| `NobodyIsPassedOver` | `NobodyPassedOver`, for any finite set of people and limit `MaxPeople` | the ways a person may be found (full name, key, near spelling); the narrowing keeps the best scores and is only of one last name |
| `BreaksStayFree`, `DateIsToCome`, `DatesAreHonest` | `BreaksAreFree`, `DateToCome` and `DatesHonest` of `Terms`, on any finite calendar | a term's first and last days exist; the term asked of is the first still with something to come, so whatever is told as passed has nothing after it (`NothingComesLater`) |
| `CodeAnswersWhole` | `AloneIsWhole` of `OneCall`, with no hypothesis | code's answer is the first that may go out, in the code's order |
| `MarksNameTheirSources` | `NumbersHold`, under `FoundOnce` | `Fits`, carried through the readers in their turns: what is given is every source with its own number, and a person or club is one source. `Fresh` keeps what a reader adds apart from what is given |
| `ViewsAgree` | `CardsAgree` of `Walk`, for entities with ids of their own | a link out of a card and a link into the other are the same pair |

Only model-checked. Every safety invariant and action property of the state machines is proved (`SettledIsFinal`,
`NoAdmissionAfterOverrun`, `ImplementsAllowance` and `LedgerSpec` included). What is left to TLC:

- liveness (`CallsEnd`, `PicksEnd`, `EveryRequestEnds`, `NewestServed`, `LoadsEnd`), which rests on fairness and
  `ENABLED`, out of this prover's reach;
- of `Statements` the procedures; of `Registry` all but an office's gaps (searches, procedures' offices,
  topics, programs); the rules of `OpenHours`, `Packet`, `Plain`, `Calendar`, `Shuttle` and `Pages`; of `Walk`
  all but the browser's views; of `OneCall` what is read by name (`NamedIsRead`) and what a reply holds
  (`ReplyHolds`). Most are made of `SelectSeq`, folds or sorted sequences, whose values for every input only
  an induction gives, and the library's induction theorems cannot be instantiated by the provers here. Where
  the code allowed it the induction was replaced by a least counterexample (`WFMin` over numbers), or the
  operator written as what it yields (`Fresh`, `Alone`: the n-th of the new ones, the first that may);
- of `People`, that a subject named is found (`SubjectsFound`): it is not true of any catalog whatever (two majors
  with one core name, an alias only one of two has), and the runs ask it of a catalog as the code publishes it.

## Not modelled

SQL row shapes and the connection pool; the unfinished `.part` file, which the two threads of a slow start
share; the laptop's manual sync; returning memory after a switch; the building of a release's file; the wording
of answers, the phrase lists, times and dates read out of text beyond the kinds above; the checks that read
prose (a verdict per statement in `OneCall` and `Pages`); vector search (floating point); the seasons of teams;
admission of a request, readiness; settings, timing, development routes and batch scripts.

## Plan

1. Done: `Ledger` with `Allowance`, `Gateway`, `Releases`, `Turn`, `Picks`, the two readers (`GraphReader`,
   `Loads`), the rules of an answer.
2. Proofs. Done: every safety property of the state machines, and the rules of a message, of rows, schedules, menus,
   offices, people, plans, dates and the one call's numbers. Next: the rules of `OpenHours` and `Shuttle` (spans of minutes, no
   folds), then `Packet`.
3. `Turn` with its paid calls as calls of `Gateway`, and its lookups as rules of `Packet` and `OneCall` in
   place of choices.
4. The connection pool of `postgres.py`, and the `.part` file of a slow start.
