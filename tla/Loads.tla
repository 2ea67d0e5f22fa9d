------------------------------- MODULE Loads -------------------------------
(***************************************************************************)
(* What a Brain over the campus database reads once per release, for many  *)
(* questions at once, while the published release changes under it: the    *)
(* values of _per_release in engine.py (and the office sections, kept the  *)
(* same way in retrieval/entity_facts.py) and the meaning index of         *)
(* PostgresEntityFacts in retrieval/postgres.py.                           *)
(*                                                                         *)
(* A caller asks for one value or for the index.  A build reads the facts  *)
(* twice, so that the release may change between; a pinned build names the *)
(* release of its key in the second read and fails when another is         *)
(* published.  Time is one bit: whether the index is due to be checked.    *)
(***************************************************************************)
EXTENDS Integers

CONSTANTS
  Callers,     \* threads that work for questions
  Names,       \* values read once per release
  Pinned,      \* those whose build pins its reads to the release of its key
  LastActive   \* bound: the releases published during the model are 1..LastActive

ASSUME LoadsAssumption ==
  /\ Pinned \subseteq Names
  /\ LastActive \in Nat \ {0}

VARIABLES
  active,     \* the published release
  held,       \* the (key, value) pair of each name; a value is the releases it was read from
  building,   \* who holds the lock of each name, or Nobody
  kept,       \* PostgresEntityFacts._meaning: a release and whether it has an index
  due,        \* the time of _meaning_checked has come
  loading,    \* _meaning_loading
  background, \* the release a load in the background reads, or None
  callers     \* where each caller is

loadVars == <<active, held, building, kept, due, loading, background, callers>>

None == 0
Nobody == "nobody"
Nothing == [key |-> None, from |-> {}]
NoIndex == [release |-> None, index |-> FALSE]
AnyName == CHOOSE n \in Names : TRUE

ASSUME NobodyAssumption == Nobody \notin Callers

\* name, key and from: the value asked for, its release and what was read of it.
\* seen and release: the index as it was when the caller began, and the release it
\* then found published.  got: the release of the index it was given.
Free == [at |-> "free", name |-> AnyName, key |-> None, from |-> {},
         seen |-> NoIndex, release |-> None, got |-> None]

Asking(name) == [at |-> "asks", name |-> name, key |-> active, from |-> {},
                 seen |-> NoIndex, release |-> None, got |-> None]

Step(c, caller) == callers' = [callers EXCEPT ![c] = caller]
To(c, at) == Step(c, [callers[c] EXCEPT !.at = at])
At(c, at) == callers[c].at = at
Leave(c) == Step(c, Free)

valueVars == <<held, building>>
indexVars == <<kept, due, loading, background>>

-----------------------------------------------------------------------------
(***************************************************************************)
(* Values read once per release.                                           *)
(***************************************************************************)
\* A slip: the key is the release published when the value is kept.
KeyLate(c) == active

\* The key of a value: the release read before it was built.
Key(c) == callers[c].key

\* The caller reads which release is published; that read may fail.
Ask(c, name) ==
  /\ At(c, "free")
  /\ Step(c, Asking(name))
  /\ UNCHANGED <<active, valueVars, indexVars>>

\* The value held for that release is used.
UseHeld(c) ==
  /\ At(c, "asks")
  /\ held[callers[c].name].key = callers[c].key
  /\ Leave(c)
  /\ UNCHANGED <<active, valueVars, indexVars>>

\* A slip: a caller that waited for the lock builds without looking again.
BuildUnchecked(c) ==
  LET name == callers[c].name
  IN  /\ At(c, "asks") \/ At(c, "queued")
      /\ IF building[name] = Nobody
         THEN building' = [building EXCEPT ![name] = c] /\ To(c, "builds")
         ELSE To(c, "queued") /\ UNCHANGED building
      /\ UNCHANGED <<active, held, indexVars>>

\* With the lock of the name, and still nothing held for the release, it is built.
Build(c) ==
  LET name == callers[c].name
  IN  /\ At(c, "asks")
      /\ held[name].key # callers[c].key
      /\ building[name] = Nobody
      /\ building' = [building EXCEPT ![name] = c]
      /\ To(c, "builds")
      /\ UNCHANGED <<active, held, indexVars>>

\* The first read is of whatever is published: identities and listings have no pin.
ReadFirst(c) ==
  /\ At(c, "builds")
  /\ Step(c, [callers[c] EXCEPT !.at = "reads", !.from = {active}])
  /\ UNCHANGED <<active, valueVars, indexVars>>

\* The second one is pinned to the key's release where the build does that.
ReadRest(c) ==
  /\ At(c, "reads")
  /\ callers[c].name \in Pinned => active = callers[c].key
  /\ Step(c, [callers[c] EXCEPT !.at = "keeps", !.from = @ \cup {active}])
  /\ UNCHANGED <<active, valueVars, indexVars>>

\* The value is kept for every caller that waits for it.
Keep(c) ==
  LET name == callers[c].name
  IN  /\ At(c, "keeps")
      /\ held' = [held EXCEPT ![name] = [key |-> Key(c), from |-> callers[c].from]]
      /\ building' = [building EXCEPT ![name] = Nobody]
      /\ Leave(c)
      /\ UNCHANGED <<active, indexVars>>

\* A build that fails (a changed release, a database that is away) leaves nothing.
BuildFails(c) ==
  /\ callers[c].at \in {"builds", "reads"}
  /\ building' = [building EXCEPT ![callers[c].name] = Nobody]
  /\ Leave(c)
  /\ UNCHANGED <<active, held, indexVars>>

-----------------------------------------------------------------------------
(***************************************************************************)
(* The meaning index.                                                      *)
(***************************************************************************)
\* Not due: the index as it is, whichever release it is of.  Due: the next check is
\* put off and the published release is read.
Consult(c) ==
  /\ At(c, "free")
  /\ IF due THEN /\ due' = FALSE
                 /\ Step(c, [Free EXCEPT !.at = "consults", !.seen = kept])
     ELSE UNCHANGED <<due, callers>>
  /\ UNCHANGED <<active, valueVars, kept, loading, background>>

\* The release it knows already: a retry of a missing index runs in the background.
ConsultKnown(c) ==
  /\ At(c, "consults")
  /\ callers[c].seen.release = active
  /\ IF ~callers[c].seen.index /\ ~loading
     THEN loading' = TRUE /\ background' = active
     ELSE UNCHANGED <<loading, background>>
  /\ Leave(c)
  /\ UNCHANGED <<active, valueVars, kept, due>>

\* Another release (or nothing is known yet): read it, unless the database fails.
ConsultNew(c) ==
  /\ At(c, "consults")
  /\ callers[c].seen.release # active
  /\ Step(c, [callers[c] EXCEPT !.at = "loadsNow", !.release = active])
  /\ UNCHANGED <<active, valueVars, indexVars>>

ConsultFails(c) ==
  /\ callers[c].at \in {"asks", "consults"}
  /\ Leave(c)
  /\ UNCHANGED <<active, valueVars, indexVars>>

\* _load_now: this caller loads, or waits for the load already running.
LoadNow(c) ==
  /\ At(c, "loadsNow")
  /\ IF loading THEN To(c, "waits") /\ UNCHANGED <<due, loading>>
     ELSE loading' = TRUE /\ due' = FALSE /\ To(c, "loads")
  /\ UNCHANGED <<active, valueVars, kept, background>>

\* A slip: a load that finds nothing does not say that it is over.
StoreOnlyGood(release, found) ==
  /\ kept' = IF found THEN [release |-> release, index |-> TRUE] ELSE kept
  /\ loading' = (loading /\ ~found)
  /\ due' = (due /\ found)

\* The end of a load: its release is kept with the index or with none, and a missing
\* index is tried again only later.
Store(release, found) ==
  /\ kept' = [release |-> release, index |-> found]
  /\ loading' = FALSE
  /\ due' = (due /\ found)

Loaded(c) ==
  /\ At(c, "loads")
  /\ \E found \in BOOLEAN : Store(callers[c].release, found)
  /\ To(c, "loaded")
  /\ UNCHANGED <<active, valueVars, background>>

LoadedInBackground ==
  /\ background # None
  /\ \E found \in BOOLEAN : Store(background, found)
  /\ background' = None
  /\ UNCHANGED <<active, valueVars, callers>>

\* _meaning_done is set whenever no load is running; the wait may also time out.
StopWaiting(c) ==
  /\ At(c, "waits")
  /\ To(c, "loaded")
  /\ UNCHANGED <<active, valueVars, indexVars>>

\* A slip: what is kept now is returned, whatever was asked for.
GivenAnything(c) == IF kept.index THEN kept.release ELSE None

\* The index of the release asked for, or none: another load may have come between.
Given(c) == IF kept.index /\ kept.release = callers[c].release THEN kept.release ELSE None

Return(c) ==
  /\ At(c, "loaded")
  /\ Step(c, [callers[c] EXCEPT !.at = "given", !.got = Given(c)])
  /\ UNCHANGED <<active, valueVars, indexVars>>

GoOn(c) ==
  /\ At(c, "given")
  /\ Leave(c)
  /\ UNCHANGED <<active, valueVars, indexVars>>

-----------------------------------------------------------------------------
\* The data run publishes the next release.
Activate ==
  /\ active < LastActive
  /\ active' = active + 1
  /\ UNCHANGED <<valueVars, indexVars, callers>>

\* MEANING_CHECK_SECONDS, or MEANING_RETRY_SECONDS after a failed load, have passed.
CheckTime ==
  /\ ~due
  /\ due' = TRUE
  /\ UNCHANGED <<active, valueVars, kept, loading, background, callers>>

LoadsInit ==
  /\ active = 1
  /\ held = [n \in Names |-> Nothing]
  /\ building = [n \in Names |-> Nobody]
  /\ kept = NoIndex
  /\ due = TRUE
  /\ loading = FALSE
  /\ background = None
  /\ callers = [c \in Callers |-> Free]

\* What a caller does of its own accord once it has begun.
Forward(c) ==
  \/ UseHeld(c) \/ Build(c) \/ ReadFirst(c) \/ ReadRest(c) \/ Keep(c) \/ BuildFails(c)
  \/ ConsultKnown(c) \/ ConsultNew(c) \/ ConsultFails(c) \/ LoadNow(c) \/ Loaded(c)
  \/ StopWaiting(c) \/ Return(c) \/ GoOn(c)

LoadsNext ==
  \/ \E c \in Callers, name \in Names : Ask(c, name)
  \/ \E c \in Callers : Consult(c) \/ Forward(c)
  \/ LoadedInBackground
  \/ Activate
  \/ CheckTime

LoadsSpec == LoadsInit /\ [][LoadsNext]_loadVars

\* Threads run: a build or a load under way moves on, well or badly, since every
\* statement has its own limit.
LoadsFairness == (\A c \in Callers : WF_loadVars(Forward(c))) /\ WF_loadVars(LoadedInBackground)

-----------------------------------------------------------------------------
(***************************************************************************)
(* Properties.                                                             *)
(***************************************************************************)
\* A value that mixes releases is held only under the key of a release that is no
\* longer published, so that no later question is given it; a pinned value never
\* mixes them.
MixedIsNeverCurrent ==
  \A n \in Names :
    held[n].key # None /\ held[n].from # {held[n].key} =>
      n \notin Pinned /\ held[n].key # active

\* "One caller builds it and every other caller asking for it meanwhile waits": no
\* build goes on for a release whose value is held already.
NoSecondBuild ==
  \A c \in Callers :
    callers[c].at \in {"builds", "reads", "keeps"} =>
      held[callers[c].name].key # callers[c].key

\* At most one load of the index at a time, and a caller that read the published
\* release is given that release's index or none, however loads overtake each other.
OwnIndex ==
  /\ \A c \in Callers : callers[c].got \in {None, callers[c].release}
  /\ \A c, d \in Callers : At(c, "loads") /\ At(d, "loads") => c = d
  /\ (background # None \/ \E c \in Callers : At(c, "loads")) = loading

\* A load always ends, found or not, and so does a build: no later question waits on
\* one that is over or finds the index loading for ever.
LoadsEnd ==
  /\ loading ~> ~loading
  /\ \A n \in Names : building[n] # Nobody ~> building[n] = Nobody
=============================================================================
