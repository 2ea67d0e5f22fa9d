---------------------------- MODULE ReadersProofs ----------------------------
(***************************************************************************)
(* Proofs about the two readers of a release that changes under them, and  *)
(* about what the browser shows of one.                                    *)
(*                                                                         *)
(* For any number of questions and publications, a question reads a        *)
(* release no older than the one published when it began.  For any number  *)
(* of callers, values and releases, what is read once per release is built *)
(* once and never served mixed, and an index is only given to callers of   *)
(* its release.  For any entities and links, the browser's cards and lists *)
(* agree.                                                                  *)
(***************************************************************************)
EXTENDS GraphReader, Loads, Walk, TLAPS

(***************************************************************************)
(* The reader of the release's folder.                                     *)
(***************************************************************************)
QuestionStages == {"idle", "looked", "queues", "opens", "reads", "indexes", "indexed"}
Readings == [at : QuestionStages, began : Nat, key : Nat, target : Nat, got : Nat, index : Nat]

ReaderType ==
  /\ pointer \in Nat
  /\ loaded \in [key : Nat, release : Nat, broken : BOOLEAN]
  /\ sidecar \in [path : Nat, index : Nat]
  /\ readings \in [Questions -> Readings]

\* What one question holds, given the pointer: the stamp it began with, a file opened
\* after that stamp was seen, and the index of that file or none.
Timely(r, p) ==
  /\ r.key = r.began
  /\ r.at \in {"looked", "queues", "opens"} => r.key <= p /\ r.got = 0
  /\ r.at = "opens" => r.target = 0 \/ r.key <= r.target
  /\ r.got # 0 => r.began <= r.got
  /\ r.at \in {"looked", "queues", "opens", "reads", "indexes"} => r.index = 0
  /\ r.index \in {0, r.got}

\* What is kept for later questions: a release no older than its stamp, and an index of
\* the file it is kept for.
KeptTimely == loaded.key <= loaded.release /\ sidecar.index \in {0, sidecar.path}

ReaderInvariant ==
  /\ ReaderType
  /\ KeptTimely
  /\ \A q \in Questions : Timely(readings[q], pointer)

-----------------------------------------------------------------------------
\* Idle is what a question begins and ends with.
LEMMA IdleTimely == ASSUME NEW p \in Nat PROVE Idle \in Readings /\ Timely(Idle, p)
BY DEF Idle, Readings, QuestionStages, Timely

\* A step of one question that changes its own reading alone, and keeps what is kept,
\* keeps the invariant.
LEMMA OneMoves ==
  ASSUME ReaderInvariant, NEW q \in Questions, NEW r \in Readings, Timely(r, pointer),
         Move(q, r), pointer' = pointer,
         loaded' \in [key : Nat, release : Nat, broken : BOOLEAN],
         sidecar' \in [path : Nat, index : Nat], KeptTimely'
  PROVE  ReaderInvariant'
BY DEF ReaderInvariant, ReaderType, Move

THEOREM ReaderInvariantHolds == ReaderSpec => []ReaderInvariant
<1>1. ReaderInit => ReaderInvariant
  BY DEF ReaderInit, ReaderInvariant, ReaderType, KeptTimely, NoGraph, NoSidecar, Idle, Readings, QuestionStages, Timely
<1>2. ReaderInvariant /\ [ReaderNext]_readerVars => ReaderInvariant'
  <2> SUFFICES ASSUME ReaderInvariant, [ReaderNext]_readerVars PROVE ReaderInvariant'
    OBVIOUS
  <2>0. /\ pointer \in Nat
        /\ loaded \in [key : Nat, release : Nat, broken : BOOLEAN]
        /\ sidecar \in [path : Nat, index : Nat]
        /\ KeptTimely
        /\ \A q \in Questions : readings[q] \in Readings /\ Timely(readings[q], pointer)
    BY DEF ReaderInvariant, ReaderType
  <2>1. ASSUME NEW q \in Questions, LookAt(q) PROVE ReaderInvariant'
    <3>1. CASE pointer = 0
      <4>1. loaded' = NoGraph /\ readings' = readings /\ pointer' = pointer /\ sidecar' = sidecar
        BY <2>1, <3>1 DEF LookAt
      <4> QED BY <2>0, <4>1 DEF ReaderInvariant, ReaderType, KeptTimely, NoGraph
    <3>2. CASE pointer # 0
      <4>1. Begun \in Readings /\ Timely(Begun, pointer)
        BY <2>0 DEF Begun, Readings, QuestionStages, Timely
      <4>2. Move(q, Begun) /\ UNCHANGED <<pointer, loaded, sidecar>>
        BY <2>1, <3>2 DEF LookAt
      <4> QED BY <2>0, <4>1, <4>2, OneMoves DEF KeptTimely
    <3> QED BY <3>1, <3>2
  <2>2. ASSUME NEW q \in Questions, UseLoaded(q) PROVE ReaderInvariant'
    <3> DEFINE r == IF Fits(readings[q].key)
                    THEN [readings[q] EXCEPT !.at = "reads", !.got = loaded.release]
                    ELSE [readings[q] EXCEPT !.at = "queues"]
    <3>1. readings[q].at = "looked" /\ Move(q, r) /\ UNCHANGED <<pointer, loaded, sidecar>>
      BY <2>2 DEF UseLoaded
    <3>2. r \in Readings /\ Timely(r, pointer)
      <4>1. CASE Fits(readings[q].key)
        BY <4>1, <2>0, <3>1 DEF Readings, QuestionStages, Timely, Fits, KeptTimely
      <4>2. CASE ~Fits(readings[q].key)
        BY <4>2, <2>0, <3>1 DEF Readings, QuestionStages, Timely
      <4> QED BY <4>1, <4>2
    <3> HIDE DEF r
    <3> QED BY <2>0, <3>1, <3>2, OneMoves DEF KeptTimely
  <2>3. ASSUME NEW q \in Questions, Open(q) PROVE ReaderInvariant'
    <3>1. readings[q].at = "queues" /\ UNCHANGED <<pointer, loaded, sidecar>>
      BY <2>3 DEF Open
    <3>2. CASE Fits(readings[q].key)
      <4> DEFINE r == [readings[q] EXCEPT !.at = "reads", !.got = loaded.release]
      <4>1. Move(q, r) BY <2>3, <3>2 DEF Open
      <4>2. r \in Readings /\ Timely(r, pointer)
        BY <3>2, <2>0, <3>1 DEF Readings, QuestionStages, Timely, Fits, KeptTimely
      <4> HIDE DEF r
      <4> QED BY <2>0, <3>1, <4>1, <4>2, OneMoves DEF KeptTimely
    <3>3. CASE ~Fits(readings[q].key)
      <4> DEFINE r == [readings[q] EXCEPT !.at = "opens", !.target = pointer]
      <4>1. Move(q, r) BY <2>3, <3>3 DEF Open
      <4>2. r \in Readings /\ Timely(r, pointer)
        BY <2>0, <3>1 DEF Readings, QuestionStages, Timely
      <4> HIDE DEF r
      <4> QED BY <2>0, <3>1, <4>1, <4>2, OneMoves DEF KeptTimely
    <3> QED BY <3>2, <3>3
  <2>4. ASSUME NEW q \in Questions, Opened(q) PROVE ReaderInvariant'
    <3> DEFINE r == [readings[q] EXCEPT !.at = "reads", !.got = readings[q].target]
    <3>1. /\ readings[q].at = "opens" /\ readings[q].target # 0
          /\ loaded' = [key |-> readings[q].key, release |-> readings[q].target, broken |-> FALSE]
          /\ Move(q, r) /\ UNCHANGED <<pointer, sidecar>>
      BY <2>4 DEF Opened, Stamp
    <3>2. r \in Readings /\ Timely(r, pointer)
      BY <2>0, <3>1 DEF Readings, QuestionStages, Timely
    <3>3. loaded' \in [key : Nat, release : Nat, broken : BOOLEAN] /\ KeptTimely'
      BY <2>0, <3>1 DEF Readings, Timely, KeptTimely
    <3> HIDE DEF r
    <3> QED BY <2>0, <3>1, <3>2, <3>3, OneMoves
  <2>5. ASSUME NEW q \in Questions, OpenFailed(q) PROVE ReaderInvariant'
    <3>1. loaded' = NoGraph /\ Move(q, Idle) /\ UNCHANGED <<pointer, sidecar>>
      BY <2>5 DEF OpenFailed
    <3>2. loaded' \in [key : Nat, release : Nat, broken : BOOLEAN] /\ KeptTimely'
      BY <2>0, <3>1 DEF KeptTimely, NoGraph
    <3> QED BY <2>0, <3>1, <3>2, OneMoves, IdleTimely
  <2>6. ASSUME NEW q \in Questions, ReadFails(q) PROVE ReaderInvariant'
    <3>1. /\ loaded' = loaded \/ loaded' = [loaded EXCEPT !.broken = TRUE]
          /\ Move(q, Idle) /\ UNCHANGED <<pointer, sidecar>>
      BY <2>6 DEF ReadFails
    <3>2. loaded' \in [key : Nat, release : Nat, broken : BOOLEAN] /\ KeptTimely'
      BY <2>0, <3>1 DEF KeptTimely
    <3> QED BY <2>0, <3>1, <3>2, OneMoves, IdleTimely
  <2>7. ASSUME NEW q \in Questions, Index(q) PROVE ReaderInvariant'
    <3>1. readings[q].at = "reads" /\ UNCHANGED <<pointer, loaded, sidecar>>
      BY <2>7 DEF Index
    <3>2. CASE sidecar.path = readings[q].got
      <4> DEFINE r == [readings[q] EXCEPT !.at = "indexed", !.index = sidecar.index]
      <4>1. Move(q, r) BY <2>7, <3>2 DEF Index
      <4>2. r \in Readings /\ Timely(r, pointer)
        BY <3>2, <2>0, <3>1 DEF Readings, QuestionStages, Timely, KeptTimely
      <4> HIDE DEF r
      <4> QED BY <2>0, <3>1, <4>1, <4>2, OneMoves DEF KeptTimely
    <3>3. CASE sidecar.path # readings[q].got
      <4> DEFINE r == [readings[q] EXCEPT !.at = "indexes"]
      <4>1. Move(q, r) BY <2>7, <3>3 DEF Index
      <4>2. r \in Readings /\ Timely(r, pointer)
        BY <2>0, <3>1 DEF Readings, QuestionStages, Timely
      <4> HIDE DEF r
      <4> QED BY <2>0, <3>1, <4>1, <4>2, OneMoves DEF KeptTimely
    <3> QED BY <3>2, <3>3
  <2>8. ASSUME NEW q \in Questions, Indexed(q) PROVE ReaderInvariant'
    <3>1. PICK index \in {0, readings[q].got} :
            /\ sidecar' = [path |-> readings[q].got, index |-> index]
            /\ Move(q, [readings[q] EXCEPT !.at = "indexed", !.index = index])
      BY <2>8 DEF Indexed
    <3> DEFINE r == [readings[q] EXCEPT !.at = "indexed", !.index = index]
    <3>2. readings[q].at = "indexes" /\ UNCHANGED <<pointer, loaded>>
      BY <2>8 DEF Indexed
    <3>3. r \in Readings /\ Timely(r, pointer)
      BY <2>0, <3>2 DEF Readings, QuestionStages, Timely
    <3>4. sidecar' \in [path : Nat, index : Nat] /\ KeptTimely'
      BY <2>0, <3>1, <3>2 DEF Readings, KeptTimely
    <3>5. Move(q, r) BY <3>1
    <3> HIDE DEF r
    <3> QED BY <2>0, <3>2, <3>3, <3>4, <3>5, OneMoves
  <2>9. ASSUME NEW q \in Questions, Answered(q) PROVE ReaderInvariant'
    <3>1. Move(q, Idle) /\ UNCHANGED <<pointer, loaded, sidecar>>
      BY <2>9 DEF Answered
    <3> QED BY <2>0, <3>1, OneMoves, IdleTimely DEF KeptTimely
  <2>10. ASSUME Publish PROVE ReaderInvariant'
    <3>1. pointer' = pointer + 1 /\ UNCHANGED <<loaded, sidecar, readings>>
      BY <2>10 DEF Publish
    <3>2. ASSUME NEW q \in Questions PROVE Timely(readings[q], pointer + 1)
      BY <2>0, <3>2 DEF Timely, Readings
    <3> QED BY <2>0, <3>1, <3>2 DEF ReaderInvariant, ReaderType, KeptTimely
  <2>11. CASE UNCHANGED readerVars
    BY <2>0, <2>11 DEF readerVars, ReaderInvariant, ReaderType, KeptTimely
  <2> QED
    BY <2>1, <2>2, <2>3, <2>4, <2>5, <2>6, <2>7, <2>8, <2>9, <2>10, <2>11 DEF ReaderNext
<1> QED BY <1>1, <1>2, PTL DEF ReaderSpec

(***************************************************************************)
(* GraphOnlyFacts._graph (retrieval/graph_store.py): whatever loads race   *)
(* with a publication, a question reads a release no older than the one    *)
(* published when it began, and an index of no other release.              *)
(***************************************************************************)
THEOREM NewReleaseServed == ReaderSpec => []ServesFromNextQuestion
<1>1. ReaderInvariant => ServesFromNextQuestion
  BY DEF ReaderInvariant, ReaderType, Readings, Timely, ServesFromNextQuestion
<1> QED BY <1>1, ReaderInvariantHolds, PTL

-----------------------------------------------------------------------------
(***************************************************************************)
(* What is read once per release.                                          *)
(***************************************************************************)
CallerStages == {"free", "asks", "builds", "reads", "keeps", "consults", "loadsNow", "loads", "waits", "loaded", "given"}
Builds == {"builds", "reads", "keeps"}
IndexSeen == [release : Nat, index : BOOLEAN]
CallerStates == [at : CallerStages, name : Names \cup {AnyName}, key : Nat, from : SUBSET Nat,
                 seen : IndexSeen, release : Nat, got : Nat]

LoadsType ==
  /\ active \in Nat \ {0}
  /\ held \in [Names -> [key : Nat, from : SUBSET Nat]]
  /\ building \in [Names -> Callers \cup {Nobody}]
  /\ kept \in IndexSeen
  /\ loading \in BOOLEAN
  /\ background \in Nat
  /\ callers \in [Callers -> CallerStates]

\* A value may mix releases only when it is not pinned and its release is over.
MayMix(name, key) == name \notin Pinned /\ key < active

\* What one caller holds: its place in the build of a value, what it has read of it, and
\* an index of the release it found published.
CallerHolds(c, r) ==
  /\ r.at \in Builds \cup {"asks"} => r.name \in Names /\ r.key <= active
  /\ r.at \in Builds => building[r.name] = c /\ held[r.name].key # r.key
  /\ r.at = "reads" => \E n \in Nat : r.from = {n} /\ r.key <= n /\ n <= active
  /\ r.at = "keeps" /\ r.from # {r.key} => MayMix(r.name, r.key)
  /\ r.at = "consults" => r.got = None
  /\ r.got \in {None, r.release}

HeldWhole == \A n \in Names : held[n].key # None /\ held[n].from # {held[n].key} => MayMix(n, held[n].key)

\* One load at a time, by a caller or in the background, and the flag says so.
OneLoad ==
  /\ \A c, d \in Callers : At(c, "loads") /\ At(d, "loads") => c = d
  /\ background # None => \A c \in Callers : ~At(c, "loads")
  /\ loading <=> (background # None \/ \E c \in Callers : At(c, "loads"))

LoadsInvariant ==
  /\ LoadsType
  /\ \A c \in Callers : CallerHolds(c, callers[c])
  /\ HeldWhole
  /\ OneLoad

-----------------------------------------------------------------------------
(***************************************************************************)
(* Steps of one caller.                                                    *)
(***************************************************************************)
LEMMA FreeHolds == ASSUME NEW c \in Callers PROVE Free \in CallerStates /\ CallerHolds(c, Free)
BY DEF Free, CallerStates, CallerStages, Builds, IndexSeen, NoIndex, None, CallerHolds

\* A caller that moves while nothing else of the values changes.
LEMMA CallerMoves ==
  ASSUME LoadsInvariant, NEW c \in Callers, NEW r \in CallerStates, CallerHolds(c, r), Step(c, r),
         UNCHANGED <<active, held, building>>,
         kept' \in IndexSeen, loading' \in BOOLEAN, background' \in Nat
  PROVE  LoadsType' /\ HeldWhole' /\ \A d \in Callers : CallerHolds(d, callers[d])'
<1>1. LoadsType'
  BY DEF LoadsInvariant, LoadsType, Step
<1>2. HeldWhole'
  BY DEF LoadsInvariant, HeldWhole, MayMix
<1>3. ASSUME NEW d \in Callers PROVE CallerHolds(d, callers[d])'
  <2>1. CallerHolds(d, callers'[d])
    <3>1. callers'[d] = IF d = c THEN r ELSE callers[d]
      BY DEF LoadsInvariant, LoadsType, Step
    <3> QED BY <3>1 DEF LoadsInvariant
  <2> QED BY <2>1 DEF CallerHolds, MayMix
<1> QED BY <1>1, <1>2, <1>3

\* A caller that neither begins nor ends a load.
LEMMA NoLoadMoves ==
  ASSUME LoadsInvariant, NEW c \in Callers, NEW r \in CallerStates, Step(c, r),
         ~At(c, "loads"), r.at # "loads", UNCHANGED <<loading, background>>
  PROVE  OneLoad'
<1>1. \A d \in Callers : callers'[d].at = "loads" <=> callers[d].at = "loads"
  BY DEF LoadsInvariant, LoadsType, Step, At
<1> QED BY <1>1 DEF LoadsInvariant, OneLoad, At

\* Both together, for the steps that change nothing else.
LEMMA CallerAlone ==
  ASSUME LoadsInvariant, NEW c \in Callers, NEW r \in CallerStates, CallerHolds(c, r), Step(c, r),
         ~At(c, "loads"), r.at # "loads", UNCHANGED <<active, held, building, kept, loading, background>>
  PROVE  LoadsInvariant'
<1>1. kept' \in IndexSeen /\ loading' \in BOOLEAN /\ background' \in Nat
  BY DEF LoadsInvariant, LoadsType
<1> QED BY <1>1, CallerMoves, NoLoadMoves DEF LoadsInvariant

-----------------------------------------------------------------------------
(***************************************************************************)
(* Values.                                                                 *)
(***************************************************************************)
LEMMA AskHolds ==
  ASSUME LoadsInvariant, NEW c \in Callers, NEW name \in Names, Ask(c, name)
  PROVE  LoadsInvariant'
<1>1. At(c, "free") /\ Step(c, Asking(name)) /\ UNCHANGED <<active, held, building, kept, loading, background>>
  BY DEF Ask, valueVars, indexVars
<1>2. Asking(name) \in CallerStates /\ CallerHolds(c, Asking(name)) /\ Asking(name).at # "loads"
  BY DEF LoadsInvariant, LoadsType, Asking, CallerStates, CallerStages, Builds, IndexSeen, NoIndex, None, CallerHolds
<1> QED BY <1>1, <1>2, CallerAlone DEF At

\* A caller that leaves without having held the lock of a value or a load.
LEMMA LeaveHolds ==
  ASSUME LoadsInvariant, NEW c \in Callers, Leave(c), ~At(c, "loads"),
         UNCHANGED <<active, held, building, kept, loading, background>>
  PROVE  LoadsInvariant'
<1>1. Free.at # "loads"
  BY DEF Free
<1> QED BY <1>1, FreeHolds, CallerAlone DEF Leave

LEMMA BuildHolds ==
  ASSUME LoadsInvariant, NEW c \in Callers, Build(c)
  PROVE  LoadsInvariant'
<1> DEFINE old == callers[c]
           r == [old EXCEPT !.at = "builds"]
<1>1. /\ old.at = "asks" /\ held[old.name].key # old.key /\ building[old.name] = Nobody
      /\ building' = [building EXCEPT ![old.name] = c] /\ Step(c, r)
      /\ UNCHANGED <<active, held, kept, loading, background>>
  BY DEF Build, At, To, indexVars
<1>2. old \in CallerStates /\ old.name \in Names /\ old.key <= active /\ CallerHolds(c, old)
  BY <1>1 DEF LoadsInvariant, LoadsType, CallerHolds
<1>3. r \in CallerStates /\ r.at = "builds" /\ r.name = old.name /\ r.key = old.key /\ r.got = old.got /\ r.release = old.release
  BY <1>2 DEF CallerStates, CallerStages
<1> HIDE DEF r
<1>4. OneLoad'
  BY <1>1, <1>3, NoLoadMoves DEF At
<1>5. LoadsType' /\ HeldWhole'
  BY <1>1, <1>2, <1>3 DEF LoadsInvariant, LoadsType, Step, HeldWhole, MayMix
<1>6. ASSUME NEW d \in Callers PROVE CallerHolds(d, callers[d])'
  <2>1. CASE d = c
    <3>1. callers'[d] = r /\ building'[r.name] = c
      BY <1>1, <1>2, <1>3, <2>1 DEF LoadsInvariant, LoadsType, Step
    <3>2. r.got \in {None, r.release}
      BY <1>2, <1>3 DEF CallerHolds
    <3> QED BY <1>1, <1>2, <1>3, <2>1, <3>1, <3>2 DEF CallerHolds, Builds
  <2>2. CASE d # c
    <3>1. callers'[d] = callers[d] /\ CallerHolds(d, callers[d])
      BY <1>1, <2>2 DEF LoadsInvariant, LoadsType, Step
    <3>2. callers[d].at \in Builds => building'[callers[d].name] = d
      <4> SUFFICES ASSUME callers[d].at \in Builds PROVE building'[callers[d].name] = d
        OBVIOUS
      <4>1. building[callers[d].name] = d /\ callers[d].name \in Names
        BY <3>1 DEF CallerHolds
      <4>2. callers[d].name # old.name
        BY <4>1, <1>1, NobodyAssumption
      <4> QED BY <4>1, <4>2, <1>1 DEF LoadsInvariant, LoadsType
    <3> QED BY <1>1, <3>1, <3>2 DEF CallerHolds, MayMix
  <2> QED BY <2>1, <2>2
<1> QED BY <1>4, <1>5, <1>6 DEF LoadsInvariant

LEMMA ReadFirstHolds ==
  ASSUME LoadsInvariant, NEW c \in Callers, ReadFirst(c)
  PROVE  LoadsInvariant'
<1> DEFINE old == callers[c]
           r == [old EXCEPT !.at = "reads", !.from = {active}]
<1>1. /\ old.at = "builds" /\ Step(c, r)
      /\ UNCHANGED <<active, held, building, kept, loading, background>>
  BY DEF ReadFirst, At, valueVars, indexVars
<1>2. old \in CallerStates /\ CallerHolds(c, old) /\ active \in Nat
  BY DEF LoadsInvariant, LoadsType
<1>3. /\ r \in CallerStates /\ r.at = "reads" /\ r.from = {active} /\ r.name = old.name /\ r.key = old.key
      /\ r.got = old.got /\ r.release = old.release
  BY <1>2 DEF CallerStates, CallerStages
<1> HIDE DEF r
<1>4. CallerHolds(c, r)
  <2>1. r.key <= active /\ r.name \in Names /\ building[r.name] = c /\ held[r.name].key # r.key
    BY <1>1, <1>2, <1>3 DEF CallerHolds, Builds
  <2>2. \E n \in Nat : r.from = {n} /\ r.key <= n /\ n <= active
    BY <1>2, <1>3, <2>1
  <2> QED BY <1>2, <1>3, <2>1, <2>2 DEF CallerHolds, Builds
<1> QED BY <1>1, <1>3, <1>4, CallerAlone DEF At

LEMMA ReadRestHolds ==
  ASSUME LoadsInvariant, NEW c \in Callers, ReadRest(c)
  PROVE  LoadsInvariant'
<1> DEFINE old == callers[c]
           r == [old EXCEPT !.at = "keeps", !.from = @ \cup {active}]
<1>1. /\ old.at = "reads" /\ Step(c, r) /\ (old.name \in Pinned => active = old.key)
      /\ UNCHANGED <<active, held, building, kept, loading, background>>
  BY DEF ReadRest, At, valueVars, indexVars
<1>2. old \in CallerStates /\ CallerHolds(c, old) /\ active \in Nat /\ old.key \in Nat
  BY DEF LoadsInvariant, LoadsType, CallerStates
<1>3. /\ r \in CallerStates /\ r.at = "keeps" /\ r.from = old.from \cup {active} /\ r.name = old.name /\ r.key = old.key
      /\ r.got = old.got /\ r.release = old.release
  BY <1>2 DEF CallerStates, CallerStages
<1> HIDE DEF r
<1>4. CallerHolds(c, r)
  <2>1. r.key <= active /\ r.name \in Names /\ building[r.name] = c /\ held[r.name].key # r.key
    BY <1>1, <1>2, <1>3 DEF CallerHolds, Builds
  <2>2. PICK n \in Nat : old.from = {n} /\ old.key <= n /\ n <= active
    BY <1>1, <1>2 DEF CallerHolds
  <2>3. r.from # {r.key} => MayMix(r.name, r.key)
    <3> SUFFICES ASSUME ~MayMix(r.name, r.key) PROVE r.from = {r.key}
      OBVIOUS
    <3>1. active = r.key
      BY <1>1, <1>2, <1>3, <2>1 DEF MayMix
    <3>2. n = r.key
      BY <1>2, <1>3, <2>2, <3>1
    <3> QED BY <1>3, <2>2, <3>1, <3>2
  <2> QED BY <1>2, <1>3, <2>1, <2>3 DEF CallerHolds, Builds
<1> QED BY <1>1, <1>3, <1>4, CallerAlone DEF At

\* A caller that gives the lock of its value back, with or without a value.
LEMMA LockGivenBack ==
  ASSUME LoadsInvariant, NEW c \in Callers, callers[c].at \in Builds, Leave(c),
         building' = [building EXCEPT ![callers[c].name] = Nobody],
         held' \in [Names -> [key : Nat, from : SUBSET Nat]],
         \A n \in Names : n # callers[c].name => held'[n] = held[n],
         HeldWhole', UNCHANGED <<active, kept, loading, background>>
  PROVE  LoadsInvariant'
<1> DEFINE old == callers[c]
<1>1. old \in CallerStates /\ CallerHolds(c, old) /\ old.name \in Names /\ building[old.name] = c
  BY DEF LoadsInvariant, LoadsType, CallerHolds
<1>2. Free \in CallerStates /\ Free.at = "free" /\ Step(c, Free)
  BY FreeHolds DEF Free, Leave
<1>3. OneLoad'
  BY <1>2, NoLoadMoves DEF At, Builds
<1>4. LoadsType'
  BY <1>1, <1>2 DEF LoadsInvariant, LoadsType, Step
<1>5. ASSUME NEW d \in Callers PROVE CallerHolds(d, callers[d])'
  <2>1. CASE d = c
    <3>1. callers'[d] = Free
      BY <1>2, <2>1 DEF LoadsInvariant, LoadsType, Step
    <3> QED BY <3>1 DEF CallerHolds, Free, Builds, None
  <2>2. CASE d # c
    <3>1. callers'[d] = callers[d] /\ CallerHolds(d, callers[d])
      BY <1>2, <2>2 DEF LoadsInvariant, LoadsType, Step
    <3>2. ASSUME callers[d].at \in Builds
          PROVE  building'[callers[d].name] = d /\ held'[callers[d].name] = held[callers[d].name]
      <4>1. building[callers[d].name] = d /\ callers[d].name \in Names
        BY <3>1, <3>2 DEF CallerHolds
      <4>2. callers[d].name # old.name
        BY <4>1, <1>1, <2>2
      <4> QED BY <4>1, <4>2 DEF LoadsInvariant, LoadsType
    <3> QED BY <3>1, <3>2 DEF CallerHolds, MayMix
  <2> QED BY <2>1, <2>2
<1> QED BY <1>3, <1>4, <1>5 DEF LoadsInvariant

LEMMA KeepHolds ==
  ASSUME LoadsInvariant, NEW c \in Callers, Keep(c)
  PROVE  LoadsInvariant'
<1> DEFINE old == callers[c]
           value == [key |-> old.key, from |-> old.from]
<1>1. /\ old.at = "keeps" /\ held' = [held EXCEPT ![old.name] = value]
      /\ building' = [building EXCEPT ![old.name] = Nobody] /\ Leave(c)
      /\ UNCHANGED <<active, kept, loading, background>>
  BY DEF Keep, At, Key, indexVars
<1>2. /\ old.name \in Names /\ (old.from # {old.key} => MayMix(old.name, old.key))
      /\ value \in [key : Nat, from : SUBSET Nat]
  BY <1>1 DEF LoadsInvariant, LoadsType, CallerHolds, CallerStates, Builds
<1>3. /\ held' \in [Names -> [key : Nat, from : SUBSET Nat]]
      /\ \A n \in Names : held'[n] = IF n = old.name THEN value ELSE held[n]
  BY <1>1, <1>2 DEF LoadsInvariant, LoadsType
<1>4. HeldWhole'
  <2> SUFFICES ASSUME NEW n \in Names, held'[n].key # None, held'[n].from # {held'[n].key}
               PROVE  n \notin Pinned /\ held'[n].key < active'
    BY DEF HeldWhole, MayMix
  <2>1. n \notin Pinned /\ held'[n].key < active
    BY <1>2, <1>3 DEF LoadsInvariant, HeldWhole, MayMix
  <2> QED BY <2>1, <1>1
<1> QED BY <1>1, <1>3, <1>4, LockGivenBack DEF Builds

LEMMA BuildFailsHolds ==
  ASSUME LoadsInvariant, NEW c \in Callers, BuildFails(c)
  PROVE  LoadsInvariant'
<1>1. /\ callers[c].at \in Builds /\ building' = [building EXCEPT ![callers[c].name] = Nobody]
      /\ Leave(c) /\ UNCHANGED <<active, held, kept, loading, background>>
  BY DEF BuildFails, Builds, indexVars
<1>2. HeldWhole' /\ held' \in [Names -> [key : Nat, from : SUBSET Nat]]
  BY <1>1 DEF LoadsInvariant, LoadsType, HeldWhole, MayMix
<1> QED BY <1>1, <1>2, LockGivenBack

-----------------------------------------------------------------------------
(***************************************************************************)
(* The index.                                                              *)
(***************************************************************************)
LEMMA ConsultHolds ==
  ASSUME LoadsInvariant, NEW c \in Callers, Consult(c)
  PROVE  LoadsInvariant'
<1> DEFINE r == [Free EXCEPT !.at = "consults", !.seen = kept]
<1>1. CASE due
  <2>1. At(c, "free") /\ Step(c, r) /\ UNCHANGED <<active, held, building, kept, loading, background>>
    BY <1>1 DEF Consult, valueVars
  <2>2. r \in CallerStates /\ CallerHolds(c, r) /\ r.at = "consults"
    BY DEF LoadsInvariant, LoadsType, Free, CallerStates, CallerStages, Builds, IndexSeen, NoIndex, None, CallerHolds
  <2> HIDE DEF r
  <2> QED BY <2>1, <2>2, CallerAlone DEF At
<1>2. CASE ~due
  <2>1. UNCHANGED <<active, held, building, kept, loading, background, callers>>
    BY <1>2 DEF Consult, valueVars
  <2> QED BY <2>1 DEF LoadsInvariant, LoadsType, CallerHolds, HeldWhole, MayMix, OneLoad, At
<1> QED BY <1>1, <1>2

LEMMA ConsultKnownHolds ==
  ASSUME LoadsInvariant, NEW c \in Callers, ConsultKnown(c)
  PROVE  LoadsInvariant'
<1>1. At(c, "consults") /\ Leave(c) /\ UNCHANGED <<active, held, building, kept>>
  BY DEF ConsultKnown, valueVars
<1>2. CASE ~callers[c].seen.index /\ ~loading
  <2>1. loading' = TRUE /\ background' = active
    BY <1>2 DEF ConsultKnown
  <2>2. kept' \in IndexSeen /\ loading' \in BOOLEAN /\ background' \in Nat \ {0}
    BY <1>1, <2>1 DEF LoadsInvariant, LoadsType
  <2>3. OneLoad'
    <3>1. \A d \in Callers : callers'[d].at # "loads"
      BY <1>1, <1>2 DEF LoadsInvariant, LoadsType, OneLoad, At, Leave, Step, Free
    <3> QED BY <2>1, <2>2, <3>1 DEF OneLoad, At, None
  <2> QED BY <1>1, <2>2, <2>3, FreeHolds, CallerMoves DEF LoadsInvariant, Leave
<1>3. CASE ~(~callers[c].seen.index /\ ~loading)
  <2>1. UNCHANGED <<loading, background>>
    BY <1>3 DEF ConsultKnown
  <2> QED BY <1>1, <2>1, LeaveHolds DEF At
<1> QED BY <1>2, <1>3

\* The steps of a caller that only changes its stage, the release it found or what it
\* was given.
LEMMA ConsultNewHolds ==
  ASSUME LoadsInvariant, NEW c \in Callers, ConsultNew(c)
  PROVE  LoadsInvariant'
<1> DEFINE old == callers[c]
           r == [old EXCEPT !.at = "loadsNow", !.release = active]
<1>1. old.at = "consults" /\ Step(c, r) /\ UNCHANGED <<active, held, building, kept, loading, background>>
  BY DEF ConsultNew, At, valueVars, indexVars
<1>2. old \in CallerStates /\ CallerHolds(c, old) /\ active \in Nat
  BY DEF LoadsInvariant, LoadsType
<1>3. r \in CallerStates /\ r.at = "loadsNow" /\ r.got = old.got
  BY <1>2 DEF CallerStates, CallerStages
<1> HIDE DEF r
<1>4. CallerHolds(c, r)
  BY <1>1, <1>2, <1>3 DEF CallerHolds, Builds
<1> QED BY <1>1, <1>3, <1>4, CallerAlone DEF At

LEMMA LoadNowHolds ==
  ASSUME LoadsInvariant, NEW c \in Callers, LoadNow(c)
  PROVE  LoadsInvariant'
<1> DEFINE old == callers[c]
<1>1. old.at = "loadsNow" /\ UNCHANGED <<active, held, building, kept, background>>
  BY DEF LoadNow, At, valueVars
<1>2. old \in CallerStates /\ CallerHolds(c, old)
  BY DEF LoadsInvariant, LoadsType
<1>3. CASE loading
  <2> DEFINE r == [old EXCEPT !.at = "waits"]
  <2>1. Step(c, r) /\ loading' = loading
    BY <1>3 DEF LoadNow, To
  <2>2. r \in CallerStates /\ r.at = "waits" /\ r.got = old.got /\ r.release = old.release
    BY <1>2 DEF CallerStates, CallerStages
  <2> HIDE DEF r
  <2>3. CallerHolds(c, r)
    BY <1>2, <2>2 DEF CallerHolds, Builds
  <2> QED BY <1>1, <2>1, <2>2, <2>3, CallerAlone DEF At
<1>4. CASE ~loading
  <2> DEFINE r == [old EXCEPT !.at = "loads"]
  <2>1. Step(c, r) /\ loading' = TRUE
    BY <1>4 DEF LoadNow, To
  <2>2. r \in CallerStates /\ r.at = "loads" /\ r.got = old.got /\ r.release = old.release
    BY <1>2 DEF CallerStates, CallerStages
  <2> HIDE DEF r
  <2>3. CallerHolds(c, r)
    BY <1>2, <2>2 DEF CallerHolds, Builds
  <2>4. kept' \in IndexSeen /\ loading' \in BOOLEAN /\ background' \in Nat
    BY <1>1, <2>1 DEF LoadsInvariant, LoadsType
  <2>5. OneLoad'
    <3>1. background' = None /\ \A d \in Callers : callers'[d].at = "loads" <=> d = c
      BY <1>1, <1>4, <2>1, <2>2 DEF LoadsInvariant, LoadsType, OneLoad, At, Step
    <3> QED BY <2>1, <3>1 DEF OneLoad, At
  <2> QED BY <1>1, <2>1, <2>2, <2>3, <2>4, <2>5, CallerMoves DEF LoadsInvariant
<1> QED BY <1>3, <1>4

\* The end of a load leaves none under way.
LEMMA LoadedHolds ==
  ASSUME LoadsInvariant, NEW c \in Callers, Loaded(c)
  PROVE  LoadsInvariant'
<1> DEFINE old == callers[c]
           r == [old EXCEPT !.at = "loaded"]
<1>1. /\ old.at = "loads" /\ Step(c, r) /\ loading' = FALSE /\ UNCHANGED <<active, held, building, background>>
      /\ \E found \in BOOLEAN : kept' = [release |-> old.release, index |-> found]
  BY DEF Loaded, Store, At, To, valueVars
<1>2. old \in CallerStates /\ CallerHolds(c, old)
  BY DEF LoadsInvariant, LoadsType
<1>3. r \in CallerStates /\ r.at = "loaded" /\ r.got = old.got /\ r.release = old.release
  BY <1>2 DEF CallerStates, CallerStages
<1> HIDE DEF r
<1>4. CallerHolds(c, r)
  BY <1>2, <1>3 DEF CallerHolds, Builds
<1>5. kept' \in IndexSeen /\ loading' \in BOOLEAN /\ background' \in Nat
  <2>1. old.release \in Nat
    BY <1>2 DEF CallerStates
  <2>2. kept' \in IndexSeen
    BY <1>1, <2>1 DEF IndexSeen
  <2> QED BY <1>1, <2>2 DEF LoadsInvariant, LoadsType
<1>6. OneLoad'
  <2>1. background' = None /\ \A d \in Callers : callers'[d].at # "loads"
    BY <1>1, <1>3 DEF LoadsInvariant, LoadsType, OneLoad, At, Step
  <2> QED BY <1>1, <2>1 DEF OneLoad, At
<1> QED BY <1>1, <1>3, <1>4, <1>5, <1>6, CallerMoves DEF LoadsInvariant

LEMMA LoadedInBackgroundHolds ==
  ASSUME LoadsInvariant, LoadedInBackground
  PROVE  LoadsInvariant'
<1>1. /\ background # None /\ background' = None /\ loading' = FALSE
      /\ UNCHANGED <<active, held, building, callers>>
      /\ \E found \in BOOLEAN : kept' = [release |-> background, index |-> found]
  BY DEF LoadedInBackground, Store, valueVars
<1>2. LoadsType'
  <2>1. background \in Nat
    BY DEF LoadsInvariant, LoadsType
  <2>2. kept' \in IndexSeen
    BY <1>1, <2>1 DEF IndexSeen
  <2> QED BY <1>1, <2>2 DEF LoadsInvariant, LoadsType, None
<1>3. OneLoad'
  BY <1>1 DEF LoadsInvariant, OneLoad, At
<1> QED BY <1>1, <1>2, <1>3 DEF LoadsInvariant, CallerHolds, HeldWhole, MayMix

LEMMA StopWaitingHolds ==
  ASSUME LoadsInvariant, NEW c \in Callers, StopWaiting(c)
  PROVE  LoadsInvariant'
<1> DEFINE old == callers[c]
           r == [old EXCEPT !.at = "loaded"]
<1>1. old.at = "waits" /\ Step(c, r) /\ UNCHANGED <<active, held, building, kept, loading, background>>
  BY DEF StopWaiting, At, To, valueVars, indexVars
<1>2. old \in CallerStates /\ CallerHolds(c, old)
  BY DEF LoadsInvariant, LoadsType
<1>3. r \in CallerStates /\ r.at = "loaded" /\ r.got = old.got /\ r.release = old.release
  BY <1>2 DEF CallerStates, CallerStages
<1> HIDE DEF r
<1>4. CallerHolds(c, r)
  BY <1>2, <1>3 DEF CallerHolds, Builds
<1> QED BY <1>1, <1>3, <1>4, CallerAlone DEF At

LEMMA ReturnHolds ==
  ASSUME LoadsInvariant, NEW c \in Callers, Return(c)
  PROVE  LoadsInvariant'
<1> DEFINE old == callers[c]
           r == [old EXCEPT !.at = "given", !.got = Given(c)]
<1>1. old.at = "loaded" /\ Step(c, r) /\ UNCHANGED <<active, held, building, kept, loading, background>>
  BY DEF Return, At, valueVars, indexVars
<1>2. old \in CallerStates /\ Given(c) \in Nat /\ Given(c) \in {None, old.release}
  BY DEF LoadsInvariant, LoadsType, Given, IndexSeen, None
<1>3. r \in CallerStates /\ r.at = "given" /\ r.got \in {None, r.release}
  BY <1>2 DEF CallerStates, CallerStages
<1> HIDE DEF r
<1>4. CallerHolds(c, r)
  BY <1>3 DEF CallerHolds, Builds
<1> QED BY <1>1, <1>3, <1>4, CallerAlone DEF At

\* A newer release only ends what was published.
LEMMA ActivateHolds ==
  ASSUME LoadsInvariant, Activate
  PROVE  LoadsInvariant'
<1>1. active' = active + 1 /\ UNCHANGED <<held, building, kept, loading, background, callers>> /\ active \in Nat \ {0}
  BY DEF Activate, valueVars, indexVars, LoadsInvariant, LoadsType
<1>2. LoadsType' /\ OneLoad'
  BY <1>1 DEF LoadsInvariant, LoadsType, OneLoad, At
<1>3. \A name \in Names, key \in Nat : MayMix(name, key) => MayMix(name, key)'
  BY <1>1 DEF MayMix
<1>4. HeldWhole'
  BY <1>1, <1>3 DEF LoadsInvariant, LoadsType, HeldWhole, MayMix
<1>5. ASSUME NEW c \in Callers PROVE CallerHolds(c, callers[c])'
  <2>1. callers[c] \in CallerStates /\ CallerHolds(c, callers[c]) /\ callers'[c] = callers[c]
    BY <1>1 DEF LoadsInvariant, LoadsType
  <2>2. callers[c].key \in Nat
    BY <2>1 DEF CallerStates
  <2>3. callers[c].key <= active => callers[c].key <= active'
    BY <1>1, <2>2
  <2>4. \A n \in Nat : n <= active => n <= active'
    BY <1>1
  <2>5. callers[c].at = "reads" => \E n \in Nat : callers[c].from = {n} /\ callers[c].key <= n /\ n <= active'
    BY <2>1, <2>4 DEF CallerHolds
  <2>6. callers[c].at = "keeps" /\ callers[c].from # {callers[c].key} => MayMix(callers[c].name, callers[c].key)'
    BY <2>1, <2>2, <1>1 DEF CallerHolds, MayMix
  <2> QED BY <1>1, <2>1, <2>3, <2>5, <2>6 DEF CallerHolds
<1> QED BY <1>2, <1>4, <1>5 DEF LoadsInvariant

-----------------------------------------------------------------------------
THEOREM LoadsInvariantHolds == LoadsSpec => []LoadsInvariant
<1>1. LoadsInit => LoadsInvariant
  <2> SUFFICES ASSUME LoadsInit PROVE LoadsInvariant
    OBVIOUS
  <2>1. /\ active = 1 /\ held = [n \in Names |-> Nothing] /\ building = [n \in Names |-> Nobody]
        /\ kept = NoIndex /\ loading = FALSE /\ background = None /\ callers = [c \in Callers |-> Free]
    BY DEF LoadsInit
  <2>2. Free \in CallerStates /\ Free.at = "free"
    BY DEF Free, CallerStates, CallerStages, IndexSeen, NoIndex, None
  <2>3. LoadsType
    <3>1. NoIndex \in IndexSeen /\ Nothing \in [key : Nat, from : SUBSET Nat]
      BY DEF NoIndex, Nothing, None, IndexSeen
    <3>2. active \in Nat \ {0} /\ background \in Nat
      BY <2>1 DEF None
    <3>3. kept \in IndexSeen /\ loading \in BOOLEAN
      BY <2>1, <3>1
    <3>4. held \in [Names -> [key : Nat, from : SUBSET Nat]] /\ building \in [Names -> Callers \cup {Nobody}]
      BY <2>1, <3>1
    <3>5. callers \in [Callers -> CallerStates]
      BY <2>1, <2>2
    <3> QED BY <3>2, <3>3, <3>4, <3>5 DEF LoadsType
  <2>4. \A c \in Callers : CallerHolds(c, callers[c])
    BY <2>1, FreeHolds
  <2>5. HeldWhole /\ OneLoad
    BY <2>1, <2>2 DEF HeldWhole, Nothing, None, OneLoad, At
  <2> QED BY <2>3, <2>4, <2>5 DEF LoadsInvariant
<1>2. LoadsInvariant /\ [LoadsNext]_loadVars => LoadsInvariant'
  <2> SUFFICES ASSUME LoadsInvariant, [LoadsNext]_loadVars PROVE LoadsInvariant'
    OBVIOUS
  <2>1. ASSUME NEW c \in Callers, NEW name \in Names, Ask(c, name) PROVE LoadsInvariant'
    BY <2>1, AskHolds
  <2>2. ASSUME NEW c \in Callers, Consult(c) PROVE LoadsInvariant'
    BY <2>2, ConsultHolds
  <2>3. ASSUME NEW c \in Callers, Forward(c) PROVE LoadsInvariant'
    <3>1. CASE UseHeld(c) \/ ConsultFails(c) \/ GoOn(c)
      <4>1. Leave(c) /\ ~At(c, "loads") /\ UNCHANGED <<active, held, building, kept, loading, background>>
        BY <3>1 DEF UseHeld, ConsultFails, GoOn, At, valueVars, indexVars
      <4> QED BY <4>1, LeaveHolds
    <3>2. CASE Build(c) BY <3>2, BuildHolds
    <3>3. CASE ReadFirst(c) BY <3>3, ReadFirstHolds
    <3>4. CASE ReadRest(c) BY <3>4, ReadRestHolds
    <3>5. CASE Keep(c) BY <3>5, KeepHolds
    <3>6. CASE BuildFails(c) BY <3>6, BuildFailsHolds
    <3>7. CASE ConsultKnown(c) BY <3>7, ConsultKnownHolds
    <3>8. CASE ConsultNew(c) BY <3>8, ConsultNewHolds
    <3>9. CASE LoadNow(c) BY <3>9, LoadNowHolds
    <3>10. CASE Loaded(c) BY <3>10, LoadedHolds
    <3>11. CASE StopWaiting(c) BY <3>11, StopWaitingHolds
    <3>12. CASE Return(c) BY <3>12, ReturnHolds
    <3> QED
      BY <2>3, <3>1, <3>2, <3>3, <3>4, <3>5, <3>6, <3>7, <3>8, <3>9, <3>10, <3>11, <3>12 DEF Forward
  <2>4. CASE LoadedInBackground
    BY <2>4, LoadedInBackgroundHolds
  <2>5. CASE Activate
    BY <2>5, ActivateHolds
  <2>6. CASE CheckTime \/ UNCHANGED loadVars
    <3>1. UNCHANGED <<active, held, building, kept, loading, background, callers>>
      BY <2>6 DEF CheckTime, loadVars, valueVars
    <3> QED BY <3>1 DEF LoadsInvariant, LoadsType, CallerHolds, HeldWhole, MayMix, OneLoad, At
  <2> QED
    BY <2>1, <2>2, <2>3, <2>4, <2>5, <2>6 DEF LoadsNext
<1> QED BY <1>1, <1>2, PTL DEF LoadsSpec

(***************************************************************************)
(* ChatEngine._per_release (engine.py): a value that mixes releases is     *)
(* never held under the release that is published, and never when its      *)
(* build is pinned.                                                        *)
(***************************************************************************)
THEOREM MixedNeverServed == LoadsSpec => []MixedIsNeverCurrent
<1>1. LoadsInvariant => MixedIsNeverCurrent
  <2> SUFFICES ASSUME LoadsInvariant, NEW n \in Names, held[n].key # None, held[n].from # {held[n].key}
               PROVE  n \notin Pinned /\ held[n].key # active
    BY DEF MixedIsNeverCurrent
  <2>1. held[n].key \in Nat /\ active \in Nat
    BY DEF LoadsInvariant, LoadsType
  <2> QED BY <2>1 DEF LoadsInvariant, HeldWhole, MayMix
<1> QED BY <1>1, LoadsInvariantHolds, PTL

(***************************************************************************)
(* ChatEngine._per_release: no build goes on for a release whose value is  *)
(* held already, because whoever gets the lock looks again.                *)
(***************************************************************************)
THEOREM BuiltOnce == LoadsSpec => []NoSecondBuild
<1>1. LoadsInvariant => NoSecondBuild
  BY DEF LoadsInvariant, CallerHolds, Builds, NoSecondBuild
<1> QED BY <1>1, LoadsInvariantHolds, PTL

(***************************************************************************)
(* PostgresEntityFacts.meaning_index (retrieval/postgres.py): one load at  *)
(* a time, and an index is only given to callers that found its release    *)
(* published.                                                              *)
(***************************************************************************)
THEOREM IndexIsOwn == LoadsSpec => []OwnIndex
<1>1. LoadsInvariant => OwnIndex
  BY DEF LoadsInvariant, LoadsType, CallerHolds, OneLoad, OwnIndex, At
<1> QED BY <1>1, LoadsInvariantHolds, PTL

-----------------------------------------------------------------------------
\* Each entity of a release has an identity of its own.
Distinct(entities) == \A e, f \in entities : e.id = f.id => e = f

\* Whether some link of an entity leads to an identity.
Leads(entities, e, t) == \E l \in e.links : t \in Targets(entities, l)

\* The entities linked: those with a link to one of the release, and those a link leads to.
LEMMA LinkedIs ==
  ASSUME NEW entities, NEW i
  PROVE  i \in LinkedIds(entities) <=>
           \E e, f \in entities : Leads(entities, e, f.id) /\ (i = e.id \/ i = f.id)
<1> DEFINE pairs == {q \in entities \X Ids(entities) : \E l \in q[1].links : q[2] \in Targets(entities, l)}
<1>1. \A q : q \in pairs <=> \E e, f \in entities : q = <<e, f.id>> /\ Leads(entities, e, f.id)
  BY DEF Ids, Leads
<1>2. i \in LinkedIds(entities) <=> \E q \in pairs : i \in {q[1].id, q[2]}
  BY DEF LinkedIds
<1> HIDE DEF pairs
<1>3. ASSUME NEW e \in entities, NEW f \in entities, Leads(entities, e, f.id), i = e.id \/ i = f.id
      PROVE  i \in LinkedIds(entities)
  <2>1. <<e, f.id>> \in pairs
    BY <1>1, <1>3
  <2>2. i \in {<<e, f.id>>[1].id, <<e, f.id>>[2]}
    BY <1>3
  <2> QED
    BY <1>2, <2>1, <2>2
<1>4. ASSUME NEW q \in pairs, i \in {q[1].id, q[2]}
      PROVE  \E e, f \in entities : Leads(entities, e, f.id) /\ (i = e.id \/ i = f.id)
  <2>1. PICK e \in entities, f \in entities : q = <<e, f.id>> /\ Leads(entities, e, f.id)
    BY <1>1
  <2>2. q[1] = e /\ q[2] = f.id
    BY <2>1
  <2> QED
    BY <1>4, <2>1, <2>2
<1> QED
  BY <1>2, <1>3, <1>4

\* What a card shows: the links to entities of the release, and those from them.
LEMMA CardIs ==
  ASSUME NEW entities, NEW e
  PROVE  /\ \A t : t \in Card(entities, e).out <=> t \in Ids(entities) /\ Leads(entities, e, t)
         /\ \A t : t \in Card(entities, e).into <=> \E g \in entities : t = g.id /\ Leads(entities, g, e.id)
<1>1. \A t : t \in Card(entities, e).out <=> t \in Ids(entities) /\ Leads(entities, e, t)
  BY DEF Card, Leads
<1>2. Card(entities, e).into = {f.id : f \in {g \in entities : Leads(entities, g, e.id)}}
  BY DEF Card, Leads
<1> QED
  BY <1>1, <1>2

(***************************************************************************)
(* The browser's views agree, whatever the entities and their links: an    *)
(* entity is listed as unlinked exactly when its card shows no link, a     *)
(* link out of one card is a link into the other, and only a record nobody *)
(* owns is left a record (graph_browse.py).                                *)
(***************************************************************************)
THEOREM ViewsAgree ==
  ASSUME NEW x, Distinct(x.entities)
  PROVE  CardsAgree(x)
<1> DEFINE all == x.entities
<1>1. ASSUME NEW e \in all
      PROVE  e.id \in UnlinkedList(all) <=> Card(all, e).out = {} /\ Card(all, e).into = {}
  <2>1. e.id \in LinkedIds(all) <=> \E d, f \in all : Leads(all, d, f.id) /\ (e.id = d.id \/ e.id = f.id)
    BY LinkedIs
  <2>2. e.id \in LinkedIds(all) <=> (\E f \in all : Leads(all, e, f.id)) \/ (\E d \in all : Leads(all, d, e.id))
    BY <2>1 DEF Distinct
  <2>3. Card(all, e).out = {} <=> ~ \E f \in all : Leads(all, e, f.id)
    BY CardIs DEF Ids
  <2>4. Card(all, e).into = {} <=> ~ \E d \in all : Leads(all, d, e.id)
    BY CardIs
  <2> QED
    BY <2>2, <2>3, <2>4 DEF UnlinkedList, Ids
<1>2. ASSUME NEW e \in all, NEW f \in all
      PROVE  f.id \in Card(all, e).out <=> e.id \in Card(all, f).into
  <2>1. f.id \in Card(all, e).out <=> Leads(all, e, f.id)
    BY CardIs DEF Ids
  <2>2. e.id \in Card(all, f).into <=> Leads(all, e, f.id)
    BY CardIs DEF Distinct
  <2> QED
    BY <2>1, <2>2
<1>3. ASSUME NEW e \in all, NEW l \in Card(all, e).record, NEW f \in all
      PROVE  l.record \notin f.owns
  <2>1. Targets(all, l) = {}
    BY DEF Card
  <2>2. OwnersOf(all, l.record) = {}
    BY <2>1 DEF Targets
  <2> QED
    BY <2>2 DEF OwnersOf
<1> QED
  BY <1>1, <1>2, <1>3 DEF CardsAgree
=============================================================================
