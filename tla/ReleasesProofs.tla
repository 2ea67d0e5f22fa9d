--------------------------- MODULE ReleasesProofs ---------------------------
(***************************************************************************)
(* What a reader of the store and a student asking a running Brain may     *)
(* rely on, for any number of releases, whatever step the data run, the    *)
(* Brain or its disk dies in.                                              *)
(*                                                                         *)
(* All but the types need that two releases never share file names         *)
(* (two builds of one dataset may).  Those about the folder need that the  *)
(* server does not go on before its first download is over, and the last   *)
(* that the folder's disk works: without them they are false.              *)
(***************************************************************************)
EXTENDS Releases, TLAPS

NamesApart == \A r, q \in Builds : StemOf[r] = StemOf[q] => r = q

-----------------------------------------------------------------------------
(***************************************************************************)
(* Types.                                                                  *)
(***************************************************************************)
\* The steps of the data run, and those of the Brain.
StoreStep == Publish \/ PublishFails
BrainStep ==
  \/ \E t \in Threads : Forward(t) \/ FetchFails(t) \/ Refuse(t) \/ InstallFails(t)
  \/ Switch \/ Start \/ Configure \/ Wake \/ Crash

LEMMA StepsOfTwo ==
  [Next]_vars => \/ StoreStep /\ UNCHANGED brainVars
                 \/ BrainStep /\ UNCHANGED storeVars
                 \/ UNCHANGED vars
<1> SUFFICES ASSUME Next
             PROVE  \/ StoreStep /\ UNCHANGED brainVars
                    \/ BrainStep /\ UNCHANGED storeVars
  BY DEF vars
<1>1. CASE Publish \/ PublishFails
  BY <1>1 DEF StoreStep, Publish, Begin, PutFiles, PutPointer, ClearStore, PublishFails
<1>2. ASSUME NEW t \in Threads, Forward(t) \/ FetchFails(t) \/ Refuse(t) \/ InstallFails(t)
      PROVE  UNCHANGED storeVars
  BY <1>2 DEF Forward, Fetch, Download, Check, Install, Clean, FetchFails, Refuse, InstallFails
<1>3. CASE Switch \/ Start \/ Configure \/ Wake \/ Crash
  BY <1>3 DEF BrainStep, Switch, Start, Configure, Wake, Crash
<1> QED
  BY <1>1, <1>2, <1>3 DEF Next, BrainStep

\* The types of the two halves of the state.
StoreTypes ==
  /\ active \in Maybe /\ displaced \in Maybe
  /\ previous \in SUBSET Stems
  /\ stored \in [Stems -> Maybe]
  /\ publisher \in Publisher

\* A data run at work has a release to share.
Sharing == publisher.step # "idle" => publisher.release \in Builds

LEMMA StoreStepTypes ==
  ASSUME StoreTypes, Sharing, StoreStep
  PROVE  StoreTypes' /\ Sharing'
<1> USE ReleasesAssumption DEF StoreTypes, Sharing, Publisher
<1>1. /\ publisher.step \in {"idle", "files", "pointer", "clear"}
      /\ publisher.release \in Maybe /\ publisher.older \in SUBSET Stems
  OBVIOUS
<1>2. ASSUME NEW r \in Builds, Begin(r)
      PROVE  StoreTypes' /\ Sharing'
  BY <1>1, <1>2 DEF Begin, Maybe
<1>3. CASE PutFiles
  <2>1. publisher.release \in Builds /\ StemOf[publisher.release] \in Stems
    BY <1>3 DEF PutFiles, At
  <2>2. stored' \in [Stems -> Maybe]
    BY <1>3, <2>1 DEF PutFiles, Maybe
  <2>3. publisher' = [publisher EXCEPT !.step = "pointer"] /\ UNCHANGED <<active, previous, displaced>>
    BY <1>3 DEF PutFiles
  <2> QED
    BY <1>1, <2>1, <2>2, <2>3
<1>4. CASE PutPointer
  <2>1. publisher.release \in Builds /\ Before \in SUBSET Stems
    BY <1>4 DEF PutPointer, At, Before, Maybe
  <2>2. publisher' = [publisher EXCEPT !.step = "clear", !.older = previous]
    BY <1>4 DEF PutPointer
  <2>3. active' \in Maybe /\ previous' \in SUBSET Stems /\ displaced' \in Maybe /\ stored' = stored
    BY <1>4, <2>1 DEF PutPointer, Maybe
  <2> QED
    BY <1>1, <2>1, <2>2, <2>3
<1>5. CASE ClearStore
  <2>1. stored' \in [Stems -> Maybe]
    BY <1>5 DEF ClearStore, Maybe
  <2> QED
    BY <1>5, <2>1 DEF ClearStore, NoRun, Maybe
<1>6. CASE PublishFails
  BY <1>6 DEF PublishFails, NoRun, Maybe
<1> QED
  BY <1>2, <1>3, <1>4, <1>5, <1>6 DEF StoreStep, Publish

BrainTypes ==
  /\ installed \in Maybe
  /\ folder \in [Stems -> Maybe]
  /\ phase \in {"down", "starting", "serving"}
  /\ engine \in Maybe /\ refused \in Maybe
  /\ pc \in [Threads -> Working \cup {"off", "rest"}]
  /\ target \in [Threads -> Maybe]
  /\ keep \in [Threads -> SUBSET Stems]
  /\ \A t \in Threads :
       /\ phase = "down" => pc[t] = "off"
       /\ pc[t] \in Working \ {"fetch"} => target[t] \in Builds

\* What a step of one thread does to its place.
LEMMA ThreadMoves ==
  ASSUME BrainTypes, NEW t \in Threads, NEW step \in Working \cup {"rest"}, Goto(t, step)
  PROVE  /\ pc' \in [Threads -> Working \cup {"off", "rest"}]
         /\ pc'[t] = step
         /\ \A u \in Threads \ {t} : pc'[u] = pc[u]
BY DEF BrainTypes, Goto

LEMMA ThreadStepTypes ==
  ASSUME StoreTypes, BrainTypes, NEW t \in Threads,
         Forward(t) \/ FetchFails(t) \/ Refuse(t) \/ InstallFails(t)
  PROVE  BrainTypes'
<1> USE ReleasesAssumption
<1>1. phase # "down" /\ pc[t] \in Working
  <2>1. pc[t] \in {"fetch", "download", "check", "install", "clean"}
    BY DEF Forward, Fetch, Download, Check, Install, Clean, FetchFails, Refuse, InstallFails
  <2> QED
    BY <2>1 DEF BrainTypes, Working
<1>2. PICK step \in Working \cup {"rest"} : Goto(t, step)
  BY DEF Forward, Fetch, Download, Check, Install, Clean, FetchFails, Refuse, InstallFails,
         Rest, Goto, Working
<1>3. /\ pc' \in [Threads -> Working \cup {"off", "rest"}]
      /\ pc'[t] = step /\ \A u \in Threads \ {t} : pc'[u] = pc[u]
  BY <1>2, ThreadMoves
<1>4. /\ UNCHANGED phase
      /\ \A u \in Threads \ {t} : target'[u] = target[u]
  BY DEF Forward, Fetch, Download, Check, Install, Clean, FetchFails, Refuse, InstallFails, BrainTypes
<1>5. target' \in [Threads -> Maybe] /\ (step \in Working \ {"fetch"} => target'[t] \in Builds)
  <2>1. CASE Fetch(t)
    <3>1. active \in Builds /\ target' = [target EXCEPT ![t] = active]
      BY <2>1 DEF Fetch, StoreTypes, Maybe
    <3> QED
      BY <3>1 DEF BrainTypes, Maybe
  <2>2. CASE ~Fetch(t)
    <3>1. UNCHANGED target
      BY <2>2 DEF Forward, Download, Check, Install, Clean, FetchFails, Refuse, InstallFails
    <3>2. pc[t] = "fetch" => step = "rest"
      BY <2>2, <1>2, <1>3
         DEF Forward, Download, Check, Install, Clean, FetchFails, Refuse, InstallFails, Rest, BrainTypes
    <3> QED
      BY <1>1, <3>1, <3>2 DEF BrainTypes, Working
  <2> QED
    BY <2>1, <2>2
<1>6. /\ installed' \in Maybe /\ engine' \in Maybe /\ refused' \in Maybe
      /\ folder' \in [Stems -> Maybe] /\ keep' \in [Threads -> SUBSET Stems]
  <2>0. /\ installed \in Maybe /\ engine \in Maybe /\ refused \in Maybe /\ target[t] \in Maybe
        /\ folder \in [Stems -> Maybe] /\ keep \in [Threads -> SUBSET Stems] /\ None \in Maybe
    BY DEF BrainTypes, Maybe
  <2>1. CASE Fetch(t) \/ Check(t) \/ FetchFails(t)
    BY <2>0, <2>1 DEF Fetch, Check, FetchFails
  <2>2. CASE Download(t)
    <3>1. folder' \in [Stems -> Maybe]
      BY <2>0, <2>2 DEF Download
    <3> QED
      BY <2>0, <2>2, <3>1 DEF Download
  <2>3. CASE Install(t)
    <3>1. (IF installed = None THEN {} ELSE {StemOf[installed]}) \in SUBSET Stems
      BY <2>0 DEF Maybe
    <3>2. keep' \in [Threads -> SUBSET Stems]
      BY <2>0, <2>3, <3>1 DEF Install
    <3> QED
      BY <2>0, <2>3, <3>2 DEF Install
  <2>4. \A left : Without(t, left) \in [Stems -> Maybe]
    BY <2>0 DEF Without
  <2>5. CASE Clean(t)
    BY <2>0, <2>4, <2>5 DEF Clean
  <2>6. CASE Refuse(t)
    BY <2>0, <2>6 DEF Refuse
  <2>7. CASE InstallFails(t)
    BY <2>0, <2>4, <2>7 DEF InstallFails
  <2> QED
    BY <2>1, <2>2, <2>3, <2>5, <2>6, <2>7 DEF Forward
<1> QED
  BY <1>1, <1>3, <1>4, <1>5, <1>6 DEF BrainTypes

LEMMA BrainStepTypes ==
  ASSUME StoreTypes, BrainTypes, BrainStep
  PROVE  BrainTypes'
<1> USE DEF BrainTypes
<1>1. CASE Switch
  BY <1>1 DEF Switch, Rest, Threads
<1>2. CASE Start
  BY <1>2 DEF Start, Threads, Working
<1>3. CASE Configure
  <2>1. /\ pc' = [pc EXCEPT !["watch"] = "rest"] /\ phase' = "serving" /\ engine' = installed
        /\ UNCHANGED <<installed, folder, refused, target, keep>>
    BY <1>3 DEF Configure
  <2>2. pc' \in [Threads -> Working \cup {"off", "rest"}]
    BY <2>1
  <2>3. \A t \in Threads : pc'[t] \in Working \ {"fetch"} => pc'[t] = pc[t]
    BY <2>1 DEF Working
  <2> QED
    BY <2>1, <2>2, <2>3
<1>4. CASE Wake
  BY <1>4 DEF Wake, Goto, Threads, Working
<1>5. CASE Crash
  BY <1>5 DEF Crash, Maybe, Working
<1> QED
  BY <1>1, <1>2, <1>3, <1>4, <1>5, ThreadStepTypes DEF BrainStep

TypeInvariant == StoreTypes /\ Sharing /\ BrainTypes

LEMMA NextTypes == TypeInvariant /\ [Next]_vars => TypeInvariant'
<1> SUFFICES ASSUME TypeInvariant, [Next]_vars
             PROVE  TypeInvariant'
  OBVIOUS
<1>1. CASE StoreStep /\ UNCHANGED brainVars
  BY <1>1, StoreStepTypes DEF TypeInvariant, BrainTypes, brainVars
<1>2. CASE BrainStep /\ UNCHANGED storeVars
  BY <1>2, BrainStepTypes DEF TypeInvariant, StoreTypes, Sharing, storeVars
<1>3. CASE UNCHANGED vars
  BY <1>3 DEF TypeInvariant, BrainTypes, StoreTypes, Sharing, vars, storeVars, brainVars
<1> QED
  BY <1>1, <1>2, <1>3, StepsOfTwo

LEMMA InitTypes == Init => TypeInvariant
BY DEF Init, TypeInvariant, StoreTypes, BrainTypes, Sharing, Maybe, Publisher, NoRun, Threads, Working

\* No thread outlives its process and none works on no release, through every crash and
\* every slow start (Releases in api/releases.py, _first_sync in api/app.py).
THEOREM ReleasesTypeCorrect == Spec => []ReleasesTypeOK
<1>1. TypeInvariant => ReleasesTypeOK
  BY DEF TypeInvariant, StoreTypes, BrainTypes, ReleasesTypeOK
<1> QED
  BY <1>1, InitTypes, NextTypes, PTL DEF Spec

-----------------------------------------------------------------------------
(***************************************************************************)
(* The store.                                                              *)
(***************************************************************************)
\* The files of the release about to be named are there, and those of the release
\* before it are on the list of what to keep.
StoreInvariant ==
  /\ StoreWhole
  /\ OldStillThere
  /\ publisher.step = "pointer" => stored[StemOf[publisher.release]] = publisher.release
  /\ displaced # None => active # None /\ StemOf[displaced] \in previous \cup {StemOf[active]}

LEMMA StoreStepKeeps ==
  ASSUME NamesApart, StoreTypes, Sharing, StoreInvariant, StoreStep
  PROVE  StoreInvariant'
<1> USE ReleasesAssumption DEF StoreInvariant, StoreWhole, OldStillThere
<1>0. /\ active \in Builds \cup {None} /\ displaced \in Builds \cup {None}
      /\ stored \in [Stems -> Builds \cup {None}]
      /\ \A r \in Builds : StemOf[r] \in Stems
      /\ publisher.step \in {"idle", "files", "pointer", "clear"}
      /\ publisher \in Publisher
  BY DEF StoreTypes, Maybe, Publisher
<1>1. ASSUME NEW r \in Builds, Begin(r)
      PROVE  StoreInvariant'
  BY <1>1 DEF Begin
<1>2. CASE PutFiles
  <2> DEFINE new == publisher.release
  <2>1. /\ new \in Builds
        /\ stored' = [stored EXCEPT ![StemOf[new]] = IF active = new THEN @ ELSE new]
        /\ publisher' = [publisher EXCEPT !.step = "pointer"]
        /\ UNCHANGED <<active, previous, displaced>>
    BY <1>2 DEF PutFiles, At, Sharing
  <2>2. stored'[StemOf[new]] = new
    BY <1>0, <2>1
  <2>3. ASSUME NEW r \in Builds, stored[StemOf[r]] = r
        PROVE  stored'[StemOf[r]] = r
    <3>1. CASE r = new
      BY <2>2, <3>1
    <3>2. CASE r # new
      BY <1>0, <2>1, <2>3, <3>2 DEF NamesApart
    <3> QED
      BY <3>1, <3>2
  <2>4. publisher'.release = new
    BY <1>0, <2>1 DEF Publisher
  <2> QED
    BY <1>0, <2>1, <2>2, <2>3, <2>4
<1>3. CASE PutPointer
  <2> DEFINE new == publisher.release
  <2>1. /\ new \in Builds /\ stored[StemOf[new]] = new /\ active' = new /\ stored' = stored
        /\ previous' = IF Before # {} THEN Before ELSE previous
        /\ displaced' = IF active = new THEN displaced ELSE active
    BY <1>3 DEF PutPointer, At, Sharing
  <2>2. publisher'.step = "clear"
    BY <1>0, <1>3 DEF PutPointer, Publisher
  <2>3. CASE active = new
    <3>1. Before = {}
      BY <2>3 DEF Before
    <3> QED
      BY <1>0, <2>1, <2>2, <2>3, <3>1
  <2>4. CASE active # new /\ active # None
    <3>1. Before = {StemOf[active]}
      BY <1>0, <2>1, <2>4 DEF Before, NamesApart
    <3> QED
      BY <1>0, <2>1, <2>2, <2>4, <3>1
  <2>5. CASE active = None
    BY <1>0, <2>1, <2>2, <2>5
  <2> QED
    BY <2>3, <2>4, <2>5
<1>4. CASE ClearStore
  <2>1. /\ \A s \in Stems : s \in {StemOf[active]} \cup previous => stored'[s] = stored[s]
        /\ UNCHANGED <<active, previous, displaced>> /\ publisher' = NoRun
    BY <1>4 DEF ClearStore
  <2> QED
    BY <1>0, <2>1 DEF NoRun
<1>5. CASE PublishFails
  BY <1>5 DEF PublishFails, NoRun
<1> QED
  BY <1>1, <1>2, <1>3, <1>4, <1>5 DEF StoreStep, Publish

LEMMA NextStore ==
  ASSUME NamesApart
  PROVE  TypeInvariant /\ StoreInvariant /\ [Next]_vars => StoreInvariant'
<1> SUFFICES ASSUME TypeInvariant, StoreInvariant, [Next]_vars
             PROVE  StoreInvariant'
  OBVIOUS
<1>1. CASE StoreStep
  BY <1>1, StoreStepKeeps DEF TypeInvariant
<1>2. CASE UNCHANGED storeVars
  BY <1>2 DEF storeVars, StoreInvariant, StoreWhole, OldStillThere
<1> QED
  BY <1>1, <1>2, StepsOfTwo DEF vars, storeVars

LEMMA InitStore == Init => StoreInvariant
BY DEF Init, StoreInvariant, StoreWhole, OldStillThere, NoRun

\* A reader of the store sees the old release or the whole new one, whatever step the
\* data run died in (publish in graph_sync.py: files, then the pointer, then removals).
THEOREM StoreStaysWhole ==
  ASSUME NamesApart
  PROVE  Spec => []StoreWhole
<1>1. StoreInvariant => StoreWhole
  BY DEF StoreInvariant
<1> QED
  BY <1>1, InitTypes, NextTypes, InitStore, NextStore, PTL DEF Spec

\* The release before is still in the store as long as only one came after it, however
\* often that one is shared again (the pointer's list of previous files).
THEOREM OldStays ==
  ASSUME NamesApart
  PROVE  Spec => []OldStillThere
<1>1. StoreInvariant => OldStillThere
  BY DEF StoreInvariant
<1> QED
  BY <1>1, InitTypes, NextTypes, InitStore, NextStore, PTL DEF Spec

-----------------------------------------------------------------------------
(***************************************************************************)
(* What is served.                                                         *)
(***************************************************************************)
\* Whatever is under a name belongs to it, and nothing goes past the check, into the
\* folder's pointer or into the engine unless it is good.
GoodOrNone == Good \cup {None}

GoodInvariant ==
  /\ \A s \in Stems : folder[s] # None => StemOf[folder[s]] = s
  /\ installed \in GoodOrNone /\ engine \in GoodOrNone
  /\ \A t \in Threads : pc[t] \in {"install", "clean", "switch"} => target[t] \in Good

LEMMA ThreadKeepsGood ==
  ASSUME NamesApart, BrainTypes, GoodInvariant, NEW t \in Threads,
         Forward(t) \/ FetchFails(t) \/ Refuse(t) \/ InstallFails(t)
  PROVE  GoodInvariant'
<1> USE ReleasesAssumption DEF GoodInvariant, GoodOrNone
<1>0. /\ pc \in [Threads -> Working \cup {"off", "rest"}] /\ target \in [Threads -> Maybe]
      /\ folder \in [Stems -> Maybe]
      /\ pc[t] \in Working \ {"fetch"} => target[t] \in Builds
  BY DEF BrainTypes
<1>1. CASE Fetch(t) \/ FetchFails(t) \/ Refuse(t)
  BY <1>0, <1>1 DEF Fetch, FetchFails, Refuse, Rest, Goto
<1>2. CASE Download(t)
  <2>1. target[t] \in Builds /\ target[t] # None
    BY <1>0, <1>2 DEF Download, Working
  <2>2. \A s \in Stems : folder'[s] # None => StemOf[folder'[s]] = s
    BY <1>0, <1>2, <2>1 DEF Download
  <2> QED
    BY <1>0, <1>2, <2>2 DEF Download, Goto
<1>3. CASE Check(t)
  <2>1. target[t] \in Builds
    BY <1>0, <1>3 DEF Check, Working
  <2>2. pc'[t] = "install" => target[t] \in Good
    <3>1. pc'[t] = "install" => folder[StemOf[target[t]]] \in Good
      BY <1>0, <1>3 DEF Check, Rest, Goto
    <3> QED
      BY <2>1, <3>1 DEF NamesApart
  <2>3. pc'[t] \in {"install", "rest"} /\ \A u \in Threads \ {t} : pc'[u] = pc[u]
    BY <1>0, <1>3 DEF Check, Rest, Goto
  <2>4. UNCHANGED <<folder, installed, engine, target>>
    BY <1>3 DEF Check
  <2> QED
    BY <2>2, <2>3, <2>4
<1>4. CASE Install(t)
  BY <1>0, <1>4 DEF Install, Goto
<1>5. \A left : \A s \in Stems : Without(t, left)[s] \in {folder[s], None}
  BY DEF Without
<1>6. CASE Clean(t)
  <2>1. \A s \in Stems : folder'[s] \in {folder[s], None}
    BY <1>5, <1>6 DEF Clean
  <2> QED
    BY <1>0, <1>6, <2>1 DEF Clean, Goto, Rest
<1>7. CASE InstallFails(t)
  <2>1. \A s \in Stems : folder'[s] \in {folder[s], None}
    BY <1>5, <1>7 DEF InstallFails
  <2> QED
    BY <1>0, <1>7, <2>1 DEF InstallFails, Goto, Rest
<1> QED
  BY <1>1, <1>2, <1>3, <1>4, <1>6, <1>7 DEF Forward

LEMMA NextGood ==
  ASSUME NamesApart
  PROVE  TypeInvariant /\ GoodInvariant /\ [Next]_vars => GoodInvariant'
<1> SUFFICES ASSUME TypeInvariant, GoodInvariant, [Next]_vars
             PROVE  GoodInvariant'
  OBVIOUS
<1>0. BrainTypes /\ pc \in [Threads -> Working \cup {"off", "rest"}]
  BY DEF TypeInvariant, BrainTypes
<1>1. CASE UNCHANGED brainVars
  BY <1>1 DEF brainVars, GoodInvariant
<1>2. ASSUME NEW t \in Threads, Forward(t) \/ FetchFails(t) \/ Refuse(t) \/ InstallFails(t)
      PROVE  GoodInvariant'
  BY <1>0, <1>2, ThreadKeepsGood
<1>3. CASE Switch
  BY <1>0, <1>3 DEF Switch, Rest, GoodInvariant, GoodOrNone, Threads
<1>4. CASE Start \/ Configure \/ Wake
  BY <1>0, <1>4 DEF Start, Configure, Wake, Goto, GoodInvariant
<1>5. CASE Crash
  BY <1>5 DEF Crash, GoodInvariant, GoodOrNone
<1> QED
  BY <1>1, <1>2, <1>3, <1>4, <1>5, StepsOfTwo DEF BrainStep, vars

LEMMA InitGood == Init => GoodInvariant
BY DEF Init, GoodInvariant, GoodOrNone

\* A release that does not open or pass its checks is never what questions are answered
\* from, across refusals, failed installs, slow starts and restarts (checked_release in
\* graph_sync.py, Releases in api/releases.py).
THEOREM OnlyGoodServed ==
  ASSUME NamesApart
  PROVE  Spec => []ServedIsGood
<1>1. GoodInvariant => ServedIsGood
  BY DEF GoodInvariant, GoodOrNone, ServedIsGood, Serves
<1> QED
  BY <1>1, InitTypes, NextTypes, InitGood, NextGood, PTL DEF Spec

-----------------------------------------------------------------------------
(***************************************************************************)
(* The folder of a Brain whose first download is waited for: one thread at *)
(* a time is at work.                                                      *)
(***************************************************************************)
OneThread ==
  /\ phase # "serving" => pc["watch"] = "off"
  /\ phase = "serving" => pc["first"] = "rest"

\* What a thread has downloaded stays in the folder while it works on it, and from the
\* renaming of the pointer on the pointer names it.
FolderInvariant ==
  /\ OneThread
  /\ InstalledWhole
  /\ \A t \in Threads :
       /\ pc[t] \in {"check", "install", "clean", "switch"} =>
            folder[StemOf[target[t]]] = target[t]
       /\ pc[t] \in {"clean", "switch"} => installed = target[t]

\* While one thread works the other is out of the way.
LEMMA OthersIdle ==
  ASSUME BrainTypes, OneThread, NEW t \in Threads, pc[t] \in Working
  PROVE  /\ \A u \in Threads \ {t} : pc[u] \in {"off", "rest"}
         /\ t = "watch" <=> phase = "serving"
         /\ phase # "down"
<1>1. t \in {"first", "watch"} /\ \A u \in Threads \ {t} : u \in {"first", "watch"} /\ u # t
  BY DEF Threads
<1>2. pc[t] # "off" /\ pc[t] # "rest" /\ "first" \in Threads /\ "watch" \in Threads
  BY DEF Working, Threads
<1>3. phase # "down"
  BY <1>2 DEF BrainTypes
<1>4. CASE t = "watch"
  <2>1. phase = "serving" /\ pc["first"] = "rest"
    BY <1>2, <1>4 DEF OneThread
  <2> QED
    BY <1>1, <1>3, <1>4, <2>1
<1>5. CASE t = "first"
  <2>1. phase # "serving" /\ pc["watch"] = "off"
    BY <1>2, <1>5 DEF OneThread
  <2> QED
    BY <1>1, <1>3, <1>5, <2>1
<1> QED
  BY <1>1, <1>4, <1>5

LEMMA ThreadWorks ==
  ASSUME NEW t \in Threads, Forward(t) \/ FetchFails(t) \/ Refuse(t) \/ InstallFails(t)
  PROVE  pc[t] \in Working /\ pc[t] # "switch" /\ UNCHANGED <<phase, engine>>
BY DEF Forward, Fetch, Download, Check, Install, Clean, FetchFails, Refuse, InstallFails, Working

LEMMA ThreadKeepsFolder ==
  ASSUME NamesApart, BrainTypes, FolderInvariant, NEW t \in Threads,
         Forward(t) \/ FetchFails(t) \/ Refuse(t) \/ InstallFails(t)
  PROVE  FolderInvariant'
<1> USE ReleasesAssumption
<1> DEFINE idle == {"off", "rest"}
<1>0. /\ pc \in [Threads -> Working \cup {"off", "rest"}] /\ target \in [Threads -> Maybe]
      /\ folder \in [Stems -> Maybe] /\ installed \in Maybe
      /\ pc[t] \in Working \ {"fetch"} => target[t] \in Builds
      /\ pc[t] \in Working /\ UNCHANGED phase
  BY ThreadWorks DEF BrainTypes
<1>1. /\ \A u \in Threads \ {t} : pc[u] \in {"off", "rest"}
      /\ t = "watch" <=> phase = "serving"
  BY <1>0, OthersIdle DEF FolderInvariant
<1>2. PICK step \in Working \cup {"rest"} : Goto(t, step)
  BY DEF Forward, Fetch, Download, Check, Install, Clean, FetchFails, Refuse, InstallFails,
         Rest, Goto, Working
<1>3. pc'[t] = step /\ \A u \in Threads \ {t} : pc'[u] = pc[u]
  BY <1>2, ThreadMoves
<1>4. OneThread'
  <2>1. "first" \in Threads /\ "watch" \in Threads
    BY DEF Threads
  <2>2. CASE t = "watch"
    BY <1>0, <1>1, <1>3, <2>1, <2>2 DEF OneThread, FolderInvariant
  <2>3. CASE t = "first"
    BY <1>0, <1>1, <1>3, <2>1, <2>3 DEF OneThread, FolderInvariant
  <2> QED
    BY <2>2, <2>3 DEF Threads
\* It is enough to look at the thread that moves.
<1>5. ASSUME InstalledWhole',
             step \in {"check", "install", "clean", "switch"} =>
               folder'[StemOf[target'[t]]] = target'[t],
             step \in {"clean", "switch"} => installed' = target'[t]
      PROVE  FolderInvariant'
  <2>1. \A u \in Threads \ {t} : pc'[u] \notin {"check", "install", "clean", "switch"}
    BY <1>1, <1>3
  <2> QED
    BY <1>3, <1>4, <1>5, <2>1 DEF FolderInvariant
<1>6. CASE Fetch(t) \/ FetchFails(t) \/ Refuse(t)
  <2>1. step \in {"download", "rest"} /\ UNCHANGED <<installed, folder>>
    BY <1>0, <1>3, <1>6 DEF Fetch, FetchFails, Refuse, Rest, Goto
  <2> QED
    BY <1>5, <2>1 DEF InstalledWhole, FolderInvariant
<1>7. CASE Download(t)
  <2>1. /\ step = "check" /\ target[t] \in Builds /\ UNCHANGED <<installed, target>>
        /\ folder' = [folder EXCEPT ![StemOf[target[t]]] = target[t]]
    BY <1>0, <1>3, <1>7 DEF Download, Goto, Working
  <2>2. folder'[StemOf[target[t]]] = target[t]
    BY <1>0, <2>1
  <2>3. InstalledWhole'
    <3>1. CASE installed = target[t]
      BY <2>1, <2>2, <3>1 DEF InstalledWhole
    <3>2. CASE installed # target[t]
      BY <1>0, <2>1, <3>2 DEF InstalledWhole, FolderInvariant, NamesApart, Maybe
    <3> QED
      BY <3>1, <3>2
  <2> QED
    BY <1>5, <2>1, <2>2, <2>3
<1>8. CASE Check(t)
  <2>1. step \in {"install", "rest"} /\ pc[t] = "check" /\ UNCHANGED <<installed, folder, target>>
    BY <1>0, <1>3, <1>8 DEF Check, Rest, Goto
  <2> QED
    BY <1>5, <2>1 DEF InstalledWhole, FolderInvariant
<1>9. CASE Install(t)
  <2>1. /\ step = "clean" /\ pc[t] = "install" /\ UNCHANGED <<folder, target>>
        /\ installed' = target[t]
    BY <1>0, <1>3, <1>9 DEF Install, Goto
  <2> QED
    BY <1>5, <2>1 DEF InstalledWhole, FolderInvariant
<1>10. ASSUME pc[t] = "clean", NEW left, folder' = Without(t, left), UNCHANGED <<installed, target>>
       PROVE  FolderInvariant'
  <2>1. target[t] \in Builds /\ installed = target[t]
    BY <1>0, <1>10 DEF FolderInvariant, Working
  <2>2. folder'[StemOf[target[t]]] = target[t]
    BY <1>10, <2>1 DEF Without, FolderInvariant
  <2> QED
    BY <1>5, <1>10, <2>1, <2>2 DEF InstalledWhole
<1>11. CASE Clean(t)
  BY <1>10, <1>11 DEF Clean
<1>12. CASE InstallFails(t)
  <2>1. CASE pc[t] = "clean"
    BY <1>10, <1>12, <2>1 DEF InstallFails
  <2>2. CASE pc[t] = "install"
    <3>1. step = "rest" /\ UNCHANGED <<installed, folder, target>>
      BY <1>0, <1>3, <1>12, <2>2 DEF InstallFails, Rest, Goto
    <3> QED
      BY <1>5, <3>1 DEF InstalledWhole, FolderInvariant
  <2> QED
    BY <1>12, <2>1, <2>2 DEF InstallFails
<1> QED
  BY <1>6, <1>7, <1>8, <1>9, <1>11, <1>12 DEF Forward

LEMMA NextFolder ==
  ASSUME NamesApart, ~SlowStart
  PROVE  TypeInvariant /\ FolderInvariant /\ [Next]_vars => FolderInvariant'
<1> SUFFICES ASSUME TypeInvariant, FolderInvariant, [Next]_vars
             PROVE  FolderInvariant'
  OBVIOUS
<1>0. /\ BrainTypes /\ pc \in [Threads -> Working \cup {"off", "rest"}]
      /\ phase \in {"down", "starting", "serving"}
      /\ "first" \in Threads /\ "watch" \in Threads /\ Threads = {"first", "watch"}
  BY DEF TypeInvariant, BrainTypes, Threads
<1>1. CASE UNCHANGED brainVars
  BY <1>1 DEF brainVars, FolderInvariant, OneThread, InstalledWhole
<1>2. ASSUME NEW t \in Threads, Forward(t) \/ FetchFails(t) \/ Refuse(t) \/ InstallFails(t)
      PROVE  FolderInvariant'
  BY <1>0, <1>2, ThreadKeepsFolder
<1>3. CASE Switch
  <2>1. /\ pc["watch"] = "switch" /\ pc' = [pc EXCEPT !["watch"] = "rest"]
        /\ UNCHANGED <<installed, folder, phase, target>>
    BY <1>3 DEF Switch, Rest
  <2>2. OneThread'
    BY <1>0, <2>1 DEF FolderInvariant, OneThread
  <2>3. \A t \in Threads : pc'[t] = pc[t] \/ pc'[t] = "rest"
    BY <1>0, <2>1
  <2> QED
    BY <2>1, <2>2, <2>3 DEF FolderInvariant, InstalledWhole
<1>4. CASE Start
  <2>1. /\ phase = "down" /\ phase' = "starting" /\ pc' = [pc EXCEPT !["first"] = "fetch"]
        /\ UNCHANGED <<installed, folder, target>>
    BY <1>4 DEF Start
  <2>2. OneThread'
    BY <1>0, <2>1 DEF FolderInvariant, OneThread
  <2>3. \A t \in Threads : pc'[t] = pc[t] \/ pc'[t] = "fetch"
    BY <1>0, <2>1
  <2> QED
    BY <2>1, <2>2, <2>3 DEF FolderInvariant, InstalledWhole
<1>5. CASE Configure
  <2>1. /\ pc["first"] = "rest" /\ phase' = "serving" /\ pc' = [pc EXCEPT !["watch"] = "rest"]
        /\ UNCHANGED <<installed, folder, target>>
    BY <1>5 DEF Configure
  <2>2. OneThread'
    BY <1>0, <2>1 DEF OneThread
  <2>3. \A t \in Threads : pc'[t] = pc[t] \/ pc'[t] = "rest"
    BY <1>0, <2>1
  <2> QED
    BY <2>1, <2>2, <2>3 DEF FolderInvariant, InstalledWhole
<1>6. CASE Wake
  <2>1. /\ phase = "serving" /\ pc' = [pc EXCEPT !["watch"] = "fetch"]
        /\ UNCHANGED <<installed, folder, phase, target>>
    BY <1>6 DEF Wake, Goto
  <2>2. OneThread'
    BY <1>0, <2>1 DEF FolderInvariant, OneThread
  <2>3. \A t \in Threads : pc'[t] = pc[t] \/ pc'[t] = "fetch"
    BY <1>0, <2>1
  <2> QED
    BY <2>1, <2>2, <2>3 DEF FolderInvariant, InstalledWhole
<1>7. CASE Crash
  <2>1. /\ phase' = "down" /\ UNCHANGED <<installed, folder>>
        /\ pc' = [t \in Threads |-> "off"]
    BY <1>7 DEF Crash
  <2> QED
    BY <1>0, <2>1 DEF FolderInvariant, InstalledWhole, OneThread
<1> QED
  BY <1>1, <1>2, <1>3, <1>4, <1>5, <1>6, <1>7, StepsOfTwo DEF BrainStep, vars

LEMMA InitFolder == Init => FolderInvariant
BY DEF Init, FolderInvariant, OneThread, InstalledWhole, Threads

\* The folder's pointer names a release whose files are all here, whatever step the
\* process died in and whatever the disk refuses (GraphFollower: files, then the pointer,
\* then removals).
THEOREM FolderStaysWhole ==
  ASSUME NamesApart, ~SlowStart
  PROVE  Spec => []InstalledWhole
<1>1. FolderInvariant => InstalledWhole
  BY DEF FolderInvariant
<1> QED
  BY <1>1, InitTypes, NextTypes, InitFolder, NextFolder, PTL DEF Spec

-----------------------------------------------------------------------------
(***************************************************************************)
(* The files a running Brain reads from.                                   *)
(***************************************************************************)
\* The engine is on the pointer's release, or an install is about to bring it there and
\* keeps its files until then.
ServedInvariant ==
  /\ ServedFilesKept
  /\ phase # "serving" => engine = None
  /\ engine # None /\ pc["watch"] \notin {"clean", "switch"} => engine = installed
  /\ engine # None /\ pc["watch"] = "clean" => StemOf[engine] \in keep["watch"]

LEMMA ThreadKeepsServed ==
  ASSUME NamesApart, ~DiskFails, BrainTypes, FolderInvariant, ServedInvariant, NEW t \in Threads,
         Forward(t) \/ FetchFails(t) \/ Refuse(t) \/ InstallFails(t)
  PROVE  ServedInvariant'
<1> USE ReleasesAssumption
<1>0. /\ pc[t] \in Working /\ pc[t] # "switch" /\ UNCHANGED <<phase, engine>>
      /\ phase \in {"down", "starting", "serving"}
      /\ pc \in [Threads -> Working \cup {"off", "rest"}] /\ target \in [Threads -> Maybe]
      /\ folder \in [Stems -> Maybe] /\ installed \in Maybe /\ engine \in Maybe
      /\ keep \in [Threads -> SUBSET Stems] /\ "watch" \in Threads
      /\ pc[t] \in Working \ {"fetch"} => target[t] \in Builds
  BY ThreadWorks DEF BrainTypes, Threads
<1>1. t = "watch" <=> phase = "serving"
  BY <1>0, OthersIdle DEF FolderInvariant
<1>2. CASE engine = None
  BY <1>0, <1>2 DEF ServedInvariant, ServedFilesKept
<1>3. CASE engine # None
  <2>0. phase = "serving" /\ t = "watch" /\ folder[StemOf[engine]] = engine /\ engine \in Builds
    BY <1>0, <1>1, <1>3 DEF ServedInvariant, ServedFilesKept, Maybe
  <2>1. CASE Fetch(t) \/ FetchFails(t) \/ Refuse(t) \/ Check(t)
    <3>1. /\ pc[t] \in {"fetch", "download", "check"} /\ pc'[t] \in {"download", "install", "rest"}
          /\ UNCHANGED <<installed, folder>>
      BY <1>0, <2>1 DEF Fetch, FetchFails, Refuse, Check, Rest, Goto
    <3> QED
      BY <1>0, <2>0, <3>1 DEF ServedInvariant, ServedFilesKept
  <2>2. CASE Download(t)
    <3>1. /\ pc[t] = "download" /\ pc'[t] = "check" /\ UNCHANGED installed
          /\ folder' = [folder EXCEPT ![StemOf[target[t]]] = target[t]] /\ target[t] \in Builds
      BY <1>0, <2>2 DEF Download, Goto, Working
    <3>2. folder'[StemOf[engine]] = engine
      <4>1. CASE engine = target[t]
        BY <1>0, <2>0, <3>1, <4>1
      <4>2. CASE engine # target[t]
        BY <1>0, <2>0, <3>1, <4>2 DEF NamesApart
      <4> QED
        BY <4>1, <4>2
    <3> QED
      BY <1>0, <2>0, <3>1, <3>2 DEF ServedInvariant, ServedFilesKept
  <2>3. CASE Install(t)
    <3>1. /\ pc[t] = "install" /\ pc'[t] = "clean" /\ UNCHANGED folder
          /\ keep'[t] = IF installed = None THEN {} ELSE {StemOf[installed]}
      BY <1>0, <2>3 DEF Install, Goto
    <3>2. engine = installed
      BY <1>3, <2>0, <3>1 DEF ServedInvariant
    <3> QED
      BY <1>0, <1>3, <2>0, <3>1, <3>2 DEF ServedInvariant, ServedFilesKept
  <2>4. CASE Clean(t)
    <3>1. /\ pc[t] = "clean" /\ pc'[t] = "switch" /\ folder' = Without(t, {})
      BY <1>0, <2>0, <2>4 DEF Clean, Goto
    <3>2. folder'[StemOf[engine]] = engine
      BY <1>3, <2>0, <3>1 DEF Without, ServedInvariant
    <3> QED
      BY <1>0, <2>0, <3>1, <3>2 DEF ServedInvariant, ServedFilesKept
  <2> QED
    BY <2>1, <2>2, <2>3, <2>4 DEF Forward, InstallFails
<1> QED
  BY <1>2, <1>3

LEMMA NextServed ==
  ASSUME NamesApart, ~DiskFails
  PROVE  TypeInvariant /\ FolderInvariant /\ ServedInvariant /\ [Next]_vars => ServedInvariant'
<1> SUFFICES ASSUME TypeInvariant, FolderInvariant, ServedInvariant, [Next]_vars
             PROVE  ServedInvariant'
  OBVIOUS
<1>0. /\ BrainTypes /\ pc \in [Threads -> Working \cup {"off", "rest"}]
      /\ "first" \in Threads /\ "watch" \in Threads
  BY DEF TypeInvariant, BrainTypes, Threads
<1>1. CASE UNCHANGED brainVars
  BY <1>1 DEF brainVars, ServedInvariant, ServedFilesKept
<1>2. ASSUME NEW t \in Threads, Forward(t) \/ FetchFails(t) \/ Refuse(t) \/ InstallFails(t)
      PROVE  ServedInvariant'
  BY <1>0, <1>2, ThreadKeepsServed
<1>3. CASE Switch
  <2>1. /\ pc["watch"] = "switch" /\ pc'["watch"] = "rest" /\ engine' = target["watch"]
        /\ UNCHANGED <<installed, folder, phase>>
    BY <1>0, <1>3 DEF Switch, Rest
  <2>2. installed = target["watch"] /\ folder[StemOf[target["watch"]]] = target["watch"]
    BY <1>0, <2>1 DEF FolderInvariant
  <2>3. phase = "serving"
    BY <2>1 DEF FolderInvariant, OneThread
  <2> QED
    BY <2>1, <2>2, <2>3 DEF ServedInvariant, ServedFilesKept
<1>4. CASE Start
  <2>1. /\ phase = "down" /\ pc'["watch"] = pc["watch"] /\ UNCHANGED <<installed, folder, engine, keep>>
    BY <1>0, <1>4 DEF Start
  <2> QED
    BY <2>1 DEF ServedInvariant, ServedFilesKept
<1>5. CASE Configure
  <2>1. /\ phase' = "serving" /\ engine' = installed /\ pc'["watch"] = "rest"
        /\ UNCHANGED <<installed, folder>>
    BY <1>0, <1>5 DEF Configure
  <2> QED
    BY <2>1 DEF ServedInvariant, ServedFilesKept, FolderInvariant, InstalledWhole
<1>6. CASE Wake
  <2>1. /\ pc["watch"] = "rest" /\ pc'["watch"] = "fetch"
        /\ UNCHANGED <<installed, folder, phase, engine>>
    BY <1>0, <1>6 DEF Wake, Goto
  <2> QED
    BY <2>1 DEF ServedInvariant, ServedFilesKept
<1>7. CASE Crash
  BY <1>7 DEF Crash, ServedInvariant, ServedFilesKept
<1> QED
  BY <1>1, <1>2, <1>3, <1>4, <1>5, <1>6, <1>7, StepsOfTwo DEF BrainStep, vars

LEMMA InitServed == Init => ServedInvariant
BY DEF Init, ServedInvariant, ServedFilesKept

\* The files of the release that answers questions stay in the folder until the engine has
\* been switched, however often releases come and are refused (install_release keeps what
\* it replaced).
THEOREM ServedFilesStay ==
  ASSUME NamesApart, ~SlowStart, ~DiskFails
  PROVE  Spec => []ServedFilesKept
<1>1. ServedInvariant => ServedFilesKept
  BY DEF ServedInvariant
<1> QED
  BY <1>1, InitTypes, NextTypes, InitFolder, NextFolder, InitServed, NextServed, PTL DEF Spec
=============================================================================
