------------------------------ MODULE Releases ------------------------------
(***************************************************************************)
(* How a new data release reaches the students: the daily data run puts it *)
(* in a file store (publish in graph_sync.py), production's Brain follows  *)
(* the store (GraphFollower, Releases in api/releases.py) and switches to  *)
(* the release once it was downloaded, checked, read and installed.        *)
(*                                                                         *)
(* Two threads of the Brain run the same steps on the same folder: the     *)
(* first download before the server takes questions, and the watcher.  The *)
(* server stops waiting for the first download after FIRST_SYNC_SECONDS,   *)
(* but the thread goes on.  The publisher and the Brain may die between    *)
(* any two steps; the store and the folder's disk may refuse any of them.  *)
(*                                                                         *)
(* The files of one release are one name (its stem) and one content (the   *)
(* release itself, which its sha256 identifies).  Two builds of one        *)
(* dataset, say one with a relabelled meaning index, share the stem.       *)
(***************************************************************************)
EXTENDS Integers, FiniteSets

CONSTANTS
  Builds,     \* releases the data run builds, told apart by release_key
  Good,       \* those that open and pass their checks
  Stems,      \* file names without their suffixes
  StemOf,     \* the stem of each release
  SlowStart,  \* may the first download outlast FIRST_SYNC_SECONDS
  DiskFails,  \* may the folder's disk refuse a write or a removal
  None        \* no release

ASSUME ReleasesAssumption ==
  /\ Good \subseteq Builds
  /\ StemOf \in [Builds -> Stems]
  /\ SlowStart \in BOOLEAN
  /\ DiskFails \in BOOLEAN
  /\ None \notin Builds

VARIABLES
  active,     \* the release the store's pointer names
  previous,   \* the pointer's list of the files of the release before it
  stored,     \* the store's files: the content under each stem
  publisher,  \* the step of the data run and the release it shares
  displaced,  \* history: the release the store's pointer named before
  installed,  \* the release the folder's pointer names
  folder,     \* the folder's files: the content under each stem
  phase,      \* the Brain process
  engine,     \* the release of state.engine; None reads the folder's pointer
  refused,    \* Releases.refused
  pc,         \* where each of its two threads is
  target,     \* the release each of them works on
  keep        \* the stem of the release an install replaces

storeVars == <<active, previous, stored, publisher, displaced>>
brainVars == <<installed, folder, phase, engine, refused, pc, target, keep>>
vars == <<storeVars, brainVars>>

Maybe == Builds \cup {None}
Threads == {"first", "watch"}

-----------------------------------------------------------------------------
(***************************************************************************)
(* The data run.                                                           *)
(***************************************************************************)
Publisher == [step: {"idle", "files", "pointer", "clear"}, release: Maybe,
              older: SUBSET Stems]
NoRun == [step |-> "idle", release |-> None, older |-> {}]

At(step) == publisher.step = step

\* A slip: the pointer goes first.
BeginWithPointer(r) ==
  /\ At("idle")
  /\ publisher' = [step |-> "pointer", release |-> r, older |-> {}]
  /\ UNCHANGED <<active, previous, stored, displaced, brainVars>>

Begin(r) ==
  /\ At("idle")
  /\ publisher' = [step |-> "files", release |-> r, older |-> {}]
  /\ UNCHANGED <<active, previous, stored, displaced, brainVars>>

\* A file the pointer lists with the same sha256 is not sent again.
PutFiles ==
  /\ At("files")
  /\ stored' = [stored EXCEPT ![StemOf[publisher.release]] =
                  IF active = publisher.release THEN @ ELSE publisher.release]
  /\ publisher' = [publisher EXCEPT !.step = "pointer"]
  /\ UNCHANGED <<active, previous, displaced, brainVars>>

\* The files the pointer lists and the new release does not have.
Before ==
  IF active = None THEN {} ELSE {StemOf[active]} \ {StemOf[publisher.release]}

\* A slip: sharing a release again forgets the one before it.
PutPointerForgetting ==
  /\ At("pointer")
  /\ active' = publisher.release
  /\ previous' = Before
  /\ displaced' = IF active = publisher.release THEN displaced ELSE active
  /\ publisher' = [publisher EXCEPT !.step = "clear", !.older = previous]
  /\ UNCHANGED <<stored, brainVars>>

PutPointer ==
  /\ At("pointer")
  /\ active' = publisher.release
  /\ previous' = IF Before # {} THEN Before ELSE previous
  /\ displaced' = IF active = publisher.release THEN displaced ELSE active
  /\ publisher' = [publisher EXCEPT !.step = "clear", !.older = previous]
  /\ UNCHANGED <<stored, brainVars>>

\* The release before the one before goes.
ClearStore ==
  /\ At("clear")
  /\ LET kept == {StemOf[active]} \cup previous
     IN  stored' = [s \in Stems |-> IF s \in publisher.older \ kept THEN None
                                    ELSE stored[s]]
  /\ publisher' = NoRun
  /\ UNCHANGED <<active, previous, displaced, brainVars>>

\* The store refuses a request, or the run dies.
PublishFails ==
  /\ ~At("idle")
  /\ publisher' = NoRun
  /\ UNCHANGED <<active, previous, stored, displaced, brainVars>>

-----------------------------------------------------------------------------
(***************************************************************************)
(* A thread that looks for a newer release.                                *)
(***************************************************************************)
Working == {"fetch", "download", "check", "install", "clean", "switch"}

\* What questions are answered from.
Serves == IF engine = None THEN installed ELSE engine

Rest(t) == pc' = [pc EXCEPT ![t] = "rest"]
Goto(t, step) == pc' = [pc EXCEPT ![t] = step]

\* A slip: a folder that has a release is up to date.
FetchOnce(t) ==
  /\ pc[t] = "fetch"
  /\ active # None
  /\ target' = [target EXCEPT ![t] = active]
  /\ IF installed # None THEN Rest(t) ELSE Goto(t, "download")
  /\ UNCHANGED <<storeVars, installed, folder, phase, engine, refused, keep>>

\* download, up to the decision whether anything is new.  Only the watcher skips
\* a release it refused.
Fetch(t) ==
  /\ pc[t] = "fetch"
  /\ active # None
  /\ target' = [target EXCEPT ![t] = active]
  /\ \/ /\ \/ t = "watch" /\ active = refused
           \/ active = installed /\ folder[StemOf[active]] # None
        /\ Rest(t)
     \/ /\ ~(t = "watch" /\ active = refused)
        /\ ~(active = installed /\ folder[StemOf[active]] = active)
        /\ Goto(t, "download")
  /\ UNCHANGED <<storeVars, installed, folder, phase, engine, refused, keep>>

\* No pointer, an error status, a broken connection.
FetchFails(t) ==
  /\ pc[t] \in {"fetch", "download"}
  /\ Rest(t)
  /\ UNCHANGED <<storeVars, installed, folder, phase, engine, refused, target, keep>>

\* Each file goes in once its bytes have the listed sha256; one already here with
\* that sha256 is not fetched.
Download(t) ==
  /\ pc[t] = "download"
  /\ target[t] \in {folder[StemOf[target[t]]], stored[StemOf[target[t]]]}
  /\ folder' = [folder EXCEPT ![StemOf[target[t]]] = target[t]]
  /\ Goto(t, "check")
  /\ UNCHANGED <<storeVars, installed, phase, engine, refused, target, keep>>

\* A slip: what was downloaded is taken to be good.
CheckNothing(t) ==
  /\ pc[t] = "check"
  /\ IF t = "watch" /\ target[t] \in {engine, refused} THEN Rest(t) ELSE Goto(t, "install")
  /\ UNCHANGED <<storeVars, installed, folder, phase, engine, refused, target, keep>>

\* checked_release opens the file of that name; the watcher does not look again
\* at a release it serves or refused.  Then its lists are read (warm).
Check(t) ==
  /\ pc[t] = "check"
  /\ IF t = "watch" /\ target[t] \in {engine, refused}
     THEN Rest(t)
     ELSE folder[StemOf[target[t]]] \in Good /\ Goto(t, "install")
  /\ UNCHANGED <<storeVars, installed, folder, phase, engine, refused, target, keep>>

\* Any failure to open, check or read it refuses the release.
Refuse(t) ==
  /\ pc[t] = "check"
  /\ ~(t = "watch" /\ target[t] \in {engine, refused})
  /\ refused' = target[t]
  /\ Rest(t)
  /\ UNCHANGED <<storeVars, installed, folder, phase, engine, target, keep>>

\* install_release: the pointer is renamed into place.
Install(t) ==
  /\ pc[t] = "install"
  /\ keep' = [keep EXCEPT ![t] = IF installed = None THEN {} ELSE {StemOf[installed]}]
  /\ installed' = target[t]
  /\ Goto(t, "clean")
  /\ UNCHANGED <<storeVars, folder, phase, engine, refused, target>>

\* A slip: the files of the release it replaced are all an install keeps.
WithoutNew(t, left) ==
  [s \in Stems |-> IF s \in keep[t] \cup left THEN folder[s] ELSE None]

\* The folder without the files of releases other than the new one and the one it
\* replaced, those in left excepted.
Without(t, left) ==
  [s \in Stems |-> IF s \in keep[t] \cup {StemOf[target[t]]} \cup left THEN folder[s]
                   ELSE None]

\* A slip: only the new release's own files are kept.
CleanAll(t) ==
  /\ pc[t] = "clean"
  /\ folder' = [s \in Stems |-> IF s = StemOf[target[t]] THEN folder[s] ELSE None]
  /\ IF t = "watch" THEN Goto(t, "switch") ELSE Rest(t)
  /\ UNCHANGED <<storeVars, installed, phase, engine, refused, target, keep>>

\* The marker is written and the other releases' files are removed.
Clean(t) ==
  /\ pc[t] = "clean"
  /\ folder' = Without(t, {})
  /\ IF t = "watch" THEN Goto(t, "switch") ELSE Rest(t)
  /\ UNCHANGED <<storeVars, installed, phase, engine, refused, target, keep>>

\* The disk refuses the pointer, the marker or a removal: install returns False.
InstallFails(t) ==
  /\ DiskFails
  /\ \/ pc[t] = "install" /\ UNCHANGED folder
     \/ pc[t] = "clean" /\ \E left \in SUBSET Stems : folder' = Without(t, left)
  /\ Rest(t)
  /\ UNCHANGED <<storeVars, installed, phase, engine, refused, target, keep>>

Switch ==
  /\ pc["watch"] = "switch"
  /\ engine' = target["watch"]
  /\ Rest("watch")
  /\ UNCHANGED <<storeVars, installed, folder, phase, refused, target, keep>>

-----------------------------------------------------------------------------
(***************************************************************************)
(* The process.                                                            *)
(***************************************************************************)
Start ==
  /\ phase = "down"
  /\ phase' = "starting"
  /\ pc' = [pc EXCEPT !["first"] = "fetch"]
  /\ UNCHANGED <<storeVars, installed, folder, engine, refused, target, keep>>

\* The engine opens what the folder's pointer names once the first download is
\* over, or the server stopped waiting for it; then the watcher starts.
Configure ==
  /\ phase = "starting"
  /\ SlowStart \/ pc["first"] = "rest"
  /\ phase' = "serving"
  /\ engine' = installed
  /\ pc' = [pc EXCEPT !["watch"] = "rest"]
  /\ UNCHANGED <<storeVars, installed, folder, refused, target, keep>>

\* FOLLOW_SECONDS after a check, RETRY_SECONDS after one that failed.
Wake ==
  /\ phase = "serving"
  /\ pc["watch"] = "rest"
  /\ Goto("watch", "fetch")
  /\ UNCHANGED <<storeVars, installed, folder, phase, engine, refused, target, keep>>

\* A slip: the threads of a stopped server run on.
CrashLeavingThreads ==
  /\ phase # "down"
  /\ phase' = "down"
  /\ engine' = None
  /\ refused' = None
  /\ UNCHANGED <<storeVars, installed, folder, pc, target, keep>>

\* The process is stopped or dies; what it held in memory is gone.
Crash ==
  /\ phase # "down"
  /\ phase' = "down"
  /\ engine' = None
  /\ refused' = None
  /\ pc' = [t \in Threads |-> "off"]
  /\ target' = [t \in Threads |-> None]
  /\ keep' = [t \in Threads |-> {}]
  /\ UNCHANGED <<storeVars, installed, folder>>

Init ==
  /\ active = None /\ previous = {} /\ displaced = None
  /\ stored = [s \in Stems |-> None]
  /\ publisher = NoRun
  /\ installed = None
  /\ folder = [s \in Stems |-> None]
  /\ phase = "down" /\ engine = None /\ refused = None
  /\ pc = [t \in Threads |-> "off"]
  /\ target = [t \in Threads |-> None]
  /\ keep = [t \in Threads |-> {}]

Publish == (\E r \in Builds : Begin(r)) \/ PutFiles \/ PutPointer \/ ClearStore

\* The steps of a check when store, disk and release let it go on.
Forward(t) == Fetch(t) \/ Download(t) \/ Check(t) \/ Install(t) \/ Clean(t)

Next ==
  \/ Publish \/ PublishFails
  \/ \E t \in Threads :
       Forward(t) \/ FetchFails(t) \/ Refuse(t) \/ InstallFails(t)
  \/ Switch
  \/ Start \/ Configure \/ Wake \/ Crash

Spec == Init /\ [][Next]_vars

\* The threads run, and a step that is tried again and again succeeds some day.
Fairness ==
  /\ WF_vars(Configure) /\ WF_vars(Wake) /\ WF_vars(Switch)
  /\ \A t \in Threads :
       /\ SF_vars(Fetch(t)) /\ SF_vars(Download(t)) /\ SF_vars(Check(t))
       /\ SF_vars(Install(t)) /\ SF_vars(Clean(t))

FairSpec == Spec /\ Fairness

-----------------------------------------------------------------------------
(***************************************************************************)
(* Properties.                                                             *)
(***************************************************************************)
\* No thread outlives its process, and none is at work without a release.
ReleasesTypeOK ==
  /\ active \in Maybe /\ displaced \in Maybe
  /\ previous \subseteq Stems
  /\ stored \in [Stems -> Maybe]
  /\ publisher \in Publisher
  /\ installed \in Maybe
  /\ folder \in [Stems -> Maybe]
  /\ phase \in {"down", "starting", "serving"}
  /\ engine \in Maybe /\ refused \in Maybe
  /\ pc \in [Threads -> Working \cup {"off", "rest"}]
  /\ target \in [Threads -> Maybe]
  /\ keep \in [Threads -> SUBSET Stems]
  /\ \A t \in Threads :
       /\ phase = "down" => pc[t] = "off"
       /\ pc[t] \in Working \ {"fetch"} => target[t] \in Builds

\* "A reader sees the old release or the whole new one": the store holds every
\* file its pointer lists, whatever step the data run died in.
StoreWhole == active # None => stored[StemOf[active]] = active

\* "A Brain mid-download of the old one still finds its files": the release the
\* pointer named before is in the store, as long as only one came after it,
\* however often that one was shared again.
OldStillThere == displaced # None => stored[StemOf[displaced]] = displaced

\* The folder's pointer names a release whose files are all here, each with its
\* sha256, whatever step a process died in.
InstalledWhole == installed # None => folder[StemOf[installed]] = installed

\* A release that fails to open or pass its checks is never served, across
\* refusals, failed installs and restarts.
ServedIsGood == phase = "serving" /\ Serves # None => Serves \in Good

\* The files of the release that answers questions are in the folder: an install
\* leaves the ones a running Brain may still be reading.
ServedFilesKept == engine # None => folder[StemOf[engine]] = engine

\* The Brain ends up on the store's release once that no longer changes, unless
\* it was refused.
NewestServed ==
  \A r \in Builds :
    <>[](active = r /\ phase # "down" /\ refused # r) => <>[](Serves = r)

\* A release that was installed but not switched to is tried again.
InstalledIsServed ==
  \A r \in Builds :
    (phase = "serving" /\ installed = r /\ active = r)
      ~> (Serves = r \/ active # r \/ refused = r \/ phase = "down")
=============================================================================
