---------------------------- MODULE GraphReader ----------------------------
(***************************************************************************)
(* The reader of a release folder that follows its pointer: GraphOnlyFacts *)
(* in retrieval/graph_store.py, used by many questions at once.            *)
(*                                                                         *)
(* Every publication gives the pointer file a new stamp (its time and      *)
(* size); the n-th stamp names the n-th release.  A question looks at the  *)
(* stamp, then at what is loaded, and loads the file itself when the two   *)
(* differ; between any two of these steps another question or a            *)
(* publication may come.                                                   *)
(***************************************************************************)
EXTENDS Integers

CONSTANTS
  Questions,    \* the questions that read the folder
  LastPointer   \* bound: publications during the model

VARIABLES
  pointer,    \* the stamp of the pointer file; 0 when there is none
  loaded,     \* _loaded: the stamp it was loaded for and the release of the file
  sidecar,    \* GraphOnlyFacts._meaning: a release and what index was kept for it
  loader,     \* who holds _lock, or NoReader
  readings    \* where each question is

readerVars == <<pointer, loaded, sidecar, loader, readings>>

NoReader == "nobody"
NoGraph == [key |-> 0, release |-> 0, broken |-> FALSE]
NoSidecar == [path |-> 0, index |-> 0]

\* began and key are stamps, got the release the question reads from, index the
\* release of the meaning index it was given (0: none).
Idle == [at |-> "idle", began |-> 0, key |-> 0, target |-> 0, got |-> 0, index |-> 0]

Begun == [at |-> "looked", began |-> pointer, key |-> pointer, target |-> 0, got |-> 0, index |-> 0]

Fits(key) == loaded # NoGraph /\ loaded.key = key /\ ~loaded.broken

Move(q, reading) == readings' = [readings EXCEPT ![q] = reading]
Locked(q) == loader = NoReader /\ loader' = q

-----------------------------------------------------------------------------
\* A slip: the stamp is looked at once the file has been opened.
StampLate(key) == pointer

\* The stamp a loaded file is kept under: the one seen before the pointer was read.
Stamp(key) == key

\* The pointer file is looked at; without one the question fails and what is
\* loaded is dropped.
LookAt(q) ==
  /\ readings[q].at = "idle"
  /\ IF pointer = 0
     THEN loaded' = NoGraph /\ UNCHANGED readings
     ELSE /\ Move(q, Begun)
          /\ UNCHANGED loaded
  /\ UNCHANGED <<pointer, sidecar, loader>>

\* What is loaded for that stamp is used at once.
UseLoaded(q) ==
  /\ readings[q].at = "looked"
  /\ Move(q, IF Fits(readings[q].key)
             THEN [readings[q] EXCEPT !.at = "reads", !.got = loaded.release]
             ELSE [readings[q] EXCEPT !.at = "queues"])
  /\ UNCHANGED <<pointer, loaded, sidecar, loader>>

\* The lock is taken; another question may have loaded the file meanwhile.
Open(q) ==
  /\ readings[q].at = "queues"
  /\ IF Fits(readings[q].key)
     THEN /\ loader = NoReader
          /\ Move(q, [readings[q] EXCEPT !.at = "reads", !.got = loaded.release])
          /\ UNCHANGED loader
     ELSE /\ Locked(q)
          /\ Move(q, [readings[q] EXCEPT !.at = "opens", !.target = pointer])
  /\ UNCHANGED <<pointer, loaded, sidecar>>

\* The file the pointer named opens and is the release the pointer said.
Opened(q) ==
  /\ readings[q].at = "opens"
  /\ readings[q].target # 0
  /\ loaded' = [key |-> Stamp(readings[q].key), release |-> readings[q].target, broken |-> FALSE]
  /\ loader' = NoReader
  /\ Move(q, [readings[q] EXCEPT !.at = "reads", !.got = readings[q].target])
  /\ UNCHANGED <<pointer, sidecar>>

\* The pointer is gone or malformed, the file was cleaned away or is damaged.
OpenFailed(q) ==
  /\ readings[q].at = "opens"
  /\ loaded' = NoGraph
  /\ loader' = NoReader
  /\ Move(q, Idle)
  /\ UNCHANGED <<pointer, sidecar>>

\* A read of the file fails: whoever comes next opens it again.
ReadFails(q) ==
  /\ readings[q].at = "reads"
  /\ loaded' = IF loaded.release = readings[q].got THEN [loaded EXCEPT !.broken = TRUE] ELSE loaded
  /\ Move(q, Idle)
  /\ UNCHANGED <<pointer, sidecar, loader>>

\* The meaning index beside the file: kept for this file, or loaded under the same
\* lock; one that says it belongs to another release is no index.
Index(q) ==
  /\ readings[q].at = "reads"
  /\ \/ /\ sidecar.path = readings[q].got
        /\ Move(q, [readings[q] EXCEPT !.at = "indexed", !.index = sidecar.index])
        /\ UNCHANGED <<sidecar, loader>>
     \/ /\ sidecar.path # readings[q].got
        /\ Locked(q)
        /\ Move(q, [readings[q] EXCEPT !.at = "indexes"])
        /\ UNCHANGED sidecar
  /\ UNCHANGED <<pointer, loaded>>

Indexed(q) ==
  /\ readings[q].at = "indexes"
  /\ \E index \in {0, readings[q].got} :
       /\ sidecar' = [path |-> readings[q].got, index |-> index]
       /\ Move(q, [readings[q] EXCEPT !.at = "indexed", !.index = index])
  /\ loader' = NoReader
  /\ UNCHANGED <<pointer, loaded>>

Answered(q) ==
  /\ readings[q].at \in {"reads", "indexed"}
  /\ Move(q, Idle)
  /\ UNCHANGED <<pointer, loaded, sidecar, loader>>

\* A publisher renames the new pointer into place.
Publish ==
  /\ pointer < LastPointer
  /\ pointer' = pointer + 1
  /\ UNCHANGED <<loaded, sidecar, loader, readings>>

ReaderInit ==
  /\ pointer = 0
  /\ loaded = NoGraph
  /\ sidecar = NoSidecar
  /\ loader = NoReader
  /\ readings = [q \in Questions |-> Idle]

ReaderNext ==
  \/ \E q \in Questions :
       \/ LookAt(q) \/ UseLoaded(q) \/ Open(q) \/ Opened(q) \/ OpenFailed(q)
       \/ ReadFails(q) \/ Index(q) \/ Indexed(q) \/ Answered(q)
  \/ Publish

ReaderSpec == ReaderInit /\ [][ReaderNext]_readerVars

-----------------------------------------------------------------------------
\* "A newly published release is served from the next question on": whatever loads
\* race with the publication, a question reads a release no older than the one
\* published when it began, and an index of no other release than its facts.
ServesFromNextQuestion ==
  \A q \in Questions :
    readings[q].got # 0 =>
      readings[q].got >= readings[q].began /\ readings[q].index \in {0, readings[q].got}
=============================================================================
