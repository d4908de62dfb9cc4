------------------------------ MODULE BuildRoot ------------------------------
(***************************************************************************)
(* The directory of the corpus builds (data/processed/huiji) as the answer *)
(* service finds it: the active pointer, the settings a process starts     *)
(* with, and the files of each generation.  An activation replaces the     *)
(* settings and then the pointer, a rollback both again; a copy of the     *)
(* data directory may damage a file, or put it back.                       *)
(*                                                                         *)
(* Every write gives a path a new stamp: device, inode, size and the two   *)
(* times of lstat, of which ctime cannot be set back.  Stamps being new, a *)
(* pass over the stamps of several paths shows what a reading at one       *)
(* instant shows, or differs from every other pass; passes are one step.   *)
(***************************************************************************)
EXTENDS Integers, Sequences, FiniteSets

CONSTANTS
    LastGeneration,   \* generations 0 (the installed dev build) .. LastGeneration
    MaxRootWrites     \* bound of the writes (model checking only)

ASSUME BuildRootAssumption == LastGeneration \in Nat /\ MaxRootWrites \in Nat

VARIABLES
    pointer,      \* the generation of active_build.v1.json, or NoPointer
    settings,     \* the generation whose build and collection .env names
    intact,       \* which files of each generation are as they were built
    stamp,        \* the last write of each path
    rootWrites

rootVars == <<pointer, settings, intact, stamp, rootWrites>>

NoPointer == -1
Generations == 0 .. LastGeneration

\* manifests: the build manifest, the collection manifest and the deployment
\* inventory; children and media stand for the artifacts.
BuildFiles == {"manifests", "children", "media"}
PointerPath == <<NoPointer, "pointer">>
RootPaths == {PointerPath} \cup Generations \X BuildFiles

RootTypeOK ==
    /\ pointer \in Generations \cup {NoPointer}
    /\ settings \in Generations
    /\ intact \in [Generations \X BuildFiles -> BOOLEAN]
    /\ stamp \in [RootPaths -> 0 .. MaxRootWrites]
    /\ rootWrites \in 0 .. MaxRootWrites

RootWrite ==
    /\ rootWrites < MaxRootWrites
    /\ rootWrites' = rootWrites + 1

\* os.replace of the settings, first, ...
ReplaceSettings ==
    /\ RootWrite
    /\ \E g \in Generations \ {settings} : settings' = g
    /\ UNCHANGED <<pointer, intact, stamp>>

\* ... and of the pointer.  Generation zero is created by the bootstrap.
ReplacePointer ==
    /\ RootWrite
    /\ \E g \in Generations \ {pointer} :
          /\ pointer = NoPointer => g = 0
          /\ pointer' = g
    /\ stamp' = [stamp EXCEPT ![PointerPath] = rootWrites']
    /\ UNCHANGED <<settings, intact>>

\* A file is cut short, lost or overwritten, or copied again.
WriteBuildFile ==
    /\ RootWrite
    /\ \E p \in Generations \X BuildFiles :
          /\ intact' = [intact EXCEPT ![p] = ~@]
          /\ stamp' = [stamp EXCEPT ![p] = rootWrites']
    /\ UNCHANGED <<pointer, settings>>

RootInit ==
    /\ pointer \in Generations \cup {NoPointer}
    /\ settings = IF pointer = NoPointer THEN 0 ELSE pointer
    /\ intact = [p \in Generations \X BuildFiles |-> TRUE]
    /\ stamp = [p \in RootPaths |-> 0]
    /\ rootWrites = 0

RootNext == ReplaceSettings \/ ReplacePointer \/ WriteBuildFile
=============================================================================
