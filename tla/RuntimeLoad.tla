---------------------------- MODULE RuntimeLoad ----------------------------
(***************************************************************************)
(* What the answer service loads (backend/main.py _ensure_loaded): the     *)
(* provenance is verified once for the process, then the collection, the   *)
(* text and the media of one generation are loaded, again at every request *)
(* until it succeeds.  The files are hashed when a snapshot is resolved    *)
(* (runtime_artifacts.py) and read later, while those of BuildRoot change. *)
(* Each generation has a collection of its own: its number stands for it.  *)
(***************************************************************************)
EXTENDS BuildRoot

CONSTANT MaxServiceStarts   \* bound of the starts (model checking only)

ASSUME ServiceAssumption == MaxServiceStarts \in Nat

VARIABLES loader, serviceStarts

loadVars == <<loader, serviceStarts>>

\* configured: the settings the process read when it started.  verdict:
\* _state["provenance"].  snapshot, hashed: the generation of the snapshot in
\* the making, and the stamps of what was hashed for it.  text, media: what was
\* read of it.
NoRows == [of |-> NoPointer, whole |-> TRUE, stamp |-> 0]

Loader0(of) ==
    [pc |-> "idle", configured |-> of, verdict |-> "none", snapshot |-> NoPointer,
     left |-> <<>>, hashed |-> [f \in BuildFiles |-> 0], text |-> NoRows,
     media |-> NoRows, loaded |-> FALSE]

LoaderAt(pc) == loader.pc = pc

\* resolve_runtime_artifact_snapshot: the generation whose files are hashed.
\* Without a pointer it is the installed legacy build.
Resolved == IF pointer = NoPointer THEN 0 ELSE pointer

\* An activated build: its manifest, its artifacts, and the manifests of the
\* activation that name them once more.
BuildOrder == <<"manifests", "children", "media", "manifests">>

\* Generation zero: the manifests of the build and of the bootstrap first.
GenerationZeroOrder == <<"manifests", "manifests", "children", "media">>

\* The installed build without a pointer: the baseline names its artifacts.
InstalledOrder == <<"manifests", "children", "media">>

\* verify_runtime reads the same of generation zero, and what it reads of the
\* files are counts, identifiers and the statistics of their indexes.
BaselineOrder == InstalledOrder

Hashing(l, g, order) ==
    [l EXCEPT !.pc = "hash", !.snapshot = g, !.left = order]

\* A file agrees with what its manifest, or the baseline, says of it.
Agrees(path) == intact[path]

\* A verification that finds an issue, or raises, is the verdict of the process;
\* a load that raises is tried again by the next request.
Refused(l) ==
    IF l.verdict = "none" THEN [l EXCEPT !.pc = "idle", !.verdict = "blocked"]
                          ELSE [l EXCEPT !.pc = "idle"]

-----------------------------------------------------------------------------
StartService ==
    /\ serviceStarts < MaxServiceStarts
    /\ serviceStarts' = serviceStarts + 1
    /\ loader' = Loader0(settings)

\* _ensure_loaded, called by each request.
EnsureLoaded ==
    /\ LoaderAt("idle")
    /\ loader.verdict # "blocked" /\ ~loader.loaded
    /\ loader' = [loader EXCEPT !.pc = IF loader.verdict = "none" THEN "verify"
                                                                  ELSE "vectorstore"]
    /\ UNCHANGED serviceStarts

\* verify_runtime reads the pointer; settings that name another generation are
\* an issue whatever else is found.
VerifyRuntime ==
    /\ LoaderAt("verify")
    /\ loader' = IF loader.configured # Resolved THEN Refused(loader)
                 ELSE IF pointer > 0 THEN [loader EXCEPT !.pc = "resolve"]
                 ELSE Hashing(loader, 0, BaselineOrder)
    /\ UNCHANGED serviceStarts

\* The snapshot reads the pointer for itself.
ResolveSnapshot ==
    /\ LoaderAt("resolve")
    /\ loader' = Hashing(loader, Resolved,
                         IF pointer > 0 THEN BuildOrder
                         ELSE IF pointer = 0 THEN GenerationZeroOrder
                         ELSE InstalledOrder)
    /\ UNCHANGED serviceStarts

\* Mutant of SameTuple: the snapshot is not compared with the settings.
AnyTuple(l) == TRUE

\* The collection of the pointer, the one of the settings and the one that was
\* opened are the same.
SameTuple(l) == l.snapshot = l.configured

HashFile ==
    LET file == Head(loader.left)
        path == <<loader.snapshot, file>>
        rest == Tail(loader.left)
        next == IF rest # <<>> THEN "hash"
                ELSE IF loader.verdict = "none" THEN "milvus" ELSE "text"
    IN /\ LoaderAt("hash")
       /\ loader' = IF ~Agrees(path) \/ (rest = <<>> /\ ~SameTuple(loader))
                    THEN Refused(loader)
                    ELSE [loader EXCEPT !.pc = next, !.left = rest,
                                        !.hashed[file] = stamp[path]]
       /\ UNCHANGED serviceStarts

\* The manifest is hashed again for what it says of the collection, and the
\* collection is compared with it.
VerifyMilvus ==
    /\ LoaderAt("milvus")
    /\ \/ loader' = Refused(loader)
       \/ /\ intact[<<loader.snapshot, "manifests">>]
          /\ loader' = [loader EXCEPT !.pc = "vectorstore", !.verdict = "pass"]
    /\ UNCHANGED serviceStarts

\* load_vectorstore: Milvus may not answer, or not have the collection.
LoadVectorstore ==
    /\ LoaderAt("vectorstore")
    /\ loader' \in {Refused(loader), [loader EXCEPT !.pc = "resolve"]}
    /\ UNCHANGED serviceStarts

Rows(g, file) ==
    [of |-> g, whole |-> intact[<<g, file>>], stamp |-> stamp[<<g, file>>]]

\* _load_huiji_children; a damaged file may not parse.
ReadText ==
    /\ LoaderAt("text")
    /\ LET rows == Rows(loader.snapshot, "children")
       IN \/ ~rows.whole /\ loader' = Refused(loader)
          \/ loader' = [loader EXCEPT !.pc = "media", !.text = rows]
    /\ UNCHANGED serviceStarts

\* Mutant of MediaSnapshot: the registry resolves a snapshot of its own.
OwnSnapshot(l) == Resolved

\* The registry takes the snapshot of the retriever.
MediaSnapshot(l) == l.snapshot

ReadMedia ==
    /\ LoaderAt("media")
    /\ LET rows == Rows(MediaSnapshot(loader), "media")
       IN \/ ~rows.whole /\ loader' = Refused(loader)
          \/ loader' = [loader EXCEPT !.pc = "idle", !.media = rows, !.loaded = TRUE]
    /\ UNCHANGED serviceStarts

LoadInit ==
    /\ loader = [Loader0(settings) EXCEPT !.verdict = "blocked"]
    /\ serviceStarts = 0

LoadNext ==
    \/ /\ \/ StartService \/ EnsureLoaded \/ VerifyRuntime \/ ResolveSnapshot
          \/ HashFile \/ VerifyMilvus \/ LoadVectorstore \/ ReadText \/ ReadMedia
       /\ UNCHANGED rootVars
    \/ RootNext /\ UNCHANGED loadVars

-----------------------------------------------------------------------------
(* Properties. *)

\* What a process answers from is one generation, that of the collection its
\* settings name, verified for this process; and of its text and media nothing
\* was damaged when it was hashed: a damaged row is served only of a file that
\* was written between the two (_ensure_loaded and what it calls).
ServedIsVerified ==
    loader.loaded =>
        /\ loader.verdict = "pass"
        /\ loader.text.of = loader.configured
        /\ loader.media.of = loader.configured
        /\ ~loader.text.whole => loader.text.stamp > loader.hashed["children"]
        /\ ~loader.media.whole => loader.media.stamp > loader.hashed["media"]
=============================================================================
