----------------------------- MODULE ShadowBuild -----------------------------
(***************************************************************************)
(* scripts/build_huiji_index.py: an operator fills one new collection of   *)
(* Milvus with the child blocks of a handoff, batch by batch, verifies     *)
(* what is in it and writes evidence, on which an activation relies.       *)
(* Nothing keeps two operators from naming the same collection: that it is *)
(* new is looked up once, and ensure_huiji_collection accepts one that is  *)
(* there.                                                                  *)
(*                                                                         *)
(* The handoff, its forbidden names and the runtime are files and stores   *)
(* that do not change; what they refuse is a build that fails.  A batch    *)
(* stands for its rows.  Milvus keeps a row as often as it is inserted.    *)
(***************************************************************************)
EXTENDS Naturals, FiniteSetsExt

CONSTANTS
    ShadowBuilders,   \* runs of the script, each with a run directory of its own
    Collections,      \* names of collections
    Serving,          \* the one the settings name at first
    Batches,          \* the child blocks, in batches numbered from 1
    MaxShadowFaults   \* bound of failures and kills (model checking only)

ASSUME ShadowAssumption ==
    /\ Serving \in Collections
    /\ IsFiniteSet(ShadowBuilders) /\ ShadowBuilders # {}
    /\ IsFiniteSet(Batches) /\ Batches # {} /\ Batches = 1 .. Cardinality(Batches)
    /\ MaxShadowFaults \in Nat

VARIABLES
    rows,            \* per name: whether it exists, and how often it has each batch
    unflushed,       \* how many of them no flush has covered
    settings,        \* the collection the settings name
    build,           \* where each run stands
    shadowEvidence,  \* shadow-build.v1.json of each run
    shadowFaults

shadowVars == <<rows, unflushed, settings, build, shadowEvidence, shadowFaults>>

Zero == [b \in Batches |-> 0]
Once == [b \in Batches |-> 1]

\* The rows of a collection, each copy a row of its own.
Rows(copies) == UNION {{b} \X (1 .. copies[b]) : b \in Batches}

\* late: what other runs inserted that the count of rows did not cover (history).
Build0 == [pc |-> "idle", target |-> Serving, before |-> Serving, next |-> 1,
           verdict |-> "failed", seen |-> {}, late |-> Zero]

BuildAt(r, pc) == build[r].pc = pc
BuildTo(r, pc) == build' = [build EXCEPT ![r].pc = pc]
Refuse(r) == BuildTo(r, "evidence")

ShadowFault == shadowFaults < MaxShadowFaults /\ shadowFaults' = shadowFaults + 1

-----------------------------------------------------------------------------
(* main up to the build: the active collection is never a target. *)
BeginBuild(r) ==
    /\ BuildAt(r, "idle")
    /\ \E target \in Collections :
          build' = [build EXCEPT ![r].target = target, ![r].before = settings,
                                 ![r].pc = IF target = settings THEN "evidence" ELSE "find"]
    /\ UNCHANGED <<rows, unflushed, settings, shadowEvidence, shadowFaults>>

\* Any call raises: verify_runtime, Milvus, or the embedding of a batch, once
\* its retries are used up.
BuildFails(r) ==
    /\ build[r].pc \in {"find", "ensure", "create", "insert", "read", "count"}
    /\ ShadowFault
    /\ Refuse(r)
    /\ UNCHANGED <<rows, unflushed, settings, shadowEvidence>>

\* build_huiji_shadow_collection: the name must be free.
FindTarget(r) ==
    /\ BuildAt(r, "find")
    /\ IF rows[build[r].target].exists THEN Refuse(r) ELSE BuildTo(r, "ensure")
    /\ UNCHANGED <<rows, unflushed, settings, shadowEvidence, shadowFaults>>

\* ensure_huiji_collection looks again, and is content with what is there.
EnsureCollection(r) ==
    /\ BuildAt(r, "ensure")
    /\ BuildTo(r, IF rows[build[r].target].exists THEN "insert" ELSE "create")
    /\ UNCHANGED <<rows, unflushed, settings, shadowEvidence, shadowFaults>>

\* create_collection of a name that was taken meanwhile, with the same
\* schema: Milvus lets it pass, and one that refuses is BuildFails.
CreateCollection(r) ==
    /\ BuildAt(r, "create")
    /\ rows' = [rows EXCEPT ![build[r].target].exists = TRUE]
    /\ BuildTo(r, "insert")
    /\ UNCHANGED <<unflushed, settings, shadowEvidence, shadowFaults>>

\* One batch is in the collection; the runs whose count is taken see it late.
Inserted(r) ==
    /\ BuildAt(r, "insert")
    /\ build[r].next \in Batches
    /\ LET t == build[r].target
           b == build[r].next
       IN /\ rows' = [rows EXCEPT ![t].copies[b] = @ + 1]
          /\ unflushed' = [unflushed EXCEPT ![t][b] = @ + 1]

CountTaken(o) == BuildAt(o, "settings") \/ build[o].verdict = "pass"

Known(r, pc) ==
    build' = [o \in ShadowBuilders |->
                IF o = r THEN [build[r] EXCEPT !.pc = pc, !.next = @ + 1]
                ELSE IF build[o].target = build[r].target /\ CountTaken(o)
                THEN [build[o] EXCEPT !.late[build[r].next] = @ + 1]
                ELSE build[o]]

InsertBatch(r) ==
    /\ Inserted(r)
    /\ Known(r, "insert")
    /\ UNCHANGED <<settings, shadowEvidence, shadowFaults>>

\* The batch is in, but the answer is lost and insert raises.
InsertAnswerLost(r) ==
    /\ ShadowFault
    /\ Inserted(r)
    /\ Known(r, "evidence")
    /\ UNCHANGED <<settings, shadowEvidence>>

\* A flush covers the whole collection, whoever inserted.
Flush(r) ==
    /\ BuildAt(r, "insert")
    /\ build[r].next \notin Batches
    /\ unflushed' = [unflushed EXCEPT ![build[r].target] = Zero]
    /\ BuildTo(r, "read")
    /\ UNCHANGED <<rows, settings, shadowEvidence, shadowFaults>>

-----------------------------------------------------------------------------
(* capture_milvus_fingerprint: the rows, then the statistics.  The iterator *)
(* returns an id once or every copy of it, and copies are refused.          *)
ReadRows(r) ==
    /\ BuildAt(r, "read")
    /\ LET copies == rows[build[r].target].copies
       IN \/ build' = [build EXCEPT ![r].pc = "count",
                                    ![r].seen = {b \in Batches : copies[b] > 0}]
          \/ /\ \E b \in Batches : copies[b] > 1
             /\ Refuse(r)
    /\ UNCHANGED <<rows, unflushed, settings, shadowEvidence, shadowFaults>>

\* Mutant of CountRows: the ids are compared and their number is not.
CountRowsById(r) ==
    /\ BuildAt(r, "count")
    /\ IF build[r].seen = Batches THEN BuildTo(r, "settings") ELSE Refuse(r)
    /\ UNCHANGED <<rows, unflushed, settings, shadowEvidence, shadowFaults>>

\* The statistics count the rows a flush covered, and may count the others.
CountRows(r) ==
    /\ BuildAt(r, "count")
    /\ LET t == build[r].target
       IN \E ignored \in {Zero, unflushed[t]} :
             LET counted == [b \in Batches |-> rows[t].copies[b] - ignored[b]]
             IN IF /\ Cardinality(Rows(counted)) = Cardinality(build[r].seen)
                   /\ build[r].seen = Batches
                THEN build' = [build EXCEPT ![r].pc = "settings", ![r].late = ignored]
                ELSE Refuse(r)
    /\ UNCHANGED <<rows, unflushed, settings, shadowEvidence, shadowFaults>>

\* The settings must be those the run began with.
CheckSettings(r) ==
    /\ BuildAt(r, "settings")
    /\ build' = [build EXCEPT ![r].pc = "evidence",
                              ![r].verdict = IF settings = build[r].before
                                             THEN "pass" ELSE "failed"]
    /\ UNCHANGED <<rows, unflushed, settings, shadowEvidence, shadowFaults>>

\* write_hash_pinned_json: the file, then the sidecar without which it is void.
WriteEvidence(r) ==
    /\ BuildAt(r, "evidence")
    /\ shadowEvidence' = [shadowEvidence EXCEPT ![r].verdict = build[r].verdict]
    /\ BuildTo(r, "seal")
    /\ UNCHANGED <<rows, unflushed, settings, shadowFaults>>

EndBuild(r) ==
    build' = [build EXCEPT ![r] = [Build0 EXCEPT !.pc = "ended", !.target = build[r].target,
                                                 !.verdict = build[r].verdict,
                                                 !.late = build[r].late]]

SealEvidence(r) ==
    /\ BuildAt(r, "seal")
    /\ shadowEvidence' = [shadowEvidence EXCEPT ![r].sealed = TRUE]
    /\ EndBuild(r)
    /\ UNCHANGED <<rows, unflushed, settings, shadowFaults>>

KillBuild(r) ==
    /\ build[r].pc \notin {"idle", "ended"}
    /\ ShadowFault
    /\ EndBuild(r)
    /\ UNCHANGED <<rows, unflushed, settings, shadowEvidence>>

-----------------------------------------------------------------------------
\* An activation, which has found the collection as the evidence says.
ActivateShadow ==
    /\ \E r \in ShadowBuilders :
          /\ shadowEvidence[r] = [verdict |-> "pass", sealed |-> TRUE]
          /\ rows[build[r].target].copies = Once
          /\ settings # build[r].target
          /\ settings' = build[r].target
    /\ UNCHANGED <<rows, unflushed, build, shadowEvidence, shadowFaults>>

ShadowStep(r) ==
    \/ BeginBuild(r) \/ FindTarget(r) \/ EnsureCollection(r) \/ CreateCollection(r)
    \/ InsertBatch(r) \/ InsertAnswerLost(r) \/ Flush(r)
    \/ ReadRows(r) \/ CountRows(r) \/ CheckSettings(r)
    \/ WriteEvidence(r) \/ SealEvidence(r)
    \/ BuildFails(r) \/ KillBuild(r)

ShadowNext == ActivateShadow \/ \E r \in ShadowBuilders : ShadowStep(r)

ShadowInit ==
    /\ rows = [c \in Collections |->
                 [exists |-> c = Serving, copies |-> IF c = Serving THEN Once ELSE Zero]]
    /\ unflushed = [c \in Collections |-> Zero]
    /\ settings = Serving
    /\ build = [r \in ShadowBuilders |-> Build0]
    /\ shadowEvidence = [r \in ShadowBuilders |-> [verdict |-> "none", sealed |-> FALSE]]
    /\ shadowFaults = 0

-----------------------------------------------------------------------------
ShadowTypeOK ==
    /\ \A c \in Collections :
          /\ rows[c].exists \in BOOLEAN
          /\ rows[c].copies \in [Batches -> 0 .. Cardinality(ShadowBuilders)]
          /\ unflushed[c] \in [Batches -> 0 .. Cardinality(ShadowBuilders)]
    /\ settings \in Collections
    /\ \A r \in ShadowBuilders :
          /\ build[r].target \in Collections
          /\ build[r].verdict \in {"pass", "failed"}
          /\ shadowEvidence[r].verdict \in {"none", "pass", "failed"}

(* Evidence of a pass stands for a collection in which every row is, once,  *)
(* but for the rows another run has inserted after the rows were counted or *)
(* not yet flushed then.  Of the runs that name one collection at most one  *)
(* passes, and none that fills the collection it began as active            *)
(* (build_huiji_shadow_collection, capture_milvus_fingerprint and the       *)
(* comparisons of main).                                                    *)
Passed == {r \in ShadowBuilders : build[r].verdict = "pass"}

ShadowTrue ==
    /\ ShadowTypeOK
    /\ \A r \in ShadowBuilders : shadowEvidence[r].verdict = "pass" => r \in Passed
    /\ \A r \in Passed : \A b \in Batches :
          rows[build[r].target].copies[b] = 1 + build[r].late[b]
    /\ \A r, o \in Passed : build[r].target = build[o].target => r = o
    /\ rows[Serving].copies = Once
==============================================================================
