----------------------------- MODULE MediaUpload -----------------------------
(***************************************************************************)
(* minio-plan and minio-upload of scripts/build_huiji_evb.py with the      *)
(* strict uploader of src/huiji_rag/minio_strict.py: the objects missing   *)
(* from the bucket are planned from an inventory, and uploaded once, each  *)
(* only if its key is still free, with a report an after inventory         *)
(* confirms.  Several operators may run the upload of the same plan.       *)
(*                                                                         *)
(* The command plans missing objects only, so every disposition is         *)
(* conditional_create; the read back of objects planned as same_hash_skip  *)
(* serves callers of the library and is left out, as are the capability    *)
(* and provenance documents, which are compared before anything happens.   *)
(***************************************************************************)
EXTENDS Bucket

CONSTANTS
    Uploaders,   \* runs of minio-upload, which are also their operation ids
    Approved     \* the keys the build manifest names

ASSUME UploadAssumption ==
    /\ Uploaders \subseteq Observers
    /\ Uploaders \subseteq Operations \ {"restore", "nobody"}
    /\ Approved \subseteq MediaKeys

VARIABLES
    uploadPlan,  \* the operation plan, or that there is none yet
    marker,      \* minio_operation_plan.use.v1.json: the operation that used it
    report,      \* minio_write_report.v1.json
    uploader,    \* where each run stands
    sources      \* whether the local files still have the approved content

uploadVars == <<uploadPlan, marker, report, uploader, sources>>

NoPlan == [before |-> NoInventory.seen, missing |-> {}]
NoReport == [op |-> "none", status |-> "none", evidence |-> [k \in MediaKeys |-> "none"]]

Outcome == {"none", "uploaded", "hash_mismatch", "failed", "concurrency_conflict"}

Run0 == [pc |-> "idle", inv |-> NoInventory, status |-> "uploaded",
         evidence |-> [k \in MediaKeys |-> "none"]]

UploaderAt(u, pc) == uploader[u].pc = pc
UploaderTo(u, pc) == uploader' = [uploader EXCEPT ![u].pc = pc]
End(u) == uploader' = [uploader EXCEPT ![u] = [Run0 EXCEPT !.pc = "ended"]]

-----------------------------------------------------------------------------
(* The plan: what the inventory lacks.  An object whose content differs     *)
(* from the approved one, or nothing to upload, refuses the plan.  The plan *)
(* depends on the bucket only through the inventory, so one step takes both.*)
Missing == Approved \ Present

MakePlan ==
    /\ uploadPlan = NoPlan
    /\ \A k \in Approved \cap Present : bucket[k].body = "approved"
    /\ Missing # {}
    /\ sources = "approved"
    /\ uploadPlan' = [before |-> bucket, missing |-> Missing]
    /\ UNCHANGED <<bucketVars, marker, report, uploader, sources>>

(* prepare_upload_inputs, and the listing of the current inventory. *)
StartUpload(u) ==
    /\ UploaderAt(u, "idle")
    /\ uploadPlan # NoPlan
    /\ report = NoReport
    /\ sources = "approved"
    /\ uploader' = [uploader EXCEPT ![u] = [Run0 EXCEPT !.pc = "current", !.inv = Listed]]
    /\ UNCHANGED <<bucketVars, uploadPlan, marker, report, sources>>

\* An object that is gone when it is read fails the inventory (NoSuchKey).
CaptureCurrent(u) ==
    /\ UploaderAt(u, "current")
    /\ uploader[u].inv.todo # {}
    /\ IF bucket[NextListed(uploader[u].inv)] = NoObject
       THEN End(u)
       ELSE uploader' = [uploader EXCEPT ![u].inv = ReadObject(@)]
    /\ UNCHANGED <<bucketVars, uploadPlan, marker, report, sources>>

(* load_and_claim_operation_plan: the bucket must be as the plan found it,  *)
(* and the marker is created only if no operation created it.              *)
Claim(u) ==
    /\ UploaderAt(u, "current")
    /\ uploader[u].inv.todo = {}
    /\ IF uploader[u].inv.seen = uploadPlan.before /\ marker = "none"
       THEN marker' = u /\ uploader' = [uploader EXCEPT ![u].pc = "freeze",
                                                        ![u].inv = NoInventory]
       ELSE End(u) /\ UNCHANGED marker
    /\ UNCHANGED <<bucketVars, uploadPlan, report, sources>>

NextObject(u) == Min({k \in uploadPlan.missing : uploader[u].evidence[k] = "none"})

\* The sequence stops at the first object that fails.
Stop(u, k, outcome, status) ==
    uploader' = [uploader EXCEPT ![u].pc = "list", ![u].status = status,
                                 ![u].evidence[k] = outcome]

(* upload_sequence reads and checks every local file before the first write. *)
Freeze(u) ==
    /\ UploaderAt(u, "freeze")
    /\ IF sources = "approved"
       THEN UploaderTo(u, "put")
       ELSE \E k \in uploadPlan.missing : Stop(u, k, "hash_mismatch", "failed")
    /\ UNCHANGED <<bucketVars, uploadPlan, marker, report, sources>>

-----------------------------------------------------------------------------
(* PUT with If-None-Match: *. *)
Uploading(u) ==
    UploaderAt(u, "put") /\ \E k \in uploadPlan.missing : uploader[u].evidence[k] = "none"

Created(u, k) == bucket[k] = NoObject /\ Change(k, [body |-> "approved", op |-> u], u)

PutCreates(u) ==
    /\ Uploading(u)
    /\ Created(u, NextObject(u))
    /\ UploaderTo(u, "readback")
    /\ UNCHANGED <<foreign, mediaFaults, uploadPlan, marker, report, sources>>

PutConflicts(u) ==
    /\ Uploading(u)
    /\ bucket[NextObject(u)] # NoObject
    /\ Stop(u, NextObject(u), "concurrency_conflict", "concurrency_conflict")
    /\ UNCHANGED <<bucketVars, uploadPlan, marker, report, sources>>

\* The server refuses.  map_s3_error calls some errors blocked and the rest
\* failed, which decides nothing; failed stands for both.
PutRefused(u) ==
    /\ Uploading(u)
    /\ BucketFault
    /\ Stop(u, NextObject(u), "failed", "failed")
    /\ UNCHANGED <<bucket, changed, foreign, uploadPlan, marker, report, sources>>

(* The answer to a PUT that was executed is lost.  The client library       *)
(* repeats the request, which then finds its own object, or gives up with   *)
(* an error that none of the handlers names, and the command ends.          *)
PutAnswerLost(u) ==
    /\ Uploading(u)
    /\ BucketFault
    /\ Created(u, NextObject(u))
    /\ \/ Stop(u, NextObject(u), "concurrency_conflict", "concurrency_conflict")
       \/ End(u)
    /\ UNCHANGED <<foreign, uploadPlan, marker, report, sources>>

\* verify_readback: the content under the key is the one that was sent.
ReadBack(u) ==
    /\ UploaderAt(u, "readback")
    /\ LET k == NextObject(u)
       IN CASE bucket[k] = NoObject -> Stop(u, k, "failed", "failed")
            [] bucket[k] # NoObject /\ bucket[k].body # "approved" ->
                 Stop(u, k, "hash_mismatch", "failed")
            [] OTHER -> uploader' = [uploader EXCEPT ![u].pc = "put",
                                                     ![u].evidence[k] = "uploaded"]
    /\ UNCHANGED <<bucketVars, uploadPlan, marker, report, sources>>

\* The object is there, but reading it back raises.
ReadBackFails(u) ==
    /\ UploaderAt(u, "readback")
    /\ BucketFault
    /\ Stop(u, NextObject(u), "failed", "failed")
    /\ UNCHANGED <<bucket, changed, foreign, uploadPlan, marker, report, sources>>

-----------------------------------------------------------------------------
(* The after inventory, whatever the sequence came to.  From its listing on *)
(* changes of others are its business no more: changed forgets the earlier. *)
ListAfter(u) ==
    /\ \/ UploaderAt(u, "list")
       \/ UploaderAt(u, "put") /\ ~Uploading(u)
    /\ \/ /\ uploader' = [uploader EXCEPT ![u].pc = "after", ![u].inv = Listed]
          /\ changed' = [changed EXCEPT ![u] = {}]
          /\ UNCHANGED mediaFaults
       \/ /\ BucketFault           \* the inventory cannot be taken
          /\ uploader' = [uploader EXCEPT ![u].pc = "report", ![u].status = "failed"]
          /\ UNCHANGED changed
    /\ UNCHANGED <<bucket, foreign, uploadPlan, marker, report, sources>>

CaptureAfter(u) ==
    /\ UploaderAt(u, "after")
    /\ uploader[u].inv.todo # {}
    /\ IF bucket[NextListed(uploader[u].inv)] = NoObject
       THEN uploader' = [uploader EXCEPT ![u].pc = "report", ![u].status = "failed"]
       ELSE uploader' = [uploader EXCEPT ![u].inv = ReadObject(@)]
    /\ UNCHANGED <<bucketVars, uploadPlan, marker, report, sources>>

Uploaded(evidence) == {k \in MediaKeys : evidence[k] = "uploaded"}

\* Mutant of DeltaHolds: only the new objects are compared.
DeltaOfNewObjects(before, after, evidence) ==
    {k \in MediaKeys : before[k] = NoObject /\ after[k] # NoObject} = Uploaded(evidence)

\* Old objects as before, and the new ones exactly those reported.
DeltaHolds(before, after, evidence) ==
    /\ \A k \in MediaKeys : before[k] # NoObject => after[k] = before[k]
    /\ {k \in MediaKeys : before[k] = NoObject /\ after[k] # NoObject} = Uploaded(evidence)

(* validate_after_inventory_delta.  current_inventory equals the inventory  *)
(* of the plan, which Claim compared.  Every reported object must be this   *)
(* operation's.                                                             *)
ValidateAfter(u) ==
    /\ UploaderAt(u, "after")
    /\ uploader[u].inv.todo = {}
    /\ LET after == uploader[u].inv.seen
           evidence == uploader[u].evidence
           wrong == {k \in Uploaded(evidence) : after[k] # [body |-> "approved", op |-> u]}
           Result(status) == uploader' = [uploader EXCEPT ![u].pc = "report",
                                                          ![u].inv = NoInventory,
                                                          ![u].status = status]
       IN Result(IF DeltaHolds(uploadPlan.before, after, evidence) /\ wrong = {}
                 THEN uploader[u].status ELSE "failed")
    /\ UNCHANGED <<bucketVars, uploadPlan, marker, report, sources>>

\* write_upload_report: created only if there is none.
WriteReport(u) ==
    /\ UploaderAt(u, "report")
    /\ report' = IF report = NoReport
                 THEN [op |-> u, status |-> uploader[u].status,
                       evidence |-> uploader[u].evidence]
                 ELSE report
    /\ End(u)
    /\ UNCHANGED <<bucketVars, uploadPlan, marker, sources>>

-----------------------------------------------------------------------------
KillUpload(u) ==
    /\ uploader[u].pc \notin {"idle", "ended"}
    /\ BucketFault
    /\ End(u)
    /\ UNCHANGED <<bucket, changed, foreign, uploadPlan, marker, report, sources>>

\* Somebody edits a local file of the plan.
SourceEdited ==
    /\ sources = "approved"
    /\ foreign < MaxForeign
    /\ foreign' = foreign + 1
    /\ sources' = "edited"
    /\ UNCHANGED <<bucket, changed, mediaFaults, uploadPlan, marker, report, uploader>>

UploadStep(u) ==
    \/ StartUpload(u) \/ CaptureCurrent(u) \/ Claim(u) \/ Freeze(u)
    \/ PutCreates(u) \/ PutConflicts(u) \/ PutRefused(u) \/ PutAnswerLost(u) \/ ReadBack(u)
    \/ ReadBackFails(u)
    \/ ListAfter(u) \/ CaptureAfter(u) \/ ValidateAfter(u) \/ WriteReport(u)
    \/ KillUpload(u)

UploadNext == MakePlan \/ SourceEdited \/ \E u \in Uploaders : UploadStep(u)

UploadInit ==
    /\ uploadPlan = NoPlan
    /\ marker = "none"
    /\ report = NoReport
    /\ uploader = [u \in Uploaders |-> Run0]
    /\ sources = "approved"

-----------------------------------------------------------------------------
UploadTypeOK ==
    /\ uploadPlan.missing \subseteq Approved
    /\ uploadPlan.before \in [MediaKeys -> MediaObject \cup {NoObject}]
    /\ marker \in {"none"} \cup Uploaders
    /\ report.op \in {"none"} \cup Uploaders
    /\ report.evidence \in [MediaKeys -> Outcome]
    /\ \A u \in Uploaders :
          /\ uploader[u].pc \in {"idle", "current", "freeze", "put", "readback", "list",
                                 "after", "report", "ended"}
          /\ uploader[u].inv \in Inventory
          /\ uploader[u].evidence \in [MediaKeys -> Outcome]
    /\ sources \in {"approved", "edited"}

\* The objects a report stands for: those it lists as uploaded are the
\* operation's, every other key is as the plan found it, except where
\* somebody else wrote since the after inventory began.
ReportHolds ==
    \A k \in MediaKeys \ changed[report.op] :
        bucket[k] = IF report.evidence[k] = "uploaded"
                    THEN [body |-> "approved", op |-> report.op]
                    ELSE uploadPlan.before[k]

(* A plan is used by one operation, whose objects are the only ones in the *)
(* bucket that carry an id, and a report that claims success (or a         *)
(* conflict before which all went well) tells what is in the bucket:       *)
(* _run_minio_upload with load_and_claim_operation_plan, upload_sequence   *)
(* and validate_after_inventory_delta.                                     *)
UploadReportTrue ==
    /\ UploadTypeOK
    /\ \A k \in Present : bucket[k].op \in Uploaders => bucket[k].op = marker
    /\ report # NoReport => report.op = marker
    /\ report.status \in {"uploaded", "concurrency_conflict"} => ReportHolds
    /\ report.status = "uploaded" => Uploaded(report.evidence) = uploadPlan.missing
==============================================================================
