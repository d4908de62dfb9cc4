----------------------------- MODULE Operations -----------------------------
(***************************************************************************)
(* The operators' tools that share no state with one another, in one       *)
(* module for the model checker: a behaviour is one of the production      *)
(* operations, of the upload of media, of the cleanup of the bucket, of    *)
(* the build of a collection, of the download of media or of the closure   *)
(* of a release, as part says, and leaves the others where they start.     *)
(*                                                                         *)
(* The production operations appear twice: with unlinks that fail, and     *)
(* blind, with restores and reloads that fail unseen in the traps.         *)
(***************************************************************************)
EXTENDS BlueGreen, MediaUpload, Cleanup, ShadowBuild, MediaDownload, Closure

VARIABLE part        \* what this behaviour is about

Blind == INSTANCE BlueGreen WITH Failing <- {"fragment", "state", "reload"}

mediaVars == <<bucketVars, uploadVars, cleanupVars>>
otherVars == <<shadowVars, downloadVars, closureVars>>
allVars == <<part, vars, mediaVars, otherVars>>

OperationsInit ==
    /\ part \in {"unlink", "blind", "upload", "cleanup", "build", "download", "closure"}
    /\ Init /\ BucketInit /\ UploadInit /\ CleanupInit
    /\ ShadowInit /\ DownloadInit /\ ClosureInit
    /\ part \notin {"unlink", "blind"} => fragment = CHOOSE s \in Slots : TRUE
    /\ Present \subseteq CASE part = "upload" -> Approved
                           [] part = "cleanup" -> MediaKeys
                           [] OTHER -> {}
    /\ part # "cleanup" => wiki = {}
    /\ part # "download" => \A f \in MediaFiles : target[f] = "none"
    /\ part # "closure" => AllApproved

InDeployment(name, action) ==
    /\ part = name /\ action
    /\ UNCHANGED <<part, mediaVars, otherVars>>
InUpload(action) ==
    /\ part = "upload" /\ action
    /\ UNCHANGED <<part, vars, cleanupVars, otherVars>>
InCleanup(action) ==
    /\ part = "cleanup" /\ action
    /\ UNCHANGED <<part, vars, uploadVars, otherVars>>
InBucket(action) ==
    /\ part \in {"upload", "cleanup"} /\ action
    /\ UNCHANGED <<part, vars, uploadVars, cleanupVars, otherVars>>
InBuild(action) ==
    /\ part = "build" /\ action
    /\ UNCHANGED <<part, vars, mediaVars, downloadVars, closureVars>>
InDownload(action) ==
    /\ part = "download" /\ action
    /\ UNCHANGED <<part, vars, mediaVars, shadowVars, closureVars>>
InClosure(action) ==
    /\ part = "closure" /\ action
    /\ UNCHANGED <<part, vars, mediaVars, shadowVars, downloadVars>>

OperationsNext ==
    \/ InDeployment("unlink", Next) \/ InDeployment("blind", Blind!Next)
    \/ InUpload(UploadNext) \/ InCleanup(CleanupNext) \/ InBucket(OtherWrites)
    \/ InBuild(ShadowNext) \/ InDownload(DownloadNext) \/ InClosure(ClosureNext)

(* The fairness of each part, in its own behaviours.  part is constant, so   *)
(* fairness of a disjunction is fairness of each disjunct: an operation      *)
(* proceeds, and an operator whose operation or download did not end runs    *)
(* another one.                                                              *)
OperationsFairness ==
    /\ WF_allVars(\/ InDeployment("blind", Blind!Run)
                  \/ InDownload(StartDownload \/ EndDownload))
    /\ \A f \in MediaFiles :
          WF_allVars(InDeployment("blind", Blind!Start) \/ InDownload(DownloadStep(f)))

OperationsSpec == OperationsInit /\ [][OperationsNext]_allVars /\ OperationsFairness

-----------------------------------------------------------------------------
\* From the first deployment on traffic goes to a project that runs, and between
\* operations to the one of record, whatever is killed or fails while the
\* commands of the traps do not (deploy.sh, switch.sh, rollback.sh, cleanup.sh).
DeploymentsKept ==
    part # "blind" => ServiceKept /\ CaddyServesActive

\* With the same exception both recorded deployments keep what a restart needs;
\* and journals stay readable also when restores and reloads fail unseen.
RecordsUsable ==
    IF part = "blind" THEN JournalsReadable ELSE RecordedDeploymentsRestartable

\* With the same exception the scripts, their crashes and repairs included,
\* show only the steps of ReleaseAuthority to who looks at the authority and at
\* the traffic: BlueGreen implements its specification.
AuthorityKept ==
    Promise!Init /\ [][part # "blind" => Promise!Next]_(Promise!vars)

\* When they fail unseen, a pending transaction or retirement is finished or
\* undone in the end.
BlindWorkEnds ==
    []<>(part = "blind" => journal = None /\ retirement = None)

\* What the tools leave as evidence is true whatever others do meanwhile and
\* wherever they are stopped: the report of an upload, the rows and backups of
\* the cleanup, the pass of a collection build and the receipt of a closure
\* (build_huiji_evb, cleanup_legacy_rag_p2, build_huiji_index, closure).
EvidenceTrue ==
    /\ UploadReportTrue
    /\ CleanupAccounted
    /\ ShadowTrue
    /\ ClosedTogether

\* No tool changes or removes an object it finds in the bucket, but for the
\* candidates of an approved cleanup once its drift check has passed
\* (put_object_if_absent, conditional_restore_object, command_apply).
NothingOverwritten ==
    [][\A k \in MediaKeys :
          bucket[k] # NoObject /\ bucket'[k] # bucket[k] /\ foreign' = foreign =>
              bucket'[k] = NoObject /\ applied.started /\ k \in inventory.candidates]_allVars

\* However runs of the download are killed and whatever the host served, an
\* operator who runs it again ends with every file that may be fetched in place
\* and receipted: no .part left behind stands in the way (ResourceDownloader).
DownloadsConverge ==
    /\ []DownloadTypeOK
    /\ <>[](part = "download" =>
               \A f \in MediaFiles \ Frozen :
                   target[f] = "approved" /\ receipt[f] \in {"downloaded", "skipped"})
=============================================================================
