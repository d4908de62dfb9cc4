------------------------------- MODULE Cleanup -------------------------------
(***************************************************************************)
(* The removal of the retired corpus by scripts/cleanup_legacy_rag_p2.py:  *)
(* inventory, backup of the candidates, plan, apply, verify, and the       *)
(* partial restore, each a command an operator runs, in a bucket and over  *)
(* local files and wiki pages that other programs go on using.             *)
(*                                                                         *)
(* One command runs at a time; a killed or refused one leaves its files.   *)
(* The hashes that bind the evidence files to one another hold because the *)
(* files are created once; they are left out, and so are a-bucket and the  *)
(* vector database, which are compared like the bucket and never written.  *)
(***************************************************************************)
EXTENDS Bucket, FiniteSets

CONSTANTS
    Legacy,       \* keys of the legacy manifest
    Rag,          \* keys the active RAG manifest uses
    Probes,       \* keys of capability probes
    LocalPaths    \* LOCAL_CANDIDATES, numbered in their order

ASSUME CleanupAssumption ==
    /\ {"apply", "verify"} \subseteq Observers
    /\ "restore" \in Operations
    /\ Legacy \cup Rag \cup Probes \subseteq MediaKeys
    /\ LocalPaths \subseteq Nat /\ LocalPaths # {}

VARIABLES
    wiki,        \* keys wiki_media_links names, one row each
    local,       \* per local path: as in the restic snapshot, edited, or gone
    command,     \* the command that runs, its step and its inventory
    inventory,   \* inventory.v1.json with the candidate set
    backup,      \* the contents under the backup root
    receipts,    \* the backup receipts that were written
    cleanupPlan, \* whether the operation plan was written
    applied,     \* the apply receipt
    verified,    \* whether the acceptance was written
    restored     \* the keys of the restore receipt, or that there is none

saved == <<inventory, backup, receipts, cleanupPlan>>
later == <<applied, verified, restored>>
evidence == <<saved, later>>
cleanupVars == <<wiki, local, command, evidence>>

Empty == [k \in MediaKeys |-> NoObject]

NoInventoryFile == [status |-> "none", objects |-> Empty, rows |-> 0, candidates |-> {}]

NoReceipt == [started |-> FALSE, remote |-> {}, local |-> {}, completed |-> FALSE]

NoCommand == [name |-> "none", step |-> "none", inv |-> NoInventory, rows |-> 0,
              wiki |-> {}, keys |-> {}]

CommandAt(name, step) == command.name = name /\ command.step = step
Step(step) == command' = [command EXCEPT !.step = step]
CommandEnds == command' = NoCommand

NoCommandRuns == command = NoCommand

-----------------------------------------------------------------------------
(* An inventory of the wiki, then of the bucket, as three commands take it. *)
CaptureWiki(name) ==
    command' = [NoCommand EXCEPT !.name = name, !.step = "list",
                                 !.wiki = wiki, !.rows = Cardinality(wiki)]

\* What others did before the inventory is in it: changed forgets it.
ListBucket ==
    /\ command.step = "list"
    /\ command' = [command EXCEPT !.step = "read", !.inv = Listed]
    /\ changed' = IF command.name \in Observers
                  THEN [changed EXCEPT ![command.name] = {}]
                  ELSE changed
    /\ UNCHANGED <<bucket, foreign, mediaFaults, wiki, local, evidence>>

\* An object that is gone when it is read ends the command (NoSuchKey).
ReadBucket ==
    /\ command.step = "read"
    /\ command.inv.todo # {}
    /\ IF bucket[NextListed(command.inv)] = NoObject
       THEN CommandEnds
       ELSE command' = [command EXCEPT !.inv = ReadObject(@)]
    /\ UNCHANGED <<bucketVars, wiki, local, evidence>>

Captured(name) == CommandAt(name, "read") /\ command.inv.todo = {}

-----------------------------------------------------------------------------
(* inventory *)
StartInventory ==
    /\ NoCommandRuns
    /\ inventory = NoInventoryFile
    /\ CaptureWiki("inventory")
    /\ UNCHANGED <<bucketVars, wiki, local, evidence>>

Found == {k \in MediaKeys : command.inv.seen[k] # NoObject}
Consumers == Rag \cup command.wiki

\* classify_keys: remote and legacy, not used, and not a probe.
Candidates == ((Found \cap Legacy) \ Consumers) \ Probes

\* A consumer that is missing, or a content the manifests contradict, blocks.
WriteInventory ==
    /\ Captured("inventory")
    /\ LET contradicted == {k \in Found \cap (Legacy \cup Consumers) :
                              command.inv.seen[k].body # "approved"}
       IN inventory' = IF Consumers \subseteq Found /\ contradicted = {}
                       THEN [status |-> "pass", objects |-> command.inv.seen,
                             rows |-> command.rows, candidates |-> Candidates]
                       ELSE NoInventoryFile
    /\ CommandEnds
    /\ UNCHANGED <<bucketVars, wiki, local, backup, receipts, cleanupPlan, later>>

-----------------------------------------------------------------------------
(* backup-minio downloads the candidates one by one to a backup root of its *)
(* own, and writes the receipt when all have the content of the inventory.  *)
StartBackup ==
    /\ NoCommandRuns
    /\ inventory.status = "pass"
    /\ "minio" \notin receipts
    /\ command' = [NoCommand EXCEPT !.name = "backup", !.step = "download",
                                    !.keys = inventory.candidates]
    /\ backup' = Empty
    /\ UNCHANGED <<bucketVars, wiki, local, inventory, receipts, cleanupPlan, later>>

Download ==
    /\ CommandAt("backup", "download")
    /\ command.keys # {}
    /\ LET k == Min(command.keys)
       IN IF bucket[k] = NoObject
          THEN CommandEnds /\ UNCHANGED backup
          ELSE /\ backup' = [backup EXCEPT ![k] = bucket[k]]
               /\ IF bucket[k].body = inventory.objects[k].body
                  THEN command' = [command EXCEPT !.keys = @ \ {k}]
                  ELSE CommandEnds
    /\ UNCHANGED <<bucketVars, wiki, local, inventory, receipts, cleanupPlan, later>>

WriteBackupReceipt ==
    /\ CommandAt("backup", "download")
    /\ command.keys = {}
    /\ receipts' = receipts \cup {"minio"}
    /\ CommandEnds
    /\ UNCHANGED <<bucketVars, wiki, local, inventory, backup, cleanupPlan, later>>

\* verify-local-backup: the live paths are those of the restored snapshot.
VerifyLocalBackup ==
    /\ NoCommandRuns
    /\ \A p \in LocalPaths : local[p] = "saved"
    /\ "local" \notin receipts
    /\ receipts' = receipts \cup {"local"}
    /\ UNCHANGED <<bucketVars, wiki, local, command, inventory, backup, cleanupPlan, later>>

WritePlan ==
    /\ NoCommandRuns
    /\ ~cleanupPlan
    /\ inventory.status = "pass"
    /\ receipts = {"minio", "local"}
    /\ cleanupPlan' = TRUE
    /\ UNCHANGED <<bucketVars, wiki, local, command, inventory, backup, receipts, later>>

-----------------------------------------------------------------------------
(* apply: a plan without a receipt, local paths as saved, and a bucket and  *)
(* numbers of wiki rows as in the inventory.                                *)
StartApply ==
    /\ NoCommandRuns
    /\ cleanupPlan
    /\ ~applied.started
    /\ \A p \in LocalPaths : local[p] = "saved"
    /\ CaptureWiki("apply")
    /\ UNCHANGED <<bucketVars, wiki, local, evidence>>

\* Mutant of NoDrift: the keys are compared and their objects are not.
NoDriftOfKeys ==
    /\ \A k \in MediaKeys :
          command.inv.seen[k] = NoObject <=> inventory.objects[k] = NoObject
    /\ command.rows = inventory.rows

NoDrift == command.inv.seen = inventory.objects /\ command.rows = inventory.rows

RequireNoDrift ==
    /\ Captured("apply")
    /\ IF NoDrift
       THEN /\ applied' = [applied EXCEPT !.started = TRUE]
            /\ command' = [NoCommand EXCEPT !.name = "apply", !.step = "remove",
                                            !.keys = inventory.candidates]
       ELSE CommandEnds /\ UNCHANGED applied
    /\ UNCHANGED <<bucketVars, wiki, local, saved, verified, restored>>

\* remove_object asks for no condition, and succeeds on a key that is free.
RemoveObject ==
    /\ CommandAt("apply", "remove")
    /\ command.keys # {}
    /\ Change(Min(command.keys), NoObject, "apply")
    /\ Step("row")
    /\ UNCHANGED <<foreign, mediaFaults, wiki, local, evidence>>

AppendRemote ==
    /\ CommandAt("apply", "row")
    /\ LET k == Min(command.keys)
       IN /\ applied' = [applied EXCEPT !.remote = @ \cup {k}]
          /\ command' = [command EXCEPT !.keys = @ \ {k}, !.step = "remove"]
    /\ UNCHANGED <<bucketVars, wiki, local, saved, verified, restored>>

LocalLeft == LocalPaths \ applied.local

RemoveLocal ==
    /\ CommandAt("apply", "remove")
    /\ command.keys = {} /\ LocalLeft # {}
    /\ IF local[Min(LocalLeft)] = "gone"
       THEN CommandEnds /\ UNCHANGED local
       ELSE local' = [local EXCEPT ![Min(LocalLeft)] = "gone"] /\ Step("local_row")
    /\ UNCHANGED <<bucketVars, wiki, evidence>>

AppendLocal ==
    /\ CommandAt("apply", "local_row")
    /\ applied' = [applied EXCEPT !.local = @ \cup {Min(LocalLeft)}]
    /\ Step("remove")
    /\ UNCHANGED <<bucketVars, wiki, local, saved, verified, restored>>

CompleteApply ==
    /\ CommandAt("apply", "remove")
    /\ command.keys = {} /\ LocalLeft = {}
    /\ applied' = [applied EXCEPT !.completed = TRUE]
    /\ CommandEnds
    /\ UNCHANGED <<bucketVars, wiki, local, saved, verified, restored>>

-----------------------------------------------------------------------------
(* verify: a complete receipt for exactly the plan, the paths absent, and   *)
(* everything else in the bucket as in the inventory.                       *)
StartVerify ==
    /\ NoCommandRuns
    /\ ~verified
    /\ applied.completed
    /\ applied.remote = inventory.candidates /\ applied.local = LocalPaths
    /\ \A p \in LocalPaths : local[p] = "gone"
    /\ CaptureWiki("verify")
    /\ UNCHANGED <<bucketVars, wiki, local, evidence>>

Remaining == [k \in MediaKeys |->
                IF k \in inventory.candidates THEN NoObject ELSE inventory.objects[k]]

Accept ==
    /\ Captured("verify")
    /\ verified' = (command.inv.seen = Remaining /\ command.rows = inventory.rows)
    /\ CommandEnds
    /\ UNCHANGED <<bucketVars, wiki, local, saved, applied, restored>>

-----------------------------------------------------------------------------
(* restore-partial: an approved subset of the candidates, from the backup,  *)
(* each only if its key is free.  The operator runs it when an apply ended. *)
NotRestored == {0}

StartRestore ==
    /\ NoCommandRuns
    /\ applied.started
    /\ restored = NotRestored
    /\ \E keys \in (SUBSET inventory.candidates) \ {{}} :
          command' = [NoCommand EXCEPT !.name = "restore", !.step = "create", !.keys = keys]
    /\ UNCHANGED <<bucketVars, wiki, local, evidence>>

\* Mutant of RestoreObject: the key may hold another object.
RestoreObjectAnyway ==
    /\ CommandAt("restore", "create")
    /\ LET k == Min(command.keys)
       IN IF backup[k].body = inventory.objects[k].body
          THEN /\ Change(k, [body |-> backup[k].body, op |-> "restore"], "restore")
               /\ Step("row")
          ELSE CommandEnds /\ UNCHANGED <<bucket, changed>>
    /\ UNCHANGED <<foreign, mediaFaults, wiki, local, evidence>>

RestoreObject ==
    /\ CommandAt("restore", "create")
    /\ LET k == Min(command.keys)
       IN IF bucket[k] = NoObject /\ backup[k].body = inventory.objects[k].body
          THEN /\ Change(k, [body |-> backup[k].body, op |-> "restore"], "restore")
               /\ Step("row")
          ELSE CommandEnds /\ UNCHANGED <<bucket, changed>>
    /\ UNCHANGED <<foreign, mediaFaults, wiki, local, evidence>>

AppendRestored ==
    /\ CommandAt("restore", "row")
    /\ LET k == Min(command.keys)
           left == command.keys \ {k}
       IN /\ restored' = (restored \ NotRestored) \cup {k}
          /\ command' = IF left = {} THEN NoCommand
                        ELSE [command EXCEPT !.keys = left, !.step = "create"]
    /\ UNCHANGED <<bucketVars, wiki, local, saved, applied, verified>>

-----------------------------------------------------------------------------
KillCommand ==
    /\ ~NoCommandRuns
    /\ BucketFault
    /\ CommandEnds
    /\ UNCHANGED <<bucket, changed, foreign, wiki, local, evidence>>

\* The wiki is imported again: other pages show other media of the bucket.
WikiImported ==
    /\ foreign < MaxForeign
    /\ foreign' = foreign + 1
    /\ \E keys \in SUBSET Present : keys # wiki /\ wiki' = keys
    /\ UNCHANGED <<bucket, changed, mediaFaults, local, command, evidence>>

LocalEdited ==
    /\ foreign < MaxForeign
    /\ foreign' = foreign + 1
    /\ \E p \in LocalPaths : local[p] = "saved" /\ local' = [local EXCEPT ![p] = "edited"]
    /\ UNCHANGED <<bucket, changed, mediaFaults, wiki, command, evidence>>

CleanupNext ==
    \/ ListBucket \/ ReadBucket
    \/ StartInventory \/ WriteInventory
    \/ StartBackup \/ Download \/ WriteBackupReceipt \/ VerifyLocalBackup \/ WritePlan
    \/ StartApply \/ RequireNoDrift \/ RemoveObject \/ AppendRemote
    \/ RemoveLocal \/ AppendLocal \/ CompleteApply
    \/ StartVerify \/ Accept
    \/ StartRestore \/ RestoreObject \/ AppendRestored
    \/ KillCommand \/ WikiImported \/ LocalEdited

\* The commands, and the other programs that write the bucket.
CleanupInUse == CleanupNext \/ (OtherWrites /\ UNCHANGED cleanupVars)

CleanupInit ==
    /\ wiki \in SUBSET Present
    /\ local = [p \in LocalPaths |-> "saved"]
    /\ command = NoCommand
    /\ inventory = NoInventoryFile
    /\ backup = Empty
    /\ receipts = {}
    /\ cleanupPlan = FALSE
    /\ applied = NoReceipt
    /\ verified = FALSE
    /\ restored = NotRestored

CleanupSpec ==
    BucketInit /\ CleanupInit /\ [][CleanupInUse]_<<bucketVars, cleanupVars>>

-----------------------------------------------------------------------------
CleanupTypeOK ==
    /\ wiki \subseteq MediaKeys
    /\ local \in [LocalPaths -> {"saved", "edited", "gone"}]
    /\ command.inv \in Inventory /\ command.keys \subseteq MediaKeys
    /\ inventory.objects \in [MediaKeys -> MediaObject \cup {NoObject}]
    /\ inventory.candidates \subseteq Legacy
    /\ backup \in [MediaKeys -> MediaObject \cup {NoObject}]
    /\ receipts \subseteq {"minio", "local"}
    /\ applied.remote \subseteq inventory.candidates /\ applied.local \subseteq LocalPaths
    /\ cleanupPlan \in BOOLEAN /\ verified \in BOOLEAN
    /\ restored \subseteq MediaKeys \cup NotRestored

\* The object that an interrupted apply may have removed without a row.
Unrecorded == LET left == inventory.candidates \ applied.remote
              IN IF left = {} THEN {} ELSE {Min(left)}

(* Whatever interrupts the cleanup, what it removed is known and saved:     *)
(* once an apply has started, a key no other program wrote since its drift  *)
(* check is as in the inventory, unless it is a candidate whose removal the *)
(* receipt shows, or the next one after them, and of either the backup has  *)
(* the content (command_apply, delete_exact_objects, command_backup_minio). *)
RemovedIsAccounted ==
    applied.started =>
        \A k \in MediaKeys \ changed["apply"] :
            \/ bucket[k] = inventory.objects[k] /\ k \notin applied.remote
            \/ /\ bucket[k] = NoObject
               /\ k \in applied.remote \cup Unrecorded
               /\ backup[k] # NoObject /\ backup[k].body = inventory.objects[k].body

(* What verify accepted is so: the candidates are gone and every other      *)
(* object of the inventory is there, but for what others wrote since.       *)
AcceptedIsTrue ==
    verified =>
        \A k \in MediaKeys \ changed["verify"] : bucket[k] = Remaining[k]

CleanupAccounted == CleanupTypeOK /\ RemovedIsAccounted /\ AcceptedIsTrue

(* An accepted cleanup leaves every object the wiki now shows: the design's *)
(* CLEAN-VERIFY-P0-02, which command_verify reports as passed.              *)
ShownIsKept == verified => \A k \in wiki \ changed["verify"] : bucket[k] # NoObject
==============================================================================
