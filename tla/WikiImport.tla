----------------------------- MODULE WikiImport -----------------------------
(***************************************************************************)
(* The formal import of the wiki into MySQL and the way back               *)
(* (src/huiji_wiki): build_pre_import_receipt verifies a backup by         *)
(* restoring it elsewhere, the formal import replaces the pages and adds   *)
(* the tables of media v3, execute_production_restore puts the backup      *)
(* back after an emergency backup of what is there.                        *)
(*                                                                         *)
(* One action is one statement, transaction or file that lasts.  Operators *)
(* run one of these tools at a time; nothing stops the other scripts that  *)
(* import or change the tables of media v3, and a tool may fail or be      *)
(* killed between any two steps.                                           *)
(***************************************************************************)
EXTENDS Integers

CONSTANTS
    Base,       \* the wiki the approved counts describe
    Edited,     \* contents other scripts import
    Target,     \* the wiki of the active build
    MaxMishaps  \* bound of failed or killed tools and of the writes of other
                \* scripts, together (checking only)

ASSUME WikiAssumption ==
    /\ MaxMishaps \in Nat
    /\ Base \notin Edited /\ Target \notin Edited \cup {Base}
    /\ {"gone", "half"} \cap (Edited \cup {Base, Target}) = {}

VARIABLES
    db,           \* pages with their snapshot row, legacy links, v3 tables
    backend,      \* the backend on port 8000
    rollback,     \* the passing receipt the release approved
    emergencies,  \* the emergency receipts
    evidence,     \* import_commit.v1.json
    tool,         \* the tool under way
    refused,      \* the latest import ended in an error
    dropped,      \* the whole database a restore dropped last
    rewritten,    \* a script imported during the restore that dropped it
    mishaps

wikiVars == <<db, backend, rollback, emergencies, evidence, tool, refused, dropped,
              rewritten, mishaps>>

Contents == Edited \cup {Base, Target}

(* A dropped database, and one whose dump is half loaded; wiki_pages comes  *)
(* after wiki_import_snapshots in a dump.                                   *)
Gone == [pages |-> "gone", links |-> "gone", v3 |-> "none"]
Half == [pages |-> "half", links |-> "gone", v3 |-> "none"]
BaseDb == [pages |-> Base, links |-> Base, v3 |-> "none"]

Databases ==
    [pages : Contents, links : Contents, v3 : {"none", "empty", "full"}] \cup {Gone, Half}

Whole(d) == d \notin {Gone, Half}

NoReceipt == [inventory |-> Gone, dump |-> Gone]
Idling == [name |-> "none", pc |-> "none", before |-> Gone, dump |-> Gone,
           installed |-> FALSE]

ToolAt(pc) == tool.pc = pc

Ends == tool' = Idling

-----------------------------------------------------------------------------
(* _build_verified_backup, of the receipt of the release and of an emergency *)

StartBackup ==
    /\ tool = Idling /\ rollback = NoReceipt
    /\ tool' = [Idling EXCEPT !.name = "backup", !.pc = "inventory"]
    /\ UNCHANGED <<db, backend, rollback, emergencies, evidence, refused, dropped,
                   rewritten, mishaps>>

(* collect_mysql_inventory raises without wiki_import_snapshots. *)
Inventories(d) == d # Gone

TakeInventory ==
    /\ ToolAt("inventory")
    /\ IF Inventories(db)
       THEN tool' = [tool EXCEPT !.pc = "dump", !.before = db]
       ELSE Ends
    /\ UNCHANGED <<db, backend, rollback, emergencies, evidence, refused, dropped,
                   rewritten, mishaps>>

TakeDump ==
    /\ ToolAt("dump")
    /\ tool' = [tool EXCEPT !.pc = "again", !.dump = db]
    /\ UNCHANGED <<db, backend, rollback, emergencies, evidence, refused, dropped,
                   rewritten, mishaps>>

CompareSource ==
    /\ ToolAt("again")
    /\ IF db = tool.before THEN tool' = [tool EXCEPT !.pc = "restored"] ELSE Ends
    /\ UNCHANGED <<db, backend, rollback, emergencies, evidence, refused, dropped,
                   rewritten, mishaps>>

\* Mutant of CompareRestored: the restored copy is not compared.
CompareRestoredAnyway ==
    /\ ToolAt("restored")
    /\ tool' = [tool EXCEPT !.pc = "receipt"]
    /\ UNCHANGED <<db, backend, rollback, emergencies, evidence, refused, dropped,
                   rewritten, mishaps>>

(* The dump is loaded into a container of its own and inventoried there. *)
CompareRestored ==
    /\ ToolAt("restored")
    /\ IF tool.dump = tool.before THEN tool' = [tool EXCEPT !.pc = "receipt"] ELSE Ends
    /\ UNCHANGED <<db, backend, rollback, emergencies, evidence, refused, dropped,
                   rewritten, mishaps>>

WriteBackupReceipt ==
    /\ ToolAt("receipt")
    /\ LET backup == [inventory |-> tool.before, dump |-> tool.dump]
       IN IF tool.name = "backup"
          THEN rollback' = backup /\ Ends /\ UNCHANGED emergencies
          ELSE /\ emergencies' = emergencies \cup {backup}
               /\ tool' = [Idling EXCEPT !.name = "restore", !.pc = "stop"]
               /\ UNCHANGED rollback
    /\ UNCHANGED <<db, backend, evidence, refused, dropped, rewritten, mishaps>>

-----------------------------------------------------------------------------
(* execute_production_restore *)

\* Mutant of StartRestore: no emergency backup.
StartRestoreUnsaved ==
    /\ tool = Idling /\ rollback # NoReceipt
    /\ tool' = [Idling EXCEPT !.name = "restore", !.pc = "stop"]
    /\ refused' = FALSE
    /\ rewritten' = (rewritten /\ ~Whole(db))
    /\ UNCHANGED <<db, backend, rollback, emergencies, evidence, dropped, mishaps>>

StartRestore ==
    /\ tool = Idling /\ rollback # NoReceipt
    /\ tool' = [Idling EXCEPT !.name = "restore", !.pc = "inventory"]
    /\ refused' = FALSE
    /\ rewritten' = (rewritten /\ ~Whole(db))
    /\ UNCHANGED <<db, backend, rollback, emergencies, evidence, dropped, mishaps>>

StopBackend ==
    /\ ToolAt("stop")
    /\ backend' = "down"
    /\ tool' = [tool EXCEPT !.pc = "drop"]
    /\ UNCHANGED <<db, rollback, emergencies, evidence, refused, dropped, rewritten, mishaps>>

DropDatabase ==
    /\ ToolAt("drop")
    /\ db' = Gone
    /\ dropped' = IF Whole(db) THEN db ELSE dropped
    /\ tool' = [tool EXCEPT !.pc = "load"]
    /\ UNCHANGED <<backend, rollback, emergencies, evidence, refused, rewritten, mishaps>>

LoadFirstTables ==
    /\ ToolAt("load")
    /\ db' = Half
    /\ tool' = [tool EXCEPT !.pc = "loading"]
    /\ UNCHANGED <<backend, rollback, emergencies, evidence, refused, dropped, rewritten,
                   mishaps>>

LoadOtherTables ==
    /\ ToolAt("loading")
    /\ db' = rollback.dump
    /\ tool' = [tool EXCEPT !.pc = "verify"]
    /\ UNCHANGED <<backend, rollback, emergencies, evidence, refused, dropped, rewritten,
                   mishaps>>

VerifyRestored ==
    /\ ToolAt("verify")
    /\ IF db = rollback.inventory THEN tool' = [tool EXCEPT !.pc = "start"] ELSE Ends
    /\ UNCHANGED <<db, backend, rollback, emergencies, evidence, refused, dropped,
                   rewritten, mishaps>>

StartBackend ==
    /\ ToolAt("start")
    /\ backend' = "up" /\ Ends
    /\ UNCHANGED <<db, rollback, emergencies, evidence, refused, dropped, rewritten, mishaps>>

-----------------------------------------------------------------------------
(* prepare_formal_import and apply_formal_import *)

Refuse == Ends /\ refused' = TRUE

StartImport ==
    /\ tool = Idling /\ rollback # NoReceipt
    /\ tool' = [Idling EXCEPT !.name = "import", !.pc = "state"]
    /\ refused' = FALSE
    /\ UNCHANGED <<db, backend, rollback, emergencies, evidence, dropped, rewritten,
                   mishaps>>

\* Mutant of Installed: the legacy links must be those of the target.
InstalledLinked(d) == d.pages = Target /\ d.links = Target /\ d.v3 = "full"

(* The snapshot row and the counts of the tables. *)
Installed(d) == d.pages = Target /\ d.links = Base /\ d.v3 = "full"

Importable(d) ==
    d.pages = rollback.inventory.pages /\ d.pages = Base /\ d.links = Base /\ d.v3 # "full"

ReadState ==
    /\ ToolAt("state")
    /\ IF Installed(db) \/ Importable(db)
       THEN /\ tool' = [tool EXCEPT !.pc = "compare", !.installed = Installed(db)]
            /\ UNCHANGED refused
       ELSE Refuse
    /\ UNCHANGED <<db, backend, rollback, emergencies, evidence, dropped, rewritten, mishaps>>

ReadInventory ==
    /\ ToolAt("compare")
    /\ IF Inventories(db) /\ (tool.installed \/ db = rollback.inventory)
       THEN /\ tool' = [tool EXCEPT !.pc = IF tool.installed THEN "evidence" ELSE "schema"]
            /\ UNCHANGED refused
       ELSE Refuse
    /\ UNCHANGED <<db, backend, rollback, emergencies, evidence, dropped, rewritten, mishaps>>

(* MySQL commits each CREATE TABLE IF NOT EXISTS by itself. *)
InstallSchema ==
    /\ ToolAt("schema")
    /\ db' = IF db.v3 = "none" THEN [db EXCEPT !.v3 = "empty"] ELSE db
    /\ tool' = [tool EXCEPT !.pc = "empty"]
    /\ UNCHANGED <<backend, rollback, emergencies, evidence, refused, dropped, rewritten,
                   mishaps>>

CheckEmpty ==
    /\ ToolAt("empty")
    /\ IF db.v3 = "empty"
       THEN tool' = [tool EXCEPT !.pc = "commit"] /\ UNCHANGED refused
       ELSE Refuse
    /\ UNCHANGED <<db, backend, rollback, emergencies, evidence, dropped, rewritten, mishaps>>

(* import_payload_to_mysql: one transaction, which leaves the legacy links; *)
(* it fails when the tables are gone again.                                 *)
CommitImport ==
    /\ ToolAt("commit")
    /\ IF db.v3 # "none"
       THEN /\ db' = [db EXCEPT !.pages = Target, !.v3 = "full"]
            /\ tool' = [tool EXCEPT !.pc = "check"]
            /\ UNCHANGED refused
       ELSE Refuse /\ UNCHANGED db
    /\ UNCHANGED <<backend, rollback, emergencies, evidence, dropped, rewritten, mishaps>>

CheckImport ==
    /\ ToolAt("check")
    /\ IF Installed(db)
       THEN tool' = [tool EXCEPT !.pc = "evidence"] /\ UNCHANGED refused
       ELSE Refuse
    /\ UNCHANGED <<db, backend, rollback, emergencies, evidence, dropped, rewritten, mishaps>>

(* The file is only ever created: a second import that commits raises here. *)
WriteEvidence ==
    /\ ToolAt("evidence")
    /\ IF evidence = "none"
       THEN evidence' = IF tool.installed THEN "already_installed" ELSE "committed"
       ELSE UNCHANGED evidence
    /\ IF evidence # "none" /\ ~tool.installed THEN Refuse ELSE Ends /\ UNCHANGED refused
    /\ UNCHANGED <<db, backend, rollback, emergencies, dropped, rewritten, mishaps>>

-----------------------------------------------------------------------------
(* The world around the tools *)

(* An exception or a kill; a load that is cut ends with its client. *)
StopTool ==
    /\ tool # Idling /\ mishaps < MaxMishaps
    /\ Ends
    /\ mishaps' = mishaps + 1
    /\ UNCHANGED <<db, backend, rollback, emergencies, evidence, refused, dropped,
                   rewritten>>

(* import_huiji_wiki_pages and migrate_wiki_to_crawler_source: the same     *)
(* transaction, of a build with legacy links or of the active build.        *)
ScriptImport(c) ==
    /\ Whole(db) /\ mishaps < MaxMishaps
    /\ db' = IF c = Target
             THEN [db EXCEPT !.pages = Target, !.v3 = "full"]
             ELSE [db EXCEPT !.pages = c, !.links = c]
    /\ c = Target => db.v3 # "none"
    /\ rewritten' = (rewritten \/ tool.name = "restore")
    /\ mishaps' = mishaps + 1
    /\ UNCHANGED <<backend, rollback, emergencies, evidence, tool, refused, dropped>>

(* migrate_wiki_media_v3 creates the tables of media v3 where there are      *)
(* none, or drops them, full ones on the evidence of a backup.               *)
ScriptTables ==
    /\ Whole(db) /\ mishaps < MaxMishaps
    /\ db' = [db EXCEPT !.v3 = IF db.v3 = "none" THEN "empty" ELSE "none"]
    /\ rewritten' = (rewritten \/ tool.name = "restore")
    /\ mishaps' = mishaps + 1
    /\ UNCHANGED <<backend, rollback, emergencies, evidence, tool, refused, dropped>>

-----------------------------------------------------------------------------

WikiInit ==
    /\ db = BaseDb /\ backend = "up" /\ rollback = NoReceipt /\ emergencies = {}
    /\ evidence = "none" /\ tool = Idling /\ refused = FALSE
    /\ dropped = Gone /\ rewritten = FALSE /\ mishaps = 0

Backup == StartBackup \/ TakeInventory \/ TakeDump \/ CompareSource \/ CompareRestored
          \/ WriteBackupReceipt
Restore == StartRestore \/ StopBackend \/ DropDatabase \/ LoadFirstTables
           \/ LoadOtherTables \/ VerifyRestored \/ StartBackend
Import == StartImport \/ ReadState \/ ReadInventory \/ InstallSchema \/ CheckEmpty
          \/ CommitImport \/ CheckImport \/ WriteEvidence

WikiNext ==
    \/ Backup \/ Restore \/ Import \/ StopTool
    \/ (\E c \in Contents : ScriptImport(c)) \/ ScriptTables

(* A tool that started goes on; the operator runs the import again and again *)
(* and restores the approved backup when it is refused.                      *)
ToolSteps == tool # Idling /\ (Backup \/ Restore \/ Import)
WikiFairness ==
    /\ WF_wikiVars(ToolSteps)
    /\ SF_wikiVars(StartImport)
    /\ SF_wikiVars(refused /\ StartRestore)

WikiSpec == WikiInit /\ [][WikiNext]_wikiVars /\ WikiFairness

-----------------------------------------------------------------------------
(* Properties *)

Receipts == [inventory : Databases, dump : Databases]

(* The variables hold what the code can put there. *)
WikiTypeOK ==
    /\ db \in Databases /\ backend \in {"up", "down"}
    /\ rollback \in Receipts /\ emergencies \subseteq Receipts
    /\ evidence \in {"none", "committed", "already_installed"}
    /\ tool.before \in Databases /\ tool.dump \in Databases
    /\ tool.name \in {"none", "backup", "restore", "import"}
    /\ refused \in BOOLEAN /\ dropped \in Databases /\ rewritten \in BOOLEAN
    /\ mishaps \in 0 .. MaxMishaps

(* A passing receipt restores what its inventory says, also when scripts     *)
(* import while the dump is taken, back and forth included                   *)
(* (_build_verified_backup).                                                 *)
ReceiptsRestore ==
    \A r \in emergencies \cup {rollback} : r.dump = r.inventory

(* While a restore leaves no whole database, an emergency receipt holds the  *)
(* one it dropped, over failed and repeated restores, unless a script wrote  *)
(* to it after the backup (execute_production_restore).                      *)
DroppedIsSaved ==
    ~Whole(db) => rewritten \/ \E r \in emergencies : r.dump = dropped

(* An import of the approved wiki ends with its evidence, whatever failed    *)
(* before: what refuses it is undone by a restore.  A restore that stopped   *)
(* between the drop and the first tables cannot be run again: its emergency  *)
(* backup has no database to read.                                           *)
ImportRecovers ==
    \/ []<>(rollback.inventory # BaseDb \/ evidence # "none")
    \/ <>[](db = Gone)
=============================================================================
