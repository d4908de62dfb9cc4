-------------------------- MODULE BlueGreenProofs --------------------------
(***************************************************************************)
(* What the files of the production operations say of each other, that the *)
(* deployments of record keep running and restartable, and that the        *)
(* scripts implement ReleaseAuthority, for any number of generations,      *)
(* kills and failed commands.                                              *)
(***************************************************************************)
EXTENDS Operations, TLAPS

-----------------------------------------------------------------------------
(* The places of an operation. *)

RestorePcs == {"restore_fragment", "restore_state", "restore_reload", "restore_check"}

TidyPcs == {"tidy_committed", "tidy_restored", "unlink_fragment_backup"}

JournalPcs ==
    {"reconcile", "check_committed", "unlink_journal"} \cup RestorePcs \cup TidyPcs

DownPcs == {"down", "remove_images", "mark_removed", "verify_absent", "commit_retired"}

RetirementPcs == {"retire", "mark_retired", "unlink_retirement"} \cup DownPcs

CheckPcs == {"preflight", "rollback_check", "cleanup_check"}

BodyPcs == {"pull", "up", "switch_check", "start_target"}

OpenPcs == {"journalled", "install", "reload", "mark_installed", "commit",
            "mark_committed"}

TransactionPcs ==
    {"backup_fragment", "backup_state", "write_journal", "committed"} \cup OpenPcs

ConcludePcs == {"orphans", "stop_old"}

Places == JournalPcs \cup RetirementPcs \cup CheckPcs \cup BodyPcs
          \cup TransactionPcs \cup ConcludePcs \cup {"idle", "stop_target"}

Operation ==
    [kind : Kinds \cup {"none"}, pc : Places,
     ctx : {"none", "start", "body", "retire", "finalize", "recover", "parent"},
     slot : Slots \cup {None}, release : Releases \cup {None}]

\* Of a journal whose transaction will be undone, the state it goes back to.
Pending == journal # None /\ journal.phase # "state_committed"
Old == IF journal.hadState THEN stateBackups[journal.gen] ELSE None

\* A journal whose transaction is settled, but for its files.
Done == journal # None /\ journal.phase = "state_committed"

-----------------------------------------------------------------------------
(* Every record is of a generation that was handed out, and names an older  *)
(* backup, or its own.                                                      *)
Dated(s) ==
    /\ s.gen <= gen
    /\ s.previous # None => s.backup \in Generation /\ s.backup <= s.gen

ProjectOK(p) == p = Absent \/ (p.status \in {"stopped", "running"} /\ p.release \in Releases)

FileTypes ==
    /\ TypeOK
    /\ \A s \in Slots : ProjectOK(projects[s])
    /\ state # None => Dated(state)
    /\ journal # None => journal.gen = gen
    /\ retirement # None => retirement.gen = gen /\ retirement.activeGen < gen

(* Which part of the scripts a place belongs to.                            *)
PlaceOK ==
    \/ op.pc = "idle" /\ op.ctx = "none"
    \/ op.pc \in JournalPcs /\ op.ctx \in {"start", "finalize", "recover", "parent"}
    \/ op.pc \in RetirementPcs /\ op.ctx \in {"start", "retire"}
    \/ op.pc \in CheckPcs \cup BodyPcs \cup TransactionPcs /\ op.ctx = "body"
    \/ op.pc \in ConcludePcs /\ op.ctx = "finalize"
    \/ op.pc = "stop_target" /\ op.ctx \in {"recover", "parent"}

\* The operation has found a target that does not serve yet.
Engaged ==
    \/ op.ctx \in {"finalize", "recover", "parent"}
    \/ op.pc \in {"pull", "up", "start_target"} \cup TransactionPcs
    \/ op.kind = "deploy" /\ op.pc = "switch_check"

OperationOK ==
    /\ op \in Operation
    /\ op.kind = "none" <=> op.pc = "idle"
    /\ op.ctx \in {"finalize", "recover"} => op.kind \in {"deploy", "switch", "rollback"}
    /\ op.ctx = "parent" => op.kind = "deploy"
    /\ op.pc \in TransactionPcs => op.kind \in {"deploy", "switch", "rollback"}
    /\ op.pc \in {"preflight", "pull", "up"} => op.kind = "deploy"
    /\ op.pc \in {"rollback_check", "start_target"} => op.kind = "rollback"
    /\ op.pc = "switch_check" => op.kind \in {"deploy", "switch"}
    /\ Engaged \/ op.kind \in {"deploy", "switch"} => op.slot \in Slots /\ op.release \in Releases

(* What the journals are while an operation is at its place.                *)
JournalOK ==
    /\ op.pc \in RetirementPcs \cup CheckPcs \cup BodyPcs \cup TidyPcs => journal = None
    /\ op.pc \in {"backup_fragment", "backup_state", "write_journal"} => journal = None
    /\ op.pc \in OpenPcs \cup RestorePcs => Pending
    /\ op.pc \in {"committed", "check_committed"} => Done
    /\ op.pc = "unlink_journal" => journal # None
    /\ op.ctx = "finalize" => ~Pending
    /\ op.ctx \in {"body", "finalize", "recover", "parent"} => retirement = None
    /\ op.pc \in TidyPcs => retirement = None
    /\ op.pc \in RetirementPcs \ {"retire"} => retirement # None
    /\ retirement # None => journal = None
    /\ op.pc \in CheckPcs \cup BodyPcs \cup {"backup_fragment"} => gen < MaxGen
    /\ op.pc \in {"backup_state", "write_journal"} \cup TidyPcs => gen \in Generation

(* A transaction can be undone: its backups are whole, and older.           *)
BackupsOK ==
    /\ Pending =>
          /\ JournalValid
          /\ Old # None => Dated(Old) /\ Old.gen < gen
    /\ op.pc \in {"start_target", "backup_fragment", "backup_state", "write_journal"} =>
          (state # None => Consistent)
    /\ op.pc \in {"backup_state", "write_journal"} =>
          fragmentBackups[gen] = fragment /\ (state # None => state.gen < gen)
    /\ op.pc = "write_journal" => stateBackups[gen] = state

(* A retirement can be read against the state it rewrites.                  *)
RetirementOK ==
    retirement # None =>
        /\ RetirementValid
        /\ state # None
        /\ RetirementCommitted \/ RetirementMatchesPrevious
        /\ op.pc \in DownPcs => RetirementMatchesPrevious
        /\ op.pc \in {"mark_retired", "unlink_retirement"} => RetirementCommitted

FilesInv ==
    FileTypes /\ PlaceOK /\ OperationOK /\ JournalOK /\ BackupsOK /\ RetirementOK

-----------------------------------------------------------------------------
(* Where fragment, state and Caddy are, when no command of a trap fails      *)
(* unseen.                                                                   *)

\* What the files are restored to.
Restored ==
    /\ state = Old
    /\ fragment = fragmentBackups[journal.gen]
    /\ caddy = fragment

\* What a transaction commits.
Promoted ==
    [gen |-> gen, active |-> Target,
     previous |-> IF Old = None THEN None ELSE Old.active,
     backup |-> IF Old = None THEN None ELSE gen]

TrafficOK ==
    /\ journal = None => caddy = fragment /\ (state # None => Consistent)
    /\ Done => Consistent /\ caddy = fragment /\ state.gen = gen
    /\ op.pc \in {"journalled", "install", "restore_check"} => Restored
    /\ op.pc \in {"unlink_journal", "stop_target"} /\ Pending => Restored
    /\ op.pc \in {"reload", "mark_installed", "commit"} => state = Old /\ fragment = op.slot
    /\ op.pc \in {"mark_installed", "commit"} => caddy = fragment
    /\ op.pc = "mark_committed" =>
          state = Promoted /\ fragment = op.slot /\ caddy = fragment
    /\ op.pc \in {"restore_state", "restore_reload"} =>
          fragment = fragmentBackups[journal.gen]
    /\ op.pc = "restore_reload" => state = Old
    /\ op.ctx = "finalize" \/ op.pc = "tidy_committed" => state # None
    /\ op.pc \in {"tidy_restored", "unlink_fragment_backup"} =>
          (state # None /\ state.previous # None => state.backup # gen)

(* The deployments of record.                                               *)
AuthorityOK ==
    /\ \A s \in Slots : projects[s] # Absent => projects[s].release \in images
    /\ Authority # None =>
          /\ projects[caddy].status = "running"
          /\ projects[fragment].status = "running"
          /\ Running(Authority.active)
          /\ Authority.active.release \in images
          /\ StateValid(Authority)
          /\ Authority.previous # None /\ retirement = None =>
                projects[Authority.previous.slot].release = Authority.previous.release

\* An operation that has not committed yet works on another slot.
Uncommitted ==
    \/ op.pc \in {"pull", "up", "start_target", "backup_fragment", "backup_state",
                  "write_journal"} \cup OpenPcs
    \/ op.kind = "deploy" /\ op.pc = "switch_check"

(* What the operation works on.                                             *)
TargetOK ==
    /\ Authority # None =>
          /\ Uncommitted => Authority.active.slot # op.slot
          /\ Engaged => Authority.active.slot # op.slot \/ Authority.active = Target
          /\ op.pc \in {"pull", "up"} /\ Authority.previous # None =>
                Authority.previous.slot # op.slot
    /\ op.pc \in {"pull", "up"} => projects[op.slot] = Absent
    /\ op.pc = "up" => op.release \in images
    /\ op.pc \in {"backup_fragment", "backup_state", "write_journal"} \cup OpenPcs =>
          Running(Target)
    /\ retirement # None /\ RetirementMatchesPrevious =>
          retirement.target.release # state.active.release
    /\ op.pc \in {"remove_images", "mark_removed", "commit_retired"} =>
          projects[retirement.target.slot] = Absent

ServiceInv == FilesInv /\ TrafficOK /\ AuthorityOK /\ TargetOK

-----------------------------------------------------------------------------
LEMMA GotoOp ==
    ASSUME op \in Operation, NEW pc, Goto(pc)
    PROVE  /\ op'.pc = pc /\ op'.kind = op.kind /\ op'.ctx = op.ctx
           /\ op'.slot = op.slot /\ op'.release = op.release
           /\ pc \in Places => op' \in Operation
  BY DEF Goto, Operation

LEMMA KnownOp == FilesInv => op \in Operation
  BY DEF FilesInv, OperationOK

LEMMA IdleOp == Idle \in Operation /\ Idle.pc = "idle" /\ Idle.ctx = "none" /\ Idle.kind = "none"
  BY DEF Idle, Operation, Places

USE DEF JournalPcs, RestorePcs, TidyPcs, RetirementPcs, DownPcs, CheckPcs, BodyPcs,
        TransactionPcs, OpenPcs, ConcludePcs, At, DocumentsUnchanged, BackupsUnchanged,
        files, docker, Pending, Done, Old, Engaged, Consistent, Transacting, Preparing

Standing == PlaceOK /\ OperationOK /\ JournalOK

\* What a step that writes no file does to the projects.
DockerTyped ==
    /\ caddy' \in Slots
    /\ projects' \in [Slots -> Project]
    /\ \A s \in Slots : ProjectOK(projects'[s])
    /\ images' \subseteq Releases
    /\ faults' \in 0 .. MaxFaults

LEMMA TypedStill ==
    ASSUME FilesInv, UNCHANGED <<caddy, docker, faults>> PROVE DockerTyped
  BY DEF FilesInv, FileTypes, TypeOK, DockerTyped

LEMMA TypedFault ==
    ASSUME FilesInv, Fault, UNCHANGED <<caddy, docker>> PROVE DockerTyped
  BY FaultsAssumption DEF FilesInv, FileTypes, TypeOK, DockerTyped, Fault

(* A step that writes no file and does not lead to a place with a guard of   *)
(* its own.                                                                  *)
LEMMA FilesStill ==
    ASSUME FilesInv, UNCHANGED files, DockerTyped, Standing',
           op'.pc \notin {"start_target", "backup_fragment", "backup_state", "write_journal",
                          "mark_retired", "unlink_retirement"} \cup DownPcs
    PROVE  FilesInv'
<1>1. FileTypes'
  BY DEF FilesInv, FileTypes, TypeOK, DockerTyped, Standing, OperationOK, Operation, Dated
<1>2. BackupsOK'
  BY DEF FilesInv, BackupsOK, JournalValid, StateValid, Dated
<1>3. RetirementOK'
  BY DEF FilesInv, RetirementOK, RetirementValid, RetirementCommitted, RetirementMatchesPrevious
<1> QED
  BY <1>1, <1>2, <1>3 DEF FilesInv, Standing

LEMMA ToIdle ==
    ASSUME FilesInv, op' = Idle, UNCHANGED <<journal, retirement, gen>>
    PROVE  Standing'
  BY IdleOp DEF Standing, FilesInv, PlaceOK, OperationOK, JournalOK

LEMMA ToParent ==
    ASSUME FilesInv, op.kind = "deploy", Engaged, op' = ParentTrap,
           UNCHANGED <<journal, retirement, gen>>
    PROVE  Standing' /\ op'.pc = "reconcile"
<1>1. /\ op'.pc = "reconcile" /\ op'.ctx = "parent" /\ op'.kind = op.kind
      /\ op'.slot = op.slot /\ op'.release = op.release /\ op' \in Operation
  BY KnownOp DEF ParentTrap, Operation, Places
<1> QED
  BY <1>1 DEF Standing, FilesInv, PlaceOK, OperationOK, JournalOK

LEMMA ToRecover ==
    ASSUME FilesInv, op.pc \in Transacting,
           op' = [op EXCEPT !.ctx = "recover", !.pc = "reconcile"],
           UNCHANGED <<journal, retirement, gen>>
    PROVE  Standing' /\ op'.pc = "reconcile"
<1>1. /\ op'.pc = "reconcile" /\ op'.ctx = "recover" /\ op'.kind = op.kind
      /\ op'.slot = op.slot /\ op'.release = op.release /\ op' \in Operation
  BY KnownOp DEF Operation, Places
<1> QED
  BY <1>1 DEF Standing, FilesInv, PlaceOK, OperationOK, JournalOK

LEMMA ToStop ==
    ASSUME FilesInv, Engaged, retirement = None, UNCHANGED <<retirement, gen>>,
           journal' \in {journal, None},
           NEW ctx \in {"recover", "parent"},
           ctx = "parent" => op.kind = "deploy",
           ctx = "recover" => op.kind \in {"deploy", "switch", "rollback"},
           op' = [op EXCEPT !.ctx = ctx, !.pc = "stop_target"]
    PROVE  Standing' /\ op'.pc = "stop_target"
<1>1. /\ op'.pc = "stop_target" /\ op'.ctx = ctx /\ op'.kind = op.kind
      /\ op'.slot = op.slot /\ op'.release = op.release /\ op' \in Operation
  <2>1. op \in Operation
    BY KnownOp
  <2>2. ctx \in {"none", "parent", "recover"} /\ "stop_target" \in Places
    BY DEF Places
  <2> QED
    BY <2>1, <2>2 DEF Operation
<1> QED
  BY <1>1 DEF Standing, FilesInv, PlaceOK, OperationOK, JournalOK

\* The EXIT traps, and what they do, lead to places without a guard.
LEMMA FailedStands ==
    ASSUME FilesInv, op' = Failed, UNCHANGED <<journal, retirement, gen>>
    PROVE  Standing' /\ op'.pc \in {"idle", "reconcile", "stop_target"}
<1>1. CASE op.pc \in Transacting
  BY <1>1, ToRecover DEF Failed
<1>2. CASE op.pc \notin Transacting /\ op.kind = "deploy" /\ op.pc \in Preparing
  <2>1. Engaged
    BY <1>2 DEF FilesInv, OperationOK
  <2> QED
    BY <1>2, <2>1, ToParent DEF Failed
<1>3. CASE op.pc \notin Transacting /\ op.kind = "rollback" /\ op.pc \in Preparing
  <2>1. Engaged /\ retirement = None
    BY <1>3 DEF FilesInv, OperationOK, JournalOK, PlaceOK
  <2>2. op' = [op EXCEPT !.ctx = "recover", !.pc = "stop_target"]
    BY <1>3 DEF Failed
  <2> QED
    BY <1>3, <2>1, <2>2, ToStop
<1>4. CASE op' = Idle
  BY <1>4, ToIdle, IdleOp
<1> QED
  BY <1>1, <1>2, <1>3, <1>4 DEF Failed

LEMMA DiedStands ==
    ASSUME FilesInv, op.pc \in JournalPcs, op' = Died, UNCHANGED <<journal, retirement, gen>>
    PROVE  Standing' /\ op'.pc \in {"idle", "reconcile"}
<1>1. CASE op.kind = "deploy" /\ op.ctx \in {"finalize", "recover"}
  BY <1>1, ToParent DEF Died
<1>2. CASE op' = Idle
  BY <1>2, ToIdle, IdleOp
<1> QED
  BY <1>1, <1>2 DEF Died

LEMMA JournalDoneStands ==
    ASSUME FilesInv, op.pc \in JournalPcs, op' = JournalDone, UNCHANGED <<retirement, gen>>,
           journal' \in {journal, None},
           op.ctx = "start" => journal' = None
    PROVE  Standing' /\ op'.pc \in {"idle", "reconcile", "stop_target", "orphans", "retire"}
<1>1. CASE op.ctx = "start"
  <2>1. /\ op'.pc = "retire" /\ op'.ctx = op.ctx /\ op'.kind = op.kind
        /\ op'.slot = op.slot /\ op'.release = op.release /\ op' \in Operation
    BY <1>1, KnownOp DEF JournalDone, Operation, Places
  <2> QED
    BY <1>1, <2>1 DEF Standing, FilesInv, PlaceOK, OperationOK, JournalOK
<1>2. CASE op.ctx = "finalize"
  <2>1. /\ op'.pc = "orphans" /\ op'.ctx = op.ctx /\ op'.kind = op.kind
        /\ op'.slot = op.slot /\ op'.release = op.release /\ op' \in Operation
    BY <1>2, KnownOp DEF JournalDone, Operation, Places
  <2> QED
    BY <1>2, <2>1 DEF Standing, FilesInv, PlaceOK, OperationOK, JournalOK
<1>3. CASE op.ctx = "recover" /\ op.kind = "deploy"
  <2>1. op' = ParentTrap
    BY <1>3 DEF JournalDone
  <2>2. /\ op'.pc = "reconcile" /\ op'.ctx = "parent" /\ op'.kind = op.kind
        /\ op'.slot = op.slot /\ op'.release = op.release /\ op' \in Operation
    BY <2>1, KnownOp DEF ParentTrap, Operation, Places
  <2> QED
    BY <1>3, <2>2 DEF Standing, FilesInv, PlaceOK, OperationOK, JournalOK
<1>4. CASE op.ctx = "recover" /\ op.kind = "switch"
  <2>1. op' = Idle
    BY <1>4 DEF JournalDone
  <2> QED
    BY <1>4, <2>1, IdleOp DEF Standing, FilesInv, PlaceOK, OperationOK, JournalOK
<1>5. CASE op.ctx = "parent" \/ (op.ctx = "recover" /\ op.kind = "rollback")
  <2>1. op' = [op EXCEPT !.ctx = op.ctx, !.pc = "stop_target"]
    BY <1>5, KnownOp DEF JournalDone, Operation
  <2> QED
    BY <1>5, <2>1, ToStop DEF FilesInv, OperationOK, JournalOK
<1> QED
  BY <1>1, <1>2, <1>3, <1>4, <1>5 DEF FilesInv, PlaceOK, OperationOK

LEMMA RetirementDoneStands ==
    ASSUME FilesInv, op.pc \in {"retire", "unlink_retirement"}, op' = RetirementDone,
           UNCHANGED <<journal, gen>>, retirement' = None
    PROVE  Standing' /\ op'.pc \in CheckPcs \cup {"idle", "switch_check"}
<1>1. CASE op' = Idle
  BY <1>1, IdleOp DEF Standing, FilesInv, PlaceOK, OperationOK, JournalOK
<1>2. CASE op.ctx # "retire" /\ gen # MaxGen
  <2>1. /\ op.kind \in Kinds
        /\ gen < MaxGen
    BY <1>2, FaultsAssumption DEF FilesInv, OperationOK, FileTypes, TypeOK
  <2>2. /\ op'.ctx = "body" /\ op'.kind = op.kind
        /\ op'.slot = op.slot /\ op'.release = op.release
        /\ op'.pc = CASE op.kind = "deploy" -> "preflight"
                      [] op.kind = "switch" -> "switch_check"
                      [] op.kind = "rollback" -> "rollback_check"
                      [] op.kind = "cleanup" -> "cleanup_check"
    BY <1>2, KnownOp DEF RetirementDone, Operation
  <2>3. op' \in Operation
    BY <1>2, KnownOp, <2>1 DEF RetirementDone, Operation, Places, Kinds
  <2> QED
    BY <1>2, <2>1, <2>2, <2>3 DEF Standing, FilesInv, PlaceOK, OperationOK, JournalOK, Kinds
<1> QED
  BY <1>1, <1>2 DEF RetirementDone

-----------------------------------------------------------------------------
(* The files stay consistent: an operation starts, or is interrupted.       *)

LEMMA StartFiles == ASSUME FilesInv, Start PROVE FilesInv'
<1> SUFFICES ASSUME NEW kind \in Kinds, NEW slot \in Slots \cup {None},
                    NEW release \in Releases \cup {None}, Begin(kind, slot, release),
                    kind \in {"deploy", "switch"} => slot \in Slots /\ release \in Releases
             PROVE  FilesInv'
  BY DEF Start, BeginDeploy, BeginSwitch, BeginRecorded, Deployment, Kinds, FilesInv,
         FileTypes, ProjectOK
<1>1. op = Idle /\ journal' = journal /\ retirement' = retirement /\ gen' = gen
      /\ UNCHANGED files /\ DockerTyped
  BY TypedStill DEF Begin
<1>2. /\ op'.kind = kind /\ op'.pc = "reconcile" /\ op'.ctx = "start"
      /\ op'.slot = slot /\ op'.release = release /\ op' \in Operation
  BY DEF Begin, Operation, Places
<1>3. Standing'
  BY <1>1, <1>2 DEF Standing, FilesInv, PlaceOK, OperationOK, JournalOK, Kinds
<1> QED
  BY <1>1, <1>2, <1>3, FilesStill

LEMMA InterruptFiles == ASSUME FilesInv, Interrupt PROVE FilesInv'
<1>1. UNCHANGED files /\ DockerTyped
  BY TypedFault DEF Interrupt, Crash, Fail, ChildKilled
<1>2. CASE Crash
  BY <1>1, <1>2, ToIdle, IdleOp, FilesStill DEF Crash
<1>3. CASE Fail
  BY <1>1, <1>3, FailedStands, FilesStill DEF Fail
<1>4. CASE ChildKilled
  <2>1. Engaged
    BY <1>4 DEF ChildKilled, FilesInv, PlaceOK
  <2> QED
    BY <1>1, <1>4, <2>1, ToParent, FilesStill DEF ChildKilled
<1> QED
  BY <1>2, <1>3, <1>4 DEF Interrupt

-----------------------------------------------------------------------------
(* ops_reconcile_journal. *)

LEMMA JournalReadFiles ==
    ASSUME FilesInv,
           NoJournal \/ UnreadableJournal \/ LoadJournal \/ CheckCommitted \/ RestoreCheck
    PROVE  FilesInv'
<1>1. UNCHANGED files /\ DockerTyped
  BY TypedStill DEF NoJournal, UnreadableJournal, LoadJournal, CheckCommitted, RestoreCheck
<1>2. CASE NoJournal
  BY <1>1, <1>2, JournalDoneStands, FilesStill DEF NoJournal
<1>3. CASE UnreadableJournal
  BY <1>1, <1>3, DiedStands, FilesStill DEF UnreadableJournal
<1>4. CASE LoadJournal
  <2>1. \E pc \in {"check_committed", "restore_fragment"} :
           /\ op'.pc = pc /\ op'.kind = op.kind /\ op'.ctx = op.ctx
           /\ op'.slot = op.slot /\ op'.release = op.release /\ op' \in Operation
           /\ pc = "check_committed" <=> journal.phase = "state_committed"
    BY <1>4, KnownOp, GotoOp DEF LoadJournal, Places
  <2>2. Standing'
    BY <1>1, <1>4, <2>1 DEF LoadJournal, Standing, FilesInv, PlaceOK, OperationOK, JournalOK
  <2> QED
    BY <1>1, <2>1, <2>2, FilesStill
<1>5. CASE CheckCommitted \/ RestoreCheck
  <2>1. CASE op' = Died
    BY <1>1, <1>5, <2>1, DiedStands, FilesStill DEF CheckCommitted, RestoreCheck
  <2>2. CASE Goto("unlink_journal")
    <3>1. /\ op'.pc = "unlink_journal" /\ op'.kind = op.kind /\ op'.ctx = op.ctx
          /\ op'.slot = op.slot /\ op'.release = op.release /\ op' \in Operation
      BY <2>2, KnownOp, GotoOp DEF Places
    <3>2. Standing'
      BY <1>1, <1>5, <3>1 DEF CheckCommitted, RestoreCheck, Standing, FilesInv, PlaceOK, OperationOK, JournalOK
    <3> QED
      BY <1>1, <3>1, <3>2, FilesStill
  <2> QED
    BY <1>5, <2>1, <2>2 DEF CheckCommitted, RestoreCheck
<1> QED
  BY <1>2, <1>3, <1>4, <1>5

\* A step inside the restoring of the files.
LEMMA RestoreStands ==
    ASSUME FilesInv, NEW pc \in RestorePcs, op.pc \in RestorePcs, Goto(pc),
           UNCHANGED <<journal, retirement, gen>>
    PROVE  Standing' /\ op'.pc = pc
<1>1. /\ op'.pc = pc /\ op'.kind = op.kind /\ op'.ctx = op.ctx
      /\ op'.slot = op.slot /\ op'.release = op.release /\ op' \in Operation
  BY KnownOp, GotoOp DEF Places
<1> QED
  BY <1>1 DEF Standing, FilesInv, PlaceOK, OperationOK, JournalOK

LEMMA RestoreFiles ==
    ASSUME FilesInv, RestoreFragment \/ RestoreState \/ RestoreReload \/ RestoreSkipped
    PROVE  FilesInv'
<1>1. CASE RestoreFragment
  <2>1. Standing' /\ op'.pc = "restore_state"
    BY <1>1, RestoreStands DEF RestoreFragment
  <2>2. fragment' \in Slots
    BY <1>1 DEF RestoreFragment, FilesInv, JournalOK, BackupsOK, JournalValid, FileTypes, TypeOK, Journal
  <2>3. FileTypes'
    BY <1>1, <2>1, <2>2 DEF RestoreFragment, FilesInv, FileTypes, TypeOK, Dated, Standing, OperationOK, Operation
  <2>4. BackupsOK' /\ RetirementOK'
    BY <1>1, <2>1 DEF RestoreFragment, FilesInv, BackupsOK, RetirementOK, JournalValid, StateValid, Dated,
       RetirementValid, RetirementCommitted, RetirementMatchesPrevious
  <2> QED
    BY <2>1, <2>3, <2>4 DEF FilesInv, Standing
<1>2. CASE RestoreState
  <2>1. Standing' /\ op'.pc = "restore_reload"
    BY <1>2, RestoreStands DEF RestoreState
  <2>2. state' = Old /\ state' \in State \cup {None} /\ (state' # None => Dated(state'))
    BY <1>2 DEF RestoreState, FilesInv, JournalOK, BackupsOK, JournalValid, FileTypes, TypeOK, Journal
  <2>3. FileTypes'
    BY <1>2, <2>1, <2>2 DEF RestoreState, FilesInv, FileTypes, TypeOK, Dated, Standing, OperationOK, Operation
  <2>4. BackupsOK' /\ RetirementOK'
    BY <1>2, <2>1 DEF RestoreState, FilesInv, JournalOK, BackupsOK, RetirementOK, JournalValid, StateValid, Dated
  <2> QED
    BY <2>1, <2>3, <2>4 DEF FilesInv, Standing
<1>3. CASE RestoreReload
  <2>1. Standing' /\ op'.pc = "restore_check"
    BY <1>3, RestoreStands DEF RestoreReload
  <2>2. UNCHANGED files /\ DockerTyped
    BY <1>3 DEF RestoreReload, FilesInv, FileTypes, TypeOK, DockerTyped
  <2> QED
    BY <2>1, <2>2, FilesStill
<1>4. CASE RestoreSkipped
  <2>1. Standing' /\ op'.pc \in {"restore_state", "restore_reload", "restore_check"}
    BY <1>4, RestoreStands DEF RestoreSkipped, Skipped
  <2>2. UNCHANGED files /\ DockerTyped
    BY <1>4, TypedFault DEF RestoreSkipped, Skipped
  <2> QED
    BY <2>1, <2>2, FilesStill
<1> QED
  BY <1>1, <1>2, <1>3, <1>4

LEMMA UnlinkFiles ==
    ASSUME FilesInv, UnlinkJournal \/ JournalKept \/ UnlinkStateBackup \/ UnlinkFragmentBackup
    PROVE  FilesInv'
<1>1. CASE UnlinkJournal
  <2>1. \E pc \in {"tidy_committed", "tidy_restored"} :
           /\ op'.pc = pc /\ op'.kind = op.kind /\ op'.ctx = op.ctx
           /\ op'.slot = op.slot /\ op'.release = op.release /\ op' \in Operation
    BY <1>1, KnownOp, GotoOp DEF UnlinkJournal, Places
  <2>2. FileTypes'
    BY <1>1, <2>1 DEF UnlinkJournal, FilesInv, FileTypes, TypeOK, Dated, OperationOK, Operation
  <2>3. PlaceOK' /\ OperationOK' /\ JournalOK'
    BY <1>1, <2>1 DEF UnlinkJournal, FilesInv, PlaceOK, OperationOK, JournalOK, FileTypes, TypeOK, Journal
  <2>4. BackupsOK' /\ RetirementOK'
    BY <1>1, <2>1 DEF UnlinkJournal, FilesInv, JournalOK, BackupsOK, RetirementOK
  <2> QED
    BY <2>2, <2>3, <2>4 DEF FilesInv
<1>2. CASE JournalKept
  <2>1. UNCHANGED files /\ DockerTyped
    BY <1>2, TypedFault DEF JournalKept
  <2> QED
    BY <1>2, <2>1, JournalDoneStands, FilesStill DEF JournalKept
<1>3. CASE UnlinkStateBackup
  <2>1. CASE op' = JournalDone
    <3>1. Standing' /\ op'.pc \in {"idle", "reconcile", "stop_target", "orphans", "retire"}
      BY <1>3, <2>1, JournalDoneStands DEF UnlinkStateBackup, FilesInv, JournalOK
    <3>2. FileTypes'
      BY <1>3, <3>1 DEF UnlinkStateBackup, FilesInv, FileTypes, TypeOK, Dated, JournalOK, Standing, OperationOK, Operation
    <3>3. BackupsOK' /\ RetirementOK'
      BY <1>3, <3>1 DEF UnlinkStateBackup, FilesInv, JournalOK, BackupsOK, RetirementOK,
         RetirementValid, RetirementCommitted, RetirementMatchesPrevious
    <3> QED
      BY <3>1, <3>2, <3>3 DEF FilesInv, Standing
  <2>2. CASE op' = [op EXCEPT !.pc = "unlink_fragment_backup"]
    <3>1. /\ op'.pc = "unlink_fragment_backup" /\ op'.kind = op.kind /\ op'.ctx = op.ctx
          /\ op'.slot = op.slot /\ op'.release = op.release /\ op' \in Operation
      BY <2>2, KnownOp DEF Operation, Places
    <3>2. FileTypes'
      BY <1>3, <3>1 DEF UnlinkStateBackup, FilesInv, FileTypes, TypeOK, Dated, JournalOK, Standing, OperationOK, Operation
    <3>3. PlaceOK' /\ OperationOK' /\ JournalOK'
      BY <1>3, <3>1 DEF UnlinkStateBackup, FilesInv, PlaceOK, OperationOK, JournalOK
    <3>4. BackupsOK' /\ RetirementOK'
      BY <1>3, <3>1 DEF UnlinkStateBackup, FilesInv, JournalOK, BackupsOK, RetirementOK,
         RetirementValid, RetirementCommitted, RetirementMatchesPrevious
    <3> QED
      BY <3>2, <3>3, <3>4 DEF FilesInv
  <2> QED
    BY <1>3, <2>1, <2>2 DEF UnlinkStateBackup
<1>4. CASE UnlinkFragmentBackup
  <2>1. Standing' /\ op'.pc \in {"idle", "reconcile", "stop_target", "orphans", "retire"}
    BY <1>4, JournalDoneStands DEF UnlinkFragmentBackup, FilesInv, JournalOK
  <2>2. FileTypes'
    BY <1>4, <2>1 DEF UnlinkFragmentBackup, FilesInv, FileTypes, TypeOK, Dated, JournalOK, Standing, OperationOK, Operation
  <2>3. BackupsOK' /\ RetirementOK'
    BY <1>4, <2>1 DEF UnlinkFragmentBackup, FilesInv, JournalOK, BackupsOK, RetirementOK,
         RetirementValid, RetirementCommitted, RetirementMatchesPrevious
  <2> QED
    BY <2>1, <2>2, <2>3 DEF FilesInv, Standing
<1> QED
  BY <1>1, <1>2, <1>3, <1>4

-----------------------------------------------------------------------------
(* ops_reconcile_retirement. *)

\* A step from one place of the retirement to another one.
LEMMA RetireStands ==
    ASSUME FilesInv, NEW pc \in RetirementPcs, op.pc \in RetirementPcs,
           op' = [op EXCEPT !.pc = pc], UNCHANGED <<journal, gen>>, retirement' # None
    PROVE  Standing' /\ op'.pc = pc
<1>1. /\ op'.pc = pc /\ op'.kind = op.kind /\ op'.ctx = op.ctx
      /\ op'.slot = op.slot /\ op'.release = op.release /\ op' \in Operation
  BY KnownOp DEF Operation, Places
<1> QED
  BY <1>1 DEF Standing, FilesInv, PlaceOK, OperationOK, JournalOK

\* A step of the retirement that writes no file.
LEMMA RetireStill ==
    ASSUME FilesInv, NEW pc \in RetirementPcs, op.pc \in RetirementPcs, retirement # None,
           op' = [op EXCEPT !.pc = pc], UNCHANGED files, DockerTyped,
           pc \in DownPcs => RetirementMatchesPrevious,
           pc \in {"mark_retired", "unlink_retirement"} => RetirementCommitted
    PROVE  FilesInv'
<1>1. Standing' /\ op'.pc = pc
  BY RetireStands
<1>2. FileTypes'
  BY <1>1 DEF FilesInv, FileTypes, TypeOK, DockerTyped, Standing, OperationOK, Operation, Dated
<1>3. BackupsOK'
  BY <1>1 DEF FilesInv, JournalOK, BackupsOK
<1>4. RetirementOK'
  BY <1>1 DEF FilesInv, RetirementOK, RetirementValid, RetirementCommitted, RetirementMatchesPrevious
<1> QED
  BY <1>1, <1>2, <1>3, <1>4 DEF FilesInv, Standing

LEMMA LoadRetirementFiles == ASSUME FilesInv, LoadRetirement PROVE FilesInv'
<1>1. UNCHANGED files /\ DockerTyped
  BY TypedStill DEF LoadRetirement
<1>2. CASE retirement = None
  <2>1. Standing' /\ op'.pc \in CheckPcs \cup {"idle", "switch_check"}
    BY <1>1, <1>2, RetirementDoneStands DEF LoadRetirement
  <2> QED
    BY <1>1, <2>1, FilesStill
<1>3. CASE op' = Idle
  BY <1>1, <1>3, ToIdle, IdleOp, FilesStill
<1>4. CASE retirement # None /\ op' # Idle
  <2>1. \E pc \in {"unlink_retirement", "down", "verify_absent"} :
           /\ op' = [op EXCEPT !.pc = pc]
           /\ IF pc = "unlink_retirement" THEN RetirementCommitted
              ELSE RetirementMatchesPrevious
    BY <1>4 DEF LoadRetirement
  <2> QED
    BY <1>1, <1>4, <2>1, RetireStill DEF LoadRetirement
<1> QED
  BY <1>2, <1>3, <1>4

LEMMA RetirementFiles == ASSUME FilesInv, ReconcileRetirement PROVE FilesInv'
<1>1. CASE ComposeDown \/ RemoveImages \/ VerifyAbsent
  <2>1. UNCHANGED files /\ DockerTyped
    BY <1>1 DEF ComposeDown, RemoveImages, VerifyAbsent, FilesInv, FileTypes, TypeOK, DockerTyped,
       ProjectOK, Absent, Project
  <2>2. retirement # None /\ RetirementMatchesPrevious /\ op.pc \in DownPcs
    BY <1>1 DEF ComposeDown, RemoveImages, VerifyAbsent, FilesInv, JournalOK, RetirementOK
  <2>3. CASE op' = Idle
    BY <2>1, <2>3, ToIdle, IdleOp, FilesStill
  <2>4. CASE op' # Idle
    <3>1. \E pc \in DownPcs : op' = [op EXCEPT !.pc = pc]
      BY <1>1, <2>4 DEF ComposeDown, RemoveImages, VerifyAbsent, Goto
    <3> QED
      BY <2>1, <2>2, <3>1, RetireStill
  <2> QED
    BY <2>3, <2>4
<1>2. CASE LoadRetirement
  BY <1>2, LoadRetirementFiles
<1>3. CASE MarkRemoved \/ MarkRetired
  <2>1. PICK pc \in {"verify_absent", "unlink_retirement"}, phase \in {"resources_removed", "state_committed"} :
           /\ op' = [op EXCEPT !.pc = pc]
           /\ retirement' = [retirement EXCEPT !.phase = phase]
           /\ op.pc = IF pc = "verify_absent" THEN "mark_removed" ELSE "mark_retired"
    BY <1>3 DEF MarkRemoved, MarkRetired, MarkRetirement, Goto
  <2>2. retirement \in Retirement /\ retirement' \in Retirement
        /\ retirement'.gen = retirement.gen /\ retirement'.activeGen = retirement.activeGen
        /\ retirement'.target = retirement.target /\ retirement'.backup = retirement.backup
    BY <2>1 DEF FilesInv, FileTypes, TypeOK, JournalOK, Retirement
  <2>3. retirement' # None
    BY <2>2, NoneAssumption
  <2>4. Standing' /\ op'.pc = pc
    BY <1>3, <2>1, <2>3, RetireStands DEF MarkRemoved, MarkRetired, MarkRetirement
  <2>5. FileTypes'
    BY <1>3, <2>1, <2>2, <2>4 DEF MarkRemoved, MarkRetired, MarkRetirement, FilesInv, FileTypes, TypeOK, JournalOK,
       Dated, Standing, OperationOK, Operation
  <2>6. BackupsOK' /\ RetirementOK'
    BY <1>3, <2>1, <2>2, <2>4 DEF MarkRemoved, MarkRetired, MarkRetirement, FilesInv, JournalOK, BackupsOK, RetirementOK,
       RetirementValid, RetirementCommitted, RetirementMatchesPrevious
  <2> QED
    BY <2>4, <2>5, <2>6 DEF FilesInv, Standing
<1>4. CASE CommitRetiredState
  <2>1. retirement # None /\ retirement' # None /\ state # None /\ state \in State
        /\ retirement \in Retirement
    BY <1>4 DEF CommitRetiredState, FilesInv, JournalOK, RetirementOK, FileTypes, TypeOK
  <2>2. Standing' /\ op'.pc = "mark_retired"
    BY <1>4, <2>1, RetireStands DEF CommitRetiredState, Goto
  <2>3. state' \in State /\ state'.gen = retirement.gen /\ state'.previous = None /\ state' # None
    BY <1>4, <2>1, NoneAssumption DEF CommitRetiredState, State, Retirement
  <2>4. FileTypes'
    BY <1>4, <2>1, <2>2, <2>3 DEF CommitRetiredState, FilesInv, FileTypes, TypeOK, JournalOK, Dated, Standing,
       OperationOK, Operation, Retirement
  <2>5. BackupsOK' /\ RetirementOK'
    BY <1>4, <2>1, <2>2, <2>3 DEF CommitRetiredState, FilesInv, JournalOK, BackupsOK, RetirementOK,
       RetirementValid, RetirementCommitted, RetirementMatchesPrevious
  <2> QED
    BY <2>2, <2>4, <2>5 DEF FilesInv, Standing
<1>5. CASE UnlinkRetirement
  <2>1. Standing' /\ op'.pc \in CheckPcs \cup {"idle", "switch_check"}
    BY <1>5, RetirementDoneStands DEF UnlinkRetirement
  <2>2. FileTypes'
    BY <1>5, <2>1 DEF UnlinkRetirement, FilesInv, FileTypes, TypeOK, Dated, Standing, OperationOK, Operation
  <2>3. BackupsOK' /\ RetirementOK'
    BY <1>5, <2>1 DEF UnlinkRetirement, FilesInv, JournalOK, BackupsOK, RetirementOK
  <2> QED
    BY <2>1, <2>2, <2>3 DEF FilesInv, Standing
<1> QED
  BY <1>1, <1>2, <1>3, <1>4, <1>5 DEF ReconcileRetirement

-----------------------------------------------------------------------------
(* The bodies of the scripts. *)

LEMMA RetirementWritten ==
    ASSUME FilesInv, WriteRetirement
    PROVE  /\ state \in State /\ Consistent /\ state.previous # None /\ gen' = gen + 1
           /\ gen' \in Generation /\ state.gen \in Generation /\ state.gen <= gen
           /\ state.backup \in Generation
           /\ retirement' \in Retirement /\ retirement' # None
           /\ retirement'.gen = gen' /\ retirement'.activeGen = state.gen
           /\ retirement'.target = state.previous /\ retirement'.backup = state.backup
<1>1. /\ state \in State /\ Consistent /\ state.previous # None /\ gen' = gen + 1
      /\ gen' \in Generation /\ state.gen \in Generation /\ state.gen <= gen
      /\ state.backup \in Generation
  BY FaultsAssumption DEF WriteRetirement, CleanupAllowed, FilesInv, FileTypes, TypeOK, JournalOK,
     Generation, State, Dated
<1>2. /\ retirement' \in Retirement /\ retirement' # None
      /\ retirement'.gen = gen' /\ retirement'.activeGen = state.gen
      /\ retirement'.target = state.previous /\ retirement'.backup = state.backup
  BY <1>1, NoneAssumption DEF WriteRetirement, Retirement, State
<1> QED
  BY <1>1, <1>2

LEMMA PrepareFiles == ASSUME FilesInv, Prepare PROVE FilesInv'
<1>1. CASE op' = Failed /\ UNCHANGED <<files, caddy, docker, faults>>
  BY <1>1, TypedStill, FailedStands, FilesStill
<1>2. CASE op' = Idle /\ UNCHANGED <<files, caddy, docker, faults>>
  BY <1>2, TypedStill, ToIdle, IdleOp, FilesStill
<1>3. CASE \E pc \in {"pull", "up", "switch_check"} :
              /\ op.pc \in {"preflight", "pull", "up"} /\ op' = [op EXCEPT !.pc = pc]
              /\ op.pc = "preflight" <=> pc = "pull"
              /\ UNCHANGED files /\ (Preflight \/ Pull \/ Up)
  <2>1. PICK pc \in {"pull", "up", "switch_check"} :
           /\ op.pc \in {"preflight", "pull", "up"} /\ UNCHANGED files
           /\ op'.pc = pc /\ op'.kind = op.kind /\ op'.ctx = op.ctx
           /\ op'.slot = op.slot /\ op'.release = op.release /\ op' \in Operation
    BY <1>3, KnownOp DEF Operation, Places
  <2>2. DockerTyped
    BY <1>3, <2>1 DEF Preflight, Pull, Up, Checked, FilesInv, OperationOK, FileTypes, TypeOK, DockerTyped, ProjectOK, Project
  <2>3. Standing'
    BY <2>1 DEF Standing, FilesInv, PlaceOK, OperationOK, JournalOK
  <2> QED
    BY <2>1, <2>2, <2>3, FilesStill
<1>4. CASE /\ SwitchCheck \/ RollbackCheck \/ StartTarget
           /\ op'.pc \in {"backup_fragment", "start_target"} /\ op' # Failed
  <2>1. /\ op.pc \in {"switch_check", "rollback_check", "start_target"} /\ UNCHANGED files
        /\ op'.pc = (IF op.pc = "rollback_check" THEN "start_target" ELSE "backup_fragment")
        /\ op'.kind = op.kind /\ op'.ctx = op.ctx /\ op' \in Operation
        /\ op'.slot \in Slots /\ op'.release \in Releases
        /\ state # None => Consistent
    <3>1. CASE SwitchCheck
      <4>1. op.pc = "switch_check" /\ op' = [op EXCEPT !.pc = "backup_fragment"] /\ (state # None => Consistent)
            /\ UNCHANGED files
        BY <1>4, <3>1 DEF SwitchCheck, Checked
      <4> QED
        BY <4>1, KnownOp DEF Operation, Places, FilesInv, OperationOK
    <3>2. CASE RollbackCheck
      <4>1. op.pc = "rollback_check" /\ Consistent /\ state.previous # None /\ UNCHANGED files
            /\ op' = [op EXCEPT !.pc = "start_target", !.slot = state.previous.slot,
                               !.release = state.previous.release]
        BY <1>4, <3>2, IdleOp DEF RollbackCheck
      <4>2. state.previous.slot \in Slots /\ state.previous.release \in Releases
        BY <4>1 DEF FilesInv, FileTypes, TypeOK, State, Deployment
      <4> QED
        BY <4>1, <4>2, KnownOp DEF Operation, Places
    <3>3. CASE StartTarget
      <4>1. op.pc = "start_target" /\ op' = [op EXCEPT !.pc = "backup_fragment"] /\ UNCHANGED files
        BY <1>4, <3>3 DEF StartTarget, Goto
      <4> QED
        BY <4>1, KnownOp DEF Operation, Places, FilesInv, OperationOK, BackupsOK
    <3> QED
      BY <1>4, <3>1, <3>2, <3>3
  <2>2. DockerTyped
    BY <1>4, <2>1 DEF SwitchCheck, RollbackCheck, StartTarget, Checked, Goto, FilesInv, OperationOK, FileTypes,
       TypeOK, DockerTyped, ProjectOK, Project, Absent
  <2>3. Standing'
    BY <2>1 DEF Standing, FilesInv, PlaceOK, OperationOK, JournalOK
  <2>4. FileTypes'
    BY <2>1, <2>2, <2>3 DEF FilesInv, FileTypes, TypeOK, DockerTyped, Standing, OperationOK, Operation, Dated
  <2>5. BackupsOK' /\ RetirementOK'
    BY <2>1 DEF FilesInv, PlaceOK, JournalOK, BackupsOK, RetirementOK, StateValid
  <2> QED
    BY <2>3, <2>4, <2>5 DEF FilesInv, Standing
<1>5. CASE WriteRetirement
  <2>1. /\ op.pc = "cleanup_check" /\ op'.pc = "retire" /\ op'.ctx = "retire" /\ op'.kind = op.kind
        /\ op'.slot = op.slot /\ op'.release = op.release /\ op' \in Operation
    BY <1>5, KnownOp DEF WriteRetirement, Operation, Places
  <2>2. /\ state \in State /\ Consistent /\ state.previous # None /\ gen' = gen + 1
        /\ gen' \in Generation /\ state.gen \in Generation /\ state.gen <= gen
        /\ state.backup \in Generation
    BY <1>5, RetirementWritten
  <2>3. /\ retirement' \in Retirement /\ retirement' # None
        /\ retirement'.gen = gen' /\ retirement'.activeGen = state.gen
        /\ retirement'.target = state.previous /\ retirement'.backup = state.backup
    BY <1>5, RetirementWritten
  <2>4. FileTypes'
    BY <1>5, <2>1, <2>2, <2>3, FaultsAssumption DEF WriteRetirement, FilesInv, FileTypes, TypeOK, JournalOK, Dated,
       OperationOK, Operation, Generation, State
  <2>5. PlaceOK' /\ OperationOK' /\ JournalOK'
    BY <1>5, <2>1, <2>3 DEF WriteRetirement, FilesInv, PlaceOK, OperationOK, JournalOK
  <2>6. BackupsOK' /\ RetirementOK'
    BY <1>5, <2>1, <2>2, <2>3 DEF WriteRetirement, FilesInv, JournalOK, BackupsOK, RetirementOK, StateValid,
       RetirementValid, RetirementCommitted, RetirementMatchesPrevious
  <2> QED
    BY <2>4, <2>5, <2>6 DEF FilesInv
<1> QED
  <2>1. CASE Preflight \/ Pull \/ Up
    BY <1>1, <1>3, <2>1 DEF Preflight, Pull, Up, Checked, Goto
  <2>2. CASE SwitchCheck \/ StartTarget
    <3>1. \/ op' = Failed /\ UNCHANGED <<files, caddy, docker, faults>>
          \/ op' = [op EXCEPT !.pc = "backup_fragment"]
      BY <2>2 DEF SwitchCheck, StartTarget, Checked, Goto
    <3>2. op' = [op EXCEPT !.pc = "backup_fragment"] => op'.pc = "backup_fragment"
      BY KnownOp DEF Operation
    <3> QED
      BY <1>1, <1>4, <2>2, <3>1, <3>2, FailedStands DEF SwitchCheck, StartTarget, Checked
  <2>3. CASE RollbackCheck
    <3>1. op' # Idle => op'.pc = "start_target"
      BY <2>3, KnownOp DEF RollbackCheck, Operation
    <3> QED
      BY <1>2, <1>4, <2>3, <3>1, FailedStands DEF RollbackCheck
  <2> QED
    BY <1>2, <1>5, <2>1, <2>2, <2>3 DEF Prepare, CleanupRefused

\* A step from one place of a transaction to the next one.
LEMMA TransactStands ==
    ASSUME FilesInv, NEW pc \in TransactionPcs, op.pc \in TransactionPcs, Goto(pc),
           UNCHANGED retirement,
           pc \in OpenPcs => Pending',
           pc = "committed" => Done',
           pc \in {"backup_fragment", "backup_state", "write_journal"} =>
              journal' = None /\ gen' \in Generation /\ pc # "backup_fragment"
    PROVE  Standing' /\ op'.pc = pc
<1>1. /\ op'.pc = pc /\ op'.kind = op.kind /\ op'.ctx = op.ctx
      /\ op'.slot = op.slot /\ op'.release = op.release /\ op' \in Operation
  BY KnownOp, GotoOp DEF Places
<1> QED
  BY <1>1 DEF Standing, FilesInv, PlaceOK, OperationOK, JournalOK

LEMMA BackupFiles == ASSUME FilesInv, BackupFragment \/ BackupState PROVE FilesInv'
<1>1. CASE BackupFragment
  <2>1. /\ journal = None /\ op.pc = "backup_fragment" /\ gen' = gen + 1 /\ gen' \in Generation
        /\ retirement = None /\ Goto("backup_state") /\ gen \in Nat
        /\ UNCHANGED <<state, journal, retirement, fragment, stateBackups, caddy, docker, faults>>
    BY <1>1, FaultsAssumption DEF BackupFragment, FilesInv, JournalOK, PlaceOK, FileTypes, TypeOK, Generation
  <2>2. Standing' /\ op'.pc = "backup_state"
    BY <2>1, TransactStands
  <2>3. /\ fragmentBackups' = [fragmentBackups EXCEPT ![gen + 1] = fragment]
        /\ fragmentBackups' \in [Generation -> Slots \cup {None}]
        /\ fragmentBackups'[gen'] = fragment
        /\ \A g \in Generation : g # gen + 1 => fragmentBackups'[g] = fragmentBackups[g]
    BY <1>1, <2>1 DEF BackupFragment, FilesInv, FileTypes, TypeOK
  <2>4. /\ gen' \in 0 .. MaxGen
        /\ gen + 1 \notin 0 .. gen
    BY <2>1 DEF Generation
  <2>5. state # None => /\ state \in State /\ state.gen \in Nat /\ state.gen < gen' /\ Dated(state)'
                        /\ state.previous # None => state.backup \in Generation /\ state.backup # gen + 1
    BY <2>1 DEF FilesInv, FileTypes, TypeOK, Dated, Generation, State
  <2>6. FileTypes'
    BY <2>1, <2>2, <2>3, <2>4, <2>5 DEF FilesInv, FileTypes, TypeOK, Standing, OperationOK, Operation
  <2>7. state # None => Consistent'
    BY <2>1, <2>3, <2>5 DEF FilesInv, BackupsOK, StateValid
  <2>8. BackupsOK'
    BY <2>1, <2>2, <2>3, <2>5, <2>7 DEF BackupsOK
  <2>9. RetirementOK'
    BY <2>1 DEF RetirementOK
  <2> QED
    BY <2>2, <2>6, <2>8, <2>9 DEF FilesInv, Standing
<1>2. CASE BackupState
  <2>1. /\ journal = None /\ op.pc = "backup_state" /\ gen \in Generation /\ retirement = None
        /\ Goto("write_journal")
        /\ UNCHANGED <<state, journal, retirement, fragment, fragmentBackups, gen, caddy, docker, faults>>
    BY <1>2 DEF BackupState, FilesInv, JournalOK, PlaceOK
  <2>2. Standing' /\ op'.pc = "write_journal"
    BY <2>1, TransactStands
  <2>3. FileTypes'
    BY <1>2, <2>1, <2>2 DEF BackupState, FilesInv, FileTypes, TypeOK, Dated, Standing, OperationOK, Operation
  <2>4. BackupsOK'
    BY <1>2, <2>1, <2>2 DEF BackupState, FilesInv, BackupsOK, FileTypes, TypeOK, StateValid, Dated
  <2>5. RetirementOK'
    BY <2>1 DEF RetirementOK
  <2> QED
    BY <2>2, <2>3, <2>4, <2>5 DEF FilesInv, Standing
<1> QED
  BY <1>1, <1>2

LEMMA JournalFiles == ASSUME FilesInv, WriteJournal \/ MarkInstalled \/ MarkCommitted PROVE FilesInv'
<1>1. CASE WriteJournal
  <2>1. /\ op.pc = "write_journal" /\ gen \in Generation /\ retirement = None /\ Goto("journalled")
        /\ journal' = [gen |-> gen, hadState |-> state # None, phase |-> "prepared"]
        /\ UNCHANGED <<state, retirement, fragment, fragmentBackups, stateBackups, gen, caddy, docker, faults>>
    BY <1>1 DEF WriteJournal, FilesInv, JournalOK, PlaceOK
  <2>2. journal' \in Journal /\ journal' # None
    <3>1. (state # None) \in BOOLEAN
      OBVIOUS
    <3>2. \A b \in BOOLEAN : [gen |-> gen, hadState |-> b, phase |-> "prepared"] \in Journal
      BY <2>1 DEF Journal
    <3>3. journal' \in Journal
      BY <2>1, <3>1, <3>2, Zenon
    <3> QED
      BY <3>3, NoneAssumption
  <2>3. Standing' /\ op'.pc = "journalled"
    BY <2>1, <2>2, TransactStands
  <2>4. FileTypes'
    BY <2>1, <2>2, <2>3 DEF FilesInv, FileTypes, TypeOK, Dated, Standing, OperationOK, Operation
  <2>5. BackupsOK'
    BY <2>1, <2>2, <2>3, SlotsAssumption DEF FilesInv, BackupsOK, FileTypes, TypeOK, StateValid, JournalValid, Dated
  <2>6. RetirementOK'
    BY <2>1 DEF RetirementOK
  <2> QED
    BY <2>3, <2>4, <2>5, <2>6 DEF FilesInv, Standing
<1>2. CASE MarkInstalled \/ MarkCommitted
  <2>1. PICK pc \in {"commit", "committed"}, phase \in {"traffic_installed", "state_committed"} :
           /\ op.pc \in {"mark_installed", "mark_committed"} /\ Goto(pc)
           /\ pc = "committed" <=> phase = "state_committed"
           /\ journal' = [journal EXCEPT !.phase = phase]
           /\ UNCHANGED <<state, retirement, fragment, fragmentBackups, stateBackups, gen, caddy, docker, faults>>
    BY <1>2 DEF MarkInstalled, MarkCommitted, MarkJournal
  <2>2. journal \in Journal /\ Pending /\ retirement = None
    BY <2>1 DEF FilesInv, FileTypes, TypeOK, JournalOK, PlaceOK
  <2>3. /\ journal' \in Journal /\ journal' # None /\ journal'.gen = journal.gen
        /\ journal'.hadState = journal.hadState /\ journal'.phase = phase
    BY <2>1, <2>2, NoneAssumption DEF Journal
  <2>4. Standing' /\ op'.pc = pc
    BY <2>1, <2>3, TransactStands
  <2>5. FileTypes'
    BY <2>1, <2>2, <2>3, <2>4 DEF FilesInv, FileTypes, TypeOK, Dated, Standing, OperationOK, Operation
  <2>6. BackupsOK'
    BY <2>1, <2>2, <2>3, <2>4 DEF FilesInv, BackupsOK, StateValid, JournalValid, Dated
  <2>7. RetirementOK'
    BY <2>1, <2>2 DEF RetirementOK
  <2> QED
    BY <2>4, <2>5, <2>6, <2>7 DEF FilesInv, Standing
<1> QED
  BY <1>1, <1>2

LEMMA TransactFiles == ASSUME FilesInv, Transact PROVE FilesInv'
<1>1. CASE Begun \/ InstallFragment \/ Reload
  <2>1. PICK pc \in {"install", "reload", "mark_installed"} :
           op.pc \in {"journalled", "install", "reload"} /\ Goto(pc)
    BY <1>1 DEF Begun, Checked, InstallFragment, Reload, Goto
  <2>2. /\ UNCHANGED <<state, journal, retirement, fragmentBackups, stateBackups, gen, projects, images, faults>>
        /\ fragment' \in Slots /\ caddy' \in Slots /\ retirement = None
    BY <1>1 DEF Begun, Checked, InstallFragment, Reload, FilesInv, FileTypes, TypeOK, OperationOK, JournalOK, PlaceOK
  <2>3. Standing' /\ op'.pc = pc
    BY <2>1, <2>2, TransactStands DEF FilesInv, JournalOK
  <2>4. FileTypes'
    BY <2>2, <2>3 DEF FilesInv, FileTypes, TypeOK, Dated, Standing, OperationOK, Operation
  <2>5. BackupsOK'
    BY <2>1, <2>2, <2>3 DEF FilesInv, BackupsOK, StateValid, JournalValid, Dated
  <2>6. RetirementOK'
    BY <2>2 DEF RetirementOK
  <2> QED
    BY <2>3, <2>4, <2>5, <2>6 DEF FilesInv, Standing
<1>2. CASE CommitState
  <2>1. /\ op.pc = "commit" /\ Goto("mark_committed") /\ state' = NewState /\ retirement = None
        /\ UNCHANGED <<journal, retirement, fragment, fragmentBackups, stateBackups, gen, caddy, docker, faults>>
    BY <1>2 DEF CommitState, FilesInv, JournalOK, PlaceOK
  <2>2. Standing' /\ op'.pc = "mark_committed"
    BY <2>1, TransactStands DEF FilesInv, JournalOK
  <2>3. journal \in Journal /\ journal.gen = gen /\ gen \in Generation
    BY <2>1 DEF FilesInv, JournalOK, FileTypes, TypeOK, Journal
  <2>4. /\ state' \in State /\ state'.gen = gen
        /\ state'.previous # None => state'.backup = gen
    BY <2>1, <2>3 DEF NewState, State, Deployment, Target, FilesInv, FileTypes, TypeOK, OperationOK
  <2>5. FileTypes'
    BY <2>1, <2>2, <2>3, <2>4 DEF FilesInv, FileTypes, TypeOK, Dated, Generation, Standing, OperationOK, Operation
  <2>6. BackupsOK'
    BY <2>1, <2>2 DEF FilesInv, BackupsOK, StateValid, JournalValid, Dated
  <2>7. RetirementOK'
    BY <2>1 DEF RetirementOK
  <2> QED
    BY <2>2, <2>5, <2>6, <2>7 DEF FilesInv, Standing
<1>3. CASE Finalize
  <2>1. /\ op'.pc = "reconcile" /\ op'.kind = op.kind /\ op'.ctx = "finalize"
        /\ op'.slot = op.slot /\ op'.release = op.release /\ op' \in Operation
        /\ UNCHANGED files /\ DockerTyped
    BY <1>3, KnownOp, TypedStill DEF Finalize, Operation, Places
  <2>2. Standing'
    BY <1>3, <2>1 DEF Finalize, Standing, FilesInv, PlaceOK, OperationOK, JournalOK
  <2> QED
    BY <2>1, <2>2, FilesStill
<1> QED
  BY <1>1, <1>2, <1>3, BackupFiles, JournalFiles DEF Transact

-----------------------------------------------------------------------------
(* After the transaction, and the host. *)

LEMMA ConcludeFiles == ASSUME FilesInv, Conclude PROVE FilesInv'
<1>1. CASE RemoveOrphan
  <2>1. /\ op.pc = "orphans" /\ ~Pending /\ retirement = None
        /\ UNCHANGED <<fragment, state, journal, retirement, gen, caddy, docker, op, faults>>
        /\ fragmentBackups' \in [Generation -> Slots \cup {None}]
        /\ stateBackups' \in [Generation -> State \cup {None}]
    BY <1>1 DEF RemoveOrphan, OrphanFragments, OrphanStates, FilesInv, PlaceOK, JournalOK, FileTypes, TypeOK
  <2>2. FileTypes'
    BY <2>1 DEF FilesInv, FileTypes, TypeOK, Dated
  <2>3. PlaceOK' /\ OperationOK' /\ JournalOK' /\ RetirementOK'
    BY <2>1 DEF FilesInv, PlaceOK, OperationOK, JournalOK, RetirementOK
  <2>4. BackupsOK'
    BY <2>1 DEF BackupsOK
  <2> QED
    BY <2>2, <2>3, <2>4 DEF FilesInv
<1>2. CASE OrphansRemoved
  <2>1. /\ op'.pc = "stop_old" /\ op'.kind = op.kind /\ op'.ctx = op.ctx
        /\ op'.slot = op.slot /\ op'.release = op.release /\ op' \in Operation
        /\ UNCHANGED files /\ DockerTyped
    BY <1>2, KnownOp, GotoOp, TypedStill DEF OrphansRemoved, Places
  <2>2. Standing'
    BY <1>2, <2>1 DEF OrphansRemoved, Standing, FilesInv, PlaceOK, OperationOK, JournalOK
  <2> QED
    BY <2>1, <2>2, FilesStill
<1>3. CASE StopOld \/ StopCandidate
  <2>1. /\ op' = Idle /\ UNCHANGED <<files, caddy, images, faults>>
        /\ projects' = projects \/ \E s : projects' = [projects EXCEPT ![s] = Stopped(@)]
    BY <1>3 DEF StopOld, StopCandidate
  <2>2. DockerTyped
    BY <2>1 DEF FilesInv, FileTypes, TypeOK, DockerTyped, ProjectOK, Stopped, Project, Absent
  <2> QED
    BY <2>1, <2>2, ToIdle, IdleOp, FilesStill
<1> QED
  BY <1>1, <1>2, <1>3 DEF Conclude

LEMMA HostFiles == ASSUME FilesInv, CaddyRestart \/ Operator PROVE FilesInv'
<1>1. UNCHANGED <<files, op>> /\ DockerTyped
  BY DEF CaddyRestart, Operator, FilesInv, FileTypes, TypeOK, DockerTyped, ProjectOK, Project, Absent
<1>2. FileTypes'
  BY <1>1 DEF FilesInv, FileTypes, TypeOK, DockerTyped, Dated
<1>3. PlaceOK' /\ OperationOK' /\ JournalOK'
  BY <1>1 DEF FilesInv, PlaceOK, OperationOK, JournalOK
<1>4. BackupsOK' /\ RetirementOK'
  BY <1>1 DEF FilesInv, BackupsOK, RetirementOK, JournalValid, StateValid, Dated, RetirementValid,
     RetirementCommitted, RetirementMatchesPrevious
<1> QED
  BY <1>2, <1>3, <1>4 DEF FilesInv

LEMMA FilesInit == Init => FilesInv
<1> SUFFICES ASSUME Init PROVE FilesInv
  OBVIOUS
<1>1. FileTypes
  BY FaultsAssumption DEF Init, FileTypes, TypeOK, ProjectOK, Project, Absent, Idle
<1>2. PlaceOK /\ OperationOK /\ JournalOK
  BY IdleOp, SlotsAssumption DEF Init, PlaceOK, OperationOK, JournalOK
<1>3. BackupsOK /\ RetirementOK
  BY IdleOp DEF Init, BackupsOK, RetirementOK
<1> QED
  BY <1>1, <1>2, <1>3 DEF FilesInv

LEMMA FilesStep == FilesInv /\ [Next]_vars => FilesInv'
<1> SUFFICES ASSUME FilesInv, [Next]_vars PROVE FilesInv'
  OBVIOUS
<1>1. CASE ReconcileJournal
  BY <1>1, JournalReadFiles, RestoreFiles, UnlinkFiles DEF ReconcileJournal
<1>2. CASE UNCHANGED vars
  <2>1. FileTypes'
    BY <1>2 DEF vars, FilesInv, FileTypes, TypeOK, Dated
  <2>2. PlaceOK' /\ OperationOK' /\ JournalOK'
    BY <1>2 DEF vars, FilesInv, PlaceOK, OperationOK, JournalOK
  <2>3. BackupsOK' /\ RetirementOK'
    BY <1>2 DEF vars, FilesInv, BackupsOK, RetirementOK, JournalValid, StateValid, Dated, RetirementValid,
       RetirementCommitted, RetirementMatchesPrevious
  <2> QED
    BY <2>1, <2>2, <2>3 DEF FilesInv
<1> QED
  BY <1>1, <1>2, StartFiles, InterruptFiles, RetirementFiles, PrepareFiles, TransactFiles, ConcludeFiles,
     HostFiles DEF Next, Run

-----------------------------------------------------------------------------
(* The service, and the steps of ReleaseAuthority. *)

\* To who looks at the authority and the traffic, a step of the promise.
PromiseStep == [Promise!Next]_(Promise!vars)

LEMMA Stutters ==
    ASSUME Authority' = Authority, UNCHANGED <<caddy, projects>> PROVE PromiseStep
  BY DEF PromiseStep, Promise!vars

LEMMA Routes ==
    ASSUME Authority' = Authority, projects' = projects, caddy' \in Slots,
           Authority # None => projects[caddy'].status = "running"
    PROVE  PromiseStep
<1>1. Promise!Route(caddy')
  BY SlotsAssumption DEF Promise!Route
<1> QED
  BY <1>1 DEF PromiseStep, Promise!Next

LEMMA StartsSlot ==
    ASSUME Authority' = Authority, caddy' = caddy, NEW s \in Slots,
           projects \in [Slots -> Project],
           NEW p, p.status = "running", projects' = [projects EXCEPT ![s] = p]
    PROVE  PromiseStep
<1>1. Promise!StartSlot(s)
  BY DEF Promise!StartSlot
<1> QED
  BY <1>1 DEF PromiseStep, Promise!Next

LEMMA StopsSlot ==
    ASSUME Authority' = Authority, caddy' = caddy, NEW s \in Slots,
           projects \in [Slots -> Project],
           NEW p, p.status # "running", projects' = [projects EXCEPT ![s] = p],
           Authority # None => Authority.active.slot # s /\ caddy # s
    PROVE  PromiseStep
<1>1. Promise!StopSlot(s)
  BY DEF Promise!StopSlot, Promise!Needed
<1> QED
  BY <1>1 DEF PromiseStep, Promise!Next

\* A step of the operation alone, to a place where little is asked.
QuietPcs == {"idle", "reconcile", "check_committed", "restore_fragment", "unlink_journal",
             "orphans", "stop_old", "stop_target", "retire", "down", "verify_absent",
             "unlink_retirement"} \cup CheckPcs

LEMMA QuietService ==
    ASSUME ServiceInv, FilesInv', UNCHANGED <<files, caddy, docker>>,
           op'.pc \in QuietPcs \/ (op'.pc = "switch_check" /\ op'.kind = "switch"),
           op'.pc \in {"unlink_journal", "stop_target"} /\ Pending => Restored,
           op'.ctx = "finalize" => state # None,
           Engaged' => Engaged /\ op'.slot = op.slot /\ op'.release = op.release
    PROVE  ServiceInv' /\ PromiseStep
<1>1. Authority' = Authority
  BY DEF Authority
<1>2. TrafficOK'
  BY DEF ServiceInv, TrafficOK, StateValid, Restored, QuietPcs
<1>3. AuthorityOK'
  BY <1>1 DEF ServiceInv, AuthorityOK, StateValid, Running
<1>4. TargetOK'
  BY <1>1 DEF ServiceInv, TargetOK, Uncommitted, Target, QuietPcs, RetirementMatchesPrevious
<1> QED
  BY <1>1, <1>2, <1>3, <1>4, Stutters DEF ServiceInv

\* Where the traps and the end of ops_reconcile_journal lead.
LEMMA FailedPlace ==
    ASSUME ServiceInv, FilesInv', UNCHANGED <<files, caddy, docker>>, op' = Failed
    PROVE  ServiceInv' /\ PromiseStep
<1>1. /\ op'.pc \in {"idle", "reconcile", "stop_target"}
      /\ op'.pc = "stop_target" => op.pc \in Preparing
      /\ op' # Idle => op'.slot = op.slot /\ op'.release = op.release /\ Engaged
      /\ op'.ctx # "finalize"
  BY KnownOp, IdleOp DEF ServiceInv, Failed, ParentTrap, Operation, FilesInv, OperationOK
<1>2. op' = Idle => ~Engaged'
  BY IdleOp
<1>3. op'.pc = "stop_target" /\ Pending => Restored
  BY <1>1 DEF ServiceInv, FilesInv, JournalOK, TrafficOK
<1> QED
  BY <1>1, <1>2, <1>3, QuietService DEF QuietPcs

LEMMA DiedPlace ==
    ASSUME ServiceInv, FilesInv', UNCHANGED <<files, caddy, docker>>, op' = Died
    PROVE  ServiceInv' /\ PromiseStep
<1>1. /\ op'.pc \in {"idle", "reconcile"}
      /\ op' # Idle => op'.slot = op.slot /\ op'.release = op.release /\ Engaged
      /\ op'.ctx # "finalize"
  BY KnownOp, IdleOp DEF ServiceInv, Died, ParentTrap, Operation
<1>2. op' = Idle => ~Engaged'
  BY IdleOp
<1> QED
  BY <1>1, <1>2, QuietService DEF QuietPcs

LEMMA JournalDonePlace ==
    ASSUME FilesInv, op.pc \in JournalPcs, op' = JournalDone
    PROVE  /\ op'.pc \in {"idle", "reconcile", "stop_target", "orphans", "retire"}
           /\ op'.ctx = "finalize" => op.ctx = "finalize"
           /\ Engaged' => Engaged /\ op'.slot = op.slot /\ op'.release = op.release
           /\ ~Uncommitted'
<1>1. op \in Operation /\ op.ctx \in {"start", "finalize", "recover", "parent"}
      /\ (op.ctx = "parent" => op.kind = "deploy")
  BY KnownOp DEF FilesInv, PlaceOK, OperationOK
<1>2. CASE op' = Idle
  BY <1>2, IdleOp DEF Uncommitted
<1>3. CASE op' # Idle
  BY <1>1, <1>3 DEF JournalDone, ParentTrap, Operation, Uncommitted
<1> QED
  BY <1>2, <1>3

LEMMA RetirementDonePlace ==
    ASSUME FilesInv, op.pc \in {"retire", "unlink_retirement"}, op' = RetirementDone
    PROVE  /\ op'.pc \in CheckPcs \cup {"idle"} \/ (op'.pc = "switch_check" /\ op'.kind = "switch")
           /\ op'.ctx \notin {"finalize", "recover", "parent"}
           /\ ~Engaged' /\ ~Uncommitted'
<1>1. op \in Operation /\ op.kind \in Kinds
  BY KnownOp DEF FilesInv, OperationOK, Operation
<1>2. CASE op' = Idle
  BY <1>2, IdleOp DEF Uncommitted
<1>3. CASE op' # Idle
  BY <1>1, <1>3 DEF RetirementDone, Operation, Kinds, Uncommitted
<1> QED
  BY <1>2, <1>3

LEMMA StartService == ASSUME ServiceInv, FilesInv', Start PROVE ServiceInv' /\ PromiseStep
<1>1. /\ UNCHANGED <<files, caddy, docker>>
      /\ op'.pc = "reconcile" /\ op'.ctx = "start"
  BY DEF Start, BeginDeploy, BeginSwitch, BeginRecorded, Begin
<1> QED
  BY <1>1, QuietService DEF QuietPcs

LEMMA InterruptService ==
    ASSUME ServiceInv, FilesInv', Interrupt PROVE ServiceInv' /\ PromiseStep
<1>1. UNCHANGED <<files, caddy, docker>>
  BY DEF Interrupt, Crash, Fail, ChildKilled
<1>2. CASE Crash
  <2>1. op' = Idle /\ op'.pc = "idle" /\ op'.ctx = "none" /\ op'.kind = "none"
    BY <1>2, IdleOp DEF Crash
  <2> QED
    BY <1>1, <2>1, QuietService DEF QuietPcs
<1>3. CASE Fail
  BY <1>1, <1>3, FailedPlace DEF Fail
<1>4. CASE ChildKilled
  <2>1. /\ op'.pc = "reconcile" /\ op'.ctx = "parent" /\ op'.slot = op.slot /\ op'.release = op.release
        /\ Engaged
    BY <1>4, KnownOp DEF ChildKilled, ParentTrap, Operation, ServiceInv, FilesInv, PlaceOK
  <2> QED
    BY <1>1, <2>1, QuietService DEF QuietPcs
<1> QED
  BY <1>2, <1>3, <1>4 DEF Interrupt

LEMMA ReadService ==
    ASSUME ServiceInv, FilesInv',
           NoJournal \/ UnreadableJournal \/ LoadJournal \/ CheckCommitted \/ RestoreCheck \/ JournalKept
    PROVE  ServiceInv' /\ PromiseStep
<1>1. UNCHANGED <<files, caddy, docker>> /\ op.pc \in JournalPcs
  BY DEF NoJournal, UnreadableJournal, LoadJournal, CheckCommitted, RestoreCheck, JournalKept
<1>2. CASE op' = Died
  BY <1>1, <1>2, DiedPlace
<1>3. CASE NoJournal \/ JournalKept
  <2>1. op' = JournalDone /\ (Pending => Restored)
    BY <1>3 DEF NoJournal, JournalKept, ServiceInv, TrafficOK
  <2>2. op'.ctx = "finalize" => state # None
    BY <1>1, <2>1, JournalDonePlace DEF ServiceInv, TrafficOK
  <2> QED
    BY <1>1, <2>1, <2>2, JournalDonePlace, QuietService DEF QuietPcs, ServiceInv
<1>4. CASE \E pc \in {"check_committed", "restore_fragment", "unlink_journal"} :
              Goto(pc) /\ (pc = "unlink_journal" /\ Pending => Restored)
  <2>1. PICK pc \in {"check_committed", "restore_fragment", "unlink_journal"} :
           /\ op'.pc = pc /\ op'.kind = op.kind /\ op'.ctx = op.ctx
           /\ op'.slot = op.slot /\ op'.release = op.release
           /\ pc = "unlink_journal" /\ Pending => Restored
    BY <1>4, KnownOp, GotoOp DEF ServiceInv
  <2>2. op'.ctx = "finalize" => state # None
    BY <2>1 DEF ServiceInv, TrafficOK
  <2>3. Engaged' => Engaged
    BY <1>1, <2>1
  <2> QED
    BY <1>1, <2>1, <2>2, <2>3, QuietService DEF QuietPcs
<1> QED
  <2>1. LoadJournal => \E pc \in {"check_committed", "restore_fragment"} : Goto(pc)
    BY DEF LoadJournal
  <2>2. CheckCommitted => op' = Died \/ (Goto("unlink_journal") /\ ~Pending)
    BY DEF CheckCommitted, ServiceInv, FilesInv, JournalOK
  <2>3. RestoreCheck => op' = Died \/ (Goto("unlink_journal") /\ Restored)
    BY DEF RestoreCheck, ServiceInv, TrafficOK
  <2> QED
    BY <1>2, <1>3, <1>4, <2>1, <2>2, <2>3 DEF UnreadableJournal

\* While a journal is undone, the authority does not move.
LEMMA RestoreService ==
    ASSUME Failing \subseteq {"unlink"}, ServiceInv, FilesInv',
           RestoreFragment \/ RestoreState \/ RestoreReload \/ RestoreSkipped
    PROVE  ServiceInv' /\ PromiseStep
<1>1. ~RestoreSkipped
  BY DEF RestoreSkipped, Skipped
<1>2. /\ Pending /\ Pending' /\ UNCHANGED <<journal, fragmentBackups, stateBackups, gen, retirement, docker>>
      /\ Authority = Old /\ Authority' = Authority /\ Old' = Old /\ retirement = None
  BY <1>1 DEF RestoreFragment, RestoreState, RestoreReload, ServiceInv, FilesInv, JournalOK, Authority
<1>3. /\ op'.pc \in {"restore_state", "restore_reload", "restore_check"}
      /\ op'.kind = op.kind /\ op'.ctx = op.ctx /\ op.pc \in RestorePcs
      /\ op'.slot = op.slot /\ op'.release = op.release
      /\ Engaged' => Engaged
      /\ ~Uncommitted'
  BY <1>1, KnownOp, GotoOp DEF RestoreFragment, RestoreState, RestoreReload, ServiceInv, Uncommitted
<1>4. /\ JournalValid
      /\ Authority # None => fragmentBackups[journal.gen] = Authority.active.slot
  BY <1>2 DEF ServiceInv, FilesInv, BackupsOK, JournalValid
<1>5. TrafficOK'
  <2>1. op'.pc = "restore_state" => fragment' = fragmentBackups[journal.gen]
    BY <1>1, <1>3, KnownOp, GotoOp DEF RestoreFragment, RestoreState, RestoreReload, ServiceInv
  <2>2. op'.pc = "restore_reload" => state' = Old /\ fragment' = fragmentBackups[journal.gen]
    BY <1>1, <1>3, KnownOp, GotoOp DEF RestoreFragment, RestoreState, RestoreReload, ServiceInv, TrafficOK
  <2>3. op'.pc = "restore_check" =>
           state' = Old /\ fragment' = fragmentBackups[journal.gen] /\ caddy' = fragment'
    BY <1>1, <1>3, KnownOp, GotoOp DEF RestoreFragment, RestoreState, RestoreReload, ServiceInv, TrafficOK
  <2>4. op'.ctx # "finalize"
    BY <1>2, <1>3 DEF ServiceInv, FilesInv, JournalOK
  <2> QED
    BY <1>2, <1>3, <2>1, <2>2, <2>3, <2>4 DEF TrafficOK, Restored
<1>6. caddy' \in Slots /\ (Authority # None => projects[caddy'].status = "running")
                       /\ (Authority # None => projects[fragment'].status = "running")
  <2>1. Authority # None => projects[fragmentBackups[journal.gen]].status = "running"
    BY <1>4 DEF ServiceInv, AuthorityOK, Running
  <2> QED
    BY <1>1, <2>1 DEF RestoreFragment, RestoreState, RestoreReload, ServiceInv, AuthorityOK, FilesInv, FileTypes, TypeOK
<1>7. AuthorityOK'
  BY <1>2, <1>6 DEF ServiceInv, AuthorityOK, Running, StateValid
<1>8. TargetOK'
  BY <1>2, <1>3 DEF ServiceInv, TargetOK, Target, Uncommitted
<1>9. PromiseStep
  BY <1>2, <1>6, Routes
<1> QED
  BY <1>5, <1>7, <1>8, <1>9 DEF ServiceInv

LEMMA UnlinkService ==
    ASSUME ServiceInv, FilesInv', UnlinkJournal PROVE ServiceInv' /\ PromiseStep
<1>1. /\ op.pc = "unlink_journal" /\ journal # None /\ journal' = None /\ retirement = None
      /\ op'.pc = (IF Pending THEN "tidy_restored" ELSE "tidy_committed")
      /\ op'.kind = op.kind /\ op'.ctx = op.ctx /\ op'.slot = op.slot /\ op'.release = op.release
      /\ UNCHANGED <<state, fragment, retirement, fragmentBackups, stateBackups, gen, caddy, docker>>
  BY KnownOp, GotoOp DEF UnlinkJournal, ServiceInv, FilesInv, JournalOK
<1>2. /\ Pending => state = Old /\ fragment = fragmentBackups[journal.gen]
      /\ caddy = fragment
      /\ state # None => Consistent
  BY <1>1 DEF ServiceInv, TrafficOK, FilesInv, BackupsOK, JournalValid, Restored
<1>3. Authority' = Authority
  BY <1>1, <1>2 DEF Authority
<1>4. Pending /\ state # None /\ state.previous # None => state.backup # gen
  BY <1>2 DEF ServiceInv, FilesInv, BackupsOK, Dated, FileTypes, TypeOK, State, Generation
<1>5. ~Pending => state # None
  BY <1>1 DEF ServiceInv, TrafficOK
<1>6. TrafficOK'
  BY <1>1, <1>2, <1>4, <1>5 DEF ServiceInv, TrafficOK, StateValid
<1>7. AuthorityOK'
  BY <1>1, <1>3 DEF ServiceInv, AuthorityOK, StateValid, Running
<1>8. TargetOK'
  BY <1>1, <1>3 DEF ServiceInv, TargetOK, Target, Uncommitted
<1> QED
  BY <1>1, <1>3, <1>6, <1>7, <1>8, Stutters DEF ServiceInv

LEMMA TidyService ==
    ASSUME ServiceInv, FilesInv', UnlinkStateBackup \/ UnlinkFragmentBackup
    PROVE  ServiceInv' /\ PromiseStep
<1>1. /\ journal = None /\ retirement = None /\ op.pc \in TidyPcs
      /\ UNCHANGED <<state, fragment, journal, retirement, gen, caddy, docker>>
  BY DEF UnlinkStateBackup, UnlinkFragmentBackup, ServiceInv, FilesInv, JournalOK
<1>2. /\ Authority = state /\ Authority' = state
      /\ caddy = fragment /\ (state # None => Consistent)
  BY <1>1 DEF ServiceInv, TrafficOK, Authority
<1>3. state # None => StateValid(state)'
  <2>1. CASE UnlinkFragmentBackup
    <3>1. state # None /\ state.previous # None => state.backup \in Generation /\ state.backup # gen
      BY <2>1 DEF UnlinkFragmentBackup, ServiceInv, TrafficOK, FilesInv, FileTypes, Dated
    <3> QED
      BY <1>1, <1>2, <2>1, <3>1 DEF UnlinkFragmentBackup, StateValid, ServiceInv, FilesInv, FileTypes, TypeOK
  <2>2. CASE UnlinkStateBackup
    BY <1>1, <1>2, <2>2 DEF UnlinkStateBackup, StateValid
  <2> QED
    BY <2>1, <2>2
<1>4. /\ \/ op'.pc \in {"idle", "reconcile", "stop_target", "orphans", "retire"}
         \/ /\ op'.pc = "unlink_fragment_backup"
            /\ state # None /\ state.previous # None => state.backup # gen
      /\ op'.ctx = "finalize" => op.ctx = "finalize"
      /\ Engaged' => Engaged /\ op'.slot = op.slot /\ op'.release = op.release
      /\ ~Uncommitted'
  <2>1. CASE op' = JournalDone
    BY <1>1, <2>1, JournalDonePlace DEF ServiceInv
  <2>2. CASE op' # JournalDone
    <3>1. op' = [op EXCEPT !.pc = "unlink_fragment_backup"] /\ ~(op.pc = "tidy_committed" /\ state.previous # None)
          /\ op.pc \in {"tidy_committed", "tidy_restored"}
      BY <2>2 DEF UnlinkStateBackup, UnlinkFragmentBackup
    <3>2. /\ op'.pc = "unlink_fragment_backup" /\ op'.kind = op.kind /\ op'.ctx = op.ctx
          /\ op'.slot = op.slot /\ op'.release = op.release
      BY <3>1, KnownOp DEF ServiceInv, Operation
    <3> QED
      BY <3>1, <3>2 DEF ServiceInv, TrafficOK, Uncommitted
  <2> QED
    BY <2>1, <2>2
<1>5. TrafficOK'
  BY <1>1, <1>2, <1>3, <1>4 DEF ServiceInv, TrafficOK
<1>6. AuthorityOK'
  BY <1>1, <1>2, <1>3 DEF ServiceInv, AuthorityOK, Running
<1>7. TargetOK'
  BY <1>1, <1>2, <1>4 DEF ServiceInv, TargetOK, Target, Uncommitted
<1> QED
  BY <1>1, <1>2, <1>5, <1>6, <1>7, Stutters DEF ServiceInv

\* While a deployment is retired, traffic is where the state says.
LEMMA RetiringService ==
    ASSUME ServiceInv, retirement # None
    PROVE  /\ journal = None /\ Authority = state /\ state \in State
           /\ caddy = fragment /\ Consistent /\ projects \in [Slots -> Project]
           /\ RetirementMatchesPrevious =>
                 /\ retirement.target \in Deployment /\ retirement.target # None
                 /\ retirement.target.slot \in Slots
                 /\ retirement.target.slot # state.active.slot
<1>1. journal = None /\ state # None
  BY DEF ServiceInv, FilesInv, JournalOK, RetirementOK
<1>2. Authority = state /\ caddy = fragment /\ Consistent
  BY <1>1 DEF ServiceInv, TrafficOK, Authority
<1>3. state \in State /\ retirement \in Retirement /\ projects \in [Slots -> Project]
  BY <1>1 DEF ServiceInv, FilesInv, FileTypes, TypeOK
<1>4. retirement.target \in Deployment /\ retirement.target # None /\ retirement.target.slot \in Slots
  BY <1>3, NoneAssumption DEF Retirement, Deployment
<1> QED
  BY <1>1, <1>2, <1>3, <1>4 DEF StateValid, RetirementMatchesPrevious

LEMMA DownService ==
    ASSUME ServiceInv, FilesInv', ComposeDown \/ RemoveImages PROVE ServiceInv' /\ PromiseStep
<1>1. /\ op.pc \in DownPcs /\ retirement # None /\ RetirementMatchesPrevious
      /\ UNCHANGED <<files, caddy>> /\ op'.ctx = op.ctx /\ op'.pc \in {"remove_images", "mark_removed"}
      /\ op.ctx \in {"start", "retire"}
  BY KnownOp, GotoOp DEF ComposeDown, RemoveImages, ServiceInv, FilesInv, JournalOK, RetirementOK, PlaceOK
<1>2. /\ journal = None /\ Authority = state /\ Authority' = state
      /\ caddy = fragment /\ Consistent
      /\ retirement.target \in Deployment /\ retirement.target.slot \in Slots
      /\ retirement.target.slot # state.active.slot
  BY <1>1, RetiringService DEF Authority
<1>3. TrafficOK'
  BY <1>1, <1>2 DEF ServiceInv, TrafficOK, StateValid
<1>4. CASE ComposeDown
  <2>1. /\ projects' = [projects EXCEPT ![retirement.target.slot] = Absent]
        /\ images' = images /\ projects \in [Slots -> Project] /\ op'.pc = "remove_images"
    BY <1>4, KnownOp, GotoOp DEF ComposeDown, ServiceInv, FilesInv, FileTypes, TypeOK
  <2>2. AuthorityOK'
    BY <1>1, <1>2, <2>1 DEF ServiceInv, AuthorityOK, Running, StateValid
  <2>3. TargetOK'
    BY <1>1, <1>2, <2>1 DEF ServiceInv, TargetOK, Uncommitted, RetirementMatchesPrevious
  <2>4. PromiseStep
    <3>1. Absent.status # "running"
      BY DEF Absent
    <3>2. Authority' = Authority /\ caddy' = caddy /\ caddy # retirement.target.slot
          /\ Authority.active.slot # retirement.target.slot
      BY <1>1, <1>2
    <3> QED
      BY <1>2, <2>1, <3>1, <3>2, StopsSlot
  <2> QED
    BY <1>3, <2>2, <2>3, <2>4 DEF ServiceInv
<1>5. CASE RemoveImages
  <2>1. /\ projects' = projects /\ images' = images \ {retirement.target.release}
        /\ projects[retirement.target.slot] = Absent
        /\ retirement.target.release # state.active.release
    BY <1>1, <1>5 DEF RemoveImages, ServiceInv, TargetOK
  <2>2. state \in State
    BY <1>1, RetiringService
  <2>3. \A s \in Slots : s = retirement.target.slot \/ s = state.active.slot
    BY <1>2, <2>2, SlotsAssumption DEF State, Deployment
  <2>4. Running(state.active)
    BY <1>2 DEF ServiceInv, AuthorityOK
  <2>5. \A s \in Slots : projects'[s] # Absent => projects'[s].release \in images'
    BY <2>1, <2>3, <2>4 DEF ServiceInv, AuthorityOK, Running
  <2>6. AuthorityOK'
    BY <1>1, <1>2, <2>1, <2>5 DEF ServiceInv, AuthorityOK, Running, StateValid
  <2>7. TargetOK'
    BY <1>1, <1>2, <2>1 DEF ServiceInv, TargetOK, Uncommitted, RetirementMatchesPrevious
  <2>8. PromiseStep
    BY <1>1, <1>2, <2>1, Stutters
  <2> QED
    BY <1>3, <2>6, <2>7, <2>8 DEF ServiceInv
<1> QED
  BY <1>4, <1>5

LEMMA MarkService ==
    ASSUME ServiceInv, FilesInv', MarkRemoved \/ MarkRetired \/ VerifyAbsent
    PROVE  ServiceInv' /\ PromiseStep
<1>1. /\ op.pc \in RetirementPcs \ {"retire"} /\ retirement # None /\ op.ctx \in {"start", "retire"}
      /\ UNCHANGED <<fragment, state, journal, fragmentBackups, stateBackups, gen, caddy, docker>>
  BY DEF MarkRemoved, MarkRetired, VerifyAbsent, MarkRetirement, ServiceInv, FilesInv, JournalOK, PlaceOK
<1>2. /\ journal = None /\ Authority = state /\ Authority' = state
      /\ caddy = fragment /\ Consistent
  BY <1>1, RetiringService DEF Authority
<1>3. /\ op'.ctx \in {"none", op.ctx} /\ op'.pc \in {"idle", "verify_absent", "unlink_retirement", "commit_retired"}
      /\ op'.pc = "commit_retired" => VerifyAbsent /\ projects[retirement.target.slot] = Absent
  BY KnownOp, GotoOp, IdleOp DEF MarkRemoved, MarkRetired, VerifyAbsent, MarkRetirement, ServiceInv
<1>4. /\ retirement' # None
      /\ retirement'.target = retirement.target /\ retirement'.activeGen = retirement.activeGen
      /\ retirement'.backup = retirement.backup
  <2>1. retirement \in Retirement
    BY <1>1 DEF ServiceInv, FilesInv, FileTypes, TypeOK
  <2>2. retirement' = retirement \/ \E phase : retirement' = [retirement EXCEPT !.phase = phase]
    BY DEF MarkRemoved, MarkRetired, VerifyAbsent, MarkRetirement
  <2>3. retirement' # None
    BY <1>1, <2>1, NoneAssumption DEF MarkRemoved, MarkRetired, VerifyAbsent, MarkRetirement, Retirement
  <2> QED
    BY <2>1, <2>2, <2>3 DEF Retirement
<1>5. TrafficOK'
  BY <1>1, <1>2, <1>3 DEF ServiceInv, TrafficOK, StateValid
<1>6. AuthorityOK'
  BY <1>1, <1>2, <1>4 DEF ServiceInv, AuthorityOK, Running, StateValid
<1>7. TargetOK'
  BY <1>1, <1>2, <1>3, <1>4 DEF ServiceInv, TargetOK, Uncommitted, RetirementMatchesPrevious, VerifyAbsent
<1> QED
  BY <1>1, <1>2, <1>5, <1>6, <1>7, Stutters DEF ServiceInv

LEMMA RetireService ==
    ASSUME ServiceInv, FilesInv', CommitRetiredState PROVE ServiceInv' /\ PromiseStep
<1>1. /\ op.pc = "commit_retired" /\ retirement # None /\ op.ctx \in {"start", "retire"}
      /\ op'.pc = "mark_retired" /\ op'.ctx = op.ctx /\ RetirementMatchesPrevious
      /\ UNCHANGED <<fragment, journal, retirement, fragmentBackups, stateBackups, gen, caddy, docker>>
  BY KnownOp, GotoOp DEF CommitRetiredState, ServiceInv, FilesInv, JournalOK, RetirementOK, PlaceOK
<1>2. /\ journal = None /\ Authority = state /\ Authority' = state' /\ state # None
      /\ caddy = fragment /\ Consistent /\ projects \in [Slots -> Project]
      /\ retirement.target # None
  BY <1>1, RetiringService DEF Authority
<1>3. /\ state'.active = state.active /\ state'.previous = None
      /\ state' # None
  <2>1. state' = [gen |-> retirement.gen, active |-> state.active, previous |-> None, backup |-> None]
    BY DEF CommitRetiredState
  <2>2. retirement \in Retirement /\ state \in State
    BY <1>1, RetiringService DEF ServiceInv, FilesInv, FileTypes, TypeOK
  <2>3. state' \in State
    BY <2>1, <2>2 DEF State, Retirement
  <2> QED
    BY <2>1, <2>3, NoneAssumption
<1>4. TrafficOK'
  BY <1>1, <1>2, <1>3 DEF ServiceInv, TrafficOK, StateValid
<1>5. AuthorityOK'
  BY <1>1, <1>2, <1>3 DEF ServiceInv, AuthorityOK, Running, StateValid
<1>6. TargetOK'
  BY <1>1, <1>2, <1>3 DEF ServiceInv, TargetOK, Uncommitted, RetirementMatchesPrevious
<1>7. PromiseStep
  <2>1. state.previous # None /\ projects[state.previous.slot].status # "running"
    BY <1>1, <1>2 DEF ServiceInv, TargetOK, RetirementMatchesPrevious, Absent
  <2>2. Promise!Retire
    BY <1>1, <1>2, <1>3, <2>1 DEF Promise!Retire
  <2> QED
    BY <2>2 DEF PromiseStep, Promise!Next
<1> QED
  BY <1>4, <1>5, <1>6, <1>7 DEF ServiceInv

LEMMA RetirementReadService ==
    ASSUME ServiceInv, FilesInv', LoadRetirement \/ UnlinkRetirement
    PROVE  ServiceInv' /\ PromiseStep
<1>1. CASE LoadRetirement
  <2>1. UNCHANGED <<files, caddy, docker>> /\ op.pc = "retire"
    BY <1>1 DEF LoadRetirement
  <2>2. CASE op' = Idle
    BY <2>1, <2>2, IdleOp, QuietService DEF QuietPcs
  <2>3. CASE op' = RetirementDone
    BY <2>1, <2>3, RetirementDonePlace, QuietService DEF QuietPcs, ServiceInv
  <2>4. CASE \E pc \in {"unlink_retirement", "down", "verify_absent"} : op' = [op EXCEPT !.pc = pc]
    <3>1. /\ op'.pc \in {"unlink_retirement", "down", "verify_absent"}
          /\ op'.ctx = op.ctx /\ op.ctx \in {"start", "retire"}
      BY <2>1, <2>4, KnownOp DEF ServiceInv, Operation, FilesInv, PlaceOK
    <3> QED
      BY <2>1, <3>1, QuietService DEF QuietPcs
  <2> QED
    BY <1>1, <2>2, <2>3, <2>4 DEF LoadRetirement
<1>2. CASE UnlinkRetirement
  <2>1. /\ op.pc = "unlink_retirement" /\ retirement # None /\ op' = RetirementDone /\ retirement' = None
        /\ state.previous = None
        /\ UNCHANGED <<fragment, state, journal, stateBackups, gen, caddy, docker>>
    BY <1>2 DEF UnlinkRetirement, ServiceInv, FilesInv, JournalOK, RetirementOK, RetirementCommitted
  <2>2. /\ journal = None /\ Authority = state /\ Authority' = state /\ state # None
        /\ caddy = fragment /\ Consistent
    BY <2>1, RetiringService DEF Authority
  <2>3. /\ op'.pc \in CheckPcs \cup {"idle"} \/ (op'.pc = "switch_check" /\ op'.kind = "switch")
        /\ op'.ctx \notin {"finalize", "recover", "parent"}
        /\ ~Engaged' /\ ~Uncommitted'
    BY <2>1, RetirementDonePlace DEF ServiceInv
  <2>4. TrafficOK'
    BY <2>1, <2>2, <2>3 DEF ServiceInv, TrafficOK, StateValid
  <2>5. AuthorityOK'
    BY <2>1, <2>2 DEF ServiceInv, AuthorityOK, Running, StateValid
  <2>6. TargetOK'
    BY <2>1, <2>2, <2>3 DEF ServiceInv, TargetOK
  <2> QED
    BY <2>1, <2>2, <2>4, <2>5, <2>6, Stutters DEF ServiceInv
<1> QED
  BY <1>1, <1>2

-----------------------------------------------------------------------------
(* The bodies of the scripts keep the service. *)

\* Before its transaction an operation sees the state of record.
LEMMA PreparingService ==
    ASSUME ServiceInv, op.pc \in CheckPcs \cup BodyPcs \cup
                          {"backup_fragment", "backup_state", "write_journal"}
    PROVE  /\ journal = None /\ retirement = None /\ Authority = state /\ op.ctx = "body"
           /\ caddy = fragment /\ (state # None => Consistent /\ state \in State)
           /\ projects \in [Slots -> Project]
<1>1. journal = None /\ retirement = None /\ op.ctx = "body"
  BY DEF ServiceInv, FilesInv, PlaceOK, JournalOK
<1> QED
  BY <1>1 DEF ServiceInv, FilesInv, TrafficOK, Authority, FileTypes, TypeOK

LEMMA DeployService ==
    ASSUME ServiceInv, FilesInv', Preflight \/ Pull \/ Up PROVE ServiceInv' /\ PromiseStep
<1>1. CASE op' = Failed /\ UNCHANGED <<files, caddy, docker, faults>>
  BY <1>1, FailedPlace
<1>2. CASE Preflight /\ op' = [op EXCEPT !.pc = "pull"]
  <2>1. /\ op.pc = "preflight" /\ op'.pc = "pull" /\ op'.ctx = op.ctx /\ op'.slot = op.slot
        /\ op'.release = op.release /\ UNCHANGED <<files, caddy, docker>>
        /\ journal = None /\ Authority = state /\ op.ctx = "body"
    BY <1>2, KnownOp, PreparingService DEF Preflight, Checked, ServiceInv, Operation
  <2>2. /\ projects[op.slot] = Absent
        /\ state # None => /\ state.active.slot # op.slot
                           /\ state.previous # None => state.previous.slot # op.slot
    <3>1. op' # Failed
      BY <2>1, KnownOp, IdleOp DEF Failed, ParentTrap, Operation, ServiceInv
    <3> QED
      BY <1>2, <3>1 DEF Preflight, Checked
  <2>3. TrafficOK'
    BY <2>1 DEF ServiceInv, TrafficOK, StateValid
  <2>4. AuthorityOK' /\ Authority' = Authority
    BY <2>1 DEF ServiceInv, AuthorityOK, Authority, Running, StateValid
  <2>5. TargetOK'
    BY <2>1, <2>2, <2>4 DEF ServiceInv, TargetOK, RetirementMatchesPrevious
  <2> QED
    BY <2>1, <2>3, <2>4, <2>5, Stutters DEF ServiceInv
<1>3. CASE Pull
  <2>1. /\ op.pc = "pull" /\ op'.pc = "up" /\ op'.ctx = op.ctx /\ op'.slot = op.slot
        /\ op'.release = op.release /\ UNCHANGED <<files, caddy, projects>>
        /\ images' = images \cup {op.release} /\ op'.kind = op.kind
        /\ journal = None /\ Authority = state /\ op.ctx = "body"
    BY <1>3, KnownOp, GotoOp, PreparingService DEF Pull, ServiceInv
  <2>2. TrafficOK'
    BY <2>1 DEF ServiceInv, TrafficOK, StateValid
  <2>3. AuthorityOK' /\ Authority' = Authority
    BY <2>1 DEF ServiceInv, AuthorityOK, Authority, Running, StateValid
  <2>4. TargetOK'
    BY <2>1, <2>3 DEF ServiceInv, TargetOK, Uncommitted, RetirementMatchesPrevious
  <2> QED
    BY <2>1, <2>2, <2>3, <2>4, Stutters DEF ServiceInv
<1>4. CASE Up
  <2>1. /\ op.pc = "up" /\ op'.pc = "switch_check" /\ op'.ctx = op.ctx /\ op'.slot = op.slot
        /\ op'.release = op.release /\ UNCHANGED <<files, caddy, images>>
        /\ projects' = [projects EXCEPT ![op.slot] = [status |-> "running", release |-> op.release]]
        /\ projects \in [Slots -> Project] /\ op.slot \in Slots
        /\ journal = None /\ retirement = None /\ Authority = state /\ op.ctx = "body"
        /\ caddy = fragment /\ (state # None => Consistent)
    BY <1>4, KnownOp, GotoOp, PreparingService DEF Up, ServiceInv, FilesInv, OperationOK
  <2>2. /\ state # None => state.active.slot # op.slot /\ caddy # op.slot
        /\ state # None /\ state.previous # None => state.previous.slot # op.slot
        /\ op.release \in images
    BY <2>1 DEF ServiceInv, TargetOK, Uncommitted
  <2>3. TrafficOK'
    BY <2>1 DEF ServiceInv, TrafficOK, StateValid
  <2>4. Authority' = Authority
    BY <2>1 DEF Authority
  <2>5. AuthorityOK'
    BY <2>1, <2>2, <2>4 DEF ServiceInv, AuthorityOK, Running, StateValid
  <2>6. TargetOK'
    BY <2>1, <2>2, <2>4 DEF ServiceInv, TargetOK, Uncommitted, RetirementMatchesPrevious
  <2>7. PromiseStep
    <3>1. [status |-> "running", release |-> op.release].status = "running"
      OBVIOUS
    <3> QED
      BY <2>1, <2>4, <3>1, StartsSlot
  <2> QED
    BY <2>3, <2>5, <2>6, <2>7 DEF ServiceInv
<1> QED
  BY <1>1, <1>2, <1>3, <1>4 DEF Preflight, Checked

LEMMA SwitchService ==
    ASSUME ServiceInv, FilesInv', SwitchCheck \/ RollbackCheck
    PROVE  ServiceInv' /\ PromiseStep
<1>1. CASE op' = Failed /\ UNCHANGED <<files, caddy, docker, faults>>
  BY <1>1, FailedPlace
<1>2. CASE op' = Idle /\ UNCHANGED <<files, caddy, docker, faults>>
  BY <1>2, IdleOp, QuietService DEF QuietPcs
<1>3. UNCHANGED <<files, caddy, docker>> /\ op.pc \in {"switch_check", "rollback_check"}
  BY DEF SwitchCheck, RollbackCheck, Checked
<1>4. journal = None /\ retirement = None /\ Authority = state /\ op.ctx = "body"
      /\ caddy = fragment /\ (state # None => Consistent /\ state \in State)
  BY <1>3, PreparingService
<1>5. Authority' = Authority
  BY <1>3 DEF Authority
<1>6. AuthorityOK' /\ PromiseStep
  BY <1>3, <1>5, Stutters DEF ServiceInv, AuthorityOK, Running, StateValid
<1>7. CASE SwitchCheck /\ op' # Failed
  <2>1. /\ op'.pc = "backup_fragment" /\ op'.ctx = op.ctx /\ op'.slot = op.slot
        /\ op'.release = op.release /\ Running(Target)
        /\ state # None => state.active.slot # op.slot
    BY <1>7, KnownOp DEF SwitchCheck, Checked, ServiceInv, Operation
  <2>2. TrafficOK'
    BY <1>3, <1>4, <2>1 DEF ServiceInv, TrafficOK, StateValid
  <2>3. TargetOK'
    BY <1>3, <1>4, <1>5, <2>1 DEF ServiceInv, TargetOK, Target, Running, RetirementMatchesPrevious
  <2> QED
    BY <1>6, <2>2, <2>3 DEF ServiceInv
<1>8. CASE RollbackCheck /\ op' # Idle
  <2>1. /\ op'.pc = "start_target" /\ op'.ctx = op.ctx /\ op'.slot = state.previous.slot
        /\ Consistent /\ state.previous # None
    BY <1>8, KnownOp DEF RollbackCheck, ServiceInv, Operation
  <2>2. TrafficOK'
    BY <1>3, <1>4, <2>1 DEF ServiceInv, TrafficOK, StateValid
  <2>3. TargetOK'
    BY <1>3, <1>4, <1>5, <2>1 DEF ServiceInv, TargetOK, StateValid, RetirementMatchesPrevious
  <2> QED
    BY <1>6, <2>2, <2>3 DEF ServiceInv
<1> QED
  BY <1>1, <1>2, <1>7, <1>8 DEF SwitchCheck, RollbackCheck, Checked

LEMMA StartTargetService ==
    ASSUME ServiceInv, FilesInv', StartTarget PROVE ServiceInv' /\ PromiseStep
<1>1. CASE op' = Failed /\ UNCHANGED <<files, caddy, docker, faults>>
  BY <1>1, FailedPlace
<1>2. CASE projects[op.slot].release = op.release
  <2>1. /\ op.pc = "start_target" /\ op'.pc = "backup_fragment" /\ op'.ctx = op.ctx /\ op'.slot = op.slot
        /\ op'.release = op.release /\ UNCHANGED <<files, caddy, images>>
        /\ projects' = [projects EXCEPT ![op.slot].status = "running"]
        /\ projects \in [Slots -> Project] /\ op.slot \in Slots /\ op.release \in Releases
        /\ journal = None /\ retirement = None /\ Authority = state /\ op.ctx = "body"
        /\ caddy = fragment /\ (state # None => Consistent)
    BY <1>2, KnownOp, GotoOp, PreparingService DEF StartTarget, ServiceInv, FilesInv, OperationOK
  <2>2. /\ state # None => state.active.slot # op.slot /\ caddy # op.slot
        /\ op.release \in images
    BY <1>2, <2>1, SlotsAssumption DEF ServiceInv, TargetOK, Uncommitted, AuthorityOK, Absent
  <2>3. /\ projects'[op.slot] = [status |-> "running", release |-> op.release]
        /\ \A s \in Slots : s # op.slot => projects'[s] = projects[s]
    BY <1>2, <2>1 DEF Project
  <2>4. TrafficOK'
    BY <2>1 DEF ServiceInv, TrafficOK, StateValid
  <2>5. Authority' = Authority
    BY <2>1 DEF Authority
  <2>6. AuthorityOK'
    BY <1>2, <2>1, <2>2, <2>3, <2>5 DEF ServiceInv, AuthorityOK, Running, StateValid, FilesInv, FileTypes, TypeOK,
       State, Deployment
  <2>7. TargetOK'
    BY <2>1, <2>2, <2>3, <2>5 DEF ServiceInv, TargetOK, Running, Target, RetirementMatchesPrevious
  <2>8. PromiseStep
    <3>1. projects' = [projects EXCEPT ![op.slot] = [status |-> "running", release |-> op.release]]
      BY <1>2, <2>1, <2>3 DEF Project
    <3>2. [status |-> "running", release |-> op.release].status = "running"
      OBVIOUS
    <3> QED
      BY <2>1, <2>5, <3>1, <3>2, StartsSlot
  <2> QED
    BY <2>4, <2>6, <2>7, <2>8 DEF ServiceInv
<1> QED
  BY <1>1, <1>2 DEF StartTarget

LEMMA CleanupService ==
    ASSUME ServiceInv, FilesInv', WriteRetirement \/ CleanupRefused
    PROVE  ServiceInv' /\ PromiseStep
<1>1. CASE CleanupRefused
  BY <1>1, IdleOp, QuietService DEF QuietPcs, CleanupRefused
<1>2. CASE WriteRetirement
  <2>1. /\ op.pc = "cleanup_check" /\ op'.pc = "retire" /\ op'.ctx = "retire"
        /\ UNCHANGED <<fragment, state, journal, fragmentBackups, stateBackups, caddy, docker>>
        /\ journal = None /\ Authority = state /\ op.ctx = "body"
        /\ caddy = fragment /\ Consistent /\ retirement'.target = state.previous
        /\ state.previous.release # state.active.release
    BY <1>2, KnownOp, PreparingService DEF WriteRetirement, CleanupAllowed, ServiceInv, Operation
  <2>2. Authority' = Authority /\ retirement' # None
    BY <1>2, <2>1, RetirementWritten DEF Authority, ServiceInv
  <2>3. TrafficOK'
    BY <2>1 DEF ServiceInv, TrafficOK, StateValid
  <2>4. AuthorityOK'
    BY <2>1, <2>2 DEF ServiceInv, AuthorityOK, Running, StateValid
  <2>5. TargetOK'
    BY <2>1, <2>2 DEF ServiceInv, TargetOK, Uncommitted
  <2> QED
    BY <2>1, <2>2, <2>3, <2>4, <2>5, Stutters DEF ServiceInv
<1> QED
  BY <1>1, <1>2

-----------------------------------------------------------------------------
(* The transaction keeps the service. *)

LEMMA BackupService ==
    ASSUME ServiceInv, FilesInv', BackupFragment \/ BackupState
    PROVE  ServiceInv' /\ PromiseStep
<1>1. CASE op' = Failed /\ UNCHANGED <<files, caddy, docker, faults>>
  BY <1>1, FailedPlace
<1>2. op.pc \in {"backup_fragment", "backup_state"}
      /\ UNCHANGED <<fragment, state, journal, retirement, caddy, docker>>
  BY DEF BackupFragment, BackupState
<1>3. /\ journal = None /\ retirement = None /\ Authority = state /\ op.ctx = "body"
      /\ caddy = fragment
  BY <1>2, PreparingService
<1>4. Authority' = Authority
  BY <1>2, <1>3 DEF Authority
<1>5. CASE \E pc \in {"backup_state", "write_journal"} : Goto(pc)
  <2>1. /\ op'.pc \in {"backup_state", "write_journal"} /\ op'.ctx = op.ctx /\ op'.slot = op.slot
        /\ op'.release = op.release
    BY <1>5, KnownOp, GotoOp DEF ServiceInv
  <2>2. (state # None => Consistent)'
    BY <2>1 DEF FilesInv, BackupsOK
  <2>3. TrafficOK'
    BY <1>2, <1>3, <2>1, <2>2 DEF TrafficOK
  <2>4. AuthorityOK'
    BY <1>2, <1>3, <1>4, <2>2 DEF ServiceInv, AuthorityOK, Running
  <2>5. TargetOK'
    BY <1>2, <1>3, <1>4, <2>1 DEF ServiceInv, TargetOK, Uncommitted, Running, Target
  <2> QED
    BY <1>2, <1>4, <2>3, <2>4, <2>5, Stutters DEF ServiceInv
<1>6. CASE op' = Failed /\ BackupFragment /\ journal # None
  BY <1>3, <1>6
<1> QED
  BY <1>5, <1>6 DEF BackupFragment, BackupState

LEMMA WriteJournalService ==
    ASSUME ServiceInv, FilesInv', WriteJournal PROVE ServiceInv' /\ PromiseStep
<1>1. /\ op.pc = "write_journal" /\ op'.pc = "journalled" /\ op'.ctx = op.ctx /\ op'.slot = op.slot
      /\ op'.release = op.release /\ op.ctx = "body"
      /\ UNCHANGED <<fragment, state, retirement, fragmentBackups, stateBackups, gen, caddy, docker>>
      /\ journal = None /\ retirement = None /\ Authority = state
      /\ caddy = fragment /\ (state # None => Consistent)
  BY KnownOp, GotoOp, PreparingService DEF WriteJournal, ServiceInv
<1>2. /\ fragmentBackups[gen] = fragment /\ stateBackups[gen] = state
  BY <1>1 DEF ServiceInv, FilesInv, BackupsOK
<1>3. /\ journal'.gen = gen /\ (journal'.hadState <=> state # None)
      /\ Pending'
  BY <1>1 DEF WriteJournal, FilesInv, JournalOK
<1>4. Old' = state /\ Authority' = state
  BY <1>1, <1>2, <1>3 DEF Authority
<1>5. TrafficOK'
  BY <1>1, <1>2, <1>3, <1>4 DEF TrafficOK, Restored
<1>6. AuthorityOK'
  BY <1>1, <1>4 DEF ServiceInv, AuthorityOK, Running, StateValid
<1>7. TargetOK'
  BY <1>1, <1>4 DEF ServiceInv, TargetOK, Uncommitted, Running, Target
<1> QED
  BY <1>1, <1>4, <1>5, <1>6, <1>7, Stutters DEF ServiceInv

\* Until it is marked committed, a transaction does not move the authority.
LEMMA OpenService ==
    ASSUME ServiceInv, FilesInv',
           Begun \/ InstallFragment \/ Reload \/ MarkInstalled \/ CommitState
    PROVE  ServiceInv' /\ PromiseStep
<1>1. /\ op.pc \in OpenPcs /\ op'.pc \in OpenPcs /\ op'.ctx = op.ctx /\ op'.slot = op.slot
      /\ op'.release = op.release /\ op.ctx = "body" /\ op'.kind = op.kind
      /\ UNCHANGED <<retirement, fragmentBackups, stateBackups, gen, docker>>
      /\ retirement = None
  BY KnownOp, GotoOp DEF Begun, Checked, Goto, InstallFragment, Reload, MarkInstalled, MarkJournal, CommitState,
     ServiceInv, FilesInv, PlaceOK, JournalOK, Operation
<1>2. Pending /\ Pending' /\ journal \in Journal /\ journal.gen = gen
  BY <1>1 DEF ServiceInv, FilesInv, JournalOK, FileTypes, TypeOK
<1>3. journal'.gen = journal.gen /\ journal'.hadState = journal.hadState
  <2>1. journal' = journal \/ \E phase : journal' = [journal EXCEPT !.phase = phase]
    BY DEF Begun, Checked, InstallFragment, Reload, MarkInstalled, MarkJournal, CommitState
  <2> QED
    BY <1>2, <2>1 DEF Journal
<1>4. Old' = Old /\ Authority = Old /\ Authority' = Old
  BY <1>1, <1>2, <1>3 DEF Authority
<1>5. /\ op.slot \in Slots /\ projects[op.slot].status = "running"
      /\ Authority # None => projects[fragment].status = "running"
  BY <1>1 DEF ServiceInv, FilesInv, OperationOK, TargetOK, Running, Target, AuthorityOK
<1>6. /\ fragment' \in {fragment, op.slot} /\ caddy' \in {caddy, fragment}
      /\ caddy' \in Slots /\ projects' = projects
  BY <1>1 DEF Begun, Checked, InstallFragment, Reload, MarkInstalled, MarkJournal, CommitState, ServiceInv, FilesInv,
     FileTypes, TypeOK
<1>7. TrafficOK'
  <2>1. CASE Begun
    <3>1. op'.pc = "install" /\ UNCHANGED <<fragment, state, caddy>> /\ Restored
      BY <2>1, <1>1, KnownOp DEF Begun, Checked, ServiceInv, TrafficOK, Operation
    <3> QED
      BY <1>1, <1>2, <1>3, <1>4, <3>1 DEF TrafficOK, Restored
  <2>2. CASE InstallFragment
    <3>1. op'.pc = "reload" /\ state' = Old /\ fragment' = op.slot
      BY <2>2, KnownOp, GotoOp DEF InstallFragment, ServiceInv, TrafficOK, Restored
    <3> QED
      BY <1>1, <1>2, <1>4, <3>1 DEF TrafficOK
  <2>3. CASE Reload
    <3>1. op'.pc = "mark_installed" /\ state' = Old /\ fragment' = op.slot /\ caddy' = fragment'
      BY <2>3, KnownOp, GotoOp DEF Reload, ServiceInv, TrafficOK
    <3> QED
      BY <1>1, <1>2, <1>4, <3>1 DEF TrafficOK
  <2>4. CASE MarkInstalled
    <3>1. op'.pc = "commit" /\ state' = Old /\ fragment' = op.slot /\ caddy' = fragment'
      BY <2>4, KnownOp, GotoOp DEF MarkInstalled, MarkJournal, ServiceInv, TrafficOK
    <3> QED
      BY <1>1, <1>2, <1>4, <3>1 DEF TrafficOK
  <2>5. CASE CommitState
    <3>1. op'.pc = "mark_committed" /\ fragment' = op.slot /\ caddy' = fragment' /\ state = Old /\ state' = NewState
      BY <2>5, KnownOp, GotoOp DEF CommitState, ServiceInv, TrafficOK
    <3>2. state' = Promoted'
      BY <1>1, <1>4, <3>1 DEF NewState, Promoted, Target
    <3> QED
      BY <1>1, <1>2, <3>1, <3>2 DEF TrafficOK
  <2> QED
    BY <2>1, <2>2, <2>3, <2>4, <2>5
<1>8. AuthorityOK'
  BY <1>1, <1>4, <1>5, <1>6 DEF ServiceInv, AuthorityOK, Running, StateValid
<1>9. TargetOK'
  BY <1>1, <1>4 DEF ServiceInv, TargetOK, Uncommitted, Running, Target
<1>10. PromiseStep
  <2>1. Authority # None => projects[caddy'].status = "running"
    BY <1>5, <1>6 DEF ServiceInv, AuthorityOK
  <2> QED
    BY <1>4, <1>6, <2>1, Routes
<1> QED
  BY <1>7, <1>8, <1>9, <1>10 DEF ServiceInv

\* The instant at which the new deployment is the one of record.
LEMMA PromotionService ==
    ASSUME ServiceInv, FilesInv', MarkCommitted PROVE ServiceInv' /\ PromiseStep
<1>1. /\ op.pc = "mark_committed" /\ op'.pc = "committed" /\ op'.ctx = op.ctx /\ op'.slot = op.slot
      /\ op'.release = op.release /\ op.ctx = "body"
      /\ UNCHANGED <<fragment, state, retirement, fragmentBackups, stateBackups, gen, caddy, docker>>
      /\ retirement = None
  BY KnownOp, GotoOp DEF MarkCommitted, MarkJournal, ServiceInv, FilesInv, PlaceOK, JournalOK
<1>2. Pending /\ Done' /\ journal.gen = gen /\ JournalValid /\ Authority = Old
  BY <1>1 DEF ServiceInv, FilesInv, JournalOK, FileTypes, BackupsOK, Authority
<1>3. /\ state = Promoted /\ state \in State /\ fragment = op.slot /\ caddy = fragment
      /\ op.slot \in Slots /\ Running(Target)
  <2>1. /\ state = Promoted /\ fragment = op.slot /\ caddy = fragment
        /\ op.slot \in Slots /\ op.release \in Releases /\ Running(Target)
    BY <1>1 DEF ServiceInv, TrafficOK, TargetOK, FilesInv, OperationOK
  <2>2. journal \in Journal /\ Old \in State \cup {None} /\ gen \in Generation
    BY <1>2 DEF ServiceInv, FilesInv, FileTypes, TypeOK, Journal
  <2>3. Promoted \in State
    BY <2>1, <2>2 DEF Promoted, State, Deployment, Target
  <2> QED
    BY <2>1, <2>3
<1>4. state # None /\ Authority' = state
  <2>1. state # None
    BY <1>3, NoneAssumption
  <2> QED
    BY <1>1, <1>2, <2>1 DEF Authority
<1>5. /\ state.active = Target /\ state.active.slot = op.slot /\ state.gen = gen
      /\ state.previous = (IF Old = None THEN None ELSE Old.active)
      /\ state.previous # None => Old # None /\ state.backup = gen
  BY <1>3 DEF Promoted, Target
<1>6. Old # None => /\ fragmentBackups[gen] = Old.active.slot
                    /\ Old.active.slot # op.slot
                    /\ Running(Old.active)
  BY <1>1, <1>2 DEF JournalValid, ServiceInv, TargetOK, Uncommitted, AuthorityOK
<1>7. StateValid(state)
  BY <1>5, <1>6 DEF StateValid
<1>8. TrafficOK'
  BY <1>1, <1>2, <1>3, <1>4, <1>5, <1>7 DEF TrafficOK, StateValid
<1>9. Target.release \in images /\ Target.slot = op.slot /\ Target.release = op.release
  <2>1. projects[op.slot] = [status |-> "running", release |-> op.release]
    BY <1>3 DEF Running, Target
  <2>2. projects[op.slot] # Absent
    BY <2>1 DEF Absent
  <2> QED
    BY <1>3, <2>1, <2>2 DEF ServiceInv, AuthorityOK, Target
<1>10. AuthorityOK'
  BY <1>1, <1>3, <1>4, <1>5, <1>6, <1>7, <1>9 DEF ServiceInv, AuthorityOK, Running, StateValid
<1>11. TargetOK'
  BY <1>1, <1>4, <1>5 DEF ServiceInv, TargetOK, Uncommitted, Running, Target
<1>12. PromiseStep
  <2>1. Target \in Deployment /\ projects[op.slot].status = "running"
    BY <1>3, <1>5 DEF State, Running, Target
  <2>2. Promise!Promote(Target)
    BY <1>1, <1>2, <1>3, <1>4, <1>5, <1>6, <1>9, <2>1 DEF Promise!Promote
  <2> QED
    BY <2>1, <2>2 DEF PromiseStep, Promise!Next, Promise!Deployment, Deployment
<1> QED
  BY <1>8, <1>10, <1>11, <1>12 DEF ServiceInv

-----------------------------------------------------------------------------
(* After the transaction, and the host. *)

LEMMA OrphanService ==
    ASSUME ServiceInv, FilesInv', Finalize \/ RemoveOrphan \/ OrphansRemoved
    PROVE  ServiceInv' /\ PromiseStep
<1>1. CASE Finalize
  <2>1. /\ UNCHANGED <<files, caddy, docker>> /\ op'.pc = "reconcile" /\ op'.slot = op.slot
        /\ op'.release = op.release /\ op.pc = "committed"
    BY <1>1, KnownOp DEF Finalize, ServiceInv, Operation
  <2>2. state # None
    BY <2>1 DEF ServiceInv, FilesInv, JournalOK, TrafficOK
  <2> QED
    BY <2>1, <2>2, QuietService DEF QuietPcs
<1>2. CASE OrphansRemoved
  <2>1. /\ UNCHANGED <<files, caddy, docker>> /\ op'.pc = "stop_old" /\ op'.slot = op.slot
        /\ op'.release = op.release /\ op'.ctx = op.ctx /\ op.pc = "orphans"
    BY <1>2, KnownOp, GotoOp DEF OrphansRemoved, ServiceInv
  <2>2. op.ctx = "finalize" /\ state # None
    BY <2>1 DEF ServiceInv, FilesInv, PlaceOK, TrafficOK
  <2> QED
    BY <2>1, <2>2, QuietService DEF QuietPcs
<1>3. CASE RemoveOrphan
  <2>1. /\ op.pc = "orphans" /\ ~Pending /\ retirement = None /\ op.ctx = "finalize"
        /\ UNCHANGED <<fragment, state, journal, retirement, gen, caddy, docker, op>>
    BY <1>3 DEF RemoveOrphan, ServiceInv, FilesInv, JournalOK, PlaceOK
  <2>2. /\ Authority = state /\ Authority' = state /\ state # None /\ state \in State
        /\ Consistent
    BY <2>1 DEF ServiceInv, TrafficOK, FilesInv, FileTypes, TypeOK, Authority
  <2>3. StateValid(state)'
    <3>1. CASE state.previous = None
      BY <2>1, <3>1 DEF StateValid
    <3>2. CASE state.previous # None
      <4>1. state.backup \in Generation /\ state.backup # None /\ state.backup \in Referenced
        <5>1. fragmentBackups[state.backup] = state.previous.slot /\ state.backup \in Generation
          BY <2>2, <3>2 DEF ServiceInv, FilesInv, FileTypes, Dated, StateValid
        <5> QED
          BY <2>2, <5>1, NoneAssumption DEF Referenced
      <4>2. fragmentBackups'[state.backup] = fragmentBackups[state.backup]
        BY <1>3, <4>1 DEF RemoveOrphan, OrphanFragments, ServiceInv, FilesInv, FileTypes, TypeOK
      <4> QED
        BY <2>1, <2>2, <4>2 DEF StateValid
    <3> QED
      BY <3>1, <3>2
  <2>4. TrafficOK'
    BY <2>1, <2>2, <2>3 DEF ServiceInv, TrafficOK
  <2>5. AuthorityOK'
    BY <2>1, <2>2, <2>3 DEF ServiceInv, AuthorityOK, Running
  <2>6. TargetOK'
    BY <2>1, <2>2 DEF ServiceInv, TargetOK, Uncommitted, Running, Target
  <2> QED
    BY <2>1, <2>2, <2>4, <2>5, <2>6, Stutters DEF ServiceInv
<1> QED
  BY <1>1, <1>2, <1>3

\* Stopping a slot that neither the record nor the traffic needs.
LEMMA StopService ==
    ASSUME ServiceInv, FilesInv', UNCHANGED <<files, caddy, images>>, op' = Idle, NEW s \in Slots,
           projects' = [projects EXCEPT ![s] = Stopped(@)],
           Authority # None => Authority.active.slot # s /\ caddy # s /\ fragment # s
    PROVE  ServiceInv' /\ PromiseStep
<1>1. /\ projects \in [Slots -> Project]
      /\ projects'[s].release = projects[s].release /\ projects'[s].status # "running"
      /\ projects[s] = Absent => projects'[s] = Absent
      /\ \A t \in Slots : t # s => projects'[t] = projects[t]
  BY DEF ServiceInv, FilesInv, FileTypes, TypeOK, Stopped, Absent, Project
<1>2. Authority' = Authority /\ op'.pc = "idle" /\ op'.ctx = "none" /\ op'.kind = "none"
  BY IdleOp DEF Authority
<1>3. TrafficOK'
  BY <1>2 DEF ServiceInv, TrafficOK, StateValid
<1>4. AuthorityOK'
  <2>1. \A t \in Slots : projects'[t] # Absent => projects'[t].release \in images'
    BY <1>1 DEF ServiceInv, AuthorityOK
  <2>2. Authority # None => Authority \in State
    BY DEF Authority, ServiceInv, FilesInv, FileTypes, TypeOK, Journal
  <2>3. Authority # None => Authority.active.slot \in Slots /\ caddy \in Slots /\ fragment \in Slots
    BY <2>2 DEF State, Deployment, ServiceInv, FilesInv, FileTypes, TypeOK
  <2>4. Authority # None /\ Authority.previous # None => Authority.previous.slot \in Slots
    BY <2>2 DEF State, Deployment
  <2> QED
    BY <1>1, <1>2, <2>1, <2>3, <2>4 DEF ServiceInv, AuthorityOK, Running, StateValid
<1>5. TargetOK'
  BY <1>2 DEF ServiceInv, TargetOK, Uncommitted, RetirementMatchesPrevious
<1>6. PromiseStep
  <2>1. Stopped(projects[s]).status # "running" /\ projects' = [projects EXCEPT ![s] = Stopped(projects[s])]
    BY <1>1
  <2> QED
    BY <1>1, <1>2, <2>1, StopsSlot
<1> QED
  BY <1>3, <1>4, <1>5, <1>6 DEF ServiceInv

LEMMA IdleService ==
    ASSUME ServiceInv, FilesInv', UNCHANGED <<files, caddy, docker>>, op' = Idle
    PROVE  ServiceInv' /\ PromiseStep
  BY IdleOp, QuietService DEF QuietPcs

LEMMA StopOldService ==
    ASSUME ServiceInv, FilesInv', StopOld PROVE ServiceInv' /\ PromiseStep
<1>1. CASE state.previous = None
  BY <1>1, IdleService DEF StopOld
<1>2. CASE state.previous # None
  <2>1. ~Pending /\ state # None /\ op.ctx = "finalize"
    BY DEF StopOld, ServiceInv, FilesInv, PlaceOK, JournalOK, TrafficOK
  <2>2. /\ Authority = state /\ state \in State
        /\ Consistent /\ caddy = fragment
    BY <2>1 DEF ServiceInv, TrafficOK, FilesInv, FileTypes, TypeOK, Authority
  <2>3. state.previous.slot \in Slots /\ state.previous.slot # state.active.slot
    BY <1>2, <2>2 DEF StateValid, State, Deployment
  <2>4. UNCHANGED <<files, caddy, images>> /\ op' = Idle
        /\ projects' = [projects EXCEPT ![state.previous.slot] = Stopped(@)]
    BY <1>2 DEF StopOld
  <2> QED
    BY <2>2, <2>3, <2>4, StopService
<1> QED
  BY <1>1, <1>2

LEMMA StopCandidateService ==
    ASSUME ServiceInv, FilesInv', StopCandidate PROVE ServiceInv' /\ PromiseStep
<1>1. CASE CandidateCommitted
  BY <1>1, IdleService DEF StopCandidate
<1>2. CASE ~CandidateCommitted
  <2>1. op.pc = "stop_target" /\ op.slot \in Slots /\ Engaged
    BY DEF StopCandidate, ServiceInv, FilesInv, PlaceOK, OperationOK
  <2>2. Authority # None => /\ Authority = state
                            /\ Consistent /\ caddy = fragment
    <3>1. CASE Pending
      BY <2>1, <3>1 DEF ServiceInv, TrafficOK, Restored, FilesInv, BackupsOK, JournalValid, Authority
    <3>2. CASE ~Pending
      BY <3>2 DEF ServiceInv, TrafficOK, Authority
    <3> QED
      BY <3>1, <3>2
  <2>3. Authority # None => Authority.active # Target
    BY <1>2, <2>2 DEF CandidateCommitted
  <2>4. Authority # None => Authority.active.slot # op.slot /\ caddy # op.slot /\ fragment # op.slot
    BY <2>1, <2>2, <2>3 DEF ServiceInv, TargetOK
  <2>5. UNCHANGED <<files, caddy, images>> /\ op' = Idle
        /\ projects' = [projects EXCEPT ![op.slot] = Stopped(@)]
    BY <1>2 DEF StopCandidate
  <2> QED
    BY <2>1, <2>4, <2>5, StopService
<1> QED
  BY <1>1, <1>2

LEMMA RestartService ==
    ASSUME ServiceInv, FilesInv', CaddyRestart PROVE ServiceInv' /\ PromiseStep
<1>1. UNCHANGED <<files, docker, op>> /\ caddy' = fragment /\ fragment \in Slots
  BY DEF CaddyRestart, ServiceInv, FilesInv, FileTypes, TypeOK
<1>2. Authority' = Authority
  BY <1>1 DEF Authority
<1>3. TrafficOK'
  BY <1>1 DEF ServiceInv, TrafficOK, StateValid, Restored, Promoted, Target
<1>4. AuthorityOK'
  BY <1>1, <1>2 DEF ServiceInv, AuthorityOK, Running, StateValid
<1>5. TargetOK'
  BY <1>1, <1>2 DEF ServiceInv, TargetOK, Uncommitted, Running, Target, RetirementMatchesPrevious
<1>6. PromiseStep
  BY <1>1, <1>2, Routes DEF ServiceInv, AuthorityOK
<1> QED
  BY <1>3, <1>4, <1>5, <1>6 DEF ServiceInv

LEMMA OperatorService ==
    ASSUME ServiceInv, FilesInv', Operator PROVE ServiceInv' /\ PromiseStep
<1>1. /\ UNCHANGED <<files, caddy, images, op>> /\ op = Idle /\ journal = None
      /\ op.pc = "idle" /\ op.ctx = "none" /\ op.kind = "none"
  BY IdleOp DEF Operator
<1>2. /\ Authority = state /\ Authority' = state /\ caddy = fragment
      /\ state # None => Consistent /\ state \in State
      /\ projects \in [Slots -> Project]
  BY <1>1 DEF Authority, ServiceInv, TrafficOK, FilesInv, FileTypes, TypeOK
<1>3. PICK s \in Slots :
         /\ state # None => state.active.slot # s
         /\ \/ /\ projects[s].status = "running"
               /\ projects' = [projects EXCEPT ![s].status = "stopped"]
            \/ /\ state # None /\ state.previous # None => state.previous.slot # s
               /\ projects' = [projects EXCEPT ![s] = Absent]
  BY DEF Operator
<1>4. PICK p : /\ projects' = [projects EXCEPT ![s] = p] /\ p.status # "running"
               /\ \/ p = Absent /\ (state # None /\ state.previous # None => state.previous.slot # s)
                  \/ p.release = projects[s].release /\ projects[s] # Absent
  <2>1. CASE projects' = [projects EXCEPT ![s] = Absent]
            /\ (state # None /\ state.previous # None => state.previous.slot # s)
    BY <2>1 DEF Absent
  <2>2. CASE projects[s].status = "running" /\ projects' = [projects EXCEPT ![s].status = "stopped"]
    <3>1. /\ projects' = [projects EXCEPT ![s] = [projects[s] EXCEPT !.status = "stopped"]]
          /\ [projects[s] EXCEPT !.status = "stopped"].status # "running"
          /\ [projects[s] EXCEPT !.status = "stopped"].release = projects[s].release
          /\ projects[s] # Absent
      BY <1>2, <2>2 DEF Project, Absent
    <3> QED
      BY <3>1
  <2> QED
    BY <1>3, <2>1, <2>2
<1>5. /\ projects'[s] = p
      /\ \A t \in Slots : t # s => projects'[t] = projects[t]
  BY <1>2, <1>4
<1>6. state # None => caddy # s /\ fragment # s /\ state.active.slot # s /\ state.active.slot \in Slots
                      /\ caddy \in Slots
  BY <1>2, <1>3 DEF State, Deployment
<1>7. TrafficOK'
  BY <1>1 DEF ServiceInv, TrafficOK, StateValid
<1>8. AuthorityOK'
  <2>1. \A t \in Slots : projects'[t] # Absent => projects'[t].release \in images'
    BY <1>1, <1>4, <1>5 DEF ServiceInv, AuthorityOK
  <2>2. state # None /\ state.previous # None => state.previous.slot \in Slots
    BY <1>2 DEF State, Deployment
  <2> QED
    BY <1>1, <1>2, <1>4, <1>5, <1>6, <2>1, <2>2 DEF ServiceInv, AuthorityOK, Running, StateValid
<1>9. TargetOK'
  BY <1>1 DEF ServiceInv, TargetOK, Uncommitted, RetirementMatchesPrevious
<1>10. PromiseStep
  BY <1>1, <1>2, <1>4, <1>6, StopsSlot
<1> QED
  BY <1>7, <1>8, <1>9, <1>10 DEF ServiceInv

LEMMA ServiceInit == Init => ServiceInv /\ Promise!Init
<1> SUFFICES ASSUME Init PROVE ServiceInv /\ Promise!Init
  OBVIOUS
<1>1. /\ op.pc = "idle" /\ op.ctx = "none" /\ op.kind = "none" /\ Authority = None
      /\ journal = None /\ state = None /\ retirement = None /\ caddy = fragment
  BY IdleOp DEF Init, Authority
<1>2. TrafficOK /\ TargetOK
  BY <1>1 DEF TrafficOK, TargetOK, Uncommitted
<1>3. AuthorityOK
  BY <1>1 DEF AuthorityOK, Init
<1>4. Promise!Init
  BY <1>1 DEF Promise!Init, Init, Absent
<1> QED
  BY <1>2, <1>3, <1>4, FilesInit DEF ServiceInv

LEMMA ServiceStep ==
    ASSUME Failing \subseteq {"unlink"}
    PROVE  ServiceInv /\ [Next]_vars => ServiceInv' /\ PromiseStep
<1> SUFFICES ASSUME ServiceInv, [Next]_vars PROVE ServiceInv' /\ PromiseStep
  OBVIOUS
<1>1. FilesInv'
  BY FilesStep DEF ServiceInv
<1>2. CASE UNCHANGED vars
  <2>1. Authority' = Authority
    BY <1>2 DEF vars, Authority
  <2>2. TrafficOK'
    BY <1>2 DEF vars, ServiceInv, TrafficOK, StateValid, Restored, Promoted, Target
  <2>3. AuthorityOK'
    BY <1>2, <2>1 DEF vars, ServiceInv, AuthorityOK, Running, StateValid
  <2>4. TargetOK'
    BY <1>2, <2>1 DEF vars, ServiceInv, TargetOK, Uncommitted, Running, Target, RetirementMatchesPrevious
  <2> QED
    BY <1>1, <1>2, <2>1, <2>2, <2>3, <2>4, Stutters DEF vars, ServiceInv
<1>3. CASE ReconcileJournal
  BY <1>1, <1>3, ReadService, RestoreService, UnlinkService, TidyService DEF ReconcileJournal
<1>4. CASE ReconcileRetirement
  BY <1>1, <1>4, DownService, MarkService, RetireService, RetirementReadService DEF ReconcileRetirement
<1>5. CASE Prepare
  BY <1>1, <1>5, DeployService, SwitchService, StartTargetService, CleanupService DEF Prepare
<1>6. CASE Transact
  BY <1>1, <1>6, BackupService, WriteJournalService, OpenService, PromotionService, OrphanService DEF Transact
<1>7. CASE Conclude
  BY <1>1, <1>7, OrphanService, StopOldService, StopCandidateService DEF Conclude
<1> QED
  BY <1>1, <1>2, <1>3, <1>4, <1>5, <1>6, <1>7, StartService, InterruptService, RestartService, OperatorService
     DEF Next, Run

-----------------------------------------------------------------------------
(* The behaviours of module Operations. *)

LEMMA OneDeployment ==
    ASSUME [OperationsNext]_allVars, part # "blind" PROVE [Next]_vars /\ part' = part
  BY DEF OperationsNext, allVars, InDeployment, InUpload, InCleanup, InBucket, InBuild, InDownload, InClosure

KeptInv == part # "blind" => ServiceInv

LEMMA KeptStep ==
    ASSUME Failing \subseteq {"unlink"}, KeptInv, [OperationsNext]_allVars
    PROVE  KeptInv' /\ (part # "blind" => PromiseStep)
<1>1. CASE part = "blind"
  <2>1. part' = part
    BY <1>1 DEF OperationsNext, allVars, InDeployment, InUpload, InCleanup, InBucket, InBuild, InDownload, InClosure
  <2> QED
    BY <1>1, <2>1 DEF KeptInv
<1>2. CASE part # "blind"
  BY <1>2, OneDeployment, ServiceStep DEF KeptInv
<1> QED
  BY <1>1, <1>2

LEMMA ServiceSafe == ServiceInv => ServiceKept /\ CaddyServesActive
<1> SUFFICES ASSUME ServiceInv PROVE ServiceKept /\ CaddyServesActive
  OBVIOUS
<1>1. TypeOK
  BY DEF ServiceInv, FilesInv, FileTypes
<1>2. ServedSlotRuns
  BY DEF ServiceInv, AuthorityOK, ServedSlotRuns
<1>3. CaddyServesActive
  BY DEF ServiceInv, TrafficOK, CaddyServesActive
<1> QED
  BY <1>1, <1>2, <1>3 DEF ServiceKept

\* Whatever number of times deploy.sh, switch.sh, rollback.sh and cleanup.sh are
\* killed or a command of theirs fails outside the traps, from the first deployment
\* on traffic goes to a project that runs, and between operations to the one of
\* record.
THEOREM DeploymentSafety ==
    ASSUME Failing \subseteq {"unlink"} PROVE OperationsSpec => []DeploymentsKept
<1>1. OperationsInit => KeptInv
  BY ServiceInit DEF OperationsInit, KeptInv
<1>2. KeptInv /\ [OperationsNext]_allVars => KeptInv'
  BY KeptStep
<1>3. KeptInv => DeploymentsKept
  BY ServiceSafe DEF KeptInv, DeploymentsKept
<1> QED
  BY <1>1, <1>2, <1>3, PTL DEF OperationsSpec

\* With the same exception the scripts implement ReleaseAuthority: the record moves
\* only when a journal is marked committed, to a slot that runs and already serves,
\* and every other step starts, stops or routes as the promise allows.
THEOREM AuthorityRefined ==
    ASSUME Failing \subseteq {"unlink"} PROVE OperationsSpec => AuthorityKept
<1>1. OperationsInit => KeptInv /\ Promise!Init
  BY ServiceInit DEF OperationsInit, KeptInv
<1>2. KeptInv /\ [OperationsNext]_allVars => KeptInv'
  BY KeptStep
<1>3. KeptInv /\ [OperationsNext]_allVars => [part # "blind" => Promise!Next]_(Promise!vars)
  BY KeptStep DEF PromiseStep
<1> QED
  BY <1>1, <1>2, <1>3, PTL DEF OperationsSpec, AuthorityKept

-----------------------------------------------------------------------------
(* The journals stay readable when restores and reloads fail unseen.        *)

ReadableInv ==
    /\ FilesInv
    /\ Done => JournalValid
    /\ op.pc = "orphans" => journal = None

\* A command of a trap fails and the next one runs.
Unseen ==
    /\ op.pc \in RestorePcs
    /\ Fault
    /\ \E pc \in RestorePcs : Goto(pc)
    /\ UNCHANGED <<files, caddy, docker>>

\* The steps of an operation whose unlinks do not fail.
BlindReads == NoJournal \/ UnreadableJournal \/ LoadJournal \/ CheckCommitted \/ RestoreCheck
BlindRestores == RestoreFragment \/ RestoreState \/ RestoreReload \/ Unseen
BlindTidies == UnlinkJournal \/ UnlinkStateBackup \/ UnlinkFragmentBackup
BlindNext ==
    \/ Start \/ Interrupt \/ CaddyRestart \/ Operator
    \/ BlindReads \/ BlindRestores \/ BlindTidies
    \/ ReconcileRetirement \/ Prepare \/ Transact \/ Conclude

LEMMA UnseenFiles == ASSUME FilesInv, Unseen PROVE FilesInv'
<1>1. Standing' /\ op'.pc \in RestorePcs
  BY RestoreStands DEF Unseen
<1>2. UNCHANGED files /\ DockerTyped
  BY TypedFault DEF Unseen
<1> QED
  BY <1>1, <1>2, FilesStill

LEMMA BlindFiles == ASSUME FilesInv, BlindNext PROVE FilesInv'
  BY StartFiles, InterruptFiles, HostFiles, JournalReadFiles, RestoreFiles, UnseenFiles, UnlinkFiles,
     RetirementFiles, PrepareFiles, TransactFiles, ConcludeFiles
     DEF BlindNext, BlindReads, BlindRestores, BlindTidies

\* A step that leaves the journals and their backups alone.
LEMMA StillReadable ==
    ASSUME ReadableInv, FilesInv', UNCHANGED <<journal, fragmentBackups, stateBackups>>,
           op'.pc = "orphans" => op.pc = "orphans" \/ journal = None
    PROVE  ReadableInv'
  BY DEF ReadableInv, JournalValid, StateValid

LEMMA OperationReadable ==
    ASSUME ReadableInv, FilesInv', Start \/ Interrupt \/ CaddyRestart \/ Operator PROVE ReadableInv'
<1>1. UNCHANGED <<journal, fragmentBackups, stateBackups>>
  BY DEF Start, BeginDeploy, BeginSwitch, BeginRecorded, Begin, Interrupt, Crash, Fail, ChildKilled, CaddyRestart,
     Operator
<1>2. CASE Start
  BY <1>1, <1>2, StillReadable DEF Start, BeginDeploy, BeginSwitch, BeginRecorded, Begin
<1>3. CASE Crash
  BY <1>1, <1>3, IdleOp, StillReadable DEF Crash
<1>4. CASE Fail
  BY <1>1, <1>4, FailedStands, StillReadable DEF Fail, ReadableInv
<1>5. CASE ChildKilled
  <2>1. op'.pc = "reconcile"
    BY <1>5, KnownOp DEF ChildKilled, ParentTrap, Operation, ReadableInv
  <2> QED
    BY <1>1, <2>1, StillReadable
<1>6. CASE CaddyRestart \/ Operator
  BY <1>1, <1>6, StillReadable DEF CaddyRestart, Operator
<1> QED
  BY <1>2, <1>3, <1>4, <1>5, <1>6 DEF Interrupt

LEMMA JournalReadable ==
    ASSUME ReadableInv, FilesInv', BlindReads \/ BlindRestores \/ BlindTidies PROVE ReadableInv'
<1>1. FilesInv
  BY DEF ReadableInv
<1>2. CASE BlindReads \/ BlindRestores
  <2>1. UNCHANGED <<journal, fragmentBackups, stateBackups>>
    BY <1>2 DEF BlindReads, BlindRestores, NoJournal, UnreadableJournal, LoadJournal, CheckCommitted, RestoreCheck,
       RestoreFragment, RestoreState, RestoreReload, Unseen
  <2>2. CASE NoJournal
    BY <2>1, <2>2, StillReadable DEF NoJournal
  <2>3. CASE op.pc \in JournalPcs /\ op' = Died /\ UNCHANGED <<journal, retirement, gen>>
    <3>1. op'.pc \in {"idle", "reconcile"}
      BY <1>1, <2>3, DiedStands
    <3> QED
      BY <2>1, <3>1, StillReadable
  <2>4. CASE \E pc \in {"check_committed", "unlink_journal"} \cup RestorePcs : Goto(pc)
    <3>1. op'.pc # "orphans"
      BY <1>1, <2>4, KnownOp, GotoOp
    <3> QED
      BY <2>1, <3>1, StillReadable
  <2> QED
    BY <1>2, <2>2, <2>3, <2>4 DEF BlindReads, BlindRestores, UnreadableJournal, LoadJournal, CheckCommitted,
       RestoreCheck, RestoreFragment, RestoreState, RestoreReload, Unseen
<1>3. CASE BlindTidies
  <2>1. journal' = None
    BY <1>1, <1>3 DEF BlindTidies, UnlinkJournal, UnlinkStateBackup, UnlinkFragmentBackup, FilesInv, JournalOK
  <2> QED
    BY <2>1 DEF ReadableInv
<1> QED
  BY <1>2, <1>3

LEMMA RetirementReadable ==
    ASSUME ReadableInv, FilesInv', ReconcileRetirement PROVE ReadableInv'
<1>1. FilesInv /\ op.pc \in RetirementPcs /\ journal = None /\ journal' = None
  BY DEF ReconcileRetirement, LoadRetirement, ComposeDown, RemoveImages, MarkRemoved, VerifyAbsent, CommitRetiredState,
     MarkRetired, MarkRetirement, UnlinkRetirement, ReadableInv, FilesInv, JournalOK
<1> QED
  BY <1>1 DEF ReadableInv

LEMMA PrepareReadable ==
    ASSUME ReadableInv, FilesInv', Prepare PROVE ReadableInv'
<1>1. FilesInv /\ op.pc \in CheckPcs \cup BodyPcs /\ journal = None /\ journal' = None
  BY DEF Prepare, Preflight, Pull, Up, SwitchCheck, RollbackCheck, StartTarget, WriteRetirement, CleanupRefused, Checked,
     ReadableInv, FilesInv, JournalOK
<1> QED
  BY <1>1 DEF ReadableInv

LEMMA TransactReadable ==
    ASSUME ReadableInv, FilesInv', Transact PROVE ReadableInv'
<1>1. FilesInv
  BY DEF ReadableInv
<1>2. CASE BackupFragment \/ BackupState
  <2>1. journal' = None
    BY <1>1, <1>2 DEF BackupFragment, BackupState, FilesInv, JournalOK
  <2> QED
    BY <2>1 DEF ReadableInv
<1>3. CASE WriteJournal \/ Begun \/ InstallFragment \/ Reload \/ MarkInstalled \/ CommitState
  <2>1. op'.pc \in OpenPcs
    BY <1>1, <1>3, KnownOp, GotoOp DEF WriteJournal, Begun, Checked, Goto, InstallFragment, Reload, MarkInstalled, MarkJournal,
       CommitState, Operation
  <2>2. Pending'
    BY <2>1 DEF FilesInv, JournalOK
  <2> QED
    BY <2>1, <2>2 DEF ReadableInv
<1>4. CASE MarkCommitted
  <2>1. /\ op'.pc = "committed" /\ JournalValid /\ UNCHANGED <<fragmentBackups, stateBackups>>
        /\ journal' = [journal EXCEPT !.phase = "state_committed"] /\ journal \in Journal
    BY <1>1, <1>4, KnownOp, GotoOp DEF MarkCommitted, MarkJournal, FilesInv, JournalOK, BackupsOK, FileTypes, TypeOK
  <2>2. journal'.gen = journal.gen /\ journal'.hadState = journal.hadState
    BY <2>1 DEF Journal
  <2>3. JournalValid'
    BY <2>1, <2>2 DEF JournalValid, StateValid
  <2> QED
    BY <2>1, <2>3 DEF ReadableInv
<1>5. CASE Finalize
  <2>1. op'.pc = "reconcile" /\ UNCHANGED <<journal, fragmentBackups, stateBackups>>
    BY <1>1, <1>5, KnownOp DEF Finalize, Operation
  <2> QED
    BY <2>1, StillReadable
<1> QED
  BY <1>2, <1>3, <1>4, <1>5 DEF Transact

LEMMA ConcludeReadable ==
    ASSUME ReadableInv, FilesInv', Conclude PROVE ReadableInv'
<1>1. FilesInv
  BY DEF ReadableInv
<1>2. CASE RemoveOrphan
  BY <1>2 DEF RemoveOrphan, ReadableInv
<1>3. CASE OrphansRemoved \/ StopOld \/ StopCandidate
  <2>1. op'.pc \in {"idle", "stop_old"} /\ UNCHANGED <<journal, fragmentBackups, stateBackups>>
    BY <1>1, <1>3, KnownOp, GotoOp, IdleOp DEF OrphansRemoved, StopOld, StopCandidate
  <2> QED
    BY <2>1, StillReadable
<1> QED
  BY <1>2, <1>3 DEF Conclude

LEMMA ReadableStep == ASSUME ReadableInv, BlindNext PROVE ReadableInv'
<1>1. FilesInv'
  BY BlindFiles DEF ReadableInv
<1> QED
  BY <1>1, OperationReadable, JournalReadable, RetirementReadable, PrepareReadable, TransactReadable, ConcludeReadable
     DEF BlindNext

(* What module BlueGreen says with other failures it says of the same files, *)
(* and of the same operation: but for the commands that fail, its steps are  *)
(* the ones above.                                                           *)

USE DEF Blind!files, Blind!docker, Blind!At, Blind!DocumentsUnchanged, Blind!BackupsUnchanged,
        Blind!Goto, Goto, Blind!Idle, Idle

LEMMA BlindStarts == Blind!Start => Start
  BY DEF Blind!Start, Start, Blind!BeginDeploy, BeginDeploy, Blind!BeginSwitch, BeginSwitch, Blind!BeginRecorded,
     BeginRecorded, Blind!Begin, Begin, Blind!Deployment, Deployment, Blind!Absent, Absent

LEMMA BlindTraps ==
    /\ Blind!ParentTrap = ParentTrap
    /\ Blind!Failed = Failed
    /\ Blind!Died = Died
    /\ Blind!JournalDone = JournalDone
    /\ Blind!RetirementDone = RetirementDone
    /\ Blind!InTrap <=> InTrap
    /\ Blind!Fault <=> Fault
  BY DEF Blind!ParentTrap, ParentTrap, Blind!Failed, Failed, Blind!Preparing, Blind!Transacting, Blind!Died, Died,
     Blind!JournalDone, JournalDone, Blind!RetirementDone, RetirementDone, Blind!InTrap, InTrap, Blind!Fault, Fault

LEMMA BlindRecords ==
    /\ Blind!Consistent <=> Consistent
    /\ Blind!JournalValid <=> JournalValid
    /\ Blind!RetirementValid <=> RetirementValid
    /\ Blind!RetirementMatchesPrevious <=> RetirementMatchesPrevious
    /\ Blind!RetirementCommitted <=> RetirementCommitted
    /\ state # None => (Blind!StateValid(state) <=> StateValid(state))
  BY DEF Blind!Consistent, Blind!StateValid, StateValid, Blind!JournalValid, JournalValid, Blind!RetirementValid,
     RetirementValid, Blind!RetirementMatchesPrevious, RetirementMatchesPrevious, Blind!RetirementCommitted,
     RetirementCommitted

LEMMA BlindInterrupts == Blind!Interrupt => Interrupt
  BY BlindTraps DEF Blind!Interrupt, Interrupt, Blind!Crash, Crash, Blind!Fail, Fail, Blind!ChildKilled, ChildKilled,
     Blind!Preparing, Blind!Transacting

LEMMA BlindHost == Blind!CaddyRestart \/ Blind!Operator => CaddyRestart \/ Operator
  BY DEF Blind!CaddyRestart, CaddyRestart, Blind!Operator, Operator, Blind!Absent, Absent

LEMMA BlindJournal == Blind!ReconcileJournal => BlindReads \/ BlindRestores \/ BlindTidies
<1>1. /\ Blind!NoJournal => NoJournal
      /\ Blind!UnreadableJournal => UnreadableJournal
      /\ Blind!LoadJournal => LoadJournal
      /\ Blind!CheckCommitted => CheckCommitted
      /\ Blind!RestoreCheck => RestoreCheck
  BY BlindTraps, BlindRecords DEF Blind!NoJournal, NoJournal, Blind!UnreadableJournal, UnreadableJournal,
     Blind!LoadJournal, LoadJournal, Blind!CheckCommitted, CheckCommitted, Blind!RestoreCheck, RestoreCheck
<1>2. /\ Blind!RestoreFragment => RestoreFragment
      /\ Blind!RestoreState => RestoreState
      /\ Blind!RestoreReload => RestoreReload
  BY DEF Blind!RestoreFragment, RestoreFragment, Blind!RestoreState, RestoreState, Blind!RestoreReload, RestoreReload
<1>3. Blind!RestoreSkipped => Unseen
  BY BlindTraps DEF Blind!RestoreSkipped, Blind!Skipped, Unseen
<1>4. /\ Blind!UnlinkJournal => UnlinkJournal
      /\ Blind!UnlinkStateBackup => UnlinkStateBackup
      /\ Blind!UnlinkFragmentBackup => UnlinkFragmentBackup
      /\ ~Blind!JournalKept
  BY BlindTraps DEF Blind!UnlinkJournal, UnlinkJournal, Blind!UnlinkStateBackup, UnlinkStateBackup,
     Blind!UnlinkFragmentBackup, UnlinkFragmentBackup, Blind!JournalKept
<1> QED
  BY <1>1, <1>2, <1>3, <1>4 DEF Blind!ReconcileJournal, BlindReads, BlindRestores, BlindTidies

LEMMA BlindRetirement == Blind!ReconcileRetirement => ReconcileRetirement
<1>1. Blind!LoadRetirement => LoadRetirement
  BY BlindTraps, BlindRecords DEF Blind!LoadRetirement, LoadRetirement
<1>2. /\ Blind!ComposeDown => ComposeDown
      /\ Blind!RemoveImages => RemoveImages
      /\ Blind!MarkRemoved => MarkRemoved
      /\ Blind!VerifyAbsent => VerifyAbsent
      /\ Blind!CommitRetiredState => CommitRetiredState
      /\ Blind!MarkRetired => MarkRetired
      /\ Blind!UnlinkRetirement => UnlinkRetirement
  BY BlindTraps DEF Blind!ComposeDown, ComposeDown, Blind!RemoveImages, RemoveImages, Blind!MarkRemoved, MarkRemoved,
     Blind!VerifyAbsent, VerifyAbsent, Blind!CommitRetiredState, CommitRetiredState, Blind!MarkRetired, MarkRetired,
     Blind!MarkRetirement, MarkRetirement, Blind!UnlinkRetirement, UnlinkRetirement, Blind!Absent, Absent
<1> QED
  BY <1>1, <1>2 DEF Blind!ReconcileRetirement, ReconcileRetirement

LEMMA BlindPrepare == Blind!Prepare => Prepare
<1>1. /\ Blind!Preflight => Preflight
      /\ Blind!SwitchCheck => SwitchCheck
      /\ Blind!RollbackCheck => RollbackCheck
  BY BlindTraps, BlindRecords DEF Blind!Preflight, Preflight, Blind!SwitchCheck, SwitchCheck, Blind!Checked, Checked,
     Blind!RollbackCheck, RollbackCheck, Blind!Absent, Absent, Blind!Running, Running, Blind!Target, Target
<1>2. /\ Blind!Pull => Pull
      /\ Blind!Up => Up
      /\ Blind!StartTarget => StartTarget
      /\ Blind!WriteRetirement => WriteRetirement
      /\ Blind!CleanupRefused => CleanupRefused
  BY BlindTraps, BlindRecords DEF Blind!Pull, Pull, Blind!Up, Up, Blind!StartTarget, StartTarget, Blind!WriteRetirement,
     WriteRetirement, Blind!CleanupAllowed, CleanupAllowed, Blind!CleanupRefused, CleanupRefused
<1> QED
  BY <1>1, <1>2 DEF Blind!Prepare, Prepare

LEMMA BlindTransact == Blind!Transact => Transact
  BY BlindTraps DEF Blind!Transact, Transact, Blind!BackupFragment, BackupFragment, Blind!BackupState, BackupState,
     Blind!WriteJournal, WriteJournal, Blind!Begun, Begun, Blind!Checked, Checked, Blind!InstallFragment, InstallFragment,
     Blind!Reload, Reload, Blind!MarkInstalled, MarkInstalled, Blind!MarkJournal, MarkJournal, Blind!CommitState,
     CommitState, Blind!NewState, NewState, Blind!Target, Target, Blind!MarkCommitted, MarkCommitted, Blind!Finalize,
     Finalize

LEMMA BlindConclude == Blind!Conclude => Conclude
<1>1. Blind!RemoveOrphan \/ Blind!OrphansRemoved => RemoveOrphan \/ OrphansRemoved
  BY DEF Blind!RemoveOrphan, RemoveOrphan, Blind!OrphansRemoved, OrphansRemoved, Blind!OrphanFragments, OrphanFragments,
     Blind!OrphanStates, OrphanStates, Blind!Referenced, Referenced, Blind!Generation, Generation
<1>2. Blind!StopOld \/ Blind!StopCandidate => StopOld \/ StopCandidate
  BY BlindRecords DEF Blind!StopOld, StopOld, Blind!StopCandidate, StopCandidate, Blind!Stopped, Stopped, Blind!Absent, Absent,
     Blind!CandidateCommitted, CandidateCommitted, Blind!Target, Target
<1> QED
  BY <1>1, <1>2 DEF Blind!Conclude, Conclude

LEMMA BlindSteps == Blind!Next => BlindNext
  BY BlindStarts, BlindInterrupts, BlindHost, BlindJournal, BlindRetirement, BlindPrepare, BlindTransact, BlindConclude
     DEF Blind!Next, Blind!Run, BlindNext

-----------------------------------------------------------------------------
(* What both kinds of behaviour keep. *)

LEMMA ServiceRestartable == ServiceInv => RecordedDeploymentsRestartable
<1> SUFFICES ASSUME ServiceInv, Authority # None PROVE RecordedDeploymentsRestartable
  BY DEF RecordedDeploymentsRestartable
<1>1. Authority.active.release \in images /\ StateValid(Authority)
  BY DEF ServiceInv, AuthorityOK
<1>2. Authority \in State
  BY DEF Authority, ServiceInv, FilesInv, FileTypes, TypeOK, Journal
<1>3. ASSUME Authority.previous # None, retirement = None
      PROVE  /\ projects[Authority.previous.slot].release = Authority.previous.release
             /\ Authority.previous.release \in images
  <2>1. Authority.previous.slot \in Slots /\ Authority.previous.release \in Releases
    BY <1>2, <1>3 DEF State, Deployment
  <2>2. projects[Authority.previous.slot].release = Authority.previous.release
    BY <1>3 DEF ServiceInv, AuthorityOK
  <2>3. projects[Authority.previous.slot] # Absent
    BY <2>1, <2>2, SlotsAssumption DEF Absent
  <2> QED
    BY <2>1, <2>2, <2>3 DEF ServiceInv, AuthorityOK
<1> QED
  BY <1>1, <1>3 DEF RecordedDeploymentsRestartable

LEMMA JournalsStayReadable == ReadableInv => JournalsReadable
  BY DEF ReadableInv, FilesInv, JournalOK, BackupsOK, RetirementOK, JournalsReadable

RecordsInv == IF part = "blind" THEN ReadableInv ELSE ServiceInv

LEMMA RecordsStep ==
    ASSUME Failing \subseteq {"unlink"}, RecordsInv, [OperationsNext]_allVars PROVE RecordsInv'
<1>1. CASE part # "blind"
  BY <1>1, OneDeployment, ServiceStep DEF RecordsInv
<1>2. CASE part = "blind"
  <2>1. part' = part /\ (Blind!Next \/ UNCHANGED vars)
    BY <1>2 DEF OperationsNext, allVars, InDeployment, InUpload, InCleanup, InBucket, InBuild, InDownload, InClosure
  <2>2. CASE Blind!Next
    BY <1>2, <2>1, <2>2, BlindSteps, ReadableStep DEF RecordsInv
  <2>3. CASE UNCHANGED vars
    <3>1. FilesInv'
      BY <1>2, <2>3, FilesStep DEF RecordsInv, ReadableInv
    <3>2. ReadableInv'
      BY <1>2, <2>3, <3>1, StillReadable DEF RecordsInv, vars
    <3> QED
      BY <1>2, <2>1, <3>2 DEF RecordsInv
  <2> QED
    BY <2>1, <2>2, <2>3
<1> QED
  BY <1>1, <1>2

\* While the commands of the traps do not fail unseen, both recorded deployments
\* keep what a restart of theirs needs until a retirement is decided; and when
\* they do, what an operation leaves can still be read by the next one: the
\* journal against its backups, the retirement against its state
\* (ops_reconcile_journal, ops_reconcile_retirement,
\* ops_remove_orphan_transaction_backups).
THEOREM RecordsSafety ==
    ASSUME Failing \subseteq {"unlink"} PROVE OperationsSpec => []RecordsUsable
<1>1. OperationsInit => RecordsInv
  <2>1. Init => ReadableInv
    BY FilesInit DEF Init, ReadableInv
  <2> QED
    BY <2>1, ServiceInit DEF OperationsInit, RecordsInv
<1>2. RecordsInv /\ [OperationsNext]_allVars => RecordsInv'
  BY RecordsStep
<1>3. RecordsInv => RecordsUsable
  BY ServiceRestartable, JournalsStayReadable DEF RecordsInv, RecordsUsable
<1> QED
  BY <1>1, <1>2, <1>3, PTL DEF OperationsSpec

=============================================================================
