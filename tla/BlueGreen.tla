----------------------------- MODULE BlueGreen -----------------------------
(***************************************************************************)
(* The production operations of deploy/bin: deploy.sh, switch.sh,          *)
(* rollback.sh and cleanup.sh over the files of the state root, the Caddy  *)
(* fragment, the running Caddy and the two Compose projects.               *)
(*                                                                         *)
(* An operation is a process that holds the operations lock (a second one  *)
(* is refused by LOCK_NB), so at most one runs; it may be killed between   *)
(* any two durable writes, and the next operation first reconciles what it *)
(* left.  One action is one durable write, one Compose command or one      *)
(* Caddy reload; the checks between two of them are guards.                *)
(***************************************************************************)
EXTENDS Naturals, FiniteSets

CONSTANTS
    Slots,      \* blue and green
    Releases,   \* release ids
    None,       \* an absent file, an empty field
    Failing,    \* what may fail where errexit is off (see Skipped)
    MaxGen,     \* bound of the generation counter (model checking only)
    MaxFaults   \* bound of crashes and failed commands (same)

ASSUME SlotsAssumption ==
    /\ None \notin Slots \cup Releases
    /\ \E s, t \in Slots : s # t /\ Slots = {s, t}

ASSUME FaultsAssumption ==
    /\ Failing \subseteq {"fragment", "state", "reload", "unlink"}
    /\ MaxGen \in Nat
    /\ MaxFaults \in Nat

VARIABLES
    fragment,         \* the slot the active Caddy fragment proxies to
    caddy,            \* the slot the running Caddy proxies to
    state,            \* active.env, or None
    journal,          \* the transaction journal, or None
    retirement,       \* the retirement journal, or None
    fragmentBackups,  \* tx-gen-N-old-fragment.caddy: the slot it names, or None
    stateBackups,     \* tx-gen-N-old-state.env: the state it holds, or None
    gen,              \* the last generation handed out
    projects,         \* the Compose project of each slot
    images,           \* releases whose images the host holds
    op,               \* the operation that holds the lock, or Idle
    faults            \* faults so far (bounded by MaxFaults)

files == <<fragment, state, journal, retirement, fragmentBackups,
           stateBackups, gen>>
docker == <<projects, images>>
vars == <<files, caddy, docker, op, faults>>

-----------------------------------------------------------------------------
(* What the files and the projects hold. *)

Generation == 1 .. MaxGen

Deployment == [slot : Slots, release : Releases]

State == [gen : Generation, active : Deployment,
          previous : Deployment \cup {None}, backup : Generation \cup {None}]

Journal == [gen : Generation, hadState : BOOLEAN,
            phase : {"prepared", "traffic_installed", "state_committed"}]

Retirement == [gen : Generation, activeGen : Generation,
               target : Deployment, backup : Generation,
               phase : {"prepared", "resources_removed", "state_committed"}]

Project == [status : {"absent", "stopped", "running"},
            release : Releases \cup {None}]

\* An absent file is none that holds a record, an empty field names no backup.
ASSUME NoneAssumption ==
    None \notin State \cup Journal \cup Retirement \cup Deployment \cup Generation

Absent == [status |-> "absent", release |-> None]

Running(d) == projects[d.slot] = [status |-> "running", release |-> d.release]

Stopped(p) == IF p = Absent THEN p ELSE [p EXCEPT !.status = "stopped"]

StateValid(s) ==
    s.previous # None =>
        /\ fragmentBackups[s.backup] = s.previous.slot
        /\ s.previous.slot # s.active.slot

Consistent ==
    /\ state # None
    /\ StateValid(state)
    /\ fragment = state.active.slot

JournalValid ==
    /\ fragmentBackups[journal.gen] # None
    /\ journal.hadState =>
        LET old == stateBackups[journal.gen]
        IN /\ old # None
           /\ StateValid(old)
           /\ fragmentBackups[journal.gen] = old.active.slot

RetirementValid ==
    fragmentBackups[retirement.backup] = retirement.target.slot

RetirementMatchesPrevious ==
    /\ state.previous = retirement.target
    /\ state.gen = retirement.activeGen
    /\ state.backup = retirement.backup

-----------------------------------------------------------------------------
(* The operation that runs: where it stands (pc) and in which part of the  *)
(* scripts (ctx): reconciling at its start, in its body, finalizing, in    *)
(* the trap of switch.sh or rollback.sh (recover), in the trap of deploy.sh *)
(* (parent), or retiring as the body of cleanup.sh.                        *)

Kinds == {"deploy", "switch", "rollback", "cleanup"}

Idle == [kind |-> "none", pc |-> "idle", ctx |-> "none",
         slot |-> None, release |-> None]

Preparing == {"up", "switch_check", "start_target", "backup_fragment",
              "backup_state", "write_journal", "journalled"}

Transacting == {"install", "reload", "mark_installed", "commit",
                "mark_committed", "committed"}

Target == [slot |-> op.slot, release |-> op.release]

Goto(pc) == op' = [op EXCEPT !.pc = pc]

InTrap == op.ctx \in {"recover", "parent"}

ParentTrap == [op EXCEPT !.ctx = "parent", !.pc = "reconcile"]

\* The operation after one of its commands failed: the EXIT traps decide.
Failed ==
    IF op.pc \in Transacting
    THEN [op EXCEPT !.ctx = "recover", !.pc = "reconcile"]
    ELSE IF op.kind = "deploy" /\ op.pc \in Preparing THEN ParentTrap
    ELSE IF op.kind = "rollback" /\ op.pc \in Preparing
    THEN [op EXCEPT !.ctx = "recover", !.pc = "stop_target"]
    ELSE Idle

\* The operation after ops_die inside ops_reconcile_journal: the process
\* exits at once, and a switch.sh that dies leaves its deploy.sh to its trap.
Died ==
    IF op.kind = "deploy" /\ op.ctx \in {"finalize", "recover"}
    THEN ParentTrap
    ELSE Idle

\* The operation after ops_reconcile_journal returned.
JournalDone ==
    CASE op.ctx = "start" -> [op EXCEPT !.pc = "retire"]
      [] op.ctx = "finalize" -> [op EXCEPT !.pc = "orphans"]
      [] op.ctx = "recover" /\ op.kind = "deploy" -> ParentTrap
      [] op.ctx = "recover" /\ op.kind = "switch" -> Idle
      [] OTHER -> [op EXCEPT !.pc = "stop_target"]

\* The operation after ops_reconcile_retirement returned.  The bound MaxGen
\* ends an operation that would need another generation.
RetirementDone ==
    IF op.ctx = "retire" \/ gen = MaxGen THEN Idle
    ELSE [op EXCEPT !.ctx = "body",
                    !.pc = CASE op.kind = "deploy" -> "preflight"
                             [] op.kind = "switch" -> "switch_check"
                             [] op.kind = "rollback" -> "rollback_check"
                             [] op.kind = "cleanup" -> "cleanup_check"]

-----------------------------------------------------------------------------
(* An operation starts, and may be killed or see a command fail.           *)

Begin(kind, slot, release) ==
    /\ op = Idle
    /\ op' = [kind |-> kind, pc |-> "reconcile", ctx |-> "start",
              slot |-> slot, release |-> release]
    /\ UNCHANGED <<files, caddy, docker, faults>>

BeginDeploy == \E d \in Deployment : Begin("deploy", d.slot, d.release)

BeginSwitch ==
    \E s \in Slots : /\ projects[s] # Absent
                     /\ Begin("switch", s, projects[s].release)

BeginRecorded == \E kind \in {"rollback", "cleanup"} : Begin(kind, None, None)

Fault ==
    /\ op # Idle
    /\ faults < MaxFaults
    /\ faults' = faults + 1

\* The whole operation is killed, or a command fails where errexit is on and
\* no trap is armed: nothing more of it runs.
Crash ==
    /\ Fault
    /\ op' = Idle
    /\ UNCHANGED <<files, caddy, docker>>

\* A command of the body fails and the EXIT trap takes over.
Fail ==
    /\ Fault
    /\ op.pc \in Preparing \cup Transacting
    /\ op' = Failed
    /\ UNCHANGED <<files, caddy, docker>>

\* Only the switch.sh that deploy.sh runs is killed.
ChildKilled ==
    /\ Fault
    /\ op.kind = "deploy"
    /\ \/ op.pc \in {"switch_check", "stop_old"} \cup Transacting
       \/ op.ctx \in {"finalize", "recover"}
    /\ op' = ParentTrap
    /\ UNCHANGED <<files, caddy, docker>>

\* In a trap errexit is off: the command named what fails, its failure is
\* not seen, and the next one runs.
Skipped(what, pc) ==
    /\ Fault
    /\ what \in Failing
    /\ InTrap
    /\ Goto(pc)
    /\ UNCHANGED <<files, caddy, docker>>

-----------------------------------------------------------------------------
(* ops_reconcile_journal. *)

At(pc) == op.pc = pc

DocumentsUnchanged == UNCHANGED <<state, journal, retirement>>
BackupsUnchanged == UNCHANGED <<fragmentBackups, stateBackups, gen>>

NoJournal ==
    /\ At("reconcile")
    /\ journal = None
    /\ op' = JournalDone
    /\ UNCHANGED <<files, caddy, docker, faults>>

UnreadableJournal ==
    /\ At("reconcile")
    /\ journal # None
    /\ ~JournalValid
    /\ op' = Died
    /\ UNCHANGED <<files, caddy, docker, faults>>

LoadJournal ==
    /\ At("reconcile")
    /\ journal # None
    /\ JournalValid
    /\ Goto(IF journal.phase = "state_committed" THEN "check_committed"
                                                 ELSE "restore_fragment")
    /\ UNCHANGED <<files, caddy, docker, faults>>

\* Mutant of CheckCommitted: a backup is demanded of a first deployment too.
CheckCommittedStrictly ==
    /\ At("check_committed")
    /\ IF state # None /\ state.gen = journal.gen /\ state.backup = journal.gen
       THEN Goto("unlink_journal")
       ELSE op' = Died
    /\ UNCHANGED <<files, caddy, docker, faults>>

CheckCommitted ==
    /\ At("check_committed")
    /\ LET sound == /\ state # None
                    /\ StateValid(state)
                    /\ state.gen = journal.gen
                    /\ state.previous # None => state.backup = journal.gen
           seen == InTrap \/ op.ctx = "finalize" \/ Consistent
       IN IF sound /\ seen THEN Goto("unlink_journal") ELSE op' = Died
    /\ UNCHANGED <<files, caddy, docker, faults>>

RestoreFragment ==
    /\ At("restore_fragment")
    /\ fragment' = fragmentBackups[journal.gen]
    /\ Goto("restore_state")
    /\ DocumentsUnchanged /\ BackupsUnchanged
    /\ UNCHANGED <<caddy, docker, faults>>

\* Mutant of RestoreState: without an old state the new one is left in place.
RestoreStateIfOld ==
    /\ At("restore_state")
    /\ state' = IF journal.hadState THEN stateBackups[journal.gen] ELSE state
    /\ Goto("restore_reload")
    /\ BackupsUnchanged
    /\ UNCHANGED <<fragment, journal, retirement, caddy, docker, faults>>

RestoreState ==
    /\ At("restore_state")
    /\ state' = IF journal.hadState THEN stateBackups[journal.gen] ELSE None
    /\ Goto("restore_reload")
    /\ BackupsUnchanged
    /\ UNCHANGED <<fragment, journal, retirement, caddy, docker, faults>>

RestoreReload ==
    /\ At("restore_reload")
    /\ caddy' = fragment
    /\ Goto("restore_check")
    /\ UNCHANGED <<files, docker, faults>>

\* Mutant of RestoreCheck: the backups go before the journal.
RestoreCheckBackupsFirst ==
    /\ At("restore_check")
    /\ Goto("tidy_restored")
    /\ UNCHANGED <<files, caddy, docker, faults>>

RestoreCheck ==
    /\ At("restore_check")
    /\ IF journal.hadState => Consistent \/ InTrap
       THEN Goto("unlink_journal")
       ELSE op' = Died
    /\ UNCHANGED <<files, caddy, docker, faults>>

RestoreSkipped ==
    \/ At("restore_fragment") /\ Skipped("fragment", "restore_state")
    \/ At("restore_state") /\ Skipped("state", "restore_reload")
    \/ At("restore_reload") /\ Skipped("reload", "restore_check")

UnlinkJournal ==
    /\ At("unlink_journal")
    /\ journal' = None
    /\ Goto(IF journal.phase = "state_committed" THEN "tidy_committed"
                                                 ELSE "tidy_restored")
    /\ BackupsUnchanged
    /\ UNCHANGED <<fragment, state, retirement, caddy, docker, faults>>

\* durable-unlink of the journal fails: ops_reconcile_journal returns 1,
\* which the finalizing step and both traps only report.
JournalKept ==
    /\ At("unlink_journal")
    /\ "unlink" \in Failing
    /\ Fault
    /\ op.ctx # "start"
    /\ op' = JournalDone
    /\ UNCHANGED <<files, caddy, docker>>

\* A committed transaction keeps the old fragment when its state names it as
\* the backup of the previous deployment; a restored one has no use for it.
UnlinkStateBackup ==
    /\ op.pc \in {"tidy_committed", "tidy_restored"}
    /\ stateBackups' = [stateBackups EXCEPT ![gen] = None]
    /\ op' = IF At("tidy_committed") /\ state.previous # None
             THEN JournalDone
             ELSE [op EXCEPT !.pc = "unlink_fragment_backup"]
    /\ DocumentsUnchanged
    /\ UNCHANGED <<fragment, fragmentBackups, gen, caddy, docker, faults>>

UnlinkFragmentBackup ==
    /\ At("unlink_fragment_backup")
    /\ fragmentBackups' = [fragmentBackups EXCEPT ![gen] = None]
    /\ op' = JournalDone
    /\ DocumentsUnchanged
    /\ UNCHANGED <<fragment, stateBackups, gen, caddy, docker, faults>>

ReconcileJournal ==
    \/ NoJournal
    \/ UnreadableJournal
    \/ LoadJournal
    \/ CheckCommitted
    \/ RestoreFragment
    \/ RestoreState
    \/ RestoreReload
    \/ RestoreCheck
    \/ RestoreSkipped
    \/ UnlinkJournal
    \/ JournalKept
    \/ UnlinkStateBackup
    \/ UnlinkFragmentBackup

-----------------------------------------------------------------------------
(* ops_reconcile_retirement.                                               *)

RetirementCommitted ==
    /\ state.gen = retirement.gen
    /\ state.previous = None

LoadRetirement ==
    /\ At("retire")
    /\ op' = IF retirement = None THEN RetirementDone
             ELSE IF ~(RetirementValid /\ Consistent) THEN Idle
             ELSE IF RetirementCommitted
             THEN [op EXCEPT !.pc = "unlink_retirement"]
             ELSE IF \/ retirement.phase = "state_committed"
                     \/ ~RetirementMatchesPrevious
             THEN Idle
             ELSE [op EXCEPT !.pc = IF retirement.phase = "prepared"
                                    THEN "down" ELSE "verify_absent"]
    /\ UNCHANGED <<files, caddy, docker, faults>>

ComposeDown ==
    /\ At("down")
    /\ projects' = [projects EXCEPT ![retirement.target.slot] = Absent]
    /\ Goto("remove_images")
    /\ UNCHANGED <<files, caddy, images, faults>>

RemoveImages ==
    /\ At("remove_images")
    /\ images' = images \ {retirement.target.release}
    /\ Goto("mark_removed")
    /\ UNCHANGED <<files, caddy, projects, faults>>

MarkRetirement(pc, phase, next) ==
    /\ At(pc)
    /\ retirement' = [retirement EXCEPT !.phase = phase]
    /\ Goto(next)
    /\ BackupsUnchanged
    /\ UNCHANGED <<fragment, state, journal, caddy, docker, faults>>

MarkRemoved == MarkRetirement("mark_removed", "resources_removed", "verify_absent")

VerifyAbsent ==
    /\ At("verify_absent")
    /\ IF /\ projects[retirement.target.slot] = Absent
          /\ retirement.target.release \notin images
       THEN Goto("commit_retired")
       ELSE op' = Idle
    /\ UNCHANGED <<files, caddy, docker, faults>>

CommitRetiredState ==
    /\ At("commit_retired")
    /\ state' = [gen |-> retirement.gen, active |-> state.active,
                 previous |-> None, backup |-> None]
    /\ Goto("mark_retired")
    /\ BackupsUnchanged
    /\ UNCHANGED <<fragment, journal, retirement, caddy, docker, faults>>

MarkRetired == MarkRetirement("mark_retired", "state_committed", "unlink_retirement")

\* The retired fragment backup goes last, and may stay behind.
UnlinkRetirement ==
    /\ At("unlink_retirement")
    /\ retirement' = None
    /\ \E unlinked \in BOOLEAN :
          fragmentBackups' = IF unlinked
                             THEN [fragmentBackups EXCEPT
                                      ![retirement.backup] = None]
                             ELSE fragmentBackups
    /\ op' = RetirementDone
    /\ UNCHANGED <<fragment, state, journal, stateBackups, gen>>
    /\ UNCHANGED <<caddy, docker, faults>>

ReconcileRetirement ==
    \/ LoadRetirement
    \/ ComposeDown
    \/ RemoveImages
    \/ MarkRemoved
    \/ VerifyAbsent
    \/ CommitRetiredState
    \/ MarkRetired
    \/ UnlinkRetirement

-----------------------------------------------------------------------------
(* The bodies of the scripts up to the transaction. *)

\* A refused check fails the operation like a command that fails.
Checked(pc, passes, next) ==
    /\ At(pc)
    /\ op' = IF passes THEN [op EXCEPT !.pc = next] ELSE Failed
    /\ UNCHANGED <<files, caddy, docker, faults>>

Preflight ==
    LET vacant == /\ projects[op.slot] = Absent
                  /\ state # None =>
                        /\ Consistent
                        /\ state.active.slot # op.slot
                        /\ state.previous # None =>
                              state.previous.slot # op.slot
    IN Checked("preflight", retirement = None /\ vacant, "pull")

Pull ==
    /\ At("pull")
    /\ images' = images \cup {op.release}
    /\ Goto("up")
    /\ UNCHANGED <<files, caddy, projects, faults>>

Up ==
    /\ At("up")
    /\ projects' = [projects EXCEPT ![op.slot] =
                       [status |-> "running", release |-> op.release]]
    /\ Goto("switch_check")
    /\ UNCHANGED <<files, caddy, images, faults>>

SwitchCheck ==
    LET other == /\ state # None => Consistent
                 /\ state # None => state.active.slot # op.slot
    IN Checked("switch_check", other /\ Running(Target), "backup_fragment")

RollbackCheck ==
    /\ At("rollback_check")
    /\ op' = IF Consistent /\ state.previous # None
             THEN [op EXCEPT !.pc = "start_target",
                             !.slot = state.previous.slot,
                             !.release = state.previous.release]
             ELSE Idle
    /\ UNCHANGED <<files, caddy, docker, faults>>

\* "docker compose start", then identity, readiness and smoke checks.
StartTarget ==
    /\ At("start_target")
    /\ IF projects[op.slot].release = op.release
       THEN /\ projects' = [projects EXCEPT ![op.slot].status = "running"]
            /\ Goto("backup_fragment")
       ELSE /\ op' = Failed
            /\ UNCHANGED projects
    /\ UNCHANGED <<files, caddy, images, faults>>

CleanupAllowed ==
    /\ Consistent
    /\ state.previous # None
    /\ state.previous.slot # state.active.slot
    /\ state.previous.release # state.active.release
    /\ projects[state.previous.slot].status # "running"

WriteRetirement ==
    /\ At("cleanup_check")
    /\ CleanupAllowed
    /\ gen' = gen + 1
    /\ retirement' = [gen |-> gen + 1, activeGen |-> state.gen,
                      target |-> state.previous, backup |-> state.backup,
                      phase |-> "prepared"]
    /\ op' = [op EXCEPT !.ctx = "retire", !.pc = "retire"]
    /\ UNCHANGED <<fragment, state, journal, fragmentBackups, stateBackups>>
    /\ UNCHANGED <<caddy, docker, faults>>

CleanupRefused ==
    /\ At("cleanup_check")
    /\ ~CleanupAllowed
    /\ op' = Idle
    /\ UNCHANGED <<files, caddy, docker, faults>>

Prepare ==
    \/ Preflight
    \/ Pull
    \/ Up
    \/ SwitchCheck
    \/ RollbackCheck
    \/ StartTarget
    \/ WriteRetirement
    \/ CleanupRefused

-----------------------------------------------------------------------------
(* The transaction of switch.sh and rollback.sh.                           *)

BackupFragment ==
    /\ At("backup_fragment")
    /\ IF journal = None
       THEN /\ gen' = gen + 1
            /\ fragmentBackups' = [fragmentBackups EXCEPT ![gen + 1] = fragment]
            /\ Goto("backup_state")
       ELSE /\ op' = Failed
            /\ UNCHANGED <<gen, fragmentBackups>>
    /\ DocumentsUnchanged
    /\ UNCHANGED <<fragment, stateBackups, caddy, docker, faults>>

BackupState ==
    /\ At("backup_state")
    /\ stateBackups' = [stateBackups EXCEPT ![gen] = state]
    /\ Goto("write_journal")
    /\ DocumentsUnchanged
    /\ UNCHANGED <<fragment, fragmentBackups, gen, caddy, docker, faults>>

WriteJournal ==
    /\ At("write_journal")
    /\ journal' = [gen |-> gen, hadState |-> state # None,
                   phase |-> "prepared"]
    /\ Goto("journalled")
    /\ BackupsUnchanged
    /\ UNCHANGED <<fragment, state, retirement, caddy, docker, faults>>

\* From here on the trap recovers (transaction_started=true).
Begun == Checked("journalled", TRUE, "install")

InstallFragment ==
    /\ At("install")
    /\ fragment' = op.slot
    /\ Goto("reload")
    /\ DocumentsUnchanged /\ BackupsUnchanged
    /\ UNCHANGED <<caddy, docker, faults>>

Reload ==
    /\ At("reload")
    /\ caddy' = fragment
    /\ Goto("mark_installed")
    /\ UNCHANGED <<files, docker, faults>>

MarkJournal(pc, phase, next) ==
    /\ At(pc)
    /\ journal' = [journal EXCEPT !.phase = phase]
    /\ Goto(next)
    /\ BackupsUnchanged
    /\ UNCHANGED <<fragment, state, retirement, caddy, docker, faults>>

MarkInstalled == MarkJournal("mark_installed", "traffic_installed", "commit")

NewState ==
    [gen |-> gen, active |-> Target,
     previous |-> IF state = None THEN None ELSE state.active,
     backup |-> IF state = None THEN None ELSE gen]

CommitState ==
    /\ At("commit")
    /\ state' = NewState
    /\ Goto("mark_committed")
    /\ BackupsUnchanged
    /\ UNCHANGED <<fragment, journal, retirement, caddy, docker, faults>>

MarkCommitted == MarkJournal("mark_committed", "state_committed", "committed")

\* transaction_started=false; ops_finalize_committed_transaction follows.
Finalize ==
    /\ At("committed")
    /\ op' = [op EXCEPT !.ctx = "finalize", !.pc = "reconcile"]
    /\ UNCHANGED <<files, caddy, docker, faults>>

Transact ==
    \/ BackupFragment
    \/ BackupState
    \/ WriteJournal
    \/ Begun
    \/ InstallFragment
    \/ Reload
    \/ MarkInstalled
    \/ CommitState
    \/ MarkCommitted
    \/ Finalize

-----------------------------------------------------------------------------
(* After the transaction.                                                  *)

\* Mutant of Referenced: only the journal protects a backup.
ReferencedByJournal == IF journal = None THEN {} ELSE {journal.gen}

\* What ops_remove_orphan_transaction_backups must keep: the backup the
\* state names and those of the journal.
Referenced ==
    (IF state = None THEN {} ELSE {state.backup} \ {None})
    \cup (IF journal = None THEN {} ELSE {journal.gen})

OrphanFragments ==
    {g \in Generation : fragmentBackups[g] # None} \ Referenced

OrphanStates ==
    {g \in Generation : stateBackups[g] # None}
        \ (IF journal = None THEN {} ELSE {journal.gen})

RemoveOrphan ==
    /\ At("orphans")
    /\ \/ \E g \in OrphanFragments :
             /\ fragmentBackups' = [fragmentBackups EXCEPT ![g] = None]
             /\ UNCHANGED stateBackups
       \/ \E g \in OrphanStates :
             /\ stateBackups' = [stateBackups EXCEPT ![g] = None]
             /\ UNCHANGED fragmentBackups
    /\ UNCHANGED <<fragment, state, journal, retirement, gen>>
    /\ UNCHANGED <<caddy, docker, op, faults>>

OrphansRemoved ==
    /\ At("orphans")
    /\ OrphanFragments = {} /\ OrphanStates = {}
    /\ Goto("stop_old")
    /\ UNCHANGED <<files, caddy, docker, faults>>

StopOld ==
    /\ At("stop_old")
    /\ IF state.previous = None
       THEN UNCHANGED projects
       ELSE projects' = [projects EXCEPT ![state.previous.slot] = Stopped(@)]
    /\ op' = Idle
    /\ UNCHANGED <<files, caddy, images, faults>>

\* Mutant of CandidateCommitted: the trap does not look at active.env.
CandidateNeverCommitted == FALSE

CandidateCommitted ==
    /\ state # None
    /\ StateValid(state)
    /\ state.active = Target

\* The last step of both traps that own a candidate.
StopCandidate ==
    /\ At("stop_target")
    /\ projects' = IF CandidateCommitted THEN projects
                   ELSE [projects EXCEPT ![op.slot] = Stopped(@)]
    /\ op' = Idle
    /\ UNCHANGED <<files, caddy, images, faults>>

Conclude ==
    \/ RemoveOrphan
    \/ OrphansRemoved
    \/ StopOld
    \/ StopCandidate

-----------------------------------------------------------------------------
(* The host.                                                               *)

\* Caddy restarts, with the host or alone, and loads the fragment anew.
CaddyRestart ==
    /\ caddy # fragment
    /\ caddy' = fragment
    /\ UNCHANGED <<files, docker, op, faults>>

\* The operator stops a project that does not serve, or removes one that no
\* recorded deployment needs, so that its slot can be deployed to again.
Operator ==
    /\ op = Idle
    /\ journal = None
    /\ \E s \in Slots :
          LET active == state # None /\ state.active.slot = s
              recorded == /\ state # None
                          /\ state.previous # None
                          /\ state.previous.slot = s
          IN /\ ~active
             /\ \/ /\ projects[s].status = "running"
                   /\ projects' = [projects EXCEPT ![s].status = "stopped"]
                \/ /\ ~recorded
                   /\ projects[s] # Absent
                   /\ projects' = [projects EXCEPT ![s] = Absent]
    /\ UNCHANGED <<files, caddy, images, op, faults>>

Init ==
    /\ fragment \in Slots
    /\ caddy = fragment
    /\ state = None
    /\ journal = None
    /\ retirement = None
    /\ fragmentBackups = [g \in Generation |-> None]
    /\ stateBackups = [g \in Generation |-> None]
    /\ gen = 0
    /\ projects = [s \in Slots |-> Absent]
    /\ images = {}
    /\ op = Idle
    /\ faults = 0

Start == BeginDeploy \/ BeginSwitch \/ BeginRecorded

Run == ReconcileJournal \/ ReconcileRetirement \/ Prepare \/ Transact \/ Conclude

Interrupt == Crash \/ Fail \/ ChildKilled

Next == Start \/ Run \/ Interrupt \/ CaddyRestart \/ Operator

\* A running operation proceeds until it ends or is killed, and an operator
\* whose operation did not end runs another one.
Fairness == WF_vars(Run) /\ WF_vars(Start)

Spec == Init /\ [][Next]_vars /\ Fairness

-----------------------------------------------------------------------------
(* Properties.                                                             *)

\* Every file, project and process has the shape its validator requires.
TypeOK ==
    /\ fragment \in Slots
    /\ caddy \in Slots
    /\ state \in State \cup {None}
    /\ journal \in Journal \cup {None}
    /\ retirement \in Retirement \cup {None}
    /\ fragmentBackups \in [Generation -> Slots \cup {None}]
    /\ stateBackups \in [Generation -> State \cup {None}]
    /\ gen \in 0 .. MaxGen
    /\ projects \in [Slots -> Project]
    /\ images \subseteq Releases
    /\ op.kind \in Kinds \cup {"none"}
    /\ faults \in 0 .. MaxFaults

\* The deployment the durable files stand for: an uncommitted transaction
\* will be undone, so its old state is still the authority.
Authority ==
    IF journal = None \/ journal.phase = "state_committed" THEN state
    ELSE IF journal.hadState THEN stateBackups[journal.gen] ELSE None

\* From the first deployment on, at every instant and after every fault, the
\* project Caddy proxies to and the project of record are both running.
ServedSlotRuns ==
    Authority # None =>
        /\ projects[caddy].status = "running"
        /\ Running(Authority.active)

\* What the users of the service rely on: the files keep the shape their
\* validators ask for, and traffic goes to a project that runs.
ServiceKept == TypeOK /\ ServedSlotRuns

\* The scripts, with their crashes and repairs, show only the steps of
\* ReleaseAuthority to who looks at the authority and at the traffic.
Promise == INSTANCE ReleaseAuthority WITH
    active <- IF Authority = None THEN None ELSE Authority.active,
    previous <- IF Authority = None THEN None ELSE Authority.previous,
    serving <- caddy,
    live <- {s \in Slots : projects[s].status = "running"}

\* Between operations, with no transaction pending, Caddy and its fragment
\* name the active slot of record and no other.
CaddyServesActive ==
    op = Idle /\ journal = None /\ state # None =>
        /\ fragment = state.active.slot
        /\ caddy = state.active.slot

\* Both recorded deployments keep the containers and images a restart needs,
\* and the previous one keeps its fragment backup, until a retirement of the
\* previous one is decided.
RecordedDeploymentsRestartable ==
    Authority # None =>
        /\ Authority.active.release \in images
        /\ Authority.previous # None =>
            /\ StateValid(Authority)
            /\ retirement = None =>
                /\ projects[Authority.previous.slot].release
                      = Authority.previous.release
                /\ Authority.previous.release \in images

\* Whatever the last operation left, the next one can read it: both journals
\* stay valid against the backups they name, and a retirement against the
\* state it will rewrite.
JournalsReadable ==
    /\ journal # None => JournalValid
    /\ retirement # None =>
        /\ journal = None
        /\ RetirementValid
        /\ RetirementCommitted \/ RetirementMatchesPrevious

\* A pending transaction or retirement is eventually finished or undone.
InterruptedWorkEnds ==
    []<>(journal = None /\ retirement = None)

=============================================================================
