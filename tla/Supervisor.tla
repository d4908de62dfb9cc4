------------------------------ MODULE Supervisor ------------------------------
(***************************************************************************)
(* The Codex supervisor (src/codex_supervisor/): the commands of the       *)
(* operator, the detached runners they launch and the codex process each   *)
(* runner reads, for one worker.  Its files are the lock, the state and    *)
(* the session; of the state only the status matters here, so an action    *)
(* is a write of a file, or a read something depends on.                   *)
(*                                                                         *)
(* A runner and its codex are named by their identity (process id and      *)
(* creation time), which is used again only when no file names it.         *)
(***************************************************************************)
EXTENDS Naturals, FiniteSets

CONSTANTS
    Runners,   \* identities of runner processes
    MaxAlive,  \* bound of runners at a time (checking only)
    MaxStops   \* bound of kills and errors (same)

ASSUME SupervisorAssumption ==
    /\ MaxAlive \in Nat /\ MaxStops \in Nat /\ "nobody" \notin Runners

VARIABLES
    lock,      \* the lock file: who created it, whether its owner is written
    status,    \* the status in the state file
    session,   \* the runner whose processes the session file names, or "nobody"
    runner,    \* of each runner: its place, the status it holds, and the lock it
               \* found stale (history)
    codex,     \* the runners whose codex runs
    cli,       \* stop or accept under way
    raced,     \* a lock of a running runner was removed that another had found
               \* without an owner, or had not looked at (history)
    stops

supervisorVars == <<lock, status, session, runner, codex, cli, raced, stops>>

-----------------------------------------------------------------------------

Resumable == {"failed", "blocked", "completed_pending_review", "accepted"}

Statuses == {"planning", "running"} \cup Resumable

NoLock == [by |-> "nobody", written |-> FALSE]

NotRunning == [at |-> "gone", holds |-> "planning", saw |-> NoLock]

NoCommand == [cmd |-> "none", at |-> "none", target |-> "nobody"]

RunnerAlive(r) == runner[r].at # "gone"

RunnerAt(r, place) == runner[r].at = place

RunnerGoes(r, place) == runner' = [runner EXCEPT ![r].at = place]

(* Inside the try block of run_worker, which owns the lock. *)
Reading == {"reading", "told"}

Trying == {"locked", "claimed", "spawned", "captured", "ended"} \cup Reading

Inside == Trying \cup {"failing", "leaving"}

\* Mutant of LockIsActive: a lock is active while codex runs.
LockIsActiveWithCodex == lock.written /\ lock.by \in codex

\* Mutant of LockIsActive: a lock with an owner is active.
LockIsActiveOnceWritten == lock.written

(* _lock_is_active: an owner is written, and runs. *)
LockIsActive == lock.written /\ RunnerAlive(lock.by)

-----------------------------------------------------------------------------
(* start and resume: the session must not name a running process.  resume    *)
(* wants a status to resume from, and a thread, which is data here.          *)

UnusedIdentity(r) ==
    /\ ~RunnerAlive(r) /\ r \notin codex
    /\ r \notin {lock.by, session, cli.target} \cup {runner[q].saw.by : q \in Runners}

LaunchRunner(r) ==
    /\ UnusedIdentity(r)
    /\ Cardinality({q \in Runners : RunnerAlive(q)}) < MaxAlive
    /\ session # "nobody" => ~RunnerAlive(session) /\ session \notin codex
    /\ runner' = [runner EXCEPT ![r] = [NotRunning EXCEPT !.at = "launched"]]
    /\ UNCHANGED <<lock, status, session, codex, cli, raced, stops>>

\* One unused identity is as good as another.
StartWorker == \E r \in Runners :
    LaunchRunner(r) /\ r = CHOOSE q \in Runners : UnusedIdentity(q)

ResumeWorker == status \in Resumable /\ StartWorker

-----------------------------------------------------------------------------
(* _acquire_lock: two attempts to create the file; one in the way is removed *)
(* if it is stale, after it was looked at.                                   *)

CreateLock(r) ==
    /\ RunnerAt(r, "launched") \/ RunnerAt(r, "again")
    /\ lock = NoLock
    /\ lock' = [by |-> r, written |-> FALSE]
    /\ RunnerGoes(r, "opened")
    /\ UNCHANGED <<status, session, codex, cli, raced, stops>>

JudgeLock(r) ==
    /\ RunnerAt(r, "launched") \/ RunnerAt(r, "again")
    /\ lock # NoLock
    /\ IF LockIsActive THEN RunnerGoes(r, "gone")
       ELSE runner' = [runner EXCEPT
                ![r].at = IF @ = "launched" THEN "stale" ELSE "late",
                ![r].saw = lock]
    /\ UNCHANGED <<lock, status, session, codex, cli, raced, stops>>

(* After the second attempt the runner gives up.  An open file cannot be     *)
(* removed on Windows: the runner ends.                                      *)
RemoveLock(r) ==
    /\ RunnerAt(r, "stale") \/ RunnerAt(r, "late")
    /\ \/ /\ lock' = NoLock
          /\ raced' = (raced \/ /\ lock # NoLock /\ RunnerAlive(lock.by)
                                /\ lock # runner[r].saw \/ ~runner[r].saw.written)
          /\ runner' = [runner EXCEPT
                           ![r].at = IF @ = "stale" THEN "again" ELSE "gone",
                           ![r].saw = NoLock]
       \/ /\ lock # NoLock /\ ~lock.written /\ RunnerAlive(lock.by)
          /\ runner' = [runner EXCEPT ![r] = NotRunning]
          /\ UNCHANGED <<lock, raced>>
    /\ UNCHANGED <<status, session, codex, cli, stops>>

(* The owner is written to the file that was opened, which may be removed.   *)
WriteLock(r) ==
    /\ RunnerAt(r, "opened")
    /\ lock' = IF lock.by = r THEN [lock EXCEPT !.written = TRUE] ELSE lock
    /\ RunnerGoes(r, "locked")
    /\ UNCHANGED <<status, session, codex, cli, raced, stops>>

AcquireLock(r) == CreateLock(r) \/ JudgeLock(r) \/ RemoveLock(r) \/ WriteLock(r)

-----------------------------------------------------------------------------
(* run_worker *)

ClaimState(r) ==
    /\ RunnerAt(r, "locked")
    /\ status' = "running"
    /\ runner' = [runner EXCEPT ![r] = [NotRunning EXCEPT !.at = "claimed", !.holds = "running"]]
    /\ UNCHANGED <<lock, session, codex, cli, raced, stops>>

Spawn(r) ==
    /\ RunnerAt(r, "claimed")
    /\ codex' = codex \cup {r}
    /\ RunnerGoes(r, "spawned")
    /\ UNCHANGED <<lock, status, session, cli, raced, stops>>

(* The identity of the child is captured and written, then the session.      *)
CaptureCodex(r) ==
    /\ RunnerAt(r, "spawned")
    /\ status' = runner[r].holds
    /\ RunnerGoes(r, "captured")
    /\ UNCHANGED <<lock, session, codex, cli, raced, stops>>

WriteSession(r) ==
    /\ \/ RunnerAt(r, "captured") /\ RunnerGoes(r, "reading")
       \/ RunnerAt(r, "ended") /\ RunnerGoes(r, "leaving")
    /\ session' = r
    /\ UNCHANGED <<lock, status, codex, cli, raced, stops>>

(* apply_event, as far as it changes the status: codex tells how its one     *)
(* turn ended.  What it has written can be read after it exited.             *)
ReadEvent(r) ==
    /\ RunnerAt(r, "reading")
    /\ \E next \in {"completed_pending_review", "failed"} :
          /\ status' = next
          /\ runner' = [runner EXCEPT ![r] = [NotRunning EXCEPT !.at = "told", !.holds = next]]
    /\ UNCHANGED <<lock, session, codex, cli, raced, stops>>

(* What the exit code of codex says of the status. *)
Final(held, code) ==
    IF code # 0 THEN "failed"
    ELSE IF held = "running" THEN "completed_pending_review" ELSE held

EndOfEvents(r) ==
    /\ runner[r].at \in Reading /\ r \notin codex
    /\ \E code \in {0, 1} : status' = Final(runner[r].holds, code)
    /\ runner' = [runner EXCEPT ![r] = [NotRunning EXCEPT !.at = "ended"]]
    /\ UNCHANGED <<lock, session, codex, cli, raced, stops>>

(* The handler of run_worker marks the file failed. *)
WriteFailed(r) ==
    /\ RunnerAt(r, "failing")
    /\ status' = "failed"
    /\ RunnerGoes(r, "leaving")
    /\ UNCHANGED <<lock, session, codex, cli, raced, stops>>

(* _release_lock: only a lock of its own is removed. *)
ReleaseLock(r) ==
    /\ RunnerAt(r, "leaving")
    /\ lock' = IF lock = [by |-> r, written |-> TRUE] THEN NoLock ELSE lock
    /\ runner' = [runner EXCEPT ![r] = NotRunning]
    /\ UNCHANGED <<status, session, codex, cli, raced, stops>>

RunWorker(r) ==
    \/ ClaimState(r) \/ Spawn(r) \/ CaptureCodex(r) \/ WriteSession(r)
    \/ ReadEvent(r) \/ EndOfEvents(r) \/ WriteFailed(r) \/ ReleaseLock(r)

-----------------------------------------------------------------------------
(* codex exec ends, with whatever exit code. *)
CodexExits(r) ==
    /\ r \in codex
    /\ codex' = codex \ {r}
    /\ UNCHANGED <<lock, status, session, runner, cli, raced, stops>>

-----------------------------------------------------------------------------
(* stop: the codex and then the runner of the session are terminated, then   *)
(* the state is marked blocked.                                              *)

StopBegins ==
    /\ cli = NoCommand /\ session # "nobody"
    /\ cli' = [cmd |-> "stop", at |-> "codex", target |-> session]
    /\ UNCHANGED <<lock, status, session, runner, codex, raced, stops>>

StopCodex ==
    /\ cli.at = "codex"
    /\ codex' = codex \ {cli.target}
    /\ cli' = [cli EXCEPT !.at = "runner"]
    /\ UNCHANGED <<lock, status, session, runner, raced, stops>>

StopRunner ==
    /\ cli.at = "runner"
    /\ runner' = [runner EXCEPT ![cli.target] = NotRunning]
    /\ cli' = [cli EXCEPT !.at = "write"]
    /\ UNCHANGED <<lock, status, session, codex, raced, stops>>

(* accept: the state is read, and written if it waits for a review. *)
AcceptReads ==
    /\ cli = NoCommand /\ status = "completed_pending_review"
    /\ cli' = [NoCommand EXCEPT !.cmd = "accept", !.at = "write"]
    /\ UNCHANGED <<lock, status, session, runner, codex, raced, stops>>

CliWrites ==
    /\ cli.at = "write"
    /\ status' = IF cli.cmd = "stop" THEN "blocked" ELSE "accepted"
    /\ cli' = NoCommand
    /\ UNCHANGED <<lock, session, runner, codex, raced, stops>>

Cli == StopCodex \/ StopRunner \/ CliWrites

-----------------------------------------------------------------------------
(* Kills and errors. *)

(* An error inside the try block, where a codex that was spawned goes on, or *)
(* in its handler.                                                           *)
RunnerRaises(r) ==
    /\ stops < MaxStops /\ stops' = stops + 1
    /\ \/ /\ runner[r].at \in Trying
          /\ runner' = [runner EXCEPT ![r] = [NotRunning EXCEPT !.at = "failing"]]
       \/ RunnerAt(r, "failing") /\ RunnerGoes(r, "leaving")
    /\ UNCHANGED <<lock, status, session, codex, cli, raced>>

(* A runner is killed; its codex goes on. *)
RunnerKilled(r) ==
    /\ RunnerAlive(r) /\ stops < MaxStops
    /\ runner' = [runner EXCEPT ![r] = NotRunning] /\ stops' = stops + 1
    /\ UNCHANGED <<lock, status, session, codex, cli, raced>>

(* stop gives up waiting for a process, or the command is interrupted. *)
CliEnds ==
    /\ cli # NoCommand /\ stops < MaxStops
    /\ cli' = NoCommand /\ stops' = stops + 1
    /\ UNCHANGED <<lock, status, session, runner, codex, raced>>

(* The machine restarts: every process is gone. *)
Reboot ==
    /\ stops < MaxStops /\ stops' = stops + 1
    /\ runner' = [r \in Runners |-> NotRunning]
    /\ codex' = {}
    /\ cli' = NoCommand
    /\ UNCHANGED <<lock, status, session, raced>>

-----------------------------------------------------------------------------

SupervisorInit ==
    /\ lock = NoLock /\ status = "planning" /\ session = "nobody"
    /\ runner = [r \in Runners |-> NotRunning] /\ codex = {}
    /\ cli = NoCommand /\ raced = FALSE /\ stops = 0

SupervisorNext ==
    \/ StartWorker \/ ResumeWorker
    \/ StopBegins \/ AcceptReads \/ Cli
    \/ \E r \in Runners : AcquireLock(r) \/ RunWorker(r) \/ CodexExits(r)
                             \/ RunnerRaises(r) \/ RunnerKilled(r)
    \/ CliEnds \/ Reboot

RunnerOrCodex(r) == AcquireLock(r) \/ RunWorker(r) \/ CodexExits(r)

(* Processes that are not killed go on, codex ends its turn, and an operator *)
(* starts the worker again as long as nothing runs.  (Between two starts a   *)
(* runner and its codex take finitely many steps.)                           *)
SupervisorFairness ==
    /\ \A r \in Runners : WF_supervisorVars(RunnerOrCodex(r))
    /\ WF_supervisorVars(Cli)
    /\ SF_supervisorVars(StartWorker)

SupervisorSpec ==
    SupervisorInit /\ [][SupervisorNext]_supervisorVars /\ SupervisorFairness

-----------------------------------------------------------------------------
(* Properties. *)

(* The kinds of values the files and the processes take. *)
SupervisorTypeOK ==
    /\ lock \in [by : Runners \cup {"nobody"}, written : BOOLEAN]
    /\ status \in Statuses /\ session \in Runners \cup {"nobody"}
    /\ runner \in [Runners -> [at : Inside \cup {"gone", "launched", "again", "stale", "late",
                                                 "opened"},
                               holds : Statuses,
                               saw : [by : Runners \cup {"nobody"}, written : BOOLEAN]]]
    /\ codex \subseteq Runners
    /\ cli \in [cmd : {"none", "stop", "accept"},
                at : {"none", "codex", "runner", "write"},
                target : Runners \cup {"nobody"}]
    /\ raced \in BOOLEAN /\ stops \in 0..MaxStops

(* Whatever is started, stopped, killed and started again, two runners are   *)
(* inside run_worker together only after one removed the lock of a running   *)
(* runner that it had found without its owner, or had not looked at: the     *)
(* lock it looked at had been replaced.                                      *)
OneRunner ==
    /\ SupervisorTypeOK
    /\ ~raced => \A r, q \in Runners :
                     runner[r].at \in Inside /\ runner[q].at \in Inside => r = q

(* A worker does not stay running for good: whatever was killed, and while   *)
(* an operator starts it again, it reaches a state that can be reviewed or   *)
(* resumed.                                                                  *)
RunningSettles == []<>(status # "running")
=============================================================================
