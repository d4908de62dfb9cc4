----------------------------- MODULE Activation -----------------------------
(***************************************************************************)
(* The activation of a candidate generation (src/huiji_rag/activation.py,  *)
(* backend_process.py): apply_activation stops the backend, replaces the   *)
(* settings and the active pointer, starts the backend on them, verifies   *)
(* and commits; a failure is compensated; recover_activation finishes what *)
(* a killed command left, by the journal and the two files.                *)
(*                                                                         *)
(* Commands run under activation_lock, one at a time.  One action is one   *)
(* durable write or one act on a process, with the reads before it.  The   *)
(* contents of a file are those frozen by inspect ("before"), those of the *)
(* candidate, or something nobody planned ("unknown").                     *)
(***************************************************************************)
EXTENDS Naturals, FiniteSets

CONSTANTS
    MaxFaults,  \* bound of kills, errors and process deaths (checking only)
    MaxEdits    \* bound of edits of the files by others (same)

ASSUME BoundsAssumption == MaxFaults \in Nat /\ MaxEdits \in Nat

VARIABLES
    journal,   \* the last state of the activation journal, or "none"
    recorded,  \* whether the journal holds the identity of the new process
    files,     \* config/settings.yaml and active_build.v1.json
    temps,     \* temporary files left beside them by a rollback
    evidence,  \* the evidence files of the transaction that exist
    logs,      \* processes whose log files exist
    proc,      \* the backend processes
    cmd,       \* the command that holds the lock
    report,    \* the outcome the last command reported
    faults, edits,
    orphan     \* a command ended before the journal named the process it had
               \* started (history)

disk == <<journal, recorded, files, temps, evidence>>
vars == <<disk, logs, proc, cmd, report, faults, edits, orphan>>

-----------------------------------------------------------------------------
(* Files, journal and processes. *)

Targets == {"settings", "pointer"}

Contents == {"before", "candidate", "unknown"}

Transitions ==
    [none |-> {"prepared"},
     prepared |-> {"backend_stopped", "verification_failed", "conflict"},
     backend_stopped |-> {"settings_written", "verification_failed", "conflict"},
     settings_written |-> {"pointer_written", "verification_failed", "conflict"},
     pointer_written |-> {"backend_started", "verification_failed", "conflict"},
     backend_started |-> {"verified", "verification_failed", "conflict"},
     verified |-> {"committed", "verification_failed", "conflict"},
     verification_failed |-> {"compensating", "conflict"},
     compensating |-> {"rolled_back", "conflict"},
     rolled_back |-> {}, committed |-> {}, conflict |-> {}]

Terminal == {"committed", "rolled_back", "conflict"}

Pending == journal \notin Terminal \cup {"none"}

(* The frozen backend, the one apply starts and the one a compensation       *)
(* starts: each is started at most once, or its log files forbid it.         *)
Processes == {"frozen", "apply", "rollback"}

(* A process reads both files while it starts, then listens on port 8000.    *)
Off == [status |-> "off"]
Starting == [status |-> "starting"]
Up(status, read) == [status |-> status, read |-> read]

Listeners == {k \in Processes : proc[k].status = "listening"}

Has(content) == \E t \in Targets : files[t] = content

ServesA(content) ==
    \E k \in Listeners, t \in Targets : proc[k].read[t] = content

-----------------------------------------------------------------------------
(* The command: owned tells whether it knows the process apply started,      *)
(* current is the listener it found, todo the files it found switched.       *)

Idle == [kind |-> "none", pc |-> "idle", owned |-> FALSE, current |-> {},
         todo |-> {}]

Forward == {"stop", "mark_stopped", "settings", "mark_settings", "pointer",
            "mark_pointer", "start", "wait", "mark_started", "verify",
            "mark_verified", "mark_committed", "receipt", "handoff"}

Backward == {"mark_failed", "mark_compensating", "stop_new", "check",
             "pointer_temp", "pointer_back", "settings_temp", "settings_back",
             "restart", "wait_back", "legacy", "mark_rolled_back",
             "mark_conflict", "seal", "failure"}

At(pc) == cmd.pc = pc

Goto(pc) == cmd' = [cmd EXCEPT !.pc = pc] /\ UNCHANGED report

End(outcome) == cmd' = Idle /\ report' = outcome

InTry == cmd.pc \in Forward \/ (At("seal") /\ journal = "committed")

\* Mutant of Raise: the failure is recorded whatever the journal says.
RaiseRecordsFailure ==
    IF ~InTry THEN End("error")
    ELSE IF journal = "committed" THEN Goto("failure")
    ELSE Goto("mark_failed")

(* except Exception of apply_activation compensates what is not terminal and *)
(* raises ActivationRolledBack either way; elsewhere an error escapes.       *)
Raise ==
    IF ~InTry THEN End("error")
    ELSE IF journal = "committed" THEN End("rolled_back")
    ELSE Goto("mark_failed")

Conflict == Goto("mark_conflict")

EnvUnchanged == UNCHANGED <<faults, edits, orphan>>

-----------------------------------------------------------------------------
(* apply_activation. *)

BeginApply ==
    /\ cmd = Idle
    /\ journal = "none"
    /\ \A t \in Targets : files[t] = "before"
    /\ Listeners = {"frozen"}
    /\ journal' = "prepared"
    /\ cmd' = [Idle EXCEPT !.kind = "apply", !.pc = "stop"]
    /\ UNCHANGED <<recorded, files, temps, evidence, logs, proc, report>>
    /\ EnvUnchanged

(* append_journal, which refuses a step Transitions does not have.           *)
Marks == {<<"mark_stopped", "backend_stopped", "settings">>,
          <<"mark_settings", "settings_written", "pointer">>,
          <<"mark_pointer", "pointer_written", "start">>,
          <<"mark_started", "backend_started", "verify">>,
          <<"mark_verified", "verified", "mark_committed">>,
          <<"mark_committed", "committed", "seal">>,
          <<"mark_failed", "verification_failed", "mark_compensating">>,
          <<"mark_compensating", "compensating", "stop_new">>,
          <<"mark_rolled_back", "rolled_back", "seal">>,
          <<"mark_conflict", "conflict", "seal">>}

AppendState ==
    \E m \in Marks :
        /\ At(m[1])
        /\ m[2] \in Transitions[journal]
        /\ journal' = m[2]
        /\ recorded' = (recorded \/ m[2] = "backend_started")
        /\ Goto(m[3])
        /\ UNCHANGED <<files, temps, evidence, logs, proc>>
        /\ EnvUnchanged

\* Mutant of StopBackend: a backend that is slow to stop is not waited for.
StopBackendLater ==
    /\ At("stop")
    /\ Goto("mark_stopped")
    /\ UNCHANGED <<disk, logs, proc>>
    /\ EnvUnchanged

StopBackend ==
    /\ At("stop")
    /\ \/ /\ Listeners = {"frozen"}
          /\ proc' = [proc EXCEPT !["frozen"] = Off]
          /\ Goto("mark_stopped")
       \/ /\ Listeners # {"frozen"}
          /\ Raise
          /\ UNCHANGED proc
    /\ UNCHANGED <<disk, logs>>
    /\ EnvUnchanged

(* _conditional_replace of apply: its temporary file is never met again.     *)
Replace(t, next) ==
    /\ At(t)
    /\ \/ /\ files[t] = "before"
          /\ files' = [files EXCEPT ![t] = "candidate"]
          /\ Goto(next)
       \/ /\ files[t] # "before"
          /\ Conflict
          /\ UNCHANGED files
    /\ UNCHANGED <<journal, recorded, temps, evidence, logs, proc>>
    /\ EnvUnchanged

\* Mutant of Startable: both starts share one directory for their log files.
StartableOnce(k) == Listeners = {} /\ logs = {}

(* start_backend: refused when the port is taken or the log files exist.     *)
Startable(k) == Listeners = {} /\ k \notin logs

Launch(k) ==
    /\ logs' = logs \cup {k}
    /\ proc' = [proc EXCEPT ![k] = Starting]

StartCandidate ==
    /\ At("start")
    /\ Startable("apply")
    /\ Launch("apply")
    /\ cmd' = [cmd EXCEPT !.pc = "wait", !.owned = TRUE]
    /\ UNCHANGED <<disk, report>>
    /\ EnvUnchanged

(* wait_for_listener, for the new backend or for that of a rollback.         *)
Wait(pc, k, next) ==
    /\ At(pc)
    /\ \/ Listeners = {k} /\ Goto(next)
       \/ proc[k] = Off /\ Raise
    /\ UNCHANGED <<disk, logs, proc>>
    /\ EnvUnchanged

(* Health, runtime verification, smoke tests and the protected comparison:   *)
(* they fail on the old generation and may miss or notice an unknown edit.   *)
Verify ==
    /\ At("verify")
    /\ \/ /\ Listeners # {}
          /\ ~Has("before") /\ ~ServesA("before")
          /\ Goto("mark_verified")
       \/ /\ \/ Listeners = {}
             \/ Has("before") \/ Has("unknown")
             \/ ServesA("before") \/ ServesA("unknown")
          /\ Raise
    /\ UNCHANGED <<disk, logs, proc>>
    /\ EnvUnchanged

Write(pc, file) ==
    /\ At(pc)
    /\ evidence' = evidence \cup {file}
    /\ UNCHANGED <<journal, recorded, files, temps, logs, proc>>
    /\ EnvUnchanged

Seal ==
    /\ Write("seal", "sidecar")
    /\ Goto(IF journal = "committed" THEN "receipt" ELSE "failure")

WriteReceipt == Write("receipt", "receipt") /\ Goto("handoff")

WriteHandoff == Write("handoff", "handoff") /\ End("passed")

(* _write_failure, and then the outcome: the terminal state of the journal.  *)
WriteFailure ==
    /\ Write("failure", IF "receipt" \in evidence THEN "receipt" ELSE "failure")
    /\ End(journal)

-----------------------------------------------------------------------------
(* _compensate. *)

StopNew ==
    /\ At("stop_new")
    /\ LET stopped == IF cmd.owned THEN {"apply"} ELSE {}
       IN  /\ proc' = [k \in Processes |-> IF k \in stopped THEN Off ELSE proc[k]]
           /\ cmd' = [cmd EXCEPT !.pc = "check", !.current = Listeners \ stopped]
    /\ UNCHANGED <<disk, logs, report>>
    /\ EnvUnchanged

Switched == {t \in Targets : files[t] = "candidate"}

Compensable ==
    /\ ~Has("unknown")
    /\ cmd.current \subseteq {"frozen"}
    /\ cmd.current = {} \/ Switched = {}

CheckTargets ==
    /\ At("check")
    /\ \/ /\ Compensable
          /\ cmd' = [cmd EXCEPT !.pc = "pointer_temp", !.todo = Switched]
          /\ UNCHANGED report
       \/ ~Compensable /\ Conflict
    /\ UNCHANGED <<disk, logs, proc>>
    /\ EnvUnchanged

(* The two halves of _conditional_replace: a kill between them leaves the    *)
(* temporary file, whose name is fixed, and the next rollback refuses it.    *)
PrepareRestore(t, pc, replace, next) ==
    /\ At(pc)
    /\ \/ t \notin cmd.todo /\ Goto(next) /\ UNCHANGED temps
       \/ /\ t \in cmd.todo
          /\ files[t] = "candidate" /\ t \notin temps
          /\ temps' = temps \cup {t}
          /\ Goto(replace)
       \/ /\ t \in cmd.todo
          /\ files[t] # "candidate" \/ t \in temps
          /\ Conflict
          /\ UNCHANGED temps
    /\ UNCHANGED <<journal, recorded, files, evidence, logs, proc>>
    /\ EnvUnchanged

\* Mutant of Restore: the contents are not compared a second time.
RestoreAnyway(t, pc, next) ==
    /\ At(pc)
    /\ temps' = temps \ {t}
    /\ files' = [files EXCEPT ![t] = "before"]
    /\ Goto(next)
    /\ UNCHANGED <<journal, recorded, evidence, logs, proc>>
    /\ EnvUnchanged

Restore(t, pc, next) ==
    /\ At(pc)
    /\ temps' = temps \ {t}
    /\ \/ /\ files[t] = "candidate"
          /\ files' = [files EXCEPT ![t] = "before"]
          /\ Goto(next)
       \/ /\ files[t] # "candidate"
          /\ Conflict
          /\ UNCHANGED files
    /\ UNCHANGED <<journal, recorded, evidence, logs, proc>>
    /\ EnvUnchanged

Restart ==
    /\ At("restart")
    /\ \/ /\ cmd.current # {}
          /\ Goto("legacy")
          /\ UNCHANGED <<logs, proc>>
       \/ /\ cmd.current = {} /\ Startable("rollback")
          /\ Launch("rollback")
          /\ cmd' = [cmd EXCEPT !.pc = "wait_back", !.current = {"rollback"}]
          /\ UNCHANGED report
       \/ /\ cmd.current = {} /\ ~Startable("rollback")
          /\ Raise
          /\ UNCHANGED <<logs, proc>>
    /\ UNCHANGED disk
    /\ EnvUnchanged

LegacyHealthy == Listeners # {} /\ ~ServesA("candidate")

(* _wait_legacy_health; then verify_runtime, or else the backend is stopped. *)
Legacy ==
    /\ At("legacy")
    /\ \/ /\ LegacyHealthy /\ ~Has("candidate")
          /\ Goto("mark_rolled_back")
          /\ UNCHANGED proc
       \/ /\ LegacyHealthy /\ Has("unknown")
          /\ proc' = [k \in Processes |-> IF k \in cmd.current THEN Off ELSE proc[k]]
          /\ Raise
       \/ /\ ~LegacyHealthy \/ ServesA("unknown")
          /\ Raise
          /\ UNCHANGED proc
    /\ UNCHANGED <<disk, logs>>
    /\ EnvUnchanged

-----------------------------------------------------------------------------
(* recover_activation. *)

PassingEvidence == evidence \cap {"receipt", "handoff"} # {}

(* No journal, or a terminal one: nothing is changed, only reported.         *)
RecoverSettled ==
    /\ cmd = Idle
    /\ ~Pending
    /\ report' =
         CASE journal = "committed" ->
                IF \E t \in Targets : files[t] # "candidate" THEN "conflict"
                ELSE IF {"receipt", "handoff"} \subseteq evidence THEN "passed"
                ELSE "error"
           [] journal = "rolled_back" ->
                IF \E t \in Targets : files[t] # "before" THEN "conflict"
                ELSE IF LegacyHealthy THEN "rolled_back" ELSE "error"
           [] journal = "conflict" -> "conflict"
           [] OTHER -> "error"
    /\ UNCHANGED <<disk, logs, proc, cmd>>
    /\ EnvUnchanged

Known == {"frozen"} \cup (IF recorded THEN {"apply"} ELSE {})

RecoverFrom(pc) == cmd' = [Idle EXCEPT !.kind = "recover", !.owned = recorded,
                                       !.pc = pc]

\* Mutant of ResumeAt: a compensation that was begun is not done again.
ResumeTrusting ==
    CASE journal = "verification_failed" -> "mark_compensating"
      [] journal = "compensating" -> "mark_rolled_back"
      [] OTHER -> "mark_failed"

ResumeAt ==
    CASE journal = "verification_failed" -> "mark_compensating"
      [] journal = "compensating" -> "stop_new"
      [] OTHER -> "mark_failed"

(* A journal that is not terminal is refused with passing or sealed evidence *)
(* (which it never has), put in conflict over files or a listener nobody     *)
(* planned, and compensated from where it stands otherwise.                  *)
Recover ==
    /\ cmd = Idle
    /\ Pending
    /\ ~PassingEvidence /\ "sidecar" \notin evidence
    /\ \/ /\ Has("unknown") \/ ~(Listeners \subseteq Known)
          /\ RecoverFrom("mark_conflict")
       \/ /\ ~Has("unknown") /\ Listeners \subseteq Known
          /\ RecoverFrom(ResumeAt)
    /\ UNCHANGED <<disk, logs, proc, report>>
    /\ EnvUnchanged

-----------------------------------------------------------------------------
(* The processes and the environment. *)

Quietly == UNCHANGED <<disk, logs, cmd, report, edits, orphan>>

Boot(k) ==
    /\ \/ /\ proc[k] = Starting
          /\ proc' = [proc EXCEPT ![k] = Up("loaded", files)]
       \/ /\ proc[k].status = "loaded"
          /\ Listeners = {}
          /\ proc' = [proc EXCEPT ![k] = Up("listening", @.read)]
       \/ /\ proc[k].status = "loaded"
          /\ Listeners # {}
          /\ proc' = [proc EXCEPT ![k] = Off]
    /\ Quietly
    /\ UNCHANGED faults

Fault == faults < MaxFaults /\ faults' = faults + 1

BackendExits(k) ==
    /\ Fault
    /\ proc[k] # Off
    /\ proc' = [proc EXCEPT ![k] = Off]
    /\ Quietly

(* Others may change a file; the code has no say in when.                    *)
Edit(t) ==
    /\ edits < MaxEdits
    /\ edits' = edits + 1
    /\ files' = [files EXCEPT ![t] = "unknown"]
    /\ UNCHANGED <<journal, recorded, temps, evidence, logs, proc, cmd, report,
                    faults, orphan>>

Orphaned ==
    orphan' = (orphan \/ (cmd' = Idle /\ proc["apply"] # Off /\ ~recorded))

(* The command is killed: nothing of it runs any more, not even a finally.   *)
Killed ==
    /\ Fault
    /\ cmd # Idle
    /\ End("none")
    /\ Orphaned
    /\ UNCHANGED <<disk, logs, proc, edits>>

(* The process whose log files the command is about to make.                 *)
Launched ==
    {k \in Processes :
        /\ Startable(k)
        /\ \/ k = "apply" /\ At("start")
           \/ k = "rollback" /\ At("restart") /\ cmd.current = {}}

(* Any call fails: an operating system error, a timeout, a smoke test.  The  *)
(* finally clause of a replacement removes its temporary file; log files     *)
(* made before a process could be started may stay.                          *)
CallFails ==
    /\ Fault
    /\ cmd # Idle
    /\ Raise
    /\ temps' = CASE At("pointer_back") -> temps \ {"pointer"}
                  [] At("settings_back") -> temps \ {"settings"}
                  [] OTHER -> temps
    /\ logs' \in {logs, logs \cup Launched}
    /\ Orphaned
    /\ UNCHANGED <<journal, recorded, files, evidence, proc, edits>>

-----------------------------------------------------------------------------
Init ==
    /\ journal = "none"
    /\ recorded = FALSE
    /\ files = [t \in Targets |-> "before"]
    /\ temps = {} /\ evidence = {} /\ logs = {}
    /\ proc = [k \in Processes |-> IF k = "frozen" THEN Up("listening", files)
                                   ELSE Off]
    /\ cmd = Idle
    /\ report = "none"
    /\ faults = 0 /\ edits = 0
    /\ orphan = FALSE

Activate ==
    \/ StopBackend
    \/ Replace("settings", "mark_settings")
    \/ Replace("pointer", "mark_pointer")
    \/ StartCandidate
    \/ Wait("wait", "apply", "mark_started")
    \/ Verify
    \/ AppendState
    \/ Seal \/ WriteReceipt \/ WriteHandoff \/ WriteFailure

Compensate ==
    \/ StopNew
    \/ CheckTargets
    \/ PrepareRestore("pointer", "pointer_temp", "pointer_back", "settings_temp")
    \/ Restore("pointer", "pointer_back", "settings_temp")
    \/ PrepareRestore("settings", "settings_temp", "settings_back", "restart")
    \/ Restore("settings", "settings_back", "restart")
    \/ Restart
    \/ Wait("wait_back", "rollback", "legacy")
    \/ Legacy

Run == Activate \/ Compensate \/ \E k \in Processes : Boot(k)

Next ==
    \/ BeginApply \/ Recover \/ RecoverSettled
    \/ Run
    \/ \E k \in Processes : BackendExits(k)
    \/ \E t \in Targets : Edit(t)
    \/ Killed \/ CallFails

(* A command that is not killed goes on, a process that starts comes up, and *)
(* an operator recovers what is pending.                                     *)
Fairness == WF_vars(Run) /\ WF_vars(Recover)

Spec == Init /\ [][Next]_vars /\ Fairness

-----------------------------------------------------------------------------
(* Properties. *)

\* Every variable has the shape the code gives it.
TypeOK ==
    /\ journal \in DOMAIN Transitions
    /\ recorded \in BOOLEAN
    /\ files \in [Targets -> Contents]
    /\ temps \subseteq Targets
    /\ evidence \subseteq {"sidecar", "receipt", "handoff", "failure"}
    /\ logs \subseteq Processes
    /\ \A k \in Processes :
          \/ proc[k] \in {Off, Starting}
          \/ \E s \in {"loaded", "listening"}, f \in [Targets -> Contents] :
                proc[k] = Up(s, f)
    /\ cmd.pc \in Forward \cup Backward \cup {"idle"}
    /\ report \in {"none", "passed", "error"} \cup Terminal
    /\ Cardinality(Listeners) <= 1

\* A committed activation leaves no file of the old generation, a rolled back
\* one none of the candidate, wherever commands were killed on the way.
SettledAuthority ==
    /\ journal = "committed" => ~Has("before")
    /\ journal = "rolled_back" => ~Has("candidate")

\* Passing and failure evidence exclude each other (ACT-VERIFY-P0-06), a
\* handoff has its receipt, and only a terminal journal is sealed.
EvidenceExclusive ==
    /\ PassingEvidence => journal = "committed" /\ "failure" \notin evidence
    /\ "handoff" \in evidence => "receipt" \in evidence
    /\ "failure" \in evidence => journal \in {"rolled_back", "conflict"}
    /\ "sidecar" \in evidence => journal \in Terminal

\* While the two files belong to different generations no backend listens,
\* and none ever listens that read such a pair (ACT-TXN-P0-07); except after a
\* command ended before the journal named the process it had started.
SwitchOffline ==
    ~orphan =>
        \A k \in Listeners : \A content \in {files, proc[k].read} :
            {"before", "candidate"} # {content[t] : t \in Targets}

\* With the same exception, once an activation is rolled back the process it
\* had started is gone, and cannot come up later (ACT-VERIFY-P0-03).
NoStrayBackend ==
    journal = "rolled_back" /\ ~orphan => proc["apply"] = Off

\* No backend serves a generation nobody chose: the two rules above, in
\* states of the shape the code gives them.
BackendsKnown == TypeOK /\ SwitchOffline /\ NoStrayBackend

\* What somebody else wrote into the files is never overwritten.
UnknownKept ==
    [][\A t \in Targets : files[t] = "unknown" => files'[t] = "unknown"]_vars

\* A single kill, error or death of a process, anywhere, is always recovered
\* from: the activation ends committed, rolled back or in conflict.
OneFaultRecovered == []<>(faults > 1 \/ ~Pending)

\* A command that reports "rolled back" has restored the old generation, as
\* the exception it raises says: the journal is not committed.
RolledBackIsTrue == report = "rolled_back" => journal = "rolled_back"

=============================================================================
