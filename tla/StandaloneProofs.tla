--------------------------- MODULE StandaloneProofs ---------------------------
(***************************************************************************)
(* Proofs about the parts that Standalone puts together: the activation of *)
(* a candidate, the runners of a supervised worker and the allocation of   *)
(* sources; and that each part keeps its promises inside the composition.  *)
(***************************************************************************)
EXTENDS Standalone, OrdersAndFolds

-----------------------------------------------------------------------------
(* The activation: what a settled one says of its files and its evidence,   *)
(* and that foreign contents are never overwritten, for any number of kills,*)
(* errors, deaths of processes and edits.                                   *)

(* Where a command stands tells what the journal says: it goes through the   *)
(* places of PendingPcs only while the journal is not settled.               *)
PendingPcs == (Forward \cup Backward) \ {"receipt", "handoff", "seal", "failure"}

Command == [kind : {"none", "apply", "recover"},
            pc : Forward \cup Backward \cup {"idle"}, owned : BOOLEAN,
            current : SUBSET Processes, todo : SUBSET Targets]

Types ==
    /\ cmd \in Command
    /\ files \in [Targets -> Contents]
    /\ recorded \in BOOLEAN

Place(pc, state) ==
    /\ pc \in PendingPcs => state \notin Terminal \cup {"none"}
    /\ pc \in {"receipt", "handoff"} => state = "committed"
    /\ pc = "seal" => state \in Terminal
    /\ pc = "failure" => state \in {"rolled_back", "conflict"}

PlaceInv == Place(cmd.pc, journal)

(* The files are as the journal is about to say.                             *)
FilesInv ==
    /\ cmd.pc \in {"mark_verified", "mark_committed"} => ~Has("before")
    /\ cmd.pc = "mark_rolled_back" => ~Has("candidate")
    /\ SettledAuthority

EvidenceInv ==
    /\ cmd.pc = "handoff" => "receipt" \in evidence
    /\ EvidenceExclusive

ActivationInv == Types /\ PlaceInv /\ FilesInv /\ EvidenceInv

-----------------------------------------------------------------------------
(* How the places of a command are told apart.                               *)

LEMMA PlacesKnown ==
    /\ PendingPcs \subseteq Forward \cup Backward
    /\ "idle" \notin Forward \cup Backward
    /\ "idle" \notin PendingPcs
    /\ \A m \in Marks : m[1] \in PendingPcs /\ m[3] \in Forward \cup Backward
BY DEF PendingPcs, Forward, Backward, Marks

LEMMA GotoPlace ==
    ASSUME NEW pc \in Forward \cup Backward, cmd \in Command, Goto(pc)
    PROVE  cmd' \in Command /\ cmd'.pc = pc
BY DEF Goto, Command

LEMMA EndPlace ==
    ASSUME NEW outcome, End(outcome)
    PROVE  cmd' \in Command /\ cmd'.pc = "idle"
BY DEF End, Idle, Command

(* An error goes to the handler while the journal is open, or ends.          *)
LEMMA RaisePlace ==
    ASSUME Types, PlaceInv, journal' = journal, Raise
    PROVE  /\ cmd' \in Command
           /\ PlaceInv'
           /\ cmd'.pc \in {"mark_failed", "idle"}
<1>1. CASE End("error") \/ End("rolled_back")
  BY <1>1, EndPlace, PlacesKnown DEF PlaceInv, Place
<1>2. CASE InTry /\ journal # "committed" /\ Goto("mark_failed")
  <2>1. cmd.pc \in PendingPcs
    BY <1>2 DEF InTry, At, PlaceInv, Place, PendingPcs, Forward, Backward
  <2>2. cmd' \in Command /\ cmd'.pc = "mark_failed"
    BY <1>2, GotoPlace DEF Types, Backward
  <2> QED
    BY <2>1, <2>2 DEF PlaceInv, Place, PendingPcs
<1> QED
  BY <1>1, <1>2 DEF Raise

(* A step that changes nothing but where the command stands.                 *)
LEMMA Moves ==
    ASSUME ActivationInv, files' = files, journal' = journal,
           evidence' = evidence, recorded' = recorded, cmd' \in Command, PlaceInv',
           cmd'.pc \notin {"mark_verified", "mark_committed",
                          "mark_rolled_back", "handoff"}
    PROVE  ActivationInv'
BY DEF ActivationInv, Types, FilesInv, EvidenceInv, EvidenceExclusive,
       PassingEvidence, SettledAuthority, Has

LEMMA RaiseMoves ==
    ASSUME ActivationInv, files' = files, journal' = journal,
           evidence' = evidence, recorded' = recorded, Raise
    PROVE  ActivationInv'
BY RaisePlace, Moves DEF ActivationInv

(* From one open place to another: the journal says nothing of the files.    *)
LEMMA GotoMoves ==
    ASSUME ActivationInv, files' \in [Targets -> Contents],
           journal' = journal, evidence' = evidence, recorded' = recorded,
           cmd.pc \in PendingPcs, cmd' \in Command, cmd'.pc \in PendingPcs,
           cmd'.pc \notin {"mark_verified", "mark_committed", "mark_rolled_back"}
    PROVE  ActivationInv'
<1>1. journal \notin Terminal \cup {"none"}
  BY DEF ActivationInv, PlaceInv, Place
<1>2. PlaceInv' /\ cmd'.pc # "handoff"
  BY <1>1 DEF PlaceInv, Place, PendingPcs
<1>3. FilesInv'
  BY <1>1 DEF FilesInv, SettledAuthority, Terminal
<1>4. EvidenceInv'
  BY <1>2 DEF ActivationInv, EvidenceInv, EvidenceExclusive, PassingEvidence
<1> QED
  BY <1>2, <1>3, <1>4 DEF ActivationInv, Types

-----------------------------------------------------------------------------
(* Every action preserves the invariant.                                     *)

LEMMA InitInv == ASSUME Init PROVE ActivationInv
<1>1. /\ journal = "none" /\ recorded = FALSE /\ evidence = {} /\ cmd = Idle
      /\ files = [t \in Targets |-> "before"]
  BY DEF Init
<1>2. cmd \in Command /\ cmd.pc = "idle"
  BY <1>1 DEF Command, Idle
<1>3. Types
  BY <1>1, <1>2 DEF Types, Contents
<1>4. PlaceInv
  BY <1>2, PlacesKnown DEF PlaceInv, Place
<1>5. FilesInv
  BY <1>1, <1>2 DEF FilesInv, SettledAuthority
<1>6. EvidenceInv
  BY <1>1, <1>2 DEF EvidenceInv, EvidenceExclusive, PassingEvidence
<1> QED
  BY <1>3, <1>4, <1>5, <1>6 DEF ActivationInv

LEMMA BeginApplyInv == ASSUME ActivationInv, BeginApply PROVE ActivationInv'
<1>1. cmd' \in Command /\ cmd'.pc = "stop"
  BY DEF BeginApply, Idle, Command, Forward
<1>2. PlaceInv'
  BY <1>1 DEF BeginApply, PlaceInv, Place, Terminal
<1>3. FilesInv'
  BY <1>1 DEF BeginApply, FilesInv, SettledAuthority
<1>4. EvidenceInv'
  BY <1>1 DEF BeginApply, ActivationInv, EvidenceInv, EvidenceExclusive,
              PassingEvidence, Terminal
<1> QED
  BY <1>1, <1>2, <1>3, <1>4 DEF ActivationInv, Types, BeginApply

(* The journal moves on only while it is open, so that there is no evidence  *)
(* yet, and to committed or rolled back only from the place whose files are  *)
(* already those of the candidate or of the old generation.                  *)
LEMMA AppendInv == ASSUME ActivationInv, AppendState PROVE ActivationInv'
<1>1. PICK m \in Marks :
        /\ cmd.pc = m[1] /\ journal' = m[2] /\ Goto(m[3])
        /\ files' = files /\ evidence' = evidence /\ recorded' \in BOOLEAN
  BY DEF AppendState, At
<1>2. journal \notin Terminal \cup {"none"}
  BY <1>1, PlacesKnown DEF ActivationInv, PlaceInv, Place
<1>3. cmd' \in Command /\ cmd'.pc = m[3]
  BY <1>1, PlacesKnown, GotoPlace DEF ActivationInv, Types
<1>4. EvidenceInv'
  <2>1. /\ ~PassingEvidence
        /\ evidence \cap {"failure", "sidecar"} = {}
    BY <1>2 DEF ActivationInv, EvidenceInv, EvidenceExclusive, Terminal
  <2>2. m[3] # "handoff"
    BY DEF Marks
  <2> QED
    BY <1>1, <1>3, <2>1, <2>2 DEF EvidenceInv, EvidenceExclusive, PassingEvidence
<1>5. PlaceInv'
  BY <1>1, <1>3 DEF Marks, PlaceInv, Place, PendingPcs, Terminal, Forward, Backward
<1>6. FilesInv'
  <2>1. m[2] = "committed" => ~Has("before")
    BY <1>1 DEF Marks, ActivationInv, FilesInv
  <2>2. m[2] = "rolled_back" => ~Has("candidate")
    BY <1>1 DEF Marks, ActivationInv, FilesInv
  <2>3. /\ m[3] = "mark_committed" => ~Has("before")
        /\ m[3] \notin {"mark_verified", "mark_rolled_back"}
    BY <1>1 DEF Marks, ActivationInv, FilesInv
  <2> QED
    BY <1>1, <1>3, <2>1, <2>2, <2>3 DEF FilesInv, SettledAuthority, Has
<1> QED
  BY <1>1, <1>3, <1>4, <1>5, <1>6 DEF ActivationInv, Types

(* What the actions that leave files, journal and evidence alone share.      *)
Still ==
    /\ files' = files /\ journal' = journal
    /\ evidence' = evidence /\ recorded' = recorded

LEMMA StillFiles ==
    ASSUME ActivationInv, Still
    PROVE  files' \in [Targets -> Contents]
BY DEF ActivationInv, Types, Still

(* Steps of a command from an open place that only move it.                  *)
LEMMA StillMoves ==
    ASSUME ActivationInv, Still, cmd.pc \in PendingPcs, cmd' \in Command,
           cmd'.pc \in PendingPcs,
           cmd'.pc \notin {"mark_verified", "mark_committed", "mark_rolled_back"}
    PROVE  ActivationInv'
BY StillFiles, GotoMoves DEF Still

LEMMA StillGoto ==
    ASSUME ActivationInv, Still, cmd.pc \in PendingPcs,
           NEW pc \in PendingPcs, Goto(pc),
           pc \notin {"mark_verified", "mark_committed", "mark_rolled_back"}
    PROVE  ActivationInv'
<1>1. cmd' \in Command /\ cmd'.pc = pc
  BY PlacesKnown, GotoPlace DEF ActivationInv, Types
<1> QED
  BY <1>1, StillMoves

LEMMA StillRaise == ASSUME ActivationInv, Still, Raise PROVE ActivationInv'
BY RaiseMoves DEF Still

LEMMA StopBackendInv == ASSUME ActivationInv, StopBackend PROVE ActivationInv'
<1>1. Still /\ cmd.pc \in PendingPcs /\ "mark_stopped" \in PendingPcs
  BY DEF StopBackend, Still, disk, At, PendingPcs, Forward
<1> QED
  BY <1>1, StillGoto, StillRaise DEF StopBackend

LEMMA ReplaceInv ==
    ASSUME ActivationInv, NEW t \in Targets,
           NEW next \in {"mark_settings", "mark_pointer"}, Replace(t, next)
    PROVE  ActivationInv'
<1>1. /\ cmd.pc \in PendingPcs
      /\ next \in PendingPcs /\ "mark_conflict" \in PendingPcs
  BY DEF Replace, At, Targets, PendingPcs, Forward, Backward
<1>2. CASE files[t] = "before"
  <2>1. /\ files' \in [Targets -> Contents]
        /\ journal' = journal /\ evidence' = evidence /\ recorded' = recorded
    BY <1>2 DEF Replace, ActivationInv, Types, Contents
  <2>2. cmd' \in Command /\ cmd'.pc = next
    BY <1>1, <1>2, PlacesKnown, GotoPlace DEF Replace, ActivationInv, Types
  <2> QED
    BY <1>1, <2>1, <2>2, GotoMoves
<1>3. CASE files[t] # "before"
  <2>1. Still /\ Goto("mark_conflict")
    BY <1>3 DEF Replace, Still, Conflict
  <2> QED
    BY <1>1, <2>1, StillGoto
<1> QED
  BY <1>2, <1>3

LEMMA StartCandidateInv == ASSUME ActivationInv, StartCandidate PROVE ActivationInv'
<1>1. Still /\ cmd.pc \in PendingPcs /\ "wait" \in PendingPcs
  BY DEF StartCandidate, Still, disk, At, PendingPcs, Forward
<1>2. cmd' \in Command /\ cmd'.pc = "wait"
  BY DEF StartCandidate, ActivationInv, Types, Command, Forward
<1> QED
  BY <1>1, <1>2, StillMoves

LEMMA WaitInv ==
    ASSUME ActivationInv, NEW pc \in {"wait", "wait_back"}, NEW k,
           NEW next \in {"mark_started", "legacy"}, Wait(pc, k, next)
    PROVE  ActivationInv'
<1>1. Still /\ cmd.pc \in PendingPcs /\ next \in PendingPcs
  BY DEF Wait, Still, disk, At, PendingPcs, Forward, Backward
<1> QED
  BY <1>1, StillGoto, StillRaise DEF Wait

(* Verification passes only on files that are no longer the old ones.        *)
LEMMA VerifyInv == ASSUME ActivationInv, Verify PROVE ActivationInv'
<1>1. Still /\ cmd.pc \in PendingPcs /\ "mark_verified" \in PendingPcs
  BY DEF Verify, Still, disk, At, PendingPcs, Forward
<1>2. CASE ~Has("before") /\ Goto("mark_verified")
  <2>1. cmd' \in Command /\ cmd'.pc = "mark_verified"
    BY <1>1, <1>2, PlacesKnown, GotoPlace DEF ActivationInv, Types
  <2>2. PlaceInv'
    BY <1>1, <2>1 DEF ActivationInv, PlaceInv, Place, Still, PendingPcs
  <2>3. FilesInv'
    BY <1>1, <1>2, <2>1 DEF ActivationInv, FilesInv, SettledAuthority, Has, Still
  <2>4. EvidenceInv'
    BY <1>1, <2>1 DEF ActivationInv, EvidenceInv, EvidenceExclusive,
                      PassingEvidence, Still
  <2> QED
    BY <1>1, <2>1, <2>2, <2>3, <2>4, StillFiles DEF ActivationInv, Types, Still
<1> QED
  BY <1>1, <1>2, StillRaise DEF Verify

(* Writing evidence: the receipt and the handoff after the commit, the       *)
(* failure after a rollback or a conflict, the sidecar after any of them.    *)
LEMMA WriteInv ==
    ASSUME ActivationInv, NEW pc, NEW file, Write(pc, file),
           cmd' \in Command, PlaceInv', journal \in Terminal,
           file = "receipt" => journal = "committed",
           file = "handoff" => journal = "committed" /\ "receipt" \in evidence,
           file = "failure" => journal # "committed",
           cmd'.pc = "handoff" => file = "receipt",
           cmd'.pc \notin {"mark_verified", "mark_committed", "mark_rolled_back"}
    PROVE  ActivationInv'
<1>1. /\ journal' = journal /\ files' = files /\ recorded' = recorded
      /\ evidence' = evidence \cup {file}
  BY DEF Write
<1>2. FilesInv'
  BY <1>1 DEF ActivationInv, FilesInv, SettledAuthority, Has
<1>3. EvidenceInv'
  BY <1>1 DEF ActivationInv, EvidenceInv, EvidenceExclusive, PassingEvidence,
              Terminal
<1> QED
  BY <1>1, <1>2, <1>3 DEF ActivationInv, Types

LEMMA SealInv == ASSUME ActivationInv, Seal PROVE ActivationInv'
<1>1. journal \in Terminal /\ journal' = journal
  BY DEF Seal, Write, At, ActivationInv, PlaceInv, Place
<1>2. /\ cmd' \in Command
      /\ cmd'.pc = IF journal = "committed" THEN "receipt" ELSE "failure"
  <2>1. (IF journal = "committed" THEN "receipt" ELSE "failure")
          \in Forward \cup Backward
    BY DEF Forward, Backward
  <2> QED
    BY <2>1, GotoPlace DEF Seal, ActivationInv, Types
<1>3. PlaceInv'
  BY <1>1, <1>2 DEF PlaceInv, Place, Terminal, PendingPcs
<1> QED
  BY <1>1, <1>2, <1>3, WriteInv DEF Seal

LEMMA WriteReceiptInv == ASSUME ActivationInv, WriteReceipt PROVE ActivationInv'
<1>1. journal = "committed" /\ journal' = journal
  BY DEF WriteReceipt, Write, At, ActivationInv, PlaceInv, Place
<1>2. cmd' \in Command /\ cmd'.pc = "handoff"
  BY GotoPlace DEF WriteReceipt, ActivationInv, Types, Forward
<1>3. PlaceInv' /\ journal \in Terminal
  BY <1>1, <1>2 DEF PlaceInv, Place, Terminal, PendingPcs
<1> QED
  BY <1>1, <1>2, <1>3, WriteInv DEF WriteReceipt

LEMMA WriteHandoffInv == ASSUME ActivationInv, WriteHandoff PROVE ActivationInv'
<1>1. /\ journal = "committed" /\ journal' = journal
      /\ "receipt" \in evidence
  BY DEF WriteHandoff, Write, At, ActivationInv, PlaceInv, Place, EvidenceInv
<1>2. cmd' \in Command /\ cmd'.pc = "idle"
  BY EndPlace DEF WriteHandoff
<1>3. PlaceInv' /\ journal \in Terminal
  BY <1>1, <1>2, PlacesKnown DEF PlaceInv, Place, Terminal
<1> QED
  BY <1>1, <1>2, <1>3, WriteInv DEF WriteHandoff

LEMMA WriteFailureInv == ASSUME ActivationInv, WriteFailure PROVE ActivationInv'
<1>1. /\ journal \in {"rolled_back", "conflict"} /\ journal' = journal
      /\ "receipt" \notin evidence
  BY DEF WriteFailure, Write, At, ActivationInv, PlaceInv, Place, EvidenceInv,
         EvidenceExclusive, PassingEvidence
<1>2. cmd' \in Command /\ cmd'.pc = "idle"
  BY EndPlace DEF WriteFailure
<1>3. PlaceInv' /\ journal \in Terminal
  BY <1>1, <1>2, PlacesKnown DEF PlaceInv, Place, Terminal
<1>4. Write("failure", "failure")
  BY <1>1 DEF WriteFailure
<1> QED
  BY <1>1, <1>2, <1>3, <1>4, WriteInv

-----------------------------------------------------------------------------
(* The compensation. *)

LEMMA StopNewInv == ASSUME ActivationInv, StopNew PROVE ActivationInv'
<1>1. Still /\ cmd.pc \in PendingPcs /\ "check" \in PendingPcs
  BY DEF StopNew, Still, disk, At, PendingPcs, Backward
<1>2. cmd' \in Command /\ cmd'.pc = "check"
  <2>1. PICK current \in SUBSET Processes :
          cmd' = [cmd EXCEPT !.pc = "check", !.current = current]
    BY DEF StopNew, Listeners
  <2> QED
    BY <2>1 DEF ActivationInv, Types, Command, Backward
<1> QED
  BY <1>1, <1>2, StillMoves

LEMMA CheckTargetsInv == ASSUME ActivationInv, CheckTargets PROVE ActivationInv'
<1>1. /\ Still /\ cmd.pc \in PendingPcs
      /\ {"pointer_temp", "mark_conflict"} \subseteq PendingPcs
  BY DEF CheckTargets, Still, disk, At, PendingPcs, Backward
<1>2. CASE cmd' = [cmd EXCEPT !.pc = "pointer_temp", !.todo = Switched]
  <2>1. cmd' \in Command /\ cmd'.pc = "pointer_temp"
    <3>1. PICK todo \in SUBSET Targets :
            cmd' = [cmd EXCEPT !.pc = "pointer_temp", !.todo = todo]
      BY <1>2 DEF Switched
    <3> QED
      BY <3>1 DEF ActivationInv, Types, Command, Backward
  <2> QED
    BY <1>1, <2>1, StillMoves
<1> QED
  BY <1>1, <1>2, StillGoto DEF CheckTargets, Conflict

LEMMA PrepareRestoreInv ==
    ASSUME ActivationInv, NEW t,
           NEW pc \in {"pointer_temp", "settings_temp"},
           NEW replace \in {"pointer_back", "settings_back"},
           NEW next \in {"settings_temp", "restart"},
           PrepareRestore(t, pc, replace, next)
    PROVE  ActivationInv'
<1>1. Still /\ cmd.pc = pc
  BY DEF PrepareRestore, Still, At
<1>2. {pc, replace, next, "mark_conflict"} \subseteq PendingPcs
  BY DEF PendingPcs, Backward
<1>3. Goto(next) \/ Goto(replace) \/ Goto("mark_conflict")
  BY DEF PrepareRestore, Conflict
<1> QED
  BY <1>1, <1>2, <1>3, StillGoto

LEMMA RestoreInv ==
    ASSUME ActivationInv, NEW t \in Targets,
           NEW pc \in {"pointer_back", "settings_back"},
           NEW next \in {"settings_temp", "restart"},
           Restore(t, pc, next)
    PROVE  ActivationInv'
<1>1. cmd.pc = pc /\ {pc, next, "mark_conflict"} \subseteq PendingPcs
  BY DEF Restore, At, PendingPcs, Backward
<1>2. CASE files[t] = "candidate"
  <2>1. /\ files' \in [Targets -> Contents]
        /\ journal' = journal /\ evidence' = evidence /\ recorded' = recorded
    BY <1>2 DEF Restore, ActivationInv, Types, Contents
  <2>2. cmd' \in Command /\ cmd'.pc = next
    BY <1>1, <1>2, PlacesKnown, GotoPlace DEF Restore, ActivationInv, Types
  <2> QED
    BY <1>1, <2>1, <2>2, GotoMoves
<1>3. CASE files[t] # "candidate"
  <2>1. Still /\ Goto("mark_conflict")
    BY <1>3 DEF Restore, Still, Conflict
  <2> QED
    BY <1>1, <2>1, StillGoto
<1> QED
  BY <1>2, <1>3

LEMMA RestartInv == ASSUME ActivationInv, Restart PROVE ActivationInv'
<1>1. /\ Still /\ cmd.pc \in PendingPcs
      /\ {"legacy", "wait_back"} \subseteq PendingPcs
  BY DEF Restart, Still, disk, At, PendingPcs, Backward
<1>2. CASE cmd' = [cmd EXCEPT !.pc = "wait_back", !.current = {"rollback"}]
  <2>1. cmd' \in Command /\ cmd'.pc = "wait_back"
    BY <1>2 DEF ActivationInv, Types, Command, Backward, Processes
  <2> QED
    BY <1>1, <2>1, StillMoves
<1> QED
  BY <1>1, <1>2, StillGoto, StillRaise DEF Restart

(* A rollback is about to be recorded only without a file of the candidate.  *)
LEMMA LegacyInv == ASSUME ActivationInv, Legacy PROVE ActivationInv'
<1>1. Still /\ cmd.pc \in PendingPcs /\ "mark_rolled_back" \in PendingPcs
  BY DEF Legacy, Still, disk, At, PendingPcs, Backward
<1>2. CASE ~Has("candidate") /\ Goto("mark_rolled_back")
  <2>1. cmd' \in Command /\ cmd'.pc = "mark_rolled_back"
    BY <1>1, <1>2, PlacesKnown, GotoPlace DEF ActivationInv, Types
  <2>2. PlaceInv'
    BY <1>1, <2>1 DEF ActivationInv, PlaceInv, Place, Still, PendingPcs
  <2>3. FilesInv'
    BY <1>1, <1>2, <2>1 DEF ActivationInv, FilesInv, SettledAuthority, Has, Still
  <2>4. EvidenceInv'
    BY <1>1, <2>1 DEF ActivationInv, EvidenceInv, EvidenceExclusive,
                      PassingEvidence, Still
  <2> QED
    BY <1>1, <2>1, <2>2, <2>3, <2>4, StillFiles DEF ActivationInv, Types, Still
<1> QED
  BY <1>1, <1>2, StillRaise DEF Legacy

-----------------------------------------------------------------------------
(* Recovery and the environment. *)

LEMMA RecoverInv == ASSUME ActivationInv, Recover PROVE ActivationInv'
<1>1. /\ Still
      /\ journal \notin Terminal \cup {"none"}
  BY DEF Recover, Still, disk, Pending
<1>2. PICK pc \in {"mark_conflict", "mark_compensating", "stop_new",
                   "mark_failed"} :
        cmd' = [Idle EXCEPT !.kind = "recover", !.owned = recorded, !.pc = pc]
  BY DEF Recover, RecoverFrom, ResumeAt
<1>3. cmd' \in Command /\ cmd'.pc = pc
  BY <1>2 DEF ActivationInv, Types, Command, Idle, Backward
<1>4. pc \in PendingPcs
  BY DEF PendingPcs, Backward
<1>5. PlaceInv'
  BY <1>1, <1>3, <1>4 DEF PlaceInv, Place, PendingPcs, Still
<1> QED
  BY <1>1, <1>3, <1>5, Moves DEF Still

(* An edit only takes a file away from both generations.                     *)
LEMMA EditInv ==
    ASSUME ActivationInv, NEW t \in Targets, Edit(t) PROVE ActivationInv'
<1>1. /\ files' = [files EXCEPT ![t] = "unknown"]
      /\ journal' = journal /\ evidence' = evidence /\ recorded' = recorded
      /\ cmd' = cmd
  BY DEF Edit
<1>2. /\ files' \in [Targets -> Contents]
      /\ \A u \in Targets : files'[u] \in {files[u], "unknown"}
  BY <1>1 DEF ActivationInv, Types, Contents
<1>3. \A content \in {"before", "candidate"} : Has(content)' => Has(content)
  BY <1>2 DEF Has
<1>4. FilesInv'
  BY <1>1, <1>3 DEF ActivationInv, FilesInv, SettledAuthority
<1>5. PlaceInv' /\ EvidenceInv'
  BY <1>1 DEF ActivationInv, PlaceInv, Place, EvidenceInv, EvidenceExclusive,
              PassingEvidence
<1> QED
  BY <1>1, <1>2, <1>4, <1>5 DEF ActivationInv, Types

LEMMA IdleInv ==
    ASSUME ActivationInv, Still, cmd' = cmd \/ End("none") PROVE ActivationInv'
<1>1. CASE cmd' = cmd
  BY <1>1 DEF ActivationInv, Types, Still, PlaceInv, Place, FilesInv,
              SettledAuthority, Has, EvidenceInv, EvidenceExclusive,
              PassingEvidence
<1>2. CASE End("none")
  <2>1. cmd' \in Command /\ cmd'.pc = "idle"
    BY <1>2, EndPlace
  <2>2. PlaceInv'
    BY <2>1, PlacesKnown DEF PlaceInv, Place
  <2> QED
    BY <2>1, <2>2, Moves DEF Still
<1> QED
  BY <1>1, <1>2

(* Deaths, starting processes, kills and confirmations leave the files, the  *)
(* journal and the evidence as they are, errors raise.                       *)
LEMMA EnvironmentInv ==
    ASSUME ActivationInv,
           \/ RecoverSettled \/ Killed \/ CallFails
           \/ \E k \in Processes : Boot(k) \/ BackendExits(k)
    PROVE  ActivationInv'
<1>1. CASE CallFails
  BY <1>1, StillRaise DEF CallFails, Still
<1>2. CASE RecoverSettled
  BY <1>2, IdleInv DEF RecoverSettled, Still, disk
<1>3. CASE Killed
  BY <1>3, IdleInv DEF Killed, Still, disk
<1>4. CASE \E k \in Processes : Boot(k) \/ BackendExits(k)
  BY <1>4, IdleInv DEF Boot, BackendExits, Quietly, Still, disk
<1> QED
  BY <1>1, <1>2, <1>3, <1>4

-----------------------------------------------------------------------------
(* The theorems. *)

LEMMA NextInv == ASSUME ActivationInv, [Next]_vars PROVE ActivationInv'
<1>1. CASE BeginApply
  BY <1>1, BeginApplyInv
<1>2. CASE Recover
  BY <1>2, RecoverInv
<1>3. CASE Activate
  <2>1. CASE StopBackend
    BY <2>1, StopBackendInv
  <2>2. CASE Replace("settings", "mark_settings")
    BY <2>2, ReplaceInv DEF Targets
  <2>3. CASE Replace("pointer", "mark_pointer")
    BY <2>3, ReplaceInv DEF Targets
  <2>4. CASE StartCandidate
    BY <2>4, StartCandidateInv
  <2>5. CASE Wait("wait", "apply", "mark_started")
    BY <2>5, WaitInv
  <2>6. CASE Verify
    BY <2>6, VerifyInv
  <2>7. CASE AppendState
    BY <2>7, AppendInv
  <2>8. CASE Seal
    BY <2>8, SealInv
  <2>9. CASE WriteReceipt
    BY <2>9, WriteReceiptInv
  <2>10. CASE WriteHandoff
    BY <2>10, WriteHandoffInv
  <2>11. CASE WriteFailure
    BY <2>11, WriteFailureInv
  <2> QED
    BY <1>3, <2>1, <2>2, <2>3, <2>4, <2>5, <2>6, <2>7, <2>8, <2>9, <2>10, <2>11
       DEF Activate
<1>4. CASE Compensate
  <2>1. CASE StopNew
    BY <2>1, StopNewInv
  <2>2. CASE CheckTargets
    BY <2>2, CheckTargetsInv
  <2>3. CASE PrepareRestore("pointer", "pointer_temp", "pointer_back",
                            "settings_temp")
    BY <2>3, PrepareRestoreInv
  <2>4. CASE Restore("pointer", "pointer_back", "settings_temp")
    BY <2>4, RestoreInv DEF Targets
  <2>5. CASE PrepareRestore("settings", "settings_temp", "settings_back",
                            "restart")
    BY <2>5, PrepareRestoreInv
  <2>6. CASE Restore("settings", "settings_back", "restart")
    BY <2>6, RestoreInv DEF Targets
  <2>7. CASE Restart
    BY <2>7, RestartInv
  <2>8. CASE Wait("wait_back", "rollback", "legacy")
    BY <2>8, WaitInv
  <2>9. CASE Legacy
    BY <2>9, LegacyInv
  <2> QED
    BY <1>4, <2>1, <2>2, <2>3, <2>4, <2>5, <2>6, <2>7, <2>8, <2>9 DEF Compensate
<1>5. CASE \/ RecoverSettled \/ Killed \/ CallFails
           \/ \E k \in Processes : Boot(k) \/ BackendExits(k)
  BY <1>5, EnvironmentInv
<1>6. CASE \E t \in Targets : Edit(t)
  BY <1>6, EditInv
<1>7. CASE UNCHANGED vars
  <2>1. Still /\ cmd' = cmd
    BY <1>7 DEF vars, disk, Still
  <2> QED
    BY <2>1, IdleInv
<1> QED
  BY <1>1, <1>2, <1>3, <1>4, <1>5, <1>6, <1>7 DEF Next, Run

(* The inductive invariant of the files and the journal: what the place of   *)
(* apply_activation, _compensate and recover_activation says of them.        *)
THEOREM ActivationInvariant == Spec => []ActivationInv
<1>1. Init => ActivationInv
  BY InitInv
<1>2. ActivationInv /\ [Next]_vars => ActivationInv'
  BY NextInv
<1> QED
  BY <1>1, <1>2, PTL DEF Spec

(* A committed activation leaves no file of the old generation and a rolled  *)
(* back one none of the candidate, however often commands were killed or     *)
(* failed on the way and files were edited.                                  *)
THEOREM SettledSafety == Spec => []SettledAuthority
<1>1. ActivationInv => SettledAuthority
  BY DEF ActivationInv, FilesInv
<1> QED
  BY <1>1, ActivationInvariant, PTL

(* Passing and failure evidence never exist together, a handoff has its      *)
(* receipt and only a terminal journal is sealed.                            *)
THEOREM EvidenceSafety == Spec => []EvidenceExclusive
<1>1. ActivationInv => EvidenceExclusive
  BY DEF ActivationInv, EvidenceInv
<1> QED
  BY <1>1, ActivationInvariant, PTL

(* One file is written at a time, and not one that somebody else wrote.      *)
FileWritten ==
    \E t \in Targets : \E content \in Contents :
        /\ files' = [files EXCEPT ![t] = content]
        /\ files[t] = "unknown" => content = "unknown"

LEMMA ReplaceWrites ==
    ASSUME NEW t \in Targets, NEW next, Replace(t, next)
    PROVE  files' = files \/ FileWritten
<1>1. CASE files[t] = "before" /\ files' = [files EXCEPT ![t] = "candidate"]
  BY <1>1 DEF FileWritten, Contents
<1> QED
  BY <1>1 DEF Replace

LEMMA RestoreWrites ==
    ASSUME NEW t \in Targets, NEW pc, NEW next, Restore(t, pc, next)
    PROVE  files' = files \/ FileWritten
<1>1. CASE files[t] = "candidate" /\ files' = [files EXCEPT ![t] = "before"]
  BY <1>1 DEF FileWritten, Contents
<1> QED
  BY <1>1 DEF Restore

LEMMA NextWrites == ASSUME [Next]_vars PROVE files' = files \/ FileWritten
<1>1. CASE UNCHANGED vars \/ BeginApply \/ Recover \/ RecoverSettled
  BY <1>1 DEF vars, disk, BeginApply, Recover, RecoverSettled
<1>2. CASE Activate
  <2>1. CASE Replace("settings", "mark_settings") \/ Replace("pointer", "mark_pointer")
    BY <2>1, ReplaceWrites DEF Targets
  <2>2. CASE \/ StopBackend \/ StartCandidate \/ Verify \/ AppendState
             \/ Wait("wait", "apply", "mark_started")
    BY <2>2 DEF StopBackend, StartCandidate, Wait, Verify, AppendState, disk
  <2>3. CASE Seal \/ WriteReceipt \/ WriteHandoff \/ WriteFailure
    BY <2>3 DEF Seal, WriteReceipt, WriteHandoff, WriteFailure, Write
  <2> QED
    BY <1>2, <2>1, <2>2, <2>3 DEF Activate
<1>3. CASE Compensate
  <2>1. CASE \/ Restore("pointer", "pointer_back", "settings_temp")
             \/ Restore("settings", "settings_back", "restart")
    BY <2>1, RestoreWrites DEF Targets
  <2>2. CASE \/ PrepareRestore("pointer", "pointer_temp", "pointer_back",
                               "settings_temp")
             \/ PrepareRestore("settings", "settings_temp", "settings_back",
                               "restart")
    BY <2>2 DEF PrepareRestore
  <2>3. CASE \/ StopNew \/ CheckTargets \/ Restart \/ Legacy
             \/ Wait("wait_back", "rollback", "legacy")
    BY <2>3 DEF StopNew, CheckTargets, Restart, Wait, Legacy, disk
  <2> QED
    BY <1>3, <2>1, <2>2, <2>3 DEF Compensate
<1>4. CASE Killed \/ CallFails \/ \E k \in Processes : Boot(k) \/ BackendExits(k)
  BY <1>4 DEF Killed, CallFails, Boot, BackendExits, Quietly, disk
<1>5. CASE \E t \in Targets : Edit(t)
  BY <1>5 DEF Edit, FileWritten, Contents
<1> QED
  BY <1>1, <1>2, <1>3, <1>4, <1>5 DEF Next, Run

(* No step of a command overwrites a file that somebody else wrote: apply    *)
(* replaces only frozen contents, a rollback only those of the candidate.    *)
THEOREM UnknownSafety == Spec => UnknownKept
<1> DEFINE Kept == \A t \in Targets : files[t] = "unknown" => files'[t] = "unknown"
<1>1. ASSUME ActivationInv, [Next]_vars PROVE Kept
  <2>1. CASE files' = files
    BY <2>1
  <2>2. CASE FileWritten
    BY <2>2 DEF FileWritten, ActivationInv, Types
  <2> QED
    BY <1>1, <2>1, <2>2, NextWrites
<1>2. ActivationInv /\ [Next]_vars => [Kept]_vars
  BY <1>1
<1> QED
  BY <1>2, ActivationInvariant, PTL DEF Spec, UnknownKept

-----------------------------------------------------------------------------
(* The backends. A command knows the process apply started from its start    *)
(* to stop_new, and a later one from the journal; but for an orphan, one of  *)
(* them does as long as the process exists.                                  *)

AllBefore == [t \in Targets |-> "before"]

Backends ==
    {Off, Starting} \cup {Up(s, f) : s \in {"loaded", "listening"}, f \in [Targets -> Contents]}

BackendTypes ==
    /\ journal \in DOMAIN Transitions
    /\ temps \subseteq Targets
    /\ evidence \subseteq {"sidecar", "receipt", "handoff", "failure"}
    /\ logs \subseteq Processes
    /\ report \in {"none", "passed", "error"} \cup Terminal
    /\ proc \in [Processes -> Backends]
    /\ \A j, k \in Listeners : j = k

(* The journal is as far as the command.                                     *)
JournalAt(pc) ==
    CASE pc \in {"stop", "mark_stopped"} -> {"prepared"}
      [] pc \in {"settings", "mark_settings"} -> {"backend_stopped"}
      [] pc \in {"pointer", "mark_pointer"} -> {"settings_written"}
      [] pc \in {"start", "wait", "mark_started"} -> {"pointer_written"}
      [] pc \in {"verify", "mark_verified"} -> {"backend_started"}
      [] pc = "mark_committed" -> {"verified"}
      [] pc \in {"stop_new", "check", "pointer_temp", "pointer_back", "settings_temp",
                 "settings_back", "restart", "wait_back", "legacy",
                 "mark_rolled_back"} -> {"compensating"}
      [] OTHER -> DOMAIN Transitions

(* What was switched is known until it is restored, and the files are one    *)
(* generation when a backend is started.                                     *)
FilesAt ==
    /\ cmd.pc \in {"mark_settings", "pointer"} => files["settings"] # "before"
    /\ cmd.pc \in {"mark_pointer", "start"} => ~Has("before")
    /\ cmd.pc \in {"pointer_temp", "pointer_back", "settings_temp", "settings_back"} =>
          Switched \subseteq cmd.todo
    /\ cmd.pc \in {"settings_temp", "settings_back"} => files["pointer"] # "candidate"
    /\ cmd.pc \in {"restart", "wait_back", "legacy"} => ~Has("candidate")

Launching == {"wait", "mark_started", "mark_failed", "mark_compensating", "stop_new"}

Stopped == {"check", "pointer_temp", "pointer_back", "settings_temp", "settings_back",
            "restart", "wait_back", "legacy", "mark_rolled_back"}

Owning ==
    /\ cmd.pc \in {"wait", "mark_started"} => cmd.owned
    /\ recorded => journal # "none" /\ (cmd.pc # "idle" => cmd.owned)

FrozenInv ==
    proc["frozen"] # Off =>
        /\ proc["frozen"] = Up("listening", AllBefore)
        /\ ~Has("candidate")
        /\ cmd.pc \notin Forward \ {"stop"}
        /\ journal # "committed"

ApplyInv ==
    ~orphan /\ proc["apply"] # Off =>
        /\ ~Has("before")
        /\ proc["apply"] # Starting => \A t \in Targets : proc["apply"].read[t] # "before"
        /\ recorded \/ (cmd.owned /\ cmd.pc \in Launching)
        /\ cmd.pc \notin Stopped
        /\ journal # "rolled_back"

RollbackInv ==
    proc["rollback"] # Off =>
        /\ ~Has("candidate")
        /\ proc["rollback"] # Starting =>
              \A t \in Targets : proc["rollback"].read[t] # "candidate"
        /\ journal \in {"compensating", "rolled_back", "conflict"}

BackendInv == /\ BackendTypes /\ journal \in JournalAt(cmd.pc) /\ FilesAt /\ Owning
              /\ FrozenInv /\ ApplyInv /\ RollbackInv

-----------------------------------------------------------------------------
(* Every action preserves what is said of the backends.                      *)

LEMMA InitBackend == ASSUME Init PROVE BackendInv
<1>1. /\ journal = "none" /\ recorded = FALSE /\ cmd.pc = "idle" /\ orphan = FALSE
      /\ files = AllBefore /\ report = "none"
      /\ temps = {} /\ evidence = {} /\ logs = {}
      /\ proc = [k \in Processes |-> IF k = "frozen" THEN Up("listening", AllBefore)
                                    ELSE Off]
  BY DEF Init, Idle, AllBefore
<1>2. /\ proc["frozen"] = Up("listening", AllBefore)
      /\ proc["apply"] = Off /\ proc["rollback"] = Off
      /\ AllBefore \in [Targets -> Contents]
  BY <1>1 DEF Processes, AllBefore, Contents
<1>3. BackendTypes
  <2>1. proc \in [Processes -> Backends]
    BY <1>1, <1>2 DEF Backends
  <2>2. Listeners = {"frozen"}
    BY <1>1 DEF Listeners, Processes, Off, Up
  <2> QED
    BY <1>1, <2>1, <2>2 DEF BackendTypes, Transitions
<1>4. journal \in JournalAt(cmd.pc)
  BY <1>1 DEF JournalAt, Transitions
<1>5. FilesAt /\ Owning
  BY <1>1 DEF FilesAt, Owning
<1>6. FrozenInv /\ ApplyInv /\ RollbackInv
  BY <1>1, <1>2 DEF FrozenInv, ApplyInv, RollbackInv, Has, AllBefore, Forward
<1> QED
  BY <1>3, <1>4, <1>5, <1>6 DEF BackendInv

LEMMA BeginApplyBackend ==
    ASSUME ActivationInv, BackendInv, BeginApply PROVE BackendInv'
<1>1. /\ journal' = "prepared" /\ cmd.pc = "idle" /\ cmd'.pc = "stop"
      /\ proc' = proc /\ files' = files /\ recorded' = recorded /\ orphan' = orphan
      /\ temps' = temps /\ evidence' = evidence /\ logs' = logs /\ report' = report
      /\ journal = "none" /\ \A t \in Targets : files[t] = "before"
  BY DEF BeginApply, Idle, EnvUnchanged
<1>2. BackendTypes' /\ (journal \in JournalAt(cmd.pc))' /\ FilesAt'
  BY <1>1 DEF BackendInv, BackendTypes, Transitions, JournalAt, FilesAt, Listeners
<1>3. FrozenInv'
  BY <1>1 DEF BackendInv, FrozenInv, Has, Forward
<1>4. ApplyInv'
  BY <1>1 DEF BackendInv, ApplyInv, Has, Launching, Stopped
<1>5. RollbackInv'
  BY <1>1 DEF BackendInv, RollbackInv
<1>6. Owning'
  BY <1>1 DEF BackendInv, Owning
<1> QED
  BY <1>2, <1>3, <1>4, <1>5, <1>6 DEF BackendInv

(* What a step that moves the command and leaves processes, files and        *)
(* journal alone has to keep in mind.                                        *)
Calm ==
    /\ proc' = proc /\ files' = files /\ journal' = journal
    /\ recorded' = recorded /\ (orphan => orphan')
    /\ temps' \subseteq Targets /\ logs' \subseteq Processes
    /\ evidence' \subseteq {"sidecar", "receipt", "handoff", "failure"}
    /\ report' \in {"none", "passed", "error"} \cup Terminal

LEMMA CalmBackend ==
    ASSUME BackendInv, Calm, (journal \in JournalAt(cmd.pc))', FilesAt', Owning',
           proc["frozen"] # Off => cmd'.pc \notin Forward \ {"stop"},
           ~orphan /\ ~orphan' /\ proc["apply"] # Off =>
               /\ cmd'.pc \notin Stopped
               /\ recorded \/ (cmd'.owned /\ cmd'.pc \in Launching)
    PROVE  BackendInv'
<1>1. BackendTypes'
  BY DEF Calm, BackendInv, BackendTypes, Listeners
<1>2. FrozenInv'
  BY DEF Calm, BackendInv, FrozenInv, Has
<1>3. ApplyInv'
  BY DEF Calm, BackendInv, ApplyInv, Has
<1>4. RollbackInv'
  BY DEF Calm, BackendInv, RollbackInv, Has
<1> QED
  BY <1>1, <1>2, <1>3, <1>4 DEF BackendInv

(* The command ends, or goes where nothing is assumed of the files.          *)
LEMMA CalmEnds ==
    ASSUME BackendInv, Calm, NEW outcome, End(outcome),
           ~orphan /\ ~orphan' /\ proc["apply"] # Off => recorded
    PROVE  BackendInv'
<1>1. cmd'.pc = "idle" /\ cmd'.owned = FALSE
  BY DEF End, Idle
<1>2. (journal \in JournalAt(cmd.pc))' /\ FilesAt' /\ Owning'
  BY <1>1 DEF Calm, BackendInv, BackendTypes, JournalAt, FilesAt, Owning
<1>3. "idle" \notin Forward \cup Stopped
  BY DEF Forward, Stopped
<1> QED
  BY <1>1, <1>2, <1>3, CalmBackend

LEMMA CalmGoto ==
    ASSUME ActivationInv, BackendInv, Calm, NEW pc, Goto(pc),
           journal \in JournalAt(pc), FilesAt', Owning',
           proc["frozen"] # Off => pc \notin Forward \ {"stop"},
           ~orphan /\ ~orphan' /\ proc["apply"] # Off =>
               pc \notin Stopped /\ (recorded \/ (cmd.owned /\ pc \in Launching))
    PROVE  BackendInv'
<1>1. cmd'.pc = pc /\ cmd'.owned = cmd.owned
  BY DEF Goto, ActivationInv, Types, Command
<1> QED
  BY <1>1, CalmBackend DEF Calm

(* The places from which the code raises by itself.                          *)
LEMMA RaiseBackend ==
    ASSUME ActivationInv, BackendInv, Calm, Raise,
           cmd.pc \in {"stop", "wait", "verify", "restart", "wait_back", "legacy"}
    PROVE  BackendInv'
<1>1. journal # "committed"
  BY DEF BackendInv, JournalAt
<1>2. CASE cmd.pc \in Forward
  <2>1. Goto("mark_failed")
    BY <1>1, <1>2 DEF Raise, InTry
  <2>2. cmd'.pc = "mark_failed" /\ cmd'.owned = cmd.owned
    BY <2>1 DEF Goto, ActivationInv, Types, Command
  <2>3. journal \in JournalAt("mark_failed") /\ FilesAt' /\ Owning'
    BY <2>2 DEF Calm, BackendInv, BackendTypes, JournalAt, FilesAt, Owning
  <2>4. ~orphan /\ proc["apply"] # Off => recorded \/ cmd.owned
    BY DEF BackendInv, ApplyInv
  <2> QED
    BY <2>1, <2>3, <2>4, CalmGoto DEF Forward, Stopped, Launching
<1>3. CASE cmd.pc \notin Forward
  <2>1. cmd.pc \in Stopped /\ cmd.pc # "seal"
    BY <1>3 DEF Forward, Stopped
  <2>2. End("error")
    BY <1>3, <2>1 DEF Raise, InTry, At
  <2>3. ~orphan => proc["apply"] = Off
    BY <2>1 DEF BackendInv, ApplyInv
  <2> QED
    BY <2>2, <2>3, CalmEnds
<1> QED
  BY <1>2, <1>3

(* The steps of apply. *)

LEMMA StopBackendBackend ==
    ASSUME ActivationInv, BackendInv, StopBackend PROVE BackendInv'
<1>1. CASE Raise /\ proc' = proc
  <2>1. Calm
    <3>1. report' \in {"none", "passed", "error"} \cup Terminal
      BY <1>1 DEF BackendInv, BackendTypes, Raise, End, Goto, Terminal
    <3> QED
      BY <1>1, <3>1 DEF StopBackend, disk, EnvUnchanged, Calm, BackendInv, BackendTypes
  <2> QED
    BY <1>1, <2>1, RaiseBackend DEF StopBackend, At
<1>2. CASE Goto("mark_stopped") /\ proc' = [proc EXCEPT !["frozen"] = Off]
  <2>1. /\ cmd.pc = "stop" /\ cmd'.pc = "mark_stopped" /\ cmd'.owned = cmd.owned
        /\ files' = files /\ journal' = journal /\ recorded' = recorded
        /\ orphan' = orphan /\ temps' = temps /\ evidence' = evidence /\ logs' = logs
        /\ report' = report
    BY <1>2 DEF StopBackend, At, disk, EnvUnchanged, Goto, ActivationInv, Types, Command
  <2>2. /\ proc' \in [Processes -> Backends]
        /\ proc'["frozen"] = Off
        /\ proc'["apply"] = proc["apply"] /\ proc'["rollback"] = proc["rollback"]
    BY <1>2 DEF BackendInv, BackendTypes, Backends, Processes
  <2>3. Listeners' \subseteq Listeners
    BY <1>2, <2>2 DEF Listeners, BackendInv, BackendTypes, Off
  <2>4. BackendTypes'
    BY <2>1, <2>2, <2>3 DEF BackendInv, BackendTypes
  <2>5. (journal \in JournalAt(cmd.pc))' /\ FilesAt' /\ Owning'
    BY <2>1 DEF BackendInv, JournalAt, FilesAt, Owning
  <2>6. FrozenInv' /\ RollbackInv'
    BY <2>1, <2>2 DEF BackendInv, FrozenInv, RollbackInv, Has
  <2>7. ApplyInv'
    BY <2>1, <2>2 DEF BackendInv, ApplyInv, Has, Launching, Stopped
  <2> QED
    BY <2>4, <2>5, <2>6, <2>7 DEF BackendInv
<1> QED
  BY <1>1, <1>2 DEF StopBackend

LEMMA AppendBackend == ASSUME ActivationInv, BackendInv, AppendState PROVE BackendInv'
<1>1. PICK m \in Marks :
        /\ cmd.pc = m[1] /\ m[2] \in Transitions[journal] /\ journal' = m[2]
        /\ recorded' = (recorded \/ m[2] = "backend_started") /\ Goto(m[3])
        /\ files' = files /\ proc' = proc /\ orphan' = orphan
        /\ temps' = temps /\ evidence' = evidence /\ logs' = logs
  BY DEF AppendState, At, EnvUnchanged
<1>2. cmd'.pc = m[3] /\ cmd'.owned = cmd.owned /\ report' = report
  BY <1>1 DEF Goto, ActivationInv, Types, Command
<1>3. BackendTypes'
  <2>1. m[2] \in DOMAIN Transitions
    BY DEF Marks, Transitions
  <2> QED
    BY <1>1, <1>2, <2>1 DEF BackendInv, BackendTypes, Listeners
<1>4. (journal \in JournalAt(cmd.pc))'
  BY <1>1, <1>2, <1>3 DEF Marks, JournalAt, BackendTypes
<1>5. /\ m[3] \in {"settings", "pointer", "start", "verify", "mark_committed", "seal",
                    "mark_compensating", "stop_new"}
      /\ m[3] = "pointer" => m[1] = "mark_settings"
      /\ m[3] = "start" => m[1] = "mark_pointer"
      /\ m[3] = "verify" => m[2] = "backend_started"
      /\ m[1] \in Launching => m[3] \in Launching \/ m[2] = "backend_started"
      /\ m[2] = "backend_started" => m[1] = "mark_started"
      /\ m[2] = "rolled_back" => m[1] \in Stopped
      /\ m[1] # "idle" /\ m[2] # "none"
  BY DEF Marks, Launching, Stopped
<1>6. FilesAt'
  BY <1>1, <1>2, <1>5 DEF BackendInv, FilesAt, Has
<1>7. Owning'
  BY <1>1, <1>2, <1>5 DEF BackendInv, Owning
<1>8. FrozenInv'
  BY <1>1, <1>2 DEF Marks, BackendInv, FrozenInv, Has, Forward
<1>9. ApplyInv'
  <2>1. m[3] \notin Stopped
    BY <1>5 DEF Stopped
  <2>2. ~orphan /\ proc["apply"] # Off =>
          recorded' \/ (cmd'.owned /\ cmd'.pc \in Launching)
    BY <1>1, <1>2, <1>5 DEF BackendInv, ApplyInv
  <2>3. ~orphan /\ proc["apply"] # Off => journal' # "rolled_back"
    BY <1>1, <1>2, <1>5 DEF BackendInv, ApplyInv
  <2> QED
    BY <1>1, <1>2, <2>1, <2>2, <2>3 DEF BackendInv, ApplyInv, Has
<1>10. RollbackInv'
  BY <1>1, <1>2 DEF Marks, BackendInv, RollbackInv, Has, JournalAt, Transitions
<1> QED
  BY <1>3, <1>4, <1>6, <1>7, <1>8, <1>9, <1>10 DEF BackendInv

LEMMA ReplaceBackend ==
    ASSUME ActivationInv, BackendInv,
           \/ Replace("settings", "mark_settings")
           \/ Replace("pointer", "mark_pointer")
    PROVE  BackendInv'
<1>1. /\ cmd.pc \in {"settings", "pointer"} /\ temps' = temps /\ evidence' = evidence
      /\ logs' = logs /\ proc' = proc /\ journal' = journal /\ recorded' = recorded
      /\ orphan' = orphan /\ report' = report
  BY DEF Replace, At, EnvUnchanged, Goto, Conflict
<1>2. ~orphan => proc["apply"] = Off \/ recorded
  BY <1>1 DEF BackendInv, ApplyInv, Launching
<1>3. CASE files' = files /\ Conflict
  <2>1. cmd'.pc = "mark_conflict" /\ cmd'.owned = cmd.owned
    BY <1>3 DEF Conflict, Goto, ActivationInv, Types, Command
  <2>2. Calm
    BY <1>1, <1>3 DEF Calm, BackendInv, BackendTypes
  <2>3. (journal \in JournalAt(cmd.pc))' /\ FilesAt' /\ Owning'
    BY <1>1, <2>1 DEF BackendInv, BackendTypes, JournalAt, FilesAt, Owning
  <2> QED
    BY <1>2, <2>1, <2>2, <2>3, CalmBackend DEF Forward, Stopped
<1>4. CASE \E t \in Targets : \E next \in {"mark_settings", "mark_pointer"} :
             /\ cmd.pc = t /\ files' = [files EXCEPT ![t] = "candidate"]
             /\ Goto(next) /\ next = IF t = "settings" THEN "mark_settings" ELSE "mark_pointer"
  <2>1. PICK t \in Targets : /\ cmd.pc = t /\ files' = [files EXCEPT ![t] = "candidate"]
                             /\ Goto(IF t = "settings" THEN "mark_settings"
                                     ELSE "mark_pointer")
    BY <1>4
  <2>2. /\ cmd'.pc = IF t = "settings" THEN "mark_settings" ELSE "mark_pointer"
        /\ cmd'.owned = cmd.owned
    BY <2>1 DEF Goto, ActivationInv, Types, Command
  <2>3. /\ files'[t] = "candidate"
        /\ \A u \in Targets : u # t => files'[u] = files[u]
    BY <2>1 DEF ActivationInv, Types
  <2>4. BackendTypes'
    BY <1>1 DEF BackendInv, BackendTypes, Listeners
  <2>5. (journal \in JournalAt(cmd.pc))' /\ Owning'
    BY <1>1, <2>1, <2>2 DEF Targets, BackendInv, JournalAt, Owning
  <2>6. FilesAt'
    BY <1>1, <2>1, <2>2, <2>3 DEF Targets, BackendInv, FilesAt, Has
  <2>7. proc["frozen"] = Off /\ proc["rollback"] = Off
    BY <1>1 DEF BackendInv, FrozenInv, RollbackInv, Forward, JournalAt
  <2>8. ApplyInv'
    BY <1>1, <1>2, <2>2, <2>3 DEF BackendInv, ApplyInv, Has, Stopped, JournalAt
  <2> QED
    BY <1>1, <2>4, <2>5, <2>6, <2>7, <2>8 DEF BackendInv, FrozenInv, RollbackInv
<1> QED
  BY <1>3, <1>4 DEF Replace, At, Targets

LEMMA StartCandidateBackend ==
    ASSUME ActivationInv, BackendInv, StartCandidate PROVE BackendInv'
<1>1. /\ cmd.pc = "start" /\ temps' = temps /\ evidence' = evidence
      /\ logs' = logs \cup {"apply"} /\ proc' = [proc EXCEPT !["apply"] = Starting]
      /\ files' = files /\ journal' = journal /\ recorded' = recorded
      /\ orphan' = orphan /\ report' = report
      /\ cmd'.pc = "wait" /\ cmd'.owned = TRUE
  BY DEF StartCandidate, At, Launch, disk, EnvUnchanged, ActivationInv, Types, Command
<1>2. /\ proc' \in [Processes -> Backends]
      /\ proc'["frozen"] = proc["frozen"] /\ proc'["rollback"] = proc["rollback"]
      /\ proc'["apply"] = Starting
  BY <1>1 DEF BackendInv, BackendTypes, Backends, Processes
<1>3. Listeners' \subseteq Listeners
  BY <1>1, <1>2 DEF Listeners, BackendInv, BackendTypes, Starting
<1>4. BackendTypes'
  BY <1>1, <1>2, <1>3 DEF BackendInv, BackendTypes, Processes
<1>5. (journal \in JournalAt(cmd.pc))' /\ FilesAt' /\ Owning'
  BY <1>1 DEF BackendInv, JournalAt, FilesAt, Owning
<1>6. FrozenInv' /\ RollbackInv'
  BY <1>1, <1>2 DEF BackendInv, FrozenInv, RollbackInv, Has, Forward, JournalAt
<1>7. ApplyInv'
  BY <1>1, <1>2 DEF BackendInv, ApplyInv, FilesAt, Has, Launching, Stopped, JournalAt
<1> QED
  BY <1>4, <1>5, <1>6, <1>7 DEF BackendInv

LEMMA WaitBackend ==
    ASSUME ActivationInv, BackendInv,
           \/ Wait("wait", "apply", "mark_started")
           \/ Wait("wait_back", "rollback", "legacy")
    PROVE  BackendInv'
<1>1. Calm
  <2>1. report' \in {"none", "passed", "error"} \cup Terminal
    BY DEF Wait, BackendInv, BackendTypes, Raise, End, Goto, Terminal
  <2>2. /\ proc' = proc /\ files' = files /\ journal' = journal /\ recorded' = recorded
        /\ orphan' = orphan /\ temps' = temps /\ evidence' = evidence /\ logs' = logs
    BY DEF Wait, disk, EnvUnchanged
  <2> QED
    BY <2>1, <2>2 DEF Calm, BackendInv, BackendTypes
<1>2. cmd.pc \in {"wait", "wait_back"}
  BY DEF Wait, At
<1>3. CASE cmd.pc = "wait" /\ Goto("mark_started")
  <2>1. cmd'.pc = "mark_started" /\ cmd'.owned = cmd.owned
    BY <1>3 DEF Goto, ActivationInv, Types, Command
  <2>2. journal \in JournalAt("mark_started") /\ FilesAt' /\ Owning'
    BY <1>1, <1>3, <2>1 DEF Calm, BackendInv, JournalAt, FilesAt, Owning
  <2> QED
    BY <1>1, <1>3, <2>2, CalmGoto
       DEF BackendInv, FrozenInv, ApplyInv, Forward, Stopped, Launching
<1>4. CASE cmd.pc = "wait_back" /\ Goto("legacy")
  <2>1. cmd'.pc = "legacy" /\ cmd'.owned = cmd.owned
    BY <1>4 DEF Goto, ActivationInv, Types, Command
  <2>2. journal \in JournalAt("legacy") /\ FilesAt' /\ Owning'
    BY <1>1, <1>4, <2>1 DEF Calm, BackendInv, JournalAt, FilesAt, Owning, Has
  <2> QED
    BY <1>1, <1>4, <2>2, CalmGoto
       DEF BackendInv, ApplyInv, Forward, Stopped
<1> QED
  BY <1>1, <1>2, <1>3, <1>4, RaiseBackend DEF Wait, At

LEMMA VerifyBackend == ASSUME ActivationInv, BackendInv, Verify PROVE BackendInv'
<1>1. Calm
  <2>1. report' \in {"none", "passed", "error"} \cup Terminal
    BY DEF Verify, BackendInv, BackendTypes, Raise, End, Goto, Terminal
  <2> QED
    BY <2>1 DEF Verify, disk, EnvUnchanged, Calm, BackendInv, BackendTypes
<1>2. cmd.pc = "verify"
  BY DEF Verify, At
<1>3. CASE Goto("mark_verified")
  <2>1. cmd'.pc = "mark_verified" /\ cmd'.owned = cmd.owned
    BY <1>3 DEF Goto, ActivationInv, Types, Command
  <2>2. journal \in JournalAt("mark_verified") /\ FilesAt' /\ Owning'
    BY <1>1, <1>2, <2>1 DEF Calm, BackendInv, JournalAt, FilesAt, Owning
  <2> QED
    BY <1>1, <1>2, <1>3, <2>2, CalmGoto
       DEF BackendInv, FrozenInv, ApplyInv, Forward, Stopped, Launching
<1> QED
  BY <1>1, <1>2, <1>3, RaiseBackend DEF Verify

(* The evidence is written when the journal is settled, and the process of   *)
(* apply is named by it or gone.                                             *)
LEMMA EvidenceBackend ==
    ASSUME ActivationInv, BackendInv, Seal \/ WriteReceipt \/ WriteHandoff \/ WriteFailure
    PROVE  BackendInv'
<1>1. /\ cmd.pc \in {"seal", "receipt", "handoff", "failure"}
      /\ journal \in Terminal
  BY DEF Seal, WriteReceipt, WriteHandoff, WriteFailure, Write, At, ActivationInv,
         PlaceInv, Place, Terminal
<1>2. PICK file \in {"sidecar", "receipt", "handoff", "failure"} :
        evidence' = evidence \cup {file}
  BY DEF Seal, WriteReceipt, WriteHandoff, WriteFailure, Write
<1>3. Calm
  <2>1. report' \in {"none", "passed", "error"} \cup Terminal
    BY <1>1 DEF Seal, WriteReceipt, WriteHandoff, WriteFailure, BackendInv, BackendTypes,
                End, Goto
  <2>2. /\ files' = files /\ journal' = journal /\ recorded' = recorded
        /\ orphan' = orphan /\ temps' = temps /\ logs' = logs /\ proc' = proc
    BY DEF Seal, WriteReceipt, WriteHandoff, WriteFailure, Write, EnvUnchanged
  <2> QED
    BY <1>2, <2>1, <2>2 DEF Calm, BackendInv, BackendTypes
<1>4. ~orphan /\ proc["apply"] # Off => recorded
  BY <1>1 DEF BackendInv, ApplyInv, Launching
<1>5. CASE \E outcome : End(outcome)
  BY <1>3, <1>4, <1>5, CalmEnds
<1>6. CASE \E pc \in {"receipt", "handoff", "failure"} :
             Goto(pc) /\ (pc # "failure" => journal = "committed")
  <2>1. PICK pc \in {"receipt", "handoff", "failure"} :
          Goto(pc) /\ (pc # "failure" => journal = "committed")
    BY <1>6
  <2>2. cmd'.pc = pc /\ cmd'.owned = cmd.owned
    BY <2>1 DEF Goto, ActivationInv, Types, Command
  <2>3. journal \in JournalAt(pc) /\ FilesAt' /\ Owning'
    BY <1>1, <1>3, <2>2 DEF Calm, BackendInv, BackendTypes, JournalAt, FilesAt, Owning
  <2>4. proc["frozen"] # Off => pc \notin Forward
    BY <2>1 DEF BackendInv, FrozenInv, Forward
  <2> QED
    BY <1>3, <1>4, <2>1, <2>3, <2>4, CalmGoto DEF Stopped
<1>7. \/ \E outcome : End(outcome)
      \/ \E pc \in {"receipt", "handoff", "failure"} :
             Goto(pc) /\ (pc # "failure" => journal = "committed")
  BY DEF Seal, WriteReceipt, WriteHandoff, WriteFailure, Write, At, ActivationInv,
         PlaceInv, Place
<1> QED
  BY <1>5, <1>6, <1>7

(* The compensation. *)

(* Stopping processes only takes listeners away.                             *)
LEMMA FewerListeners ==
    ASSUME BackendTypes, NEW stopped \in SUBSET Processes,
           proc' = [k \in Processes |-> IF k \in stopped THEN Off ELSE proc[k]]
    PROVE  /\ proc' \in [Processes -> Backends]
           /\ \A k \in Processes : proc'[k] = IF k \in stopped THEN Off ELSE proc[k]
           /\ \A j, k \in Listeners' : j = k
<1>1. proc' \in [Processes -> Backends]
  BY DEF BackendTypes, Backends
<1>2. \A k \in Processes : proc'[k] = IF k \in stopped THEN Off ELSE proc[k]
  OBVIOUS
<1>3. Listeners' \subseteq Listeners
  BY <1>2 DEF Listeners, Off
<1> QED
  BY <1>1, <1>2, <1>3 DEF BackendTypes

(* The process apply started is stopped if the command knows it, and if it   *)
(* does not, there is none.                                                  *)
LEMMA StopNewBackend == ASSUME ActivationInv, BackendInv, StopNew PROVE BackendInv'
<1> DEFINE stopped == IF cmd.owned THEN {"apply"} ELSE {}
<1>1. /\ cmd.pc = "stop_new" /\ temps' = temps /\ evidence' = evidence
      /\ logs' = logs /\ files' = files /\ journal' = journal /\ recorded' = recorded
      /\ orphan' = orphan /\ report' = report
      /\ cmd'.pc = "check" /\ cmd'.owned = cmd.owned
      /\ proc' = [k \in Processes |-> IF k \in stopped THEN Off ELSE proc[k]]
  BY DEF StopNew, At, disk, EnvUnchanged, ActivationInv, Types, Command
<1>2. stopped \in SUBSET Processes
  BY DEF Processes
<1>3. /\ proc' \in [Processes -> Backends]
      /\ \A k \in Processes : proc'[k] = IF k \in stopped THEN Off ELSE proc[k]
      /\ \A j, k \in Listeners' : j = k
  <2> HIDE DEF stopped
  <2> QED
    BY <1>1, <1>2, FewerListeners DEF BackendInv
<1>4. /\ proc'["frozen"] = proc["frozen"] /\ proc'["rollback"] = proc["rollback"]
      /\ proc'["apply"] = IF cmd.owned THEN Off ELSE proc["apply"]
  BY <1>3 DEF Processes
<1>5. BackendTypes'
  BY <1>1, <1>3 DEF BackendInv, BackendTypes
<1>6. (journal \in JournalAt(cmd.pc))' /\ FilesAt' /\ Owning'
  BY <1>1 DEF BackendInv, JournalAt, FilesAt, Owning
<1>7. FrozenInv' /\ RollbackInv'
  BY <1>1, <1>4 DEF BackendInv, FrozenInv, RollbackInv, Has, Forward
<1>8. ApplyInv'
  <2>1. ~orphan => proc'["apply"] = Off
    BY <1>1, <1>4 DEF BackendInv, ApplyInv, Owning
  <2> QED
    BY <1>1, <2>1 DEF ApplyInv
<1> QED
  BY <1>5, <1>6, <1>7, <1>8 DEF BackendInv

LEMMA CheckTargetsBackend ==
    ASSUME ActivationInv, BackendInv, CheckTargets PROVE BackendInv'
<1>1. cmd.pc = "check" /\ Calm
  BY DEF CheckTargets, At, disk, EnvUnchanged, Calm, BackendInv, BackendTypes, Goto,
         Conflict
<1>2. ~orphan => proc["apply"] = Off
  BY <1>1 DEF BackendInv, ApplyInv, Stopped
<1>3. CASE Conflict
  <2>1. cmd'.pc = "mark_conflict" /\ cmd'.owned = cmd.owned
    BY <1>3 DEF Conflict, Goto, ActivationInv, Types, Command
  <2>2. (journal \in JournalAt(cmd.pc))' /\ FilesAt' /\ Owning'
    BY <1>1, <2>1 DEF Calm, BackendInv, BackendTypes, JournalAt, FilesAt, Owning
  <2> QED
    BY <1>1, <1>2, <2>1, <2>2, CalmBackend DEF Forward
<1>4. CASE cmd' = [cmd EXCEPT !.pc = "pointer_temp", !.todo = Switched]
  <2>1. cmd'.pc = "pointer_temp" /\ cmd'.owned = cmd.owned /\ cmd'.todo = Switched
    BY <1>4 DEF ActivationInv, Types, Command
  <2>2. (journal \in JournalAt(cmd.pc))' /\ FilesAt' /\ Owning'
    BY <1>1, <2>1 DEF Calm, BackendInv, JournalAt, FilesAt, Owning, Switched
  <2> QED
    BY <1>1, <1>2, <2>1, <2>2, CalmBackend DEF Forward
<1> QED
  BY <1>3, <1>4 DEF CheckTargets

LEMMA PrepareRestoreBackend ==
    ASSUME ActivationInv, BackendInv,
           \/ PrepareRestore("pointer", "pointer_temp", "pointer_back", "settings_temp")
           \/ PrepareRestore("settings", "settings_temp", "settings_back", "restart")
    PROVE  BackendInv'
<1>1. cmd.pc \in {"pointer_temp", "settings_temp"} /\ Calm
  BY DEF PrepareRestore, At, EnvUnchanged, Calm, BackendInv, BackendTypes, Goto,
         Conflict, Targets
<1>2. ~orphan => proc["apply"] = Off
  BY <1>1 DEF BackendInv, ApplyInv, Stopped
<1>3. PICK pc \in {"mark_conflict", "pointer_back", "settings_temp", "settings_back",
                   "restart"} :
        /\ cmd' = [cmd EXCEPT !.pc = pc]
        /\ pc = "pointer_back" => cmd.pc = "pointer_temp"
        /\ pc = "settings_temp" => cmd.pc = "pointer_temp" /\ "pointer" \notin cmd.todo
        /\ pc = "settings_back" => cmd.pc = "settings_temp"
        /\ pc = "restart" => cmd.pc = "settings_temp" /\ "settings" \notin cmd.todo
  BY DEF PrepareRestore, At, Goto, Conflict
<1>4. cmd'.pc = pc /\ cmd'.owned = cmd.owned /\ cmd'.todo = cmd.todo
  BY <1>3 DEF ActivationInv, Types, Command
<1>5. (journal \in JournalAt(cmd.pc))' /\ Owning'
  BY <1>1, <1>3, <1>4 DEF Calm, BackendInv, BackendTypes, JournalAt, Owning
<1>6. FilesAt'
  BY <1>1, <1>3, <1>4 DEF Calm, BackendInv, FilesAt, Switched, Has, Targets
<1> QED
  BY <1>1, <1>2, <1>4, <1>5, <1>6, CalmBackend DEF Forward

LEMMA RestoreBackend ==
    ASSUME ActivationInv, BackendInv,
           \/ Restore("pointer", "pointer_back", "settings_temp")
           \/ Restore("settings", "settings_back", "restart")
    PROVE  BackendInv'
<1>1. /\ cmd.pc \in {"pointer_back", "settings_back"}
      /\ temps' \subseteq Targets /\ evidence' = evidence /\ logs' = logs
      /\ proc' = proc /\ journal' = journal /\ recorded' = recorded
      /\ orphan' = orphan /\ report' = report
  BY DEF Restore, At, EnvUnchanged, Goto, Conflict, BackendInv, BackendTypes
<1>2. ~orphan => proc["apply"] = Off
  BY <1>1 DEF BackendInv, ApplyInv, Stopped
<1>3. CASE files' = files /\ Conflict
  <2>1. cmd'.pc = "mark_conflict" /\ cmd'.owned = cmd.owned
    BY <1>3 DEF Conflict, Goto, ActivationInv, Types, Command
  <2>2. Calm
    BY <1>1, <1>3 DEF Calm, BackendInv, BackendTypes
  <2>3. (journal \in JournalAt(cmd.pc))' /\ FilesAt' /\ Owning'
    BY <1>1, <1>3, <2>1 DEF BackendInv, BackendTypes, JournalAt, FilesAt, Owning
  <2> QED
    BY <1>1, <1>2, <2>1, <2>2, <2>3, CalmBackend DEF Forward
<1>4. CASE \E t \in Targets, next \in {"settings_temp", "restart"} :
             /\ files' = [files EXCEPT ![t] = "before"] /\ Goto(next)
             /\ \/ t = "pointer" /\ cmd.pc = "pointer_back" /\ next = "settings_temp"
                \/ t = "settings" /\ cmd.pc = "settings_back" /\ next = "restart"
  <2>1. PICK t \in Targets, next \in {"settings_temp", "restart"} :
             /\ files' = [files EXCEPT ![t] = "before"] /\ Goto(next)
             /\ \/ t = "pointer" /\ cmd.pc = "pointer_back" /\ next = "settings_temp"
                \/ t = "settings" /\ cmd.pc = "settings_back" /\ next = "restart"
    BY <1>4
  <2>2. cmd'.pc = next /\ cmd'.owned = cmd.owned /\ cmd'.todo = cmd.todo
    BY <2>1 DEF Goto, ActivationInv, Types, Command
  <2>3. files'[t] = "before" /\ \A u \in Targets : u # t => files'[u] = files[u]
    BY <2>1 DEF ActivationInv, Types
  <2>4. BackendTypes'
    BY <1>1 DEF BackendInv, BackendTypes, Listeners
  <2>5. (journal \in JournalAt(cmd.pc))' /\ Owning'
    BY <1>1, <2>2 DEF BackendInv, JournalAt, Owning
  <2>6. FilesAt'
    BY <1>1, <2>1, <2>2, <2>3 DEF BackendInv, FilesAt, Switched, Has, Targets
  <2>7. Has("candidate")' => Has("candidate")
    BY <2>3 DEF Has
  <2>8. FrozenInv' /\ RollbackInv'
    BY <1>1, <2>2, <2>7 DEF BackendInv, FrozenInv, RollbackInv, Forward
  <2>9. ApplyInv'
    BY <1>1, <1>2 DEF ApplyInv
  <2> QED
    BY <2>4, <2>5, <2>6, <2>8, <2>9 DEF BackendInv
<1> QED
  BY <1>3, <1>4 DEF Restore, At, Targets

(* The old backend is started only on files without the candidate, and after *)
(* the process of apply is gone.                                             *)
LEMMA RestartBackend == ASSUME ActivationInv, BackendInv, Restart PROVE BackendInv'
<1>1. /\ cmd.pc = "restart" /\ temps' = temps /\ evidence' = evidence
      /\ files' = files /\ journal' = journal /\ recorded' = recorded
      /\ orphan' = orphan
  BY DEF Restart, At, disk, EnvUnchanged
<1>2. ~orphan => proc["apply"] = Off
  BY <1>1 DEF BackendInv, ApplyInv, Stopped
<1>3. CASE proc' = proc /\ logs' = logs /\ Raise
  <2>1. report' \in {"none", "passed", "error"} \cup Terminal
    BY <1>3 DEF BackendInv, BackendTypes, Raise, End, Goto, Terminal
  <2> QED
    BY <1>1, <1>3, <2>1, RaiseBackend DEF Calm, BackendInv, BackendTypes
<1>4. CASE proc' = proc /\ logs' = logs /\ Goto("legacy")
  <2>1. cmd'.pc = "legacy" /\ cmd'.owned = cmd.owned /\ report' = report
    BY <1>4 DEF Goto, ActivationInv, Types, Command
  <2>2. Calm
    BY <1>1, <1>4, <2>1 DEF Calm, BackendInv, BackendTypes
  <2>3. (journal \in JournalAt(cmd.pc))' /\ FilesAt' /\ Owning'
    BY <1>1, <2>1 DEF BackendInv, JournalAt, FilesAt, Owning, Has
  <2> QED
    BY <1>1, <1>2, <2>1, <2>2, <2>3, CalmBackend DEF Forward
<1>5. CASE /\ Launch("rollback") /\ report' = report
           /\ cmd' = [cmd EXCEPT !.pc = "wait_back", !.current = {"rollback"}]
  <2>1. /\ cmd'.pc = "wait_back" /\ cmd'.owned = cmd.owned
        /\ logs' = logs \cup {"rollback"}
        /\ proc' = [proc EXCEPT !["rollback"] = Starting]
    BY <1>5 DEF Launch, ActivationInv, Types, Command
  <2>2. /\ proc' \in [Processes -> Backends]
        /\ proc'["frozen"] = proc["frozen"] /\ proc'["apply"] = proc["apply"]
        /\ proc'["rollback"] = Starting
    BY <2>1 DEF BackendInv, BackendTypes, Backends, Processes
  <2>3. Listeners' \subseteq Listeners
    BY <2>1, <2>2 DEF Listeners, BackendInv, BackendTypes, Starting
  <2>4. BackendTypes'
    BY <1>1, <1>5, <2>1, <2>2, <2>3 DEF BackendInv, BackendTypes, Processes
  <2>5. (journal \in JournalAt(cmd.pc))' /\ FilesAt' /\ Owning'
    BY <1>1, <2>1 DEF BackendInv, JournalAt, FilesAt, Owning, Has
  <2>6. FrozenInv'
    BY <1>1, <2>1, <2>2 DEF BackendInv, FrozenInv, Has, Forward
  <2>7. RollbackInv'
    BY <1>1, <2>2 DEF BackendInv, FilesAt, RollbackInv, Has, JournalAt
  <2>8. ApplyInv'
    BY <1>1, <1>2, <2>2 DEF ApplyInv
  <2> QED
    BY <2>4, <2>5, <2>6, <2>7, <2>8 DEF BackendInv
<1> QED
  BY <1>3, <1>4, <1>5 DEF Restart

LEMMA LegacyBackend == ASSUME ActivationInv, BackendInv, Legacy PROVE BackendInv'
<1>1. /\ cmd.pc = "legacy" /\ temps' = temps /\ evidence' = evidence /\ logs' = logs
      /\ files' = files /\ journal' = journal /\ recorded' = recorded
      /\ orphan' = orphan
  BY DEF Legacy, At, disk, EnvUnchanged
<1>2. ~orphan => proc["apply"] = Off
  BY <1>1 DEF BackendInv, ApplyInv, Stopped
<1>3. CASE Goto("mark_rolled_back") /\ proc' = proc
  <2>1. cmd'.pc = "mark_rolled_back" /\ cmd'.owned = cmd.owned /\ report' = report
    BY <1>3 DEF Goto, ActivationInv, Types, Command
  <2>2. Calm
    BY <1>1, <1>3, <2>1 DEF Calm, BackendInv, BackendTypes
  <2>3. (journal \in JournalAt(cmd.pc))' /\ FilesAt' /\ Owning'
    BY <1>1, <2>1 DEF BackendInv, JournalAt, FilesAt, Owning
  <2> QED
    BY <1>1, <1>2, <2>1, <2>2, <2>3, CalmBackend DEF Forward
<1>4. CASE /\ Raise
           /\ proc' = [k \in Processes |-> IF k \in cmd.current THEN Off ELSE proc[k]]
  <2>1. End("error")
    BY <1>1, <1>4 DEF Raise, InTry, At, Forward
  <2>2. cmd'.pc = "idle" /\ cmd'.owned = FALSE /\ report' = "error"
    BY <2>1 DEF End, Idle
  <2>3. cmd.current \in SUBSET Processes
    BY DEF ActivationInv, Types, Command
  <2>4. /\ proc' \in [Processes -> Backends]
        /\ \A k \in Processes : proc'[k] = IF k \in cmd.current THEN Off ELSE proc[k]
        /\ \A j, k \in Listeners' : j = k
    BY <1>4, <2>3, FewerListeners DEF BackendInv
  <2>5. BackendTypes'
    BY <1>1, <2>2, <2>4 DEF BackendInv, BackendTypes
  <2>6. (journal \in JournalAt(cmd.pc))' /\ FilesAt' /\ Owning'
    BY <1>1, <2>2 DEF BackendInv, BackendTypes, JournalAt, FilesAt, Owning
  <2>7. \A k \in Processes : proc'[k] \in {Off, proc[k]}
    BY <2>4
  <2>8. FrozenInv' /\ RollbackInv'
    BY <1>1, <2>2, <2>7 DEF BackendInv, FrozenInv, RollbackInv, Has, Forward, Processes
  <2>9. ApplyInv'
    BY <1>1, <1>2, <2>7 DEF ApplyInv, Processes
  <2> QED
    BY <2>5, <2>6, <2>8, <2>9 DEF BackendInv
<1>5. CASE Raise /\ proc' = proc
  <2>1. report' \in {"none", "passed", "error"} \cup Terminal
    BY <1>5 DEF BackendInv, BackendTypes, Raise, End, Goto, Terminal
  <2> QED
    BY <1>1, <1>5, <2>1, RaiseBackend DEF Calm, BackendInv, BackendTypes
<1> QED
  BY <1>3, <1>4, <1>5 DEF Legacy

(* Recovery, the processes and the environment.                              *)

LEMMA RecoverBackend == ASSUME ActivationInv, BackendInv, Recover PROVE BackendInv'
<1>1. PICK pc \in {"mark_conflict", "mark_compensating", "stop_new", "mark_failed"} :
        /\ cmd' = [Idle EXCEPT !.kind = "recover", !.owned = recorded, !.pc = pc]
        /\ pc = "stop_new" => journal = "compensating"
  BY DEF Recover, RecoverFrom, ResumeAt
<1>2. cmd'.pc = pc /\ cmd'.owned = recorded /\ cmd.pc = "idle"
  BY <1>1 DEF Recover, Idle
<1>3. Calm /\ journal' = journal /\ recorded' = recorded
  BY DEF Recover, disk, EnvUnchanged, Calm, BackendInv, BackendTypes
<1>4. (journal \in JournalAt(cmd.pc))' /\ FilesAt' /\ Owning'
  BY <1>1, <1>2, <1>3 DEF BackendInv, BackendTypes, JournalAt, FilesAt, Owning
<1>5. ~orphan /\ proc["apply"] # Off => recorded
  BY <1>2 DEF BackendInv, ApplyInv, Launching
<1> QED
  BY <1>2, <1>3, <1>4, <1>5, CalmBackend DEF Forward, Stopped

LEMMA RecoverSettledBackend ==
    ASSUME ActivationInv, BackendInv, RecoverSettled PROVE BackendInv'
<1>1. Calm
  <2>1. report' \in {"none", "passed", "error"} \cup Terminal
    BY DEF RecoverSettled, Terminal
  <2> QED
    BY <2>1 DEF RecoverSettled, disk, EnvUnchanged, Calm, BackendInv, BackendTypes
<1>2. cmd' = cmd /\ cmd.pc = "idle"
  BY DEF RecoverSettled, Idle
<1>3. (journal \in JournalAt(cmd.pc))' /\ FilesAt' /\ Owning'
  BY <1>1, <1>2 DEF Calm, BackendInv, JournalAt, FilesAt, Owning
<1> QED
  BY <1>1, <1>2, <1>3, CalmBackend DEF BackendInv, ApplyInv, Forward, Stopped, Launching

(* A process that comes up has read the files as they are.                   *)
LEMMA BootBackend ==
    ASSUME ActivationInv, BackendInv, NEW k \in Processes, Boot(k) PROVE BackendInv'
<1>1. /\ cmd' = cmd /\ temps' = temps /\ evidence' = evidence /\ logs' = logs
      /\ files' = files /\ journal' = journal /\ recorded' = recorded
      /\ orphan' = orphan /\ report' = report
  BY DEF Boot, Quietly, disk
<1>2. PICK b \in Backends :
        /\ proc' = [proc EXCEPT ![k] = b]
        /\ b.status = "listening" => Listeners = {}
        /\ proc[k] # Off
        /\ b \in {Off, Up("loaded", files)} \/ (proc[k] # Starting /\ b.read = proc[k].read)
  <2>1. CASE proc[k] = Starting /\ proc' = [proc EXCEPT ![k] = Up("loaded", files)]
    <3>1. Up("loaded", files) \in Backends
      BY DEF Backends, ActivationInv, Types
    <3>2. Up("loaded", files).status # "listening" /\ proc[k] # Off
      BY <2>1 DEF Up, Starting, Off
    <3> QED
      BY <2>1, <3>1, <3>2
  <2>2. CASE /\ proc[k].status = "loaded" /\ Listeners = {}
             /\ proc' = [proc EXCEPT ![k] = Up("listening", @.read)]
    <3>1. PICK f \in [Targets -> Contents] : proc[k] = Up("loaded", f)
      BY <2>2 DEF BackendInv, BackendTypes, Backends, Up, Starting, Off
    <3>2. proc' = [proc EXCEPT ![k] = Up("listening", f)]
      BY <2>2, <3>1 DEF Up
    <3>3. /\ Up("listening", f) \in Backends /\ proc[k] # Starting /\ proc[k] # Off
          /\ Up("listening", f).read = proc[k].read
      BY <3>1 DEF Backends, Up, Starting, Off
    <3> QED
      BY <2>2, <3>2, <3>3
  <2>3. CASE proc[k].status = "loaded" /\ proc' = [proc EXCEPT ![k] = Off]
    <3>1. Off \in Backends
      BY DEF Backends
    <3>2. Off.status # "listening" /\ proc[k] # Off
      BY <2>3 DEF Off
    <3> QED
      BY <2>3, <3>1, <3>2
  <2> QED
    BY <2>1, <2>2, <2>3 DEF Boot
<1>3. /\ proc' \in [Processes -> Backends] /\ proc'[k] = b
      /\ \A j \in Processes : j # k => proc'[j] = proc[j]
  BY <1>2 DEF BackendInv, BackendTypes
<1>4. \A i, j \in Listeners' : i = j
  <2>1. \A j \in Listeners' : j # k => j \in Listeners
    BY <1>3 DEF Listeners
  <2>2. k \in Listeners' => Listeners = {}
    BY <1>2, <1>3 DEF Listeners
  <2> QED
    BY <2>1, <2>2 DEF BackendInv, BackendTypes
<1>5. BackendTypes' /\ (journal \in JournalAt(cmd.pc))' /\ FilesAt' /\ Owning'
  <2>1. BackendTypes'
    BY <1>1, <1>3, <1>4 DEF BackendInv, BackendTypes
  <2>2. (journal \in JournalAt(cmd.pc))' /\ FilesAt' /\ Owning'
    BY <1>1 DEF BackendInv, JournalAt, FilesAt, Switched, Has, Owning
  <2> QED
    BY <2>1, <2>2
<1>6. FrozenInv'
  <2>1. k = "frozen" => proc'["frozen"] \in {Off, proc["frozen"]}
    BY <1>2, <1>3 DEF Boot, BackendInv, FrozenInv, Up, Starting
  <2>2. proc'["frozen"] \in {Off, proc["frozen"]}
    BY <1>3, <2>1 DEF Processes
  <2> QED
    BY <1>1, <2>2 DEF BackendInv, FrozenInv, Has
<1>7. ApplyInv'
  <2>1. CASE k = "apply"
    BY <1>1, <1>2, <1>3, <2>1 DEF BackendInv, ApplyInv, Has, Up
  <2>2. CASE k # "apply"
    <3>1. proc'["apply"] = proc["apply"]
      BY <1>3, <2>2 DEF Processes
    <3> QED
      BY <1>1, <3>1 DEF BackendInv, ApplyInv, Has
  <2> QED
    BY <2>1, <2>2
<1>8. RollbackInv'
  <2>1. CASE k = "rollback"
    BY <1>1, <1>2, <1>3, <2>1 DEF BackendInv, RollbackInv, Has, Up
  <2>2. CASE k # "rollback"
    <3>1. proc'["rollback"] = proc["rollback"]
      BY <1>3, <2>2 DEF Processes
    <3> QED
      BY <1>1, <3>1 DEF BackendInv, RollbackInv, Has
  <2> QED
    BY <2>1, <2>2
<1> QED
  BY <1>5, <1>6, <1>7, <1>8 DEF BackendInv

LEMMA BackendExitsBackend ==
    ASSUME ActivationInv, BackendInv, NEW k \in Processes, BackendExits(k)
    PROVE  BackendInv'
<1>1. /\ cmd' = cmd /\ temps' = temps /\ evidence' = evidence /\ logs' = logs
      /\ files' = files /\ journal' = journal /\ recorded' = recorded
      /\ orphan' = orphan /\ report' = report
      /\ proc' = [proc EXCEPT ![k] = Off]
  BY DEF BackendExits, Quietly, disk
<1>2. /\ proc' \in [Processes -> Backends]
      /\ \A j \in Processes : proc'[j] \in {Off, proc[j]}
  BY <1>1 DEF BackendInv, BackendTypes, Backends
<1>3. Listeners' \subseteq Listeners
  BY <1>2 DEF Listeners, Off
<1>4. BackendTypes' /\ (journal \in JournalAt(cmd.pc))' /\ FilesAt' /\ Owning'
  <2>1. BackendTypes'
    BY <1>1, <1>2, <1>3 DEF BackendInv, BackendTypes
  <2>2. (journal \in JournalAt(cmd.pc))' /\ FilesAt' /\ Owning'
    BY <1>1 DEF BackendInv, JournalAt, FilesAt, Switched, Has, Owning
  <2> QED
    BY <2>1, <2>2
<1>5. FrozenInv' /\ RollbackInv'
  BY <1>1, <1>2 DEF BackendInv, FrozenInv, RollbackInv, Has, Processes
<1>6. ApplyInv'
  BY <1>1, <1>2 DEF BackendInv, ApplyInv, Has, Processes
<1> QED
  BY <1>4, <1>5, <1>6 DEF BackendInv

LEMMA EditBackend ==
    ASSUME ActivationInv, BackendInv, NEW t \in Targets, Edit(t) PROVE BackendInv'
<1>1. /\ cmd' = cmd /\ temps' = temps /\ evidence' = evidence /\ logs' = logs
      /\ proc' = proc /\ journal' = journal /\ recorded' = recorded
      /\ orphan' = orphan /\ report' = report
  BY DEF Edit
<1>2. \A u \in Targets : files'[u] \in {files[u], "unknown"}
  BY DEF Edit, ActivationInv, Types
<1>3. \A content \in {"before", "candidate"} : Has(content)' => Has(content)
  BY <1>2 DEF Has
<1>4. BackendTypes' /\ (journal \in JournalAt(cmd.pc))' /\ Owning'
  BY <1>1 DEF BackendInv, BackendTypes, JournalAt, Owning, Listeners
<1>5. FilesAt'
  BY <1>1, <1>2, <1>3 DEF BackendInv, FilesAt, Switched, Targets
<1>6. FrozenInv' /\ RollbackInv'
  BY <1>1, <1>3 DEF BackendInv, FrozenInv, RollbackInv
<1>7. ApplyInv'
  BY <1>1, <1>3 DEF BackendInv, ApplyInv
<1> QED
  BY <1>4, <1>5, <1>6, <1>7 DEF BackendInv

(* A command that ends here leaves an orphan or no process of apply that the *)
(* journal does not name.                                                    *)
LEMMA OrphanedKnown ==
    ASSUME ApplyInv, Orphaned, cmd' = Idle
    PROVE  ~orphan /\ ~orphan' /\ proc["apply"] # Off => recorded
BY DEF Orphaned

LEMMA KilledBackend == ASSUME ActivationInv, BackendInv, Killed PROVE BackendInv'
<1>1. End("none") /\ Orphaned /\ cmd' = Idle /\ report' = "none"
  BY DEF Killed, End
<1>2. /\ proc' = proc /\ files' = files /\ journal' = journal /\ recorded' = recorded
      /\ temps' = temps /\ evidence' = evidence /\ logs' = logs
  BY DEF Killed, disk
<1>3. orphan => orphan'
  BY <1>1 DEF Orphaned
<1>4. Calm
  BY <1>1, <1>2, <1>3 DEF Calm, BackendInv, BackendTypes
<1> QED
  BY <1>1, <1>4, OrphanedKnown, CalmEnds DEF BackendInv

LEMMA CallFailsBackend == ASSUME ActivationInv, BackendInv, CallFails PROVE BackendInv'
<1>1. /\ proc' = proc /\ files' = files /\ journal' = journal /\ recorded' = recorded
      /\ evidence' = evidence /\ temps' \subseteq temps /\ Raise /\ Orphaned
  BY DEF CallFails
<1>2. logs' \subseteq Processes
  BY DEF CallFails, Launched, BackendInv, BackendTypes
<1>3. report' \in {"none", "passed", "error"} \cup Terminal
  BY <1>1 DEF BackendInv, BackendTypes, Raise, End, Goto, Terminal
<1>4. orphan => orphan'
  BY <1>1 DEF Orphaned
<1>5. Calm
  BY <1>1, <1>2, <1>3, <1>4 DEF Calm, BackendInv, BackendTypes
<1>6. CASE \E outcome : End(outcome)
  <2>1. cmd' = Idle
    BY <1>6 DEF End
  <2> QED
    BY <1>1, <1>5, <1>6, <2>1, OrphanedKnown, CalmEnds DEF BackendInv
<1>7. CASE InTry /\ journal # "committed" /\ Goto("mark_failed")
  <2>1. cmd.pc \in Forward /\ cmd.pc # "idle"
    BY <1>7 DEF InTry, Forward
  <2>2. cmd'.pc = "mark_failed" /\ cmd'.owned = cmd.owned
    BY <1>7 DEF Goto, ActivationInv, Types, Command
  <2>3. journal \in JournalAt("mark_failed") /\ FilesAt' /\ Owning'
    BY <1>5, <2>1, <2>2 DEF Calm, BackendInv, BackendTypes, JournalAt, FilesAt, Owning
  <2>4. ~orphan /\ proc["apply"] # Off => recorded \/ cmd.owned
    BY DEF BackendInv, ApplyInv
  <2> QED
    BY <1>5, <1>7, <2>3, <2>4, CalmGoto DEF Forward, Stopped, Launching
<1> QED
  BY <1>1, <1>6, <1>7 DEF Raise

LEMMA NextBackend ==
    ASSUME ActivationInv, BackendInv, [Next]_vars PROVE BackendInv'
<1>1. CASE UNCHANGED vars
  BY <1>1 DEF vars, disk, BackendInv, BackendTypes, Listeners, JournalAt, FilesAt,
              Switched, Owning, FrozenInv, ApplyInv, RollbackInv, Has
<1>2. CASE BeginApply \/ Recover \/ RecoverSettled
  BY <1>2, BeginApplyBackend, RecoverBackend, RecoverSettledBackend
<1>3. CASE Activate
  BY <1>3, StopBackendBackend, ReplaceBackend, StartCandidateBackend, WaitBackend,
     VerifyBackend, AppendBackend, EvidenceBackend DEF Activate
<1>4. CASE Compensate
  BY <1>4, StopNewBackend, CheckTargetsBackend, PrepareRestoreBackend, RestoreBackend,
     RestartBackend, WaitBackend, LegacyBackend DEF Compensate
<1>5. CASE \E k \in Processes : Boot(k) \/ BackendExits(k)
  BY <1>5, BootBackend, BackendExitsBackend
<1>6. CASE \E t \in Targets : Edit(t)
  BY <1>6, EditBackend
<1>7. CASE Killed \/ CallFails
  BY <1>7, KilledBackend, CallFailsBackend
<1> QED
  BY <1>1, <1>2, <1>3, <1>4, <1>5, <1>6, <1>7 DEF Next, Run

(* The inductive invariant of the backend processes: what the place of the   *)
(* command and the files say of the processes that exist (start_backend,     *)
(* stop_backend and their callers in activation.py).                         *)
THEOREM BackendInvariant == Spec => []BackendInv
<1>1. Init => BackendInv
  BY InitBackend
<1>2. ActivationInv /\ BackendInv /\ [Next]_vars => BackendInv'
  BY NextBackend
<1> QED
  BY <1>1, <1>2, ActivationInvariant, PTL DEF Spec

-----------------------------------------------------------------------------
(* What follows for those who use the service. *)

(* Whatever listens has read the files of one generation: the frozen backend *)
(* those of before, that of apply none of before and that of a rollback none *)
(* of the candidate.                                                         *)
LEMMA ListenersRead == ASSUME ActivationInv, BackendInv PROVE SwitchOffline
<1> SUFFICES ASSUME ~orphan, NEW k \in Listeners, NEW f \in {files, proc[k].read}
             PROVE  {"before", "candidate"} # {f[t] : t \in Targets}
  BY DEF SwitchOffline
<1>1. /\ k \in Processes /\ proc[k] # Off /\ proc[k] # Starting
  BY DEF Listeners, Off, Starting
<1>2. CASE k = "frozen"
  <2>1. proc[k].read = AllBefore
    BY <1>1, <1>2 DEF BackendInv, FrozenInv, Up
  <2>2. ~Has("candidate")
    BY <1>1, <1>2 DEF BackendInv, FrozenInv
  <2>3. \A t \in Targets : f[t] # "candidate"
    BY <2>1, <2>2 DEF Has, AllBefore
  <2> QED
    BY <2>3
<1>3. CASE k = "apply"
  <2>1. \A t \in Targets : f[t] # "before"
    BY <1>1, <1>3 DEF BackendInv, ApplyInv, Has
  <2> QED
    BY <2>1
<1>4. CASE k = "rollback"
  <2>1. \A t \in Targets : f[t] # "candidate"
    BY <1>1, <1>4 DEF BackendInv, RollbackInv, Has
  <2> QED
    BY <2>1
<1> QED
  BY <1>1, <1>2, <1>3, <1>4 DEF Processes

LEMMA ShapesKnown == ASSUME ActivationInv, BackendInv PROVE TypeOK
<1>1. Cardinality(Listeners) <= 1
  <2>1. CASE Listeners = {}
    BY <2>1, FS_EmptySet
  <2>2. ASSUME NEW k \in Listeners, Listeners = {k} PROVE Cardinality(Listeners) <= 1
    <3>1. Cardinality({k}) = 1
      BY FS_Singleton
    <3> QED
      BY <2>2, <3>1
  <2>3. \A k \in Listeners : Listeners = {k}
    BY DEF BackendInv, BackendTypes
  <2> QED
    BY <2>1, <2>2, <2>3, Zenon
<1>2. \A k \in Processes :
          \/ proc[k] \in {Off, Starting}
          \/ \E s \in {"loaded", "listening"}, f \in [Targets -> Contents] :
                proc[k] = Up(s, f)
  BY DEF BackendInv, BackendTypes, Backends
<1>3. cmd.pc \in Forward \cup Backward \cup {"idle"}
  BY DEF ActivationInv, Types, Command
<1> QED
  BY <1>1, <1>2, <1>3 DEF TypeOK, BackendInv, BackendTypes, ActivationInv, Types

(* No backend listens while the two files belong to different generations,   *)
(* none that listens ever read such a pair, and once an activation is rolled *)
(* back the process that start_backend made is gone: for any number of       *)
(* kills, errors, deaths and edits, unless a command ended between the start *)
(* of that process and the entry of the journal that names it.               *)
THEOREM BackendSafety == Spec => []BackendsKnown
<1>1. ActivationInv /\ BackendInv => TypeOK /\ SwitchOffline
  BY ListenersRead, ShapesKnown
<1>2. ActivationInv /\ BackendInv => NoStrayBackend
  BY DEF BackendInv, ApplyInv, NoStrayBackend
<1>3. ActivationInv /\ BackendInv => BackendsKnown
  BY <1>1, <1>2 DEF BackendsKnown
<1> QED
  BY <1>3, ActivationInvariant, BackendInvariant, PTL

-----------------------------------------------------------------------------
(* The runners of a worker: for any number of runners, starts, stops, kills *)
(* and errors, one works at a time as long as no lock of a running one was  *)
(* removed unseen.                                                          *)
(*                                                                          *)
(* OneRunner is not inductive: that two runners do not meet inside          *)
(* run_worker follows from the lock file naming the one that is inside      *)
(* (LockIsOwn), which a removal keeps because the lock it has seen belongs  *)
(* to a process that is gone and whose identity is not given to another     *)
(* (SeenIsGone).                                                            *)

Locks == [by : Runners \cup {"nobody"}, written : BOOLEAN]

Places == Inside \cup {"gone", "launched", "again", "stale", "late", "opened"}

RunnerRecs == [at : Places, holds : Statuses, saw : Locks]

(* A lock without a creator has no owner either. *)
LockHasCreator == lock.by = "nobody" => lock = NoLock

(* Unless a lock was lost, a runner that created the file or works names it. *)
LockIsOwn ==
    ~raced => \A r \in Runners :
        /\ RunnerAt(r, "opened") => lock = [by |-> r, written |-> FALSE]
        /\ runner[r].at \in Inside => lock = [by |-> r, written |-> TRUE]

(* Who is about to remove a lock it found stale has seen one of a process    *)
(* that is gone, and stays gone, or one without an owner.                    *)
SeenIsGone ==
    \A r \in Runners :
        runner[r].at \in {"stale", "late"} /\ runner[r].saw.written
            => runner[r].saw.by \in Runners /\ ~RunnerAlive(runner[r].saw.by)

SupervisorInv ==
    SupervisorTypeOK /\ LockHasCreator /\ LockIsOwn /\ SeenIsGone

-----------------------------------------------------------------------------

LEMMA InvImpliesOneRunner == SupervisorInv => OneRunner
  BY DEF SupervisorInv, OneRunner, LockIsOwn

LEMMA Records ==
    /\ NoLock \in Locks /\ NoLock.by = "nobody" /\ ~NoLock.written
    /\ NotRunning \in RunnerRecs /\ NotRunning.at = "gone" /\ NotRunning.saw = NoLock
    /\ "gone" \notin Inside \cup {"opened", "stale", "late"}
    /\ {"opened", "stale", "late", "launched", "again"} \cap Inside = {}
    /\ \A r \in Runners : r # "nobody"
  BY SupervisorAssumption DEF NoLock, Locks, NotRunning, RunnerRecs, Places, Statuses,
     Inside, Trying, Reading

LEMMA MovedOn ==
    ASSUME NEW rec \in RunnerRecs, NEW p \in Places
    PROVE  /\ [rec EXCEPT !.at = p] \in RunnerRecs
           /\ [rec EXCEPT !.at = p].at = p /\ [rec EXCEPT !.at = p].saw = rec.saw
           /\ [NotRunning EXCEPT !.at = p] \in RunnerRecs
           /\ [NotRunning EXCEPT !.at = p].at = p
  BY Records DEF RunnerRecs, NotRunning

(* The values that are no runner's. *)
OthersOK ==
    /\ status \in Statuses /\ session \in Runners \cup {"nobody"}
    /\ codex \subseteq Runners
    /\ cli \in [cmd : {"none", "stop", "accept"},
                at : {"none", "codex", "runner", "write"},
                target : Runners \cup {"nobody"}]
    /\ raced \in BOOLEAN /\ stops \in 0..MaxStops

LEMMA Typed ==
    SupervisorTypeOK <=> OthersOK /\ lock \in Locks /\ runner \in [Runners -> RunnerRecs]
  BY DEF SupervisorTypeOK, OthersOK, RunnerRecs, Places, Locks

LEMMA InitEstablishesInv == SupervisorInit => SupervisorInv
<1> SUFFICES ASSUME SupervisorInit PROVE SupervisorInv
  OBVIOUS
<1>1. SupervisorTypeOK
  <2>1. OthersOK
    <3>1. status \in Statuses /\ session \in Runners \cup {"nobody"} /\ codex \subseteq Runners
      BY DEF SupervisorInit, Statuses
    <3>2. cli \in [cmd : {"none", "stop", "accept"},
                  at : {"none", "codex", "runner", "write"},
                  target : Runners \cup {"nobody"}]
      BY DEF SupervisorInit, NoCommand
    <3>3. raced \in BOOLEAN
      BY DEF SupervisorInit
    <3>4. stops \in 0..MaxStops
      BY SupervisorAssumption DEF SupervisorInit
    <3> QED
      BY <3>1, <3>2, <3>3, <3>4 DEF OthersOK
  <2>2. lock \in Locks /\ runner \in [Runners -> RunnerRecs]
    BY Records DEF SupervisorInit
  <2> QED
    BY <2>1, <2>2, Typed
<1>2. LockHasCreator /\ LockIsOwn /\ SeenIsGone
  BY Records DEF SupervisorInit, LockHasCreator, LockIsOwn, SeenIsGone, RunnerAt
<1> QED
  BY <1>1, <1>2 DEF SupervisorInv

(* A runner that leaves the lock alone keeps the invariant if it comes       *)
(* neither to life nor to work by its step, and judges only what is gone.    *)
LEMMA RunnerSteps ==
    ASSUME SupervisorInv, OthersOK', UNCHANGED <<lock, raced>>,
           NEW r \in Runners, NEW rec \in RunnerRecs,
           runner' = [runner EXCEPT ![r] = rec],
           rec.at = "opened" => RunnerAt(r, "opened"),
           rec.at \in Inside => runner[r].at \in Inside,
           RunnerAlive(r) \/ rec.at = "gone",
           rec.at \in {"stale", "late"} /\ rec.saw.written
               => rec.saw.by \in Runners /\ ~RunnerAlive(rec.saw.by)
    PROVE  SupervisorInv'
<1>1. lock \in Locks /\ runner \in [Runners -> RunnerRecs]
  BY Typed DEF SupervisorInv
<1>2. SupervisorTypeOK'
  BY <1>1 DEF SupervisorTypeOK, OthersOK, RunnerRecs, Places, Locks
<1>3. LockHasCreator' /\ LockIsOwn'
  BY <1>1 DEF SupervisorInv, LockHasCreator, LockIsOwn, RunnerAt
<1>4. \A q \in Runners : ~RunnerAlive(q) => ~RunnerAlive(q)'
  BY <1>1 DEF RunnerAlive
<1>5. SeenIsGone'
  BY <1>1, <1>4 DEF SupervisorInv, SeenIsGone
<1> QED
  BY <1>2, <1>3, <1>5 DEF SupervisorInv

-----------------------------------------------------------------------------

(* Every field a step leaves alone. *)
LEMMA OthersUnchanged ==
    ASSUME SupervisorTypeOK, UNCHANGED <<status, session, codex, cli, raced, stops>>
    PROVE  OthersOK'
  BY DEF SupervisorTypeOK, OthersOK

LEMMA StatusValues ==
    /\ {"planning", "running", "failed", "blocked", "completed_pending_review",
        "accepted"} \subseteq Statuses
    /\ {"planning", "running", "failed", "blocked", "completed_pending_review",
        "accepted"} = Statuses
    /\ Inside \subseteq Places
    /\ Inside = {"locked", "claimed", "spawned", "captured", "ended", "reading", "told",
                 "failing", "leaving"}
    /\ Trying \subseteq Inside
  BY DEF Statuses, Resumable, Places, Inside, Trying, Reading

LEMMA LaunchKeepsInv == ASSUME SupervisorInv, NEW r \in Runners, LaunchRunner(r) PROVE SupervisorInv'
<1>1. lock \in Locks /\ runner \in [Runners -> RunnerRecs] /\ OthersOK
  BY Typed DEF SupervisorInv
<1> DEFINE rec == [NotRunning EXCEPT !.at = "launched"]
<1>2. rec \in RunnerRecs /\ rec.at = "launched"
  BY MovedOn, Records DEF Places
<1>3. runner' = [runner EXCEPT ![r] = rec]
  BY DEF LaunchRunner
<1> HIDE DEF rec
<1>4. SupervisorTypeOK'
  <2>1. OthersOK' /\ lock' \in Locks
    BY <1>1 DEF LaunchRunner, OthersOK
  <2>2. runner' \in [Runners -> RunnerRecs]
    BY <1>1, <1>2, <1>3
  <2> QED
    BY <2>1, <2>2 DEF SupervisorTypeOK, OthersOK, RunnerRecs, Places, Locks
<1>5. LockHasCreator' /\ LockIsOwn'
  BY <1>1, <1>2, <1>3, Records
     DEF LaunchRunner, SupervisorInv, LockHasCreator, LockIsOwn, RunnerAt
<1>6. SeenIsGone'
  <2> SUFFICES ASSUME NEW q \in Runners,
                      runner'[q].at \in {"stale", "late"} /\ runner'[q].saw.written
               PROVE  /\ runner'[q].saw.by \in Runners
                      /\ runner'[runner'[q].saw.by].at = "gone"
    BY DEF SeenIsGone, RunnerAlive
  <2>1. q # r /\ runner'[q] = runner[q]
    BY <1>1, <1>2, <1>3
  <2>2. runner[q].saw.by \in Runners /\ ~RunnerAlive(runner[q].saw.by)
    BY <2>1 DEF SupervisorInv, SeenIsGone
  <2>3. runner[q].saw.by # r
    BY DEF LaunchRunner, UnusedIdentity
  <2> QED
    BY <1>1, <1>3, <2>1, <2>2, <2>3 DEF RunnerAlive
<1> QED
  BY <1>4, <1>5, <1>6 DEF SupervisorInv

(* The creator of a lock file that was not there is the only one to work.    *)
LEMMA CreateKeepsInv == ASSUME SupervisorInv, NEW r \in Runners, CreateLock(r) PROVE SupervisorInv'
<1>1. lock \in Locks /\ runner \in [Runners -> RunnerRecs] /\ OthersOK
  BY Typed DEF SupervisorInv
<1> DEFINE rec == [runner[r] EXCEPT !.at = "opened"]
<1>2. rec \in RunnerRecs /\ rec.at = "opened"
  BY <1>1, MovedOn DEF Places
<1>3. runner' = [runner EXCEPT ![r] = rec] /\ RunnerAlive(r)
  BY <1>1 DEF CreateLock, RunnerGoes, RunnerAt, RunnerAlive
<1> HIDE DEF rec
<1>4. SupervisorTypeOK'
  <2>1. OthersOK' /\ lock' \in Locks
    BY <1>1 DEF CreateLock, OthersOK, Locks
  <2>2. runner' \in [Runners -> RunnerRecs]
    BY <1>1, <1>2, <1>3
  <2> QED
    BY <2>1, <2>2 DEF SupervisorTypeOK, OthersOK, RunnerRecs, Places, Locks
<1>5. LockHasCreator'
  BY Records DEF CreateLock, LockHasCreator
<1>6. LockIsOwn'
  <2> SUFFICES ASSUME ~raced, NEW q \in Runners
               PROVE  /\ runner'[q].at = "opened" => lock' = [by |-> q, written |-> FALSE]
                      /\ runner'[q].at \in Inside => lock' = [by |-> q, written |-> TRUE]
    BY DEF CreateLock, LockIsOwn, RunnerAt
  <2>1. CASE q = r
    BY <1>1, <1>2, <1>3, <2>1, Records DEF CreateLock
  <2>2. CASE q # r
    BY <1>1, <1>3, <2>2, Records DEF CreateLock, SupervisorInv, LockIsOwn, RunnerAt
  <2> QED
    BY <2>1, <2>2
<1>7. SeenIsGone'
  <2>1. \A q \in Runners : ~RunnerAlive(q) => ~RunnerAlive(q)'
    BY <1>1, <1>3 DEF RunnerAlive
  <2> QED
    BY <1>1, <1>2, <1>3, <2>1 DEF SupervisorInv, SeenIsGone
<1> QED
  BY <1>4, <1>5, <1>6, <1>7 DEF SupervisorInv

LEMMA JudgeKeepsInv == ASSUME SupervisorInv, NEW r \in Runners, JudgeLock(r) PROVE SupervisorInv'
<1>1. lock \in Locks /\ runner \in [Runners -> RunnerRecs] /\ runner[r] \in RunnerRecs /\ OthersOK
  BY Typed DEF SupervisorInv
<1>2. OthersOK' /\ UNCHANGED <<lock, raced>> /\ RunnerAlive(r)
  BY <1>1 DEF JudgeLock, OthersOK, RunnerAt, RunnerAlive
<1>3. CASE LockIsActive
  <2> DEFINE rec == [runner[r] EXCEPT !.at = "gone"]
  <2>1. rec \in RunnerRecs /\ rec.at = "gone"
    BY <1>1, MovedOn DEF Places
  <2>2. runner' = [runner EXCEPT ![r] = rec]
    BY <1>3 DEF JudgeLock, RunnerGoes
  <2> HIDE DEF rec
  <2> QED
    BY <1>2, <2>1, <2>2, Records, RunnerSteps
<1>4. CASE ~LockIsActive
  <2> DEFINE place == IF runner[r].at = "launched" THEN "stale" ELSE "late"
             rec == [runner[r] EXCEPT !.at = place, !.saw = lock]
  <2>0. place \in {"stale", "late"} /\ place \in Places
    BY DEF Places
  <2>1. rec \in RunnerRecs /\ rec.at \in {"stale", "late"} /\ rec.saw = lock
    <3> HIDE DEF place
    <3> QED
      BY <1>1, <2>0 DEF RunnerRecs
  <2>2. runner' = [runner EXCEPT ![r] = rec]
    BY <1>1, <1>4 DEF JudgeLock
  <2> HIDE DEF rec
  <2>3. lock.written => lock.by \in Runners /\ ~RunnerAlive(lock.by)
    BY <1>1, <1>4, Records DEF LockIsActive, SupervisorInv, LockHasCreator, Locks
  <2>4. rec.at # "opened" /\ rec.at \notin Inside
    BY <2>1, Records
  <2> QED
    BY <1>2, <2>1, <2>2, <2>3, <2>4, RunnerSteps
<1> QED
  BY <1>3, <1>4

(* A lock that is removed was nobody's who works, or the step is recorded in *)
(* raced: an owner that was seen is gone for good.                           *)
LEMMA RemoveKeepsInv == ASSUME SupervisorInv, NEW r \in Runners, RemoveLock(r) PROVE SupervisorInv'
<1>1. lock \in Locks /\ runner \in [Runners -> RunnerRecs] /\ runner[r] \in RunnerRecs /\ OthersOK
  BY Typed DEF SupervisorInv
<1>2. RunnerAlive(r) /\ runner[r].at \in {"stale", "late"} /\ raced \in BOOLEAN
  BY <1>1 DEF RemoveLock, RunnerAt, RunnerAlive, OthersOK
<1>3. CASE runner' = [runner EXCEPT ![r] = NotRunning] /\ UNCHANGED <<lock, raced>>
  <2>1. OthersOK'
    BY <1>1, <1>3 DEF RemoveLock, OthersOK
  <2> QED
    BY <1>2, <1>3, <2>1, Records, RunnerSteps
<1>4. CASE /\ lock' = NoLock
           /\ raced' = (raced \/ /\ lock # NoLock /\ RunnerAlive(lock.by)
                                 /\ lock # runner[r].saw \/ ~runner[r].saw.written)
           /\ runner' = [runner EXCEPT
                            ![r].at = IF @ = "stale" THEN "again" ELSE "gone",
                            ![r].saw = NoLock]
  <2> DEFINE place == IF runner[r].at = "stale" THEN "again" ELSE "gone"
             rec == [runner[r] EXCEPT !.at = place, !.saw = NoLock]
  <2>0. place \in {"again", "gone"} /\ place \in Places
    BY DEF Places
  <2>1. rec \in RunnerRecs /\ rec.at \in {"again", "gone"}
    <3> HIDE DEF place
    <3> QED
      BY <1>1, <2>0, Records DEF RunnerRecs
  <2>2. runner' = [runner EXCEPT ![r] = rec]
    BY <1>1, <1>4
  <2> HIDE DEF rec
  <2>3. OthersOK'
    BY <1>1, <1>4 DEF RemoveLock, OthersOK
  <2>4. SupervisorTypeOK'
    <3>1. lock' \in Locks
      BY <1>4, Records
    <3>2. runner' \in [Runners -> RunnerRecs]
      BY <1>1, <2>1, <2>2
    <3> QED
      BY <2>3, <3>1, <3>2 DEF SupervisorTypeOK, OthersOK, RunnerRecs, Places, Locks
  <2>5. LockHasCreator'
    BY <1>4 DEF LockHasCreator
  <2>6. ASSUME ~raced', NEW q \in Runners, runner[q].at \in Inside \cup {"opened"}
        PROVE  FALSE
    <3>1. ~raced
      BY <1>4, <2>6
    <3>2. lock.by = q /\ lock # NoLock /\ RunnerAlive(lock.by)
      BY <2>6, <3>1, Records DEF SupervisorInv, LockIsOwn, RunnerAt, RunnerAlive
    <3>3. lock = runner[r].saw /\ runner[r].saw.written
      BY <1>4, <2>6, <3>2
    <3> QED
      BY <1>2, <3>2, <3>3 DEF SupervisorInv, SeenIsGone
  <2>7. LockIsOwn'
    BY <1>1, <2>1, <2>2, <2>6, Records DEF LockIsOwn, RunnerAt
  <2>8. SeenIsGone'
    <3>1. \A q \in Runners : ~RunnerAlive(q) => ~RunnerAlive(q)'
      BY <1>1, <1>2, <2>2 DEF RunnerAlive
    <3> QED
      BY <1>1, <2>1, <2>2, <3>1 DEF SupervisorInv, SeenIsGone
  <2> QED
    BY <2>4, <2>5, <2>7, <2>8 DEF SupervisorInv
<1> QED
  BY <1>3, <1>4 DEF RemoveLock

LEMMA WriteKeepsInv == ASSUME SupervisorInv, NEW r \in Runners, WriteLock(r) PROVE SupervisorInv'
<1>1. lock \in Locks /\ runner \in [Runners -> RunnerRecs] /\ runner[r] \in RunnerRecs /\ OthersOK
  BY Typed DEF SupervisorInv
<1> DEFINE rec == [runner[r] EXCEPT !.at = "locked"]
<1>2. rec \in RunnerRecs /\ rec.at = "locked"
  BY <1>1, MovedOn, StatusValues
<1>3. runner' = [runner EXCEPT ![r] = rec] /\ RunnerAlive(r) /\ runner[r].at = "opened"
  BY <1>1 DEF WriteLock, RunnerGoes, RunnerAt, RunnerAlive
<1> HIDE DEF rec
<1>4. SupervisorTypeOK'
  <2>1. OthersOK' /\ lock' \in Locks
    BY <1>1 DEF WriteLock, OthersOK, Locks
  <2>2. runner' \in [Runners -> RunnerRecs]
    BY <1>1, <1>2, <1>3
  <2> QED
    BY <2>1, <2>2 DEF SupervisorTypeOK, OthersOK, RunnerRecs, Places, Locks
<1>5. LockHasCreator'
  BY <1>1, Records DEF WriteLock, SupervisorInv, LockHasCreator, Locks
<1>6. LockIsOwn'
  <2> SUFFICES ASSUME ~raced, NEW q \in Runners
               PROVE  /\ runner'[q].at = "opened" => lock' = [by |-> q, written |-> FALSE]
                      /\ runner'[q].at \in Inside => lock' = [by |-> q, written |-> TRUE]
    BY DEF WriteLock, LockIsOwn, RunnerAt
  <2>1. lock = [by |-> r, written |-> FALSE]
    BY <1>3 DEF SupervisorInv, LockIsOwn, RunnerAt
  <2>2. lock' = [by |-> r, written |-> TRUE]
    BY <2>1 DEF WriteLock
  <2>3. CASE q = r
    BY <1>1, <1>2, <1>3, <2>2, <2>3, Records
  <2>4. CASE q # r
    BY <1>1, <1>3, <2>1, <2>4 DEF SupervisorInv, LockIsOwn, RunnerAt
  <2> QED
    BY <2>3, <2>4
<1>7. SeenIsGone'
  <2>1. \A q \in Runners : ~RunnerAlive(q) => ~RunnerAlive(q)'
    BY <1>1, <1>3 DEF RunnerAlive
  <2> QED
    BY <1>1, <1>2, <1>3, <2>1 DEF SupervisorInv, SeenIsGone
<1> QED
  BY <1>4, <1>5, <1>6, <1>7 DEF SupervisorInv

LEMMA ReleaseKeepsInv == ASSUME SupervisorInv, NEW r \in Runners, ReleaseLock(r) PROVE SupervisorInv'
<1>1. lock \in Locks /\ runner \in [Runners -> RunnerRecs] /\ runner[r] \in RunnerRecs /\ OthersOK
  BY Typed DEF SupervisorInv
<1>2. RunnerAlive(r) /\ runner' = [runner EXCEPT ![r] = NotRunning]
  BY DEF ReleaseLock, RunnerAt, RunnerAlive
<1>3. SupervisorTypeOK'
  <2>1. OthersOK' /\ lock' \in Locks
    BY <1>1, Records DEF ReleaseLock, OthersOK
  <2>2. runner' \in [Runners -> RunnerRecs]
    BY <1>1, <1>2, Records
  <2> QED
    BY <2>1, <2>2 DEF SupervisorTypeOK, OthersOK, RunnerRecs, Places, Locks
<1>4. LockHasCreator'
  BY DEF ReleaseLock, SupervisorInv, LockHasCreator
<1>5. LockIsOwn'
  <2> SUFFICES ASSUME ~raced, NEW q \in Runners, runner'[q].at \in Inside \cup {"opened"}
               PROVE  q # r /\ lock' = lock /\ runner'[q] = runner[q]
    BY DEF ReleaseLock, SupervisorInv, LockIsOwn, RunnerAt
  <2>1. q # r /\ runner'[q] = runner[q]
    BY <1>1, <1>2, Records
  <2>2. lock.by = q
    BY <2>1 DEF SupervisorInv, LockIsOwn, RunnerAt
  <2> QED
    BY <2>1, <2>2 DEF ReleaseLock
<1>6. SeenIsGone'
  <2>1. \A q \in Runners : ~RunnerAlive(q) => ~RunnerAlive(q)'
    BY <1>1, <1>2, Records DEF RunnerAlive
  <2> QED
    BY <1>1, <1>2, <2>1, Records DEF SupervisorInv, SeenIsGone
<1> QED
  BY <1>3, <1>4, <1>5, <1>6 DEF SupervisorInv

(* The other steps of a runner leave the lock alone: it works on, or leaves. *)
LEMMA WorksOn ==
    ASSUME SupervisorInv, OthersOK', UNCHANGED <<lock, raced>>,
           NEW r \in Runners, NEW rec \in RunnerRecs,
           runner' = [runner EXCEPT ![r] = rec],
           runner[r].at \in Inside, rec.at \in Inside
    PROVE  SupervisorInv'
<1>1. RunnerAlive(r) /\ rec.at \notin {"opened", "stale", "late"}
  BY Records DEF RunnerAlive
<1> QED
  BY <1>1, RunnerSteps

LEMMA RunKeepsInv ==
    ASSUME SupervisorInv, NEW r \in Runners, RunWorker(r) PROVE SupervisorInv'
<1>1. lock \in Locks /\ runner \in [Runners -> RunnerRecs] /\ runner[r] \in RunnerRecs /\ OthersOK
  BY Typed DEF SupervisorInv
<1>2. \A p \in Inside :
          LET rec == [runner[r] EXCEPT !.at = p]
          IN  rec \in RunnerRecs /\ rec.at = p
  BY <1>1, MovedOn, StatusValues
<1>3. \A p \in Inside :
          LET rec == [NotRunning EXCEPT !.at = p]
          IN  rec \in RunnerRecs /\ rec.at = p
  BY MovedOn, Records, StatusValues
<1>4. ASSUME NEW p \in Inside, RunnerGoes(r, p), runner[r].at \in Inside,
             UNCHANGED <<lock, raced>>, OthersOK'
      PROVE  SupervisorInv'
  BY <1>2, <1>4, WorksOn DEF RunnerGoes
<1>5. CASE ClaimState(r)
  <2> DEFINE rec == [NotRunning EXCEPT !.at = "claimed", !.holds = "running"]
  <2>1. OthersOK' /\ UNCHANGED <<lock, raced>> /\ runner[r].at \in Inside
    BY <1>1, <1>5, StatusValues DEF ClaimState, OthersOK, RunnerAt
  <2>2. rec \in RunnerRecs /\ rec.at \in Inside
    BY Records, StatusValues DEF RunnerRecs
  <2>3. runner' = [runner EXCEPT ![r] = rec]
    BY <1>5 DEF ClaimState
  <2> HIDE DEF rec
  <2> QED
    BY <1>5, <2>1, <2>2, <2>3, WorksOn
<1>6. CASE Spawn(r)
  <2>1. OthersOK' /\ UNCHANGED <<lock, raced>> /\ runner[r].at \in Inside
    BY <1>1, <1>6, StatusValues DEF Spawn, OthersOK, RunnerAt
  <2> QED
    BY <1>4, <1>6, <2>1, StatusValues DEF Spawn
<1>7. CASE CaptureCodex(r)
  <2>1. OthersOK' /\ UNCHANGED <<lock, raced>> /\ runner[r].at \in Inside
    BY <1>1, <1>7, StatusValues DEF CaptureCodex, OthersOK, RunnerAt, RunnerRecs
  <2> QED
    BY <1>4, <1>7, <2>1, StatusValues DEF CaptureCodex
<1>8. CASE WriteSession(r)
  <2>1. OthersOK' /\ UNCHANGED <<lock, raced>> /\ runner[r].at \in Inside
    BY <1>1, <1>8, StatusValues DEF WriteSession, OthersOK, RunnerAt
  <2> QED
    BY <1>4, <1>8, <2>1, StatusValues DEF WriteSession
<1>9. CASE ReadEvent(r)
  <2>1. PICK next \in {"completed_pending_review", "failed"} :
            /\ status' = next
            /\ runner' = [runner EXCEPT ![r] = [NotRunning EXCEPT !.at = "told", !.holds = next]]
    BY <1>9 DEF ReadEvent
  <2>2. OthersOK' /\ UNCHANGED <<lock, raced>> /\ runner[r].at \in Inside
    BY <1>1, <1>9, <2>1, StatusValues DEF ReadEvent, OthersOK, RunnerAt
  <2> DEFINE rec == [NotRunning EXCEPT !.at = "told", !.holds = next]
  <2>3. rec \in RunnerRecs /\ rec.at \in Inside
    BY Records, StatusValues DEF RunnerRecs
  <2>4. runner' = [runner EXCEPT ![r] = rec]
    BY <2>1
  <2> HIDE DEF rec
  <2> QED
    BY <2>2, <2>3, <2>4, WorksOn
<1>10. CASE EndOfEvents(r)
  <2>1. status' \in Statuses
    BY <1>1, <1>10, StatusValues DEF EndOfEvents, Final, RunnerRecs
  <2>2. OthersOK' /\ UNCHANGED <<lock, raced>> /\ runner[r].at \in Inside
    BY <1>1, <1>10, <2>1 DEF EndOfEvents, OthersOK, Inside, Trying
  <2> DEFINE rec == [NotRunning EXCEPT !.at = "ended"]
  <2>3. rec \in RunnerRecs /\ rec.at \in Inside
    BY <1>3, StatusValues
  <2>4. runner' = [runner EXCEPT ![r] = rec]
    BY <1>10 DEF EndOfEvents
  <2> HIDE DEF rec
  <2> QED
    BY <2>2, <2>3, <2>4, WorksOn
<1>11. CASE WriteFailed(r)
  <2>1. OthersOK' /\ UNCHANGED <<lock, raced>> /\ runner[r].at \in Inside
    BY <1>1, <1>11, StatusValues DEF WriteFailed, OthersOK, RunnerAt
  <2> QED
    BY <1>4, <1>11, <2>1, StatusValues DEF WriteFailed
<1>12. CASE ReleaseLock(r)
  BY <1>12, ReleaseKeepsInv
<1> QED
  BY <1>5, <1>6, <1>7, <1>8, <1>9, <1>10, <1>11, <1>12 DEF RunWorker

LEMMA RaisesKeepsInv ==
    ASSUME SupervisorInv, NEW r \in Runners, RunnerRaises(r) PROVE SupervisorInv'
<1>1. lock \in Locks /\ runner \in [Runners -> RunnerRecs] /\ runner[r] \in RunnerRecs /\ OthersOK
  BY Typed DEF SupervisorInv
<1>2. UNCHANGED <<lock, raced>> /\ OthersOK'
  BY <1>1, SupervisorAssumption DEF RunnerRaises, OthersOK
<1>3. CASE /\ runner[r].at \in Trying
           /\ runner' = [runner EXCEPT ![r] = [NotRunning EXCEPT !.at = "failing"]]
  <2> DEFINE rec == [NotRunning EXCEPT !.at = "failing"]
  <2>1. rec \in RunnerRecs /\ rec.at \in Inside
    BY Records, StatusValues DEF RunnerRecs
  <2>2. runner[r].at \in Inside
    BY <1>3, StatusValues
  <2>3. runner' = [runner EXCEPT ![r] = rec]
    BY <1>3
  <2> HIDE DEF rec
  <2> QED
    BY <1>2, <2>1, <2>2, <2>3, WorksOn
<1>4. CASE RunnerAt(r, "failing") /\ RunnerGoes(r, "leaving")
  <2> DEFINE rec == [runner[r] EXCEPT !.at = "leaving"]
  <2>1. rec \in RunnerRecs /\ rec.at \in Inside /\ runner[r].at \in Inside
    BY <1>1, <1>4, StatusValues DEF RunnerAt, RunnerRecs
  <2>2. runner' = [runner EXCEPT ![r] = rec]
    BY <1>4 DEF RunnerGoes
  <2> HIDE DEF rec
  <2> QED
    BY <1>2, <2>1, <2>2, WorksOn
<1> QED
  BY <1>3, <1>4 DEF RunnerRaises

LEMMA KilledKeepsInv ==
    ASSUME SupervisorInv, NEW r \in Runners, runner' = [runner EXCEPT ![r] = NotRunning],
           UNCHANGED <<lock, raced>>, OthersOK'
    PROVE  SupervisorInv'
  BY Records, RunnerSteps

(* What leaves the lock and the runners alone. *)
LEMMA StutterKeepsInv ==
    ASSUME SupervisorInv, UNCHANGED <<lock, runner, raced>>, OthersOK'
    PROVE  SupervisorInv'
<1>1. SupervisorTypeOK'
  BY DEF SupervisorInv, SupervisorTypeOK, OthersOK
<1>2. LockHasCreator' /\ LockIsOwn' /\ SeenIsGone'
  BY DEF SupervisorInv, LockHasCreator, LockIsOwn, SeenIsGone, RunnerAt, RunnerAlive
<1> QED
  BY <1>1, <1>2 DEF SupervisorInv

LEMMA CommandsKeepInv ==
    ASSUME SupervisorInv, StopBegins \/ AcceptReads \/ Cli \/ CliEnds PROVE SupervisorInv'
<1>1. OthersOK /\ runner \in [Runners -> RunnerRecs]
  BY Typed DEF SupervisorInv
<1>2. CASE StopBegins
  <2>1. OthersOK'
    BY <1>1, <1>2 DEF StopBegins, OthersOK
  <2> QED
    BY <1>2, <2>1, StutterKeepsInv DEF StopBegins
<1>3. CASE AcceptReads
  <2>1. cli' = [cmd |-> "accept", at |-> "write", target |-> "nobody"]
    BY <1>3 DEF AcceptReads, NoCommand
  <2>2. OthersOK'
    BY <1>1, <1>3, <2>1 DEF AcceptReads, OthersOK
  <2> QED
    BY <1>3, <2>2, StutterKeepsInv DEF AcceptReads
<1>4. CASE StopCodex
  <2>1. OthersOK'
    BY <1>1, <1>4 DEF StopCodex, OthersOK
  <2> QED
    BY <1>4, <2>1, StutterKeepsInv DEF StopCodex
<1>5. CASE StopRunner
  <2>1. OthersOK' /\ UNCHANGED <<lock, raced>>
    BY <1>1, <1>5 DEF StopRunner, OthersOK
  <2>2. CASE cli.target \in Runners
    BY <1>5, <2>1, <2>2, KilledKeepsInv DEF StopRunner
  <2>3. CASE cli.target \notin Runners
    BY <1>1, <1>5, <2>1, <2>3, StutterKeepsInv DEF StopRunner
  <2> QED
    BY <2>2, <2>3
<1>6. CASE CliWrites
  <2>1. cli' = [cmd |-> "none", at |-> "none", target |-> "nobody"]
    BY <1>6 DEF CliWrites, NoCommand
  <2>2. status' \in Statuses
    BY <1>6, StatusValues DEF CliWrites
  <2>3. OthersOK'
    BY <1>1, <1>6, <2>1, <2>2 DEF CliWrites, OthersOK
  <2> QED
    BY <1>6, <2>3, StutterKeepsInv DEF CliWrites
<1>7. CASE CliEnds
  <2>1. cli' = [cmd |-> "none", at |-> "none", target |-> "nobody"]
    BY <1>7 DEF CliEnds, NoCommand
  <2>2. stops' \in 0..MaxStops
    BY <1>1, <1>7, SupervisorAssumption DEF CliEnds, OthersOK
  <2>3. OthersOK'
    BY <1>1, <1>7, <2>1, <2>2 DEF CliEnds, OthersOK
  <2> QED
    BY <1>7, <2>3, StutterKeepsInv DEF CliEnds
<1> QED
  BY <1>2, <1>3, <1>4, <1>5, <1>6, <1>7 DEF Cli

LEMMA RebootKeepsInv == ASSUME SupervisorInv, Reboot PROVE SupervisorInv'
<1>1. OthersOK /\ lock \in Locks
  BY Typed DEF SupervisorInv
<1>2. cli' = [cmd |-> "none", at |-> "none", target |-> "nobody"]
  BY DEF Reboot, NoCommand
<1>3. stops' \in 0..MaxStops
  BY <1>1, SupervisorAssumption DEF Reboot, OthersOK
<1>4. OthersOK'
  BY <1>1, <1>2, <1>3 DEF Reboot, OthersOK
<1>5. SupervisorTypeOK'
  <2>1. lock' \in Locks /\ runner' \in [Runners -> RunnerRecs]
    BY <1>1, Records DEF Reboot
  <2> QED
    BY <1>4, <2>1 DEF SupervisorTypeOK, OthersOK, RunnerRecs, Places, Locks
<1>6. LockHasCreator' /\ LockIsOwn' /\ SeenIsGone'
  BY Records DEF Reboot, SupervisorInv, LockHasCreator, LockIsOwn, SeenIsGone, RunnerAt
<1> QED
  BY <1>5, <1>6 DEF SupervisorInv

LEMMA StepKeepsInv == SupervisorInv /\ [SupervisorNext]_supervisorVars => SupervisorInv'
<1> SUFFICES ASSUME SupervisorInv, [SupervisorNext]_supervisorVars PROVE SupervisorInv'
  OBVIOUS
<1>1. OthersOK
  BY Typed DEF SupervisorInv
<1>2. CASE UNCHANGED supervisorVars
  BY <1>1, <1>2, StutterKeepsInv DEF supervisorVars, OthersOK
<1>3. CASE StartWorker \/ ResumeWorker
  BY <1>3, LaunchKeepsInv DEF StartWorker, ResumeWorker
<1>4. CASE StopBegins \/ AcceptReads \/ Cli \/ CliEnds
  BY <1>4, CommandsKeepInv
<1>5. ASSUME NEW r \in Runners, AcquireLock(r) PROVE SupervisorInv'
  BY <1>5, CreateKeepsInv, JudgeKeepsInv, RemoveKeepsInv, WriteKeepsInv DEF AcquireLock
<1>6. ASSUME NEW r \in Runners, RunWorker(r) PROVE SupervisorInv'
  BY <1>6, RunKeepsInv
<1>7. ASSUME NEW r \in Runners, CodexExits(r) PROVE SupervisorInv'
  BY <1>1, <1>7, StutterKeepsInv DEF CodexExits, OthersOK
<1>8. ASSUME NEW r \in Runners, RunnerRaises(r) PROVE SupervisorInv'
  BY <1>8, RaisesKeepsInv
<1>9. ASSUME NEW r \in Runners, RunnerKilled(r) PROVE SupervisorInv'
  <2>1. OthersOK'
    BY <1>1, <1>9, SupervisorAssumption DEF RunnerKilled, OthersOK
  <2> QED
    BY <1>9, <2>1, KilledKeepsInv DEF RunnerKilled
<1>10. CASE Reboot
  BY <1>10, RebootKeepsInv
<1> QED
  BY <1>2, <1>3, <1>4, <1>5, <1>6, <1>7, <1>8, <1>9, <1>10 DEF SupervisorNext

(* However a worker is started, stopped, killed and started again, by any    *)
(* number of runners, two of them run run_worker together only after one has *)
(* removed the lock of another that it had not seen, or had seen unwritten.  *)
THEOREM OneRunnerSafety == SupervisorSpec => []OneRunner
<1>1. SupervisorSpec => []SupervisorInv
  BY InitEstablishesInv, StepKeepsInv, PTL DEF SupervisorSpec
<1> QED
  BY <1>1, InvImpliesOneRunner, PTL

-----------------------------------------------------------------------------
(* The allocation of sources, for any number of rows, any limits and any    *)
(* intents.                                                                 *)
(*                                                                          *)
(* A selection that Selections keeps is Legal: it says truly what its rows  *)
(* reach and keeps the limits.  Whatever rows S are within the limits, the  *)
(* selections kept after each row hold one that is AsGood as the rows of S  *)
(* so far: RowTaken lets it take the next row of S, and what Cheapest drops *)
(* has a cheaper one with the same coverage.  So one reaches the coverage of*)
(* S in the end (Dominated), and the chosen one is at least as good.        *)

(* The parts of a call.                                                     *)

LEMMA CallIs ==
    ASSUME NEW c \in Calls
    PROVE  /\ MaxRows \in Nat /\ IsFiniteSet(Rows)
           /\ c.requested \subseteq Intents /\ IsFiniteSet(c.requested)
           /\ c.matched \in [Rows -> SUBSET Intents] /\ c.exact \in SUBSET Rows
           /\ c.size \in [Rows -> Nat]
           /\ c.sources \in Nat /\ c.chars \in Nat /\ c.page \in Nat
<1>1. MaxRows \in Nat /\ IsFiniteSet(Intents)
  BY BudgetAssumption
<1>2. IsFiniteSet(Rows)
  BY <1>1, FS_Interval DEF Rows
<1>3. /\ c.requested \in SUBSET Intents /\ c.matched \in [Rows -> SUBSET Intents]
      /\ c.exact \in SUBSET Rows /\ c.size \in [Rows -> Sizes]
      /\ c.sources \in SourceLimits /\ c.chars \in CharLimits /\ c.page \in PageSizes
  BY DEF Calls
<1>4. IsFiniteSet(c.requested)
  BY <1>1, <1>3, FS_Subset
<1>5. Sizes \subseteq Nat /\ SourceLimits \subseteq Nat /\ CharLimits \subseteq Nat
      /\ PageSizes \subseteq Nat
  BY BudgetAssumption
<1>6. c.size \in [Rows -> Nat]
  BY <1>3, <1>5
<1> QED  BY <1>1, <1>2, <1>3, <1>4, <1>5, <1>6

LEMMA BoundIs ==
    ASSUME NEW c \in Calls, NEW t
    PROVE  /\ QuotaTarget(c, t) \in Nat \ {0} /\ Bounded(c, t) \in Nat
           /\ Bounded(c, t) = IF QuotaTarget(c, t) <= c.sources
                              THEN QuotaTarget(c, t) ELSE c.sources
<1>1. c.page \in Nat /\ c.sources \in Nat /\ IsFiniteSet(c.exact)
  BY CallIs, FS_Subset
<1>2. ASSUME NEW n \in Nat PROVE AtLeastOne(n) \in Nat \ {0}
  <2>1. Max({1, n}) = IF 1 >= n THEN 1 ELSE n
    BY SmallerOf
  <2> QED  BY <2>1 DEF AtLeastOne
<1>3. AtLeastOne(Cardinality(c.exact)) \in Nat \ {0}
  BY <1>1, <1>2, FS_CardinalityType
<1>4. Min({8, AtLeastOne(c.page)}) \in Nat \ {0}
  <2> PICK m : m = AtLeastOne(c.page)
    OBVIOUS
  <2>1. m \in Nat \ {0}
    BY <1>1, <1>2
  <2>2. Min({8, m}) = IF 8 <= m THEN 8 ELSE m
    BY <2>1, SmallerOf
  <2> QED  BY <2>1, <2>2
<1>5. QuotaTarget(c, t) \in Nat \ {0}
  BY <1>3, <1>4 DEF QuotaTarget
<1>6. Bounded(c, t) = IF QuotaTarget(c, t) <= c.sources THEN QuotaTarget(c, t) ELSE c.sources
  BY <1>1, <1>5, SmallerOf DEF Bounded
<1> QED  BY <1>1, <1>5, <1>6

-----------------------------------------------------------------------------
(* What a set of rows reaches.                                              *)

LEMMA CoverageGrows ==
    ASSUME NEW c \in Calls, NEW S \in SUBSET Rows, NEW t
    PROVE  /\ Coverage(c, S, t) \in Nat /\ Coverage(c, {}, t) = 0
           /\ Coverage(c, S, t) <= Cardinality(S) /\ Cardinality(S) \in Nat
           /\ \A i \in Rows \ S : Coverage(c, S \cup {i}, t) =
                  IF Contributes(c, i, t) THEN Coverage(c, S, t) + 1 ELSE Coverage(c, S, t)
           /\ \A U \in SUBSET S : Coverage(c, U, t) <= Coverage(c, S, t)
<1> DEFINE Those(U) == {i \in U : Contributes(c, i, t)}
<1>1. ASSUME NEW U \in SUBSET Rows
      PROVE  /\ IsFiniteSet(U) /\ Cardinality(U) \in Nat
             /\ IsFiniteSet(Those(U)) /\ Cardinality(Those(U)) \in Nat
             /\ Cardinality(Those(U)) <= Cardinality(U)
  <2>1. IsFiniteSet(U)
    BY CallIs, FS_Subset
  <2>2. Those(U) \in SUBSET U
    OBVIOUS
  <2> HIDE DEF Those
  <2> QED  BY <2>1, <2>2, FS_Subset, FS_CardinalityType
<1>2. ASSUME NEW U PROVE Coverage(c, U, t) = Cardinality(Those(U))
  BY DEF Coverage
<1>3. Coverage(c, {}, t) = 0
  BY FS_EmptySet DEF Coverage
<1>4. ASSUME NEW i \in Rows \ S
      PROVE  Coverage(c, S \cup {i}, t) =
                 IF Contributes(c, i, t) THEN Coverage(c, S, t) + 1 ELSE Coverage(c, S, t)
  <2>1. CASE Contributes(c, i, t)
    <3>1. Those(S \cup {i}) = Those(S) \cup {i} /\ i \notin Those(S)
      BY <2>1
    <3> HIDE DEF Those
    <3>2. Cardinality(Those(S) \cup {i}) = Cardinality(Those(S)) + 1
      BY <1>1, <3>1, FS_AddElement
    <3> QED  BY <1>2, <2>1, <3>1, <3>2
  <2>2. CASE ~Contributes(c, i, t)
    <3>1. Those(S \cup {i}) = Those(S)
      BY <2>2
    <3> HIDE DEF Those
    <3> QED  BY <1>2, <2>2, <3>1
  <2> QED  BY <2>1, <2>2
<1>5. ASSUME NEW U \in SUBSET S PROVE Coverage(c, U, t) <= Coverage(c, S, t)
  <2>1. Those(U) \in SUBSET Those(S)
    OBVIOUS
  <2> HIDE DEF Those
  <2>2. Cardinality(Those(U)) <= Cardinality(Those(S))
    BY <1>1, <2>1, FS_Subset
  <2> QED  BY <1>2, <2>2
<1> HIDE DEF Those
<1> QED  BY <1>1, <1>2, <1>3, <1>4, <1>5

\* Rows of voice are those that count for its quota.
LEMMA VoicedIs ==
    ASSUME NEW c \in Calls, NEW S
    PROVE  /\ Cardinality(Voiced(c, S)) = Coverage(c, S, "voice")
           /\ \A i : Contributes(c, i, "voice") <=> "voice" \in Matched(c, i)
BY DEF Voiced, Coverage, Contributes, AllAvailable

LEMMA CharsAre ==
    ASSUME NEW c \in Calls, NEW S \in SUBSET Rows
    PROVE  /\ Chars(c, {}) = 0 /\ Chars(c, S) \in Nat
           /\ \A i \in Rows \ S : Chars(c, S \cup {i}) = Chars(c, S) + c.size[i]
           /\ \A U \in SUBSET S : Chars(c, U) <= Chars(c, S)
<1>1. PICK w : w = c.size
  OBVIOUS
<1>2. IsFiniteSet(Rows) /\ w \in [Rows -> Nat]
  BY <1>1, CallIs
<1>3. ASSUME NEW U PROVE Chars(c, U) = Total(w, U)
  BY <1>1 DEF Chars, Total
<1>4. /\ Total(w, {}) = 0 /\ Total(w, S) \in Nat
      /\ \A i \in Rows \ S : Total(w, S \cup {i}) = w[i] + Total(w, S)
      /\ \A U \in SUBSET S : Total(w, U) <= Total(w, S)
  BY <1>2, TotalSteps
<1>5. ASSUME NEW i \in Rows \ S PROVE Chars(c, S \cup {i}) = Chars(c, S) + c.size[i]
  <2>1. Chars(c, S \cup {i}) = w[i] + Total(w, S) /\ w[i] \in Nat
    BY <1>2, <1>3, <1>4
  <2> QED  BY <1>1, <1>3, <1>4, <2>1
<1> QED  BY <1>3, <1>4, <1>5

-----------------------------------------------------------------------------
(* Partial selections.                                                      *)

\* The coverage of a set of rows, as far as the quotas go.
Capped(c, S) == [t \in c.requested |-> Min({Bounded(c, t), Coverage(c, S, t)})]

LEMMA CappedIs ==
    ASSUME NEW c \in Calls, NEW S \in SUBSET Rows
    PROVE  /\ Capped(c, S) \in [c.requested -> Nat]
           /\ \A t \in c.requested : Capped(c, S)[t] =
                  IF Bounded(c, t) <= Coverage(c, S, t) THEN Bounded(c, t) ELSE Coverage(c, S, t)
           /\ \A i \in Rows \ S : Advance(c, Capped(c, S), i) = Capped(c, S \cup {i})
<1>1. ASSUME NEW U \in SUBSET Rows, NEW t \in c.requested
      PROVE  /\ Capped(c, U)[t] \in Nat
             /\ Capped(c, U)[t] = IF Bounded(c, t) <= Coverage(c, U, t)
                                  THEN Bounded(c, t) ELSE Coverage(c, U, t)
  <2>1. Bounded(c, t) \in Nat /\ Coverage(c, U, t) \in Nat
    BY BoundIs, CoverageGrows
  <2>2. Capped(c, U)[t] = Min({Bounded(c, t), Coverage(c, U, t)})
    BY DEF Capped
  <2> QED  BY <2>1, <2>2, SmallerOf
<1>2. Capped(c, S) \in [c.requested -> Nat]
  <2>1. \A t \in c.requested : Min({Bounded(c, t), Coverage(c, S, t)}) \in Nat
    BY <1>1 DEF Capped
  <2> QED  BY <2>1 DEF Capped
<1>3. ASSUME NEW i \in Rows \ S PROVE Advance(c, Capped(c, S), i) = Capped(c, S \cup {i})
  <2>1. ASSUME NEW t \in c.requested
        PROVE  Advance(c, Capped(c, S), i)[t] = Capped(c, S \cup {i})[t]
    <3> PICK m, n, k : /\ m = Bounded(c, t) /\ n = Coverage(c, S, t)
                       /\ k = Coverage(c, S \cup {i}, t)
      OBVIOUS
    <3>1. m \in Nat /\ n \in Nat
      BY BoundIs, CoverageGrows
    <3>2. k = IF Contributes(c, i, t) THEN n + 1 ELSE n
      BY CoverageGrows
    <3>3. Capped(c, S)[t] = IF m <= n THEN m ELSE n
      BY <1>1
    <3>4. S \cup {i} \in SUBSET Rows
      OBVIOUS
    <3>5. Capped(c, S \cup {i})[t] = IF m <= k THEN m ELSE k
      BY <1>1, <3>4
    <3>6. Advance(c, Capped(c, S), i)[t] =
              IF Contributes(c, i, t) THEN Min({m, Capped(c, S)[t] + 1}) ELSE Capped(c, S)[t]
      BY DEF Advance
    <3> PICK d : d = Capped(c, S)[t]
      OBVIOUS
    <3>7. d \in Nat /\ Min({m, d + 1}) = IF m <= d + 1 THEN m ELSE d + 1
      <4>1. d \in Nat
        BY <1>1
      <4> QED  BY <3>1, <4>1, SmallerOf
    <3>8. CASE Contributes(c, i, t)
      <4>1. (IF m <= d + 1 THEN m ELSE d + 1) = IF m <= k THEN m ELSE k
        BY <3>1, <3>2, <3>3, <3>8
      <4> QED  BY <3>5, <3>6, <3>7, <3>8, <4>1
    <3>9. CASE ~Contributes(c, i, t)
      BY <3>2, <3>3, <3>5, <3>6, <3>9
    <3> QED  BY <3>8, <3>9
  <2> QED  BY <2>1 DEF Advance, Capped
<1> QED  BY <1>1, <1>2, <1>3

Picked(s) == {s.picked[k] : k \in 1 .. Len(s.picked)}

SelType(c) == [cov : [c.requested -> Nat], chars : Nat, picked : Seq(Rows)]

\* A selection of the first n rows that keeps the limits and says truly what its
\* rows reach.  Each row was taken for some intent that lacked it.
Legal(c, s, n) ==
    /\ s \in SelType(c)
    /\ Picked(s) \subseteq 1 .. n
    /\ Cardinality(Picked(s)) = Len(s.picked)
    /\ s.cov = Capped(c, Picked(s))
    /\ s.chars = Chars(c, Picked(s))
    /\ Within(c, Picked(s))
    /\ Len(s.picked) <= Total(s.cov, c.requested)

LEMMA PickedRows ==
    ASSUME NEW c, NEW s \in SelType(c)
    PROVE  Picked(s) \in SUBSET Rows /\ Len(s.picked) \in Nat
BY DEF Picked, SelType

LEMMA NothingIs ==
    ASSUME NEW c \in Calls
    PROVE  Legal(c, Nothing(c), 0) /\ Nothing(c) \in SelType(c)
<1> PICK s : s = Nothing(c)
  OBVIOUS
<1>1. /\ s.cov = [t \in c.requested |-> 0] /\ s.chars = 0 /\ s.picked = <<>>
      /\ s \in SelType(c)
  BY DEF Nothing, SelType
<1>2. Picked(s) = {} /\ Len(s.picked) = 0
  BY <1>1 DEF Picked
<1>3. Cardinality({}) = 0
  BY FS_EmptySet
<1>4. Chars(c, {}) = 0
  BY CharsAre
<1>5. Capped(c, {}) = [t \in c.requested |-> 0]
  <2>1. ASSUME NEW t \in c.requested PROVE Min({Bounded(c, t), Coverage(c, {}, t)}) = 0
    <3>1. Bounded(c, t) \in Nat /\ Coverage(c, {}, t) = 0
      BY BoundIs, CoverageGrows
    <3>2. Min({Bounded(c, t), 0}) = IF Bounded(c, t) <= 0 THEN Bounded(c, t) ELSE 0
      BY <3>1, SmallerOf
    <3> QED  BY <3>1, <3>2
  <2> QED  BY <2>1 DEF Capped
<1>6. Within(c, {})
  <2>1. c.sources \in Nat /\ c.chars \in Nat /\ QuotaTarget(c, "voice") \in Nat
    BY CallIs, BoundIs
  <2>2. Voiced(c, {}) = {}
    BY DEF Voiced
  <2> QED  BY <1>3, <1>4, <2>1, <2>2 DEF Within
<1>7. Total(s.cov, c.requested) \in Nat
  <2>1. s.cov \in [c.requested -> Nat] /\ IsFiniteSet(c.requested)
    BY <1>1, CallIs
  <2> QED  BY <2>1, TotalSteps
<1> QED  BY <1>1, <1>2, <1>3, <1>4, <1>5, <1>6, <1>7 DEF Legal

LEMMA LegalStays ==
    ASSUME NEW c, NEW s, NEW n \in Nat, Legal(c, s, n)
    PROVE  Legal(c, s, n + 1)
<1>1. 1 .. n \subseteq 1 .. (n + 1)
  OBVIOUS
<1> QED  BY <1>1 DEF Legal

LEMMA ExtendType ==
    ASSUME NEW c \in Calls, NEW s \in SelType(c), NEW i \in Rows
    PROVE  /\ Extend(c, s, i) \in SelType(c)
           /\ Extend(c, s, i).cov = Advance(c, s.cov, i)
           /\ Extend(c, s, i).chars = s.chars + c.size[i]
           /\ Extend(c, s, i).picked = Append(s.picked, i)
           /\ Picked(Extend(c, s, i)) = Picked(s) \cup {i}
           /\ Len(Extend(c, s, i).picked) = Len(s.picked) + 1
<1>1. s.cov \in [c.requested -> Nat] /\ s.chars \in Nat /\ s.picked \in Seq(Rows)
  BY DEF SelType
<1>2. Advance(c, s.cov, i) \in [c.requested -> Nat]
  <2>1. ASSUME NEW t \in c.requested
        PROVE  (IF Contributes(c, i, t) THEN Min({Bounded(c, t), s.cov[t] + 1})
                ELSE s.cov[t]) \in Nat
    <3>1. Bounded(c, t) \in Nat /\ s.cov[t] \in Nat /\ s.cov[t] + 1 \in Nat
      BY <1>1, BoundIs
    <3>2. Min({Bounded(c, t), s.cov[t] + 1}) \in Nat
      <4> PICK m, n : m = Bounded(c, t) /\ n = s.cov[t] + 1
        OBVIOUS
      <4>1. Min({m, n}) = IF m <= n THEN m ELSE n
        BY <3>1, SmallerOf
      <4> QED  BY <3>1, <4>1
    <3> QED  BY <3>1, <3>2
  <2> QED  BY <2>1 DEF Advance
<1>3. s.chars + c.size[i] \in Nat
  <2>1. c.size[i] \in Nat
    BY CallIs
  <2> QED  BY <1>1, <2>1
<1>4. Append(s.picked, i) \in Seq(Rows)
  BY <1>1
<1> PICK e : e = Extend(c, s, i)
  OBVIOUS
<1>5. /\ e.cov = Advance(c, s.cov, i) /\ e.chars = s.chars + c.size[i]
      /\ e.picked = Append(s.picked, i)
  BY DEF Extend
<1>6. e \in SelType(c)
  BY <1>2, <1>3, <1>4 DEF Extend, SelType
<1>7. Picked(e) = Picked(s) \cup {i} /\ Len(e.picked) = Len(s.picked) + 1
  <2> PICK p, q, n : p = s.picked /\ q = e.picked /\ n = Len(p)
    OBVIOUS
  <2>1. p \in Seq(Rows) /\ q = Append(p, i) /\ n \in Nat
    BY <1>1, <1>5
  <2>2. Len(q) = n + 1 /\ q[n + 1] = i /\ \A k \in 1 .. n : q[k] = p[k]
    BY <2>1, AppendProperties
  <2>3. {q[k] : k \in 1 .. (n + 1)} = {p[k] : k \in 1 .. n} \cup {i}
    <3>1. 1 .. (n + 1) = 1 .. n \cup {n + 1}
      BY <2>1
    <3> QED  BY <2>2, <3>1
  <2> QED  BY <2>2, <2>3 DEF Picked
<1> QED  BY <1>5, <1>6, <1>7

\* A row that may be taken extends a legal selection to one.
LEMMA ExtendIs ==
    ASSUME NEW c \in Calls, NEW s, NEW n \in Nat, Legal(c, s, n),
           n + 1 \in Rows, Takes(c, s, n + 1)
    PROVE  Legal(c, Extend(c, s, n + 1), n + 1)
<1> PICK i, e, S, U : /\ i = n + 1 /\ e = Extend(c, s, n + 1)
                      /\ S = Picked(s) /\ U = S \cup {i}
  OBVIOUS
<1>1. s \in SelType(c) /\ S \in SUBSET Rows /\ S \subseteq 1 .. n
  BY PickedRows DEF Legal
<1>2. i \in Rows \ S /\ U \in SUBSET Rows /\ U \subseteq 1 .. (n + 1)
  <2>1. n + 1 \notin 1 .. n /\ n + 1 \in 1 .. (n + 1) /\ 1 .. n \subseteq 1 .. (n + 1)
    OBVIOUS
  <2> QED  BY <1>1, <2>1
<1>3. /\ e \in SelType(c) /\ e.cov = Advance(c, s.cov, i) /\ e.chars = s.chars + c.size[i]
      /\ Picked(e) = U /\ Len(e.picked) = Len(s.picked) + 1
  BY <1>1, ExtendType
<1>4. e.cov = Capped(c, U)
  BY <1>1, <1>2, <1>3, CappedIs DEF Legal
<1>5. e.chars = Chars(c, U)
  BY <1>1, <1>2, <1>3, CharsAre DEF Legal
<1>6. IsFiniteSet(S) /\ Cardinality(U) = Cardinality(S) + 1 /\ Cardinality(S) \in Nat
  <2>1. IsFiniteSet(S)
    BY <1>1, CallIs, FS_Subset
  <2> QED  BY <1>2, <2>1, FS_AddElement, FS_CardinalityType
<1>7. Cardinality(U) = Len(e.picked)
  BY <1>3, <1>6 DEF Legal
<1>8. Within(c, U)
  <2>1. Cardinality(U) <= c.sources
    <3> DEFINE w == [t \in c.requested |-> Bounded(c, t)]
    <3>1. Total(w, c.requested) \in Nat /\ c.sources \in Nat
      <4>1. w \in [c.requested -> Nat]
        BY BoundIs
      <4> HIDE DEF w
      <4>2. Total(w, c.requested) \in Nat
        BY <4>1, CallIs, TotalSteps
      <4> QED  BY <4>2, CallIs
    <3>2. CountLimit(c) = Min({c.sources, Total(w, c.requested)})
      BY DEF CountLimit, Total
    <3> HIDE DEF w
    <3>3. CountLimit(c) = IF c.sources <= Total(w, c.requested) THEN c.sources
                          ELSE Total(w, c.requested)
      BY <3>1, <3>2, SmallerOf
    <3>4. Len(s.picked) < CountLimit(c) /\ Len(s.picked) \in Nat
      BY <1>1, PickedRows DEF Takes
    <3> QED  BY <1>3, <1>7, <3>1, <3>3, <3>4
  <2>2. Chars(c, U) <= c.chars
    BY <1>3, <1>5 DEF Takes
  <2>3. ASSUME "voice" \in c.requested
        PROVE  Cardinality(Voiced(c, U)) <= QuotaTarget(c, "voice")
    <3> PICK q, b, m, k : /\ q = QuotaTarget(c, "voice") /\ b = Bounded(c, "voice")
                          /\ m = Coverage(c, S, "voice") /\ k = Coverage(c, U, "voice")
      OBVIOUS
    <3>1. q \in Nat /\ b \in Nat /\ c.sources \in Nat
          /\ b = IF q <= c.sources THEN q ELSE c.sources
      BY BoundIs, CallIs
    <3>2. m \in Nat /\ k = IF Contributes(c, i, "voice") THEN m + 1 ELSE m
      BY <1>1, <1>2, CoverageGrows
    <3>3. m <= q
      BY <1>1, <2>3, VoicedIs DEF Legal, Within
    <3>4. CASE Contributes(c, i, "voice")
      <4>1. s.cov["voice"] < b
        BY <2>3, <3>4, VoicedIs DEF Takes
      <4>2. s.cov["voice"] = IF b <= m THEN b ELSE m
        BY <1>1, <2>3, CappedIs DEF Legal
      <4>3. m < b
        BY <3>1, <3>2, <4>1, <4>2
      <4>4. k <= q
        BY <3>1, <3>2, <3>4, <4>3
      <4> QED  BY <4>4, VoicedIs
    <3>5. CASE ~Contributes(c, i, "voice")
      BY <3>2, <3>3, <3>5, VoicedIs
    <3> QED  BY <3>4, <3>5
  <2> QED  BY <2>1, <2>2, <2>3 DEF Within
<1>9. Len(e.picked) <= Total(e.cov, c.requested)
  <2> PICK D, w, v : D = c.requested /\ w = s.cov /\ v = e.cov
    OBVIOUS
  <2>1. w \in [D -> Nat] /\ v \in [D -> Nat] /\ IsFiniteSet(D)
    BY <1>1, <1>3, CallIs DEF SelType
  <2>2. ASSUME NEW t \in D PROVE w[t] <= v[t]
    <3>1. w[t] = IF Bounded(c, t) <= Coverage(c, S, t) THEN Bounded(c, t) ELSE Coverage(c, S, t)
      BY <1>1, CappedIs DEF Legal
    <3>2. v[t] = IF Bounded(c, t) <= Coverage(c, U, t) THEN Bounded(c, t) ELSE Coverage(c, U, t)
      BY <1>2, <1>4, CappedIs
    <3>3. Coverage(c, S, t) <= Coverage(c, U, t)
      BY <1>2, CoverageGrows
    <3>4. Bounded(c, t) \in Nat /\ Coverage(c, S, t) \in Nat /\ Coverage(c, U, t) \in Nat
      BY <1>1, <1>2, BoundIs, CoverageGrows
    <3> PICK b, x, y : b = Bounded(c, t) /\ x = Coverage(c, S, t) /\ y = Coverage(c, U, t)
      OBVIOUS
    <3> QED  BY <3>1, <3>2, <3>3, <3>4
  <2>3. w # v
    BY <1>3 DEF Takes
  <2>4. Total(w, D) < Total(v, D)
    BY <2>1, <2>2, <2>3, TotalMore
  <2>5. Len(s.picked) <= Total(w, D) /\ Len(s.picked) \in Nat
    BY <1>1, PickedRows DEF Legal
  <2>6. Total(w, D) \in Nat /\ Total(v, D) \in Nat
    BY <2>1, TotalSteps
  <2> QED  BY <1>3, <2>4, <2>5, <2>6
<1> QED  BY <1>2, <1>3, <1>4, <1>5, <1>7, <1>8, <1>9 DEF Legal

\* The rows of a selection say the rest.
LEMMA RowsTell ==
    ASSUME NEW c, NEW s, NEW z, NEW m, NEW n, Legal(c, s, m), Legal(c, z, n),
           s.picked = z.picked
    PROVE  s = z
BY DEF Legal, SelType, Picked

-----------------------------------------------------------------------------
(* The ranked path.                                                         *)

PathStep(c) ==
    [e \in SelType(c) \X Rows |->
        IF Takes(c, e[1], e[2]) THEN Extend(c, e[1], e[2]) ELSE e[1]]

LEMMA PathIs ==
    ASSUME NEW c \in Calls
    PROVE  Legal(c, RankedPath(c), MaxRows)
<1> DEFINE n == MaxRows
           D == 1 .. n
           V == SelType(c)
           base == Nothing(c)
           Step(s, i) == IF Takes(c, s, i) THEN Extend(c, s, i) ELSE s
           seq == [i \in Rows |-> i]
           fold == CHOOSE it : it = [s \in SUBSET DOMAIN seq |->
                       IF s = {} THEN base ELSE Step(it[s \ {Max(s)}], seq[Max(s)])]
           st == PathStep(c)
<1>1. RankedPath(c) = fold[DOMAIN seq]
  BY DEF RankedPath, FoldLeft, MapThenFoldSet
<1>2. DOMAIN seq = D /\ \A i \in D : seq[i] = i
  BY DEF Rows
<1>3. n \in Nat /\ D = Rows /\ base \in V
  BY CallIs, NothingIs DEF Rows
<1>4. ASSUME NEW s \in V, NEW i \in D PROVE Step(s, i) \in V
  BY <1>3, ExtendType
<1>5. st \in [V \X D -> V] /\ \A s \in V, i \in D : st[<<s, i>>] = Step(s, i)
  <2>1. st = [e \in V \X D |-> Step(e[1], e[2])]
    BY <1>3 DEF PathStep
  <2> HIDE DEF V, Step, st, D
  <2> QED  BY <1>4, <2>1
<1>6. ASSUME NEW s \in SUBSET D, s # {} PROVE Max(s) \in D
  <2>1. s \subseteq 0 .. n
    BY <1>3
  <2>2. Max(s) \in s
    BY <1>3, <1>6, <2>1, MaxOf
  <2> QED  BY <2>2
<1> HIDE DEF st, V, Step, seq, base, fold
<1>7. PICK it \in [SUBSET D -> V] : InTurns(it, n, base, st)
  BY <1>3, <1>5, TurnsExist
<1>8. it = [s \in SUBSET DOMAIN seq |->
               IF s = {} THEN base ELSE Step(it[s \ {Max(s)}], seq[Max(s)])]
  <2>1. ASSUME NEW s \in SUBSET D, s # {}
        PROVE  st[<<it[s \ {Max(s)}], Max(s)>>] = Step(it[s \ {Max(s)}], seq[Max(s)])
    <3>1. Max(s) \in D /\ it[s \ {Max(s)}] \in V
      BY <1>6, <2>1
    <3> QED  BY <1>2, <1>5, <3>1
  <2> HIDE DEF D
  <2> QED  BY <1>2, <1>7, <2>1 DEF InTurns, D
<1>9. fold = [s \in SUBSET DOMAIN seq |->
                 IF s = {} THEN base ELSE Step(fold[s \ {Max(s)}], seq[Max(s)])]
  BY <1>8 DEF fold
<1>10. \A s \in SUBSET D : fold[s] = IF s = {} THEN base
                                     ELSE Step(fold[s \ {Max(s)}], seq[Max(s)])
  <2> HIDE DEF D
  <2> QED  BY <1>2, <1>9
<1> DEFINE T == {k \in Nat : k <= n => Legal(c, fold[1 .. k], k)}
<1>11. 0 \in T
  <2>1. 1 .. 0 = {} /\ {} \in SUBSET D
    OBVIOUS
  <2>2. fold[1 .. 0] = Nothing(c)
    BY <1>10, <2>1 DEF base
  <2> QED  BY <2>2, NothingIs
<1>12. ASSUME NEW k \in T PROVE k + 1 \in T
  <2>1. SUFFICES ASSUME k + 1 <= n PROVE Legal(c, fold[1 .. (k + 1)], k + 1)
    OBVIOUS
  <2>2. k \in Nat /\ k < n /\ Legal(c, fold[1 .. k], k)
    BY <1>3, <2>1
  <2> PICK S, U, x : S = 1 .. (k + 1) /\ U = 1 .. k /\ x = fold[U]
    OBVIOUS
  <2>3. S \in SUBSET D /\ S # {} /\ Max(S) = k + 1 /\ S \ {k + 1} = U /\ k + 1 \in D
    BY <1>3, <2>1, <2>2, LastTurn
  <2>4. fold[S] = Step(x, k + 1)
    BY <1>2, <1>10, <2>3
  <2>5. Legal(c, x, k)
    BY <2>2
  <2>6. Legal(c, Step(x, k + 1), k + 1)
    BY <1>3, <2>2, <2>3, <2>5, ExtendIs, LegalStays DEF Step
  <2> QED  BY <2>4, <2>6
<1>13. T = Nat
  <2> HIDE DEF T
  <2>1. T \subseteq Nat
    BY DEF T
  <2> QED  BY <1>11, <1>12, <2>1, NatInductive
<1>14. Legal(c, fold[D], n)
  BY <1>3, <1>13
<1> QED  BY <1>1, <1>2, <1>14

-----------------------------------------------------------------------------
(* The orders on selections.                                                *)

LEMMA BeforeOrders ==
    /\ \A p \in Seq(Nat) : ~Before(p, p)
    /\ \A p, q \in Seq(Nat) : p = q \/ Before(p, q) \/ Before(q, p)
    /\ \A p, q, r \in Seq(Nat) : Before(p, q) /\ Before(q, r) => Before(p, r)
<1>1. ASSUME NEW p \in Seq(Nat) PROVE ~Before(p, p)
  <2>1. Len(p) \in Nat /\ \A k \in 1 .. Len(p) : p[k] \in Nat
    BY ElementOfSeq
  <2> QED  BY <2>1 DEF Before
<1>2. ASSUME NEW p \in Seq(Nat), NEW q \in Seq(Nat), p # q
      PROVE  Before(p, q) \/ Before(q, p)
  <2> PICK m, n : m = Len(p) /\ n = Len(q)
    OBVIOUS
  <2>1. m \in Nat /\ n \in Nat /\ (\A k \in 1 .. m : p[k] \in Nat) /\ \A k \in 1 .. n : q[k] \in Nat
    BY ElementOfSeq
  <2> DEFINE T == {k \in Nat : k >= 1 /\ (k > m \/ k > n \/ p[k] # q[k])}
  <2>2. T # {} /\ T \subseteq Nat
    <3>1. m + 1 \in T
      BY <2>1
    <3> QED  BY <3>1
  <2>3. PICK k \in T : \A j \in T : k <= j
    <3> HIDE DEF T
    <3> QED  BY <2>2, LeastOf
  <2>4. k \in Nat /\ k >= 1 /\ (k > m \/ k > n \/ p[k] # q[k])
    BY <2>3
  <2>5. ASSUME NEW j \in 1 .. (k - 1) PROVE j <= m /\ j <= n /\ p[j] = q[j]
    <3>1. j \in Nat /\ j >= 1 /\ j < k
      BY <2>4
    <3>2. j \notin T
      <4> HIDE DEF T
      <4> QED  BY <2>3, <2>4, <3>1
    <3> QED  BY <2>1, <3>1, <3>2
  <2> HIDE DEF T
  <2>6. k <= m + 1 /\ k <= n + 1
    <3>1. CASE k = 1
      BY <2>1, <3>1
    <3>2. CASE k # 1
      <4>1. k - 1 \in 1 .. (k - 1)
        BY <2>4, <3>2
      <4>2. k - 1 <= m /\ k - 1 <= n
        BY <2>5, <4>1
      <4> QED  BY <2>1, <2>4, <4>2
    <3> QED  BY <3>1, <3>2
  <2>7. CASE k > m /\ k > n
    <3>1. m = n /\ k = m + 1
      BY <2>1, <2>4, <2>6, <2>7
    <3>2. \A j \in 1 .. m : p[j] = q[j]
      BY <2>1, <2>5, <3>1
    <3>3. p = q
      BY <3>1, <3>2, SeqEqual
    <3> QED  BY <1>2, <3>3
  <2>8. CASE k > m /\ k <= n
    <3>1. k \in 1 .. n /\ ~(k <= m)
      BY <2>1, <2>4, <2>8
    <3> QED  BY <2>5, <2>6, <3>1 DEF Before
  <2>9. CASE k <= m /\ k > n
    <3>1. k \in 1 .. m /\ ~(k <= n)
      BY <2>1, <2>4, <2>9
    <3>2. \A j \in 1 .. (k - 1) : q[j] = p[j]
      BY <2>5
    <3> QED  BY <2>6, <3>1, <3>2 DEF Before
  <2>10. CASE k <= m /\ k <= n
    <3>1. k \in 1 .. m /\ k \in 1 .. n /\ p[k] # q[k] /\ p[k] \in Nat /\ q[k] \in Nat
      BY <2>1, <2>4, <2>10
    <3>2. p[k] < q[k] \/ q[k] < p[k]
      BY <3>1
    <3>3. \A j \in 1 .. (k - 1) : q[j] = p[j]
      BY <2>5
    <3> QED  BY <2>5, <2>6, <3>1, <3>2, <3>3 DEF Before
  <2> QED  BY <2>1, <2>4, <2>7, <2>8, <2>9, <2>10
<1>3. ASSUME NEW p \in Seq(Nat), NEW q \in Seq(Nat), NEW r \in Seq(Nat),
             Before(p, q), Before(q, r)
      PROVE  Before(p, r)
  <2> PICK l, m, n : l = Len(p) /\ m = Len(q) /\ n = Len(r)
    OBVIOUS
  <2>1. /\ l \in Nat /\ m \in Nat /\ n \in Nat /\ \A k \in 1 .. l : p[k] \in Nat
        /\ (\A k \in 1 .. m : q[k] \in Nat) /\ \A k \in 1 .. n : r[k] \in Nat
    <3>1. l \in Nat /\ \A k \in 1 .. l : p[k] \in Nat
      BY ElementOfSeq
    <3>2. m \in Nat /\ \A k \in 1 .. m : q[k] \in Nat
      BY ElementOfSeq
    <3>3. n \in Nat /\ \A k \in 1 .. n : r[k] \in Nat
      BY ElementOfSeq
    <3> QED  BY <3>1, <3>2, <3>3
  <2>2. PICK k \in 1 .. m : /\ k <= l + 1 /\ \A j \in 1 .. (k - 1) : p[j] = q[j]
                            /\ k <= l => p[k] < q[k]
    BY <1>3 DEF Before
  <2>3. PICK h \in 1 .. n : /\ h <= m + 1 /\ \A j \in 1 .. (h - 1) : q[j] = r[j]
                            /\ h <= m => q[h] < r[h]
    BY <1>3 DEF Before
  <2>4. k \in Nat /\ h \in Nat /\ 1 <= k /\ 1 <= h /\ k <= m /\ h <= n
    BY <2>1
  <2>5. CASE k < h
    <3>1. k \in 1 .. n /\ k \in 1 .. (h - 1)
      BY <2>1, <2>4, <2>5
    <3>2. \A j \in 1 .. (k - 1) : j \in 1 .. (h - 1)
      BY <2>4, <2>5
    <3>3. \A j \in 1 .. (k - 1) : p[j] = r[j]
      BY <2>2, <2>3, <3>2
    <3>4. k <= l => p[k] < r[k]
      BY <2>2, <2>3, <3>1
    <3> QED  BY <2>2, <3>1, <3>3, <3>4 DEF Before
  <2>6. CASE h <= k
    <3>1. h <= l + 1 /\ h <= m /\ q[h] < r[h]
      BY <2>1, <2>2, <2>3, <2>4, <2>6
    <3>2. \A j \in 1 .. (h - 1) : j \in 1 .. (k - 1)
      BY <2>4, <2>6
    <3>3. \A j \in 1 .. (h - 1) : p[j] = r[j]
      BY <2>2, <2>3, <3>2
    <3>4. ASSUME h <= l PROVE p[h] < r[h]
      <4>1. h \in 1 .. l /\ h \in 1 .. m /\ h \in 1 .. n
        BY <2>1, <2>4, <3>1, <3>4
      <4>2. p[h] \in Nat /\ q[h] \in Nat /\ r[h] \in Nat
        BY <2>1, <4>1
      <4>3. p[h] <= q[h]
        <5>1. CASE h = k
          <6>1. p[h] < q[h]
            BY <2>2, <3>4, <5>1
          <6> QED  BY <4>2, <6>1
        <5>2. CASE h < k
          <6>1. h \in 1 .. (k - 1)
            BY <2>4, <5>2
          <6>2. p[h] = q[h]
            BY <2>2, <6>1
          <6> QED  BY <4>2, <6>2
        <5> QED  BY <2>4, <2>6, <5>1, <5>2
      <4> QED  BY <3>1, <4>2, <4>3
    <3> QED  BY <2>3, <3>1, <3>3, <3>4 DEF Before
  <2> QED  BY <2>4, <2>5, <2>6
<1> QED  BY <1>1, <1>2, <1>3

LEMMA OrdersFrom ==
    ASSUME NEW R, NEW S, \A x \in S : <<x, x>> \notin R,
           \A x, y \in S : x = y \/ <<x, y>> \in R \/ <<y, x>> \in R,
           \A x, y, z \in S : <<x, y>> \in R /\ <<y, z>> \in R => <<x, z>> \in R
    PROVE  Orders(R, S)
BY DEF Orders

ByRows(S) == {e \in S \X S : Before(e[1].picked, e[2].picked)}
ByCost(S) == {e \in S \X S : Cheaper(e[1], e[2])}
ByWorth(c, S) == {e \in S \X S : Better(c, e[1], e[2])}

Worth(c, s) == <<Represented(c, s), Satisfied(c, s), Covered(c, s)>>

LEMMA PickedSeq ==
    ASSUME NEW c \in Calls, NEW s, NEW n, Legal(c, s, n)
    PROVE  /\ s.picked \in Seq(Nat) /\ s.chars \in Nat /\ Worth(c, s) \in Seq(Nat)
           /\ Represented(c, s) \in Nat /\ Satisfied(c, s) \in Nat /\ Covered(c, s) \in Nat
<1>1. s.picked \in Seq(Rows) /\ s.chars \in Nat /\ s.cov \in [c.requested -> Nat]
  BY DEF Legal, SelType
<1>2. s.picked \in Seq(Nat)
  <2>1. Rows \subseteq Nat
    BY DEF Rows
  <2> QED  BY <1>1, <2>1, SeqMonotonic
<1>3. ASSUME NEW S \in SUBSET c.requested PROVE Cardinality(S) \in Nat
  BY CallIs, FS_Subset, FS_CardinalityType
<1>4. Represented(c, s) \in Nat
  BY <1>3 DEF Represented
<1>5. Satisfied(c, s) \in Nat
  BY <1>3 DEF Satisfied
<1>6. Covered(c, s) \in Nat
  <2> PICK w : w = s.cov
    OBVIOUS
  <2>1. Covered(c, s) = Total(w, c.requested)
    BY DEF Covered, Total
  <2>2. IsFiniteSet(c.requested)
    BY CallIs
  <2> QED  BY <1>1, <2>1, <2>2, TotalSteps
<1> QED  BY <1>1, <1>2, <1>4, <1>5, <1>6 DEF Worth

LEMMA RowsOrder ==
    ASSUME NEW c \in Calls, NEW S, NEW n, \A s \in S : Legal(c, s, n)
    PROVE  Orders(ByRows(S), S)
<1>1. ASSUME NEW s \in S PROVE s.picked \in Seq(Nat)
  BY PickedSeq
<1>2. \A x, y \in S : <<x, y>> \in ByRows(S) <=> Before(x.picked, y.picked)
  BY DEF ByRows
<1>3. \A x, y \in S : x.picked = y.picked => x = y
  BY RowsTell
<1>4. \A x \in S : <<x, x>> \notin ByRows(S)
  BY <1>1, <1>2, BeforeOrders
<1>5. \A x, y \in S : x = y \/ <<x, y>> \in ByRows(S) \/ <<y, x>> \in ByRows(S)
  BY <1>1, <1>2, <1>3, BeforeOrders
<1>6. \A x, y, z \in S : <<x, y>> \in ByRows(S) /\ <<y, z>> \in ByRows(S)
                            => <<x, z>> \in ByRows(S)
  BY <1>1, <1>2, BeforeOrders
<1> QED  BY <1>4, <1>5, <1>6, OrdersFrom

LEMMA CostOrder ==
    ASSUME NEW c \in Calls, NEW S, NEW n, \A s \in S : Legal(c, s, n)
    PROVE  Orders(ByCost(S), S)
<1>1. ASSUME NEW s \in S PROVE s.picked \in Seq(Nat) /\ s.chars \in Nat
  BY PickedSeq
<1>2. \A x, y \in S : <<x, y>> \in ByCost(S) <=> Cheaper(x, y)
  BY DEF ByCost
<1>3. \A x, y \in S : x.picked = y.picked => x = y
  BY RowsTell
<1>4. ASSUME NEW x \in S PROVE <<x, x>> \notin ByCost(S)
  <2>1. ~Before(x.picked, x.picked) /\ x.chars \in Nat
    BY <1>1, BeforeOrders
  <2> QED  BY <1>2, <2>1 DEF Cheaper
<1>5. ASSUME NEW x \in S, NEW y \in S
      PROVE  x = y \/ <<x, y>> \in ByCost(S) \/ <<y, x>> \in ByCost(S)
  <2>1. x = y \/ Before(x.picked, y.picked) \/ Before(y.picked, x.picked)
    BY <1>1, <1>3, BeforeOrders
  <2>2. x.chars < y.chars \/ y.chars < x.chars \/ x.chars = y.chars
    BY <1>1
  <2> QED  BY <1>2, <2>1, <2>2 DEF Cheaper
<1>6. ASSUME NEW x \in S, NEW y \in S, NEW z \in S,
             <<x, y>> \in ByCost(S), <<y, z>> \in ByCost(S)
      PROVE  <<x, z>> \in ByCost(S)
  <2>1. Cheaper(x, y) /\ Cheaper(y, z)
    BY <1>2, <1>6
  <2>2. Before(x.picked, y.picked) /\ Before(y.picked, z.picked)
           => Before(x.picked, z.picked)
    BY <1>1, BeforeOrders
  <2>3. x.chars \in Nat /\ y.chars \in Nat /\ z.chars \in Nat
    BY <1>1
  <2>4. Cheaper(x, z)
    BY <2>1, <2>2, <2>3 DEF Cheaper
  <2> QED  BY <1>2, <2>4
<1> QED  BY <1>4, <1>5, <1>6, OrdersFrom

LEMMA WorthOrder ==
    ASSUME NEW c \in Calls, NEW S, NEW n, \A s \in S : Legal(c, s, n)
    PROVE  Orders(ByWorth(c, S), S)
<1> DEFINE w(s) == Worth(c, s)
<1>1. ASSUME NEW s \in S PROVE s.picked \in Seq(Nat) /\ w(s) \in Seq(Nat)
  BY PickedSeq
<1>2. \A x, y \in S : <<x, y>> \in ByWorth(c, S) <=>
          IF w(x) = w(y) THEN Before(x.picked, y.picked) ELSE Before(w(y), w(x))
  BY DEF ByWorth, Better, Worth
<1>3. \A x, y \in S : x.picked = y.picked => x = y
  BY RowsTell
<1> HIDE DEF w
<1>4. ASSUME NEW x \in S PROVE <<x, x>> \notin ByWorth(c, S)
  BY <1>1, <1>2, BeforeOrders
<1>5. ASSUME NEW x \in S, NEW y \in S
      PROVE  x = y \/ <<x, y>> \in ByWorth(c, S) \/ <<y, x>> \in ByWorth(c, S)
  <2>1. x = y \/ Before(x.picked, y.picked) \/ Before(y.picked, x.picked)
    BY <1>1, <1>3, BeforeOrders
  <2>2. w(x) = w(y) \/ Before(w(x), w(y)) \/ Before(w(y), w(x))
    BY <1>1, BeforeOrders
  <2> QED  BY <1>2, <2>1, <2>2
<1>6. ASSUME NEW x \in S, NEW y \in S, NEW z \in S,
             <<x, y>> \in ByWorth(c, S), <<y, z>> \in ByWorth(c, S)
      PROVE  <<x, z>> \in ByWorth(c, S)
  <2>1. Before(x.picked, y.picked) /\ Before(y.picked, z.picked)
           => Before(x.picked, z.picked)
    BY <1>1, BeforeOrders
  <2>2. Before(w(z), w(y)) /\ Before(w(y), w(x)) => Before(w(z), w(x))
    BY <1>1, BeforeOrders
  <2>3. ~(w(x) = w(z) /\ Before(w(z), w(x)))
    BY <1>1, BeforeOrders
  <2> QED  BY <1>2, <1>6, <2>1, <2>2, <2>3
<1> QED  BY <1>4, <1>5, <1>6, OrdersFrom

\* Cheapest keeps one selection for each coverage and number of rows.
LEMMA CheapestCovers ==
    ASSUME NEW c \in Calls, NEW S, IsFiniteSet(S), NEW n, \A s \in S : Legal(c, s, n),
           NEW s \in S
    PROVE  \E z \in Cheapest(S) :
               z.cov = s.cov /\ Len(z.picked) = Len(s.picked) /\ z.chars <= s.chars
<1> DEFINE like == {z \in S : z.cov = s.cov /\ Len(z.picked) = Len(s.picked)}
<1>1. IsFiniteSet(like) /\ s \in like /\ \A z \in like : Legal(c, z, n)
  <2>1. like \in SUBSET S
    OBVIOUS
  <2>2. IsFiniteSet(like)
    <3> HIDE DEF like
    <3> QED  BY <2>1, FS_Subset
  <2> QED  BY <2>2
<1>2. \A z \in like : z \in S /\ z.cov = s.cov /\ Len(z.picked) = Len(s.picked)
  OBVIOUS
<1>3. \A z \in S : z.cov = s.cov /\ Len(z.picked) = Len(s.picked) => z \in like
  OBVIOUS
<1> HIDE DEF like
<1>4. Orders(ByCost(like), like)
  BY <1>1, CostOrder
<1>5. PICK x \in like : \A y \in like \ {x} : <<x, y>> \in ByCost(like)
  BY <1>1, <1>4, FirstOf
<1>6. \A y \in like \ {x} : Cheaper(x, y)
  BY <1>5 DEF ByCost
<1>7. \A y \in like : ~Cheaper(y, x)
  <2>1. ASSUME NEW y \in like, Cheaper(y, x) PROVE FALSE
    <3>1. <<y, x>> \in ByCost(like)
      BY <2>1 DEF ByCost
    <3>2. y = x \/ <<x, y>> \in ByCost(like)
      BY <1>5
    <3>3. <<x, x>> \in ByCost(like)
      BY <1>4, <3>1, <3>2 DEF Orders
    <3> QED  BY <1>4, <3>3 DEF Orders
  <2> QED  BY <2>1
<1>8. x \in Cheapest(S)
  BY <1>2, <1>3, <1>7 DEF Cheapest
<1>9. x.chars <= s.chars
  <2>1. x.chars \in Nat /\ s.chars \in Nat
    BY <1>1, PickedSeq
  <2>2. x = s \/ Cheaper(x, s)
    BY <1>1, <1>6
  <2> QED  BY <2>1, <2>2 DEF Cheaper
<1> QED  BY <1>2, <1>8, <1>9

-----------------------------------------------------------------------------
(* The selections that are kept, one row after the other.                   *)

Grow(c, S, i) == S \cup {Extend(c, s, i) : s \in {z \in S : Takes(c, z, i)}}

KeptStep(c) ==
    [e \in (SUBSET SelType(c)) \X Rows |-> Cheapest(Grow(c, e[1], e[2]))]

IsKept(c, kept) ==
    /\ kept[0] = {Nothing(c)} /\ kept[MaxRows] = Selections(c)
    /\ \A k \in Nat : k < MaxRows => kept[k + 1] = Cheapest(Grow(c, kept[k], k + 1))

LEMMA GrowIs ==
    ASSUME NEW c \in Calls, NEW S \in SUBSET SelType(c), NEW i \in Rows
    PROVE  /\ Grow(c, S, i) \in SUBSET SelType(c)
           /\ Cheapest(Grow(c, S, i)) \in SUBSET SelType(c)
           /\ IsFiniteSet(S) => IsFiniteSet(Grow(c, S, i)) /\ IsFiniteSet(Cheapest(Grow(c, S, i)))
<1>1. Grow(c, S, i) \in SUBSET SelType(c)
  BY ExtendType DEF Grow
<1>2. Cheapest(Grow(c, S, i)) \in SUBSET Grow(c, S, i)
  BY DEF Cheapest
<1>3. ASSUME IsFiniteSet(S) PROVE IsFiniteSet(Grow(c, S, i))
  <2> DEFINE T == {z \in S : Takes(c, z, i)}
             f == [s \in T |-> Extend(c, s, i)]
  <2>1. Grow(c, S, i) = S \cup {f[s] : s \in T}
    BY DEF Grow
  <2>2. T \in SUBSET S /\ DOMAIN f = T
    OBVIOUS
  <2> HIDE DEF T, f
  <2>3. IsFiniteSet(T)
    BY <1>3, <2>2, FS_Subset
  <2>4. IsFiniteSet({f[s] : s \in T})
    BY <2>2, <2>3, ValuesFinite
  <2>5. IsFiniteSet(S \cup {f[s] : s \in T})
    BY <1>3, <2>4, FS_Union
  <2> QED  BY <2>1, <2>5
<1> QED  BY <1>1, <1>2, <1>3, FS_Subset

LEMMA SelectionsAre ==
    ASSUME NEW c \in Calls
    PROVE  \E kept : IsKept(c, kept)
<1> DEFINE n == MaxRows
           D == 1 .. n
           V == SUBSET SelType(c)
           base == {Nothing(c)}
           Step(S, i) == Cheapest(Grow(c, S, i))
           seq == [i \in Rows |-> i]
           fold == CHOOSE it : it = [s \in SUBSET DOMAIN seq |->
                       IF s = {} THEN base ELSE Step(it[s \ {Max(s)}], seq[Max(s)])]
           st == KeptStep(c)
<1>1. Selections(c) = fold[DOMAIN seq]
  BY DEF Selections, FoldLeft, MapThenFoldSet, Grow
<1>2. DOMAIN seq = D /\ \A i \in D : seq[i] = i
  BY DEF Rows
<1>3. n \in Nat /\ D = Rows /\ base \in V
  BY CallIs, NothingIs DEF Rows
<1>4. ASSUME NEW S \in V, NEW i \in D PROVE Step(S, i) \in V
  BY <1>3, GrowIs
<1>5. st \in [V \X D -> V] /\ \A S \in V, i \in D : st[<<S, i>>] = Step(S, i)
  <2>1. st = [e \in V \X D |-> Step(e[1], e[2])]
    BY <1>3 DEF KeptStep
  <2> HIDE DEF V, Step, st, D
  <2> QED  BY <1>4, <2>1
<1>6. ASSUME NEW s \in SUBSET D, s # {} PROVE Max(s) \in D
  <2>1. s \subseteq 0 .. n
    BY <1>3
  <2>2. Max(s) \in s
    BY <1>3, <1>6, <2>1, MaxOf
  <2> QED  BY <2>2
<1> HIDE DEF st, V, Step, seq, base, fold
<1>7. PICK it \in [SUBSET D -> V] : InTurns(it, n, base, st)
  BY <1>3, <1>5, TurnsExist
<1>8. it = [s \in SUBSET DOMAIN seq |->
               IF s = {} THEN base ELSE Step(it[s \ {Max(s)}], seq[Max(s)])]
  <2>1. ASSUME NEW s \in SUBSET D, s # {}
        PROVE  st[<<it[s \ {Max(s)}], Max(s)>>] = Step(it[s \ {Max(s)}], seq[Max(s)])
    <3>1. Max(s) \in D /\ it[s \ {Max(s)}] \in V
      BY <1>6, <2>1
    <3> QED  BY <1>2, <1>5, <3>1
  <2> HIDE DEF D
  <2> QED  BY <1>2, <1>7, <2>1 DEF InTurns, D
<1>9. fold = [s \in SUBSET DOMAIN seq |->
                 IF s = {} THEN base ELSE Step(fold[s \ {Max(s)}], seq[Max(s)])]
  BY <1>8 DEF fold
<1>10. \A s \in SUBSET D : fold[s] = IF s = {} THEN base
                                     ELSE Step(fold[s \ {Max(s)}], seq[Max(s)])
  <2> HIDE DEF D
  <2> QED  BY <1>2, <1>9
<1> DEFINE kept == [k \in 0 .. n |-> fold[1 .. k]]
<1>11. kept[0] = {Nothing(c)}
  <2>1. 1 .. 0 = {} /\ {} \in SUBSET D /\ 0 \in 0 .. n
    BY <1>3
  <2> QED  BY <1>10, <2>1 DEF base
<1>12. kept[n] = Selections(c)
  BY <1>1, <1>2, <1>3
<1>13. ASSUME NEW k \in Nat, k < n PROVE kept[k + 1] = Step(kept[k], k + 1)
  <2> PICK S, U : S = 1 .. (k + 1) /\ U = 1 .. k
    OBVIOUS
  <2>1. S \in SUBSET D /\ S # {} /\ Max(S) = k + 1 /\ S \ {k + 1} = U /\ k + 1 \in D
    BY <1>3, <1>13, LastTurn
  <2>2. fold[S] = Step(fold[U], k + 1)
    BY <1>2, <1>10, <2>1
  <2>3. k \in 0 .. n /\ k + 1 \in 0 .. n
    BY <1>3, <1>13
  <2> QED  BY <2>2, <2>3
<1> HIDE DEF kept
<1>14. IsKept(c, kept)
  BY <1>11, <1>12, <1>13 DEF IsKept, Step
<1> QED  BY <1>14

LEMMA KeptIs ==
    ASSUME NEW c \in Calls, NEW kept, IsKept(c, kept), NEW m \in Nat, m <= MaxRows
    PROVE  IsFiniteSet(kept[m]) /\ \A s \in kept[m] : Legal(c, s, m)
<1> DEFINE T == {k \in Nat : k <= MaxRows => /\ IsFiniteSet(kept[k])
                                             /\ \A s \in kept[k] : Legal(c, s, k)}
<1>1. 0 \in T
  <2>1. kept[0] = {Nothing(c)} /\ IsFiniteSet({Nothing(c)})
    BY FS_Singleton DEF IsKept
  <2> QED  BY <2>1, NothingIs
<1>2. ASSUME NEW k \in T PROVE k + 1 \in T
  <2>1. SUFFICES ASSUME k + 1 <= MaxRows
                 PROVE  /\ IsFiniteSet(kept[k + 1])
                        /\ \A s \in kept[k + 1] : Legal(c, s, k + 1)
    OBVIOUS
  <2>2. MaxRows \in Nat
    BY CallIs
  <2>3. k \in Nat /\ k < MaxRows /\ k <= MaxRows /\ k + 1 \in Rows
    BY <2>1, <2>2 DEF Rows
  <2>4. IsFiniteSet(kept[k]) /\ \A s \in kept[k] : Legal(c, s, k)
    BY <2>3
  <2>5. kept[k + 1] = Cheapest(Grow(c, kept[k], k + 1))
    BY <2>3 DEF IsKept
  <2> HIDE DEF T
  <2>6. kept[k] \in SUBSET SelType(c)
    BY <2>4 DEF Legal
  <2>7. IsFiniteSet(kept[k + 1])
    BY <2>3, <2>4, <2>5, <2>6, GrowIs
  <2>8. ASSUME NEW s \in kept[k + 1] PROVE Legal(c, s, k + 1)
    <3>1. s \in Grow(c, kept[k], k + 1)
      BY <2>5, <2>8 DEF Cheapest
    <3>2. CASE s \in kept[k]
      BY <2>3, <2>4, <3>2, LegalStays
    <3>3. ASSUME NEW z \in kept[k], Takes(c, z, k + 1), s = Extend(c, z, k + 1)
          PROVE  Legal(c, s, k + 1)
      BY <2>3, <2>4, <3>3, ExtendIs
    <3> QED  BY <3>1, <3>2, <3>3 DEF Grow
  <2> QED  BY <2>7, <2>8
<1>3. T = Nat
  <2> HIDE DEF T
  <2>1. T \subseteq Nat
    BY DEF T
  <2> QED  BY <1>1, <1>2, <2>1, NatInductive
<1> QED  BY <1>3

-----------------------------------------------------------------------------
(* No choice of rows within the limits is better than all that are kept.    *)

\* s reaches the coverage of the rows U, and costs no more than they.
AsGood(c, s, U) ==
    /\ s.cov = Capped(c, U)
    /\ s.chars <= Chars(c, U)
    /\ Len(s.picked) <= Cardinality(U)

LEMMA RowTaken ==
    ASSUME NEW c \in Calls, NEW S \in SUBSET Rows, Within(c, S), NEW U \in SUBSET S,
           NEW i \in S \ U, NEW s, NEW k, Legal(c, s, k), AsGood(c, s, U),
           Advance(c, s.cov, i) # s.cov
    PROVE  Takes(c, s, i)
<1> PICK W : W = U \cup {i}
  OBVIOUS
<1>1. U \in SUBSET Rows /\ W \in SUBSET S /\ W \in SUBSET Rows /\ i \in Rows \ U
      /\ IsFiniteSet(S) /\ IsFiniteSet(U)
  BY CallIs, FS_Subset
<1>2. Len(s.picked) \in Nat /\ s.chars \in Nat /\ s.cov \in [c.requested -> Nat]
  BY PickedRows DEF Legal, SelType
<1>3. /\ Cardinality(W) = Cardinality(U) + 1 /\ Cardinality(W) <= Cardinality(S)
      /\ Cardinality(U) \in Nat /\ Cardinality(S) \in Nat /\ Cardinality(S) <= c.sources
      /\ c.sources \in Nat
  <2>1. Cardinality(W) = Cardinality(U) + 1
    BY <1>1, FS_AddElement
  <2>2. Cardinality(W) <= Cardinality(S)
    BY <1>1, FS_Subset
  <2> QED  BY <1>1, <2>1, <2>2, FS_CardinalityType, CallIs DEF Within
<1>4. s.chars + c.size[i] <= c.chars
  <2>1. /\ Chars(c, W) = Chars(c, U) + c.size[i] /\ Chars(c, W) <= Chars(c, S)
        /\ Chars(c, U) \in Nat /\ Chars(c, S) \in Nat
    BY <1>1, CharsAre
  <2>2. s.chars <= Chars(c, U) /\ Chars(c, S) <= c.chars /\ c.chars \in Nat /\ c.size[i] \in Nat
    BY <1>1, CallIs DEF AsGood, Within
  <2> PICK a, b, d, z : a = s.chars /\ b = Chars(c, U) /\ d = Chars(c, S) /\ z = c.size[i]
    OBVIOUS
  <2> QED  BY <1>2, <2>1, <2>2
<1>5. ASSUME NEW t \in c.requested
      PROVE  /\ s.cov[t] <= Bounded(c, t) /\ Bounded(c, t) \in Nat
             /\ Advance(c, s.cov, i)[t] # s.cov[t] => s.cov[t] # Bounded(c, t)
  <2> PICK b, d, m : b = Bounded(c, t) /\ d = s.cov[t] /\ m = Coverage(c, U, t)
    OBVIOUS
  <2>1. b \in Nat /\ m \in Nat /\ d = IF b <= m THEN b ELSE m
    BY <1>1, BoundIs, CoverageGrows, CappedIs DEF AsGood
  <2>2. d <= b
    BY <2>1
  <2>3. Advance(c, s.cov, i)[t] = IF Contributes(c, i, t) THEN Min({b, d + 1}) ELSE d
    BY DEF Advance
  <2>4. Min({b, d + 1}) = IF b <= d + 1 THEN b ELSE d + 1
    BY <2>1, SmallerOf
  <2> QED  BY <2>1, <2>2, <2>3, <2>4
<1>6. Len(s.picked) < CountLimit(c)
  <2> DEFINE v == [t \in c.requested |-> Bounded(c, t)]
  <2> PICK w, D : w = s.cov /\ D = c.requested
    OBVIOUS
  <2>1. v \in [D -> Nat] /\ w \in [D -> Nat] /\ IsFiniteSet(D)
    BY <1>2, <1>5, CallIs
  <2>2. \A t \in D : w[t] <= v[t]
    BY <1>5
  <2>3. w # v
    <3>1. PICK t \in D : Advance(c, w, i)[t] # w[t]
      BY <2>1 DEF Advance
    <3>2. w[t] # v[t]
      BY <1>5, <3>1
    <3> QED  BY <3>2
  <2>4. CountLimit(c) = Min({c.sources, Total(v, D)})
    BY DEF CountLimit, Total
  <2> HIDE DEF v
  <2>5. Total(w, D) < Total(v, D)
    BY <2>1, <2>2, <2>3, TotalMore
  <2>6. Total(w, D) \in Nat /\ Total(v, D) \in Nat
    BY <2>1, TotalSteps
  <2>7. CountLimit(c) = IF c.sources <= Total(v, D) THEN c.sources ELSE Total(v, D)
    BY <1>3, <2>4, <2>6, SmallerOf
  <2>8. Len(s.picked) <= Total(w, D) /\ Len(s.picked) <= Cardinality(U)
    BY DEF Legal, AsGood
  <2> QED  BY <1>2, <1>3, <2>5, <2>6, <2>7, <2>8
<1>7. ASSUME "voice" \in c.requested \cap Matched(c, i)
      PROVE  s.cov["voice"] < Bounded(c, "voice")
  <2> PICK q, b, m, l, n : /\ q = QuotaTarget(c, "voice") /\ b = Bounded(c, "voice")
                           /\ m = Coverage(c, U, "voice") /\ l = Coverage(c, W, "voice")
                           /\ n = Coverage(c, S, "voice")
    OBVIOUS
  <2>1. q \in Nat /\ b = IF q <= c.sources THEN q ELSE c.sources
    BY BoundIs
  <2>2. m \in Nat /\ l = m + 1
    BY <1>1, <1>7, CoverageGrows, VoicedIs
  <2>3. l <= n /\ n \in Nat /\ n <= Cardinality(S)
    BY <1>1, CoverageGrows
  <2>4. n <= q
    BY <1>7, VoicedIs DEF Within
  <2>5. s.cov["voice"] = IF b <= m THEN b ELSE m
    BY <1>1, <1>7, CappedIs DEF AsGood
  <2>6. m < b
    BY <1>3, <2>1, <2>2, <2>3, <2>4
  <2> QED  BY <1>3, <2>1, <2>2, <2>5, <2>6
<1> QED  BY <1>4, <1>6, <1>7 DEF Takes

\* A selection that is as good as U has one that is as good with the next row.
LEMMA NextAsGood ==
    ASSUME NEW c \in Calls, NEW S \in SUBSET Rows, Within(c, S), NEW U \in SUBSET S,
           NEW i \in Rows \ U, NEW T \in SUBSET SelType(c), NEW s \in T,
           NEW k, Legal(c, s, k), AsGood(c, s, U),
           NEW W, W = IF i \in S THEN U \cup {i} ELSE U
    PROVE  \E z \in Grow(c, T, i) : AsGood(c, z, W)
<1>1. s \in Grow(c, T, i)
  BY DEF Grow
<1>2. CASE i \notin S
  BY <1>1, <1>2
<1>3. CASE i \in S
  <2>1. W = U \cup {i} /\ U \in SUBSET Rows /\ IsFiniteSet(U) /\ W \in SUBSET Rows
    BY <1>3, CallIs, FS_Subset
  <2>2. Capped(c, W) = Advance(c, s.cov, i)
    BY <2>1, CappedIs DEF AsGood
  <2>3. /\ Chars(c, W) = Chars(c, U) + c.size[i] /\ Chars(c, U) \in Nat
        /\ c.size[i] \in Nat
    BY <2>1, CharsAre, CallIs
  <2>4. Cardinality(W) = Cardinality(U) + 1 /\ Cardinality(U) \in Nat
    BY <2>1, FS_AddElement, FS_CardinalityType
  <2>5. /\ s.chars <= Chars(c, U) /\ Len(s.picked) <= Cardinality(U)
        /\ s.chars \in Nat /\ Len(s.picked) \in Nat
    BY PickedRows DEF AsGood, Legal, SelType
  <2>6. CASE Advance(c, s.cov, i) = s.cov
    <3>1. s.chars <= Chars(c, W) /\ Len(s.picked) <= Cardinality(W)
      <4> PICK a, b, d, m, n : /\ a = s.chars /\ b = Chars(c, U) /\ d = c.size[i]
                               /\ m = Len(s.picked) /\ n = Cardinality(U)
        OBVIOUS
      <4> QED  BY <2>3, <2>4, <2>5
    <3>2. AsGood(c, s, W)
      BY <2>2, <2>6, <3>1 DEF AsGood
    <3> QED  BY <1>1, <1>3, <3>2
  <2>7. CASE Advance(c, s.cov, i) # s.cov
    <3> PICK e : e = Extend(c, s, i)
      OBVIOUS
    <3>1. Takes(c, s, i)
      BY <1>3, <2>7, RowTaken
    <3>2. e \in Grow(c, T, i)
      BY <3>1 DEF Grow
    <3>3. /\ e.cov = Advance(c, s.cov, i) /\ e.chars = s.chars + c.size[i]
          /\ Len(e.picked) = Len(s.picked) + 1
      BY ExtendType
    <3>4. e.chars <= Chars(c, W) /\ Len(e.picked) <= Cardinality(W)
      <4> PICK a, b, d, m, n : /\ a = s.chars /\ b = Chars(c, U) /\ d = c.size[i]
                               /\ m = Len(s.picked) /\ n = Cardinality(U)
        OBVIOUS
      <4> QED  BY <2>3, <2>4, <2>5, <3>3
    <3>5. AsGood(c, e, W)
      BY <2>2, <3>3, <3>4 DEF AsGood
    <3> QED  BY <1>3, <3>2, <3>5
  <2> QED  BY <2>6, <2>7
<1> QED  BY <1>2, <1>3

LEMMA Dominated ==
    ASSUME NEW c \in Calls, NEW S \in SUBSET Rows, Within(c, S)
    PROVE  \E s \in Selections(c) : s.cov = Capped(c, S)
<1>1. PICK kept : IsKept(c, kept)
  BY SelectionsAre
<1>2. MaxRows \in Nat
  BY CallIs
<1> DEFINE Upto(k) == S \cap (1 .. k)
           T == {k \in Nat : k <= MaxRows => \E s \in kept[k] : AsGood(c, s, Upto(k))}
<1>3. 0 \in T
  <2>1. kept[0] = {Nothing(c)} /\ Upto(0) = {}
    BY <1>1 DEF IsKept
  <2> PICK s : s = Nothing(c)
    OBVIOUS
  <2>2. Legal(c, s, 0) /\ s.chars = 0 /\ s.picked = <<>>
    BY NothingIs DEF Nothing
  <2>3. Picked(s) = {} /\ Len(s.picked) = 0
    BY <2>2 DEF Picked
  <2>4. Chars(c, {}) = 0 /\ Cardinality({}) = 0
    BY CharsAre, FS_EmptySet
  <2>5. AsGood(c, s, {})
    BY <2>2, <2>3, <2>4 DEF AsGood, Legal
  <2> QED  BY <2>1, <2>5
<1>4. ASSUME NEW k \in T PROVE k + 1 \in T
  <2>0. k + 1 \in Nat
    OBVIOUS
  <2>1. SUFFICES ASSUME k + 1 <= MaxRows PROVE \E s \in kept[k + 1] : AsGood(c, s, Upto(k + 1))
    <3> HIDE DEF Upto
    <3> QED  BY <2>0
  <2>2. k \in Nat /\ k < MaxRows /\ k <= MaxRows /\ k + 1 \in Rows /\ k + 1 <= MaxRows
        /\ k + 1 \in Nat
    BY <1>2, <2>1 DEF Rows
  <2>3. PICK s \in kept[k] : AsGood(c, s, Upto(k))
    BY <2>2
  <2>4. IsFiniteSet(kept[k]) /\ \A z \in kept[k] : Legal(c, z, k)
    BY <1>1, <2>2, KeptIs
  <2>5. kept[k + 1] = Cheapest(Grow(c, kept[k], k + 1)) /\ kept[k] \in SUBSET SelType(c)
    BY <1>1, <2>2, <2>4 DEF IsKept, Legal
  <2> PICK i, U, G : i = k + 1 /\ U = Upto(k) /\ G = Grow(c, kept[k], i)
    OBVIOUS
  <2>6. U \in SUBSET S /\ i \in Rows \ U /\ Upto(k + 1) = IF i \in S THEN U \cup {i} ELSE U
    <3>1. 1 .. (k + 1) = 1 .. k \cup {k + 1} /\ k + 1 \notin 1 .. k
      BY <2>2
    <3> QED  BY <2>2, <3>1
  <2> HIDE DEF T, Upto
  <2>7. PICK z \in G : AsGood(c, z, Upto(k + 1))
    <3>1. Legal(c, s, k) /\ AsGood(c, s, U)
      BY <2>3, <2>4
    <3> PICK last : last = kept[k]
      OBVIOUS
    <3>2. last \in SUBSET SelType(c) /\ s \in last /\ i \in Rows \ U /\ U \in SUBSET S
      BY <2>3, <2>5, <2>6
    <3> PICK W : W = IF i \in S THEN U \cup {i} ELSE U
      OBVIOUS
    <3>3. /\ c \in Calls /\ S \in SUBSET Rows /\ Within(c, S) /\ U \in SUBSET S
          /\ i \in Rows \ U /\ last \in SUBSET SelType(c) /\ s \in last
          /\ Legal(c, s, k) /\ AsGood(c, s, U) /\ W = IF i \in S THEN U \cup {i} ELSE U
      BY <3>1, <3>2
    <3>4. \E z \in Grow(c, last, i) : AsGood(c, z, W)
      BY ONLY <3>3, NextAsGood, SMTT(60)
    <3> QED  BY <2>6, <3>4
  <2>8. IsFiniteSet(G)
    BY <2>2, <2>4, <2>5, GrowIs
  <2>9. ASSUME NEW x \in G PROVE Legal(c, x, k + 1)
    <3>1. CASE x \in kept[k]
      BY <2>2, <2>4, <3>1, LegalStays
    <3>2. ASSUME NEW y \in kept[k], Takes(c, y, k + 1), x = Extend(c, y, k + 1)
          PROVE  Legal(c, x, k + 1)
      BY <2>2, <2>4, <3>2, ExtendIs
    <3> QED  BY <3>1, <3>2 DEF Grow
  <2>10. PICK x \in Cheapest(G) :
             x.cov = z.cov /\ Len(x.picked) = Len(z.picked) /\ x.chars <= z.chars
    BY <2>8, <2>9, CheapestCovers
  <2>11. x \in kept[k + 1] /\ x \in G
    BY <2>5, <2>10 DEF Cheapest
  <2>12. x.chars <= Chars(c, Upto(k + 1))
    <3>1. x.chars \in Nat /\ z.chars \in Nat
      BY <2>9, <2>11, PickedSeq
    <3>2. Upto(k + 1) \in SUBSET Rows
      BY DEF Upto
    <3>3. Chars(c, Upto(k + 1)) \in Nat
      BY <3>2, CharsAre
    <3>4. z.chars <= Chars(c, Upto(k + 1))
      BY <2>7 DEF AsGood
    <3> QED  BY <2>10, <3>1, <3>3, <3>4
  <2>13. AsGood(c, x, Upto(k + 1))
    BY <2>7, <2>10, <2>12 DEF AsGood
  <2> QED  BY <2>11, <2>13
<1>5. T = Nat
  <2> HIDE DEF T
  <2>1. T \subseteq Nat
    BY DEF T
  <2> QED  BY <1>3, <1>4, <2>1, NatInductive
<1>6. PICK s \in kept[MaxRows] : AsGood(c, s, Upto(MaxRows))
  BY <1>2, <1>5
<1>7. Upto(MaxRows) = S /\ kept[MaxRows] = Selections(c)
  BY <1>1 DEF IsKept, Rows
<1> QED  BY <1>6, <1>7 DEF AsGood

-----------------------------------------------------------------------------
(* The selection that is chosen.                                            *)

LEMMA TripleFirst ==
    ASSUME NEW k \in Nat, NEW l \in Nat, NEW m \in Nat,
           NEW x \in Nat, NEW y \in Nat, NEW z \in Nat,
           Before(<<k, l, m>>, <<x, y, z>>)
    PROVE  k <= x
<1> PICK p, q : p = <<k, l, m>> /\ q = <<x, y, z>>
  OBVIOUS
<1>1. Len(p) = 3 /\ Len(q) = 3 /\ p[1] = k /\ q[1] = x
  OBVIOUS
<1>2. PICK h \in 1 .. 3 : /\ \A j \in 1 .. (h - 1) : p[j] = q[j]
                          /\ h <= 3 => p[h] < q[h]
  BY <1>1 DEF Before
<1>3. CASE h = 1
  BY <1>1, <1>2, <1>3
<1>4. CASE h # 1
  <2>1. 1 \in 1 .. (h - 1)
    BY <1>4
  <2> QED  BY <1>1, <1>2, <2>1
<1> QED  BY <1>3, <1>4

LEMMA ChosenIs ==
    ASSUME NEW c \in Calls
    PROVE  \E s : /\ Legal(c, s, MaxRows) /\ QuotaRows(c) = Picked(s)
                  /\ (\E z \in Selections(c) : Complete(c, z)) => Complete(c, s)
                  /\ \/ Complete(c, s)
                     \/ \A z \in Selections(c) : Represented(c, z) <= Represented(c, s)
<1> DEFINE path == RankedPath(c)
           all == Selections(c)
           complete == {s \in all : Complete(c, s)}
           first == CHOOSE s \in complete : \A z \in complete \ {s} : Before(s.picked, z.picked)
           best == CHOOSE s \in all : \A z \in all \ {s} : Better(c, s, z)
           chosen == IF Complete(c, path) THEN path
                     ELSE IF complete # {} THEN first ELSE best
<1>1. QuotaRows(c) = Picked(chosen)
  BY DEF QuotaRows, Picked
<1>2. Legal(c, path, MaxRows)
  BY PathIs
<1>3. IsFiniteSet(all) /\ \A s \in all : Legal(c, s, MaxRows)
  <2>1. PICK kept : IsKept(c, kept)
    BY SelectionsAre
  <2>2. kept[MaxRows] = all
    BY <2>1 DEF IsKept
  <2>3. MaxRows \in Nat /\ MaxRows <= MaxRows
    BY CallIs
  <2> QED  BY <2>1, <2>2, <2>3, KeptIs
<1>4. all # {}
  <2>1. {} \in SUBSET Rows /\ Within(c, {})
    <3>1. Legal(c, Nothing(c), 0)
      BY NothingIs
    <3>2. Picked(Nothing(c)) = {}
      BY DEF Picked, Nothing
    <3> QED  BY <3>1, <3>2 DEF Legal
  <2> QED  BY <2>1, Dominated
<1>5. complete \in SUBSET all /\ \A s \in all : s \in complete <=> Complete(c, s)
  OBVIOUS
<1>6. CASE Complete(c, path)
  BY <1>1, <1>2, <1>6
<1>7. CASE ~Complete(c, path) /\ complete # {}
  <2> HIDE DEF complete, all, path
  <2>1. IsFiniteSet(complete)
    BY <1>3, <1>5, FS_Subset
  <2>2. Orders(ByRows(complete), complete)
    <3>1. \A s \in complete : Legal(c, s, MaxRows)
      BY <1>3, <1>5
    <3> QED  BY <3>1, RowsOrder
  <2>3. \E s \in complete : \A z \in complete \ {s} : <<s, z>> \in ByRows(complete)
    BY <1>7, <2>1, <2>2, FirstOf
  <2>4. \E s \in complete : \A z \in complete \ {s} : Before(s.picked, z.picked)
    BY <2>3 DEF ByRows
  <2>5. first \in complete
    BY <2>4
  <2>6. chosen = first
    BY <1>7
  <2> HIDE DEF chosen, first
  <2>7. Legal(c, chosen, MaxRows) /\ Complete(c, chosen)
    BY <1>3, <1>5, <2>5, <2>6
  <2> QED  BY <1>1, <2>7
<1>8. CASE ~Complete(c, path) /\ complete = {}
  <2>1. \A z \in all : ~Complete(c, z)
    BY <1>8
  <2>2. chosen = best
    BY <1>8
  <2> HIDE DEF complete, all, path, chosen
  <2>3. Orders(ByWorth(c, all), all)
    BY <1>3, WorthOrder
  <2>4. \E s \in all : \A z \in all \ {s} : <<s, z>> \in ByWorth(c, all)
    BY <1>3, <1>4, <2>3, FirstOf
  <2>5. \E s \in all : \A z \in all \ {s} : Better(c, s, z)
    BY <2>4 DEF ByWorth
  <2>6. best \in all /\ \A z \in all \ {best} : Better(c, best, z)
    BY <2>5
  <2> HIDE DEF best
  <2> PICK s : s = best
    OBVIOUS
  <2>7. ASSUME NEW z \in all PROVE Represented(c, z) <= Represented(c, s)
    <3>1. /\ Represented(c, z) \in Nat /\ Satisfied(c, z) \in Nat /\ Covered(c, z) \in Nat
          /\ Represented(c, s) \in Nat /\ Satisfied(c, s) \in Nat /\ Covered(c, s) \in Nat
      BY <1>3, <2>6, PickedSeq
    <3>2. CASE z = s
      BY <3>1, <3>2
    <3>3. CASE z # s
      <4>1. Better(c, s, z)
        BY <2>6, <3>3
      <4>2. \/ Worth(c, s) = Worth(c, z)
            \/ Before(Worth(c, z), Worth(c, s))
        BY <4>1 DEF Better, Worth
      <4>3. CASE Worth(c, s) = Worth(c, z)
        <5>1. Represented(c, s) = Represented(c, z)
          BY <4>3 DEF Worth
        <5> QED  BY <3>1, <5>1
      <4>4. CASE Before(Worth(c, z), Worth(c, s))
        BY <3>1, <4>4, TripleFirst DEF Worth
      <4> QED  BY <4>2, <4>3, <4>4
    <3> QED  BY <3>2, <3>3
  <2>8. Legal(c, s, MaxRows) /\ QuotaRows(c) = Picked(s)
    BY <1>1, <1>3, <2>2, <2>6
  <2> QED  BY <2>1, <2>7, <2>8 DEF all
<1> QED  BY <1>6, <1>7, <1>8

-----------------------------------------------------------------------------
(* The rows that are added.                                                 *)

FillStep(c) ==
    [e \in (SUBSET Rows) \X Rows |->
        IF CanAdd(c, e[1], e[2]) THEN e[1] \cup {e[2]} ELSE e[1]]

LEMMA AddWithin ==
    ASSUME NEW c \in Calls, NEW S \in SUBSET Rows, NEW i \in Rows, Within(c, S), CanAdd(c, S, i)
    PROVE  Within(c, S \cup {i})
<1> PICK W : W = S \cup {i}
  OBVIOUS
<1>1. i \in Rows \ S /\ IsFiniteSet(S) /\ W \in SUBSET Rows
  BY CallIs, FS_Subset DEF CanAdd
<1>2. Cardinality(W) <= c.sources
  <2>1. Cardinality(W) = Cardinality(S) + 1 /\ Cardinality(S) \in Nat
    BY <1>1, FS_AddElement, FS_CardinalityType
  <2>2. Cardinality(S) < c.sources /\ c.sources \in Nat
    BY CallIs DEF CanAdd
  <2> QED  BY <2>1, <2>2
<1>3. Chars(c, W) <= c.chars
  BY <1>1, CharsAre DEF CanAdd
<1>4. ASSUME "voice" \in c.requested PROVE Cardinality(Voiced(c, W)) <= QuotaTarget(c, "voice")
  <2>1. Coverage(c, W, "voice") = IF "voice" \in Matched(c, i) THEN Coverage(c, S, "voice") + 1
                                  ELSE Coverage(c, S, "voice")
    BY <1>1, CoverageGrows, VoicedIs
  <2>2. Coverage(c, S, "voice") \in Nat /\ QuotaTarget(c, "voice") \in Nat
    BY CoverageGrows, BoundIs
  <2>3. Coverage(c, S, "voice") <= QuotaTarget(c, "voice")
    BY <1>4, VoicedIs DEF Within
  <2>4. "voice" \in Matched(c, i) => Coverage(c, S, "voice") < QuotaTarget(c, "voice")
    BY VoicedIs DEF CanAdd
  <2>5. Coverage(c, W, "voice") <= QuotaTarget(c, "voice")
    <3> PICK m, n, q : /\ m = Coverage(c, S, "voice") /\ n = Coverage(c, W, "voice")
                       /\ q = QuotaTarget(c, "voice")
      OBVIOUS
    <3> QED  BY <2>1, <2>2, <2>3, <2>4
  <2> QED  BY <2>5, VoicedIs
<1> QED  BY <1>2, <1>3, <1>4 DEF Within

LEMMA FilledIs ==
    ASSUME NEW c \in Calls, NEW S \in SUBSET Rows, Within(c, S)
    PROVE  Filled(c, S) \in SUBSET Rows /\ S \subseteq Filled(c, S) /\ Within(c, Filled(c, S))
<1> DEFINE n == MaxRows
           D == 1 .. n
           V == SUBSET Rows
           Step(U, i) == IF CanAdd(c, U, i) THEN U \cup {i} ELSE U
           seq == [i \in Rows |-> i]
           fold == CHOOSE it : it = [s \in SUBSET DOMAIN seq |->
                       IF s = {} THEN S ELSE Step(it[s \ {Max(s)}], seq[Max(s)])]
           st == FillStep(c)
<1>1. Filled(c, S) = fold[DOMAIN seq]
  BY DEF Filled, FoldLeft, MapThenFoldSet
<1>2. DOMAIN seq = D /\ \A i \in D : seq[i] = i
  BY DEF Rows
<1>3. n \in Nat /\ D = Rows /\ S \in V
  BY CallIs DEF Rows
<1>4. ASSUME NEW U \in V, NEW i \in D PROVE Step(U, i) \in V
  BY <1>3
<1>5. st \in [V \X D -> V] /\ \A U \in V, i \in D : st[<<U, i>>] = Step(U, i)
  <2>1. st = [e \in V \X D |-> Step(e[1], e[2])]
    BY <1>3 DEF FillStep
  <2> HIDE DEF V, Step, st, D
  <2> QED  BY <1>4, <2>1
<1>6. ASSUME NEW s \in SUBSET D, s # {} PROVE Max(s) \in D
  <2>1. s \subseteq 0 .. n
    BY <1>3
  <2>2. Max(s) \in s
    BY <1>3, <1>6, <2>1, MaxOf
  <2> QED  BY <2>2
<1> HIDE DEF st, V, Step, seq, fold
<1>7. PICK it \in [SUBSET D -> V] : InTurns(it, n, S, st)
  BY <1>3, <1>5, TurnsExist
<1>8. it = [s \in SUBSET DOMAIN seq |->
               IF s = {} THEN S ELSE Step(it[s \ {Max(s)}], seq[Max(s)])]
  <2>1. ASSUME NEW s \in SUBSET D, s # {}
        PROVE  st[<<it[s \ {Max(s)}], Max(s)>>] = Step(it[s \ {Max(s)}], seq[Max(s)])
    <3>1. Max(s) \in D /\ it[s \ {Max(s)}] \in V
      BY <1>6, <2>1
    <3> QED  BY <1>2, <1>5, <3>1
  <2> HIDE DEF D
  <2> QED  BY <1>2, <1>7, <2>1 DEF InTurns, D
<1>9. fold = [s \in SUBSET DOMAIN seq |->
                 IF s = {} THEN S ELSE Step(fold[s \ {Max(s)}], seq[Max(s)])]
  BY <1>8 DEF fold
<1>10. \A s \in SUBSET D : fold[s] = IF s = {} THEN S
                                     ELSE Step(fold[s \ {Max(s)}], seq[Max(s)])
  <2> HIDE DEF D
  <2> QED  BY <1>2, <1>9
<1> DEFINE Good(U) == U \in SUBSET Rows /\ S \subseteq U /\ Within(c, U)
           T == {k \in Nat : k <= n => Good(fold[1 .. k])}
<1>11. 0 \in T
  <2>1. 1 .. 0 = {} /\ {} \in SUBSET D
    OBVIOUS
  <2>2. fold[1 .. 0] = S
    BY <1>10, <2>1
  <2> QED  BY <2>2
<1>12. ASSUME NEW k \in T PROVE k + 1 \in T
  <2>1. SUFFICES ASSUME k + 1 <= n PROVE Good(fold[1 .. (k + 1)])
    OBVIOUS
  <2>2. k \in Nat /\ k < n /\ Good(fold[1 .. k])
    BY <1>3, <2>1
  <2> PICK R, U, x : R = 1 .. (k + 1) /\ U = 1 .. k /\ x = fold[U]
    OBVIOUS
  <2>3. R \in SUBSET D /\ R # {} /\ Max(R) = k + 1 /\ R \ {k + 1} = U /\ k + 1 \in D
    BY <1>3, <2>1, <2>2, LastTurn
  <2>4. fold[R] = Step(x, k + 1)
    BY <1>2, <1>10, <2>3
  <2>5. Good(x) /\ k + 1 \in Rows
    BY <1>3, <2>2, <2>3
  <2>6. Good(Step(x, k + 1))
    BY <2>5, AddWithin DEF Step
  <2> HIDE DEF Good
  <2> QED  BY <2>4, <2>6
<1>13. T = Nat
  <2> HIDE DEF T
  <2>1. T \subseteq Nat
    BY DEF T
  <2> QED  BY <1>11, <1>12, <2>1, NatInductive
<1>14. Good(fold[D])
  BY <1>3, <1>13
<1> QED  BY <1>1, <1>2, <1>14

\* An intent that has a source within the limits has a capped coverage.
LEMMA KeptShown ==
    ASSUME NEW c \in Calls, NEW S \in SUBSET Rows, Within(c, S), NEW t \in c.requested
    PROVE  /\ Capped(c, S)[t] > 0 <=> Coverage(c, S, t) > 0
           /\ Coverage(c, S, t) > 0 => Bounded(c, t) > 0
           /\ Capped(c, S)[t] >= Bounded(c, t) <=> Coverage(c, S, t) >= Bounded(c, t)
<1> PICK b, m, q, n : /\ b = Bounded(c, t) /\ m = Coverage(c, S, t) /\ q = QuotaTarget(c, t)
                      /\ n = Cardinality(S)
  OBVIOUS
<1>1. q \in Nat \ {0} /\ b \in Nat /\ b = IF q <= c.sources THEN q ELSE c.sources
  BY BoundIs
<1>2. m \in Nat /\ n \in Nat /\ m <= n
  BY CoverageGrows
<1>3. n <= c.sources /\ c.sources \in Nat
  BY CallIs DEF Within
<1>4. Capped(c, S)[t] = IF b <= m THEN b ELSE m
  BY CappedIs
<1>5. m > 0 => b > 0
  BY <1>1, <1>2, <1>3
<1> QED  BY <1>1, <1>2, <1>4, <1>5

\* The rows of a call are the best within its limits.
LEMMA AllocatedBest ==
    ASSUME NEW c \in Calls, NEW rows, rows = Filled(c, QuotaRows(c))
    PROVE  /\ rows \in SUBSET Rows /\ Within(c, rows)
           /\ \A S \in SUBSET Rows : Within(c, S) =>
                 /\ MeetsQuotas(c, S) => MeetsQuotas(c, rows)
                 /\ KeptIntents(c, S) <= KeptIntents(c, rows)
<1>1. PICK s : /\ Legal(c, s, MaxRows) /\ QuotaRows(c) = Picked(s)
               /\ (\E z \in Selections(c) : Complete(c, z)) => Complete(c, s)
               /\ \/ Complete(c, s)
                  \/ \A z \in Selections(c) : Represented(c, z) <= Represented(c, s)
  BY ChosenIs
<1> PICK P : P = Picked(s)
  OBVIOUS
<1>2. P \in SUBSET Rows /\ Within(c, P) /\ s.cov = Capped(c, P)
  BY <1>1, PickedRows DEF Legal
<1>3. rows \in SUBSET Rows /\ P \in SUBSET rows /\ Within(c, rows)
  BY <1>1, <1>2, FilledIs
<1>4. ASSUME NEW t \in c.requested
      PROVE  /\ Coverage(c, P, t) <= Coverage(c, rows, t)
             /\ Coverage(c, P, t) \in Nat /\ Coverage(c, rows, t) \in Nat
             /\ Bounded(c, t) \in Nat
  BY <1>2, <1>3, CoverageGrows, BoundIs
<1>5. ASSUME NEW S \in SUBSET Rows, Within(c, S), MeetsQuotas(c, S)
      PROVE  MeetsQuotas(c, rows)
  <2>1. PICK z \in Selections(c) : z.cov = Capped(c, S)
    BY <1>5, Dominated
  <2>2. Complete(c, z)
    <3>1. ASSUME NEW t \in c.requested PROVE z.cov[t] = Bounded(c, t)
      <4>1. Coverage(c, S, t) >= Bounded(c, t)
        BY <1>5 DEF MeetsQuotas
      <4>2. Capped(c, S)[t] = IF Bounded(c, t) <= Coverage(c, S, t)
                              THEN Bounded(c, t) ELSE Coverage(c, S, t)
        BY CappedIs
      <4>3. Bounded(c, t) \in Nat /\ Coverage(c, S, t) \in Nat
        BY BoundIs, CoverageGrows
      <4>4. Bounded(c, t) <= Coverage(c, S, t)
        BY <4>1, <4>3
      <4> QED  BY <2>1, <4>2, <4>4
    <3> QED  BY <3>1 DEF Complete
  <2>3. Complete(c, s)
    BY <1>1, <2>2
  <2>4. ASSUME NEW t \in c.requested PROVE Coverage(c, rows, t) >= Bounded(c, t)
    <3>1. Capped(c, P)[t] = Bounded(c, t)
      BY <1>2, <2>3 DEF Complete
    <3>2. Coverage(c, P, t) >= Bounded(c, t)
      <4>1. Capped(c, P)[t] >= Bounded(c, t)
        BY <1>4, <3>1
      <4> QED  BY <1>2, <4>1, KeptShown
    <3> PICK b, m, n : b = Bounded(c, t) /\ m = Coverage(c, P, t) /\ n = Coverage(c, rows, t)
      OBVIOUS
    <3> QED  BY <1>4, <3>2
  <2> QED  BY <2>4 DEF MeetsQuotas
<1>6. ASSUME NEW S \in SUBSET Rows, Within(c, S)
      PROVE  KeptIntents(c, S) <= KeptIntents(c, rows)
  <2> DEFINE Shown(U) == {t \in c.requested : Coverage(c, U, t) > 0}
  <2>1. ASSUME NEW U
        PROVE  IsFiniteSet(Shown(U)) /\ Cardinality(Shown(U)) \in Nat
               /\ KeptIntents(c, U) = Cardinality(Shown(U))
    <3>1. Shown(U) \in SUBSET c.requested
      OBVIOUS
    <3>2. KeptIntents(c, U) = Cardinality(Shown(U))
      BY DEF KeptIntents
    <3> HIDE DEF Shown
    <3> QED  BY <3>1, <3>2, CallIs, FS_Subset, FS_CardinalityType
  <2>2. Shown(P) \in SUBSET Shown(rows)
    <3>1. ASSUME NEW t \in c.requested, Coverage(c, P, t) > 0 PROVE Coverage(c, rows, t) > 0
      <4> PICK m, n : m = Coverage(c, P, t) /\ n = Coverage(c, rows, t)
        OBVIOUS
      <4> QED  BY <1>4, <3>1
    <3> QED  BY <3>1
  <2>3. Cardinality(Shown(P)) <= Cardinality(Shown(rows))
    <3> HIDE DEF Shown
    <3> QED  BY <2>1, <2>2, FS_Subset
  <2>4. Cardinality(Shown(S)) <= Cardinality(Shown(P))
    <3>1. CASE Complete(c, s)
      <4>1. ASSUME NEW t \in c.requested, Coverage(c, S, t) > 0 PROVE Coverage(c, P, t) > 0
        <5>1. Bounded(c, t) > 0
          BY <1>6, <4>1, KeptShown
        <5>2. Capped(c, P)[t] = Bounded(c, t)
          BY <1>2, <3>1 DEF Complete
        <5> QED  BY <1>2, <5>1, <5>2, KeptShown
      <4>2. Shown(S) \in SUBSET Shown(P)
        BY <4>1
      <4> HIDE DEF Shown
      <4> QED  BY <2>1, <4>2, FS_Subset
    <3>2. CASE ~Complete(c, s)
      <4>1. PICK z \in Selections(c) : z.cov = Capped(c, S)
        BY <1>6, Dominated
      <4>2. Represented(c, z) <= Represented(c, s)
        BY <1>1, <3>2
      <4>3. Represented(c, z) = Cardinality(Shown(S))
        <5>1. \A t \in c.requested : z.cov[t] > 0 <=> Coverage(c, S, t) > 0
          BY <1>6, <4>1, KeptShown
        <5>2. {t \in c.requested : z.cov[t] > 0} = Shown(S)
          BY <5>1
        <5> QED  BY <5>2 DEF Represented
      <4>4. Represented(c, s) = Cardinality(Shown(P))
        <5>1. \A t \in c.requested : s.cov[t] > 0 <=> Coverage(c, P, t) > 0
          BY <1>2, KeptShown
        <5>2. {t \in c.requested : s.cov[t] > 0} = Shown(P)
          BY <5>1
        <5> QED  BY <5>2 DEF Represented
      <4> QED  BY <4>2, <4>3, <4>4
    <3> QED  BY <3>1, <3>2
  <2> HIDE DEF Shown
  <2> QED  BY <2>1, <2>3, <2>4
<1> QED  BY <1>3, <1>5, <1>6

-----------------------------------------------------------------------------
(* The specification.                                                       *)

BudgetInv ==
    /\ BudgetTypeOK
    /\ allocation.returned => allocation.rows = Filled(call, QuotaRows(call))

LEMMA BudgetStep ==
    ASSUME BudgetInv, [BudgetNext]_budgetVars
    PROVE  BudgetInv'
<1>1. CASE BudgetNext
  <2>1. call \in Calls /\ call' = call
    BY <1>1 DEF BudgetNext, AllocateSources, BudgetInv, BudgetTypeOK
  <2> PICK rows : rows = Filled(call, QuotaRows(call))
    OBVIOUS
  <2>2. allocation' = [returned |-> TRUE, rows |-> rows]
    BY <1>1 DEF BudgetNext, AllocateSources
  <2>3. rows \in SUBSET Rows
    BY <2>1, AllocatedBest
  <2>4. Filled(call, QuotaRows(call))' = rows
    BY <2>1
  <2> QED  BY <2>1, <2>2, <2>3, <2>4 DEF BudgetInv, BudgetTypeOK
<1>2. CASE UNCHANGED budgetVars
  BY <1>2 DEF BudgetInv, BudgetTypeOK, budgetVars
<1> QED  BY <1>1, <1>2

LEMMA BudgetInvShows ==
    ASSUME BudgetInv
    PROVE  AllocationIsBest
<1>1. call \in Calls
  BY DEF BudgetInv, BudgetTypeOK
<1>2. ASSUME allocation.returned
      PROVE  LET choices == {S \in SUBSET Rows : Within(call, S)}
             IN  /\ allocation.rows \in choices
                 /\ (\E S \in choices : MeetsQuotas(call, S))
                        => MeetsQuotas(call, allocation.rows)
                 /\ \A S \in choices : KeptIntents(call, S) <= KeptIntents(call, allocation.rows)
  <2> PICK rows : rows = allocation.rows
    OBVIOUS
  <2>1. rows = Filled(call, QuotaRows(call))
    BY <1>2 DEF BudgetInv
  <2>2. /\ rows \in SUBSET Rows /\ Within(call, rows)
        /\ \A S \in SUBSET Rows : Within(call, S) =>
              /\ MeetsQuotas(call, S) => MeetsQuotas(call, rows)
              /\ KeptIntents(call, S) <= KeptIntents(call, rows)
    BY <1>1, <2>1, AllocatedBest
  <2> QED  BY <2>2
<1> QED  BY <1>2 DEF BudgetInv, AllocationIsBest

LEMMA BudgetStarts ==
    ASSUME BudgetInit
    PROVE  BudgetInv
BY DEF BudgetInit, BudgetInv, BudgetTypeOK

\* The rows allocate_sources returns keep the limits on sources, characters and
\* voice lines; they fill all quotas if any rows within the limits do, and no rows
\* within the limits keep more of the requested intents, although
\* _select_quota_row_indices follows only the cheapest selection for each coverage.
THEOREM BudgetSafety == BudgetSpec => []AllocationIsBest
<1>1. BudgetInit => BudgetInv
  BY BudgetStarts
<1>2. BudgetInv /\ [BudgetNext]_budgetVars => BudgetInv'
  BY BudgetStep
<1>3. BudgetInv => AllocationIsBest
  BY BudgetInvShows
<1> QED  BY <1>1, <1>2, <1>3, PTL DEF BudgetSpec

-----------------------------------------------------------------------------
(* The parts together.                                                      *)

StandaloneInv == ActivationInv /\ BackendInv /\ SupervisorInv /\ BudgetInv

LEMMA StandaloneStarts ==
    ASSUME StandaloneInit
    PROVE  StandaloneInv
<1>1. Init /\ SupervisorInit /\ BudgetInit
  BY DEF StandaloneInit
<1>2. ActivationInv
  BY <1>1, InitInv
<1>3. BackendInv
  BY <1>1, InitBackend
<1>4. SupervisorInv
  BY <1>1, InitEstablishesInv
<1>5. BudgetInv
  BY <1>1, BudgetStarts
<1> QED  BY <1>2, <1>3, <1>4, <1>5 DEF StandaloneInv

LEMMA StandaloneKeeps ==
    ASSUME StandaloneInv, [StandaloneNext]_allVars
    PROVE  StandaloneInv'
<1>1. /\ [Next]_vars
      /\ [SupervisorNext]_supervisorVars
      /\ [BudgetNext]_budgetVars
  BY DEF StandaloneNext, allVars, InActivation, InSupervisor, InBudget
<1>2. ActivationInv /\ BackendInv /\ SupervisorInv /\ BudgetInv
  BY DEF StandaloneInv
<1>3. ActivationInv'
  BY <1>1, <1>2, NextInv
<1>4. BackendInv'
  BY <1>1, <1>2, NextBackend
<1>5. SupervisorInv'
  BY <1>1, <1>2, StepKeepsInv
<1>6. BudgetInv'
  BY <1>1, <1>2, BudgetStep
<1> QED  BY <1>3, <1>4, <1>5, <1>6 DEF StandaloneInv

\* In a behaviour of the composition that the model checker follows, the promises
\* of all three parts hold at once: apply_activation's evidence and backends, one
\* runner of a worker, the best allocation.
THEOREM StandaloneSafety ==
    StandaloneSpec =>
        [](/\ SettledAuthority /\ EvidenceExclusive /\ BackendsKnown
           /\ OneRunner /\ AllocationIsBest)
<1>1. StandaloneInit => StandaloneInv
  BY StandaloneStarts
<1>2. StandaloneInv /\ [StandaloneNext]_allVars => StandaloneInv'
  BY StandaloneKeeps
<1>3. ASSUME StandaloneInv
      PROVE  /\ SettledAuthority /\ EvidenceExclusive /\ BackendsKnown
             /\ OneRunner /\ AllocationIsBest
  <2>1. ActivationInv /\ BackendInv /\ SupervisorInv /\ BudgetInv
    BY <1>3 DEF StandaloneInv
  <2>2. SettledAuthority /\ EvidenceExclusive
    BY <2>1 DEF ActivationInv, FilesInv, EvidenceInv
  <2>3. TypeOK /\ SwitchOffline
    BY <2>1, ListenersRead, ShapesKnown
  <2>4. NoStrayBackend
    BY <2>1 DEF BackendInv, ApplyInv, NoStrayBackend
  <2>5. BackendsKnown
    BY <2>1, <2>3, <2>4 DEF BackendsKnown
  <2>6. OneRunner
    BY <2>1, InvImpliesOneRunner
  <2>7. AllocationIsBest
    BY <2>1, BudgetInvShows
  <2> QED  BY <2>2, <2>5, <2>6, <2>7
<1> QED  BY <1>1, <1>2, <1>3, PTL DEF StandaloneSpec

=============================================================================
