--------------------------- MODULE GenerationZero ---------------------------
(***************************************************************************)
(* The bootstrap of generation zero (src/huiji_rag/generation_zero.py):    *)
(* inspect freezes the protected state of the installed build in a new     *)
(* root, apply creates the first active pointer under a journal, recover   *)
(* finishes what an interrupted apply left.                                *)
(*                                                                         *)
(* apply and recover run under bootstrap_lock, inspect does not.  One      *)
(* action is one durable write with the reads before it.  A refusal writes *)
(* nothing and is the absence of a step.                                   *)
(***************************************************************************)
EXTENDS Naturals, FiniteSets

CONSTANTS
    Bootstraps,  \* bootstrap identifiers
    MaxKills,    \* bound of kills and errors of the commands (checking only)
    MaxDrifts    \* bound of changes of the protected stores (same)

ASSUME BootstrapAssumption ==
    /\ MaxKills \in Nat /\ MaxDrifts \in Nat
    /\ Bootstraps \cap {"none", "candidate"} = {}

VARIABLES
    pointer,     \* active_build.v1.json: the bootstrap that wrote it, the
                 \* candidate an activation put there, or "none"
    temps,       \* bootstraps whose temporary pointer file exists
    root,        \* how far inspect came with the root of a bootstrap
    before,      \* the protected stores as inspect froze them
    strangers,   \* bootstraps since whose snapshot another one wrote a file
    ledger,      \* the last state of bootstrap_journal, or "none"
    after,       \* the status in protected_state.after, or "none"
    pin,         \* the sidecar of the journal
    receipt,     \* the receipt and its sidecar
    failure,     \* bootstraps with failure evidence
    stores,      \* the protected stores now
    runner,      \* the command that holds the lock
    kills, drifts

evidenceVars == <<after, pin, receipt, failure>>
inspectVars == <<root, before>>
gzVars == <<pointer, temps, inspectVars, strangers, ledger, evidenceVars, stores,
            runner, kills, drifts>>

-----------------------------------------------------------------------------
(* Files. *)

Stores == {"frozen", "changed"}

LedgerNext ==
    [none |-> {"prepared"},
     prepared |-> {"pointer_written", "verification_failed", "conflict"},
     pointer_written |-> {"verified", "verification_failed", "conflict"},
     verified |-> {"committed", "verification_failed", "conflict"},
     verification_failed |-> {"compensating", "conflict"},
     compensating |-> {"rolled_back", "conflict"},
     rolled_back |-> {}, committed |-> {}, conflict |-> {}]

LedgerStates == DOMAIN LedgerNext

(* A file written create-new exists before it is complete, and before its    *)
(* sidecar: only "pinned" passes load_hash_pinned_json.                      *)
Written == {"none", "torn", "pinned"}

(* A capture lists every file below the processed root: a file of b is drift *)
(* for every snapshot of another bootstrap that exists or is being taken.    *)
Touch(b) == strangers' = strangers \cup {c \in Bootstraps \ {b} : root[c] # "absent"}

(* What protected_compare reports of b, whose own files are allowed, its     *)
(* temporary pointer excepted.                                               *)
Drifted(b) == stores # before[b] \/ b \in strangers \/ b \in temps

AppendEvent(b, state) ==
    /\ state \in LedgerNext[ledger[b]]
    /\ ledger' = [ledger EXCEPT ![b] = state]
    /\ Touch(b)

(* What validate_bootstrap_receipt asks of the receipt of b. *)
ValidReceipt(b) ==
    /\ receipt[b] = "pinned" /\ pin[b] = "pinned"
    /\ pointer = b /\ ledger[b] = "committed"

-----------------------------------------------------------------------------
(* inspect_generation_zero *)

(* The command captures the protected state, and finds it unchanged since    *)
(* the trusted compare the operator names.                                   *)
Capture(b) ==
    /\ root[b] = "absent"
    /\ root' = [root EXCEPT ![b] = "captured"]
    /\ before' = [before EXCEPT ![b] = stores]
    /\ strangers' = strangers \ {b}
    /\ UNCHANGED <<pointer, temps, ledger, evidenceVars, stores, runner, kills, drifts>>

(* The root must be new and the pointer absent. *)
CreateRoot(b) ==
    /\ root[b] = "captured" /\ pointer = "none"
    /\ root' = [root EXCEPT ![b] = "writing"]
    /\ Touch(b)
    /\ UNCHANGED <<pointer, temps, before, ledger, evidenceVars, stores, runner,
                   kills, drifts>>

(* The intent is the last file and names the others. *)
FreezeIntent(b) ==
    /\ root[b] = "writing"
    /\ root' = [root EXCEPT ![b] = "inspected"]
    /\ Touch(b)
    /\ UNCHANGED <<pointer, temps, before, ledger, evidenceVars, stores, runner,
                   kills, drifts>>

(* inspect is refused, fails or is killed: a root without intent is useless, *)
(* and its identifier spent.                                                 *)
InspectEnds(b) ==
    /\ root[b] \in {"captured", "writing"} /\ kills < MaxKills
    /\ root' = [root EXCEPT ![b] = IF @ = "captured" THEN "absent" ELSE "partial"]
    /\ kills' = kills + 1
    /\ UNCHANGED <<pointer, temps, before, strangers, ledger, evidenceVars, stores,
                   runner, drifts>>

-----------------------------------------------------------------------------
(* The command under the lock. *)

NoRunner == [op |-> "none"]

Running(op, b, pc) == [op |-> op, id |-> b, pc |-> pc]

Steps == {"temp", "link", "unlink", "written", "verify", "compare", "commit",
          "pin", "pinned", "receipt", "receipted", "check",
          "failed", "compensate", "remove", "removed", "report"}

Idle == runner = NoRunner

At(b, pc) == runner \in {Running("apply", b, pc), Running("recover", b, pc)}

Goto(pc) == runner' = [runner EXCEPT !.pc = pc]

(* apply_generation_zero: a pristine transaction without drift. *)
Apply(b) ==
    /\ Idle /\ root[b] = "inspected"
    /\ pointer = "none" /\ ledger[b] = "none" /\ receipt[b] = "none" /\ b \notin failure
    /\ ~Drifted(b)
    /\ AppendEvent(b, "prepared")
    /\ runner' = Running("apply", b, "temp")
    /\ UNCHANGED <<pointer, temps, inspectVars, evidenceVars, stores, kills, drifts>>

\* Mutant of ResumeAt: a prepared journal has its pointer.
ResumeAtPointer(b) ==
    CASE ledger[b] = "prepared" -> "written"
      [] ledger[b] = "pointer_written" -> "verify"
      [] ledger[b] = "verified" -> "compare"
      [] ledger[b] = "committed" -> "pin"

(* Where recover resumes a journal. *)
ResumeAt(b) ==
    CASE ledger[b] = "prepared" -> IF pointer = b THEN "written" ELSE "temp"
      [] ledger[b] = "pointer_written" -> "verify"
      [] ledger[b] = "verified" -> "compare"
      [] ledger[b] = "committed" -> "pin"

(* recover_generation_zero: the pointer is its own, or not yet written. *)
Recoverable(b) ==
    /\ root[b] = "inspected" /\ b \notin failure
    /\ ledger[b] \in {"prepared", "pointer_written", "verified", "committed"}
    /\ pointer = b \/ (pointer = "none" /\ ledger[b] = "prepared")

Recover(b) ==
    /\ Idle /\ Recoverable(b)
    /\ runner' = Running("recover", b, ResumeAt(b))
    /\ UNCHANGED <<pointer, temps, inspectVars, strangers, ledger, evidenceVars, stores,
                   kills, drifts>>

-----------------------------------------------------------------------------
(* create_pointer_cas: a complete temporary file is linked to the name. *)

WriteTemp(b) ==
    /\ At(b, "temp") /\ b \notin temps
    /\ temps' = temps \cup {b}
    /\ Touch(b) /\ Goto("link")
    /\ UNCHANGED <<pointer, inspectVars, ledger, evidenceVars, stores, kills, drifts>>

Link(b) ==
    /\ At(b, "link") /\ pointer = "none"
    /\ pointer' = b
    /\ Touch(b) /\ Goto("unlink")
    /\ UNCHANGED <<temps, inspectVars, ledger, evidenceVars, stores, kills, drifts>>

UnlinkTemp(b) ==
    /\ At(b, "unlink")
    /\ temps' = temps \ {b}
    /\ Goto("written")
    /\ UNCHANGED <<pointer, inspectVars, strangers, ledger, evidenceVars, stores, kills,
                   drifts>>

-----------------------------------------------------------------------------
(* The rest of a bootstrap, as apply and recover share it. *)

JournalWritten(b) ==
    /\ At(b, "written")
    /\ AppendEvent(b, "pointer_written") /\ Goto("verify")
    /\ UNCHANGED <<pointer, temps, inspectVars, evidenceVars, stores, kills, drifts>>

(* The runtime resolves the pointer, verifies, answers, and the wiki is      *)
(* ready; otherwise CommandFails.                                            *)
Verify(b) ==
    /\ At(b, "verify")
    /\ AppendEvent(b, "verified") /\ Goto("compare")
    /\ UNCHANGED <<pointer, temps, inspectVars, evidenceVars, stores, kills, drifts>>

(* apply records the comparison whatever it shows, then fails if it shows a  *)
(* change; recover stops before it, and keeps a record it finds.             *)
Compare(b) ==
    /\ At(b, "compare")
    /\ \/ /\ runner.op = "apply"
          /\ after' = [after EXCEPT ![b] = IF Drifted(b) THEN "blocked" ELSE "pass"]
          /\ Goto(IF Drifted(b) THEN "failed" ELSE "commit")
       \/ /\ runner.op = "recover" /\ ~Drifted(b)
          /\ after' = [after EXCEPT ![b] = IF @ = "none" THEN "pass" ELSE @]
          /\ Goto("commit")
    /\ Touch(b)
    /\ UNCHANGED <<pointer, temps, inspectVars, ledger, pin, receipt, failure, stores,
                   kills, drifts>>

Commit(b) ==
    /\ At(b, "commit")
    /\ AppendEvent(b, "committed") /\ Goto("pin")
    /\ UNCHANGED <<pointer, temps, inspectVars, evidenceVars, stores, kills, drifts>>

\* Mutant of PinJournal: a complete sidecar is not accepted.
PinJournalOnce(b) ==
    /\ \/ /\ At(b, "pin") /\ pin[b] = "none"
          /\ pin' = [pin EXCEPT ![b] = "torn"] /\ Goto("pinned")
       \/ At(b, "pinned") /\ pin' = [pin EXCEPT ![b] = "pinned"] /\ Goto("receipt")
    /\ Touch(b)
    /\ UNCHANGED <<pointer, temps, inspectVars, ledger, after, receipt, failure, stores,
                   kills, drifts>>

(* _write_journal_sidecar, which accepts a complete sidecar. *)
PinJournal(b) ==
    /\ \/ /\ At(b, "pin") /\ pin[b] = "none"
          /\ pin' = [pin EXCEPT ![b] = "torn"] /\ Goto("pinned")
       \/ /\ At(b, "pin") /\ pin[b] = "pinned"
          /\ Goto("receipt") /\ UNCHANGED pin
       \/ /\ At(b, "pinned")
          /\ pin' = [pin EXCEPT ![b] = "pinned"] /\ Goto("receipt")
    /\ Touch(b)
    /\ UNCHANGED <<pointer, temps, inspectVars, ledger, after, receipt, failure, stores,
                   kills, drifts>>

(* The receipt and then its sidecar; recover keeps a receipt it finds. *)
WriteReceipt(b) ==
    /\ \/ /\ At(b, "receipt") /\ receipt[b] = "none" /\ after[b] # "none"
          /\ receipt' = [receipt EXCEPT ![b] = "torn"] /\ Goto("receipted")
       \/ /\ At(b, "receipt") /\ receipt[b] # "none" /\ runner.op = "recover"
          /\ Goto("check") /\ UNCHANGED receipt
       \/ /\ At(b, "receipted")
          /\ receipt' = [receipt EXCEPT ![b] = "pinned"] /\ Goto("check")
    /\ Touch(b)
    /\ UNCHANGED <<pointer, temps, inspectVars, ledger, after, pin, failure, stores,
                   kills, drifts>>

(* The command reports the receipt it validated. *)
Done(b) ==
    /\ At(b, "check") /\ ValidReceipt(b)
    /\ runner' = NoRunner
    /\ UNCHANGED <<pointer, temps, inspectVars, strangers, ledger, evidenceVars, stores,
                   kills, drifts>>

-----------------------------------------------------------------------------
(* Failures. *)

(* A command may fail at a step of its own accord, or because it cannot go   *)
(* on: the temporary file is in the way, recover sees drift, the sidecar of  *)
(* the journal is torn, the receipt is not valid.                            *)
Stuck(b) ==
    \/ At(b, "temp") /\ b \in temps
    \/ At(b, "link") /\ pointer # "none"
    \/ At(b, "compare") /\ runner.op = "recover" /\ Drifted(b)
    \/ At(b, "pin") /\ pin[b] = "torn"
    \/ At(b, "receipt") /\ after[b] = "none"
    \/ At(b, "check") /\ ~ValidReceipt(b)

(* An error removes the temporary file of this command and a receipt whose   *)
(* sidecar it could not write.  apply then handles it, recover ends.         *)
CommandFails(b) ==
    /\ \E pc \in Steps \ {"failed", "compensate", "remove", "removed", "report"} :
          At(b, pc)
    /\ \/ Stuck(b) /\ UNCHANGED kills
       \/ kills < MaxKills /\ kills' = kills + 1
    /\ temps' = IF At(b, "link") \/ At(b, "unlink") THEN temps \ {b} ELSE temps
    /\ receipt' = [receipt EXCEPT ![b] = IF At(b, "receipted") THEN "none" ELSE @]
    /\ runner' = IF runner.op = "apply" THEN Running("apply", b, "failed") ELSE NoRunner
    /\ UNCHANGED <<pointer, inspectVars, strangers, ledger, after, pin, failure, stores,
                   drifts>>

\* Mutant of Handle: a committed journal is handled like any other.
HandleCommitted(b) ==
    /\ At(b, "failed")
    /\ IF ledger[b] # "committed" /\ pointer = b
       THEN AppendEvent(b, "verification_failed") /\ Goto("compensate")
       ELSE Goto("report") /\ UNCHANGED <<ledger, strangers>>
    /\ UNCHANGED <<pointer, temps, inspectVars, evidenceVars, stores, kills, drifts>>

(* The handler of apply: a pointer of its own is removed unless the journal  *)
(* is committed.                                                             *)
Handle(b) ==
    /\ At(b, "failed")
    /\ IF ledger[b] # "committed" /\ pointer = b
       THEN AppendEvent(b, "verification_failed") /\ Goto("compensate")
       ELSE /\ runner' = IF ledger[b] = "committed" THEN NoRunner
                         ELSE Running("apply", b, "report")
            /\ UNCHANGED <<ledger, strangers>>
    /\ UNCHANGED <<pointer, temps, inspectVars, evidenceVars, stores, kills, drifts>>

Compensate(b) ==
    /\ At(b, "compensate")
    /\ AppendEvent(b, "compensating") /\ Goto("remove")
    /\ UNCHANGED <<pointer, temps, inspectVars, evidenceVars, stores, kills, drifts>>

RemovePointer(b) ==
    /\ At(b, "remove")
    /\ pointer' = "none" /\ Goto("removed")
    /\ UNCHANGED <<temps, inspectVars, strangers, ledger, evidenceVars, stores, kills,
                   drifts>>

RolledBack(b) ==
    /\ At(b, "removed")
    /\ AppendEvent(b, "rolled_back") /\ Goto("report")
    /\ UNCHANGED <<pointer, temps, inspectVars, evidenceVars, stores, kills, drifts>>

ReportFailure(b) ==
    /\ At(b, "report")
    /\ failure' = IF receipt[b] = "none" THEN failure \cup {b} ELSE failure
    /\ Touch(b) /\ runner' = NoRunner
    /\ UNCHANGED <<pointer, temps, inspectVars, ledger, after, pin, receipt, stores,
                   kills, drifts>>

(* The command is killed, or its handler fails: the lock is released. *)
Kill ==
    /\ ~Idle /\ kills < MaxKills
    /\ runner' = NoRunner /\ kills' = kills + 1
    /\ UNCHANGED <<pointer, temps, inspectVars, strangers, ledger, evidenceVars, stores,
                   drifts>>

-----------------------------------------------------------------------------
(* The rest of the system. *)

(* A protected store changes, or changes back. *)
Drift ==
    /\ drifts < MaxDrifts /\ drifts' = drifts + 1
    /\ stores' = CHOOSE s \in Stores : s # stores
    /\ UNCHANGED <<pointer, temps, inspectVars, strangers, ledger, evidenceVars, runner,
                   kills>>

(* An activation replaces the pointer of a bootstrap whose receipt is valid  *)
(* and whose comparison passed.                                              *)
Activate(b) ==
    /\ Idle /\ ValidReceipt(b) /\ after[b] = "pass"
    /\ pointer' = "candidate"
    /\ UNCHANGED <<temps, inspectVars, strangers, ledger, evidenceVars, stores, runner,
                   kills, drifts>>

-----------------------------------------------------------------------------

GZInit ==
    /\ pointer = "none" /\ temps = {} /\ strangers = {} /\ failure = {}
    /\ root = [b \in Bootstraps |-> "absent"]
    /\ before = [b \in Bootstraps |-> "frozen"]
    /\ ledger = [b \in Bootstraps |-> "none"]
    /\ after = [b \in Bootstraps |-> "none"]
    /\ pin = [b \in Bootstraps |-> "none"]
    /\ receipt = [b \in Bootstraps |-> "none"]
    /\ stores = "frozen" /\ runner = NoRunner
    /\ kills = 0 /\ drifts = 0

Inspect(b) == Capture(b) \/ CreateRoot(b) \/ FreezeIntent(b) \/ InspectEnds(b)

CreatePointer(b) == WriteTemp(b) \/ Link(b) \/ UnlinkTemp(b)

Finish(b) ==
    JournalWritten(b) \/ Verify(b) \/ Compare(b) \/ Commit(b) \/ PinJournal(b)
        \/ WriteReceipt(b) \/ Done(b)

Fail(b) ==
    CommandFails(b) \/ Handle(b) \/ Compensate(b) \/ RemovePointer(b) \/ RolledBack(b)
        \/ ReportFailure(b)

GZNext ==
    \/ \E b \in Bootstraps :
          Inspect(b) \/ Apply(b) \/ Recover(b) \/ CreatePointer(b) \/ Finish(b) \/ Fail(b)
              \/ Activate(b)
    \/ Kill
    \/ Drift

(* A command under way goes on, and the operator runs recover until every    *)
(* bootstrap has its receipt; the lock is held for a while by each.          *)
Proceed(b) == CreatePointer(b) \/ Finish(b) \/ Fail(b)
Repair(b) == Recover(b) /\ ~ValidReceipt(b)
GZFairness == \A b \in Bootstraps : WF_gzVars(Proceed(b)) /\ SF_gzVars(Repair(b))

GZSpec == GZInit /\ [][GZNext]_gzVars /\ GZFairness

-----------------------------------------------------------------------------
(* Properties. *)

(* The kinds of values the files and the command take. *)
GZTypeOK ==
    /\ pointer \in Bootstraps \cup {"none", "candidate"}
    /\ temps \subseteq Bootstraps /\ strangers \subseteq Bootstraps
    /\ failure \subseteq Bootstraps
    /\ root \in [Bootstraps -> {"absent", "captured", "writing", "partial", "inspected"}]
    /\ before \in [Bootstraps -> Stores] /\ stores \in Stores
    /\ ledger \in [Bootstraps -> LedgerStates]
    /\ after \in [Bootstraps -> {"none", "pass", "blocked"}]
    /\ pin \in [Bootstraps -> Written] /\ receipt \in [Bootstraps -> Written]
    /\ \/ runner = NoRunner
       \/ \E op \in {"apply", "recover"}, b \in Bootstraps, pc \in Steps :
             runner = Running(op, b, pc)
    /\ kills \in 0..MaxKills /\ drifts \in 0..MaxDrifts

(* Whatever is killed and recovered, the pointer is the one the journals     *)
(* tell of: a bootstrap past pointer_written owns the pointer, the pointer   *)
(* of a bootstrap has a journal that may still commit or take it back, and   *)
(* nothing but a committed bootstrap has been activated over.                *)
PointerExplained ==
    /\ \A b \in Bootstraps :
          /\ ledger[b] \in {"pointer_written", "verified"} => pointer = b
          /\ ledger[b] = "committed" => pointer \in {b, "candidate"}
          /\ pointer = b => ledger[b] \notin {"none", "rolled_back", "conflict"}
    /\ pointer = "candidate" => \E b \in Bootstraps : ledger[b] = "committed"

(* The receipt of a bootstrap and its failure evidence exclude each other,   *)
(* and each is true: a receipt is of a committed journal with its evidence,  *)
(* failure evidence of one that will never commit nor hold the pointer.      *)
BootstrapEvidence ==
    \A b \in Bootstraps :
        /\ receipt[b] # "none" => /\ ledger[b] = "committed" /\ pin[b] = "pinned"
                                  /\ after[b] # "none" /\ b \notin failure
        /\ b \in failure => ledger[b] # "committed" /\ pointer # b

(* The dead ends of an interrupted bootstrap: what no command repairs. *)
DeadEnd(b) ==
    \/ ledger[b] \in {"verification_failed", "compensating", "rolled_back"}
    \/ b \in failure
    \/ b \in temps            \* killed between the temporary file and its unlink
    \/ b \in strangers        \* another bootstrap has written files since
    \/ stores # before[b]     \* a store differs from the frozen one
    \/ pin[b] = "torn" \/ receipt[b] = "torn"
    \/ pointer \notin {"none", b}

(* Whatever interrupts a prepared bootstrap, and however often, recover ends *)
(* it with a valid receipt, but for the dead ends named above.               *)
RecoverFinishes ==
    \A b \in Bootstraps : []<>(ledger[b] = "none" \/ ValidReceipt(b) \/ DeadEnd(b))
=============================================================================
