------------------------------- MODULE Closure -------------------------------
(***************************************************************************)
(* scripts/close_huiji_candidate.py: a release is declared closed by a     *)
(* receipt that joins the pinned files, the runtime of the RAG, the wiki,  *)
(* its database and the way back.  They are read one after the other while *)
(* other tools may change them, before the receipt is written and again    *)
(* after.                                                                  *)
(*                                                                         *)
(* What is read of a part is compared with values in the source, so a part *)
(* is as approved or not: it is not yet, it is, or it is no more.  A part  *)
(* that comes back to the approved state is left out: between two readings *)
(* nobody could tell.  closed_at_utc is all that tells receipts apart.     *)
(***************************************************************************)
EXTENDS Naturals

CONSTANTS
    Closers,        \* runs of close
    NParts,         \* what is read, numbered in the order it is read
    MaxMoves,       \* bound of the changes of parts (model checking only)
    MaxCloseFaults  \* bound of kills and failed writes (same)

ASSUME ClosureAssumption ==
    NParts \in Nat \ {0} /\ MaxMoves \in Nat /\ MaxCloseFaults \in Nat

Parts == 1 .. NParts

VARIABLES
    stage,       \* of each part: before, approved, after
    closing,     \* the receipt: none, torn or whole
    seal,        \* its sidecar: the same
    joined,      \* whether all parts were as approved when it was created (history)
    closer,      \* where each run stands
    moves,
    closeFaults

closureVars == <<stage, closing, seal, joined, closer, moves, closeFaults>>

\* first: whether this is the inspection before the receipt is written.
Closer0 == [pc |-> "idle", first |-> TRUE, next |-> 1, verdict |-> "none"]

CloserAt(c, pc) == closer[c].pc = pc
CloserTo(c, pc) == closer' = [closer EXCEPT ![c].pc = pc]
CloserEnds(c, verdict) ==
    closer' = [closer EXCEPT ![c] = [Closer0 EXCEPT !.pc = "ended", !.verdict = verdict]]

CloseFault == closeFaults < MaxCloseFaults /\ closeFaults' = closeFaults + 1

\* What the inspection compares with the values in the source.
AsApproved(p) == stage[p] = "approved"

AllApproved == \A p \in Parts : AsApproved(p)

-----------------------------------------------------------------------------
(* close_candidate: a receipt with its sidecar is validated, one of the two *)
(* alone is a conflict, and without them the state is inspected.            *)
StartClose(c) ==
    /\ CloserAt(c, "idle")
    /\ CASE (closing = "none") # (seal = "none") -> CloserEnds(c, "conflict")
         [] closing # "none" /\ seal # "none" ->
              closer' = [closer EXCEPT ![c].pc = "validate", ![c].first = FALSE,
                                       ![c].verdict = "already_closed"]
         [] OTHER -> CloserTo(c, "inspect")
    /\ UNCHANGED <<stage, closing, seal, joined, moves, closeFaults>>

\* validate_pinned_json and validate_hash_sidecar.
ValidateFiles(c) ==
    /\ CloserAt(c, "validate")
    /\ IF closing = "whole" /\ seal = "whole"
       THEN CloserTo(c, "inspect")
       ELSE CloserEnds(c, "error")
    /\ UNCHANGED <<stage, closing, seal, joined, moves, closeFaults>>

\* inspect_candidate_closure, part by part.
Inspect(c) ==
    /\ CloserAt(c, "inspect")
    /\ closer[c].next \in Parts
    /\ IF AsApproved(closer[c].next)
       THEN closer' = [closer EXCEPT ![c].next = @ + 1]
       ELSE CloserEnds(c, "error")
    /\ UNCHANGED <<stage, closing, seal, joined, moves, closeFaults>>

Inspected(c) ==
    /\ CloserAt(c, "inspect")
    /\ closer[c].next \notin Parts
    /\ IF closer[c].first
       THEN closer' = [closer EXCEPT ![c].pc = "look", ![c].next = 1, ![c].first = FALSE]
       ELSE CloserEnds(c, closer[c].verdict)
    /\ UNCHANGED <<stage, closing, seal, joined, moves, closeFaults>>

-----------------------------------------------------------------------------
(* _write_receipt_and_sidecar_create_new: a look, then two exclusive        *)
(* creations.                                                               *)
LookForReceipt(c) ==
    /\ CloserAt(c, "look")
    /\ IF closing = "none" /\ seal = "none"
       THEN CloserTo(c, "receipt")
       ELSE CloserEnds(c, "conflict")
    /\ UNCHANGED <<stage, closing, seal, joined, moves, closeFaults>>

CreateReceipt(c) ==
    /\ CloserAt(c, "receipt")
    /\ IF closing = "none"
       THEN closing' = "whole" /\ joined' = AllApproved /\ CloserTo(c, "sidecar")
       ELSE CloserEnds(c, "error") /\ UNCHANGED <<closing, joined>>
    /\ UNCHANGED <<stage, seal, moves, closeFaults>>

\* The write of the receipt fails or is killed: what was created stays.
ReceiptTorn(c) ==
    /\ CloserAt(c, "receipt")
    /\ closing = "none"
    /\ CloseFault
    /\ closing' = "torn"
    /\ CloserEnds(c, "error")
    /\ UNCHANGED <<stage, seal, joined, moves>>

\* Mutant of CreateSidecar: what was written is not looked at again.
CreateSidecarLast(c) ==
    /\ CloserAt(c, "sidecar")
    /\ IF seal = "none"
       THEN seal' = "whole" /\ CloserEnds(c, "closed")
       ELSE CloserEnds(c, "error") /\ UNCHANGED seal
    /\ UNCHANGED <<stage, closing, joined, moves, closeFaults>>

CreateSidecar(c) ==
    /\ CloserAt(c, "sidecar")
    /\ IF seal = "none"
       THEN /\ seal' = "whole"
            /\ closer' = [closer EXCEPT ![c].pc = "validate", ![c].verdict = "closed"]
       ELSE CloserEnds(c, "error") /\ UNCHANGED seal
    /\ UNCHANGED <<stage, closing, joined, moves, closeFaults>>

\* A sidecar that cannot be created takes the receipt with it; one whose
\* write fails stays, and the receipt too.
SidecarFails(c) ==
    /\ CloserAt(c, "sidecar")
    /\ seal = "none"
    /\ CloseFault
    /\ \/ closing' = "none" /\ UNCHANGED seal
       \/ seal' = "torn" /\ UNCHANGED closing
    /\ CloserEnds(c, "error")
    /\ UNCHANGED <<stage, joined, moves>>

KillCloser(c) ==
    /\ closer[c].pc \notin {"idle", "ended"}
    /\ CloseFault
    /\ CloserEnds(c, "none")
    /\ UNCHANGED <<stage, closing, seal, joined, moves>>

\* An activation, an import, a restart or an edit changes a part.
PartMoves ==
    /\ moves < MaxMoves
    /\ moves' = moves + 1
    /\ \E p \in Parts :
          \/ stage[p] = "before" /\ stage' = [stage EXCEPT ![p] = "approved"]
          \/ stage[p] = "approved" /\ stage' = [stage EXCEPT ![p] = "after"]
    /\ UNCHANGED <<closing, seal, joined, closer, closeFaults>>

CloseStep(c) ==
    \/ StartClose(c) \/ ValidateFiles(c) \/ Inspect(c) \/ Inspected(c)
    \/ LookForReceipt(c) \/ CreateReceipt(c) \/ ReceiptTorn(c)
    \/ CreateSidecar(c) \/ SidecarFails(c) \/ KillCloser(c)

ClosureNext == PartMoves \/ \E c \in Closers : CloseStep(c)

ClosureInit ==
    /\ stage \in [Parts -> {"before", "approved"}]
    /\ closing = "none" /\ seal = "none" /\ joined = FALSE
    /\ closer = [c \in Closers |-> Closer0]
    /\ moves = 0 /\ closeFaults = 0

-----------------------------------------------------------------------------
ClosureTypeOK ==
    /\ stage \in [Parts -> {"before", "approved", "after"}]
    /\ {closing, seal} \subseteq {"none", "torn", "whole"}
    /\ joined \in BOOLEAN
    /\ \A c \in Closers : closer[c].verdict \in
          {"none", "closed", "already_closed", "conflict", "error"}

(* Whoever is told that the release is closed, by the run that closed it or *)
(* by a later one, has a whole receipt with its sidecar, and when it was    *)
(* created all the parts it joins were as approved at one time, although no *)
(* run ever reads them at one time (close_candidate with its inspection,    *)
(* the create-new write and validate_closure_receipt).                      *)
ClosedTogether ==
    /\ ClosureTypeOK
    /\ \A c \in Closers :
          CloserAt(c, "ended") /\ closer[c].verdict \in {"closed", "already_closed"} =>
              closing = "whole" /\ seal = "whole" /\ joined
==============================================================================
