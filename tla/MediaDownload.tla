---------------------------- MODULE MediaDownload ----------------------------
(***************************************************************************)
(* scripts/download_huiji_resources.py with ResourceDownloader: the files  *)
(* of an approved allowlist are fetched by worker threads, each into a     *)
(* .part that a later attempt or a later run resumes, and put in place     *)
(* when they have the approved digests.  A run may be killed anywhere, and *)
(* an operator runs the same allowlist again.                              *)
(*                                                                         *)
(* A file is Length chunks long, and a .part is how much of it there is    *)
(* and whether all of that is right.  The approval and the allowlist are   *)
(* files that do not change and are compared before anything is written;   *)
(* their hosts and paths are data.                                         *)
(***************************************************************************)
EXTENDS Naturals, FiniteSets

CONSTANTS
    MediaFiles,      \* the jobs of the allowlist, each with a path of its own
    Frozen,          \* those that may not be fetched (expected_download_bytes is 0)
    Length,          \* chunks of a file
    Workers,
    Retries,
    MaxTrouble       \* bound of kills and bad responses (model checking only)

ASSUME DownloadAssumption ==
    /\ Frozen \subseteq MediaFiles
    /\ Length \in Nat \ {0} /\ Workers \in Nat \ {0}
    /\ Retries \in Nat /\ MaxTrouble \in Nat

VARIABLES
    target,     \* the file under its final name: none, approved, or something else
    partial,    \* its .part
    running,    \* whether a run is on
    job,        \* where the job of each file stands in this run
    receipt,    \* what the last row of the receipt says of each file
    trouble

downloadVars == <<target, partial, running, job, receipt, trouble>>

Part == [length : 0 .. Length + 1, right : BOOLEAN]
NoPart == [length |-> 0, right |-> TRUE]    \* also an empty one

\* resume: how long the .part was when the request was made; status: of a result.
NoJob == [pc |-> "waiting", attempt |-> 0, resume |-> 0, status |-> "none"]

JobAt(f, pc) == job[f].pc = pc
JobTo(f, pc) == job' = [job EXCEPT ![f].pc = pc]
JobEnds(f, status) ==
    job' = [job EXCEPT ![f] = [NoJob EXCEPT !.pc = "result", !.status = status]]

Trouble == trouble < MaxTrouble /\ trouble' = trouble + 1

-----------------------------------------------------------------------------
StartDownload ==
    /\ ~running
    /\ running' = TRUE
    /\ job' = [f \in MediaFiles |-> NoJob]
    /\ UNCHANGED <<target, partial, receipt, trouble>>

Busy == {f \in MediaFiles : job[f].pc \notin {"waiting", "result", "done"}}

(* download_one up to the first request. *)
TakeJob(f) ==
    /\ running
    /\ JobAt(f, "waiting")
    /\ Cardinality(Busy) < Workers
    /\ IF target[f] = "approved" THEN JobEnds(f, "skipped")
       ELSE IF f \in Frozen THEN JobEnds(f, "failed")
       ELSE JobTo(f, "request")
    /\ UNCHANGED <<target, partial, running, receipt, trouble>>

\* _download_once: a .part that is long enough is not fetched again.
Request(f) ==
    /\ JobAt(f, "request")
    /\ job' = [job EXCEPT ![f].resume = partial[f].length,
                          ![f].pc = IF partial[f].length >= Length THEN "validate" ELSE "open"]
    /\ UNCHANGED <<target, partial, running, receipt, trouble>>

\* The response begins: a part (206) continues the .part, the whole (200)
\* starts it anew.
Resumes(f) == job[f].resume > 0

OpenPart(f) ==
    /\ JobAt(f, "open")
    /\ partial' = IF Resumes(f) THEN partial ELSE [partial EXCEPT ![f] = NoPart]
    /\ JobTo(f, "body")
    /\ UNCHANGED <<target, running, receipt, trouble>>

RangeIgnored(f) ==
    /\ JobAt(f, "open")
    /\ Resumes(f)
    /\ partial' = [partial EXCEPT ![f] = NoPart]
    /\ JobTo(f, "body")
    /\ UNCHANGED <<target, running, receipt, trouble>>

Chunk(f) ==
    /\ JobAt(f, "body")
    /\ partial[f].length < Length
    /\ partial' = [partial EXCEPT ![f].length = @ + 1]
    /\ UNCHANGED <<target, running, job, receipt, trouble>>

\* The host serves another content than the approved one.
WrongChunk(f) ==
    /\ JobAt(f, "body")
    /\ Trouble
    /\ partial' = [partial EXCEPT ![f].length = @ + 1, ![f].right = FALSE]
    /\ partial[f].length <= Length
    /\ UNCHANGED <<target, running, job, receipt>>

EndOfBody(f) ==
    /\ JobAt(f, "body")
    /\ partial[f].length >= Length
    /\ JobTo(f, "validate")
    /\ UNCHANGED <<target, partial, running, receipt, trouble>>

\* The body ends early and nobody says so.
Truncated(f) ==
    /\ JobAt(f, "body")
    /\ partial[f].length < Length
    /\ Trouble
    /\ JobTo(f, "validate")
    /\ UNCHANGED <<target, partial, running, receipt>>

Removed(f) == partial' = [partial EXCEPT ![f] = NoPart]

(* The request or its body raises: another attempt, or the last error, for *)
(* which download_one removes the .part.                                    *)
RequestFails(f) ==
    /\ job[f].pc \in {"open", "body"}
    /\ Trouble
    /\ IF job[f].attempt < Retries
       THEN /\ job' = [job EXCEPT ![f].pc = "request", ![f].attempt = @ + 1]
            /\ UNCHANGED partial
       ELSE JobEnds(f, "failed") /\ Removed(f)
    /\ UNCHANGED <<target, running, receipt>>

Valid(p) == p.length = Length /\ p.right

\* Mutant of ValidatePart: a .part that is not valid is left for a later run.
ValidatePartKept(f) ==
    /\ JobAt(f, "validate")
    /\ IF Valid(partial[f]) THEN JobTo(f, "replace") ELSE JobEnds(f, "failed")
    /\ UNCHANGED <<target, partial, running, receipt, trouble>>

ValidatePart(f) ==
    /\ JobAt(f, "validate")
    /\ IF Valid(partial[f])
       THEN JobTo(f, "replace") /\ UNCHANGED partial
       ELSE JobEnds(f, "failed") /\ Removed(f)
    /\ UNCHANGED <<target, running, receipt, trouble>>

Replace(f) ==
    /\ JobAt(f, "replace")
    /\ target' = [target EXCEPT ![f] = IF Valid(partial[f]) THEN "approved" ELSE "other"]
    /\ Removed(f)
    /\ JobEnds(f, "downloaded")
    /\ UNCHANGED <<running, receipt, trouble>>

-----------------------------------------------------------------------------
\* The main thread takes the results as they come and appends a row for each.
AppendReceipt(f) ==
    /\ running
    /\ JobAt(f, "result")
    /\ receipt' = [receipt EXCEPT ![f] = job[f].status]
    /\ JobTo(f, "done")
    /\ UNCHANGED <<target, partial, running, trouble>>

EndDownload ==
    /\ running
    /\ \A f \in MediaFiles : JobAt(f, "done")
    /\ running' = FALSE
    /\ UNCHANGED <<target, partial, job, receipt, trouble>>

KillDownload ==
    /\ running
    /\ Trouble
    /\ running' = FALSE
    /\ job' = [f \in MediaFiles |-> NoJob]
    /\ UNCHANGED <<target, partial, receipt>>

\* Somebody writes over a file that is in place.
TargetEdited ==
    /\ Trouble
    /\ \E f \in MediaFiles : target[f] = "approved" /\ target' = [target EXCEPT ![f] = "other"]
    /\ UNCHANGED <<partial, running, job, receipt>>

DownloadStep(f) ==
    \/ TakeJob(f) \/ Request(f) \/ OpenPart(f) \/ RangeIgnored(f)
    \/ Chunk(f) \/ EndOfBody(f) \/ ValidatePart(f) \/ Replace(f) \/ AppendReceipt(f)

DownloadTrouble(f) == WrongChunk(f) \/ Truncated(f) \/ RequestFails(f)

DownloadNext ==
    \/ StartDownload \/ EndDownload \/ KillDownload \/ TargetEdited
    \/ \E f \in MediaFiles : DownloadStep(f) \/ DownloadTrouble(f)

DownloadInit ==
    /\ target \in [MediaFiles -> {"none", "approved", "other"}]
    /\ partial = [f \in MediaFiles |-> NoPart]
    /\ running = FALSE
    /\ job = [f \in MediaFiles |-> NoJob]
    /\ receipt = [f \in MediaFiles |-> "none"]
    /\ trouble = 0

-----------------------------------------------------------------------------
DownloadTypeOK ==
    /\ target \in [MediaFiles -> {"none", "approved", "other"}]
    /\ partial \in [MediaFiles -> Part]
    /\ running \in BOOLEAN
    /\ receipt \in [MediaFiles -> {"none", "downloaded", "skipped", "failed"}]
==============================================================================
