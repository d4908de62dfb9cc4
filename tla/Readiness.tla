------------------------------ MODULE Readiness ------------------------------
(***************************************************************************)
(* GET /health/ready in production (backend/main.py): the artifacts are    *)
(* verified by a process of their own (deploy/bin/verify-rag-closure.py),  *)
(* its verdict is remembered with a fingerprint of the files, and the      *)
(* requests that follow only look whether the fingerprint still fits.  One *)
(* thread at a time verifies, under _RAG_CACHE_LOCK, while the files of    *)
(* BuildRoot change.                                                       *)
(***************************************************************************)
EXTENDS BuildRoot

CONSTANTS
    Dependencies,        \* what is looked at beside the artifacts
    MaxVerifierFaults    \* bound of verifiers that fail (model checking only)

ASSUME VerifierAssumption == MaxVerifierFaults \in Nat

VARIABLES
    checker,    \* the request that holds the lock
    cache,      \* _rag_cache
    answered,   \* the last answer about the artifacts
    response,   \* and the response as a whole
    seenWhole,  \* whether the closure was whole since the request came (history)
    seenBroken, \* and whether it was not (history)
    verifierFaults

answer == <<answered, response>>
readyVars == <<checker, cache, answer, seenWhole, seenBroken, verifierFaults>>

\* observed: the signatures of the verifier; passes: the fingerprints of the
\* whole tree so far; lastPass: the first one after a failure.
Checker0 == [pc |-> "idle", force |-> FALSE, active |-> NoPointer, left |-> <<>>,
             observed |-> <<>>, passes |-> {}, lastPass |-> <<>>, invalid |-> FALSE]

Cache0 == [known |-> FALSE, kind |-> "tree", mark |-> <<>>, failure |-> "none",
           due |-> FALSE, ready |-> FALSE]

CheckerAt(pc) == checker.pc = pc
CheckerTo(pc) == checker' = [checker EXCEPT !.pc = pc]

\* What a verifier that reads at one instant accepts: its evidence is that of an
\* activation, which generation zero has not.
Whole == pointer > 0 /\ \A f \in BuildFiles : intact[<<pointer, f>>]

StampsOf(paths) == [p \in paths |-> stamp[p]]

\* _rag_tree_fingerprint
TreePass == stamp

\* _rag_closure_fingerprint, over the paths the fingerprint was made of.
ClosurePass(mark) == StampsOf(DOMAIN mark)

History(answering) ==
    /\ seenWhole' = IF answering THEN seenWhole ELSE seenWhole \/ Whole'
    /\ seenBroken' = IF answering THEN seenBroken ELSE seenBroken \/ ~Whole'

-----------------------------------------------------------------------------
(* _verify_rag_artifacts; at the startup with force.                       *)

AskReady(force) ==
    /\ CheckerAt("idle")
    /\ checker' = [Checker0 EXCEPT !.pc = "lookup", !.force = force]
    /\ seenWhole' = Whole
    /\ seenBroken' = ~Whole
    /\ UNCHANGED <<cache, answer, verifierFaults>>

\* _readiness_response: each dependency passes when its settings are complete
\* and its probe returns in three seconds; what raises has failed.
Response(artifacts, failing) ==
    IF artifacts /\ failing = {} THEN "ready" ELSE "not_ready"

\* Whichever of them, at each request.
FailingDependencies == SUBSET Dependencies

Answer(ready) ==
    /\ checker' = Checker0
    /\ answered' = IF ready THEN "pass" ELSE cache'.failure
    /\ \E failing \in FailingDependencies : response' = Response(ready, failing)

Waits == cache.known /\ cache.failure = "transient" /\ ~cache.due

\* Mutant of Fits: a failure that may pass is remembered like a verdict.
FitsWhenDue ==
    /\ cache.known
    /\ cache.mark # <<>>
    /\ cache.mark = IF cache.kind = "closure" THEN ClosurePass(cache.mark) ELSE TreePass

\* The fingerprint of what was found last still fits.
Fits ==
    /\ cache.known
    /\ cache.mark # <<>>
    /\ cache.mark = IF cache.kind = "closure" THEN ClosurePass(cache.mark) ELSE TreePass
    /\ ~(cache.failure = "transient" /\ cache.due)

Lookup ==
    /\ CheckerAt("lookup")
    /\ UNCHANGED <<cache, verifierFaults>>
    /\ IF ~checker.force /\ (Waits \/ Fits)
       THEN Answer(~Waits /\ cache.ready)
       ELSE CheckerTo("input") /\ UNCHANGED answer

\* Two passes before the verifier, to tell a failure of a stable tree.
InputPass ==
    /\ CheckerAt("input")
    /\ \/ checker.lastPass = <<>> /\ checker' = [checker EXCEPT !.lastPass = TreePass,
                                                                !.passes = {TreePass}]
       \/ /\ checker.lastPass # <<>>
          /\ checker' = [checker EXCEPT !.pc = "pointer", !.lastPass = <<>>,
                                        !.passes = @ \cup {TreePass}]
    /\ UNCHANGED <<cache, answer, verifierFaults>>

-----------------------------------------------------------------------------
(* The verifier: _verified_closure.  A file is read between two looks at   *)
(* its signature, and whatever changes meanwhile is transient.             *)

Fails(invalid) == checker' = [checker EXCEPT !.pc = "failure", !.invalid = invalid]

\* The pointer, and the paths it leads to; those of generation zero are not there.
ReadPointer ==
    /\ CheckerAt("pointer")
    /\ IF pointer > 0
       THEN checker' = [checker EXCEPT !.pc = "files", !.active = pointer,
                            !.observed = StampsOf({PointerPath}),
                            !.left = <<"manifests", "manifests", "children", "media">>]
       ELSE Fails(TRUE)
    /\ UNCHANGED <<cache, answer, verifierFaults>>

\* _record_observation: a file that is read again must not have changed.
Moved(p) == p \in DOMAIN checker.observed /\ checker.observed[p] # stamp[p]

Observe(p) == [q \in DOMAIN checker.observed \cup {p} |->
                  IF q = p THEN stamp[p] ELSE checker.observed[q]]

\* _verify_digest and _verify_reference: a regular file inside the root, behind
\* no link, of the declared size and hash.
Declared(p) == intact[p]

\* First the manifests, which are hashed and then read, then the artifacts that
\* both of them declare.
ReadDeclared ==
    LET p == <<checker.active, Head(checker.left)>>
        rest == Tail(checker.left)
    IN /\ CheckerAt("files")
       /\ IF Moved(p) \/ ~Declared(p)
          THEN Fails(~Moved(p))
          ELSE checker' = [checker EXCEPT !.observed = Observe(p), !.left = rest,
                               !.pc = IF rest = <<>> THEN "fingerprint" ELSE @]
       /\ UNCHANGED <<cache, answer, verifierFaults>>

\* _closure_fingerprint: all signatures are looked at once more.
VerifierPass ==
    /\ CheckerAt("fingerprint")
    /\ IF checker.observed = ClosurePass(checker.observed)
       THEN CheckerTo("compare")
       ELSE Fails(FALSE)
    /\ UNCHANGED <<cache, answer, verifierFaults>>

\* It is killed after 15 seconds or by a signal, loses a file while it reads
\* it, or writes what _verified_metadata refuses.
VerifierFails ==
    /\ checker.pc \in {"pointer", "files", "fingerprint", "compare"}
    /\ verifierFaults < MaxVerifierFaults
    /\ verifierFaults' = verifierFaults + 1
    /\ Fails(FALSE)
    /\ UNCHANGED <<cache, answer>>

-----------------------------------------------------------------------------
(* What _run_full_rag_verification returns, and the update of the cache.   *)

Remember ==
    /\ CheckerAt("compare")
    /\ IF checker.observed = ClosurePass(checker.observed)
       THEN /\ cache' = [known |-> TRUE, kind |-> "closure", mark |-> checker.observed,
                         failure |-> "none", due |-> FALSE, ready |-> TRUE]
            /\ Answer(TRUE)
       ELSE Fails(FALSE) /\ UNCHANGED <<cache, answer>>
    /\ UNCHANGED verifierFaults

\* Mutant of Refusal: the verdict of the verifier is taken although files moved.
RefusalAtOnce(last, stable) ==
    [known |-> TRUE, kind |-> "tree",
     mark |-> IF checker.lastPass = last THEN last ELSE <<>>,
     failure |-> IF checker.invalid THEN "invalid" ELSE "transient",
     due |-> FALSE, ready |-> FALSE]

\* A tree that moves is a passing failure, whatever the verifier said.
Refusal(last, stable) ==
    [known |-> TRUE, kind |-> "tree",
     mark |-> IF checker.lastPass = last THEN last ELSE <<>>,
     failure |-> IF checker.invalid /\ stable THEN "invalid" ELSE "transient",
     due |-> FALSE, ready |-> FALSE]

FailurePass ==
    /\ CheckerAt("failure")
    /\ \/ /\ checker.lastPass = <<>>
          /\ checker' = [checker EXCEPT !.lastPass = TreePass, !.passes = @ \cup {TreePass}]
          /\ UNCHANGED <<cache, answer>>
       \/ /\ checker.lastPass # <<>>
          /\ cache' = Refusal(TreePass, checker.passes = {TreePass})
          /\ Answer(FALSE)
    /\ UNCHANGED verifierFaults

\* Sixty seconds have gone by.
RetryDue ==
    /\ cache.failure = "transient" /\ ~cache.due
    /\ cache' = [cache EXCEPT !.due = TRUE]
    /\ UNCHANGED <<checker, answer, verifierFaults>>

-----------------------------------------------------------------------------
ReadyInit ==
    /\ checker = Checker0
    /\ cache = Cache0
    /\ answered = "none"
    /\ response = "none"
    /\ seenWhole = Whole
    /\ seenBroken = ~Whole
    /\ verifierFaults = 0

CheckerWorks ==
    /\ \/ Lookup \/ InputPass \/ ReadPointer \/ ReadDeclared \/ VerifierPass
       \/ Remember \/ FailurePass
    /\ UNCHANGED rootVars
    /\ History(CheckerAt("idle"))

\* force: the startup of the process, whose cache is empty.
NextAsk == AskReady(~cache.known) /\ UNCHANGED rootVars

TimeGoes == RetryDue /\ UNCHANGED rootVars /\ History(CheckerAt("idle"))

ReadyNext ==
    \/ NextAsk \/ CheckerWorks \/ TimeGoes
    \/ VerifierFails /\ UNCHANGED rootVars /\ History(FALSE)
    \/ RootNext /\ UNCHANGED <<checker, cache, answer, verifierFaults>>
                /\ History(CheckerAt("idle"))

\* Fairness is owed to NextAsk, CheckerWorks and TimeGoes: requests keep coming,
\* the process that verifies is scheduled and time goes on; neither a fault nor
\* a write has to happen.

-----------------------------------------------------------------------------
(* Properties. *)

\* Requests, the cache and the answers have the shape the code gives.
ReadyTypeOK ==
    /\ checker.pc \in {"idle", "lookup", "input", "pointer", "files", "fingerprint",
                       "compare", "failure"}
    /\ cache.failure \in {"none", "transient", "invalid"}
    /\ cache.kind = "closure" <=> cache.ready
    /\ answered \in {"none", "pass", "transient", "invalid"}

\* No answer is older than its request, from the cache or not: when the service
\* calls itself ready, or its artifacts broken, they were whole, or broken, at
\* some moment since the request came (_verify_rag_artifacts,
\* _run_full_rag_verification and verify-rag-closure.py).
ReadyIsTrue ==
    CheckerAt("idle") =>
        /\ response = "ready" => answered = "pass"
        /\ answered = "pass" => seenWhole
        /\ answered = "invalid" => seenBroken

\* The cache keeps no verdict for ever: artifacts that stay whole are reported
\* so in the end, whatever was remembered of them, and so are broken ones.
ReadyFollows ==
    /\ <>[]Whole => <>[](answered = "pass")
    /\ <>[]~Whole => <>[](answered # "pass")
=============================================================================
