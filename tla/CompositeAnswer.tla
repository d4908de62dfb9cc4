-------------------------- MODULE CompositeAnswer --------------------------
(***************************************************************************)
(* One composite request of the answer pipeline (src/rag/execution.py): up *)
(* to four subtasks, whose retrievals run in threads batch by batch, one   *)
(* source map for all of them, the branch answers batch by batch, and the  *)
(* verdict on the whole turn.                                              *)
(*                                                                         *)
(* The threads share one retriever (src/rag/chain.py), which leaves what   *)
(* else a search learned in two fields of its own; the chain reads them    *)
(* after the search returned.  (Searches of other requests use the same    *)
(* object and do as much; here the request is alone.)                      *)
(***************************************************************************)
EXTENDS Naturals, FiniteSets
Sets == INSTANCE FiniteSetsExt

CONSTANTS
    Sources,     \* identities of sources; a citation id stands for one
    Prints,      \* fingerprints: the content found under an identity
    MaxTasks     \* bound of the subtasks of the checked plans (code: 4)

ASSUME CompositeAssumption == MaxTasks \in Nat /\ MaxTasks <= 4

VARIABLES
    plan,        \* the subtasks in order, with what they depend on
    free,        \* the caller allows answers without sources
    forced,      \* the subtask a force_free_supplement action names, or 0
    ready,       \* llm_ready
    stage,       \* retrieving, answering, ended
    step,        \* how far the thread of each subtask is
    found,       \* the sources of its search, each with its fingerprint
    lacks,       \* its search fell short of its coverage targets
    outcome,     \* the retrieval outcome of its payload
    taken,       \* whose omitted actions its payload carries
    debug,       \* last_route_debug of the shared retriever
    omitted,     \* last_omitted_actions: whose they are
    excluded,    \* retrieval_failures
    sourceMap,   \* the global source map
    verdict, mode, cites, fault,   \* BranchResult of each subtask
    ending       \* turn_outcome, or how the request ended without one

planVars == <<plan, free, forced, ready>>
sharedVars == <<debug, omitted>>
payloadVars == <<found, lacks, outcome, taken>>
resultVars == <<verdict, mode, cites, fault>>
answerVars == <<planVars, stage, step, payloadVars, sharedVars, excluded, sourceMap,
                resultVars, ending>>

Tasks == DOMAIN plan
Kinds == {"kb", "local", "general"}
Kb(t) == plan[t].kind = "kb"
Nobody == 0
Findings == UNION {[S -> Prints] : S \in SUBSET Sources}

-----------------------------------------------------------------------------
(* The batches of the plan, and the route of a subtask. *)

Depth ==
    LET depth[t \in Tasks] ==
            IF plan[t].needs = {} THEN 0 ELSE 1 + Sets!Max({depth[u] : u \in plan[t].needs})
    IN  depth

Retrieved(t) == ~Kb(t) \/ step[t] \in {"retrieved", "raised"}
Earlier(t) == {u \in Tasks : Depth[u] < Depth[t]}

\* What classify_retrieval_outcome says of sources and a shortfall.
Classified(sources, short) ==
    IF sources = {} THEN "empty" ELSE IF short THEN "partial" ELSE "sufficient"

\* The branch may be answered without sources (finalize_subtask_route).
Supplemented(t, result) ==
    /\ plan[t].kind # "local" /\ result # "failed"
    /\ forced = t \/ (free /\ result \in {"empty", "not_applicable"})

\* t found other content under an identity of an earlier branch.
Collides(t) ==
    \E u \in 1..(t - 1) \ excluded :
        \E s \in DOMAIN found[u] \cap DOMAIN found[t] : found[u][s] # found[t][s]

\* validate_citations for an answer that cites X and may cite allowed.
ValidCitations(X, allowed) == X # {} /\ X \subseteq allowed

\* What an answer cites after validation, repair and the safe fallback.
Published(allowed) ==
    {X \in SUBSET Sources : ValidCitations(X, allowed)} \cup {{s} : s \in allowed}

-----------------------------------------------------------------------------
(* Retrieval. *)

MayRetrieve(t) ==
    /\ stage = "retrieving" /\ Kb(t) /\ step[t] = "waiting"
    /\ \A u \in Earlier(t) : Retrieved(u)

StepTo(t, place) == step' = [step EXCEPT ![t] = place]

\* A forced branch is not searched for.
SkipSearch(t) ==
    /\ MayRetrieve(t) /\ forced = t
    /\ StepTo(t, "retrieved")
    /\ outcome' = [outcome EXCEPT ![t] = "empty"]
    /\ UNCHANGED <<planVars, stage, found, lacks, taken, sharedVars, excluded,
                   sourceMap, resultVars, ending>>

\* search begins by clearing what the last one left.
BeginSearch(t) ==
    /\ MayRetrieve(t) /\ forced # t
    /\ StepTo(t, "searching")
    /\ debug' = "none" /\ omitted' = Nobody
    /\ UNCHANGED <<planVars, stage, payloadVars, excluded, sourceMap, resultVars, ending>>

EndSearch(t) ==
    /\ step[t] = "searching"
    /\ \E sources \in Findings, short, more \in BOOLEAN :
        /\ found' = [found EXCEPT ![t] = sources]
        /\ lacks' = [lacks EXCEPT ![t] = short]
        /\ debug' = IF short THEN "short" ELSE "met"
        /\ omitted' = IF more THEN t ELSE Nobody
    /\ StepTo(t, "searched")
    /\ UNCHANGED <<planVars, stage, outcome, taken, excluded, sourceMap, resultVars,
                   ending>>

\* A store the retriever needs is down: RetrievalExecutionError.
FailSearch(t) ==
    /\ step[t] = "searching"
    /\ StepTo(t, "retrieved")
    /\ outcome' = [outcome EXCEPT ![t] = "failed"]
    /\ UNCHANGED <<planVars, stage, found, lacks, taken, sharedVars, excluded,
                   sourceMap, resultVars, ending>>

\* Any other error leaves no payload of the branch.
RaiseSearch(t) ==
    /\ step[t] \in {"searching", "searched", "judged"}
    /\ StepTo(t, "raised")
    /\ excluded' = excluded \cup {t}
    /\ found' = [found EXCEPT ![t] = <<>>]
    /\ outcome' = [outcome EXCEPT ![t] = "failed"]
    /\ UNCHANGED <<planVars, stage, lacks, taken, sharedVars, sourceMap, resultVars,
                   ending>>

\* retrieve reads the shortfall of the last search of the retriever.
JudgeOutcome(t) ==
    /\ step[t] = "searched"
    /\ StepTo(t, "judged")
    /\ outcome' = [outcome EXCEPT ![t] = Classified(DOMAIN found[t], debug = "short")]
    /\ UNCHANGED <<planVars, stage, found, lacks, taken, sharedVars, excluded,
                   sourceMap, resultVars, ending>>

\* ... and, once the media are attached, its omitted actions.
TakeActions(t) ==
    /\ step[t] = "judged"
    /\ StepTo(t, "retrieved")
    /\ taken' = [taken EXCEPT ![t] =
                   IF Supplemented(t, outcome[t]) THEN Nobody ELSE omitted]
    /\ UNCHANGED <<planVars, stage, found, lacks, outcome, sharedVars, excluded,
                   sourceMap, resultVars, ending>>

-----------------------------------------------------------------------------
(* One source map for the request, in the order of the subtasks. *)

AllRetrieved == stage = "retrieving" /\ \A t \in Tasks : Retrieved(t)
Collided == {t \in Tasks \ excluded : Kb(t) /\ Collides(t)}

\* Mutant of LeaveOut: all branches are left out when two contradict each other.
LeaveOutAll ==
    /\ AllRetrieved /\ Collided # {}
    /\ excluded' = excluded \cup {t \in Tasks : Kb(t)}
    /\ UNCHANGED <<planVars, stage, step, payloadVars, sharedVars, sourceMap, resultVars,
                   ending>>

\* The first branch that contradicts an earlier one is left out, and the
\* allocation starts again.
LeaveOut ==
    /\ AllRetrieved /\ Collided # {}
    /\ excluded' = excluded \cup {Sets!Min(Collided)}
    /\ UNCHANGED <<planVars, stage, step, payloadVars, sharedVars, sourceMap, resultVars,
                   ending>>

Allocate ==
    /\ AllRetrieved /\ Collided = {}
    /\ LET kept == {t \in Tasks \ excluded : Kb(t)}
           holder(s) == Sets!Min({t \in kept : s \in DOMAIN found[t]})
       IN  sourceMap' = [s \in UNION {DOMAIN found[t] : t \in kept} |-> found[holder(s)][s]]
    /\ stage' = "answering"
    /\ UNCHANGED <<planVars, step, payloadVars, sharedVars, excluded, resultVars, ending>>

Allotted(t) == IF Kb(t) /\ t \notin excluded THEN DOMAIN found[t] ELSE {}

-----------------------------------------------------------------------------
(* Branch answers. *)

MayAnswer(t) ==
    /\ stage = "answering" /\ verdict[t] = "pending"
    /\ \A u \in Earlier(t) : verdict[u] # "pending"

\* The outcome a branch without a retrieval reports.
RouteOutcome(t) == IF Kb(t) THEN outcome[t] ELSE "not_applicable"
Retrievable(t) == t \notin excluded /\ RouteOutcome(t) # "failed"
Local(t) ==
    \/ plan[t].kind = "local"
    \/ plan[t].kind = "general" /\ ~Supplemented(t, "not_applicable")
FreeAnswer(t) == Allotted(t) = {} /\ Supplemented(t, RouteOutcome(t))

\* _sanitize_branch_result: only a branch of the knowledge base keeps its mode.
Answer(t, status, grounding, cited, error) ==
    /\ verdict' = [verdict EXCEPT ![t] = status]
    /\ mode' = [mode EXCEPT ![t] = IF Kb(t) THEN grounding ELSE "none"]
    /\ cites' = [cites EXCEPT ![t] = cited]
    /\ fault' = [fault EXCEPT ![t] = error]
    /\ UNCHANGED <<planVars, stage, step, payloadVars, sharedVars, excluded, sourceMap,
                   ending>>

AnswerNotRetrieved(t) ==
    /\ MayAnswer(t) /\ Kb(t) /\ ~Retrievable(t)
    /\ Answer(t, "failed", "none", {}, "branch_retrieval_failed")

AnswerLocally(t) ==
    /\ MayAnswer(t) /\ Local(t)
    /\ Answer(t, IF plan[t].kind = "general" THEN "denied" ELSE "succeeded",
              "none", {}, "")

AnswerEmpty(t) ==
    /\ MayAnswer(t) /\ Kb(t) /\ Retrievable(t) /\ Allotted(t) = {} /\ ~FreeAnswer(t)
    /\ Answer(t, "empty", "none", {}, "")

NeedsModel(t) ==
    /\ MayAnswer(t) /\ ~Local(t) /\ Retrievable(t)
    /\ Allotted(t) # {} \/ FreeAnswer(t)

AnswerUnavailable(t) ==
    /\ NeedsModel(t) /\ ~ready
    /\ Answer(t, "failed", "none", {}, "answer_service_unavailable")

\* The model raised twice.
AnswerRaises(t) ==
    /\ NeedsModel(t) /\ ready
    /\ Answer(t, "failed", "none", {}, "branch_execution_failed")

AnswerFreely(t) ==
    /\ NeedsModel(t) /\ ready /\ FreeAnswer(t)
    /\ Answer(t, "succeeded", "ungrounded", {}, "")

\* A draft without sources that still holds what looks like a citation and is
\* none, such as [S1] or [s01], which the stripping of citations leaves: the
\* validation refuses it, and unlike the other failures this one has no name.
AnswerMislabelled(t) ==
    /\ NeedsModel(t) /\ ready /\ FreeAnswer(t)
    /\ Answer(t, "failed", "none", {}, "")

AnswerGrounded(t) ==
    /\ NeedsModel(t) /\ ready /\ Allotted(t) # {}
    /\ \E X \in Published(Allotted(t)) : Answer(t, "succeeded", "grounded", X, "")

-----------------------------------------------------------------------------
(* The verdict on the turn. *)

Told == {t \in Tasks : verdict[t] \in {"succeeded", "denied"}}

\* A grounded branch that cites what it was not given is withdrawn.
Withdrawn ==
    {t \in Tasks : /\ verdict[t] = "succeeded" /\ mode[t] = "grounded"
                   /\ ~ValidCitations(cites[t], Allotted(t))}

TurnOutcome(modes) ==
    CASE modes = {} -> "not_committable"
      [] modes = {"none"} -> "local"
      [] modes = {"grounded"} -> "grounded"
      [] modes = {"ungrounded"} -> "ungrounded"
      [] OTHER -> "mixed"

Conclude ==
    /\ stage = "answering" /\ \A t \in Tasks : verdict[t] # "pending"
    /\ stage' = "ended"
    /\ verdict' = [t \in Tasks |-> IF t \in Withdrawn THEN "failed" ELSE verdict[t]]
    /\ mode' = [t \in Tasks |-> IF t \in Withdrawn THEN "none" ELSE mode[t]]
    /\ cites' = [t \in Tasks |-> IF t \in Withdrawn THEN {} ELSE cites[t]]
    /\ fault' = [t \in Tasks |->
                   IF t \in Withdrawn THEN "citation_validation_failed" ELSE fault[t]]
    /\ ending' = IF \A t \in Tasks : step[t] = "raised"
                 THEN "error"        \* composite execution produced no branch payload
                 ELSE TurnOutcome({mode'[t] : t \in Told \ Withdrawn})
    /\ UNCHANGED <<planVars, step, payloadVars, sharedVars, excluded, sourceMap>>

-----------------------------------------------------------------------------
Subtasks(t) == [kind : Kinds, needs : SUBSET (1..(t - 1))]

AnswerInit ==
    /\ \E n \in 2..MaxTasks :
         plan \in {p \in [1..n -> [kind : Kinds, needs : SUBSET (1..n)]] :
                     \A t \in 1..n : p[t] \in Subtasks(t)}
    /\ free \in BOOLEAN /\ ready \in BOOLEAN
    /\ forced \in {0} \cup {t \in Tasks : plan[t].kind # "local"}
    /\ stage = "retrieving"
    /\ step = [t \in Tasks |-> "waiting"]
    /\ found = [t \in Tasks |-> <<>>]
    /\ lacks = [t \in Tasks |-> FALSE]
    /\ outcome = [t \in Tasks |-> "none"]
    /\ taken = [t \in Tasks |-> Nobody]
    /\ debug = "none" /\ omitted = Nobody
    /\ excluded = {} /\ sourceMap = <<>>
    /\ verdict = [t \in Tasks |-> "pending"]
    /\ mode = [t \in Tasks |-> "none"]
    /\ cites = [t \in Tasks |-> {}]
    /\ fault = [t \in Tasks |-> ""]
    /\ ending = "running"

Retrieval(t) ==
    \/ SkipSearch(t) \/ BeginSearch(t) \/ EndSearch(t) \/ FailSearch(t)
    \/ RaiseSearch(t) \/ JudgeOutcome(t) \/ TakeActions(t)

BranchAnswer(t) ==
    \/ AnswerNotRetrieved(t) \/ AnswerLocally(t) \/ AnswerEmpty(t)
    \/ AnswerUnavailable(t) \/ AnswerRaises(t) \/ AnswerFreely(t) \/ AnswerMislabelled(t)
    \/ AnswerGrounded(t)

AnswerNext ==
    \/ \E t \in Tasks : Retrieval(t) \/ BranchAnswer(t)
    \/ LeaveOut \/ Allocate \/ Conclude

AnswerSpec == AnswerInit /\ [][AnswerNext]_answerVars

-----------------------------------------------------------------------------
(* Properties. *)

\* Every variable of the request has its type.
AnswerTypeOK ==
    /\ free \in BOOLEAN /\ ready \in BOOLEAN /\ forced \in 0..4
    /\ stage \in {"retrieving", "answering", "ended"}
    /\ step \in [Tasks -> {"waiting", "searching", "searched", "judged", "retrieved",
                           "raised"}]
    /\ found \in [Tasks -> Findings] /\ lacks \in [Tasks -> BOOLEAN]
    /\ outcome \in [Tasks -> {"none", "sufficient", "partial", "empty", "failed"}]
    /\ taken \in [Tasks -> {Nobody} \cup Tasks]
    /\ debug \in {"none", "short", "met"} /\ omitted \in {Nobody} \cup Tasks
    /\ excluded \subseteq Tasks /\ sourceMap \in Findings
    /\ verdict \in [Tasks -> {"pending", "succeeded", "empty", "denied", "failed"}]
    /\ mode \in [Tasks -> {"none", "grounded", "ungrounded"}]
    /\ cites \in [Tasks -> SUBSET Sources]
    /\ fault \in [Tasks -> {"", "branch_retrieval_failed", "answer_service_unavailable",
                            "branch_execution_failed", "citation_validation_failed"}]
    /\ ending \in {"running", "grounded", "ungrounded", "local", "mixed",
                   "not_committable", "error"}

\* A branch that is published as grounded cites at least one source, and the
\* content the global source map shows under each of its citations is the
\* content its own search found; any other branch cites nothing.
CitationsClosed ==
    \A t \in Tasks :
        IF verdict[t] = "succeeded" /\ mode[t] = "grounded"
        THEN /\ cites[t] # {}
             /\ \A s \in cites[t] : /\ s \in DOMAIN found[t] /\ s \in DOMAIN sourceMap
                                    /\ sourceMap[s] = found[t][s]
        ELSE cites[t] = {}

\* The error a failed branch reports is the one it met: its own retrieval, or
\* content that contradicts an earlier branch that was kept; the model; or, with
\* no name, its own draft, which only a branch without sources can spoil.
FailureNamed(t) ==
    \/ /\ fault[t] = "branch_retrieval_failed"
       /\ Kb(t) /\ (outcome[t] = "failed" \/ Collides(t))
    \/ fault[t] = "answer_service_unavailable" /\ ~ready
    \/ fault[t] = "branch_execution_failed" /\ ready
    \/ fault[t] = "" /\ ready /\ FreeAnswer(t)

\* One branch that fails spares the others: the turn is committed exactly when
\* some branch has an answer, and a failed branch failed for a reason of its own
\* and reports that one.
AnswersSurvive ==
    ending # "running" =>
        /\ ending \in {"not_committable", "error"} <=> Told = {}
        /\ \A t \in Tasks : verdict[t] = "failed" => FailureNamed(t)

\* Citations and answers of a composite turn, whatever failed beside them.
AnswerContract == CitationsClosed /\ AnswersSurvive

\* The actions a branch offers come from its own search: the omitted ones it
\* carries, and the failure ones a partial outcome adds (EXEC-P0-05).
ActionsStayOwn ==
    \A t \in Tasks : /\ taken[t] \in {Nobody, t}
                      /\ outcome[t] = "partial" => lacks[t]
=============================================================================
