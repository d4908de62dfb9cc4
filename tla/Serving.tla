------------------------------- MODULE Serving -------------------------------
(***************************************************************************)
(* Parts of the answer service that share no state but the directory of    *)
(* the builds, in one module for the model checker: how the streams of     *)
(* answers end, whether the service is ready, and what it loads.  A        *)
(* behaviour is one of them, as part says, and leaves the others where     *)
(* they start.                                                             *)
(***************************************************************************)
EXTENDS AnswerStream, Readiness, RuntimeLoad
LOCAL INSTANCE FiniteSets

VARIABLE part        \* what this behaviour is about

allVars == <<part, vars, rootVars, readyVars, loadVars>>

ServingInit ==
    /\ part \in {"answer", "ready", "load"}
    /\ Init
    /\ RootInit
    /\ part = "answer" => pointer = NoPointer
    /\ ReadyInit
    /\ LoadInit

InAnswer(action) ==
    /\ part = "answer" /\ action
    /\ UNCHANGED <<part, rootVars, readyVars, loadVars>>
InReady(action) ==
    /\ part = "ready" /\ action
    /\ UNCHANGED <<part, vars, loadVars>>
InLoad(action) ==
    /\ part = "load" /\ action
    /\ UNCHANGED <<part, vars, readyVars>>

ServingNext == InAnswer(Next) \/ InReady(ReadyNext) \/ InLoad(LoadNext)

ASSUME TwoRequests == Cardinality(Requests) = 2

FirstRequest == CHOOSE r \in Requests : TRUE

\* The fairness of each part, as its module explains it.  part is constant, so
\* fairness of a disjunction is fairness of each disjunct; conditions of
\* different parts share one, which is what makes the check quick.
ServingFairness ==
    \A other \in Requests \ {FirstRequest} :
        /\ WF_allVars(InAnswer(Serve(FirstRequest)) \/ InReady(NextAsk))
        /\ WF_allVars(InAnswer(Serve(other)) \/ InReady(CheckerWorks))
        /\ WF_allVars(InAnswer(Read(FirstRequest) \/ ReadEnd(FirstRequest)) \/ InReady(TimeGoes))
        /\ WF_allVars(InAnswer(Read(other) \/ ReadEnd(other)))

ServingSpec == ServingInit /\ [][ServingNext]_allVars /\ ServingFairness

-----------------------------------------------------------------------------
\* The service says of its artifacts what is true since it was asked, and
\* serves one generation that was verified for it (ReadyIsTrue of
\* _verify_rag_artifacts, ServedIsVerified of _ensure_loaded).
ServiceTrue == ReadyTypeOK /\ RootTypeOK /\ ReadyIsTrue /\ ServedIsVerified

\* The readiness follows the artifacts (ReadyFollows), in the behaviours that are
\* about it: no cached verdict of _verify_rag_artifacts is kept for ever.
ReadinessFollows == part = "ready" => ReadyFollows
=============================================================================
