--------------------------- MODULE PagesAndBuilds ---------------------------
(***************************************************************************)
(* Parts that share no state, in one module for the model checker: the     *)
(* answer of a request, the voice lines and the wiki the browser shows,    *)
(* the build of a corpus candidate and the plan of its downloads.  A       *)
(* behaviour is one of them, as part says, and leaves the others where     *)
(* they start.  Only invariants are checked, and none of them names an     *)
(* object or a build, so behaviours that differ only by which is which     *)
(* need to be followed once.                                               *)
(***************************************************************************)
EXTENDS AnswerStream, VoicePages, WikiBrowser, CorpusBuild, MediaPlan
LOCAL INSTANCE TLC

VARIABLE part        \* what this behaviour is about

allVars == <<part, vars, voiceVars, browserVars, corpusVars, planVars>>

NoResources ==
    [phase |-> "p0", resources |-> <<>>,
     capacity |-> [free |-> 0, cloud |-> 0, growth |-> 0, incomplete |-> FALSE]]

PagesInit ==
    /\ part \in {"answer", "voice", "wiki", "corpus", "plan"}
    /\ Init
    /\ VoiceInit(IF part = "voice" THEN FirstBuilds ELSE {<<Unplayable>>})
    /\ BrowserInit(IF part = "wiki" THEN {Selection, 1, Alias} ELSE {Selection})
    /\ CorpusInit
    /\ PlanInit(IF part = "plan" THEN PlanRequests ELSE {NoResources})

InAnswer(action) ==
    /\ part = "answer" /\ action
    /\ UNCHANGED <<part, voiceVars, browserVars, corpusVars, planVars>>
InVoice(action) ==
    /\ part = "voice" /\ action
    /\ UNCHANGED <<part, vars, browserVars, corpusVars, planVars>>
InWiki(action) ==
    /\ part = "wiki" /\ action
    /\ UNCHANGED <<part, vars, voiceVars, corpusVars, planVars>>
InCorpus(action) ==
    /\ part = "corpus" /\ action
    /\ UNCHANGED <<part, vars, voiceVars, browserVars, planVars>>
InPlan(action) ==
    /\ part = "plan" /\ action
    /\ UNCHANGED <<part, vars, voiceVars, browserVars, corpusVars>>

PagesNext ==
    \/ InAnswer(Next) \/ InVoice(VoiceNext) \/ InWiki(BrowserNext)
    \/ InCorpus(CorpusNext) \/ InPlan(PlanNext)

PagesSpec == PagesInit /\ [][PagesNext]_allVars

Alike == Permutations(Objects) \cup Permutations(CorpusRuns)

=============================================================================
