----------------------------- MODULE Standalone -----------------------------
(***************************************************************************)
(* Three parts that share no state, in one module for the model checker: a *)
(* behaviour is one of the activation of a candidate, of the Codex         *)
(* supervisor or of the allocation of sources, as part says, and leaves    *)
(* the others where they start.                                            *)
(***************************************************************************)
EXTENDS Activation, Supervisor, RetrievalBudget

VARIABLE part        \* what this behaviour is about

allVars == <<part, vars, supervisorVars, budgetVars>>

SomeCall == CHOOSE c \in Calls : TRUE

StandaloneInit ==
    /\ part \in {"activation", "supervisor", "budget"}
    /\ Init /\ SupervisorInit /\ BudgetInit
    /\ part # "budget" => call = SomeCall

InActivation(action) ==
    /\ part = "activation" /\ action
    /\ UNCHANGED <<part, supervisorVars, budgetVars>>
InSupervisor(action) ==
    /\ part = "supervisor" /\ action
    /\ UNCHANGED <<part, vars, budgetVars>>
InBudget(action) ==
    /\ part = "budget" /\ action
    /\ UNCHANGED <<part, vars, supervisorVars>>

StandaloneNext ==
    InActivation(Next) \/ InSupervisor(SupervisorNext) \/ InBudget(BudgetNext)

(* The fairness of each part, in its own behaviours.  part is constant, so   *)
(* fairness of a disjunction is fairness of each disjunct.                   *)
StandaloneFairness ==
    /\ \A r \in Runners : WF_allVars(InSupervisor(RunnerOrCodex(r)) \/ InActivation(Run))
    /\ WF_allVars(InSupervisor(Cli) \/ InActivation(Recover))
    /\ SF_allVars(InSupervisor(StartWorker))

StandaloneSpec == StandaloneInit /\ [][StandaloneNext]_allVars /\ StandaloneFairness

=============================================================================
