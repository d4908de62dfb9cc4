\* Requests of two subtasks over one source: whose actions does a branch offer?
CONSTANTS
    Sources = {s1}
    Prints = {p1}
    MaxTasks = 2

SPECIFICATION AnswerSpec

\* A request ends.
CHECK_DEADLOCK FALSE

INVARIANT
    ActionsStayOwn
