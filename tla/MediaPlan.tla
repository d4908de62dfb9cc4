------------------------------ MODULE MediaPlan ------------------------------
(***************************************************************************)
(* What media of a candidate may be downloaded: build_media_download_plan  *)
(* and apply_capacity_decision (src/huiji_rag/build/media_download_plan.py)*)
(* with the rows and the inventory the builder hands them                  *)
(* (orchestrator.py).                                                      *)
(*                                                                         *)
(* A behaviour is one request, its plan, and perhaps the plan of a subset  *)
(* that was approved.  A resource is its number, which is the order of the *)
(* identifiers; its rows are its bindings, each with an owner and the      *)
(* priority of its role.  Sizes and limits are small numbers, the margins  *)
(* of the code (a fifth, at least) keep their form.                        *)
(***************************************************************************)
EXTENDS Integers, Orders, SequencesExt

CONSTANTS
    MaxResources,      \* resources of a request (checking only, as the next five)
    PlanSizes,         \* bytes of a resource
    FreeBytes,         \* free bytes of the disk
    CloudBytes,        \* free bytes of the bucket
    GrowthBytes,       \* growth of the disk by what is not media
    PlanWorkers,       \* files that are downloaded at a time
    P0Budget, P1Budget,\* new bytes a phase may take
    MinimumFree,       \* bytes that must stay free after the commit
    LocalFloor, CloudFloor,  \* the least margins
    ExpansionUnit      \* disks grow by multiples of this

ASSUME PlanAssumption ==
    /\ {MaxResources, PlanWorkers, ExpansionUnit} \subseteq Nat \ {0}
    /\ PlanSizes \cup FreeBytes \cup CloudBytes \cup GrowthBytes \subseteq Nat
    /\ {P0Budget, P1Budget, MinimumFree, LocalFloor, CloudFloor} \subseteq Nat

VARIABLES
    planRequest,  \* the request that was planned last
    plan,         \* its plan
    planStage     \* what it answers

planVars == <<planRequest, plan, planStage>>

Unknown == -1

\* A row: who is shown the resource, and how early its role comes.  A story is
\* an owner that p0 leaves to p1.
Row(owner, priority) == [owner |-> owner, priority |-> priority]

RowsOfAResource ==
    {<<Row("page", 1)>>, <<Row("page", 2)>>, <<Row("story", 1)>>,
     <<Row("page", 2), Row("activity", 1)>>}

\* at: the frozen inventory has it by key, hash and size, the disk has it, or
\* neither.
Resource == [rows : RowsOfAResource, size : PlanSizes, at : {"nowhere", "local", "bucket"}]

\* Of the three numbers about capacity one may be missing; incomplete tells
\* that the size of some referenced file is not known.
Capacities ==
    {c \in [free : FreeBytes \cup {Unknown}, cloud : CloudBytes \cup {Unknown},
            growth : GrowthBytes \cup {Unknown}, incomplete : BOOLEAN] :
        Cardinality({f \in {"free", "cloud", "growth"} : c[f] = Unknown})
            <= IF c.incomplete THEN 0 ELSE 1}

PhaseBudget(q) == IF q.phase = "p0" THEN P0Budget ELSE P1Budget

-----------------------------------------------------------------------------
(* Which resources the phase may take.                                      *)

Resources(q) == DOMAIN q.resources

\* _ineligible_reason: decorations, unreferenced files and the roles p0
\* excludes are left out of the rows.
EligibleRows(q, r) ==
    LET rows == q.resources[r].rows
    IN AtPlaces(rows, {i \in DOMAIN rows : q.phase = "p1" \/ rows[i].owner # "story"})

Eligible(q) == {r \in Resources(q) : EligibleRows(q, r) # <<>>}

OwnersOf(q, r) == {b.owner : b \in ToSet(EligibleRows(q, r))}

\* _selection_key of an aggregate, whose priority is that of its first row.
Before(q, r, s) ==
    LET p(x) == EligibleRows(q, x)[1].priority
    IN p(r) < p(s) \/ (p(r) = p(s) /\ r < s)

InTurn(q, set) == InOrder(set, {e \in set \X set : Before(q, e[1], e[2])})

\* The owners no earlier resource has, in the order of selection: in p0 each
\* owner is represented once, and a resource without a new owner is left out.
NewOwners(q, r) ==
    IF q.phase = "p1" THEN OwnersOf(q, r)
    ELSE OwnersOf(q, r) \ UNION {OwnersOf(q, s) : s \in {x \in Eligible(q) : Before(q, x, r)}}

\* _select_eligible_resources.
Represented(q) == {r \in Eligible(q) : NewOwners(q, r) # {}}

-----------------------------------------------------------------------------
(* What it costs.                                                          *)

\* _with_capacity_identity: what the bucket has by key, hash and size is free.
NewBytes(q, r) == IF q.resources[r].at = "bucket" THEN 0 ELSE q.resources[r].size

SumOf(q, bytes(_, _), set) == FoldSet(LAMBDA r, acc : bytes(q, r) + acc, 0, set)

NewBytesOf(q, set) == SumOf(q, NewBytes, set)

\* _partition_budget: each in its turn, if it still fits.
WithinBudget(q) ==
    FoldLeft(LAMBDA taken, r :
                 IF NewBytesOf(q, taken) + NewBytes(q, r) <= PhaseBudget(q)
                 THEN taken \cup {r} ELSE taken,
             {}, InTurn(q, Represented(q)))

\* _partition_minimum_free: the last ones are given up until enough is free.
LeavesFree(q, set) == q.capacity.free - q.capacity.growth - NewBytesOf(q, set) >= MinimumFree

DiskKnown(q) == q.capacity.free # Unknown /\ q.capacity.growth # Unknown

Retained(q) ==
    LET order == InTurn(q, WithinBudget(q))
        first(n) == ToSet(SubSeq(order, 1, n))
        fits == {n \in 0 .. Len(order) : n = 0 \/ LeavesFree(q, first(n))}
    IN IF DiskKnown(q) THEN first(Max(fits)) ELSE ToSet(order)

LocalBytes(q, r) == IF q.resources[r].at = "local" THEN 0 ELSE q.resources[r].size

\* A fifth, rounded up.
Fifth(n) == (n + 4) \div 5

Larger(m, n) == IF m < n THEN n ELSE m

\* The largest parts that are written at one time.
PartPeak(q, set) ==
    LET sizes == InOrder(set, {e \in set \X set :
                     LET m == LocalBytes(q, e[1])
                         n == LocalBytes(q, e[2])
                     IN m > n \/ (m = n /\ e[1] < e[2])})
    IN SumOf(q, LocalBytes, ToSet(SubSeq(sizes, 1, IF PlanWorkers < Len(sizes)
                                                   THEN PlanWorkers ELSE Len(sizes))))

LocalNeed(q, set) ==
    LET subtotal == SumOf(q, LocalBytes, set) + PartPeak(q, set)
    IN subtotal + Larger(LocalFloor, Fifth(subtotal))

CloudNeed(q, set) == NewBytesOf(q, set) + Larger(CloudFloor, Fifth(NewBytesOf(q, set)))

CapacityKnown(q) == ~q.capacity.incomplete /\ DiskKnown(q) /\ q.capacity.cloud # Unknown

Sufficient(q, set) ==
    /\ q.capacity.free >= LocalNeed(q, set)
    /\ q.capacity.cloud >= CloudNeed(q, set)
    /\ LeavesFree(q, set)

PlanState(q, selected, overflow) ==
    IF q.capacity.incomplete THEN "unknown_capacity"
    ELSE IF overflow # {} \/ (CapacityKnown(q) /\ ~Sufficient(q, selected))
    THEN "capacity_blocked"
    ELSE IF CapacityKnown(q) THEN "planned" ELSE "unknown_capacity"

RoundUp(n, unit) == ((n + unit - 1) \div unit) * unit

\* What it lacks for what is selected, which is what it has room for.
ShortfallOfSelected(q, selected, overflow) ==
    Larger(0, MinimumFree - (q.capacity.free - q.capacity.growth - NewBytesOf(q, selected)))

\* What the disk lacks for everything, and what the report recommends to add.
Shortfall(q, selected, overflow) ==
    Larger(0, MinimumFree - (q.capacity.free - q.capacity.growth - NewBytesOf(q, selected \cup overflow)))

Expansion(q, selected, overflow) ==
    LET lacking == Shortfall(q, selected, overflow)
        margin == Larger(LocalFloor, Fifth(NewBytesOf(q, overflow)))
    IN IF ~CapacityKnown(q) THEN Unknown
       ELSE IF lacking = 0 THEN 0
       ELSE RoundUp(lacking + margin, ExpansionUnit)

NoPlan == [selected |-> {}, overflow |-> {}, state |-> "none", expansion |-> 0]

Planned(q) ==
    LET selected == Retained(q)
        overflow == Represented(q) \ selected
    IN [selected |-> selected, overflow |-> overflow,
        state |-> PlanState(q, selected, overflow),
        expansion |-> Expansion(q, selected, overflow)]

-----------------------------------------------------------------------------
(* One request, and what apply_capacity_decision makes of its plan.        *)

\* One resource less where a number is missing (model checking only).
PlanRequests ==
    {q \in UNION {[phase : {"p0", "p1"}, capacity : Capacities,
                   resources : [1 .. n -> Resource]] : n \in 1 .. MaxResources} :
        \/ Len(q.resources) < MaxResources
        \/ ~q.capacity.incomplete /\ q.capacity.free # Unknown
                                 /\ q.capacity.cloud # Unknown /\ q.capacity.growth # Unknown}

PlanInit(requests) ==
    /\ planRequest \in requests
    /\ plan = NoPlan
    /\ planStage = "requested"

BuildPlan ==
    /\ planStage = "requested"
    /\ planStage' = "planned"
    /\ plan' = Planned(planRequest)
    /\ UNCHANGED planRequest

\* approve_partial_overflow: a new request with the rows of the approved
\* resources, whose plan must hold them all, or it is refused.
ApprovePart(approved) ==
    LET q == [planRequest EXCEPT !.resources = Restrict(@, approved)]
        replanned == Planned(q)
    IN /\ planStage = "planned"
       /\ approved # {}
       /\ approved \subseteq plan.selected \cup plan.overflow
       /\ planRequest' = q
       /\ IF replanned.selected \cup replanned.overflow = approved
          THEN planStage' = (IF approved = plan.selected THEN "kept" ELSE "approved")
               /\ plan' = replanned
          ELSE planStage' = "refused" /\ UNCHANGED plan

\* expand_storage_then_replan: the disk grows as the report recommends.
ExpandDisk ==
    LET q == [planRequest EXCEPT !.capacity.free = @ + plan.expansion]
    IN /\ planStage = "planned"
       /\ plan.expansion > 0
       /\ planStage' = "expanded"
       /\ planRequest' = q
       /\ plan' = Planned(q)

PlanNext ==
    \/ BuildPlan
    \/ \E approved \in SUBSET Resources(planRequest) : ApprovePart(approved)
    \/ ExpandDisk

-----------------------------------------------------------------------------
(* A plan divides what the phase may take into what it selects and what     *)
(* overflows; what it selects is within the budget of the phase and leaves  *)
(* the minimum free, each owner is shown once in p0, and it is planned only *)
(* when nothing overflows and everything is known.  Decisions do what they  *)
(* say: any part of a plan may be approved, what was selected is selected   *)
(* again without the rest, and the recommended expansion leaves no overflow *)
(* but that of the budget, as does a plan that recommends none              *)
(* (build_media_download_plan, apply_capacity_decision).                    *)
PlanSound ==
    LET q == planRequest
        all == plan.selected \cup plan.overflow
    IN planStage # "requested" =>
       /\ planStage # "refused"
       /\ plan.selected \cap plan.overflow = {}
       /\ \A o \in UNION {OwnersOf(q, r) : r \in Eligible(q)} :
             /\ \E r \in all : o \in OwnersOf(q, r)
             /\ q.phase = "p0" => Cardinality({r \in all : o \in NewOwners(q, r)}) = 1
       /\ NewBytesOf(q, plan.selected) <= PhaseBudget(q)
       /\ DiskKnown(q) /\ plan.selected # {} => LeavesFree(q, plan.selected)
       /\ plan.state = "planned" =>
             /\ plan.overflow = {}
             /\ CapacityKnown(q) /\ Sufficient(q, plan.selected)
       /\ planStage = "kept" => plan.overflow = {}
       /\ plan.expansion = 0 => plan.overflow = Represented(q) \ WithinBudget(q)
       /\ planStage = "expanded" => plan.overflow = Represented(q) \ WithinBudget(q)

=============================================================================
