--------------------------- MODULE RetrievalBudget ---------------------------
(***************************************************************************)
(* The allocation of the sources of an answer (src/rag/retrieval_budget.py):*)
(* which of the retrieved rows go into the prompt, so that no requested    *)
(* intent is lost to the limits on sources and characters.                 *)
(*                                                                         *)
(* A row is its place in the ranking; a call says which intents each row   *)
(* matches, which rows were looked up exactly, and how long they are.  The *)
(* order in which the sources are emitted is left out.                     *)
(***************************************************************************)
EXTENDS Naturals, SequencesExt

CONSTANTS
    Intents,       \* intents a row may match
    MaxRows,       \* rows of a call (checking only, as the next four)
    Sizes,         \* characters of a row
    SourceLimits,  \* max_sources
    CharLimits,    \* context_budget_chars
    PageSizes      \* voice_page_size

ASSUME BudgetAssumption ==
    /\ IsFiniteSet(Intents) /\ MaxRows \in Nat
    /\ Sizes \cup SourceLimits \cup CharLimits \cup PageSizes \subseteq Nat

VARIABLES
    call,        \* the arguments of allocate_sources
    allocation   \* whether it returned, and the rows it allocated

budgetVars == <<call, allocation>>

Rows == 1..MaxRows

(* The policies of a character (packet_policy.py), the only ones with these  *)
(* two coverage modes: the source target of voice is 8, that of any other    *)
(* intent 1.  Story and corpus topics, whose targets are 2 and 3, are        *)
(* policies of other entities and left out.                                  *)
AllAvailable == {"skill"}
Fixed == {"voice"}

Calls ==
    [requested : SUBSET Intents \ {{}}, matched : [Rows -> SUBSET Intents],
     exact : SUBSET Rows, size : [Rows -> Sizes],
     sources : SourceLimits, chars : CharLimits, page : PageSizes]

-----------------------------------------------------------------------------
(* Rows and quotas. *)

AtLeastOne(n) == Max({1, n})

(* A row looked up for an intent of mode all_available matches it.           *)
Matched(c, i) ==
    c.matched[i] \cup {t \in c.requested \cap AllAvailable : i \in c.exact}

Contributes(c, i, t) ==
    IF t \in AllAvailable THEN i \in c.exact ELSE t \in Matched(c, i)

QuotaTarget(c, t) ==
    IF t \in AllAvailable THEN AtLeastOne(Cardinality(c.exact))
    ELSE IF t \in Fixed THEN Min({8, AtLeastOne(c.page)})
    ELSE 1

Bounded(c, t) == Min({QuotaTarget(c, t), c.sources})

Voiced(c, S) == {i \in S : "voice" \in Matched(c, i)}

Chars(c, S) == MapThenSumSet(LAMBDA i : c.size[i], S)

-----------------------------------------------------------------------------
(* _select_quota_row_indices: the rows that fill the quotas.                 *)

(* A partial selection: the bounded coverage it reaches, its characters and  *)
(* its rows in the order of the ranking.                                     *)
Nothing(c) == [cov |-> [t \in c.requested |-> 0], chars |-> 0, picked |-> <<>>]

Advance(c, cov, i) ==
    [t \in c.requested |->
        IF Contributes(c, i, t) THEN Min({Bounded(c, t), cov[t] + 1}) ELSE cov[t]]

CountLimit(c) ==
    LET target == [t \in c.requested |-> Bounded(c, t)]
    IN Min({c.sources, MapThenSumSet(LAMBDA t : target[t], c.requested)})

Takes(c, s, i) ==
    /\ Advance(c, s.cov, i) # s.cov
    /\ Len(s.picked) < CountLimit(c)
    /\ s.chars + c.size[i] <= c.chars
    /\ "voice" \in c.requested \cap Matched(c, i) =>
          s.cov["voice"] < Bounded(c, "voice")

Extend(c, s, i) ==
    [cov |-> Advance(c, s.cov, i), chars |-> s.chars + c.size[i],
     picked |-> Append(s.picked, i)]

Complete(c, s) == \A t \in c.requested : s.cov[t] = Bounded(c, t)

(* The ranked path takes every row it can. *)
RankedPath(c) ==
    FoldLeft(LAMBDA s, i : IF Takes(c, s, i) THEN Extend(c, s, i) ELSE s,
             Nothing(c), [i \in Rows |-> i])

Before(p, q) ==
    \E k \in 1..Len(q) :
        /\ k <= Len(p) + 1
        /\ \A j \in 1..(k - 1) : p[j] = q[j]
        /\ k <= Len(p) => p[k] < q[k]

Cheaper(s, z) ==
    \/ s.chars < z.chars
    \/ s.chars = z.chars /\ Before(s.picked, z.picked)

\* Mutant of Cheapest: one selection is kept for every number of rows.
CheapestOfCount(S) ==
    {s \in S : \A z \in S : Len(z.picked) = Len(s.picked) => ~Cheaper(z, s)}

(* For each coverage and number of rows the cheapest selection is kept.      *)
Cheapest(S) ==
    {s \in S : \A z \in S :
        z.cov = s.cov /\ Len(z.picked) = Len(s.picked) => ~Cheaper(z, s)}

Selections(c) ==
    LET Grown(S, i) == S \cup {Extend(c, s, i) : s \in {z \in S : Takes(c, z, i)}}
    IN  FoldLeft(LAMBDA S, i : Cheapest(Grown(S, i)), {Nothing(c)}, [i \in Rows |-> i])

Represented(c, s) == Cardinality({t \in c.requested : s.cov[t] > 0})
Satisfied(c, s) == Cardinality({t \in c.requested : s.cov[t] >= Bounded(c, t)})
Covered(c, s) == MapThenSumSet(LAMBDA t : s.cov[t], c.requested)

(* Without a complete selection: more intents, then more quotas filled, then *)
(* more coverage, then the earlier rows.                                     *)
Better(c, s, z) ==
    LET rank(x) == <<Represented(c, x), Satisfied(c, x), Covered(c, x)>>
    IN  IF rank(s) = rank(z) THEN Before(s.picked, z.picked)
        ELSE Before(rank(z), rank(s))

QuotaRows(c) ==
    LET path == RankedPath(c)
        all == Selections(c)
        complete == {s \in all : Complete(c, s)}
        chosen ==
            IF Complete(c, path) THEN path
            ELSE IF complete # {}
                 THEN CHOOSE s \in complete :
                          \A z \in complete \ {s} : Before(s.picked, z.picked)
                 ELSE CHOOSE s \in all : \A z \in all \ {s} : Better(c, s, z)
    IN  {chosen.picked[k] : k \in 1..Len(chosen.picked)}

-----------------------------------------------------------------------------
(* allocate_sources *)

(* The capacity that is left goes to the rows of a requested intent, in the  *)
(* order of the ranking; rows of voice stay within the page.                 *)
CanAdd(c, S, i) ==
    /\ i \notin S /\ Cardinality(S) < c.sources
    /\ Matched(c, i) \cap c.requested # {}
    /\ "voice" \in Matched(c, i) =>
          "voice" \in c.requested /\ Cardinality(Voiced(c, S)) < QuotaTarget(c, "voice")
    /\ Chars(c, S) + c.size[i] <= c.chars

Filled(c, S) ==
    FoldLeft(LAMBDA T, i : IF CanAdd(c, T, i) THEN T \cup {i} ELSE T,
             S, [i \in Rows |-> i])

(* A pure function: the same call returns the same rows again.               *)
AllocateSources ==
    /\ allocation' = [returned |-> TRUE, rows |-> Filled(call, QuotaRows(call))]
    /\ UNCHANGED call

BudgetInit == call \in Calls /\ allocation = [returned |-> FALSE, rows |-> {}]

BudgetNext == AllocateSources

BudgetSpec == BudgetInit /\ [][BudgetNext]_budgetVars

-----------------------------------------------------------------------------
(* Properties. *)

BudgetTypeOK ==
    call \in Calls /\ allocation \in [returned : BOOLEAN, rows : SUBSET Rows]

Within(c, S) ==
    /\ Cardinality(S) <= c.sources /\ Chars(c, S) <= c.chars
    /\ "voice" \in c.requested => Cardinality(Voiced(c, S)) <= QuotaTarget(c, "voice")

Coverage(c, S, t) == Cardinality({i \in S : Contributes(c, i, t)})

MeetsQuotas(c, S) == \A t \in c.requested : Coverage(c, S, t) >= Bounded(c, t)

KeptIntents(c, S) == Cardinality({t \in c.requested : Coverage(c, S, t) > 0})

(* The allocation keeps the limits, meets all quotas if any choice of rows   *)
(* within the limits does, and leaves no intent without a source if another  *)
(* choice would keep more of them: what _select_quota_row_indices discards   *)
(* on the way is never needed.                                               *)
AllocationIsBest ==
    /\ BudgetTypeOK
    /\ allocation.returned =>
          LET choices == {S \in SUBSET Rows : Within(call, S)}
          IN  /\ allocation.rows \in choices
              /\ (\E S \in choices : MeetsQuotas(call, S))
                     => MeetsQuotas(call, allocation.rows)
              /\ \A S \in choices : KeptIntents(call, S) <= KeptIntents(call, allocation.rows)
=============================================================================
