---------------------------- MODULE SectionBudget ----------------------------
(***************************************************************************)
(* How many chunks of each section a summary may read: every section asks  *)
(* for its chunks up to its quota; if that is more than the budget, every  *)
(* section is scaled down, rounding down, and what rounding has left over  *)
(* is handed out one by one, to the sections that asked for most first.    *)
(***************************************************************************)
EXTENDS Integers, FiniteSets, Functions

CONSTANTS
    Quota,      \* the most chunks a section may get, by section; at least one
    Budget,     \* the most chunks of one summary
    Supplies    \* the chunk counts by section documents may have

ASSUME BudgetAssumption ==
    /\ IsFiniteSet(DOMAIN Quota) /\ \A s \in DOMAIN Quota : Quota[s] \in Nat
    /\ Budget \in Nat
    /\ Supplies \subseteq [DOMAIN Quota -> Nat]

QuotaSections == DOMAIN Quota

VARIABLES
    supply,      \* chunks of the document by section; 0: the section is missing
    desired,
    allocation,
    remaining,   \* places of the budget not handed out yet
    waiting,     \* sections the last loop has not come to
    phase        \* the part of the function that runs next

budgetVars == <<supply, desired, allocation, remaining, waiting, phase>>

Nothing == [s \in QuotaSections |-> 0]

AtMost(m, n) == IF m <= n THEN m ELSE n

BudgetInit ==
    /\ supply \in Supplies
    /\ desired = Nothing
    /\ allocation = Nothing
    /\ remaining = 0
    /\ waiting = {}
    /\ phase = "measure"

(* Mutant: a section without a quota of its own is not capped. *)
Uncapped(s) == IF s = "unknown" THEN supply[s] ELSE AtMost(supply[s], Quota[s])

Desired(s) == AtMost(supply[s], Quota[s])

(* If the quotas fit the budget there is nothing to scale. *)
Measure ==
    /\ phase = "measure"
    /\ desired' = [s \in QuotaSections |-> Desired(s)]
    /\ IF SumFunction(desired') <= Budget
       THEN allocation' = desired' /\ phase' = "done"
       ELSE phase' = "scale" /\ UNCHANGED allocation
    /\ UNCHANGED <<supply, remaining, waiting>>

(* Mutant: shares are rounded up. *)
ShareUp(s) == (desired[s] * Budget + SumFunction(desired) - 1) \div SumFunction(desired)

Share(s) == (desired[s] * Budget) \div SumFunction(desired)

Scale ==
    /\ phase = "scale"
    /\ allocation' = [s \in QuotaSections |-> Share(s)]
    /\ remaining' = Budget - SumFunction(allocation')
    /\ waiting' = QuotaSections
    /\ phase' = "top up"
    /\ UNCHANGED <<supply, desired>>

(* Mutant: the sections that asked for least come first. *)
SmallestFirst == {s \in waiting : \A t \in waiting : desired[t] >= desired[s]}

(* Sections that asked for as much as each other come in any order. *)
NextSections == {s \in waiting : \A t \in waiting : desired[t] <= desired[s]}

Headroom(s) == desired[s] - allocation[s]

(* Mutant: a section takes all it still has room for. *)
FillUp(s) == IF Headroom(s) < remaining THEN Headroom(s) ELSE remaining

(* Mutant: the last chunk of a section is never taken. *)
ExtraOfMany(s) == IF Headroom(s) > 1 THEN 1 ELSE 0

Extra(s) == IF Headroom(s) > 0 THEN 1 ELSE 0

TopUp ==
    /\ phase = "top up"
    /\ remaining > 0
    /\ \E s \in NextSections :
          /\ allocation' = [allocation EXCEPT ![s] = @ + Extra(s)]
          /\ remaining' = remaining - Extra(s)
          /\ waiting' = waiting \ {s}
    /\ UNCHANGED <<supply, desired, phase>>

LoopEnds == remaining <= 0 \/ waiting = {}

Settle ==
    /\ phase = "top up"
    /\ LoopEnds
    /\ phase' = "done"
    /\ UNCHANGED <<supply, desired, allocation, remaining, waiting>>

BudgetNext == Measure \/ Scale \/ TopUp \/ Settle

BudgetSpec == BudgetInit /\ [][BudgetNext]_budgetVars

-----------------------------------------------------------------------------
(* At no time are more places handed out than the budget has, nor more to a *)
(* section than it has chunks; and no place is counted twice.               *)
BudgetRespected ==
    /\ SumFunction(allocation) <= Budget
    /\ \A s \in QuotaSections : allocation[s] <= AtMost(supply[s], Quota[s])
    /\ phase = "top up" => SumFunction(allocation) + remaining = Budget

(* No place is wasted: one pass over the sections is enough to hand out all *)
(* that rounding left over.                                                 *)
BudgetUsed ==
    phase = "done" =>
        SumFunction(allocation) = AtMost(Budget, SumFunction(desired))

(* A section that asked for more never ends up with less. *)
OrderKept ==
    phase = "done" =>
        \A s, t \in QuotaSections : desired[s] > desired[t] => allocation[s] >= allocation[t]

(* Scaled down, every section is within one chunk of its exact share. *)
SharesAreFair ==
    phase = "done" /\ SumFunction(desired) > Budget =>
        \A s \in QuotaSections :
            LET gap == allocation[s] * SumFunction(desired) - desired[s] * Budget
            IN  -SumFunction(desired) < gap /\ gap <= SumFunction(desired)

(* The budget is apportioned: never exceeded, used up, in the order of the  *)
(* demands and in proportion to them.                                       *)
Apportioned == BudgetRespected /\ BudgetUsed /\ OrderKept /\ SharesAreFair
=============================================================================
