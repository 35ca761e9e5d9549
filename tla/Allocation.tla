----------------------------- MODULE Allocation -----------------------------
(***************************************************************************)
(* The allocation engine: how the part of a Bill that the recipient does   *)
(* not fund is split among the payers, in integer units of the asset, and  *)
(* who is given the units that the division leaves over.                   *)
(*                                                                         *)
(* An input is a record with                                               *)
(*   total, funded   units of the Bill and of the recipient's own part,    *)
(*   payers          the payers in the order of the Bill,                  *)
(*   strategy        "custom", "equal", "percentage" or "shares",          *)
(*   entry           what is entered for each payer: an amount, a          *)
(*                   percentage in units of PercentUnit, or a weight,      *)
(*   rule            [kind, who, increments], who gets the remainder;      *)
(*                   kind is "none" where the input names no rule.         *)
(*                                                                         *)
(* The engine and the browser's preview are this one function, so an input *)
(* is either refused (~Allocates) or has one result.                       *)
(***************************************************************************)
EXTENDS Integers, Sequences, FiniteSets, Functions

Strategies == {"custom", "equal", "percentage", "shares"}
Weighted == {"percentage", "shares"}

\* One hundred percent, at the two decimals the form uses.
PercentUnit == 100 * 10 ^ 2

PayersOf(a) == Range(a.payers)
Entries(a) == [p \in PayersOf(a) |-> a.entry[p]]
Distributable(a) == a.total - a.funded

HasBase(a) ==
    /\ a.payers # << >>
    /\ \A i, j \in DOMAIN a.payers : a.payers[i] = a.payers[j] => i = j
    /\ a.total > 0
    /\ a.funded \in 0 .. a.total - 1

HasEntries(a) ==
    /\ a.strategy # "equal" => \A p \in PayersOf(a) : a.entry[p] > 0
    /\ a.strategy = "custom" => a.funded + SumFunction(Entries(a)) = a.total
    /\ a.strategy = "percentage" => SumFunction(Entries(a)) = PercentUnit

Weight(a, p) == IF a.strategy = "equal" THEN 1 ELSE a.entry[p]

Denominator(a) ==
    CASE a.strategy = "equal" -> Cardinality(PayersOf(a))
      [] a.strategy = "percentage" -> PercentUnit
      [] a.strategy = "shares" -> SumFunction(Entries(a))

NearestUnits(a, p) ==                                               \* mutant
    IF a.strategy = "custom"
    THEN a.entry[p]
    ELSE (2 * Distributable(a) * Weight(a, p) + Denominator(a)) \div (2 * Denominator(a))

\* BigInt division rounds toward zero, and nothing here is negative.
FloorUnits(a, p) ==
    IF a.strategy = "custom"
    THEN a.entry[p]
    ELSE (Distributable(a) * Weight(a, p)) \div Denominator(a)

RemainderUnits(a) ==
    IF a.strategy = "custom"
    THEN 0
    ELSE Distributable(a) - SumFunction([p \in PayersOf(a) |-> FloorUnits(a, p)])

RuleFits(a) ==
    LET r == RemainderUnits(a)
    IN \/ r = 0
       \/ a.rule.kind \in {"creator", "first_participant"}
       \/ a.rule.kind = "selected_participant" /\ a.rule.who \in PayersOf(a)
       \/ /\ a.rule.kind = "manual"
          /\ r = SumFunction([p \in PayersOf(a) |-> a.rule.increments[p]])

\* What the rule adds to the obligation of a payer.
Increment(a, p) ==
    LET r == RemainderUnits(a)
        taker == \/ a.rule.kind = "first_participant" /\ p = a.payers[1]
                 \/ a.rule.kind = "selected_participant" /\ p = a.rule.who
    IN CASE r # 0 /\ a.rule.kind = "manual" -> a.rule.increments[p]
         [] r # 0 /\ taker -> r
         [] OTHER -> 0

Obligation(a, p) == FloorUnits(a, p) + Increment(a, p)
Obligations(a) == [p \in PayersOf(a) |-> Obligation(a, p)]

\* The recipient's own part, with the remainder where the rule gives it to them.
FinalFunded(a) ==
    IF a.rule.kind = "creator" THEN a.funded + RemainderUnits(a) ELSE a.funded

IsFinal(a) ==
    LET owed == Obligations(a)
    IN /\ \A p \in PayersOf(a) : owed[p] > 0
       /\ FinalFunded(a) + SumFunction(owed) = a.total

\* allocateBill returns a result, and does not throw.
Allocates(a) == HasBase(a) /\ HasEntries(a) /\ RuleFits(a) /\ IsFinal(a)

=============================================================================
