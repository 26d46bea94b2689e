---------------------------- MODULE BudgetLedger ----------------------------
(***************************************************************************)
(* The two budget ledgers.  PerQueryBudgetLedger resets the configured     *)
(* limit at the start of every query; CumulativeBudgetLedger shares it     *)
(* across the ordered stream.  Costs are exact nonnegative decimals, here  *)
(* multiples of one unit.                                                  *)
(***************************************************************************)
EXTENDS Integers, Sequences

CONSTANTS Limit,   \* the configured budget of the tier
          NoQuery  \* the value of _active_query between queries

ASSUME LimitAssumption == Limit \in Nat

VARIABLES
    scope,     \* "per-query" or "cumulative": which class the factory built
    active,    \* the query being accounted, or NoQuery
    remaining, \* what the router may still spend
    spent,     \* the realized charges of the whole stream
    over,      \* calls whose realized charge did not fit
    order      \* the queries begun, in order

account == <<scope, remaining, spent, over, order>>
ledger  == <<active, account>>

LedgerInit ==
    /\ scope \in {"per-query", "cumulative"}
    /\ active = NoQuery
    /\ remaining = IF scope = "per-query" THEN 0 ELSE Limit
    /\ spent = 0 /\ over = 0 /\ order = << >>

\* Mutants of BeginQuery: what is left is carried over; the shared limit is reset.
BeginQueryCarriesOver(q) ==
    /\ active = NoQuery
    /\ active' = q
    /\ remaining' = IF scope = "per-query" THEN remaining + Limit ELSE remaining
    /\ order' = Append(order, q)
    /\ UNCHANGED <<scope, spent, over>>

BeginQueryResets(q) ==
    /\ active = NoQuery
    /\ active' = q
    /\ remaining' = Limit
    /\ order' = Append(order, q)
    /\ UNCHANGED <<scope, spent, over>>

BeginQuery(q) ==
    /\ active = NoQuery
    /\ active' = q
    /\ remaining' = IF scope = "per-query" THEN Limit ELSE remaining
    /\ order' = Append(order, q)
    /\ UNCHANGED <<scope, spent, over>>

WithinBudget(cost) == cost <= remaining

\* Mutants of ChargeRealized: a charge that does not fit is not recorded; it
\* leaves the balance as it was.
ChargeOnlyWhatFits(cost) ==
    /\ active # NoQuery
    /\ \/ /\ WithinBudget(cost)
          /\ spent' = spent + cost /\ remaining' = remaining - cost
          /\ UNCHANGED over
       \/ ~WithinBudget(cost) /\ remaining' = 0 /\ over' = over + 1 /\ UNCHANGED spent

ChargeKeepsBalance(cost) ==
    /\ active # NoQuery
    /\ spent' = spent + cost
    /\ \/ WithinBudget(cost) /\ remaining' = remaining - cost /\ UNCHANGED over
       \/ ~WithinBudget(cost) /\ over' = over + 1 /\ UNCHANGED remaining

\* The charge is recorded whether or not it fits; one that does not fit leaves
\* nothing.
ChargeRealized(cost) ==
    /\ active # NoQuery
    /\ spent' = spent + cost
    /\ \/ WithinBudget(cost) /\ remaining' = remaining - cost /\ UNCHANGED over
       \/ ~WithinBudget(cost) /\ remaining' = 0 /\ over' = over + 1

FinishQuery ==
    /\ active # NoQuery
    /\ active' = NoQuery
=============================================================================
