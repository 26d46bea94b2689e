--------------------------- MODULE MCBudgetReplay ---------------------------
(***************************************************************************)
(* Two models, two queries; quotes that are exact, too low and too high.   *)
(***************************************************************************)
EXTENDS BudgetReplay

MCPrices == [quoted : {1, 2}, realized : {0, 1, 2, 4}]
=============================================================================
