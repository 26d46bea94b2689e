---------------------------- MODULE BudgetReplay ----------------------------
(***************************************************************************)
(* OfflineSimulator over one tier: every query is routed step by step      *)
(* until the router selects an output of its call history, breaks the      *)
(* routing contract, exhausts the call cap or overspends.  An action is    *)
(* checked against the QUOTED cost; what is charged is the REALIZED cost.  *)
(* The router is any Router: each step it may answer anything.             *)
(***************************************************************************)
EXTENDS BudgetLedger, Totals

CONSTANTS Models,    \* the candidate models of every example
          Prices,    \* quoted and realized cost of a model in one example
          NQueries,  \* number of examples in the stream
          MaxCalls   \* max_calls_per_query

ASSUME PriceAssumption == Prices # {} /\ Prices \subseteq [quoted : Nat, realized : Nat]
ASSUME StreamAssumption == NQueries \in Nat \ {0} /\ MaxCalls \in Nat \ {0}
ASSUME NoQueryAssumption == NoQuery \notin 1 .. NQueries

VARIABLES
    phase,    \* "between" queries, "routing" one, "reported", or "aborted"
    price,    \* quoted and realized cost of each model in the active example
    charged,  \* the realized cost charged to the active query
    history,  \* the calls the router sees, in order
    calls,    \* the evidence recorded for them
    results   \* the finished queries

query == <<price, charged, history, calls>>
vars  == <<ledger, phase, query, results>>

Init ==
    /\ LedgerInit
    /\ phase = "between"
    /\ price = [m \in Models |-> CHOOSE p \in Prices : TRUE] \* not read yet
    /\ charged = 0 /\ history = << >> /\ calls = << >> /\ results = << >>

NextQuery == Len(results) + 1

\* begin_query, then a fresh query state; the examples come in recorded order.
StartQuery ==
    /\ phase = "between" /\ NextQuery <= NQueries
    /\ BeginQuery(NextQuery)
    /\ phase' = "routing"
    /\ price' \in [Models -> Prices]
    /\ charged' = 0 /\ history' = << >> /\ calls' = << >>
    /\ UNCHANGED results

\* The query ends: its result is kept and the ledger closes it.
EndQuery(result) ==
    /\ results' = Append(results, result)
    /\ phase' = "between"

FailedQuery(cost, evidence) ==
    [feasible |-> FALSE, selected |-> 0, cost |-> cost, calls |-> evidence]

\* What validate_action accepts of CallModel.
Affordable(model) == price[model].quoted <= remaining

\* An accepted call within the cap: its realized cost is charged and recorded.
CallRecord(model) ==
    [model |-> model, quoted |-> price[model].quoted, realized |-> price[model].realized,
     before |-> remaining, after |-> remaining',
     within |-> WithinBudget(price[model].realized)]

Execute(model) ==
    /\ phase = "routing"
    /\ Affordable(model) /\ Len(history) < MaxCalls
    /\ ChargeRealized(price[model].realized)
    /\ charged' = charged + price[model].realized
    /\ calls' = Append(calls, CallRecord(model))
    /\ UNCHANGED <<scope, order, price>>

Call(model) ==
    /\ Execute(model)
    /\ WithinBudget(price[model].realized)
    /\ history' = Append(history, model)
    /\ UNCHANGED <<active, phase, results>>

\* The realized charge exceeds what was left although the quote did not: the
\* charge stays and the query fails.
Overspend(model) ==
    /\ Execute(model)
    /\ ~WithinBudget(price[model].realized)
    /\ FinishQuery
    /\ EndQuery(FailedQuery(charged', calls'))
    /\ UNCHANGED history

\* An action the contract refuses: an unknown or unaffordable model, an index
\* outside the history, a router that gives up, or a call beyond the cap.
Refused ==
    /\ phase = "routing"
    /\ FinishQuery
    /\ EndQuery(FailedQuery(charged, calls))
    /\ UNCHANGED <<account, query>>

Select(index) ==
    /\ phase = "routing"
    /\ index \in DOMAIN history
    /\ FinishQuery
    /\ EndQuery([feasible |-> TRUE, selected |-> index, cost |-> charged, calls |-> calls])
    /\ UNCHANGED <<account, query>>

\* Any other exception of the router closes the query and ends the replay.
RouterCrash ==
    /\ phase = "routing"
    /\ FinishQuery
    /\ phase' = "aborted"
    /\ UNCHANGED <<account, query, results>>

Report ==
    /\ phase = "between" /\ NextQuery > NQueries
    /\ phase' = "reported"
    /\ UNCHANGED <<ledger, query, results>>

Ended == phase \in {"reported", "aborted"} /\ UNCHANGED vars

Next ==
    \/ StartQuery
    \/ \E model \in Models : Call(model) \/ Overspend(model)
    \/ Refused
    \/ \E index \in 1 .. MaxCalls : Select(index)
    \/ RouterCrash
    \/ Report
    \/ Ended

Spec == Init /\ [][Next]_vars

-----------------------------------------------------------------------------
(* Properties. *)

CallType == [model : Models, quoted : Nat, realized : Nat, before : Nat, after : Nat,
             within : BOOLEAN]
ResultType == [feasible : BOOLEAN, selected : Nat, cost : Nat, calls : Seq(CallType)]

TypeOK ==
    /\ scope \in {"per-query", "cumulative"}
    /\ active \in {NoQuery} \cup 1 .. NQueries
    /\ remaining \in Nat /\ spent \in Nat /\ over \in Nat
    /\ order \in Seq(1 .. NQueries)
    /\ phase \in {"between", "routing", "reported", "aborted"}
    /\ price \in [Models -> Prices]
    /\ charged \in Nat
    /\ history \in Seq(Models)
    /\ calls \in Seq(CallType)
    /\ results \in Seq(ResultType)

RealizedSum(s) == Total([i \in DOMAIN s |-> s[i].realized])
OverCount(s)   == Total([i \in DOMAIN s |-> IF s[i].within THEN 0 ELSE 1])

\* Over the finished queries: what they cost, what their calls were charged, how
\* many calls were over budget, and what the feasible ones cost.
CostSum(s)      == Total([i \in DOMAIN s |-> s[i].cost])
ChargeSum(s)    == Total([i \in DOMAIN s |-> RealizedSum(s[i].calls)])
OverSum(s)      == Total([i \in DOMAIN s |-> OverCount(s[i].calls)])
FeasibleCost(s) == Total([i \in DOMAIN s |-> IF s[i].feasible THEN s[i].cost ELSE 0])

\* What the constructors of ReplayCall, QueryResult and TierResult accept.
CallIsValid(call) == call.quoted <= call.before

QueryIsValid(r) ==
    /\ \A j \in DOMAIN r.calls : CallIsValid(r.calls[j])
    /\ r.cost = RealizedSum(r.calls)
    /\ r.feasible => /\ r.selected \in DOMAIN r.calls
                     /\ \A j \in DOMAIN r.calls : r.calls[j].within
    /\ ~r.feasible => r.selected = 0

TierIsValid == order = [i \in 1 .. Len(results) |-> i]

\* They never reject what the simulator hands them, and the cap on the calls of a
\* query holds.
ResultsWellFormed ==
    /\ \A i \in DOMAIN results :
          QueryIsValid(results[i]) /\ Len(results[i].calls) <= MaxCalls
    /\ phase = "reported" => TierIsValid

\* The evidence agrees with the ledger, which is what summarize_quote_error
\* refuses reports for: query costs, call charges and the ledger's spend are one
\* sum, every over-budget call the ledger counted is in the evidence, and no
\* constructor rejects it.
EvidenceConserved ==
    /\ ResultsWellFormed
    /\ phase = "reported" =>
        /\ CostSum(results) = spent
        /\ ChargeSum(results) = spent
        /\ OverSum(results) = over

\* An over-budget call is the last one of its query: the router is never asked
\* again with a broken budget, and a query contains at most one.
OverspendEndsQuery ==
    /\ \A i \in DOMAIN calls : phase = "routing" => calls[i].within
    /\ \A i \in DOMAIN results : \A j \in DOMAIN results[i].calls :
          ~results[i].calls[j].within => j = Len(results[i].calls) /\ ~results[i].feasible

\* A feasible query never costs more than the configured limit, under either
\* ledger.
FeasibleWithinLimit ==
    \A i \in DOMAIN results : results[i].feasible => results[i].cost <= Limit

\* Under the shared ledger all feasible queries together stay within the limit.
SharedLimitHolds ==
    scope = "cumulative" => FeasibleCost(results) <= Limit

\* The per-query oracle is an upper bound: the output any router selects comes
\* from a model that build_per_query_oracle_plan considered affordable.
OracleCandidate(call) == call.quoted <= Limit /\ call.realized <= Limit
OracleDominates ==
    \A i \in DOMAIN results : results[i].feasible =>
        OracleCandidate(results[i].calls[results[i].selected])

\* After an overspend the shared ledger stays exhausted: nothing that costs
\* anything is within budget for the rest of the stream.
ExhaustionIsFinal ==
    [][scope = "cumulative" /\ over > 0 => remaining' = 0 /\ (spent' > spent => over' > over)]_vars
=============================================================================
