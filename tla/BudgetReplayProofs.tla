------------------------- MODULE BudgetReplayProofs -------------------------
(***************************************************************************)
(* Budget safety of the replay for every stream length, catalogue, price   *)
(* set, limit and call cap, and the evidence of the replay: the finished   *)
(* queries and the open one add up to what the ledger recorded.            *)
(***************************************************************************)
EXTENDS BudgetReplay, TotalsProofs

\* While a query is routed its calls fit the budget one after the other.
QueryInv ==
    phase = "routing" =>
        /\ active # NoQuery
        /\ charged + remaining <= Limit
        /\ \A i \in DOMAIN calls : calls[i].within /\ OracleCandidate(calls[i])
        /\ Len(history) = Len(calls)

LedgerInv ==
    /\ remaining <= Limit
    /\ scope = "cumulative" /\ over > 0 => remaining = 0
    /\ phase # "routing" => active = NoQuery

ResultInv ==
    \A i \in DOMAIN results : LET r == results[i] IN
        /\ r.feasible => /\ r.cost <= Limit
                         /\ r.selected \in DOMAIN r.calls
                         /\ OracleCandidate(r.calls[r.selected])
        /\ ~r.feasible => r.selected = 0
        /\ \A j \in DOMAIN r.calls : ~r.calls[j].within => j = Len(r.calls) /\ ~r.feasible

IInv == TypeOK /\ LedgerInv /\ QueryInv /\ ResultInv

\* A recorded call has the type of the evidence, and its quote and charge are
\* the ones of the active example.
LEMMA RecordType ==
    ASSUME TypeOK, NEW m \in Models, remaining' \in Nat
    PROVE  /\ CallRecord(m) \in CallType
           /\ price[m].quoted \in Nat /\ price[m].realized \in Nat
<1>1. price[m].quoted \in Nat /\ price[m].realized \in Nat
  BY PriceAssumption DEF TypeOK
<1> QED
  BY <1>1 DEF CallRecord, CallType, TypeOK, WithinBudget

LEMMA InitSafe == Init => IInv
<1> SUFFICES ASSUME Init PROVE IInv
  OBVIOUS
<1>1. price \in [Models -> Prices]
  BY PriceAssumption DEF Init
<1>2. TypeOK
  BY <1>1, LimitAssumption DEF Init, LedgerInit, TypeOK
<1> QED
  BY <1>2, LimitAssumption DEF Init, LedgerInit, IInv, LedgerInv, QueryInv, ResultInv

LEMMA StartSafe == IInv /\ StartQuery => IInv'
<1> SUFFICES ASSUME IInv, StartQuery PROVE IInv'
  OBVIOUS
<1> USE LimitAssumption, StreamAssumption, NoQueryAssumption DEF IInv, StartQuery, BeginQuery, NextQuery
<1>1. TypeOK'
  <2>1. NextQuery \in 1 .. NQueries
    BY DEF TypeOK
  <2>2. order' \in Seq(1 .. NQueries)
    BY <2>1 DEF TypeOK
  <2> QED
    BY <2>1, <2>2 DEF TypeOK
<1>2. LedgerInv'
  BY DEF TypeOK, LedgerInv
<1>3. QueryInv'
  <2>1. NextQuery # NoQuery
    BY DEF TypeOK
  <2> QED
    BY <2>1 DEF TypeOK, LedgerInv, QueryInv
<1>4. ResultInv'
  BY DEF ResultInv
<1> QED
  BY <1>1, <1>2, <1>3, <1>4

\* What charging a call does to the ledger, whichever way it goes.
LEMMA ExecuteFacts ==
    ASSUME IInv, NEW m \in Models, Execute(m)
    PROVE  /\ price[m].quoted \in Nat /\ price[m].realized \in Nat
           /\ price[m].quoted <= Limit
           /\ remaining' \in Nat /\ remaining' <= remaining
           /\ spent' \in Nat /\ over' \in Nat /\ charged' \in Nat
           /\ CallRecord(m) \in CallType
           /\ calls' \in Seq(CallType)
           /\ Len(calls') = Len(calls) + 1
           /\ \A i \in DOMAIN calls : calls'[i] = calls[i]
           /\ calls'[Len(calls) + 1] = CallRecord(m)
<1>1. price[m].quoted \in Nat /\ price[m].realized \in Nat
  BY PriceAssumption DEF IInv, TypeOK
<1>2. /\ remaining' \in Nat /\ remaining' <= remaining /\ remaining <= Limit
      /\ spent' \in Nat /\ over' \in Nat /\ charged' \in Nat
  <2>1. /\ remaining \in Nat /\ spent \in Nat /\ over \in Nat /\ charged \in Nat
        /\ remaining <= Limit
    BY DEF IInv, TypeOK, LedgerInv
  <2>2. /\ charged' = charged + price[m].realized
        /\ spent' = spent + price[m].realized
        /\ \/ /\ price[m].realized <= remaining
              /\ remaining' = remaining - price[m].realized /\ over' = over
           \/ remaining' = 0 /\ over' = over + 1
    BY DEF Execute, ChargeRealized, WithinBudget
  <2> QED
    BY <1>1, <2>1, <2>2
<1>3. CallRecord(m) \in CallType
  BY <1>2, RecordType DEF IInv
<1>4. price[m].quoted <= Limit
  BY <1>1, <1>2, LimitAssumption DEF Execute, Affordable, IInv, TypeOK
<1>5. calls \in Seq(CallType) /\ calls' = Append(calls, CallRecord(m))
  BY DEF IInv, TypeOK, Execute
<1> QED
  BY <1>1, <1>2, <1>3, <1>4, <1>5

LEMMA CallSafe == ASSUME NEW m \in Models PROVE IInv /\ Call(m) => IInv'
<1> SUFFICES ASSUME IInv, Call(m) PROVE IInv'
  OBVIOUS
<1> USE LimitAssumption
<1>1. Execute(m) /\ price[m].realized <= remaining
  BY DEF Call, WithinBudget
<1>2. /\ remaining' = remaining - price[m].realized
      /\ over' = over
      /\ charged' = charged + price[m].realized
  BY <1>1, ExecuteFacts DEF Execute, ChargeRealized, WithinBudget, IInv, TypeOK
<1>3. TypeOK'
  <2>1. history' \in Seq(Models)
    BY DEF Call, IInv, TypeOK
  <2> QED
    BY <1>1, <2>1, ExecuteFacts DEF Call, Execute, IInv, TypeOK
<1>4. LedgerInv'
  <2>1. /\ remaining \in Nat /\ price[m].realized \in Nat /\ remaining <= Limit
        /\ scope = "cumulative" /\ over > 0 => remaining = 0
        /\ scope' = scope /\ phase' = "routing"
    BY <1>1, ExecuteFacts DEF Call, Execute, IInv, TypeOK, LedgerInv
  <2> QED
    BY <1>1, <1>2, <2>1 DEF LedgerInv
<1>5. QueryInv'
  <2>1. CallRecord(m).within /\ OracleCandidate(CallRecord(m))
    <3>1. /\ remaining \in Nat /\ remaining <= Limit
          /\ price[m].realized \in Nat /\ price[m].quoted <= Limit
      BY <1>1, ExecuteFacts DEF IInv, TypeOK, LedgerInv
    <3>2. price[m].realized <= Limit
      BY <1>1, <3>1
    <3> QED
      BY <1>1, <3>1, <3>2 DEF CallRecord, OracleCandidate, WithinBudget
  <2>2. \A i \in DOMAIN calls' : calls'[i].within /\ OracleCandidate(calls'[i])
    BY <1>1, <2>1, ExecuteFacts DEF Call, Execute, IInv, TypeOK, QueryInv
  <2>3. Len(history') = Len(calls')
    BY <1>1, ExecuteFacts DEF Call, Execute, IInv, TypeOK, QueryInv
  <2>4. charged' + remaining' <= Limit
    <3>1. /\ remaining \in Nat /\ charged \in Nat /\ price[m].realized \in Nat
          /\ charged + remaining <= Limit
      BY <1>1, ExecuteFacts DEF Execute, IInv, TypeOK, QueryInv
    <3> QED
      BY <1>2, <3>1
  <2> QED
    BY <1>1, <2>2, <2>3, <2>4 DEF Call, Execute, IInv, QueryInv, OracleCandidate
<1>6. ResultInv'
  BY DEF Call, IInv, ResultInv, OracleCandidate
<1> QED
  BY <1>3, <1>4, <1>5, <1>6 DEF IInv

\* A query that ends hands over a typed result and closes the ledger.
LEMMA EndSafe ==
    ASSUME IInv, NEW r \in ResultType, EndQuery(r), active' = NoQuery,
           remaining' \in Nat, remaining' <= remaining, spent' \in Nat, over' \in Nat,
           scope' = scope, order' = order, price' = price,
           charged' \in Nat, history' = history, calls' \in Seq(CallType),
           scope = "cumulative" /\ over' > 0 => remaining' = 0,
           r.feasible => /\ r.cost <= Limit
                         /\ r.selected \in DOMAIN r.calls
                         /\ OracleCandidate(r.calls[r.selected]),
           ~r.feasible => r.selected = 0,
           \A j \in DOMAIN r.calls : ~r.calls[j].within => j = Len(r.calls) /\ ~r.feasible
    PROVE  IInv'
<1>1. /\ results \in Seq(ResultType) /\ results' = Append(results, r)
      /\ phase' = "between"
  BY DEF IInv, TypeOK, EndQuery
<1>2. TypeOK'
  BY <1>1 DEF IInv, TypeOK
<1>3. LedgerInv'
  BY <1>1, LimitAssumption DEF IInv, TypeOK, LedgerInv
<1>4. QueryInv'
  BY <1>1 DEF QueryInv
<1>5. ResultInv'
  <2>1. /\ Len(results') = Len(results) + 1 /\ results'[Len(results) + 1] = r
        /\ \A i \in DOMAIN results : results'[i] = results[i]
    BY <1>1
  <2>2. SUFFICES ASSUME NEW i \in DOMAIN results'
                 PROVE  LET q == results'[i] IN
                          /\ q.feasible => /\ q.cost <= Limit
                                           /\ q.selected \in DOMAIN q.calls
                                           /\ OracleCandidate(q.calls[q.selected])
                          /\ ~q.feasible => q.selected = 0
                          /\ \A j \in DOMAIN q.calls :
                                ~q.calls[j].within => j = Len(q.calls) /\ ~q.feasible
    BY DEF ResultInv, OracleCandidate
  <2>3. CASE i = Len(results) + 1
    BY <2>1, <2>3
  <2>4. CASE i \in DOMAIN results
    BY <2>1, <2>4 DEF IInv, ResultInv
  <2>5. i = Len(results) + 1 \/ i \in DOMAIN results
    BY <1>1, <2>1
  <2> QED
    BY <2>3, <2>4, <2>5
<1> QED
  BY <1>2, <1>3, <1>4, <1>5 DEF IInv

LEMMA OverspendSafe == ASSUME NEW m \in Models PROVE IInv /\ Overspend(m) => IInv'
<1> SUFFICES ASSUME IInv, Overspend(m) PROVE IInv'
  OBVIOUS
<1> DEFINE r == FailedQuery(charged', calls')
<1>1. Execute(m) /\ ~WithinBudget(price[m].realized) /\ remaining' = 0
  BY DEF Overspend, Execute, ChargeRealized
<1>2. r \in ResultType
  BY <1>1, ExecuteFacts DEF FailedQuery, ResultType
<1>3. \A j \in DOMAIN r.calls : ~r.calls[j].within => j = Len(r.calls) /\ ~r.feasible
  <2>1. r.calls = calls' /\ ~r.feasible
    BY DEF FailedQuery
  <2>2. \A j \in DOMAIN calls : calls'[j].within
    BY <1>1, ExecuteFacts DEF IInv, QueryInv, Execute
  <2>3. \A j \in DOMAIN calls' : j \in DOMAIN calls \/ j = Len(calls')
    BY <1>1, ExecuteFacts DEF IInv, TypeOK
  <2> QED
    BY <2>1, <2>2, <2>3
<1>4. ~r.feasible /\ r.selected = 0
  BY DEF FailedQuery
<1>5. EndQuery(r) /\ active' = NoQuery /\ scope' = scope /\ order' = order /\ price' = price
      /\ history' = history
  BY DEF Overspend, Execute, FinishQuery
<1> HIDE DEF r
<1> QED
  BY <1>1, <1>2, <1>3, <1>4, <1>5, ExecuteFacts, EndSafe

LEMMA RefusedSafe == IInv /\ Refused => IInv'
<1> SUFFICES ASSUME IInv, Refused PROVE IInv'
  OBVIOUS
<1> DEFINE r == FailedQuery(charged, calls)
<1>1. r \in ResultType /\ ~r.feasible /\ r.selected = 0 /\ r.calls = calls
  BY DEF FailedQuery, ResultType, IInv, TypeOK
<1>2. \A j \in DOMAIN r.calls : r.calls[j].within
  BY <1>1 DEF IInv, QueryInv, Refused
<1>3. /\ EndQuery(r) /\ active' = NoQuery
      /\ UNCHANGED <<scope, remaining, spent, over, order, price, charged, history, calls>>
  BY DEF Refused, FinishQuery, account, query
<1>4. /\ remaining \in Nat /\ spent \in Nat /\ over \in Nat /\ charged \in Nat
      /\ calls \in Seq(CallType)
      /\ scope = "cumulative" /\ over > 0 => remaining = 0
  BY DEF IInv, TypeOK, LedgerInv
<1> HIDE DEF r
<1> QED
  BY <1>1, <1>2, <1>3, <1>4, EndSafe

LEMMA SelectSafe == ASSUME NEW i PROVE IInv /\ Select(i) => IInv'
<1> SUFFICES ASSUME IInv, Select(i) PROVE IInv'
  OBVIOUS
<1> DEFINE r == [feasible |-> TRUE, selected |-> i, cost |-> charged, calls |-> calls]
<1>1. /\ remaining \in Nat /\ spent \in Nat /\ over \in Nat /\ charged \in Nat
      /\ calls \in Seq(CallType) /\ history \in Seq(Models)
      /\ scope = "cumulative" /\ over > 0 => remaining = 0
      /\ charged + remaining <= Limit
      /\ \A j \in DOMAIN calls : calls[j].within /\ OracleCandidate(calls[j])
      /\ Len(history) = Len(calls)
  BY DEF IInv, TypeOK, LedgerInv, QueryInv, Select
<1>2. i \in DOMAIN calls /\ i \in Nat
  BY <1>1 DEF Select
<1>3. r \in ResultType /\ r.cost <= Limit
  BY <1>1, <1>2, LimitAssumption DEF ResultType
<1>4. /\ r.feasible
      /\ r.selected \in DOMAIN r.calls /\ OracleCandidate(r.calls[r.selected])
      /\ \A j \in DOMAIN r.calls : r.calls[j].within
  BY <1>1, <1>2
<1>5. /\ EndQuery(r) /\ active' = NoQuery
      /\ UNCHANGED <<scope, remaining, spent, over, order, price, charged, history, calls>>
  BY DEF Select, FinishQuery, account, query
<1> HIDE DEF r
<1> QED
  BY <1>1, <1>3, <1>4, <1>5, EndSafe

LEMMA OthersSafe == IInv /\ (RouterCrash \/ Report \/ UNCHANGED vars) => IInv'
<1> SUFFICES ASSUME IInv, RouterCrash \/ Report \/ UNCHANGED vars PROVE IInv'
  OBVIOUS
<1>1. /\ UNCHANGED <<scope, remaining, spent, over, order, price, charged, history, calls, results>>
      /\ \/ phase' = phase /\ active' = active
         \/ phase' = "aborted" /\ active' = NoQuery
         \/ phase' = "reported" /\ active' = active /\ phase = "between"
  BY DEF RouterCrash, Report, FinishQuery, vars, ledger, account, query
<1>2. TypeOK'
  BY <1>1 DEF IInv, TypeOK
<1>3. LedgerInv' /\ QueryInv'
  BY <1>1 DEF IInv, LedgerInv, QueryInv, OracleCandidate
<1>4. ResultInv'
  BY <1>1 DEF IInv, ResultInv, OracleCandidate
<1> QED
  BY <1>2, <1>3, <1>4 DEF IInv

LEMMA NextSafe == IInv /\ [Next]_vars => IInv'
  BY StartSafe, CallSafe, OverspendSafe, RefusedSafe, SelectSafe, OthersSafe DEF Next, Ended

\* Calls of a query fit one after the other, and what a finished query holds
\* obeys the limit: the inductive invariant of the replay.
THEOREM ReplayInductive == Spec => []IInv
  BY InitSafe, NextSafe, PTL DEF Spec

\* Every variable keeps its type.
THEOREM ReplayTypeCorrect == Spec => []TypeOK
<1>1. IInv => TypeOK
  BY DEF IInv
<1> QED
  BY <1>1, ReplayInductive, PTL

\* An over-budget call is the last one of a failed query.
THEOREM OverspendEnds == Spec => []OverspendEndsQuery
<1>1. IInv => OverspendEndsQuery
  BY DEF IInv, QueryInv, ResultInv, OverspendEndsQuery
<1> QED
  BY <1>1, ReplayInductive, PTL

\* No feasible query costs more than the limit, under either ledger.
THEOREM FeasibleAffordable == Spec => []FeasibleWithinLimit
<1>1. IInv => FeasibleWithinLimit
  BY DEF IInv, ResultInv, FeasibleWithinLimit
<1> QED
  BY <1>1, ReplayInductive, PTL

\* What any router selects, the per-query oracle could have selected.
THEOREM OracleIsUpperBound == Spec => []OracleDominates
<1>1. IInv => OracleDominates
  BY DEF IInv, ResultInv, OracleDominates
<1> QED
  BY <1>1, ReplayInductive, PTL

\* An exhausted shared budget is never refilled, and every later charge that is
\* not zero is counted as over budget.
THEOREM ExhaustedForGood == Spec => ExhaustionIsFinal
<1> DEFINE Kept == scope = "cumulative" /\ over > 0
                     => remaining' = 0 /\ (spent' > spent => over' > over)
<1>1. IInv /\ [Next]_vars => [Kept]_vars
  <2> SUFFICES ASSUME IInv, [Next]_vars, scope = "cumulative", over > 0
               PROVE  remaining' = 0 /\ (spent' > spent => over' > over)
    OBVIOUS
  <2>1. remaining = 0 /\ spent \in Nat /\ over \in Nat
    BY DEF IInv, LedgerInv, TypeOK
  <2>2. CASE StartQuery
    BY <2>1, <2>2 DEF StartQuery, BeginQuery
  <2>3. ASSUME NEW m \in Models, Execute(m) PROVE remaining' = 0 /\ (spent' > spent => over' > over)
    BY <2>1, <2>3, ExecuteFacts DEF Execute, ChargeRealized, WithinBudget
  <2>4. CASE UNCHANGED account
    BY <2>1, <2>4 DEF account
  <2> QED
    BY <2>2, <2>3, <2>4
    DEF Next, Call, Overspend, Refused, Select, RouterCrash, Report, Ended, vars, ledger
<1> QED
  BY <1>1, ReplayInductive, PTL DEF Spec, ExhaustionIsFinal

-----------------------------------------------------------------------------
(* The evidence and the ledger.                                              *)

\* One more call adds its charge to the charges of its query ...
LEMMA CallCharged ==
    ASSUME NEW s \in Seq(CallType), NEW c \in CallType
    PROVE  RealizedSum(s) \in Nat /\ RealizedSum(Append(s, c)) = RealizedSum(s) + c.realized
<1> DEFINE t == Append(s, c)
           w == [i \in DOMAIN s |-> s[i].realized]
           v == [i \in DOMAIN t |-> t[i].realized]
<1>1. /\ t \in Seq(CallType) /\ Len(t) = Len(s) + 1 /\ t[Len(t)] = c
      /\ \A i \in 1 .. Len(s) : t[i] = s[i]
  OBVIOUS
<1> HIDE DEF t
<1>2. \A q \in CallType : (q.realized) \in Nat
  BY DEF CallType
<1>3. w \in Seq(Nat) /\ Len(w) = Len(s)
  BY <1>2
<1>4. v \in Seq(Nat) /\ Len(v) = Len(t)
  BY <1>1, <1>2
<1>5. (\A i \in 1 .. Len(s) : v[i] = w[i]) /\ v[Len(t)] = c.realized
  <2>1. DOMAIN s = 1 .. Len(s) /\ DOMAIN t = 1 .. Len(t) /\ Len(t) \in DOMAIN t
        /\ \A i \in 1 .. Len(s) : i \in DOMAIN s /\ i \in DOMAIN t
    BY <1>1
  <2> QED
    BY <1>1, <2>1, Zenon
<1>6. RealizedSum(s) = Total(w) /\ RealizedSum(t) = Total(v)
  BY DEF RealizedSum
<1> HIDE DEF w, v
<1>7. Total(v) = Total(w) + v[Len(v)]
  BY <1>1, <1>3, <1>4, <1>5, TotalOfOneMore
<1>8. Total(w) \in Nat
  BY <1>3, TotalIsNat
<1> QED
  BY <1>4, <1>5, <1>6, <1>7, <1>8 DEF t

\* ... and one to the over-budget calls if it broke the budget.
LEMMA CallCounted ==
    ASSUME NEW s \in Seq(CallType), NEW c \in CallType
    PROVE  OverCount(s) \in Nat /\ OverCount(Append(s, c)) = OverCount(s) + (IF c.within THEN 0 ELSE 1)
<1> DEFINE t == Append(s, c)
           w == [i \in DOMAIN s |-> IF s[i].within THEN 0 ELSE 1]
           v == [i \in DOMAIN t |-> IF t[i].within THEN 0 ELSE 1]
<1>1. /\ t \in Seq(CallType) /\ Len(t) = Len(s) + 1 /\ t[Len(t)] = c
      /\ \A i \in 1 .. Len(s) : t[i] = s[i]
  OBVIOUS
<1> HIDE DEF t
<1>2. \A q \in CallType : (IF q.within THEN 0 ELSE 1) \in Nat
  BY DEF CallType
<1>3. w \in Seq(Nat) /\ Len(w) = Len(s)
  BY <1>2
<1>4. v \in Seq(Nat) /\ Len(v) = Len(t)
  BY <1>1, <1>2
<1>5. (\A i \in 1 .. Len(s) : v[i] = w[i]) /\ v[Len(t)] = (IF c.within THEN 0 ELSE 1)
  <2>1. DOMAIN s = 1 .. Len(s) /\ DOMAIN t = 1 .. Len(t) /\ Len(t) \in DOMAIN t
        /\ \A i \in 1 .. Len(s) : i \in DOMAIN s /\ i \in DOMAIN t
    BY <1>1
  <2> QED
    BY <1>1, <2>1, Zenon
<1>6. OverCount(s) = Total(w) /\ OverCount(t) = Total(v)
  BY DEF OverCount
<1> HIDE DEF w, v
<1>7. Total(v) = Total(w) + v[Len(v)]
  BY <1>1, <1>3, <1>4, <1>5, TotalOfOneMore
<1>8. Total(w) \in Nat
  BY <1>3, TotalIsNat
<1> QED
  BY <1>4, <1>5, <1>6, <1>7, <1>8 DEF t

\* The evidence of one query, and of none, adds up.
LEMMA QuerySums ==
    ASSUME NEW s \in Seq(CallType)
    PROVE  RealizedSum(s) \in Nat /\ OverCount(s) \in Nat
<1>1. [i \in DOMAIN s |-> s[i].realized] \in Seq(Nat)
  <2>1. \A q \in CallType : q.realized \in Nat
    BY DEF CallType
  <2> QED
    BY <2>1
<1>2. [i \in DOMAIN s |-> IF s[i].within THEN 0 ELSE 1] \in Seq(Nat)
  OBVIOUS
<1> QED
  BY <1>1, <1>2, TotalIsNat, Zenon DEF RealizedSum, OverCount

\* One more result adds what its query cost, ...
LEMMA ResultCosted ==
    ASSUME NEW s \in Seq(ResultType), NEW r \in ResultType
    PROVE  CostSum(s) \in Nat /\ CostSum(Append(s, r)) = CostSum(s) + r.cost
<1> DEFINE t == Append(s, r)
           w == [i \in DOMAIN s |-> s[i].cost]
           v == [i \in DOMAIN t |-> t[i].cost]
<1>1. /\ t \in Seq(ResultType) /\ Len(t) = Len(s) + 1 /\ t[Len(t)] = r
      /\ \A i \in 1 .. Len(s) : t[i] = s[i]
  OBVIOUS
<1> HIDE DEF t
<1>2. \A q \in ResultType : (q.cost) \in Nat
  BY DEF ResultType
<1>3. w \in Seq(Nat) /\ Len(w) = Len(s)
  BY <1>2
<1>4. v \in Seq(Nat) /\ Len(v) = Len(t)
  BY <1>1, <1>2
<1>5. (\A i \in 1 .. Len(s) : v[i] = w[i]) /\ v[Len(t)] = r.cost
  <2>1. DOMAIN s = 1 .. Len(s) /\ DOMAIN t = 1 .. Len(t) /\ Len(t) \in DOMAIN t
        /\ \A i \in 1 .. Len(s) : i \in DOMAIN s /\ i \in DOMAIN t
    BY <1>1
  <2> QED
    BY <1>1, <2>1, Zenon
<1>6. CostSum(s) = Total(w) /\ CostSum(t) = Total(v)
  BY DEF CostSum
<1> HIDE DEF w, v
<1>7. Total(v) = Total(w) + v[Len(v)]
  BY <1>1, <1>3, <1>4, <1>5, TotalOfOneMore
<1>8. Total(w) \in Nat
  BY <1>3, TotalIsNat
<1> QED
  BY <1>4, <1>5, <1>6, <1>7, <1>8 DEF t

\* ... the charges of its calls, ...
LEMMA ResultCharged ==
    ASSUME NEW s \in Seq(ResultType), NEW r \in ResultType
    PROVE  ChargeSum(s) \in Nat /\ ChargeSum(Append(s, r)) = ChargeSum(s) + RealizedSum(r.calls)
<1> DEFINE t == Append(s, r)
           w == [i \in DOMAIN s |-> RealizedSum(s[i].calls)]
           v == [i \in DOMAIN t |-> RealizedSum(t[i].calls)]
<1>1. /\ t \in Seq(ResultType) /\ Len(t) = Len(s) + 1 /\ t[Len(t)] = r
      /\ \A i \in 1 .. Len(s) : t[i] = s[i]
  OBVIOUS
<1> HIDE DEF t
<1>2. \A q \in ResultType : (RealizedSum(q.calls)) \in Nat
  BY QuerySums DEF ResultType
<1>3. w \in Seq(Nat) /\ Len(w) = Len(s)
  BY <1>2
<1>4. v \in Seq(Nat) /\ Len(v) = Len(t)
  BY <1>1, <1>2
<1>5. (\A i \in 1 .. Len(s) : v[i] = w[i]) /\ v[Len(t)] = RealizedSum(r.calls)
  <2>1. DOMAIN s = 1 .. Len(s) /\ DOMAIN t = 1 .. Len(t) /\ Len(t) \in DOMAIN t
        /\ \A i \in 1 .. Len(s) : i \in DOMAIN s /\ i \in DOMAIN t
    BY <1>1
  <2> QED
    BY <1>1, <2>1, Zenon
<1>6. ChargeSum(s) = Total(w) /\ ChargeSum(t) = Total(v)
  BY DEF ChargeSum
<1> HIDE DEF w, v
<1>7. Total(v) = Total(w) + v[Len(v)]
  BY <1>1, <1>3, <1>4, <1>5, TotalOfOneMore
<1>8. Total(w) \in Nat
  BY <1>3, TotalIsNat
<1> QED
  BY <1>4, <1>5, <1>6, <1>7, <1>8 DEF t

\* ... its over-budget calls, ...
LEMMA ResultCounted ==
    ASSUME NEW s \in Seq(ResultType), NEW r \in ResultType
    PROVE  OverSum(s) \in Nat /\ OverSum(Append(s, r)) = OverSum(s) + OverCount(r.calls)
<1> DEFINE t == Append(s, r)
           w == [i \in DOMAIN s |-> OverCount(s[i].calls)]
           v == [i \in DOMAIN t |-> OverCount(t[i].calls)]
<1>1. /\ t \in Seq(ResultType) /\ Len(t) = Len(s) + 1 /\ t[Len(t)] = r
      /\ \A i \in 1 .. Len(s) : t[i] = s[i]
  OBVIOUS
<1> HIDE DEF t
<1>2. \A q \in ResultType : (OverCount(q.calls)) \in Nat
  BY QuerySums DEF ResultType
<1>3. w \in Seq(Nat) /\ Len(w) = Len(s)
  BY <1>2
<1>4. v \in Seq(Nat) /\ Len(v) = Len(t)
  BY <1>1, <1>2
<1>5. (\A i \in 1 .. Len(s) : v[i] = w[i]) /\ v[Len(t)] = OverCount(r.calls)
  <2>1. DOMAIN s = 1 .. Len(s) /\ DOMAIN t = 1 .. Len(t) /\ Len(t) \in DOMAIN t
        /\ \A i \in 1 .. Len(s) : i \in DOMAIN s /\ i \in DOMAIN t
    BY <1>1
  <2> QED
    BY <1>1, <2>1, Zenon
<1>6. OverSum(s) = Total(w) /\ OverSum(t) = Total(v)
  BY DEF OverSum
<1> HIDE DEF w, v
<1>7. Total(v) = Total(w) + v[Len(v)]
  BY <1>1, <1>3, <1>4, <1>5, TotalOfOneMore
<1>8. Total(w) \in Nat
  BY <1>3, TotalIsNat
<1> QED
  BY <1>4, <1>5, <1>6, <1>7, <1>8 DEF t

\* ... and its cost once more if it is feasible.
LEMMA ResultFeasible ==
    ASSUME NEW s \in Seq(ResultType), NEW r \in ResultType
    PROVE  FeasibleCost(s) \in Nat /\ FeasibleCost(Append(s, r)) = FeasibleCost(s) + (IF r.feasible THEN r.cost ELSE 0)
<1> DEFINE t == Append(s, r)
           w == [i \in DOMAIN s |-> IF s[i].feasible THEN s[i].cost ELSE 0]
           v == [i \in DOMAIN t |-> IF t[i].feasible THEN t[i].cost ELSE 0]
<1>1. /\ t \in Seq(ResultType) /\ Len(t) = Len(s) + 1 /\ t[Len(t)] = r
      /\ \A i \in 1 .. Len(s) : t[i] = s[i]
  OBVIOUS
<1> HIDE DEF t
<1>2. \A q \in ResultType : (IF q.feasible THEN q.cost ELSE 0) \in Nat
  BY DEF ResultType
<1>3. w \in Seq(Nat) /\ Len(w) = Len(s)
  BY <1>2
<1>4. v \in Seq(Nat) /\ Len(v) = Len(t)
  BY <1>1, <1>2
<1>5. (\A i \in 1 .. Len(s) : v[i] = w[i]) /\ v[Len(t)] = (IF r.feasible THEN r.cost ELSE 0)
  <2>1. DOMAIN s = 1 .. Len(s) /\ DOMAIN t = 1 .. Len(t) /\ Len(t) \in DOMAIN t
        /\ \A i \in 1 .. Len(s) : i \in DOMAIN s /\ i \in DOMAIN t
    BY <1>1
  <2> QED
    BY <1>1, <2>1, Zenon
<1>6. FeasibleCost(s) = Total(w) /\ FeasibleCost(t) = Total(v)
  BY DEF FeasibleCost
<1> HIDE DEF w, v
<1>7. Total(v) = Total(w) + v[Len(v)]
  BY <1>1, <1>3, <1>4, <1>5, TotalOfOneMore
<1>8. Total(w) \in Nat
  BY <1>3, TotalIsNat
<1> QED
  BY <1>4, <1>5, <1>6, <1>7, <1>8 DEF t

\* Nothing recorded adds up to nothing.
LEMMA EmptySums ==
    /\ RealizedSum(<< >>) = 0 /\ OverCount(<< >>) = 0
    /\ CostSum(<< >>) = 0 /\ ChargeSum(<< >>) = 0 /\ OverSum(<< >>) = 0
    /\ FeasibleCost(<< >>) = 0
<1>1. [i \in DOMAIN << >> |-> << >>[i].realized] = << >>
  OBVIOUS
<1>2. [i \in DOMAIN << >> |-> IF << >>[i].within THEN 0 ELSE 1] = << >>
  OBVIOUS
<1>3. [i \in DOMAIN << >> |-> << >>[i].cost] = << >>
  OBVIOUS
<1>4. [i \in DOMAIN << >> |-> RealizedSum(<< >>[i].calls)] = << >>
  OBVIOUS
<1>5. [i \in DOMAIN << >> |-> OverCount(<< >>[i].calls)] = << >>
  OBVIOUS
<1>6. [i \in DOMAIN << >> |-> IF << >>[i].feasible THEN << >>[i].cost ELSE 0] = << >>
  OBVIOUS
<1> QED
  BY <1>1, <1>2, <1>3, <1>4, <1>5, <1>6, TotalEmpty
  DEF RealizedSum, OverCount, CostSum, ChargeSum, OverSum, FeasibleCost

\* What counts of the query being routed.
Active(x) == IF phase = "routing" THEN x ELSE 0

\* The evidence of a query, open or finished, adds up to what it was charged, and
\* no call was made beyond the cap or above what was left.
CallsSound(cost, evidence) ==
    /\ cost = RealizedSum(evidence) /\ Len(evidence) <= MaxCalls
    /\ \A j \in DOMAIN evidence : evidence[j].quoted <= evidence[j].before

QueriesSound ==
    /\ CallsSound(charged, calls)
    /\ phase = "routing" => OverCount(calls) = 0
    /\ \A i \in DOMAIN results : CallsSound(results[i].cost, results[i].calls)

\* The ledger is the sum of the finished queries and the open one.  (An aborted
\* replay drops the open one and reports nothing.)
Balance ==
    phase # "aborted" =>
        /\ spent = CostSum(results) + Active(charged)
        /\ spent = ChargeSum(results) + Active(charged)
        /\ over = OverSum(results)

\* The queries begun are the finished ones and the open one.
Sequential ==
    /\ \A i \in DOMAIN order : order[i] = i
    /\ phase # "aborted" => Len(order) = Len(results) + Active(1)

\* Under the shared ledger the feasible queries, the open one and the rest are
\* within the limit together.
Shared == scope = "cumulative" => FeasibleCost(results) + Active(charged) + remaining <= Limit

EInv == IInv /\ QueriesSound /\ Balance /\ Sequential /\ Shared

LEMMA InitEvidence == Init => EInv
<1> SUFFICES ASSUME Init PROVE EInv
  OBVIOUS
<1>1. IInv /\ calls = << >> /\ results = << >> /\ order = << >> /\ phase = "between"
      /\ charged = 0 /\ spent = 0 /\ over = 0
  BY InitSafe DEF Init, LedgerInit
<1>2. scope = "cumulative" => remaining = Limit
  BY DEF Init, LedgerInit
<1>3. QueriesSound
  BY <1>1, EmptySums, StreamAssumption DEF QueriesSound, CallsSound
<1>4. Balance /\ Sequential
  BY <1>1, EmptySums DEF Balance, Sequential, Active
<1>5. Shared
  BY <1>1, <1>2, EmptySums, LimitAssumption DEF Shared, Active
<1> QED
  BY <1>1, <1>3, <1>4, <1>5 DEF EInv

\* The numbers the sums are made of.
LEMMA Numbers ==
    ASSUME EInv
    PROVE  /\ results \in Seq(ResultType) /\ calls \in Seq(CallType)
           /\ order \in Seq(1 .. NQueries)
           /\ remaining \in Nat /\ spent \in Nat /\ over \in Nat /\ charged \in Nat
           /\ CostSum(results) \in Nat /\ ChargeSum(results) \in Nat
           /\ OverSum(results) \in Nat /\ FeasibleCost(results) \in Nat
           /\ Limit \in Nat
<1>1. /\ results \in Seq(ResultType) /\ calls \in Seq(CallType)
      /\ order \in Seq(1 .. NQueries)
      /\ remaining \in Nat /\ spent \in Nat /\ over \in Nat /\ charged \in Nat
  BY DEF EInv, IInv, TypeOK
<1>2. PICK r : r \in ResultType
  <2>1. [feasible |-> FALSE, selected |-> 0, cost |-> 0, calls |-> calls] \in ResultType
    BY <1>1 DEF ResultType
  <2> QED
    BY <2>1
<1> QED
  BY <1>1, <1>2, ResultCosted, ResultCharged, ResultCounted, ResultFeasible, LimitAssumption

LEMMA StartEvidence == EInv /\ StartQuery => EInv'
<1> SUFFICES ASSUME EInv, StartQuery PROVE EInv'
  OBVIOUS
<1>1. IInv'
  BY StartSafe DEF EInv
<1>2. /\ phase = "between" /\ phase' = "routing" /\ charged' = 0 /\ calls' = << >>
      /\ results' = results /\ scope' = scope /\ spent' = spent /\ over' = over
      /\ order' = Append(order, Len(results) + 1)
      /\ remaining' = IF scope = "per-query" THEN Limit ELSE remaining
  BY DEF StartQuery, BeginQuery, NextQuery
<1>3. QueriesSound'
  BY <1>2, EmptySums, StreamAssumption DEF EInv, QueriesSound, CallsSound
<1>4. Balance'
  BY <1>2, Numbers DEF EInv, Balance, Active
<1>5. Sequential'
  <2>1. order \in Seq(1 .. NQueries) /\ Len(order) = Len(results)
        /\ \A i \in DOMAIN order : order[i] = i
    BY <1>2, Numbers DEF EInv, Sequential, Active
  <2>2. Len(order') = Len(order) + 1 /\ DOMAIN order' = 1 .. Len(order) + 1
        /\ order'[Len(order) + 1] = Len(results) + 1
        /\ \A i \in DOMAIN order : order'[i] = order[i]
    BY <1>2, <2>1
  <2>3. \A i \in DOMAIN order' : i = Len(order) + 1 \/ i \in DOMAIN order
    BY <2>1, <2>2
  <2>4. \A i \in DOMAIN order' : order'[i] = i
    BY <2>1, <2>2, <2>3
  <2> QED
    BY <1>2, <2>1, <2>2, <2>4 DEF Sequential, Active
<1>6. Shared'
  BY <1>2, Numbers DEF EInv, Shared, Active
<1> QED
  BY <1>1, <1>3, <1>4, <1>5, <1>6 DEF EInv

\* An executed call extends the evidence by what it was charged.
LEMMA ExecuteEvidence ==
    ASSUME EInv, NEW m \in Models, Execute(m)
    PROVE  /\ CallsSound(charged', calls')
           /\ OverCount(calls') = IF WithinBudget(price[m].realized) THEN 0 ELSE 1
           /\ charged' = charged + price[m].realized /\ spent' = spent + price[m].realized
           /\ price[m].realized \in Nat
<1> DEFINE c == CallRecord(m)
<1>1. /\ calls \in Seq(CallType) /\ c \in CallType /\ calls' = Append(calls, c)
      /\ price[m].realized \in Nat /\ c.realized = price[m].realized
      /\ charged' = charged + price[m].realized /\ spent' = spent + price[m].realized
  BY ExecuteFacts DEF EInv, IInv, TypeOK, Execute, ChargeRealized, CallRecord
<1>2. c.within = WithinBudget(price[m].realized) /\ c.quoted <= c.before
  BY DEF CallRecord, Execute, Affordable
<1>3. phase = "routing" /\ Len(history) < MaxCalls /\ Len(history) = Len(calls)
  BY DEF Execute, EInv, IInv, QueryInv
<1> HIDE DEF c
<1>4. charged' = RealizedSum(calls')
  BY <1>1, CallCharged DEF EInv, QueriesSound, CallsSound
<1>5. OverCount(calls') = IF WithinBudget(price[m].realized) THEN 0 ELSE 1
  <2>1. OverCount(calls) = 0
    BY <1>3 DEF EInv, QueriesSound
  <2>2. OverCount(calls') = 0 + (IF c.within THEN 0 ELSE 1)
    BY <1>1, <2>1, CallCounted
  <2> QED
    BY <1>2, <2>2
<1>6. Len(calls') <= MaxCalls
  BY <1>1, <1>3, StreamAssumption DEF EInv, IInv, TypeOK
<1>7. \A j \in DOMAIN calls' : calls'[j].quoted <= calls'[j].before
  <2>1. \A j \in DOMAIN calls' : calls'[j] = c \/ (j \in DOMAIN calls /\ calls'[j] = calls[j])
    BY <1>1
  <2>2. \A j \in DOMAIN calls : calls[j].quoted <= calls[j].before
    BY DEF EInv, QueriesSound, CallsSound
  <2> QED
    BY <1>2, <2>1, <2>2
<1> QED
  BY <1>1, <1>4, <1>5, <1>6, <1>7 DEF CallsSound

LEMMA CallEvidence == ASSUME NEW m \in Models PROVE EInv /\ Call(m) => EInv'
<1> SUFFICES ASSUME EInv, Call(m) PROVE EInv'
  OBVIOUS
<1>1. IInv'
  BY CallSafe DEF EInv
<1>2. Execute(m) /\ WithinBudget(price[m].realized)
  BY DEF Call
<1>3. /\ phase = "routing" /\ phase' = "routing" /\ results' = results /\ scope' = scope
      /\ order' = order /\ over' = over /\ remaining' = remaining - price[m].realized
  BY <1>2, ExecuteFacts DEF Call, Execute, ChargeRealized, WithinBudget, EInv, IInv, TypeOK
<1>4. /\ CallsSound(charged', calls') /\ OverCount(calls') = 0
      /\ charged' = charged + price[m].realized /\ spent' = spent + price[m].realized
      /\ price[m].realized \in Nat
  BY <1>2, ExecuteEvidence
<1>n. /\ CostSum(results) \in Nat /\ ChargeSum(results) \in Nat /\ OverSum(results) \in Nat
      /\ FeasibleCost(results) \in Nat /\ charged \in Nat /\ remaining \in Nat
      /\ Limit \in Nat
  BY Numbers
<1>5. QueriesSound'
  BY <1>3, <1>4 DEF EInv, QueriesSound, CallsSound
<1>6. Balance'
  <2>1. /\ spent = CostSum(results) + charged /\ spent = ChargeSum(results) + charged
        /\ over = OverSum(results)
    BY <1>3 DEF EInv, Balance, Active
  <2>2. /\ spent' = CostSum(results) + charged' /\ spent' = ChargeSum(results) + charged'
    BY <1>4, <1>n, <2>1
  <2> QED
    BY <1>3, <2>1, <2>2 DEF Balance, Active
<1>7. Sequential'
  BY <1>3 DEF EInv, Sequential, Active
<1>8. Shared'
  <2>1. charged' + remaining' = charged + remaining
    BY <1>3, <1>4, <1>n
  <2>2. scope = "cumulative" => FeasibleCost(results) + charged + remaining <= Limit
    BY <1>3 DEF EInv, Shared, Active
  <2>3. charged' \in Nat /\ remaining' \in Nat
    BY <1>1 DEF IInv, TypeOK
  <2>4. scope = "cumulative" => FeasibleCost(results) + (charged' + remaining') <= Limit
    BY <2>1, <2>2, <1>n
  <2>5. FeasibleCost(results) + (charged' + remaining') = FeasibleCost(results) + charged' + remaining'
    BY <2>3, <1>n
  <2> QED
    BY <1>3, <2>4, <2>5 DEF Shared, Active
<1> QED
  BY <1>1, <1>5, <1>6, <1>7, <1>8 DEF EInv

\* A query that ends moves its charges from the open query to the results.
LEMMA EndEvidence ==
    ASSUME EInv, IInv', phase = "routing", NEW r \in ResultType, EndQuery(r),
           r.cost = charged', r.calls = calls', CallsSound(charged', calls'),
           charged' \in Nat,
           spent' = CostSum(results) + charged', spent' = ChargeSum(results) + charged',
           over' = OverSum(results) + OverCount(calls'),
           scope' = scope, order' = order,
           scope = "cumulative" =>
               FeasibleCost(results) + (IF r.feasible THEN charged' ELSE 0) + remaining' <= Limit
    PROVE  EInv'
<1>1. results \in Seq(ResultType) /\ results' = Append(results, r) /\ phase' = "between"
  BY Numbers DEF EndQuery
<1>2. charged' = RealizedSum(calls')
  BY DEF CallsSound
<1>3. QueriesSound'
  <2>1. \A i \in DOMAIN results' :
            results'[i] = r \/ (i \in DOMAIN results /\ results'[i] = results[i])
    BY <1>1
  <2>2. \A i \in DOMAIN results' : CallsSound(results'[i].cost, results'[i].calls)
    BY <2>1 DEF EInv, QueriesSound
  <2> QED
    BY <1>1, <2>2 DEF QueriesSound, CallsSound
<1>4. Balance'
  <2>1. /\ CostSum(results') = CostSum(results) + charged'
        /\ ChargeSum(results') = ChargeSum(results) + charged'
        /\ OverSum(results') = OverSum(results) + OverCount(calls')
    BY <1>1, <1>2, ResultCosted, ResultCharged, ResultCounted
  <2>2. Active(charged)' = 0
    BY <1>1 DEF Active
  <2>3. /\ spent' = CostSum(results') + 0 /\ spent' = ChargeSum(results') + 0
        /\ over' = OverSum(results')
    BY <2>1, Numbers
  <2> QED
    BY <2>2, <2>3 DEF Balance
<1>5. Sequential'
  BY <1>1, Numbers DEF EInv, Sequential, Active
<1>6. Shared'
  <2>1. FeasibleCost(results') = FeasibleCost(results) + (IF r.feasible THEN charged' ELSE 0)
    BY <1>1, ResultFeasible
  <2>2. Active(charged)' = 0
    BY <1>1 DEF Active
  <2>3. remaining' \in Nat /\ FeasibleCost(results') \in Nat
    <3>1. (IF r.feasible THEN charged' ELSE 0) \in Nat
      OBVIOUS
    <3>2. FeasibleCost(results) \in Nat
      BY Numbers
    <3>3. remaining' \in Nat
      BY DEF IInv, TypeOK
    <3> QED
      BY <2>1, <3>1, <3>2, <3>3
  <2>4. scope' = "cumulative" => FeasibleCost(results') + 0 + remaining' <= Limit
    BY <2>1, <2>3
  <2> QED
    BY <2>2, <2>4 DEF Shared
<1> QED
  BY <1>3, <1>4, <1>5, <1>6 DEF EInv

LEMMA OverspendEvidence == ASSUME NEW m \in Models PROVE EInv /\ Overspend(m) => EInv'
<1> SUFFICES ASSUME EInv, Overspend(m) PROVE EInv'
  OBVIOUS
<1> DEFINE r == FailedQuery(charged', calls')
<1>1. IInv' /\ IInv
  BY OverspendSafe DEF EInv
<1>2. /\ Execute(m) /\ ~WithinBudget(price[m].realized) /\ phase = "routing"
      /\ EndQuery(r) /\ scope' = scope /\ order' = order
      /\ remaining' = 0 /\ over' = over + 1
  BY DEF Overspend, Execute, ChargeRealized
<1>3. /\ CallsSound(charged', calls') /\ OverCount(calls') = 1
      /\ charged' = charged + price[m].realized /\ spent' = spent + price[m].realized
      /\ price[m].realized \in Nat
  BY <1>2, ExecuteEvidence
<1>4. charged' \in Nat /\ calls' \in Seq(CallType)
  BY <1>1, <1>2, ExecuteFacts
<1>5. r \in ResultType /\ r.cost = charged' /\ r.calls = calls' /\ ~r.feasible
  BY <1>4 DEF FailedQuery, ResultType
<1>n. /\ CostSum(results) \in Nat /\ ChargeSum(results) \in Nat /\ OverSum(results) \in Nat
      /\ FeasibleCost(results) \in Nat /\ charged \in Nat /\ remaining \in Nat
      /\ Limit \in Nat
  BY Numbers
<1>6. /\ spent' = CostSum(results) + charged' /\ spent' = ChargeSum(results) + charged'
      /\ over' = OverSum(results) + OverCount(calls')
  <2>1. /\ spent = CostSum(results) + charged /\ spent = ChargeSum(results) + charged
        /\ over = OverSum(results)
    BY <1>2 DEF EInv, Balance, Active
  <2> QED
    BY <1>2, <1>3, <1>n, <2>1
<1>7. scope = "cumulative" =>
          FeasibleCost(results) + (IF r.feasible THEN charged' ELSE 0) + remaining' <= Limit
  <2>1. scope = "cumulative" => FeasibleCost(results) <= Limit
    BY <1>2, Numbers DEF EInv, Shared, Active
  <2>2. (IF r.feasible THEN charged' ELSE 0) = 0
    BY <1>5
  <2> HIDE DEF r
  <2> QED
    BY <1>2, <2>1, <2>2, Numbers
<1> HIDE DEF r
<1> QED
  BY <1>1, <1>2, <1>3, <1>4, <1>5, <1>6, <1>7, EndEvidence

\* A query that ends without another call.
LEMMA ClosedEvidence ==
    ASSUME EInv, IInv', phase = "routing", NEW r \in ResultType, EndQuery(r),
           r.cost = charged, r.calls = calls, UNCHANGED <<account, query>>
    PROVE  EInv'
<1>1. /\ scope' = scope /\ order' = order /\ remaining' = remaining /\ spent' = spent
      /\ over' = over /\ charged' = charged /\ calls' = calls
  BY DEF account, query
<1>2. CallsSound(charged, calls) /\ OverCount(calls) = 0
  BY DEF EInv, QueriesSound
<1>3. /\ spent = CostSum(results) + charged /\ spent = ChargeSum(results) + charged
      /\ over = OverSum(results)
  BY DEF EInv, Balance, Active
<1>4. scope = "cumulative" =>
          FeasibleCost(results) + (IF r.feasible THEN charged ELSE 0) + remaining <= Limit
  <2>1. scope = "cumulative" => FeasibleCost(results) + charged + remaining <= Limit
    BY DEF EInv, Shared, Active
  <2>2. (IF r.feasible THEN charged ELSE 0) \in Nat
        /\ (IF r.feasible THEN charged ELSE 0) <= charged
    BY Numbers
  <2> QED
    BY <2>1, <2>2, Numbers
<1>5. over = OverSum(results) + OverCount(calls)
  BY <1>2, <1>3, Numbers
<1> QED
  BY <1>1, <1>2, <1>3, <1>4, <1>5, Numbers, EndEvidence

LEMMA RefusedEvidence == EInv /\ Refused => EInv'
<1> SUFFICES ASSUME EInv, Refused PROVE EInv'
  OBVIOUS
<1>1. IInv'
  BY RefusedSafe DEF EInv
<1>2. FailedQuery(charged, calls) \in ResultType
  BY Numbers DEF FailedQuery, ResultType
<1>3. /\ FailedQuery(charged, calls).cost = charged
      /\ FailedQuery(charged, calls).calls = calls
  BY DEF FailedQuery
<1>4. /\ phase = "routing" /\ EndQuery(FailedQuery(charged, calls))
      /\ UNCHANGED <<account, query>>
  BY DEF Refused
<1> QED
  BY <1>1, <1>2, <1>3, <1>4, ClosedEvidence

LEMMA SelectEvidence == ASSUME NEW i PROVE EInv /\ Select(i) => EInv'
<1> SUFFICES ASSUME EInv, Select(i) PROVE EInv'
  OBVIOUS
<1> DEFINE r == [feasible |-> TRUE, selected |-> i, cost |-> charged, calls |-> calls]
<1>1. IInv'
  BY SelectSafe DEF EInv
<1>2. i \in Nat
  BY DEF Select, EInv, IInv, TypeOK
<1>3. r \in ResultType /\ r.cost = charged /\ r.calls = calls
  BY <1>2, Numbers DEF ResultType
<1>4. phase = "routing" /\ EndQuery(r) /\ UNCHANGED <<account, query>>
  BY DEF Select
<1> HIDE DEF r
<1> QED
  BY <1>1, <1>3, <1>4, ClosedEvidence

LEMMA OthersEvidence == EInv /\ (RouterCrash \/ Report \/ UNCHANGED vars) => EInv'
<1> SUFFICES ASSUME EInv, RouterCrash \/ Report \/ UNCHANGED vars PROVE EInv'
  OBVIOUS
<1>1. IInv'
  BY OthersSafe DEF EInv
<1>2. /\ UNCHANGED <<scope, remaining, spent, over, order, charged, calls, results>>
      /\ \/ phase' = phase
         \/ phase = "routing" /\ phase' = "aborted"
         \/ phase = "between" /\ phase' = "reported"
  BY DEF RouterCrash, Report, vars, ledger, account, query
<1>3. QueriesSound'
  BY <1>2 DEF EInv, QueriesSound, CallsSound
<1>4. Balance'
  BY <1>2 DEF EInv, Balance, Active
<1>5. Sequential'
  BY <1>2 DEF EInv, Sequential, Active
<1>6. Shared'
  BY <1>2, Numbers DEF EInv, Shared, Active
<1> QED
  BY <1>1, <1>3, <1>4, <1>5, <1>6 DEF EInv

LEMMA NextEvidence == EInv /\ [Next]_vars => EInv'
  BY StartEvidence, CallEvidence, OverspendEvidence, RefusedEvidence, SelectEvidence,
     OthersEvidence DEF Next, Ended

\* The ledger, the results and the evidence agree throughout the replay.
THEOREM EvidenceInductive == Spec => []EInv
  BY InitEvidence, NextEvidence, PTL DEF Spec

\* Every report reconciles: query costs, call charges and the ledger's spend are
\* one sum, the over-budget calls are all in the evidence, and no result is one
\* its constructor refuses.
THEOREM ReportsReconcile == Spec => []EvidenceConserved
<1>1. EInv => EvidenceConserved
  <2> SUFFICES ASSUME EInv PROVE EvidenceConserved
    OBVIOUS
  <2>1. ASSUME NEW i \in DOMAIN results
        PROVE  /\ CallsSound(results[i].cost, results[i].calls)
               /\ results[i].feasible => /\ results[i].selected \in DOMAIN results[i].calls
                                         /\ \A j \in DOMAIN results[i].calls :
                                               results[i].calls[j].within
               /\ ~results[i].feasible => results[i].selected = 0
    BY DEF EInv, QueriesSound, IInv, ResultInv
  <2>2. ASSUME phase = "reported" PROVE order = [i \in 1 .. Len(results) |-> i]
    <3>1. Len(order) = Len(results) /\ \A i \in DOMAIN order : order[i] = i
      BY <2>2, Numbers DEF EInv, Sequential, Active
    <3> QED
      BY <3>1, Numbers
  <2>3. ResultsWellFormed
    BY <2>1, <2>2 DEF ResultsWellFormed, CallsSound, QueryIsValid, CallIsValid, TierIsValid
  <2>4. phase = "reported" => /\ CostSum(results) = spent
                              /\ ChargeSum(results) = spent
                              /\ OverSum(results) = over
    BY Numbers DEF EInv, Balance, Active
  <2> QED
    BY <2>3, <2>4 DEF EvidenceConserved
<1> QED
  BY <1>1, EvidenceInductive, PTL

\* All feasible queries of a stream together stay within the shared limit.
THEOREM SharedLimitKept == Spec => []SharedLimitHolds
<1>1. EInv => SharedLimitHolds
  <2>1. ASSUME EInv, scope = "cumulative" PROVE FeasibleCost(results) <= Limit
    <3>1. Active(charged) \in Nat
      BY <2>1, Numbers DEF Active
    <3>2. FeasibleCost(results) + Active(charged) + remaining <= Limit
      BY <2>1 DEF EInv, Shared
    <3> QED
      BY <2>1, <3>1, <3>2, Numbers
  <2> QED
    BY <2>1 DEF SharedLimitHolds
<1> QED
  BY <1>1, EvidenceInductive, PTL

=============================================================================
