---------------------------- MODULE LambdaTuning ----------------------------
(***************************************************************************)
(* tune_tier_lambdas for one tier: every candidate lambda is replayed      *)
(* through the simulator by the one-shot router, and the feasible one with *)
(* the greatest realized quality is kept, then the lowest spend, then the  *)
(* smallest lambda.  The router sees quoted costs and predicted scores;    *)
(* the replay pays realized charges and earns true qualities.              *)
(***************************************************************************)
EXTENDS LambdaCandidates, Totals

CONSTANTS Limit,   \* the budget of the tier
          Probes,  \* the lambdas, as fractions, the optimum is compared with
          NoChoice \* no model fits

ASSUME TuningAssumption ==
    /\ Limit \in Nat
    /\ \A o \in Offers : o.charge \in Nat /\ o.quality \in Int
    /\ Probes \subseteq Nat \X (Nat \ {0})
    /\ NoChoice \notin Models

VARIABLES
    scope,  \* "per-query" or "cumulative": the ledger the caller chose
    tried,  \* candidates already replayed
    best    \* the best so far: its lambda and its replay, or << >>

vars == <<derivationVars, scope, tried, best>>

Init ==
    /\ DerivationInit
    /\ scope \in {"per-query", "cumulative"}
    /\ tried = 0 /\ best = << >>

-----------------------------------------------------------------------------
(* One replay.                                                               *)

\* The order of min(scored): utility, both sides times the denominator of
\* lambda, then quoted cost, then model ID.
Preferred(offers, lambda, m, o) ==
    LET utility(x) == offers[x].score * lambda[2] - lambda[1] * offers[x].cost
    IN \/ utility(m) > utility(o)
       \/ /\ utility(m) = utility(o)
          /\ \/ offers[m].cost < offers[o].cost
             \/ offers[m].cost = offers[o].cost /\ m < o

Choice(offers, remaining, lambda) ==
    LET affordable == {m \in Models : offers[m].cost <= remaining}
    IN IF affordable = {} THEN NoChoice
       ELSE CHOOSE m \in affordable :
                \A o \in affordable \ {m} : Preferred(offers, lambda, m, o)

\* One query of the replay: the call is charged what it really costs, and the
\* query fails if nothing fits or the charge does not.
Step(replay, offers, lambda) ==
    LET remaining == IF scope = "per-query" THEN Limit ELSE replay.remaining
        choice    == Choice(offers, remaining, lambda)
        charge    == offers[choice].charge
    IN IF choice = NoChoice
       THEN [replay EXCEPT !.feasible = FALSE, !.choices = Append(@, NoChoice)]
       ELSE [feasible  |-> replay.feasible /\ charge <= remaining,
             remaining |-> IF charge <= remaining THEN remaining - charge ELSE 0,
             spent     |-> replay.spent + charge,
             quality   |-> replay.quality + IF charge <= remaining
                                            THEN offers[choice].quality ELSE 0,
             choices   |-> Append(replay.choices, choice)]

Replay(lambda) ==
    LET replay[e \in 0 .. NExamples] ==
            IF e = 0 THEN [feasible |-> TRUE, remaining |-> Limit, spent |-> 0, quality |-> 0,
                           choices |-> << >>]
            ELSE Step(replay[e - 1], menu[e], lambda)
    IN replay[NExamples]

-----------------------------------------------------------------------------

\* Mutant of Better: spend first, quality second.
CheaperFirst(replay, than) ==
    \/ replay.spent < than.spent
    \/ replay.spent = than.spent /\ replay.quality > than.quality

\* The ranking (-quality, spent, lambda): candidates come in increasing order,
\* so a later one with equal quality and spend loses.
Better(replay, than) ==
    \/ replay.quality > than.quality
    \/ replay.quality = than.quality /\ replay.spent < than.spent

Found == best # << >>

Improves(replay) == Found => Better(replay, best.replay)

\* Mutant of Eligible: a replay with a failed query competes as well.
AnyReplay(replay) == TRUE

Eligible(replay) == replay.feasible

Try ==
    /\ Derived /\ tried < Len(values)
    /\ tried' = tried + 1
    /\ LET replay == Replay(values[tried + 1]) IN
        \/ /\ Eligible(replay) /\ Improves(replay)
           /\ best' = [lambda |-> values[tried + 1], replay |-> replay]
        \/ ~(Eligible(replay) /\ Improves(replay)) /\ UNCHANGED best
    /\ UNCHANGED <<derivationVars, scope>>

\* All candidates are replayed: a selection, or no fully feasible lambda.
Tuned == Derived /\ tried = Len(values)

Next ==
    \/ DerivationNext /\ UNCHANGED <<scope, tried, best>>
    \/ Try
    \/ Tuned /\ UNCHANGED vars

Spec == Init /\ [][Next]_vars

-----------------------------------------------------------------------------
(* Properties.                                                               *)

\* What exact_lambda_candidates promises: every real lambda has a candidate whose
\* replay is the same call for call, charge for charge, under either ledger,
\* although each charge moves the budget the later choices are made with.  (Data
\* and candidates do not change once derived, so the first such state decides.)
ExactSetIsComplete ==
    Derived /\ exhaustive /\ tried = 0 =>
        {Replay(probe) : probe \in Probes} \subseteq {Replay(values[i]) : i \in DOMAIN values}

\* An exhaustive search selects an optimum over ALL lambdas: none is feasible
\* with a greater quality, or with the same quality at a lower spend, and the
\* search gives up only if no lambda at all is feasible.
SelectionIsOptimal ==
    Tuned /\ exhaustive =>
        \A replay \in {Replay(probe) : probe \in Probes} : replay.feasible =>
            /\ Found
            /\ replay.quality <= best.replay.quality
            /\ replay.quality = best.replay.quality => best.replay.spent <= replay.spent

\* The selected lambda really fits the budget, although lambdas are tried on
\* quotes and predictions only: every query was answered, and the realized charges
\* fit the limit, together under the shared ledger and one by one otherwise.
SelectionFitsBudget ==
    Tuned /\ Found =>
        LET charges == [e \in Examples |-> menu[e][best.replay.choices[e]].charge] IN
        /\ \A e \in Examples : best.replay.choices[e] # NoChoice
        /\ scope = "cumulative" => Total(charges) <= Limit
        /\ scope = "per-query"  => \A e \in Examples : charges[e] <= Limit
=============================================================================
