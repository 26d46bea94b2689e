---------------------------- MODULE TextbookLodo -----------------------------
(***************************************************************************)
(* What a nested leave-one-domain-out evaluation promises, whichever       *)
(* trainer serves it: one answer, in which the scores of every domain come *)
(* from a calibrated fit on exactly the other domains, and its lambda was  *)
(* tuned on exactly the other domains with scores that leave out one more; *)
(* or a refusal, for one of six reasons and no other.                      *)
(***************************************************************************)
EXTENDS PreparedGraph

CONSTANTS Inputs, None

VARIABLES input,      \* the examples: rows, prompts and embeddings per domain,
                      \* and the domains without which nothing can be tuned
          refused,    \* folds whose search the preflight does not admit
          disturbed,  \* the mapped scores were altered while they were read
          outcome, answer

textbookVars == <<input, refused, disturbed, outcome, answer>>

(* A predictor fitted to s, calibrated on s, asked for the scores of d. *)
TextbookScore(s, d) ==
    Calibrated(RawScore(input, s, d), [c \in s |-> RawScore(input, s \ {c}, c)])

TextbookTuning(a) ==
    LET training == Domains(input) \ {a}
    IN [rows |-> training, scores |-> [b \in training |-> TextbookScore(training \ {b}, b)]]

TextbookAnswer ==
    [a \in Domains(input) |->
        [score |-> TextbookScore(Domains(input) \ {a}, a), tuning |-> TextbookTuning(a)]]

(* Each of outer fold, tuning fold and calibration fold takes a domain away *)
(* and the innermost fit needs one.                                         *)
TooFew == Len(input.rows) < 4

(* The prepared graph is laid out for at most seven domains; fits made on   *)
(* demand know no such limit.                                               *)
TooMany == Len(input.rows) > 7

(* Two domains that a lookup by prompts cannot tell apart. *)
Ambiguous == \E d, e \in Domains(input) :
    input.prompts[d] = input.prompts[e] /\ input.embeddings[d] # input.embeddings[e]

(* On the other domains of some fold no lambda keeps every query of some    *)
(* tier within its budget.                                                  *)
Unaffordable == input.infeasible # {}

TextbookInit ==
    /\ input \in Inputs
    /\ refused \in {{}, {Len(input.rows)}}
    /\ disturbed = FALSE
    /\ outcome = "running" /\ answer = None

Disturb ==
    /\ ~disturbed /\ disturbed' = TRUE
    /\ UNCHANGED <<input, refused, outcome, answer>>

Answer ==
    /\ outcome = "running"
    /\ ~TooFew /\ ~Ambiguous /\ ~Unaffordable /\ refused = {}
    /\ outcome' = "done" /\ answer' = TextbookAnswer
    /\ UNCHANGED <<input, refused, disturbed>>

Refuse ==
    /\ outcome = "running"
    /\ TooFew \/ TooMany \/ Ambiguous \/ Unaffordable \/ refused # {} \/ disturbed
    /\ outcome' = "raised"
    /\ UNCHANGED <<input, refused, disturbed, answer>>

TextbookNext == Disturb \/ Answer \/ Refuse

TextbookSpec == TextbookInit /\ [][TextbookNext]_textbookVars
                             /\ WF_textbookVars(Answer \/ Refuse)
=============================================================================
