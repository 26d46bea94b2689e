---------------------------- MODULE MCNestedLodo -----------------------------
EXTENDS NestedLodo

(* Uneven domains: distinct prompts; two domains with the same prompts and   *)
(* the same embeddings; two that only their embeddings tell apart.  Three    *)
(* domains are too few, five have subsets that four do not, and eight are    *)
(* more than a prepared graph holds.  Tuning may fail in the first fold, in   *)
(* the last, or in two of them, of which the second is never reached.        *)
MCInputs ==
    {[rows |-> <<1, 2, 1>>, prompts |-> <<"p", "q", "r">>, embeddings |-> <<1, 1, 1>>,
      infeasible |-> {}]}
    \cup [rows : {<<2, 1, 3, 1>>}, prompts : {<<"p", "q", "r", "s">>},
          embeddings : {<<1, 1, 1, 1>>}, infeasible : {{}, {1}, {2, 4}, {4}}]
    \cup [rows : {<<2, 1, 3, 1, 2>>}, prompts : {<<"p", "q", "p", "r", "s">>},
          embeddings : {<<1, 1, 1, 1, 1>>, <<1, 1, 2, 1, 1>>}, infeasible : {{}}]
    \cup [rows : {<<1, 1, 2, 1, 1, 1, 1, 1>>},
          prompts : {<<"p", "q", "r", "s", "t", "u", "v", "w">>},
          embeddings : {<<1, 1, 1, 1, 1, 1, 1, 1>>}, infeasible : {{}, {8}}]
=============================================================================
