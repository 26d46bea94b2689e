------------------------- MODULE MCPreparedEvidence --------------------------
(* Sources that differ from the first in one respect each, most of them to  *)
(* meet one limit that the others keep.                                     *)
EXTENDS PreparedEvidence

First ==
    [rows |-> <<1, 2, 1, 1>>,
     prompts |-> <<"p", "q", "r", "s">>,
     tags |-> <<{"code"}, {}, {"code"}, {}>>,
     embeddings |-> <<"u", "v", "w", "x">>, identity |-> "encoder", embeddingWidth |-> 1,
     models |-> {"small", "large"},
     targets |-> [d \in 1..4 |-> [m \in {"small", "large"} |-> "measured"]],
     costs |-> <<"c", "c", "c", "c">>]

Surface ==
    [First EXCEPT !.identity = NoEncoder, !.embeddingWidth = 0,
                  !.embeddings = [d \in 1..4 |-> NoEncoder]]

MCSource ==
    [first      |-> First,
     retargeted |-> [First EXCEPT !.targets[1]["small"] = "measured again"],
     reworded   |-> [First EXCEPT !.prompts[2] = "Q", !.tags[2] = {"math"}],
     repriced   |-> [First EXCEPT !.costs[3] = "d"],
     surface    |-> Surface,
     longer     |-> [Surface EXCEPT !.rows[2] = 4],
     tagged     |-> [First EXCEPT !.tags = [d \in 1..4 |-> {"code", "math"}]],
     embedded   |-> [First EXCEPT !.embeddingWidth = 2, !.tags = [d \in 1..4 |-> {}]],
     verbose    |-> [First EXCEPT !.identity = "a long name"],
     lettered   |-> [First EXCEPT !.prompts[4] = "under a long id"],
     dense      |-> [First EXCEPT !.tags = [d \in 1..4 |-> Catalogue]],
     deeper     |-> [First EXCEPT !.embeddingWidth = 3],
     broader    |-> [First EXCEPT !.rows[4] = 20]]

MCRuns == DOMAIN MCSource \ {"repriced"}

MCMixed == {"first", "retargeted", "reworded"}

(* An id of eight bytes, or the longest there may be, and a digest a row.   *)
MCKeyBytes(prompts) ==
    SumOf([d \in DOMAIN prompts |->
              First.rows[d] * (64 + IF prompts[d] = "under a long id" THEN 4096 ELSE 8)])

MCNameBytes(plan, identity) == IF identity = "a long name" THEN 260 ELSE 200
=============================================================================
