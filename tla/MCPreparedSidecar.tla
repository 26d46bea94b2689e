-------------------------- MODULE MCPreparedSidecar --------------------------
(* Small stores, and everything that can be wrong with one of them.         *)
EXTENDS PreparedSidecar

MCLimits == [rows |-> 8, features |-> 14, targets |-> 2, id |-> 4,
             store |-> 2000, result |-> 40000, work |-> 200000,
             heap |-> 91000, scratch |-> 45000]

RowOf(domains, tags, r) ==
    [id |-> r, idBytes |-> 1 + (r % 2), domain |-> domains[r],
     tags |-> IF \A q \in 1..(r - 1) : domains[q] # domains[r] THEN tags[domains[r] + 1] ELSE {},
     features |-> TRUE, targets |-> TRUE]

File(domains, tags, features, targets) ==
    LET rows == [r \in DOMAIN domains |-> RowOf(domains, tags, r)]
    IN [shape |-> [counts |-> [d \in DOMAIN tags |-> Len(RowsOf(rows, d - 1))], tags |-> tags,
                   rows |-> Len(rows), features |-> features, targets |-> targets,
                   keyBytes |-> Over(rows, LAMBDA row : 34 + row.idBytes)],
        rows |-> rows, stamp |-> "model", magic |-> TRUE, layout |-> TRUE, digests |-> TRUE,
        embedded |-> features > Surface, padding |-> TRUE, length |-> "exact", payload |-> TRUE,
        request |-> "sound"]

Four == File(<<0, 2, 0, 1, 3>>, <<{0}, {0, 2}, {}, {6}>>, 13, 2)
Five == File(<<4, 0, 1, 2, 3, 1>>, <<{1}, {}, {5}, {1, 5}, {}>>, 12, 1)
Wide == File(<<0, 1, 2, 3, 3, 2, 1, 0>>, <<{0, 1}, {2, 3}, {4, 5}, {6}>>, 14, 2)

Seven(features, targets) ==
    File(<<6, 0, 1, 2, 3, 4, 5>>, <<{1}, {}, {5}, {1, 5}, {}, {0}, {}>>, features, targets)

(* Alterations of the rows, which the digests in the header do not follow.  *)
Rewritten(f) ==
    {[f EXCEPT !.rows[1].domain = f.rows[2].domain, !.rows[2].domain = f.rows[1].domain],
     [f EXCEPT !.rows[1].domain = f.rows[2].domain],
     [f EXCEPT !.rows[2].domain = Len(f.shape.counts)],
     [f EXCEPT !.rows[2].id = f.rows[1].id],
     [f EXCEPT !.rows[1].id = 0],
     [f EXCEPT !.rows[1].idBytes = 3],
     [f EXCEPT !.rows[1].idBytes = 5, !.shape.keyBytes = @ + 3],
     [f EXCEPT !.rows[1].tags = @ \cup {4}],
     [f EXCEPT !.rows[2].features = FALSE],
     [f EXCEPT !.rows[Len(f.rows)].targets = FALSE],
     [f EXCEPT !.padding = FALSE]}

(* Alterations of the header, and of the length. *)
Relabelled(f) ==
    {[f EXCEPT !.magic = FALSE], [f EXCEPT !.layout = FALSE], [f EXCEPT !.digests = FALSE],
     [f EXCEPT !.embedded = ~@], [f EXCEPT !.stamp = "another"],
     [f EXCEPT !.shape.counts = [@ EXCEPT ![1] = @ + 1, ![2] = 0]],
     [f EXCEPT !.shape.tags[1] = @ \cup {3}],
     [f EXCEPT !.shape.rows = @ - 1], [f EXCEPT !.shape.keyBytes = @ + 8],
     [f EXCEPT !.shape.features = 15], [f EXCEPT !.shape.targets = 3],
     [f EXCEPT !.shape.counts = SubSeq(@, 1, 3), !.shape.tags = SubSeq(@, 1, 3)]}
    \cup {[f EXCEPT !.length = cut] : cut \in {"inRequest", "inHeader", "short", "trailing"}}

Broken(f) == {[g EXCEPT !.payload = FALSE] : g \in Rewritten(f)} \cup Relabelled(f)

(* A caller's store that reaches the child whole or altered, and a harness  *)
(* that seals whatever it has.                                              *)
MCPairs ==
    {<<f, f>> : f \in {Four, Five, Wide, Seven(12, 1), Seven(14, 2)}}
    \cup {<<Four, g>> : g \in Broken(Four) \cup {Five}}
    \cup {<<Four, [Four EXCEPT !.request = altered]>> : altered \in {"unlike", "blank"}}
    \cup {<<g, g>> : g \in Rewritten(Four) \cup Relabelled(Four) \cup {[Four EXCEPT !.payload = FALSE]}}
=============================================================================
