--------------------------- MODULE MCResourceBank ---------------------------
(* Small instances of ResourceBank for TLC.                                *)
EXTENDS ResourceBank

\* Two host classes below a smaller aggregate, so that a request can be within
\* every class and still exceed the host limit, and the other way round.
MCLimit == [k \in Classes |-> 2]

Kv(n) == [ZeroClaim EXCEPT !["kv"] = n]
Both == [ZeroClaim EXCEPT !["kv"] = 1, !["staging"] = 1]

MCRequestClaims == {Kv(1), Both}
=============================================================================
