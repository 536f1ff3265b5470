----------------------------- MODULE MCLeaseTree ----------------------------
(* Small instances of LeaseTree for TLC.                                   *)
EXTENDS LeaseTree, TLC

\* Keys are only compared with each other.
KeySymmetry == Permutations(Keys)

Kv(n) == [ZeroClaim EXCEPT !["kv"] = n]

\* One receipt and one full tree fill the Bank exactly.
MCLimit == [k \in Classes |-> IF k = QueueClass THEN 2 ELSE 4]

MCRequestClaims == {[Kv(2) EXCEPT ![QueueClass] = 2]}
MCCeilings == {Kv(2)}
MCLeafClaims == {Kv(1)}

\* A fenced and a legacy restore of a request that had published once.
MCRestorePoints == {<<1, 1>>, <<1, 0>>}

\* A bound: the trees of one behaviour are all additive or all funded.
OneFunding ==
    Cardinality({t.root.funding : t \in Trees}) <= 1
=============================================================================
