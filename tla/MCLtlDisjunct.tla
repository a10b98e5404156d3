---------------------------- MODULE MCLtlDisjunct ----------------------------
(* Every path of at most MaxLen states of a complete graph, some of whose  *)
(* states are initial, as far as the first violation and one step beyond.  *)
EXTENDS LtlDisjunct

CONSTANTS a, b, x, y, MaxLen

ABXY == {a, b, x, y}
AllTrans == State \X State
Good == {a, b}
Starts == {a, b, x}
AlmostAll == {a, b, x}

Paths == UNION {{t \in [1 .. n -> State] : IsPath(t)} : n \in 1 .. MaxLen}
CexPaths == {t \in Paths : Violates(inv, t) /\ Len(t) <= TruncStep(inv, t) + 1}
=============================================================================
