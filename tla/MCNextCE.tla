------------------------------ MODULE MCNextCE ------------------------------
(***************************************************************************)
(* Small models for TLC.  The graphs are named after what they exercise.   *)
(***************************************************************************)
EXTENDS NextCE, TLC

CONSTANTS a, b, x, y, MaxLen

(* The paths of at most MaxLen states.                                     *)
Paths == UNION {{t \in [1 .. n -> State] : IsPath(t)} : n \in 1 .. MaxLen}

(* Lassos are unrolled until just after the last state that matters: the   *)
(* first state outside the invariant of some property, and one more.       *)
CexPaths == {t \in Paths : \E p \in Prop :
                /\ Violates(Inv[p], t)
                /\ Len(t) <= TruncStep(Inv[p], t) + 1}

(* The same, cut at the violation.                                         *)
CexPrefixes == {t \in CexPaths : \E p \in Prop :
                    Violates(Inv[p], t) /\ Len(t) = TruncStep(Inv[p], t)}

(* A safe run, as a simulation would register it.                          *)
SafePaths == {<<a>>}
NoPaths == {}

ABXY == {a, b, x, y}

(* One initial state, two bad states, three last edges, a loop a-b-a.      *)
LoopTrans == {<<a, b>>, <<b, a>>, <<a, x>>, <<b, x>>, <<b, y>>, <<x, x>>, <<y, y>>}
OneInit == {a}
GoodAB == [p \in 0 .. 0 |-> {a, b}]
GoodAll == [p \in 0 .. 0 |-> ABXY]

(* Two properties over the same graph: the second allows y.                *)
TwoProps == (0 :> {a, b}) @@ (1 :> {a, b, y})

(* An initial state that another initial state leads to.                   *)
ChainTrans == {<<a, b>>, <<b, x>>, <<x, x>>, <<y, y>>}
TwoInit == {a, b}

(* A bad initial state.                                                    *)
BadInit == {a, x}
=============================================================================
