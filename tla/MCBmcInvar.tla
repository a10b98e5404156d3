----------------------------- MODULE MCBmcInvar -----------------------------
(* Machines of up to four states for bounded model checking.               *)
EXTENDS BmcInvar

FourStates == 1 .. 4
AllAlgorithms == Algorithms
SomeLengths == {0, 1, 3}

M(init, invar, trans) == [init |-> init, invar |-> invar, trans |-> trans]

(* A line into a loop, a line that no run reaches and whose states stay or *)
(* go on (its loops are what uniqueness is for, and an initial state that  *)
(* stays is as long a run as that line), two initial states, an INVAR that *)
(* cuts the line, and machines without initial states and without          *)
(* transitions.                                                            *)
Line == M({1}, 1 .. 3, {<<1, 2>>, <<2, 3>>, <<3, 3>>})
Apart == M({1}, 1 .. 4, {<<1, 1>>, <<2, 2>>, <<2, 3>>, <<3, 4>>, <<4, 4>>})
Pair == M({1, 2}, 1 .. 3, {<<1, 2>>, <<2, 1>>, <<2, 3>>, <<3, 2>>})
Cut == M({1, 2}, {1, 3}, {<<1, 2>>, <<2, 3>>, <<1, 1>>, <<3, 1>>})
Nowhere == M({1}, 2 .. 4, {<<2, 2>>, <<2, 3>>, <<3, 4>>})
Stuck == M({1}, 1 .. 3, {})

SomeMachines == {Line, Apart, Pair, Cut, Nowhere, Stuck}
=============================================================================
