---------------------------- MODULE MCInvarCheck ----------------------------
(* Machines of five states for the invariant checks.                       *)
EXTENDS InvarCheck

FiveStates == 1 .. 5
AllStrategies == Strategies

M(init, invar, trans) == [init |-> init, invar |-> invar, trans |-> trans]

(* A line with a way back, two initial states whose paths join, a fork with*)
(* a short and a long way and a state that no run reaches, a machine whose *)
(* INVAR cuts the line, and one with no initial state.                     *)
Line == M({1}, 1 .. 5, {<<1, 2>>, <<2, 3>>, <<3, 4>>, <<4, 5>>, <<5, 1>>})
Join == M({1, 2}, 1 .. 5, {<<1, 3>>, <<2, 3>>, <<3, 4>>, <<4, 4>>, <<5, 3>>})
Fork == M({1}, 1 .. 5, {<<1, 2>>, <<1, 3>>, <<2, 4>>, <<3, 3>>, <<4, 3>>, <<5, 4>>})
Cut == M({1, 4}, {1, 2, 3, 5}, {<<1, 2>>, <<2, 4>>, <<4, 5>>, <<2, 3>>, <<3, 3>>})
Dead == M({1}, {2, 3}, {<<1, 2>>, <<2, 3>>})

SomeMachines == {Line, Join, Fork, Cut, Dead}
=============================================================================
