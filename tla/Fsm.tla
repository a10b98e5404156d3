-------------------------------- MODULE Fsm --------------------------------
(***************************************************************************)
(* Finite state machines as the model checkers see them (fsm/bdd/BddFsm.c):*)
(* initial states, state constraints (INVAR) and a transition relation,    *)
(* with the images of a set of states.  Input variables are quantified     *)
(* away.  The last part defines, with no algorithm, what the algorithms    *)
(* are to compute.                                                         *)
(***************************************************************************)
EXTENDS Integers, Sequences

CONSTANTS
    State,      \* the assignments to the state and frozen variables
    Machine     \* the machines of interest

ASSUME MachineAssumption ==
    Machine \subseteq [init : SUBSET State, invar : SUBSET State,
                       trans : SUBSET (State \X State)]

(* BddFsm_get_init and the state constraints, as every user joins them.    *)
InitStates(m) == m.init \cap m.invar

(* BddFsm_get_forward_image                                                *)
Image(m, S) == {t \in m.invar : \E s \in S \cap m.invar : <<s, t>> \in m.trans}

(* Faulty: the successors are taken for the predecessors.                  *)
PreimageForward(m, S) == Image(m, S)

(* BddFsm_get_backward_image                                               *)
Preimage(m, S) == {s \in m.invar : \E t \in S \cap m.invar : <<s, t>> \in m.trans}

-----------------------------------------------------------------------------
Closed(m, S) == Image(m, S) \subseteq S

(* The least set with the initial states that no transition leaves.        *)
Reachable(m) ==
    {s \in State : \A S \in SUBSET State :
                       InitStates(m) \subseteq S /\ Closed(m, S) => s \in S}

(* The states within n steps of the initial ones, by the definition.       *)
Within(m) ==
    LET R[n \in Nat] == IF n = 0 THEN InitStates(m)
                                 ELSE R[n - 1] \cup Image(m, R[n - 1])
    IN R

IsChain(m, p) == \A i \in 1 .. Len(p) - 1 : p[i + 1] \in Image(m, {p[i]})

(* A run of the machine that leads to one of the states of bad.            *)
IsCounterExample(m, p, bad) ==
    /\ p # << >>
    /\ p[1] \in InitStates(m)
    /\ IsChain(m, p)
    /\ p[Len(p)] \in bad
=============================================================================
