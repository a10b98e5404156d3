----------------------------- MODULE SatMinisat -----------------------------
(***************************************************************************)
(* The incremental SAT solver (sat/SatSolver.c, sat/SatIncSolver.c and     *)
(* sat/solvers/SatMinisat.c).  Formulas are added to groups, which can be  *)
(* left out of a problem or destroyed.  MiniSat knows no groups: a group is*)
(* one of its variables, which stands in every clause of the group, is     *)
(* assumed false where the group counts, and is made true for good when the*)
(* group is destroyed.  MiniSat itself is what it promises: it answers     *)
(* whether an assignment satisfies all clauses and assumptions.            *)
(***************************************************************************)
EXTENDS Integers

CONSTANTS
    Formula,        \* the formulas anyone adds
    Falsity,        \* those that the conversion to CNF finds to be false
    Assignment,     \* the assignments to the variables of the formulas
    Holds(_, _)     \* does a formula hold under an assignment?

Permanent == 0

(* clauses pairs a formula with the group whose variable is in its clauses;*)
(* closed has the variables of destroyed groups; groups are 0..variables.  *)
NewSolver ==
    [clauses |-> {}, closed |-> {}, variables |-> 0,
     existing |-> {Permanent}, unsatisfiable |-> {}]

(* sat_minisat_create_group takes a new variable.                          *)
NewGroup(s) == s.variables + 1

CreateGroup(s) ==
    [s EXCEPT !.variables = @ + 1, !.existing = @ \cup {NewGroup(s)}]

(* SatSolver_add and SatSolver_set_polarity for each formula of F: a group *)
(* with a constant falsehood is remembered, and no clause is added.        *)
Add(s, F, g) ==
    [s EXCEPT !.clauses = @ \cup ((F \ Falsity) \X {g}),
              !.unsatisfiable = IF F \cap Falsity # {} THEN @ \cup {g} ELSE @]

(* Faulty: the group is taken off the list, but its clauses stay.          *)
DestroyOnList(s, g) ==
    [s EXCEPT !.existing = @ \ {g}]

(* sat_minisat_destroy_group                                               *)
DestroyGroup(s, g) ==
    [s EXCEPT !.existing = @ \ {g}, !.unsatisfiable = @ \ {g},
              !.closed = @ \cup {g}]

(* The values of the group variables MiniSat may choose.                   *)
Switches(s, G) ==
    {off \in [1 .. s.variables -> BOOLEAN] :
        /\ \A g \in s.closed : off[g]
        /\ \A g \in G \ {Permanent} : ~ off[g]}

(* sat_minisat_solve_groups: the models of the problem, none if it has no  *)
(* solution.                                                               *)
SolveGroups(s, G) ==
    IF s.unsatisfiable \cap (G \cup {Permanent}) # {}
    THEN {}
    ELSE LET switches == Switches(s, G) IN
         {a \in Assignment :
             \E off \in switches :
                 \A c \in s.clauses :
                     Holds(c[1], a) \/ (c[2] # Permanent /\ off[c[2]])}

(* SatSolver_solve_all_groups                                              *)
SolveAll(s) == IF s.unsatisfiable # {} THEN {} ELSE SolveGroups(s, s.existing)

(* SatIncSolver_solve_without_groups                                       *)
SolveWithout(s, G) == SolveGroups(s, s.existing \ G)
=============================================================================
