-------------------------- MODULE SatMinisat_proofs --------------------------
(***************************************************************************)
(* The groups of SatMinisat behave as the code that uses them expects, for *)
(* every set of formulas and assignments: a problem means the conjunction  *)
(* of what its groups hold, adding a formula restricts the models by it,   *)
(* and a question asked in a group of its own leaves nothing behind.       *)
(***************************************************************************)
EXTENDS SatMinisat, TLAPS

Solvers ==
    [clauses : SUBSET (Formula \X Nat), closed : SUBSET Nat, variables : Nat,
     existing : SUBSET Nat, unsatisfiable : SUBSET Nat]

(* What every solver satisfies that was made by NewSolver, CreateGroup, Add*)
(* to an existing group and DestroyGroup.                                  *)
WellFormed(s) ==
    /\ s \in Solvers
    /\ Permanent \in s.existing
    /\ s.existing \subseteq 0 .. s.variables
    /\ s.closed \subseteq 1 .. s.variables
    /\ s.existing \cap s.closed = {}
    /\ s.unsatisfiable \subseteq s.existing
    /\ \A c \in s.clauses : c[2] \in s.existing \cup s.closed

(* An assignment satisfies what the solver holds in the groups of G.       *)
Satisfies(a, s, G) == \A c \in s.clauses : c[2] \in G => Holds(c[1], a)

(* Conversion to CNF is right about constants.                             *)
FalsityIsFalse == \A f \in Falsity, a \in Assignment : ~ Holds(f, a)

(* The clauses that adding F to group g makes, and the groups then known to*)
(* be unsatisfiable.                                                       *)
NewClauses(F, g) == (F \ Falsity) \X {g}
NewUnsatisfiable(s, F, g) ==
    IF F \cap Falsity # {} THEN s.unsatisfiable \cup {g} ELSE s.unsatisfiable

(* A new solver is well-formed, and the operations on groups keep it so.   *)
LEMMA NewWellFormed == WellFormed(NewSolver)
BY DEF NewSolver, WellFormed, Permanent, Solvers

(* sat_minisat_create_group                                                *)
LEMMA CreateWellFormed ==
    ASSUME NEW s, WellFormed(s)
    PROVE  /\ WellFormed(CreateGroup(s))
           /\ NewGroup(s) \in CreateGroup(s).existing \ s.existing
           /\ NewGroup(s) \notin s.closed \cup {Permanent}
           /\ CreateGroup(s).existing = s.existing \cup {NewGroup(s)}
           /\ CreateGroup(s).clauses = s.clauses
           /\ CreateGroup(s).unsatisfiable = s.unsatisfiable
<1> DEFINE t == CreateGroup(s)
<1>1. s \in Solvers /\ s.variables \in Nat /\ s.variables + 1 \in Nat
  BY DEF WellFormed, Solvers
<1>2. /\ t.variables = s.variables + 1
      /\ t.existing = s.existing \cup {s.variables + 1}
      /\ t.closed = s.closed
      /\ t.clauses = s.clauses
      /\ t.unsatisfiable = s.unsatisfiable
      /\ t \in Solvers
  BY <1>1 DEF CreateGroup, NewGroup, Solvers
<1> HIDE DEF t
<1>3. s.variables + 1 \notin s.existing \cup s.closed \cup {Permanent}
  BY <1>1 DEF WellFormed, Permanent
<1>4. /\ s.existing \cup {s.variables + 1} \subseteq 0 .. s.variables + 1
      /\ s.closed \subseteq 1 .. s.variables + 1
  BY <1>1 DEF WellFormed
<1>5. WellFormed(t)
  BY <1>2, <1>3, <1>4 DEF WellFormed
<1> QED BY <1>2, <1>3, <1>5 DEF NewGroup, t

(* SatSolver_add and SatSolver_set_polarity                                *)
LEMMA AddWellFormed ==
    ASSUME NEW s, WellFormed(s), NEW F, F \subseteq Formula, NEW g \in s.existing
    PROVE  /\ WellFormed(Add(s, F, g))
           /\ Add(s, F, g).existing = s.existing
           /\ Add(s, F, g).clauses = s.clauses \cup NewClauses(F, g)
           /\ Add(s, F, g).unsatisfiable = NewUnsatisfiable(s, F, g)
<1> DEFINE t == Add(s, F, g)
           C == NewClauses(F, g)
           U == NewUnsatisfiable(s, F, g)
<1>1. s \in Solvers /\ g \in Nat
  BY DEF WellFormed, Solvers
<1>2. C \subseteq Formula \X Nat /\ \A c \in C : c[2] = g
  BY <1>1 DEF NewClauses
<1>3. U \subseteq s.existing /\ U \subseteq Nat
  BY <1>1 DEF WellFormed, Solvers, NewUnsatisfiable
<1>4. t = [s EXCEPT !.clauses = s.clauses \cup C, !.unsatisfiable = U]
  BY <1>1 DEF Add, Solvers, NewClauses, NewUnsatisfiable
<1> HIDE DEF C, U, t
<1>5. /\ t.existing = s.existing
      /\ t.clauses = s.clauses \cup C
      /\ t.unsatisfiable = U
      /\ t.variables = s.variables
      /\ t.closed = s.closed
      /\ t \in Solvers
  BY <1>1, <1>2, <1>3, <1>4 DEF Solvers
<1>6. WellFormed(t)
  BY <1>2, <1>3, <1>5 DEF WellFormed
<1> QED BY <1>5, <1>6 DEF t, C, U

(* sat_minisat_destroy_group                                               *)
LEMMA DestroyWellFormed ==
    ASSUME NEW s, WellFormed(s), NEW g \in s.existing, g # Permanent
    PROVE  /\ WellFormed(DestroyGroup(s, g))
           /\ DestroyGroup(s, g).existing = s.existing \ {g}
           /\ DestroyGroup(s, g).clauses = s.clauses
           /\ DestroyGroup(s, g).unsatisfiable = s.unsatisfiable \ {g}
<1> DEFINE t == DestroyGroup(s, g)
<1>1. s \in Solvers /\ g \in Nat /\ g \in 1 .. s.variables
  BY DEF WellFormed, Permanent, Solvers
<1>2. /\ t.existing = s.existing \ {g}
      /\ t.clauses = s.clauses
      /\ t.closed = s.closed \cup {g}
      /\ t.variables = s.variables
      /\ t.unsatisfiable = s.unsatisfiable \ {g}
      /\ t \in Solvers
  BY <1>1 DEF DestroyGroup, Solvers
<1> HIDE DEF t
<1>3. WellFormed(t)
  BY <1>1, <1>2 DEF WellFormed
<1> QED BY <1>2, <1>3 DEF t

-----------------------------------------------------------------------------
(* A problem is satisfied exactly by the assignments that satisfy all that *)
(* the permanent group and the groups that count hold, whatever was        *)
(* destroyed or is left out: one choice of the group variables makes the   *)
(* clauses of all other groups true at once.  (sat_minisat_solve_groups)   *)
THEOREM SolvesItsGroups ==
    ASSUME NEW s, WellFormed(s), NEW G, G \subseteq s.existing
    PROVE  SolveGroups(s, G) =
               IF s.unsatisfiable \cap (G \cup {Permanent}) # {}
               THEN {} ELSE {a \in Assignment : Satisfies(a, s, G \cup {Permanent})}
<1> SUFFICES ASSUME s.unsatisfiable \cap (G \cup {Permanent}) = {}
             PROVE  SolveGroups(s, G) =
                        {a \in Assignment : Satisfies(a, s, G \cup {Permanent})}
  BY DEF SolveGroups
<1> DEFINE off == [g \in 1 .. s.variables |-> g \notin G]
<1>1. off \in Switches(s, G)
  <2>1. off \in [1 .. s.variables -> BOOLEAN]
    OBVIOUS
  <2>2. \A g \in s.closed : off[g]
    BY DEF WellFormed
  <2>3. \A g \in G \ {Permanent} : g \in 1 .. s.variables
    BY DEF WellFormed, Permanent, Solvers
  <2>4. \A g \in G \ {Permanent} : ~ off[g]
    BY <2>3
  <2> QED BY <2>1, <2>2, <2>4 DEF Switches
<1>2. ASSUME NEW a \in Assignment, Satisfies(a, s, G \cup {Permanent}),
             NEW c \in s.clauses
      PROVE  Holds(c[1], a) \/ (c[2] # Permanent /\ off[c[2]])
  <2>1. CASE c[2] \in G \cup {Permanent}
    BY <1>2, <2>1 DEF Satisfies
  <2>2. CASE c[2] \notin G \cup {Permanent}
    <3>1. c[2] \in 1 .. s.variables
      BY <1>2, <2>2 DEF WellFormed, Permanent
    <3> QED BY <2>2, <3>1
  <2> QED BY <2>1, <2>2
<1>3. ASSUME NEW a \in Assignment, NEW o \in Switches(s, G),
             \A c \in s.clauses : Holds(c[1], a) \/ (c[2] # Permanent /\ o[c[2]])
      PROVE  Satisfies(a, s, G \cup {Permanent})
  BY <1>3 DEF Switches, Satisfies
<1> HIDE DEF off
<1>4. \A a \in Assignment :
          (\E o \in Switches(s, G) :
               \A c \in s.clauses : Holds(c[1], a) \/ (c[2] # Permanent /\ o[c[2]]))
          <=> Satisfies(a, s, G \cup {Permanent})
  BY <1>1, <1>2, <1>3
<1> QED BY <1>4 DEF SolveGroups

(* All groups: SatSolver_solve_all_groups.                                 *)
LEMMA SolvesAll ==
    ASSUME NEW s, WellFormed(s)
    PROVE  SolveAll(s) = IF s.unsatisfiable # {}
                         THEN {} ELSE {a \in Assignment : Satisfies(a, s, s.existing)}
<1>1. s.existing \cup {Permanent} = s.existing
  BY DEF WellFormed
<1>2. s.unsatisfiable = {} => s.unsatisfiable \cap s.existing = {}
  OBVIOUS
<1>3. s.unsatisfiable = {} =>
          SolveGroups(s, s.existing) = {a \in Assignment : Satisfies(a, s, s.existing)}
  BY <1>1, <1>2, SolvesItsGroups
<1> QED BY <1>3 DEF SolveAll

(* Adding formulas to a group that counts leaves exactly the models that   *)
(* satisfy them, also when the conversion finds one of them to be false    *)
(* and adds no clause.  (SatSolver_add, SatSolver_set_polarity)            *)
THEOREM AddRestricts ==
    ASSUME NEW s, WellFormed(s), FalsityIsFalse,
           NEW F, F \subseteq Formula, NEW g \in s.existing
    PROVE  SolveAll(Add(s, F, g)) = {a \in SolveAll(s) : \A f \in F : Holds(f, a)}
<1> DEFINE t == Add(s, F, g)
<1>1. /\ WellFormed(t)
      /\ t.existing = s.existing
      /\ t.clauses = s.clauses \cup NewClauses(F, g)
      /\ t.unsatisfiable = NewUnsatisfiable(s, F, g)
  BY AddWellFormed
<1> HIDE DEF t
<1>2. SolveAll(t) = IF t.unsatisfiable # {}
                    THEN {} ELSE {a \in Assignment : Satisfies(a, t, t.existing)}
  BY <1>1, SolvesAll
<1>3. SolveAll(s) = IF s.unsatisfiable # {}
                    THEN {} ELSE {a \in Assignment : Satisfies(a, s, s.existing)}
  BY SolvesAll
<1>4. CASE F \cap Falsity # {}
  <2>1. PICK f \in F : f \in Falsity
    BY <1>4
  <2>2. \A a \in SolveAll(s) : a \in Assignment
    BY <1>3
  <2>3. \A a \in SolveAll(s) : ~ Holds(f, a)
    BY <2>1, <2>2 DEF FalsityIsFalse
  <2>4. SolveAll(t) = {}
    BY <1>1, <1>2, <1>4 DEF NewUnsatisfiable
  <2> QED BY <2>1, <2>3, <2>4 DEF t
<1>5. CASE F \cap Falsity = {}
  <2>1. t.unsatisfiable = s.unsatisfiable /\ F \ Falsity = F
    BY <1>1, <1>5 DEF NewUnsatisfiable
  <2>2. ASSUME NEW a
        PROVE  Satisfies(a, t, t.existing) <=>
                   Satisfies(a, s, s.existing) /\ \A f \in F : Holds(f, a)
    <3>1. \A c \in F \X {g} : c[1] \in F /\ c[2] = g
      OBVIOUS
    <3>2. \A f \in F : <<f, g>> \in F \X {g} /\ <<f, g>>[1] = f /\ <<f, g>>[2] = g
      OBVIOUS
    <3>3. t.clauses = s.clauses \cup (F \X {g})
      BY <1>1, <2>1 DEF NewClauses
    <3> QED BY <1>1, <3>1, <3>2, <3>3 DEF Satisfies
  <2> QED BY <1>2, <1>3, <2>1, <2>2 DEF t
<1> QED BY <1>4, <1>5

(* A question asked in a group of its own and destroyed afterwards leaves  *)
(* the solver with the models it had, although the clauses stay in MiniSat *)
(* for ever.  (Every bound of the incremental algorithms does this.)       *)
THEOREM QuestionLeavesNothing ==
    ASSUME NEW s, WellFormed(s), NEW F, F \subseteq Formula
    PROVE  LET g == NewGroup(s)
               t == DestroyGroup(Add(CreateGroup(s), F, g), g)
           IN  WellFormed(t) /\ SolveAll(t) = SolveAll(s)
<1> DEFINE g == NewGroup(s)
           r == CreateGroup(s)
           q == Add(r, F, g)
           t == DestroyGroup(q, g)
<1>1. /\ WellFormed(r)
      /\ g \in r.existing /\ g \notin s.existing
      /\ g \notin s.closed /\ g # Permanent
  BY CreateWellFormed
<1>2. /\ r.existing = s.existing \cup {g}
      /\ r.clauses = s.clauses
      /\ r.unsatisfiable = s.unsatisfiable
  BY CreateWellFormed
<1> HIDE DEF r, g
<1>3. /\ WellFormed(q)
      /\ q.existing = r.existing
      /\ q.clauses = r.clauses \cup NewClauses(F, g)
      /\ q.unsatisfiable = NewUnsatisfiable(r, F, g)
  BY <1>1, AddWellFormed
<1> HIDE DEF q
<1>4. /\ WellFormed(t)
      /\ t.existing = q.existing \ {g}
      /\ t.clauses = q.clauses
      /\ t.unsatisfiable = q.unsatisfiable \ {g}
  BY <1>1, <1>3, DestroyWellFormed
<1> HIDE DEF t
<1>5. t.existing = s.existing
  BY <1>1, <1>2, <1>3, <1>4
<1>6. s.unsatisfiable \subseteq s.existing
  BY DEF WellFormed
<1>7. t.unsatisfiable = s.unsatisfiable
  BY <1>1, <1>2, <1>3, <1>4, <1>6 DEF NewUnsatisfiable
<1>8. ASSUME NEW a
      PROVE  Satisfies(a, t, t.existing) <=> Satisfies(a, s, s.existing)
  <2>1. \A c \in NewClauses(F, g) : c[2] = g
    BY DEF NewClauses
  <2>2. t.clauses = s.clauses \cup NewClauses(F, g)
    BY <1>2, <1>3, <1>4
  <2> QED BY <1>1, <1>5, <2>1, <2>2 DEF Satisfies
<1>9. SolveAll(t) = SolveAll(s)
  <2>1. SolveAll(t) = IF t.unsatisfiable # {}
                      THEN {} ELSE {a \in Assignment : Satisfies(a, t, t.existing)}
    BY <1>4, SolvesAll
  <2>2. SolveAll(s) = IF s.unsatisfiable # {}
                      THEN {} ELSE {a \in Assignment : Satisfies(a, s, s.existing)}
    BY SolvesAll
  <2> QED BY <1>7, <1>8, <2>1, <2>2
<1> QED BY <1>4, <1>9 DEF t, q, r, g

-----------------------------------------------------------------------------
(* The same facts one assignment at a time, for callers that leave groups  *)
(* out: an assignment is a model of what s holds outside the groups of G.  *)
Model(s, G, a) ==
    /\ a \in Assignment
    /\ s.unsatisfiable \subseteq G
    /\ Satisfies(a, s, s.existing \ G)

(* SatSolver_solve_all_groups                                              *)
LEMMA SolveAllModels ==
    ASSUME NEW s, WellFormed(s)
    PROVE  \A a : a \in SolveAll(s) <=> Model(s, {}, a)
<1>1. s.existing \ {} = s.existing /\ (s.unsatisfiable \subseteq {} <=> s.unsatisfiable = {})
  OBVIOUS
<1>2. CASE s.unsatisfiable = {}
  <2>1. SolveAll(s) = {a \in Assignment : Satisfies(a, s, s.existing)}
    BY <1>2, SolvesAll
  <2> QED  BY <1>1, <1>2, <2>1 DEF Model
<1>3. CASE s.unsatisfiable # {}
  <2>1. SolveAll(s) = {}
    BY <1>3, SolvesAll
  <2> QED  BY <1>1, <1>3, <2>1 DEF Model
<1> QED  BY <1>2, <1>3

(* SatIncSolver_solve_without_groups                                       *)
LEMMA SolveWithoutModels ==
    ASSUME NEW s, WellFormed(s), NEW G, Permanent \notin G
    PROVE  \A a : a \in SolveWithout(s, G) <=> Model(s, G, a)
<1> DEFINE E == s.existing \ G
<1>1. E \cup {Permanent} = E /\ E \subseteq s.existing
  BY DEF WellFormed
<1>2. s.unsatisfiable \cap E = {} <=> s.unsatisfiable \subseteq G
  BY DEF WellFormed
<1> HIDE DEF E
<1>3. SolveGroups(s, E) =
          IF s.unsatisfiable \cap E # {}
          THEN {} ELSE {a \in Assignment : Satisfies(a, s, E)}
  BY <1>1, SolvesItsGroups
<1>4. CASE s.unsatisfiable \cap E = {}
  <2>1. SolveGroups(s, E) = {a \in Assignment : Satisfies(a, s, E)}
    BY <1>3, <1>4
  <2> QED  BY <1>2, <1>4, <2>1 DEF Model, SolveWithout, E
<1>5. CASE s.unsatisfiable \cap E # {}
  <2>1. SolveGroups(s, E) = {}
    BY <1>3, <1>5
  <2> QED  BY <1>2, <1>5, <2>1 DEF Model, SolveWithout, E
<1> QED  BY <1>4, <1>5

(* A new solver holds nothing.                                             *)
LEMMA NewModels ==
    ASSUME NEW a \in Assignment, NEW G
    PROVE  Model(NewSolver, G, a)
BY DEF Model, NewSolver, Satisfies

(* Adding to a group that counts.                                          *)
LEMMA AddModels ==
    ASSUME NEW s, WellFormed(s), FalsityIsFalse, NEW F, F \subseteq Formula,
           NEW G, NEW g \in s.existing, g \notin G
    PROVE  \A a : Model(Add(s, F, g), G, a) <=>
                      Model(s, G, a) /\ \A f \in F : Holds(f, a)
<1>0. /\ Add(s, F, g).existing = s.existing
      /\ Add(s, F, g).clauses = s.clauses \cup NewClauses(F, g)
      /\ Add(s, F, g).unsatisfiable = NewUnsatisfiable(s, F, g)
  BY AddWellFormed, ZenonT(30)
<1> DEFINE t == Add(s, F, g)
<1>1. /\ t.existing = s.existing
      /\ t.clauses = s.clauses \cup NewClauses(F, g)
      /\ t.unsatisfiable = NewUnsatisfiable(s, F, g)
  BY <1>0
<1> HIDE DEF t
<1>2. CASE F \cap Falsity # {}
  <2>1. PICK f \in F : f \in Falsity
    BY <1>2
  <2>2. g \in t.unsatisfiable
    BY <1>1, <1>2 DEF NewUnsatisfiable
  <2>3. \A a : ~ Model(t, G, a)
    BY <2>2 DEF Model
  <2>4. \A a : Model(s, G, a) => ~ Holds(f, a)
    BY <2>1 DEF Model, FalsityIsFalse
  <2> QED  BY <2>1, <2>3, <2>4 DEF t
<1>3. CASE F \cap Falsity = {}
  <2>1. t.unsatisfiable = s.unsatisfiable /\ F \ Falsity = F
    BY <1>1, <1>3 DEF NewUnsatisfiable
  <2>2. t.clauses = s.clauses \cup (F \X {g})
    BY <1>1, <2>1 DEF NewClauses
  <2>3. ASSUME NEW a
        PROVE  Satisfies(a, t, t.existing \ G) <=>
                   Satisfies(a, s, s.existing \ G) /\ \A f \in F : Holds(f, a)
    <3>1. \A c \in F \X {g} : c[1] \in F /\ c[2] = g
      OBVIOUS
    <3>2. \A f \in F : <<f, g>> \in F \X {g} /\ <<f, g>>[1] = f /\ <<f, g>>[2] = g
      OBVIOUS
    <3> QED  BY <1>1, <2>2, <3>1, <3>2 DEF Satisfies
  <2> QED  BY <2>1, <2>3 DEF Model, t
<1> QED  BY <1>2, <1>3

(* Adding to a group that is left out.                                     *)
LEMMA AddLeftOut ==
    ASSUME NEW s, WellFormed(s), NEW F, F \subseteq Formula,
           NEW G, NEW g \in s.existing, g \in G
    PROVE  \A a : Model(Add(s, F, g), G, a) <=> Model(s, G, a)
<1> DEFINE t == Add(s, F, g)
<1>1. /\ t.existing = s.existing
      /\ t.clauses = s.clauses \cup NewClauses(F, g)
      /\ t.unsatisfiable = NewUnsatisfiable(s, F, g)
  BY AddWellFormed
<1> HIDE DEF t
<1>2. \A c \in NewClauses(F, g) : c[2] = g
  BY DEF NewClauses
<1>3. \A a : Satisfies(a, t, t.existing \ G) <=> Satisfies(a, s, s.existing \ G)
  BY <1>1, <1>2 DEF Satisfies
<1>4. t.unsatisfiable \subseteq G <=> s.unsatisfiable \subseteq G
  BY <1>1 DEF NewUnsatisfiable
<1> QED  BY <1>3, <1>4 DEF Model, t

(* A new group is empty.                                                   *)
LEMMA CreateModels ==
    ASSUME NEW s, WellFormed(s), NEW G
    PROVE  \A a : Model(CreateGroup(s), G, a) <=> Model(s, G, a)
<1> DEFINE t == CreateGroup(s)
           g == NewGroup(s)
<1>1. /\ g \notin s.existing /\ g \notin s.closed
      /\ t.existing = s.existing \cup {g}
      /\ t.clauses = s.clauses
      /\ t.unsatisfiable = s.unsatisfiable
  BY CreateWellFormed
<1> HIDE DEF t, g
<1>2. \A c \in s.clauses : c[2] # g
  BY <1>1 DEF WellFormed
<1>3. \A a : Satisfies(a, t, t.existing \ G) <=> Satisfies(a, s, s.existing \ G)
  BY <1>1, <1>2 DEF Satisfies
<1> QED  BY <1>1, <1>3 DEF Model, t

(* A group that is destroyed is a group that is left out for ever.         *)
LEMMA DestroyModels ==
    ASSUME NEW s, WellFormed(s), NEW g \in s.existing, g # Permanent, NEW G
    PROVE  \A a : Model(DestroyGroup(s, g), G, a) <=> Model(s, G \cup {g}, a)
<1> DEFINE t == DestroyGroup(s, g)
<1>1. /\ t.existing = s.existing \ {g}
      /\ t.clauses = s.clauses
      /\ t.unsatisfiable = s.unsatisfiable \ {g}
  BY DestroyWellFormed
<1> HIDE DEF t
<1>2. t.existing \ G = s.existing \ (G \cup {g})
  BY <1>1
<1>3. t.unsatisfiable \subseteq G <=> s.unsatisfiable \subseteq G \cup {g}
  BY <1>1
<1> QED  BY <1>1, <1>2, <1>3 DEF Model, Satisfies, t

(* The group variables used: one for each group created.                   *)
LEMMA VariablesOf ==
    ASSUME NEW s, WellFormed(s), NEW F, NEW g
    PROVE  /\ CreateGroup(s).variables = s.variables + 1
           /\ Add(s, F, g).variables = s.variables
           /\ DestroyGroup(s, g).variables = s.variables
           /\ s.variables \in Nat
BY DEF WellFormed, Solvers, CreateGroup, Add, DestroyGroup

(* A question in a group of its own: with the group the solver means what  *)
(* it did and the question; once the group is destroyed, what it did.      *)
THEOREM QuestionModels ==
    ASSUME NEW s, WellFormed(s), FalsityIsFalse, NEW F, F \subseteq Formula,
           NEW G, G \subseteq s.existing
    PROVE  LET g == NewGroup(s)
               q == Add(CreateGroup(s), F, g)
               t == DestroyGroup(q, g)
           IN  /\ WellFormed(q) /\ WellFormed(t)
               /\ t.existing = s.existing
               /\ q.variables = s.variables + 1 /\ t.variables = s.variables + 1
               /\ \A a : Model(q, G, a) <=> Model(s, G, a) /\ \A f \in F : Holds(f, a)
               /\ \A a : Model(t, G, a) <=> Model(s, G, a)
<1> DEFINE g == NewGroup(s)
           r == CreateGroup(s)
           q == Add(r, F, g)
           t == DestroyGroup(q, g)
<1>1. /\ WellFormed(r)
      /\ g \in r.existing /\ g \notin s.existing
      /\ g \notin s.closed /\ g # Permanent
      /\ r.existing = s.existing \cup {g}
  BY CreateWellFormed
<1>2. /\ \A a : Model(r, G, a) <=> Model(s, G, a)
      /\ \A a : Model(r, G \cup {g}, a) <=> Model(s, G \cup {g}, a)
      /\ r.variables = s.variables + 1
  BY CreateModels, VariablesOf
<1>3. g \notin G
  BY <1>1
<1> HIDE DEF r, g
<1>4. WellFormed(q) /\ q.existing = r.existing /\ q.variables = r.variables
  <2>1. /\ WellFormed(q)
        /\ q.existing = r.existing
        /\ q.clauses = r.clauses \cup NewClauses(F, g)
        /\ q.unsatisfiable = NewUnsatisfiable(r, F, g)
    BY <1>1, AddWellFormed
  <2>2. q.variables = r.variables
    BY <1>1, VariablesOf
  <2> QED  BY <2>1, <2>2
<1>5. \A a : Model(q, G, a) <=> Model(r, G, a) /\ \A f \in F : Holds(f, a)
  BY <1>1, <1>3, AddModels
<1>6. \A a : Model(q, G \cup {g}, a) <=> Model(r, G \cup {g}, a)
  BY <1>1, AddLeftOut
<1> HIDE DEF q
<1>7. WellFormed(t) /\ t.existing = q.existing \ {g} /\ t.variables = q.variables
  BY <1>1, <1>4, DestroyWellFormed, VariablesOf
<1>8. \A a : Model(t, G, a) <=> Model(q, G \cup {g}, a)
  BY <1>1, <1>4, DestroyModels
<1> HIDE DEF t
<1>9. \A a : Model(s, G \cup {g}, a) <=> Model(s, G, a)
  <2>1. s.existing \ (G \cup {g}) = s.existing \ G
    BY <1>1
  <2>2. s.unsatisfiable \subseteq G \cup {g} <=> s.unsatisfiable \subseteq G
    BY <1>1 DEF WellFormed
  <2> QED  BY <2>1, <2>2 DEF Model
<1>10. t.existing = s.existing
  BY <1>1, <1>4, <1>7
<1>11. \A a : Model(q, G, a) <=> Model(s, G, a) /\ \A f \in F : Holds(f, a)
  BY <1>2, <1>5
<1>12. \A a : Model(t, G, a) <=> Model(s, G, a)
  BY <1>2, <1>6, <1>8, <1>9
<1> QED  BY <1>2, <1>4, <1>7, <1>10, <1>11, <1>12 DEF t, q, r, g

(* Formulas added for good.                                                *)
LEMMA PermanentModels ==
    ASSUME NEW s, WellFormed(s), FalsityIsFalse, NEW F, F \subseteq Formula,
           NEW G, Permanent \notin G
    PROVE  LET t == Add(s, F, Permanent)
           IN  /\ WellFormed(t) /\ t.existing = s.existing
               /\ t.variables = s.variables
               /\ \A a : Model(t, G, a) <=> Model(s, G, a) /\ \A f \in F : Holds(f, a)
<1>1. Permanent \in s.existing
  BY DEF WellFormed
<1>2. /\ WellFormed(Add(s, F, Permanent))
      /\ Add(s, F, Permanent).existing = s.existing
  BY <1>1, AddWellFormed
<1>3. Add(s, F, Permanent).variables = s.variables
  BY VariablesOf
<1>4. \A a : Model(Add(s, F, Permanent), G, a) <=>
               Model(s, G, a) /\ \A f \in F : Holds(f, a)
  BY <1>1, AddModels
<1> QED  BY <1>2, <1>3, <1>4
=============================================================================
