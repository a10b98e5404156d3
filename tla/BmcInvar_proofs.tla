--------------------------- MODULE BmcInvar_proofs ---------------------------
(***************************************************************************)
(* Bounded model checking of invariants is right and complete: for every   *)
(* machine, set of bad states, bound and sequence of commands.             *)
(***************************************************************************)
EXTENDS BmcInvar, Fsm_proofs, FiniteSetTheorems

SP == INSTANCE SatMinisat_proofs WITH
    Formula <- Formulas, Falsity <- False,
    Assignment <- [Times -> State], Holds <- Condition

-----------------------------------------------------------------------------
(* The solver.  A set of formulas means their conjunction.                 *)
Conj(F, a) == \A f \in F : Condition(f, a)

LEMMA FalseIsFalse == SP!FalsityIsFalse
BY DEF SP!FalsityIsFalse, False, Condition

(* The operations of BmcInvar are those the theorems are about.            *)
LEMMA SameSolver ==
    /\ Sat!NewSolver = SP!NewSolver
    /\ \A s : Sat!CreateGroup(s) = SP!CreateGroup(s) /\ Sat!NewGroup(s) = SP!NewGroup(s)
    /\ \A s, F, g : Sat!Add(s, F, g) = SP!Add(s, F, g)
    /\ \A s, g : Sat!DestroyGroup(s, g) = SP!DestroyGroup(s, g)
    /\ Sat!Permanent = 0 /\ SP!Permanent = 0
BY DEF Sat!NewSolver, SP!NewSolver, Sat!CreateGroup, SP!CreateGroup, Sat!NewGroup,
       SP!NewGroup, Sat!Add, SP!Add, Sat!DestroyGroup, SP!DestroyGroup,
       Sat!Permanent, SP!Permanent

LEMMA SameAnswers ==
    /\ \A s : Sat!SolveAll(s) = SP!SolveAll(s)
    /\ \A s, G : Sat!SolveWithout(s, G) = SP!SolveWithout(s, G)
BY DEF Sat!SolveAll, SP!SolveAll, Sat!SolveWithout, SP!SolveWithout,
       Sat!SolveGroups, SP!SolveGroups, Sat!Switches, SP!Switches,
       Sat!Permanent, SP!Permanent

LEMMA SolveAllMeans ==
    ASSUME NEW s, SP!WellFormed(s)
    PROVE  \A a : a \in Sat!SolveAll(s) <=> SP!Model(s, {}, a)
BY SP!SolveAllModels, SameAnswers

LEMMA SolveWithoutMeans ==
    ASSUME NEW s, SP!WellFormed(s), NEW G, 0 \notin G
    PROVE  \A a : a \in Sat!SolveWithout(s, G) <=> SP!Model(s, G, a)
BY SP!SolveWithoutModels, SameAnswers, SameSolver

LEMMA AssertMeans ==
    ASSUME NEW s, SP!WellFormed(s), NEW F, F \subseteq Formulas,
           NEW G, 0 \notin G
    PROVE  /\ SP!WellFormed(Assert(s, F))
           /\ Assert(s, F).existing = s.existing
           /\ Assert(s, F).variables = s.variables
           /\ \A a : SP!Model(Assert(s, F), G, a) <=> SP!Model(s, G, a) /\ Conj(F, a)
<1>1. Assert(s, F) = SP!Add(s, F, SP!Permanent)
  BY SameSolver DEF Assert
<1>2. SP!Permanent \notin G
  BY SameSolver
<1> QED  BY <1>1, <1>2, FalseIsFalse, SP!PermanentModels DEF Conj

LEMMA PushMeans ==
    ASSUME NEW s, SP!WellFormed(s), NEW F, F \subseteq Formulas,
           NEW G, G \subseteq s.existing
    PROVE  /\ SP!WellFormed(Push(s, F)) /\ SP!WellFormed(Pop(Push(s, F)))
           /\ Pop(Push(s, F)).existing = s.existing
           /\ Push(s, F).variables = s.variables + 1
           /\ Pop(Push(s, F)).variables = s.variables + 1
           /\ \A a : SP!Model(Push(s, F), G, a) <=> SP!Model(s, G, a) /\ Conj(F, a)
           /\ \A a : SP!Model(Pop(Push(s, F)), G, a) <=> SP!Model(s, G, a)
<1> DEFINE g == SP!NewGroup(s)
           q == SP!Add(SP!CreateGroup(s), F, g)
           t == SP!DestroyGroup(q, g)
<1>1. /\ SP!WellFormed(q) /\ SP!WellFormed(t)
      /\ t.existing = s.existing
      /\ q.variables = s.variables + 1 /\ t.variables = s.variables + 1
      /\ \A a : SP!Model(q, G, a) <=> SP!Model(s, G, a) /\ \A f \in F : Condition(f, a)
      /\ \A a : SP!Model(t, G, a) <=> SP!Model(s, G, a)
  BY FalseIsFalse, SP!QuestionModels
<1>2. Push(s, F) = q
  BY SameSolver DEF Push
<1>3. g = s.variables + 1
  BY DEF SP!NewGroup
<1> HIDE DEF q, g
<1>4. Pop(q) = t
  BY <1>1, <1>3, SameSolver DEF Pop
<1> HIDE DEF t
<1> QED  BY <1>1, <1>2, <1>4 DEF Conj

-----------------------------------------------------------------------------
(* The formulas.                                                           *)
LEMMA TimesType == Times \subseteq Nat /\ 0 \in Times /\ 1 \in Times
BY BmcAssumption DEF Times

LEMMA AtMeans ==
    ASSUME NEW a, NEW i \in Times
    PROVE  /\ Condition(At("init", i), a) <=> a[i] \in InitStates(fsm)
           /\ Condition(At("uninit", i), a) <=> a[i] \in State \ InitStates(fsm)
           /\ Condition(At("invar", i), a) <=> a[i] \in fsm.invar
           /\ Condition(At("good", i), a) <=> a[i] \in State \ bad
           /\ Condition(At("bad", i), a) <=> a[i] \in bad
           /\ \A kind \in Kinds : At(kind, i) \in Formulas
<1>1. ASSUME NEW kind \in Kinds, kind # "trans", kind # "differ"
      PROVE  Condition(At(kind, i), a) <=> a[i] \in States(kind)
  BY <1>1 DEF Condition, At
<1>2. /\ States("init") = InitStates(fsm)
      /\ States("uninit") = State \ InitStates(fsm)
      /\ States("invar") = fsm.invar
      /\ States("good") = State \ bad
      /\ States("bad") = bad
  BY DEF States
<1>3. \A kind \in Kinds : At(kind, i) \in Formulas
  BY DEF At, Formulas
<1> QED  BY <1>1, <1>2, <1>3 DEF Kinds

LEMMA PairMeans ==
    ASSUME NEW a, NEW i \in Times, NEW j \in Times
    PROVE  /\ Condition(<<"trans", i, j>>, a) <=> <<a[i], a[j]>> \in fsm.trans
           /\ Condition(<<"differ", i, j>>, a) <=> a[i] # a[j]
           /\ <<"trans", i, j>> \in Formulas /\ <<"differ", i, j>> \in Formulas
BY DEF Condition, Formulas, Kinds

LEMMA TransitionMeans ==
    ASSUME NEW a, NEW i \in Times, NEW j \in Times
    PROVE  /\ Conj(Transition(i, j), a) <=> a[j] \in Image(fsm, {a[i]})
           /\ Transition(i, j) \subseteq Formulas
<1>1. Transition(i, j) \subseteq Formulas
  BY AtMeans, PairMeans DEF Transition, Kinds
<1>2. Conj(Transition(i, j), a) <=>
          <<a[i], a[j]>> \in fsm.trans /\ a[i] \in fsm.invar /\ a[j] \in fsm.invar
  <2>1. Conj(Transition(i, j), a) <=>
          /\ Condition(<<"trans", i, j>>, a)
          /\ Condition(At("invar", i), a) /\ Condition(At("invar", j), a)
    BY DEF Conj, Transition
  <2> QED  BY <2>1, AtMeans, PairMeans
<1> QED  BY <1>1, <1>2 DEF Image

LEMMA UniquenessMeans ==
    ASSUME NEW a, NEW i \in Times, NEW j \in Times
    PROVE  /\ Conj(Uniqueness(i, j), a) <=> \A l \in i .. j - 1 : a[l] # a[j]
           /\ Uniqueness(i, j) \subseteq Formulas
<1>1. \A l \in i .. j - 1 : l \in Times
  BY BmcAssumption DEF Times
<1>2. Conj(Uniqueness(i, j), a) <=>
          \A l \in i .. j - 1 : Condition(<<"differ", l, j>>, a)
  BY DEF Conj, Uniqueness
<1> QED  BY <1>1, <1>2, PairMeans DEF Uniqueness

LEMMA UnionMeans ==
    ASSUME NEW a, NEW F, NEW G
    PROVE  Conj(F \cup G, a) <=> Conj(F, a) /\ Conj(G, a)
BY DEF Conj

LEMMA SingleMeans ==
    ASSUME NEW a, NEW i \in Times, NEW kind \in Kinds
    PROVE  /\ Conj({At(kind, i)}, a) <=> Condition(At(kind, i), a)
           /\ {At(kind, i)} \subseteq Formulas
BY AtMeans DEF Conj

-----------------------------------------------------------------------------
(* What the solvers hold at the bound n.  The base: good states in a row.  *)
HeldStep(m, B, alg, i, a) ==
    /\ a[i] \notin B
    /\ a[i + 1] \in Image(m, {a[i]})
    /\ alg = "zigzag" => \A l \in 0 .. i - 1 : a[l] # a[i]

Held(m, B, alg, n, a) == \A i \in 0 .. n - 1 : HeldStep(m, B, alg, i, a)

BaseHolds(s, alg, n) ==
    \A a \in [Times -> State] :
        SP!Model(s, {}, a) <=>
            a[0] \in InitStates(fsm) /\ Held(fsm, bad, alg, n, a)

(* The same without the initial states, which zigzag leaves out.           *)
GapHolds(s, n) ==
    \A a \in [Times -> State] :
        SP!Model(s, {InitialGroup}, a) <=> Held(fsm, bad, "zigzag", n, a)

(* The backward closure: good states before a bad one.                     *)
BackStep(m, B, i, a) ==
    /\ a[i] \in Image(m, {a[i + 1]})
    /\ a[i + 1] \notin B
    /\ 1 < i => \A l \in 1 .. i : a[l] # a[i + 1]

BackHolds(s, n) ==
    \A a \in [Times -> State] :
        SP!Model(s, {}, a) <=>
            a[0] \in bad /\ \A i \in 0 .. n - 1 : BackStep(fsm, bad, i, a)

(* The forward closure: different states in a row.                         *)
ForthStep(m, B, i, a) ==
    IF i = 0 THEN a[0] \in m.invar
    ELSE /\ <<a[i - 1], a[i]>> \in m.trans /\ a[i] \in m.invar
         /\ a[i - 1] \notin B
         /\ \A l \in 0 .. i - 1 : a[l] # a[i]

ForthHolds(s, n) ==
    \A a \in [Times -> State] :
        SP!Model(s, {}, a) <=> \A i \in 0 .. n - 1 : ForthStep(fsm, bad, i, a)

(* What the question about a bad state at the end finds.                   *)
LEMMA AskedMeans ==
    ASSUME NEW s, SP!WellFormed(s), NEW G, G \subseteq s.existing, k \in Times
    PROVE  /\ SP!WellFormed(Asked(s))
           /\ \A a : SP!Model(Asked(s), G, a) <=> SP!Model(s, G, a) /\ a[k] \in bad
<1> DEFINE F == {At("bad", k)}
<1>1. F \subseteq Formulas /\ \A a : Conj(F, a) <=> a[k] \in bad
  BY AtMeans, SingleMeans DEF Kinds
<1> HIDE DEF F
<1>2. /\ SP!WellFormed(Push(s, F))
      /\ \A a : SP!Model(Push(s, F), G, a) <=> SP!Model(s, G, a) /\ Conj(F, a)
  BY <1>1, PushMeans
<1> QED  BY <1>1, <1>2 DEF Asked, F

(* Asking and then extending by one step.                                  *)
LEMMA ExtendedMeans ==
    ASSUME NEW s, SP!WellFormed(s), NEW G, G \subseteq s.existing, 0 \notin G,
           k \in Times, k + 1 \in Times
    PROVE  /\ SP!WellFormed(Extended(s))
           /\ Extended(s).existing = s.existing
           /\ Extended(s).variables = s.variables + 1
           /\ \A a \in [Times -> State] :
                  SP!Model(Extended(s), G, a) <=>
                      /\ SP!Model(s, G, a)
                      /\ a[k] \notin bad /\ a[k + 1] \in Image(fsm, {a[k]})
<1> DEFINE B == {At("bad", k)}
           F == {At("good", k)} \cup Transition(k, k + 1)
           t == Pop(Push(s, B))
<1>1. B \subseteq Formulas
  BY SingleMeans DEF Kinds
<1>2. F \subseteq Formulas
  BY TransitionMeans, SingleMeans DEF Kinds
<1>3. ASSUME NEW a \in [Times -> State]
      PROVE  Conj(F, a) <=> a[k] \notin bad /\ a[k + 1] \in Image(fsm, {a[k]})
  <2>1. Conj(F, a) <=> Conj({At("good", k)}, a) /\ Conj(Transition(k, k + 1), a)
    BY UnionMeans
  <2>2. Conj({At("good", k)}, a) <=> a[k] \in State \ bad
    BY AtMeans, SingleMeans DEF Kinds
  <2> QED  BY <2>1, <2>2, TransitionMeans
<1> HIDE DEF B, F
<1>4. /\ SP!WellFormed(t)
      /\ t.existing = s.existing
      /\ t.variables = s.variables + 1
      /\ \A a : SP!Model(t, G, a) <=> SP!Model(s, G, a)
  BY <1>1, PushMeans
<1> HIDE DEF t
<1>5. /\ SP!WellFormed(Assert(t, F))
      /\ Assert(t, F).existing = t.existing
      /\ Assert(t, F).variables = t.variables
      /\ \A a : SP!Model(Assert(t, F), G, a) <=> SP!Model(t, G, a) /\ Conj(F, a)
  BY <1>2, <1>4, AssertMeans
<1>6. Extended(s) = Assert(t, F)
  BY DEF Extended, Asked, t, F, B
<1> QED  BY <1>3, <1>4, <1>5, <1>6

-----------------------------------------------------------------------------
(* The solvers from bound to bound.                                        *)
LEMMA UpToNext ==
    ASSUME NEW n \in Nat
    PROVE  0 .. (n + 1) - 1 = (0 .. n - 1) \cup {n}
OBVIOUS

LEMMA HeldNext ==
    ASSUME NEW m, NEW B, NEW alg, NEW n \in Nat, NEW a
    PROVE  Held(m, B, alg, n + 1, a) <=>
               Held(m, B, alg, n, a) /\ HeldStep(m, B, alg, n, a)
BY UpToNext DEF Held

LEMMA BaseExtended ==
    ASSUME NEW s, SP!WellFormed(s), k \in Times, k + 1 \in Times,
           NEW alg, alg # "zigzag", BaseHolds(s, alg, k)
    PROVE  BaseHolds(Extended(s), alg, k + 1)
<1>1. {} \subseteq s.existing /\ 0 \notin {} /\ k \in Nat
  BY TimesType
<1>2. ASSUME NEW a \in [Times -> State]
      PROVE  SP!Model(Extended(s), {}, a) <=>
                 a[0] \in InitStates(fsm) /\ Held(fsm, bad, alg, k + 1, a)
  <2>1. SP!Model(Extended(s), {}, a) <=>
            /\ SP!Model(s, {}, a)
            /\ a[k] \notin bad /\ a[k + 1] \in Image(fsm, {a[k]})
    BY <1>1, ExtendedMeans
  <2>2. SP!Model(s, {}, a) <=> a[0] \in InitStates(fsm) /\ Held(fsm, bad, alg, k, a)
    BY DEF BaseHolds
  <2>3. Held(fsm, bad, alg, k + 1, a) <=>
            Held(fsm, bad, alg, k, a) /\ HeldStep(fsm, bad, alg, k, a)
    BY <1>1, HeldNext
  <2> QED  BY <2>1, <2>2, <2>3 DEF HeldStep
<1> QED  BY <1>2 DEF BaseHolds

LEMMA ZigzagExtended ==
    ASSUME NEW s, SP!WellFormed(s), k \in Times, k + 1 \in Times,
           InitialGroup \in s.existing,
           BaseHolds(s, "zigzag", k), GapHolds(s, k)
    PROVE  LET t == Assert(Extended(s), Uniqueness(0, k))
           IN  /\ SP!WellFormed(t)
               /\ t.existing = s.existing
               /\ t.variables = s.variables + 1
               /\ BaseHolds(t, "zigzag", k + 1) /\ GapHolds(t, k + 1)
<1> DEFINE e == Extended(s)
           t == Assert(e, Uniqueness(0, k))
<1>1. k \in Nat /\ 0 \in Times /\ {} \subseteq s.existing /\ 0 \notin {}
  BY TimesType
<1>2. /\ SP!WellFormed(e)
      /\ e.existing = s.existing
      /\ e.variables = s.variables + 1
      /\ \A a \in [Times -> State] :
             SP!Model(e, {}, a) <=>
                 /\ SP!Model(s, {}, a)
                 /\ a[k] \notin bad /\ a[k + 1] \in Image(fsm, {a[k]})
  BY <1>1, ExtendedMeans
<1> HIDE DEF e
<1>3. Uniqueness(0, k) \subseteq Formulas
  BY <1>1, UniquenessMeans
<1>4. /\ SP!WellFormed(t)
      /\ t.existing = e.existing
      /\ t.variables = e.variables
      /\ \A a : SP!Model(t, {}, a) <=> SP!Model(e, {}, a) /\ Conj(Uniqueness(0, k), a)
  BY <1>1, <1>2, <1>3, AssertMeans
<1>5. ASSUME NEW G, G \subseteq s.existing, 0 \notin G, NEW a \in [Times -> State]
      PROVE  SP!Model(t, G, a) <=>
                 SP!Model(s, G, a) /\ HeldStep(fsm, bad, "zigzag", k, a)
  <2>1. SP!Model(t, G, a) <=> SP!Model(e, G, a) /\ Conj(Uniqueness(0, k), a)
    BY <1>2, <1>3, <1>5, AssertMeans
  <2>2. Conj(Uniqueness(0, k), a) <=> \A l \in 0 .. k - 1 : a[l] # a[k]
    BY <1>1, UniquenessMeans
  <2>3. SP!Model(e, G, a) <=>
            /\ SP!Model(s, G, a)
            /\ a[k] \notin bad /\ a[k + 1] \in Image(fsm, {a[k]})
    BY <1>5, ExtendedMeans DEF e
  <2> QED  BY <2>1, <2>2, <2>3 DEF HeldStep
<1> HIDE DEF t
<1>6. {} \subseteq s.existing /\ 0 \notin {}
      /\ {InitialGroup} \subseteq s.existing /\ 0 \notin {InitialGroup}
  BY DEF InitialGroup
<1>7. BaseHolds(t, "zigzag", k + 1)
  BY <1>1, <1>5, <1>6, HeldNext DEF BaseHolds
<1>8. GapHolds(t, k + 1)
  BY <1>1, <1>5, <1>6, HeldNext DEF GapHolds
<1> QED  BY <1>2, <1>4, <1>7, <1>8 DEF t, e

LEMMA BackExtended ==
    ASSUME NEW s, SP!WellFormed(s), k \in Times, k + 1 \in Times, BackHolds(s, k)
    PROVE  LET t == Assert(s, Transition(k + 1, k) \cup {At("good", k + 1)}
                                  \cup (IF 1 < k THEN Uniqueness(1, k + 1) ELSE {}))
           IN  /\ SP!WellFormed(t)
               /\ t.variables = s.variables
               /\ BackHolds(t, k + 1)
<1> DEFINE U == IF 1 < k THEN Uniqueness(1, k + 1) ELSE {}
           F == Transition(k + 1, k) \cup {At("good", k + 1)} \cup U
           t == Assert(s, F)
<1>1. k \in Nat /\ 1 \in Times
  BY TimesType
<1>2. U \subseteq Formulas /\ \A a : Conj(U, a) <=> (1 < k => \A l \in 1 .. k : a[l] # a[k + 1])
  <2>1. CASE 1 < k
    <3>1. (k + 1) - 1 = k
      BY <1>1
    <3> QED  BY <1>1, <2>1, <3>1, UniquenessMeans
  <2>2. CASE ~ (1 < k)
    BY <2>2 DEF Conj
  <2> QED  BY <2>1, <2>2
<1> HIDE DEF U
<1>3. F \subseteq Formulas
  BY <1>2, TransitionMeans, SingleMeans DEF Kinds
<1>4. ASSUME NEW a \in [Times -> State]
      PROVE  Conj(F, a) <=> BackStep(fsm, bad, k, a)
  <2>1. Conj(F, a) <=> /\ Conj(Transition(k + 1, k), a)
                       /\ Conj({At("good", k + 1)}, a)
                       /\ Conj(U, a)
    BY UnionMeans
  <2>2. Conj({At("good", k + 1)}, a) <=> a[k + 1] \in State \ bad
    BY AtMeans, SingleMeans DEF Kinds
  <2>3. Conj(Transition(k + 1, k), a) <=> a[k] \in Image(fsm, {a[k + 1]})
    BY TransitionMeans
  <2> QED  BY <1>2, <2>1, <2>2, <2>3 DEF BackStep
<1> HIDE DEF F
<1>5. /\ SP!WellFormed(t)
      /\ t.variables = s.variables
      /\ \A a : SP!Model(t, {}, a) <=> SP!Model(s, {}, a) /\ Conj(F, a)
  BY <1>3, AssertMeans
<1> HIDE DEF t
<1>6. BackHolds(t, k + 1)
  BY <1>1, <1>4, <1>5, UpToNext DEF BackHolds
<1> QED  BY <1>5, <1>6 DEF t, F, U

LEMMA UnrollingFormulas ==
    ASSUME k \in Times
    PROVE  ForwardUnrolling(k) \subseteq Formulas
<1>1. k \in Nat /\ 0 \in Times
  BY TimesType
<1>2. CASE k = 0
  BY <1>1, <1>2, SingleMeans DEF ForwardUnrolling, Kinds
<1>3. CASE k # 0
  <2>1. k - 1 \in Times
    BY <1>3, BmcAssumption DEF Times
  <2>2. Uniqueness(0, k) \subseteq Formulas
    BY <1>1, UniquenessMeans
  <2>3. {<<"trans", k - 1, k>>, At("invar", k), At("good", k - 1)} \subseteq Formulas
    BY <2>1, AtMeans, PairMeans DEF Kinds
  <2> QED  BY <1>3, <2>2, <2>3 DEF ForwardUnrolling
<1> QED  BY <1>2, <1>3

LEMMA UnrollingMeans ==
    ASSUME k \in Times, NEW a \in [Times -> State]
    PROVE  Conj(ForwardUnrolling(k), a) <=> ForthStep(fsm, bad, k, a)
<1>1. k \in Nat /\ 0 \in Times
  BY TimesType
<1>2. CASE k = 0
  <2>1. ForwardUnrolling(k) = {At("invar", 0)}
    BY <1>2 DEF ForwardUnrolling
  <2>2. Conj({At("invar", 0)}, a) <=> a[0] \in fsm.invar
    BY <1>1, AtMeans, SingleMeans DEF Kinds
  <2> QED  BY <1>2, <2>1, <2>2 DEF ForthStep
<1>3. CASE k # 0
  <2>1. k - 1 \in Times
    BY <1>3, BmcAssumption DEF Times
  <2> DEFINE F == {<<"trans", k - 1, k>>, At("invar", k), At("good", k - 1)}
             U == Uniqueness(0, k)
  <2>2. ForwardUnrolling(k) = F \cup U
    BY <1>3 DEF ForwardUnrolling
  <2>4. Conj(F, a) <=> /\ Condition(<<"trans", k - 1, k>>, a)
                       /\ Condition(At("invar", k), a) /\ Condition(At("good", k - 1), a)
    BY DEF Conj
  <2> HIDE DEF F
  <2>5. Conj(F, a) <=> /\ <<a[k - 1], a[k]>> \in fsm.trans
                       /\ a[k] \in fsm.invar /\ a[k - 1] \in State \ bad
    BY <2>1, <2>4, AtMeans, PairMeans
  <2>6. Conj(U, a) <=> \A l \in 0 .. k - 1 : a[l] # a[k]
    BY <1>1, UniquenessMeans
  <2> HIDE DEF U
  <2>7. Conj(ForwardUnrolling(k), a) <=> Conj(F, a) /\ Conj(U, a)
    BY <2>2, UnionMeans
  <2>8. a[k - 1] \in State
    BY <2>1
  <2> QED  BY <1>3, <2>5, <2>6, <2>7, <2>8 DEF ForthStep
<1> QED  BY <1>2, <1>3

LEMMA ForthExtended ==
    ASSUME SP!WellFormed(step), k \in Times, ForthHolds(step, k)
    PROVE  /\ SP!WellFormed(Forwarded) /\ SP!WellFormed(Pop(Forwarded))
           /\ Pop(Forwarded).variables = step.variables + 1
           /\ ForthHolds(Pop(Forwarded), k + 1)
           /\ \A a \in [Times -> State] :
                  SP!Model(Forwarded, {}, a) <=>
                      /\ \A i \in 0 .. k : ForthStep(fsm, bad, i, a)
                      /\ a[k] \in bad
<1> DEFINE t == Assert(step, ForwardUnrolling(k))
           F == {At("bad", k)}
<1>1. k \in Nat /\ 0 \notin {} /\ (k + 1) - 1 = k /\ {} \subseteq t.existing
  BY TimesType
<1>2. F \subseteq Formulas
  BY SingleMeans DEF Kinds
<1>3. /\ SP!WellFormed(t)
      /\ t.existing = step.existing
      /\ t.variables = step.variables
      /\ \A a : SP!Model(t, {}, a) <=>
                    SP!Model(step, {}, a) /\ Conj(ForwardUnrolling(k), a)
  BY <1>1, UnrollingFormulas, AssertMeans
<1> HIDE DEF t, F
<1>4. /\ SP!WellFormed(Push(t, F)) /\ SP!WellFormed(Pop(Push(t, F)))
      /\ Pop(Push(t, F)).existing = t.existing
      /\ Push(t, F).variables = t.variables + 1
      /\ Pop(Push(t, F)).variables = t.variables + 1
      /\ \A a : SP!Model(Push(t, F), {}, a) <=> SP!Model(t, {}, a) /\ Conj(F, a)
      /\ \A a : SP!Model(Pop(Push(t, F)), {}, a) <=> SP!Model(t, {}, a)
  BY <1>1, <1>2, <1>3, PushMeans
<1>5. Forwarded = Push(t, F)
  BY DEF Forwarded, Asked, t, F
<1>6. ASSUME NEW a \in [Times -> State]
      PROVE  SP!Model(t, {}, a) <=> \A i \in 0 .. k : ForthStep(fsm, bad, i, a)
  <2>1. SP!Model(t, {}, a) <=> SP!Model(step, {}, a) /\ Conj(ForwardUnrolling(k), a)
    BY <1>3
  <2>2. SP!Model(step, {}, a) <=> \A i \in 0 .. k - 1 : ForthStep(fsm, bad, i, a)
    BY DEF ForthHolds
  <2>3. Conj(ForwardUnrolling(k), a) <=> ForthStep(fsm, bad, k, a)
    BY UnrollingMeans
  <2>4. 0 .. k = (0 .. k - 1) \cup {k}
    BY <1>1
  <2> QED  BY <2>1, <2>2, <2>3, <2>4
<1>7. \A a : Conj(F, a) <=> a[k] \in bad
  BY AtMeans, SingleMeans DEF F, Kinds
<1>8. ForthHolds(Pop(Forwarded), k + 1)
  BY <1>1, <1>4, <1>5, <1>6 DEF ForthHolds
<1>9. \A a \in [Times -> State] :
          SP!Model(Forwarded, {}, a) <=>
              (\A i \in 0 .. k : ForthStep(fsm, bad, i, a)) /\ a[k] \in bad
  BY <1>4, <1>5, <1>6, <1>7
<1> QED  BY <1>3, <1>4, <1>5, <1>8, <1>9

(* The solvers a command starts with.                                      *)
LEMMA NewMeans ==
    /\ SP!WellFormed(Sat!NewSolver)
    /\ Sat!NewSolver.variables = 0
    /\ \A a \in [Times -> State] : \A G : SP!Model(Sat!NewSolver, G, a)
<1>1. SP!NewSolver.variables = 0
  BY DEF SP!NewSolver
<1> QED  BY <1>1, SameSolver, SP!NewWellFormed, SP!NewModels

LEMMA StartMeans ==
    ASSUME NEW kind \in Kinds
    PROVE  LET t == Assert(Sat!NewSolver, {At(kind, 0)})
           IN  /\ SP!WellFormed(t) /\ t.variables = 0
               /\ \A a \in [Times -> State] :
                      SP!Model(t, {}, a) <=> Condition(At(kind, 0), a)
<1> DEFINE F == {At(kind, 0)}
           t == Assert(Sat!NewSolver, F)
<1>1. 0 \in Times /\ 0 \notin {}
  BY TimesType
<1>2. F \subseteq Formulas /\ \A a : Conj(F, a) <=> Condition(At(kind, 0), a)
  BY <1>1, SingleMeans
<1> HIDE DEF F
<1>3. /\ SP!WellFormed(t)
      /\ t.variables = Sat!NewSolver.variables
      /\ \A a : SP!Model(t, {}, a) <=> SP!Model(Sat!NewSolver, {}, a) /\ Conj(F, a)
  BY <1>1, <1>2, NewMeans, AssertMeans
<1> HIDE DEF t
<1> QED  BY <1>2, <1>3, NewMeans DEF t, F

LEMMA ZigzagStart ==
    LET t == Push(Sat!NewSolver, {At("init", 0)})
    IN  /\ SP!WellFormed(t) /\ t.variables = 1 /\ InitialGroup \in t.existing
        /\ BaseHolds(t, "zigzag", 0) /\ GapHolds(t, 0)
<1> DEFINE F == {At("init", 0)}
           n == Sat!NewSolver
           r == SP!CreateGroup(n)
           t == SP!Add(r, F, 1)
<1>1. 0 \in Times /\ {} \subseteq n.existing /\ 0 .. 0 - 1 = {}
  BY TimesType
<1>2. F \subseteq Formulas /\ \A a : Conj(F, a) <=> a[0] \in InitStates(fsm)
  BY <1>1, AtMeans, SingleMeans DEF Kinds
<1> HIDE DEF F
<1>3. n.variables = 0 /\ SP!WellFormed(n) /\ \A a \in [Times -> State] : \A G : SP!Model(n, G, a)
  BY NewMeans
<1> HIDE DEF n
<1>4. /\ SP!WellFormed(Push(n, F))
      /\ Push(n, F).variables = n.variables + 1
      /\ \A a : SP!Model(Push(n, F), {}, a) <=> SP!Model(n, {}, a) /\ Conj(F, a)
  BY <1>1, <1>2, <1>3, PushMeans
<1>5. SP!NewGroup(n) = 1
  BY <1>3 DEF SP!NewGroup
<1>6. Push(n, F) = t
  BY <1>5, SameSolver DEF Push
<1>7. /\ SP!WellFormed(r)
      /\ 1 \in r.existing
      /\ \A a : SP!Model(r, {1}, a) <=> SP!Model(n, {1}, a)
  BY <1>3, <1>5, SP!CreateWellFormed, SP!CreateModels
<1> HIDE DEF r
<1>8. t.existing = r.existing
  BY <1>2, <1>7, SP!AddWellFormed
<1>9. \A a : SP!Model(t, {1}, a) <=> SP!Model(r, {1}, a)
  BY <1>2, <1>7, SP!AddLeftOut
<1> HIDE DEF t
<1>10. BaseHolds(t, "zigzag", 0)
  BY <1>1, <1>2, <1>3, <1>4, <1>6 DEF BaseHolds, Held
<1>11. GapHolds(t, 0)
  BY <1>1, <1>3, <1>7, <1>9 DEF GapHolds, Held, InitialGroup
<1> QED  BY <1>3, <1>4, <1>6, <1>7, <1>8, <1>10, <1>11 DEF n, F, InitialGroup

-----------------------------------------------------------------------------
(* Ways as assignments: to the times after its end a way stays there.      *)
Steps(m, n, a) == \A i \in 0 .. n - 1 : a[i + 1] \in Image(m, {a[i]})
Good(B, n, a) == \A i \in 0 .. n - 1 : a[i] \notin B
Different(n, a) == \A i, j \in 0 .. n : i # j => a[i] # a[j]

(* n steps cut out of a shortest way.                                      *)
LEMMA CutOut ==
    ASSUME NEW m \in Machine, NEW e \in Nat, NEW w, Shortest(m, e, w),
           NEW d \in Nat, NEW n \in Times, d + n <= e
    PROVE  \E a \in [Times -> State] :
               /\ \A i \in 0 .. n : a[i] = w[d + i]
               /\ Steps(m, n, a) /\ Different(n, a)
<1> DEFINE a == [i \in Times |-> IF i <= n THEN w[d + i] ELSE w[d]]
<1>1. /\ w \in [0 .. e -> State]
      /\ \A i \in 0 .. e : w[i] \in Layer(m, i)
      /\ \A i \in 0 .. e - 1 : w[i + 1] \in Image(m, {w[i]})
  BY DEF Shortest
<1>2. n \in Nat /\ d \in 0 .. e /\ (0 .. n) \subseteq Times /\ \A i \in Times : i \in Nat
  BY BmcAssumption DEF Times
<1>3. \A i \in 0 .. n : d + i \in 0 .. e
  BY <1>2
<1>4. a \in [Times -> State]
  <2>1. ASSUME NEW i \in Times
        PROVE  (IF i <= n THEN w[d + i] ELSE w[d]) \in State
    <3>1. CASE i <= n
      <4>1. i \in 0 .. n
        BY <1>2, <3>1
      <4> QED  BY <1>1, <1>3, <3>1, <4>1
    <3>2. CASE ~ (i <= n)
      BY <1>1, <1>2, <3>2
    <3> QED  BY <3>1, <3>2
  <2> QED  BY <2>1
<1>5. \A i \in 0 .. n : a[i] = w[d + i]
  BY <1>2
<1> HIDE DEF a
<1>6. ASSUME NEW i \in 0 .. n - 1
      PROVE  a[i + 1] \in Image(m, {a[i]})
  <2>1. /\ i \in 0 .. n /\ i + 1 \in 0 .. n /\ d + i \in 0 .. e - 1
        /\ d + (i + 1) = (d + i) + 1
    BY <1>2
  <2>2. w[(d + i) + 1] \in Image(m, {w[d + i]})
    BY <1>1, <2>1
  <2>3. a[i] = w[d + i] /\ a[i + 1] = w[(d + i) + 1]
    BY <1>5, <2>1
  <2> QED  BY <2>2, <2>3, Zenon
<1>7. ASSUME NEW i \in 0 .. n, NEW j \in 0 .. n, i # j
      PROVE  a[i] # a[j]
  <2>1. /\ d + i \in 0 .. e /\ d + j \in 0 .. e /\ d + i # d + j
        /\ d + i \in Nat /\ d + j \in Nat
    BY <1>3, <1>7
  <2>2. w[d + i] \in Layer(m, d + i) /\ w[d + j] \in Layer(m, d + j)
    BY <1>1, <2>1
  <2>3. w[d + i] # w[d + j]
    BY <2>1, <2>2, LayersDiffer
  <2> QED  BY <1>5, <2>3
<1> QED  BY <1>4, <1>5, <1>6, <1>7 DEF Steps, Different

(* If a bad state is reachable, but not in fewer than n steps, there is a  *)
(* bad state after n good ones, all of them different.                     *)
LEMMA WayToBad ==
    ASSUME NEW m \in Machine, NEW B, NEW n \in Times,
           Reachable(m) \cap B # {}, CleanBelow(m, B, n)
    PROVE  \E a \in [Times -> State] :
               /\ a[0] \in m.invar /\ a[n] \in B
               /\ Steps(m, n, a) /\ Good(B, n, a) /\ Different(n, a)
<1>1. PICK e \in Nat : CleanBelow(m, B, e) /\ \E w : Shortest(m, e, w) /\ w[e] \in B
  BY ShortestToBad
<1>2. PICK w : Shortest(m, e, w) /\ w[e] \in B
  BY <1>1
<1>3. n \in Nat
  BY TimesType
<1>4. \A i \in 0 .. e : w[i] \in Within(m)[i]
  BY <1>2 DEF Shortest, Layer
<1>5. n <= e
  BY <1>2, <1>3, <1>4 DEF CleanBelow
<1>6. e - n \in Nat /\ (e - n) + n <= e
  BY <1>3, <1>5
<1>7. PICK a \in [Times -> State] :
          /\ \A i \in 0 .. n : a[i] = w[(e - n) + i]
          /\ Steps(m, n, a) /\ Different(n, a)
  BY <1>2, <1>6, CutOut
<1>8. a[n] = w[e]
  <2>1. n \in 0 .. n /\ (e - n) + n = e
    BY <1>3
  <2> QED  BY <1>7, <2>1
<1>9. a[0] \in m.invar
  <2>1. 0 \in 0 .. n /\ (e - n) + 0 = e - n /\ e - n \in 0 .. e
    BY <1>3, <1>6
  <2>2. a[0] \in Within(m)[e - n]
    BY <1>4, <1>7, <2>1
  <2> QED  BY <1>6, <2>2, WithinType
<1>10. Good(B, n, a)
  <2>1. ASSUME NEW i \in 0 .. n - 1 PROVE a[i] \notin B
    <3>1. i \in 0 .. n /\ (e - n) + i \in 0 .. e - 1
      BY <1>3, <1>6
    <3>2. w[(e - n) + i] \notin B
      BY <1>1, <1>2, <3>1, ShortestIsClean
    <3> QED  BY <1>7, <3>1, <3>2
  <2> QED  BY <2>1 DEF Good
<1> QED  BY <1>2, <1>7, <1>8, <1>9, <1>10

(* If one is met in n steps and not before, from an initial state.         *)
LEMMA WayFromStart ==
    ASSUME NEW m \in Machine, NEW B, NEW n \in Times,
           Within(m)[n] \cap B # {}, CleanBelow(m, B, n)
    PROVE  \E a \in [Times -> State] :
               /\ a[0] \in InitStates(m) /\ a[n] \in B
               /\ Steps(m, n, a) /\ Good(B, n, a) /\ Different(n, a)
<1>1. n \in Nat
  BY TimesType
<1>2. PICK w : Shortest(m, n, w) /\ w[n] \in B
  BY <1>1, FirstBadEndsWay
<1>3. PICK a \in [Times -> State] :
          /\ \A i \in 0 .. n : a[i] = w[0 + i]
          /\ Steps(m, n, a) /\ Different(n, a)
  <2>1. PICK e \in Nat : e = n
    BY <1>1
  <2>2. Shortest(m, e, w) /\ 0 \in Nat /\ 0 + n <= e
    BY <1>1, <1>2, <2>1
  <2> HIDE <2>1
  <2> QED  BY <2>2, CutOut
<1>4. \A i \in 0 .. n : a[i] = w[i]
  BY <1>3
<1>5. a[0] \in InitStates(m)
  BY <1>1, <1>2, <1>4, LayerStart DEF Shortest
<1>6. Good(B, n, a)
  <2>1. \A i \in 0 .. n - 1 : w[i] \notin B
    BY <1>1, <1>2, ShortestIsClean
  <2> QED  BY <1>1, <1>4, <2>1 DEF Good
<1> QED  BY <1>1, <1>2, <1>3, <1>4, <1>5, <1>6

(* If one is reachable, but not within n steps, a run of n steps meets no  *)
(* initial state but its own.                                              *)
LEMMA WayNotBack ==
    ASSUME NEW m \in Machine, NEW B, NEW n \in Times,
           Reachable(m) \cap B # {}, CleanBelow(m, B, n + 1)
    PROVE  \E a \in [Times -> State] :
               /\ a[0] \in InitStates(m)
               /\ \A i \in 1 .. n : a[i] \notin InitStates(m)
               /\ Steps(m, n, a) /\ Different(n, a)
<1>1. n \in Nat
  BY TimesType
<1>2. PICK e \in Nat : CleanBelow(m, B, e) /\ \E w : Shortest(m, e, w) /\ w[e] \in B
  BY ShortestToBad
<1>3. PICK w : Shortest(m, e, w) /\ w[e] \in B
  BY <1>2
<1>4. \A i \in 0 .. e : w[i] \in Layer(m, i)
  BY <1>3 DEF Shortest
<1>5. n <= e
  <2>1. w[e] \in Within(m)[e]
    BY <1>4 DEF Layer
  <2> QED  BY <1>1, <1>3, <2>1 DEF CleanBelow
<1>6. PICK a \in [Times -> State] :
          /\ \A i \in 0 .. n : a[i] = w[0 + i]
          /\ Steps(m, n, a) /\ Different(n, a)
  <2>1. 0 \in Nat /\ 0 + n <= e
    BY <1>1, <1>5
  <2> QED  BY <1>3, <2>1, CutOut
<1>7. \A i \in 0 .. n : a[i] \in Layer(m, i)
  BY <1>1, <1>4, <1>5, <1>6
<1>8. ASSUME NEW i \in 1 .. n PROVE a[i] \notin InitStates(m)
  <2>1. i \in 0 .. n /\ 0 \in 0 .. i - 1
    BY <1>1
  <2>2. a[i] \notin Within(m)[0]
    BY <1>7, <2>1 DEF Layer
  <2> QED  BY <2>2, WithinStep
<1>9. a[0] \in InitStates(m)
  BY <1>1, <1>7, LayerStart
<1> QED  BY <1>6, <1>8, <1>9

-----------------------------------------------------------------------------
(* The problems that are built from nothing.                               *)
LEMMA ProblemMeans ==
    ASSUME NEW F, F \subseteq Formulas
    PROVE  \A a : a \in Sat!SolveAll(Problem(F)) <=>
                      a \in [Times -> State] /\ Conj(F, a)
<1> DEFINE t == Assert(Sat!NewSolver, F)
<1>1. 0 \notin {}
  OBVIOUS
<1>2. /\ SP!WellFormed(t)
      /\ t.existing = Sat!NewSolver.existing
      /\ t.variables = Sat!NewSolver.variables
      /\ \A a : SP!Model(t, {}, a) <=> SP!Model(Sat!NewSolver, {}, a) /\ Conj(F, a)
  BY <1>1, NewMeans, AssertMeans
<1>3. Problem(F) = t
  BY DEF Problem
<1> HIDE DEF t
<1>4. \A a : a \in Sat!SolveAll(t) <=> SP!Model(t, {}, a)
  BY <1>2, SolveAllMeans
<1>5. \A a : SP!Model(Sat!NewSolver, {}, a) <=> a \in [Times -> State]
  BY NewMeans DEF SP!Model
<1> QED  BY <1>2, <1>3, <1>4, <1>5

LEMMA UnrollingSteps ==
    ASSUME NEW n \in Times
    PROVE  /\ Unrolling(n) \subseteq Formulas
           /\ \A a : Conj(Unrolling(n), a) <=> Steps(fsm, n, a)
<1>1. \A i \in 0 .. n - 1 : i \in Times /\ i + 1 \in Times
  BY BmcAssumption DEF Times
<1>2. Unrolling(n) \subseteq Formulas
  BY <1>1, TransitionMeans DEF Unrolling
<1>3. ASSUME NEW a
      PROVE  Conj(Unrolling(n), a) <=> Steps(fsm, n, a)
  <2>1. Conj(Unrolling(n), a) <=> \A i \in 0 .. n - 1 : Conj(Transition(i, i + 1), a)
    BY DEF Conj, Unrolling
  <2>2. \A i \in 0 .. n - 1 :
            Conj(Transition(i, i + 1), a) <=> a[i + 1] \in Image(fsm, {a[i]})
    BY <1>1, TransitionMeans
  <2> QED  BY <2>1, <2>2 DEF Steps
<1> QED  BY <1>2, <1>3

LEMMA GoodUpToMeans ==
    ASSUME NEW n \in Times
    PROVE  /\ GoodUpTo(n) \subseteq Formulas
           /\ \A a \in [Times -> State] : Conj(GoodUpTo(n), a) <=> Good(bad, n, a)
<1>1. \A i \in 0 .. n - 1 : i \in Times
  BY BmcAssumption DEF Times
<1>2. GoodUpTo(n) \subseteq Formulas
  BY <1>1, AtMeans DEF GoodUpTo, Kinds
<1>3. ASSUME NEW a \in [Times -> State]
      PROVE  Conj(GoodUpTo(n), a) <=> Good(bad, n, a)
  <2>1. Conj(GoodUpTo(n), a) <=> \A i \in 0 .. n - 1 : Condition(At("good", i), a)
    BY DEF Conj, GoodUpTo
  <2>2. \A i \in 0 .. n - 1 : Condition(At("good", i), a) <=> a[i] \in State \ bad
    BY <1>1, AtMeans
  <2>3. \A i \in 0 .. n - 1 : a[i] \in State
    BY <1>1
  <2> QED  BY <2>1, <2>2, <2>3 DEF Good
<1> QED  BY <1>2, <1>3

(* The states before time n all differ.                                    *)
DifferentBelow(n, a) == \A i \in 0 .. n - 1 : \A l \in 0 .. i - 1 : a[l] # a[i]

LEMMA DistinctMeans ==
    ASSUME k \in Times
    PROVE  /\ Distinct \subseteq Formulas
           /\ \A a : Conj(Distinct, a) <=> DifferentBelow(k, a)
<1>1. 0 \in Times /\ \A i \in 0 .. k - 1 : i \in Times
  BY BmcAssumption DEF Times
<1>2. Distinct \subseteq Formulas
  BY <1>1, UniquenessMeans DEF Distinct
<1>3. ASSUME NEW a
      PROVE  Conj(Distinct, a) <=> DifferentBelow(k, a)
  <2>1. Conj(Distinct, a) <=> \A i \in 0 .. k - 1 : Conj(Uniqueness(0, i), a)
    BY DEF Conj, Distinct
  <2>2. \A i \in 0 .. k - 1 :
            Conj(Uniqueness(0, i), a) <=> \A l \in 0 .. i - 1 : a[l] # a[i]
    BY <1>1, UniquenessMeans
  <2> QED  BY <2>1, <2>2 DEF DifferentBelow
<1> QED  BY <1>2, <1>3

LEMMA EenBaseMeans ==
    ASSUME k \in Times
    PROVE  \A a : a \in Sat!SolveAll(EenBase) <=>
               /\ a \in [Times -> State]
               /\ a[0] \in InitStates(fsm) /\ a[k] \in bad
               /\ Steps(fsm, k, a) /\ Good(bad, k, a)
<1> DEFINE U == Unrolling(k)
           I == {At("init", 0)}
           S == GoodUpTo(k)
           Q == {At("bad", k)}
           F == U \cup I \cup S \cup Q
<1>1. U \subseteq Formulas /\ \A a : Conj(U, a) <=> Steps(fsm, k, a)
  BY UnrollingSteps
<1>2. I \subseteq Formulas /\ \A a : Conj(I, a) <=> a[0] \in InitStates(fsm)
  BY TimesType, AtMeans, SingleMeans DEF Kinds
<1>3. S \subseteq Formulas /\ \A a \in [Times -> State] : Conj(S, a) <=> Good(bad, k, a)
  BY GoodUpToMeans
<1>4. Q \subseteq Formulas /\ \A a : Conj(Q, a) <=> a[k] \in bad
  BY AtMeans, SingleMeans DEF Kinds
<1> HIDE DEF U, I, S, Q
<1>5. F \subseteq Formulas
  BY <1>1, <1>2, <1>3, <1>4
<1>6. \A a : Conj(F, a) <=> Conj(U, a) /\ Conj(I, a) /\ Conj(S, a) /\ Conj(Q, a)
  BY UnionMeans
<1>7. EenBase = Problem(F)
  BY DEF EenBase, U, I, S, Q
<1> HIDE DEF F
<1>8. \A a : a \in Sat!SolveAll(Problem(F)) <=> a \in [Times -> State] /\ Conj(F, a)
  BY <1>5, ProblemMeans
<1> QED  BY <1>1, <1>2, <1>3, <1>4, <1>6, <1>7, <1>8

LEMMA EenStepMeans ==
    ASSUME k \in Times
    PROVE  \A a : a \in Sat!SolveAll(EenStep) <=>
               /\ a \in [Times -> State]
               /\ a[k] \in bad
               /\ Steps(fsm, k, a) /\ Good(bad, k, a) /\ DifferentBelow(k, a)
<1> DEFINE U == Unrolling(k)
           S == GoodUpTo(k)
           Q == {At("bad", k)}
           F == U \cup S \cup Q \cup Distinct
<1>1. U \subseteq Formulas /\ \A a : Conj(U, a) <=> Steps(fsm, k, a)
  BY UnrollingSteps
<1>2. Distinct \subseteq Formulas /\ \A a : Conj(Distinct, a) <=> DifferentBelow(k, a)
  BY DistinctMeans
<1>3. S \subseteq Formulas /\ \A a \in [Times -> State] : Conj(S, a) <=> Good(bad, k, a)
  BY GoodUpToMeans
<1>4. Q \subseteq Formulas /\ \A a : Conj(Q, a) <=> a[k] \in bad
  BY AtMeans, SingleMeans DEF Kinds
<1> HIDE DEF U, S, Q
<1>5. F \subseteq Formulas
  BY <1>1, <1>2, <1>3, <1>4
<1>6. \A a : Conj(F, a) <=> Conj(U, a) /\ Conj(S, a) /\ Conj(Q, a) /\ Conj(Distinct, a)
  BY UnionMeans
<1>7. EenStep = Problem(F)
  BY DEF EenStep, U, S, Q
<1> HIDE DEF F
<1>8. \A a : a \in Sat!SolveAll(Problem(F)) <=> a \in [Times -> State] /\ Conj(F, a)
  BY <1>5, ProblemMeans
<1> QED  BY <1>1, <1>2, <1>3, <1>4, <1>6, <1>7, <1>8

LEMMA EenExtraMeans ==
    ASSUME k \in Times
    PROVE  \A a : a \in Sat!SolveAll(EenExtraStep) <=>
               /\ a \in [Times -> State]
               /\ a[0] \in InitStates(fsm)
               /\ \A i \in 1 .. k : a[i] \in State \ InitStates(fsm)
               /\ Steps(fsm, k, a) /\ DifferentBelow(k, a)
<1> DEFINE U == Unrolling(k)
           I == {At("init", 0)}
           N == {At("uninit", i) : i \in 1 .. k}
           F == U \cup I \cup N \cup Distinct
<1>1. U \subseteq Formulas /\ \A a : Conj(U, a) <=> Steps(fsm, k, a)
  BY UnrollingSteps
<1>2. Distinct \subseteq Formulas /\ \A a : Conj(Distinct, a) <=> DifferentBelow(k, a)
  BY DistinctMeans
<1>3. I \subseteq Formulas /\ \A a : Conj(I, a) <=> a[0] \in InitStates(fsm)
  BY TimesType, AtMeans, SingleMeans DEF Kinds
<1>4. N \subseteq Formulas
      /\ \A a : Conj(N, a) <=> \A i \in 1 .. k : a[i] \in State \ InitStates(fsm)
  <2>1. \A i \in 1 .. k : i \in Times
    BY BmcAssumption DEF Times
  <2>2. N \subseteq Formulas
    BY <2>1, AtMeans DEF Kinds
  <2>3. \A a : Conj(N, a) <=> \A i \in 1 .. k : Condition(At("uninit", i), a)
    BY DEF Conj
  <2>4. \A a : \A i \in 1 .. k :
            Condition(At("uninit", i), a) <=> a[i] \in State \ InitStates(fsm)
    BY <2>1, AtMeans
  <2> QED  BY <2>2, <2>3, <2>4
<1> HIDE DEF U, I, N
<1>5. F \subseteq Formulas
  BY <1>1, <1>2, <1>3, <1>4
<1>6. \A a : Conj(F, a) <=> Conj(U, a) /\ Conj(I, a) /\ Conj(N, a) /\ Conj(Distinct, a)
  BY UnionMeans
<1>7. EenExtraStep = Problem(F)
  BY DEF EenExtraStep, U, I, N
<1> HIDE DEF F
<1>8. \A a : a \in Sat!SolveAll(Problem(F)) <=> a \in [Times -> State] /\ Conj(F, a)
  BY <1>5, ProblemMeans
<1> QED  BY <1>1, <1>2, <1>3, <1>4, <1>6, <1>7, <1>8

-----------------------------------------------------------------------------
(* Types, the flow of a command, and solvers that are well-formed and have *)
(* a group variable for each bound: what TypeOK rests on.                  *)
Types ==
    /\ fsm \in Machine /\ bad \in SUBSET State
    /\ status \in {"unchecked", "true", "false"}
    /\ pc \in {"prompt", "induction", "base", "backward", "forward", "een",
               "classic", "return"}
    /\ algorithm \in Algorithms \cup {"none"}
    /\ maxK \in 0 .. LastTime /\ k \in 0 .. maxK + 1
    /\ path \in Seq(State)
    /\ verdict \in {"none", "true", "false", "unknown"}

Working == pc \notin {"prompt", "return"}

Flow ==
    /\ pc = "prompt" => maxK = 0 /\ k = 0 /\ algorithm = "none" /\ verdict = "none"
    /\ pc = "induction" => algorithm = "zigzag"
    /\ pc = "base" => Incremental \/ NonIncremental
    /\ pc = "backward" => algorithm = "backward"
    /\ pc = "forward" => algorithm = "forward"
    /\ pc = "een" => NonIncremental
    /\ pc = "classic" => algorithm = "classic"
    /\ Working => k <= maxK /\ status = "unchecked" /\ verdict = "none"
    /\ algorithm = "none" => ~ Working /\ verdict = "none"
    /\ verdict \in {"true", "false"} => status = verdict

SolversOK ==
    /\ SP!WellFormed(base) /\ base.variables <= k + 2
    /\ pc \in {"induction", "base"} => base.variables <= k + 1
    /\ SP!WellFormed(step) /\ step.variables <= k
    /\ algorithm = "zigzag" => InitialGroup \in base.existing

TypeInv == Types /\ Flow /\ SolversOK

LEMMA WellFormedPrime ==
    ASSUME NEW s
    PROVE  SP!WellFormed(s)' <=> SP!WellFormed(s)
BY DEF SP!WellFormed, SP!Solvers, SP!Permanent, Formulas, Kinds, Times

LEMMA SolversFrame ==
    ASSUME SolversOK, base' = base, step' = step, k \in Nat, k' \in Nat, k <= k',
           pc' \in {"induction", "base"} => pc \in {"induction", "base"} \/ k < k',
           algorithm' = algorithm
    PROVE  SolversOK'
<1>1. SP!WellFormed(base)' /\ SP!WellFormed(step)'
  BY WellFormedPrime DEF SolversOK
<1>2. base.variables \in Nat /\ step.variables \in Nat
  BY SP!VariablesOf DEF SolversOK
<1> QED  BY <1>1, <1>2 DEF SolversOK

LEMMA WorkingTimes ==
    ASSUME Types, Flow, Working
    PROVE  /\ k \in Times /\ k + 1 \in Times /\ k \in Nat
           /\ k <= maxK /\ maxK <= LastTime
BY BmcAssumption DEF Types, Flow, Times

LEMMA DecodedType ==
    ASSUME NEW a \in [Times -> State], k \in Times
    PROVE  /\ Decoded(a) \in Seq(State) /\ Len(Decoded(a)) = k + 1
           /\ \A i \in 1 .. k + 1 : Decoded(a)[i] = a[i - 1]
<1>1. k + 1 \in Nat /\ \A i \in 1 .. k + 1 : i - 1 \in Times
  BY BmcAssumption DEF Times
<1>2. \A i \in 1 .. k + 1 : a[i - 1] \in State
  BY <1>1
<1>3. Decoded(a) \in [1 .. k + 1 -> State]
  BY <1>2 DEF Decoded
<1>4. Decoded(a) \in Seq(State) /\ Len(Decoded(a)) = k + 1
  BY <1>1, <1>3
<1> QED  BY <1>4 DEF Decoded

LEMMA DecideTypes ==
    ASSUME TypeInv, Working, NEW answer \in {"true", "false"}, Decide(answer),
           path' \in Seq(State)
    PROVE  TypeInv'
<1>1. /\ status' = answer /\ verdict' = answer /\ pc' = "return"
      /\ fsm' = fsm /\ bad' = bad /\ algorithm' = algorithm
      /\ maxK' = maxK /\ k' = k /\ base' = base /\ step' = step
  BY DEF Decide, property, solvers
<1>2. Types'
  BY <1>1 DEF TypeInv, Types
<1>3. Flow'
  BY <1>1 DEF TypeInv, Flow, Working
<1>4. SolversOK'
  BY <1>1, SolversFrame DEF TypeInv, Types
<1> QED  BY <1>2, <1>3, <1>4 DEF TypeInv

LEMMA NextBoundTypes ==
    ASSUME TypeInv, Working, NEW first, NextBound(first),
           \/ first = "induction" /\ algorithm = "zigzag"
           \/ first = "base" /\ (Incremental \/ NonIncremental)
    PROVE  /\ Types' /\ Flow'
           /\ k' = k + 1 /\ algorithm' = algorithm /\ fsm' = fsm /\ bad' = bad
<1>1. /\ k' = k + 1
      /\ status' = status /\ fsm' = fsm /\ bad' = bad /\ algorithm' = algorithm
      /\ maxK' = maxK /\ path' = path
  BY DEF NextBound, property
<1>2. k \in Nat /\ k <= maxK /\ maxK \in Nat
  BY WorkingTimes DEF TypeInv, Types
<1>3. \/ k < maxK /\ pc' = first /\ verdict' = verdict
      \/ pc' = "return" /\ verdict' = "unknown"
  BY DEF NextBound
<1>4. Types'
  BY <1>1, <1>2, <1>3 DEF TypeInv, Types
<1>5. Flow'
  BY <1>1, <1>2, <1>3 DEF TypeInv, Flow, Working, Incremental, NonIncremental
<1> QED  BY <1>1, <1>4, <1>5

-----------------------------------------------------------------------------
(* Every action keeps the types.                                           *)
LEMMA InitTypes == Init => TypeInv
<1> SUFFICES ASSUME Init PROVE TypeInv
  OBVIOUS
<1>1. Types
  BY BmcAssumption DEF Init, Types
<1>2. Flow
  BY DEF Init, Flow, Working
<1>3. SolversOK
  BY NewMeans DEF Init, SolversOK
<1> QED  BY <1>1, <1>2, <1>3 DEF TypeInv

LEMMA CheckTypes ==
    ASSUME TypeInv, NEW alg \in Algorithm, NEW n \in Length, Check(alg, n)
    PROVE  TypeInv'
<1>1. /\ pc = "prompt" /\ status = "unchecked"
      /\ pc' = FirstCall(alg) /\ algorithm' = alg /\ maxK' = n /\ k' = 0
      /\ fsm' = fsm /\ bad' = bad /\ status' = status /\ path' = path
      /\ verdict' = verdict
  BY DEF Check, property
<1>2. alg \in Algorithms /\ n \in 0 .. LastTime
  BY BmcAssumption
<1>3. /\ alg = "zigzag" => pc' = "induction"
      /\ alg = "classic" => pc' = "classic"
      /\ alg \notin {"zigzag", "classic"} => pc' = "base"
  BY <1>1 DEF FirstCall
<1>4. alg \notin {"zigzag", "classic"} =>
          alg \in {"backward", "forward", "falsification", "een", "een-extra"}
  BY <1>2 DEF Algorithms
<1>5. Types'
  <2>1. pc' \in {"induction", "classic", "base"}
    BY <1>3
  <2> QED  BY <1>1, <1>2, <2>1 DEF TypeInv, Types
<1>6. Flow'
  <2>1. verdict = "none"
    BY <1>1 DEF TypeInv, Flow
  <2>2. alg # "none"
    BY <1>2 DEF Algorithms
  <2> QED  BY <1>1, <1>2, <1>3, <1>4, <2>1, <2>2
           DEF Flow, Working, Incremental, NonIncremental
<1>7. SolversOK'
  <2>1. /\ base' = IF alg = "zigzag" THEN Push(Sat!NewSolver, {At("init", 0)})
                   ELSE Assert(Sat!NewSolver, {At("init", 0)})
        /\ step' = IF alg = "backward" THEN Assert(Sat!NewSolver, {At("bad", 0)})
                   ELSE Sat!NewSolver
    BY DEF Check
  <2>2. SP!WellFormed(base') /\ base'.variables <= 1
        /\ (alg = "zigzag" => InitialGroup \in base'.existing)
    <3>1. CASE alg = "zigzag"
      BY <2>1, <3>1, ZigzagStart
    <3>2. CASE alg # "zigzag"
      BY <2>1, <3>2, StartMeans DEF Kinds
    <3> QED  BY <3>1, <3>2
  <2>3. SP!WellFormed(step') /\ step'.variables <= 0
    <3>1. CASE alg = "backward"
      BY <2>1, <3>1, StartMeans DEF Kinds
    <3>2. CASE alg # "backward"
      BY <2>1, <3>2, NewMeans
    <3> QED  BY <3>1, <3>2
  <2>4. SP!WellFormed(base)' /\ SP!WellFormed(step)'
    BY <2>2, <2>3, WellFormedPrime
  <2>5. base'.variables \in Nat /\ step'.variables \in Nat
    BY <2>2, <2>3, SP!VariablesOf
  <2> QED  BY <1>1, <2>2, <2>3, <2>4, <2>5 DEF SolversOK
<1> QED  BY <1>5, <1>6, <1>7 DEF TypeInv

(* The actions that leave the solvers and the bound alone.                 *)
LEMMA StillTypes ==
    ASSUME TypeInv,
           ZigzagOpen \/ EenBaseOpen \/ ClassicOpen \/ CheckDecided
    PROVE  TypeInv'
<1>1. /\ fsm' = fsm /\ bad' = bad /\ status' = status /\ algorithm' = algorithm
      /\ maxK' = maxK /\ k' = k /\ base' = base /\ step' = step /\ path' = path
  BY DEF ZigzagOpen, EenBaseOpen, ClassicOpen, CheckDecided, property, solvers
<1>2. \/ /\ pc = "induction" /\ pc' = "base" /\ verdict' = verdict
      \/ /\ pc = "base" /\ NonIncremental /\ pc' = "een" /\ verdict' = verdict
      \/ /\ pc = "classic" /\ pc' = "return" /\ verdict' = "unknown"
      \/ /\ pc = "prompt" /\ pc' = "return" /\ verdict' = verdict
  BY DEF ZigzagOpen, EenBaseOpen, ClassicOpen, CheckDecided
<1>3. Types'
  BY <1>1, <1>2 DEF TypeInv, Types
<1>4. Flow'
  BY <1>1, <1>2 DEF TypeInv, Flow, Working, Incremental, NonIncremental
<1>5. SolversOK'
  BY <1>1, <1>2, SolversFrame DEF TypeInv, Types
<1> QED  BY <1>3, <1>4, <1>5 DEF TypeInv

LEMMA ProvedTypes ==
    ASSUME TypeInv,
           \/ ZigzagProved \/ BackwardProved \/ ForwardProved
           \/ EenProved \/ ClassicProved
    PROVE  TypeInv'
<1>1. path' = path /\ Decide("true") /\ Working
  BY DEF ZigzagProved, BackwardProved, ForwardProved, EenProved, ClassicProved,
         Proved, Working
<1>2. path' \in Seq(State)
  BY <1>1 DEF TypeInv, Types
<1> QED  BY <1>1, <1>2, DecideTypes

(* What a counter-example is decoded from.                                 *)
LEMMA BaseModelsAre ==
    ASSUME TypeInv, Working
    PROVE  \A a : a \in BaseModels <=> SP!Model(base, {}, a) /\ a[k] \in bad
<1>1. SP!WellFormed(base) /\ {} \subseteq base.existing /\ k \in Times
  BY WorkingTimes DEF TypeInv, SolversOK
<1>2. /\ SP!WellFormed(Asked(base))
      /\ \A a : SP!Model(Asked(base), {}, a) <=> SP!Model(base, {}, a) /\ a[k] \in bad
  BY <1>1, AskedMeans
<1>3. \A a : a \in Sat!SolveAll(Asked(base)) <=> SP!Model(Asked(base), {}, a)
  BY <1>2, SolveAllMeans
<1> QED  BY <1>2, <1>3 DEF BaseModels

LEMMA FalseTypes ==
    ASSUME TypeInv, BaseFalse \/ EenFalse
    PROVE  TypeInv'
<1>1. Working /\ Decide("false")
  BY DEF BaseFalse, EenFalse, FoundAmong, Working
<1>2. k \in Times
  BY <1>1, WorkingTimes DEF TypeInv
<1>3. \A a \in BaseModels : a \in [Times -> State]
  BY <1>1, BaseModelsAre DEF SP!Model
<1>4. \A a \in Sat!SolveAll(EenBase) : a \in [Times -> State]
  BY <1>2, EenBaseMeans
<1>5. PICK a \in [Times -> State] : path' = Decoded(a)
  BY <1>3, <1>4 DEF BaseFalse, EenFalse, FoundAmong
<1>6. path' \in Seq(State)
  BY <1>2, <1>5, DecodedType
<1> QED  BY <1>1, <1>6, DecideTypes

(* The base holds one more bound.                                          *)
LEMMA BaseBoundTypes ==
    ASSUME TypeInv, BaseZigzag \/ BaseFalsification \/ BaseDual
    PROVE  TypeInv'
<1>1. Working /\ pc = "base"
  BY DEF BaseZigzag, BaseFalsification, BaseDual, Working
<1>2. /\ k \in Times /\ k + 1 \in Times /\ k \in Nat
      /\ SP!WellFormed(base) /\ base.variables <= k + 1
      /\ SP!WellFormed(step) /\ step.variables <= k
      /\ base.variables \in Nat /\ step.variables \in Nat
  BY <1>1, WorkingTimes, SP!VariablesOf DEF TypeInv, SolversOK
<1>3. /\ SP!WellFormed(Extended(base))
      /\ Extended(base).existing = base.existing
      /\ Extended(base).variables = base.variables + 1
  <2>1. {} \subseteq base.existing /\ 0 \notin {}
    OBVIOUS
  <2>2. /\ SP!WellFormed(Extended(base))
        /\ Extended(base).existing = base.existing
        /\ Extended(base).variables = base.variables + 1
        /\ \A a \in [Times -> State] :
               SP!Model(Extended(base), {}, a) <=>
                   /\ SP!Model(base, {}, a)
                   /\ a[k] \notin bad /\ a[k + 1] \in Image(fsm, {a[k]})
    BY <1>2, <2>1, ExtendedMeans
  <2> QED  BY <2>2
<1>4. CASE BaseZigzag
  <2> DEFINE t == Assert(Extended(base), Uniqueness(0, k))
  <2>1. base' = t /\ step' = step /\ NextBound("induction") /\ algorithm = "zigzag"
    BY <1>4 DEF BaseZigzag
  <2>2. /\ SP!WellFormed(t)
        /\ t.existing = base.existing /\ t.variables = base.variables + 1
    <3>1. Uniqueness(0, k) \subseteq Formulas /\ 0 \notin {}
      BY <1>2, TimesType, UniquenessMeans
    <3>2. /\ SP!WellFormed(t)
          /\ t.existing = Extended(base).existing
          /\ t.variables = Extended(base).variables
          /\ \A a : SP!Model(t, {}, a) <=>
                        SP!Model(Extended(base), {}, a) /\ Conj(Uniqueness(0, k), a)
      BY <1>3, <3>1, AssertMeans
    <3> QED  BY <1>3, <3>2
  <2> HIDE DEF t
  <2>3. Types' /\ Flow' /\ k' = k + 1 /\ algorithm' = algorithm
    BY <1>1, <2>1, NextBoundTypes
  <2>4. SolversOK'
    BY <1>2, <2>1, <2>2, <2>3, WellFormedPrime DEF TypeInv, SolversOK
  <2> QED  BY <2>3, <2>4 DEF TypeInv
<1>5. CASE BaseFalsification
  <2>1. /\ base' = Extended(base) /\ step' = step /\ NextBound("base")
        /\ algorithm = "falsification"
    BY <1>5 DEF BaseFalsification
  <2>2. Types' /\ Flow' /\ k' = k + 1 /\ algorithm' = algorithm
    BY <1>1, <2>1, NextBoundTypes DEF Incremental
  <2>3. SolversOK'
    BY <1>2, <1>3, <2>1, <2>2, WellFormedPrime DEF SolversOK
  <2> QED  BY <2>2, <2>3 DEF TypeInv
<1>6. CASE BaseDual
  <2>1. /\ base' = Extended(base) /\ step' = step /\ pc' = algorithm
        /\ algorithm \in {"backward", "forward"}
        /\ fsm' = fsm /\ bad' = bad /\ status' = status /\ algorithm' = algorithm
        /\ maxK' = maxK /\ k' = k /\ path' = path /\ verdict' = verdict
    BY <1>6 DEF BaseDual, property
  <2>2. Types'
    BY <2>1 DEF TypeInv, Types
  <2>3. Flow'
    BY <1>1, <2>1 DEF TypeInv, Flow, Working
  <2>4. SolversOK'
    BY <1>2, <1>3, <2>1, WellFormedPrime DEF SolversOK
  <2> QED  BY <2>2, <2>3, <2>4 DEF TypeInv
<1> QED  BY <1>4, <1>5, <1>6

(* The closures and Een and Sorensson's algorithm go to the next bound.    *)
LEMMA StepBoundTypes ==
    ASSUME TypeInv, BackwardOpen \/ ForwardOpen \/ EenOpen
    PROVE  TypeInv'
<1>1. /\ Working /\ NextBound("base") /\ base' = base
      /\ Incremental \/ NonIncremental
      /\ algorithm # "zigzag"
  BY DEF BackwardOpen, ForwardOpen, EenOpen, Working, solvers, TypeInv, Flow,
         Incremental, NonIncremental
<1>2. Types' /\ Flow' /\ k' = k + 1 /\ algorithm' = algorithm
  BY <1>1, NextBoundTypes
<1>3. /\ k \in Times /\ k + 1 \in Times /\ k \in Nat
      /\ SP!WellFormed(base) /\ base.variables <= k + 2
      /\ SP!WellFormed(step) /\ step.variables <= k
      /\ base.variables \in Nat /\ step.variables \in Nat
  BY <1>1, WorkingTimes, SP!VariablesOf DEF TypeInv, SolversOK
<1>4. SP!WellFormed(step') /\ step'.variables <= k + 1
  <2>1. CASE BackwardOpen
    <3> DEFINE F == Transition(k + 1, k) \cup {At("good", k + 1)}
                        \cup (IF 1 < k THEN Uniqueness(1, k + 1) ELSE {})
    <3>1. step' = Assert(step, F)
      BY <2>1 DEF BackwardOpen
    <3>2. F \subseteq Formulas
      BY <1>3, TimesType, TransitionMeans, SingleMeans, UniquenessMeans DEF Kinds
    <3> HIDE DEF F
    <3>3. 0 \notin {}
      OBVIOUS
    <3>4. /\ SP!WellFormed(Assert(step, F))
          /\ Assert(step, F).existing = step.existing
          /\ Assert(step, F).variables = step.variables
          /\ \A a : SP!Model(Assert(step, F), {}, a) <=> SP!Model(step, {}, a) /\ Conj(F, a)
      BY <1>3, <3>2, <3>3, AssertMeans
    <3> QED  BY <1>3, <3>1, <3>4
  <2>2. CASE ForwardOpen
    <3> DEFINE t == Assert(step, ForwardUnrolling(k))
               F == {At("bad", k)}
    <3>1. step' = Pop(Push(t, F))
      BY <2>2 DEF ForwardOpen, Forwarded, Asked
    <3>2. F \subseteq Formulas /\ 0 \notin {}
      BY <1>3, SingleMeans DEF Kinds
    <3> HIDE DEF F
    <3>3. /\ SP!WellFormed(t)
          /\ t.existing = step.existing
          /\ t.variables = step.variables
          /\ \A a : SP!Model(t, {}, a) <=>
                        SP!Model(step, {}, a) /\ Conj(ForwardUnrolling(k), a)
      BY <1>3, <3>2, UnrollingFormulas, AssertMeans
    <3> HIDE DEF t
    <3>4. {} \subseteq t.existing
      OBVIOUS
    <3>5. /\ SP!WellFormed(Push(t, F)) /\ SP!WellFormed(Pop(Push(t, F)))
          /\ Pop(Push(t, F)).existing = t.existing
          /\ Push(t, F).variables = t.variables + 1
          /\ Pop(Push(t, F)).variables = t.variables + 1
          /\ \A a : SP!Model(Push(t, F), {}, a) <=> SP!Model(t, {}, a) /\ Conj(F, a)
          /\ \A a : SP!Model(Pop(Push(t, F)), {}, a) <=> SP!Model(t, {}, a)
      BY <3>2, <3>3, <3>4, PushMeans
    <3> QED  BY <1>3, <3>1, <3>3, <3>5
  <2>3. CASE EenOpen
    BY <1>3, <2>3 DEF EenOpen, solvers
  <2> QED  BY <2>1, <2>2, <2>3
<1>5. step'.variables \in Nat
  BY <1>4, SP!VariablesOf
<1>6. SP!WellFormed(base)' /\ SP!WellFormed(step)'
  BY <1>1, <1>3, <1>4, WellFormedPrime
<1>7. SolversOK'
  BY <1>1, <1>2, <1>3, <1>4, <1>5, <1>6 DEF SolversOK
<1> QED  BY <1>2, <1>7 DEF TypeInv

LEMMA ReturnTypes ==
    ASSUME TypeInv, Return
    PROVE  TypeInv'
<1>1. /\ pc' = "prompt" /\ algorithm' = "none" /\ maxK' = 0 /\ k' = 0
      /\ base' = Sat!NewSolver /\ step' = Sat!NewSolver
      /\ path' = << >> /\ verdict' = "none"
      /\ fsm' = fsm /\ bad' = bad /\ status' = status
  BY DEF Return, property
<1>2. Types'
  BY <1>1, BmcAssumption DEF TypeInv, Types
<1>3. Flow'
  BY <1>1 DEF Flow, Working
<1>4. SolversOK'
  BY <1>1, NewMeans, WellFormedPrime DEF SolversOK
<1> QED  BY <1>2, <1>3, <1>4 DEF TypeInv

LEMMA TypesFrame ==
    ASSUME TypeInv, UNCHANGED vars
    PROVE  TypeInv'
<1>1. /\ fsm' = fsm /\ bad' = bad /\ status' = status /\ pc' = pc
      /\ algorithm' = algorithm /\ maxK' = maxK /\ k' = k
      /\ base' = base /\ step' = step /\ path' = path /\ verdict' = verdict
  BY DEF vars, property, solvers
<1>2. Types'
  BY <1>1 DEF TypeInv, Types
<1>3. Flow'
  BY <1>1 DEF TypeInv, Flow, Working, Incremental, NonIncremental
<1>4. SolversOK'
  BY <1>1, SolversFrame DEF TypeInv, Types
<1> QED  BY <1>2, <1>3, <1>4 DEF TypeInv

(* All steps, by what they do to the solvers.                              *)
LEMMA StepCases ==
    ASSUME [Next]_vars
    PROVE  \/ \E alg \in Algorithm, n \in Length : Check(alg, n)
           \/ ZigzagOpen \/ EenBaseOpen \/ ClassicOpen \/ CheckDecided
           \/ ZigzagProved \/ BackwardProved \/ ForwardProved
           \/ EenProved \/ ClassicProved
           \/ BaseFalse \/ EenFalse
           \/ BaseZigzag \/ BaseFalsification \/ BaseDual
           \/ BackwardOpen \/ ForwardOpen \/ EenOpen
           \/ Return \/ UNCHANGED vars
BY DEF Next, Command, Work

LEMMA TypesKept ==
    ASSUME TypeInv, [Next]_vars
    PROVE  TypeInv'
BY StepCases, CheckTypes, StillTypes, ProvedTypes, FalseTypes, BaseBoundTypes,
   StepBoundTypes, ReturnTypes, TypesFrame

LEMMA SolverTypes ==
    ASSUME NEW s, SP!WellFormed(s), s.variables <= LastTime + 3
    PROVE  SolverOK(s)
<1>1. /\ s \in SP!Solvers /\ s.variables \in Nat /\ LastTime \in Nat
      /\ s.existing \subseteq 0 .. s.variables
      /\ s.closed \subseteq 1 .. s.variables
      /\ s.unsatisfiable \subseteq s.existing
      /\ \A c \in s.clauses : c[2] \in s.existing \cup s.closed
  BY BmcAssumption DEF SP!WellFormed, SP!Solvers
<1>2. 0 .. s.variables \subseteq Groups /\ s.variables \in Groups
  BY <1>1 DEF Groups
<1>3. s.existing \subseteq Groups /\ s.closed \subseteq Groups
  BY <1>1, <1>2
<1>4. s.clauses \subseteq Formulas \X Nat
  BY <1>1 DEF SP!Solvers
<1>5. s.clauses \subseteq Formulas \X Groups
  BY <1>1, <1>3, <1>4
<1> QED  BY <1>1, <1>2, <1>3, <1>5 DEF SolverOK

LEMMA TypesAreOK == TypeInv => TypeOK
<1> SUFFICES ASSUME TypeInv PROVE TypeOK
  OBVIOUS
<1>1. k + 2 <= LastTime + 3 /\ k \in Nat /\ LastTime \in Nat
  BY BmcAssumption DEF TypeInv, Types
<1>2. /\ SP!WellFormed(base) /\ base.variables <= LastTime + 3
      /\ SP!WellFormed(step) /\ step.variables <= LastTime + 3
  <2>1. base.variables \in Nat /\ step.variables \in Nat
    BY SP!VariablesOf DEF TypeInv, SolversOK
  <2> QED  BY <1>1, <2>1 DEF TypeInv, SolversOK
<1>3. SolverOK(base) /\ SolverOK(step)
  BY <1>2, SolverTypes
<1> QED  BY <1>3 DEF TypeInv, Types, TypeOK

(* Every command keeps the types, for every machine, bound and algorithm:  *)
(* the solvers never have more groups than there are bounds.  (TypeOK)     *)
THEOREM BmcTypes == Spec => []TypeOK
<1>1. Init => TypeInv
  BY InitTypes
<1>2. TypeInv /\ [Next]_vars => TypeInv'
  BY TypesKept
<1> QED  BY <1>1, <1>2, TypesAreOK, PTL DEF Spec

-----------------------------------------------------------------------------
(* What the solvers hold between two calls, whatever was asked before.     *)
Means ==
    /\ pc \in {"induction", "base"} /\ Incremental => BaseHolds(base, algorithm, k)
    /\ pc \in {"induction", "base"} /\ algorithm = "zigzag" => GapHolds(base, k)
    /\ pc \in {"backward", "forward"} => BaseHolds(base, algorithm, k + 1)
    /\ pc \in {"base", "backward"} /\ algorithm = "backward" => BackHolds(step, k)
    /\ pc \in {"base", "forward"} /\ algorithm = "forward" => ForthHolds(step, k)

(* It depends on the property, which no step changes.                      *)
LEMMA ModelPrime ==
    ASSUME fsm' = fsm, bad' = bad, NEW s, NEW G, NEW a
    PROVE  SP!Model(s, G, a)' <=> SP!Model(s, G, a)
<1>1. \A f : Condition(f, a)' <=> Condition(f, a)
  BY DEF Condition, States, InitStates
<1> QED  BY <1>1 DEF SP!Model, SP!Satisfies, Times

LEMMA BaseHoldsPrime ==
    ASSUME fsm' = fsm, bad' = bad, NEW s, NEW alg, NEW n
    PROVE  BaseHolds(s, alg, n)' <=> BaseHolds(s, alg, n)
BY ModelPrime DEF BaseHolds, Times

LEMMA GapHoldsPrime ==
    ASSUME fsm' = fsm, bad' = bad, NEW s, NEW n
    PROVE  GapHolds(s, n)' <=> GapHolds(s, n)
BY ModelPrime DEF GapHolds, Times

LEMMA BackHoldsPrime ==
    ASSUME fsm' = fsm, bad' = bad, NEW s, NEW n
    PROVE  BackHolds(s, n)' <=> BackHolds(s, n)
BY ModelPrime DEF BackHolds, Times

LEMMA ForthHoldsPrime ==
    ASSUME fsm' = fsm, bad' = bad, NEW s, NEW n
    PROVE  ForthHolds(s, n)' <=> ForthHolds(s, n)
BY ModelPrime DEF ForthHolds, Times

LEMMA PropertyStays ==
    ASSUME [Next]_vars
    PROVE  fsm' = fsm /\ bad' = bad
BY DEF Next, Command, Work, vars, property, Check, CheckDecided, ZigzagProved,
       ZigzagOpen, BaseFalse, BaseZigzag, BaseFalsification, BaseDual,
       BackwardProved, BackwardOpen, ForwardProved, ForwardOpen, EenFalse,
       EenBaseOpen, EenProved, EenOpen, ClassicProved, ClassicOpen, Return,
       Proved, FoundAmong, Decide, NextBound

LEMMA InitMeans == Init => Means
BY DEF Init, Means

LEMMA CheckMeans ==
    ASSUME TypeInv, NEW alg \in Algorithm, NEW n \in Length, Check(alg, n)
    PROVE  Means'
<1>1. /\ fsm' = fsm /\ bad' = bad /\ algorithm' = alg /\ k' = 0
      /\ pc' = FirstCall(alg)
      /\ base' = IF alg = "zigzag" THEN Push(Sat!NewSolver, {At("init", 0)})
                 ELSE Assert(Sat!NewSolver, {At("init", 0)})
      /\ step' = IF alg = "backward" THEN Assert(Sat!NewSolver, {At("bad", 0)})
                 ELSE Sat!NewSolver
  BY DEF Check, property
<1>2. 0 \in Times /\ 0 .. 0 - 1 = {}
  BY TimesType
<1>3. alg = "zigzag" => BaseHolds(base', alg, 0) /\ GapHolds(base', 0)
  BY <1>1, ZigzagStart
<1>4. alg # "zigzag" => BaseHolds(base', alg, 0)
  <2>1. "init" \in Kinds
    BY DEF Kinds
  <2>2. \A a \in [Times -> State] :
            SP!Model(Assert(Sat!NewSolver, {At("init", 0)}), {}, a)
                <=> Condition(At("init", 0), a)
    BY <2>1, StartMeans
  <2>3. \A a \in [Times -> State] :
            Condition(At("init", 0), a) <=> a[0] \in InitStates(fsm)
    BY <1>2, AtMeans
  <2> QED  BY <1>1, <1>2, <2>2, <2>3 DEF BaseHolds, Held
<1>5. alg = "backward" => BackHolds(step', 0)
  <2>1. "bad" \in Kinds
    BY DEF Kinds
  <2>2. \A a \in [Times -> State] :
            SP!Model(Assert(Sat!NewSolver, {At("bad", 0)}), {}, a)
                <=> Condition(At("bad", 0), a)
    BY <2>1, StartMeans
  <2>3. \A a \in [Times -> State] : Condition(At("bad", 0), a) <=> a[0] \in bad
    BY <1>2, AtMeans
  <2> QED  BY <1>1, <1>2, <2>2, <2>3 DEF BackHolds
<1>6. alg = "forward" => ForthHolds(step', 0)
  BY <1>1, <1>2, NewMeans DEF ForthHolds
<1>7. pc' \in {"induction", "base", "classic"}
  BY <1>1 DEF FirstCall
<1>8. BaseHolds(base, algorithm, k)'
  BY <1>1, <1>3, <1>4, BaseHoldsPrime
<1>9. algorithm' = "zigzag" => GapHolds(base, k)'
  BY <1>1, <1>3, GapHoldsPrime
<1>10. algorithm' = "backward" => BackHolds(step, k)'
  BY <1>1, <1>5, BackHoldsPrime
<1>11. algorithm' = "forward" => ForthHolds(step, k)'
  BY <1>1, <1>6, ForthHoldsPrime
<1> QED  BY <1>7, <1>8, <1>9, <1>10, <1>11 DEF Means

(* The steps after which no solver is asked about what it held before.     *)
LEMMA EndMeans ==
    ASSUME \/ EenBaseOpen \/ ClassicOpen \/ CheckDecided
           \/ ZigzagProved \/ BackwardProved \/ ForwardProved
           \/ EenProved \/ ClassicProved
           \/ BaseFalse \/ EenFalse \/ Return
    PROVE  Means'
<1>1. pc' \in {"een", "return", "prompt"}
  BY DEF EenBaseOpen, ClassicOpen, CheckDecided, ZigzagProved, BackwardProved,
         ForwardProved, EenProved, ClassicProved, BaseFalse, EenFalse, Return,
         Proved, FoundAmong, Decide
<1> QED  BY <1>1 DEF Means

LEMMA FrameMeans ==
    ASSUME Means, fsm' = fsm, bad' = bad, algorithm' = algorithm, k' = k,
           base' = base, step' = step,
           pc' = pc \/ (pc = "induction" /\ pc' = "base" /\ algorithm = "zigzag")
    PROVE  Means'
<1>1. BaseHolds(base, algorithm, k)' <=> BaseHolds(base, algorithm, k)
  BY BaseHoldsPrime
<1>2. BaseHolds(base, algorithm, k + 1)' <=> BaseHolds(base, algorithm, k + 1)
  BY BaseHoldsPrime
<1>3. GapHolds(base, k)' <=> GapHolds(base, k)
  BY GapHoldsPrime
<1>4. BackHolds(step, k)' <=> BackHolds(step, k)
  BY BackHoldsPrime
<1>5. ForthHolds(step, k)' <=> ForthHolds(step, k)
  BY ForthHoldsPrime
<1> QED  BY <1>1, <1>2, <1>3, <1>4, <1>5 DEF Means, Incremental

LEMMA EenMeans ==
    ASSUME TypeInv, EenOpen
    PROVE  Means'
<1>1. algorithm' = algorithm /\ algorithm \in {"een", "een-extra"} /\ pc' \in {"base", "return"}
  BY DEF EenOpen, NextBound, TypeInv, Flow, NonIncremental
<1> QED  BY <1>1 DEF Means, Incremental

LEMMA BaseMeans ==
    ASSUME TypeInv, Means, BaseZigzag \/ BaseFalsification \/ BaseDual
    PROVE  Means'
<1>1. /\ pc = "base" /\ Working
      /\ fsm' = fsm /\ bad' = bad /\ algorithm' = algorithm /\ step' = step
  BY DEF BaseZigzag, BaseFalsification, BaseDual, NextBound, property, Working
<1>2. /\ k \in Times /\ k + 1 \in Times /\ SP!WellFormed(base)
      /\ algorithm = "zigzag" => InitialGroup \in base.existing
  BY <1>1, WorkingTimes DEF TypeInv, SolversOK
<1>3. CASE BaseZigzag
  <2>1. /\ algorithm = "zigzag" /\ k' = k + 1
        /\ base' = Assert(Extended(base), Uniqueness(0, k))
        /\ pc' \in {"induction", "return"}
    BY <1>3 DEF BaseZigzag, NextBound
  <2>2. BaseHolds(base, "zigzag", k) /\ GapHolds(base, k)
    BY <1>1, <2>1 DEF Means, Incremental
  <2>3. BaseHolds(base', "zigzag", k + 1) /\ GapHolds(base', k + 1)
    BY <1>2, <2>1, <2>2, ZigzagExtended
  <2>4. BaseHolds(base, algorithm, k)'
    BY <1>1, <2>1, <2>3, BaseHoldsPrime
  <2>5. GapHolds(base, k)'
    BY <1>1, <2>1, <2>3, GapHoldsPrime
  <2> QED  BY <1>1, <2>1, <2>4, <2>5 DEF Means
<1>4. CASE BaseFalsification
  <2>1. /\ algorithm = "falsification" /\ k' = k + 1 /\ base' = Extended(base)
        /\ pc' \in {"base", "return"}
    BY <1>4 DEF BaseFalsification, NextBound
  <2>2. BaseHolds(base, algorithm, k)
    BY <1>1, <2>1 DEF Means, Incremental
  <2>3. BaseHolds(base', algorithm, k + 1)
    BY <1>2, <2>1, <2>2, BaseExtended
  <2>4. BaseHolds(base, algorithm, k)'
    BY <1>1, <2>1, <2>3, BaseHoldsPrime
  <2> QED  BY <1>1, <2>1, <2>4 DEF Means
<1>5. CASE BaseDual
  <2>1. /\ algorithm \in {"backward", "forward"} /\ k' = k /\ base' = Extended(base)
        /\ pc' = algorithm
    BY <1>5 DEF BaseDual
  <2>2. BaseHolds(base, algorithm, k)
    BY <1>1, <2>1 DEF Means, Incremental
  <2>3. BaseHolds(base', algorithm, k + 1)
    BY <1>2, <2>1, <2>2, BaseExtended
  <2>4. BaseHolds(base, algorithm, k + 1)'
    BY <1>1, <2>1, <2>3, BaseHoldsPrime
  <2>5. algorithm = "backward" => BackHolds(step, k)'
    BY <1>1, <2>1, BackHoldsPrime DEF Means
  <2>6. algorithm = "forward" => ForthHolds(step, k)'
    BY <1>1, <2>1, ForthHoldsPrime DEF Means
  <2> QED  BY <1>1, <2>1, <2>4, <2>5, <2>6 DEF Means
<1> QED  BY <1>3, <1>4, <1>5

LEMMA ClosureMeans ==
    ASSUME TypeInv, Means, BackwardOpen \/ ForwardOpen
    PROVE  Means'
<1>1. /\ pc \in {"backward", "forward"} /\ Working
      /\ fsm' = fsm /\ bad' = bad /\ algorithm' = algorithm /\ base' = base
      /\ k' = k + 1 /\ pc' \in {"base", "return"}
  BY DEF BackwardOpen, ForwardOpen, NextBound, property, Working
<1>2. k \in Times /\ k + 1 \in Times /\ SP!WellFormed(step)
  BY <1>1, WorkingTimes DEF TypeInv, SolversOK
<1>3. BaseHolds(base, algorithm, k)'
  <2>1. BaseHolds(base, algorithm, k + 1)
    BY <1>1 DEF Means
  <2> QED  BY <1>1, <2>1, BaseHoldsPrime
<1>4. CASE BackwardOpen
  <2>1. /\ algorithm = "backward" /\ BackHolds(step, k)
        /\ step' = Assert(step, Transition(k + 1, k) \cup {At("good", k + 1)}
                             \cup (IF 1 < k THEN Uniqueness(1, k + 1) ELSE {}))
    BY <1>4 DEF BackwardOpen, TypeInv, Flow, Means
  <2>2. BackHolds(step', k + 1)
    BY <1>2, <2>1, BackExtended
  <2>3. BackHolds(step, k)'
    BY <1>1, <2>2, BackHoldsPrime
  <2> QED  BY <1>1, <1>3, <2>1, <2>3 DEF Means
<1>5. CASE ForwardOpen
  <2>1. /\ algorithm = "forward" /\ ForthHolds(step, k) /\ step' = Pop(Forwarded)
    BY <1>5 DEF ForwardOpen, TypeInv, Flow, Means
  <2>2. ForthHolds(step', k + 1)
    BY <1>2, <2>1, ForthExtended
  <2>3. ForthHolds(step, k)'
    BY <1>1, <2>2, ForthHoldsPrime
  <2> QED  BY <1>1, <1>3, <2>1, <2>3 DEF Means
<1> QED  BY <1>4, <1>5

LEMMA MeansKept ==
    ASSUME TypeInv, Means, [Next]_vars
    PROVE  Means'
<1>1. CASE ZigzagOpen
  BY <1>1, FrameMeans DEF ZigzagOpen, property, solvers, TypeInv, Flow
<1>2. CASE UNCHANGED vars
  BY <1>2, FrameMeans DEF vars, property, solvers
<1> QED  BY <1>1, <1>2, StepCases, CheckMeans, EndMeans, EenMeans, BaseMeans,
            ClosureMeans

LEMMA DifferentIsDiffer ==
    ASSUME NEW n \in Nat, NEW a
    PROVE  DifferentBelow(n, a) <=> DifferBelow(a, n)
<1>1. ASSUME DifferentBelow(n, a), NEW i \in 0 .. n - 1, NEW j \in 0 .. n - 1, i # j
      PROVE  a[i] # a[j]
  <2>1. i \in 0 .. j - 1 \/ j \in 0 .. i - 1
    BY <1>1
  <2> QED  BY <1>1, <2>1 DEF DifferentBelow
<1>2. ASSUME DifferBelow(a, n), NEW i \in 0 .. n - 1, NEW l \in 0 .. i - 1
      PROVE  a[l] # a[i]
  <2>1. l \in 0 .. n - 1 /\ l # i
    OBVIOUS
  <2> QED  BY <1>2, <2>1 DEF DifferBelow
<1> QED  BY <1>1, <1>2 DEF DifferentBelow, DifferBelow

LEMMA HeldMeans ==
    ASSUME NEW m, NEW B, NEW alg, NEW n \in Nat, NEW a
    PROVE  Held(m, B, alg, n, a) <=>
               /\ Steps(m, n, a) /\ Good(B, n, a)
               /\ alg = "zigzag" => DifferBelow(a, n)
<1>1. Held(m, B, alg, n, a) <=>
          /\ Steps(m, n, a) /\ Good(B, n, a)
          /\ alg = "zigzag" => DifferentBelow(n, a)
  BY DEF Held, HeldStep, Steps, Good, DifferentBelow
<1>2. DifferentBelow(n, a) <=> DifferBelow(a, n)
  BY DifferentIsDiffer
<1> QED  BY <1>1, <1>2

(* What the closures hold, in the words of NothingLeftOver.                *)
LEMMA BackStepsMean ==
    ASSUME NEW m, NEW B, NEW n \in Nat, NEW a
    PROVE  (\A i \in 0 .. n - 1 : BackStep(m, B, i, a)) <=>
               /\ \A i \in 1 .. n : a[i] \notin B /\ a[i - 1] \in Image(m, {a[i]})
               /\ \A i, j \in 1 .. n : i < j /\ j # 2 => a[i] # a[j]
<1>1. ASSUME \A i \in 0 .. n - 1 : BackStep(m, B, i, a)
      PROVE  /\ \A i \in 1 .. n : a[i] \notin B /\ a[i - 1] \in Image(m, {a[i]})
             /\ \A i, j \in 1 .. n : i < j /\ j # 2 => a[i] # a[j]
  <2>1. ASSUME NEW j \in 1 .. n
        PROVE  BackStep(m, B, j - 1, a) /\ (j - 1) + 1 = j /\ j \in Int
    BY <1>1, <2>1
  <2>2. ASSUME NEW i \in 1 .. n, NEW j \in 1 .. n, i < j, j # 2
        PROVE  a[i] # a[j]
    <3>1. 1 < j - 1 /\ i \in 1 .. j - 1
      BY <2>2
    <3> QED  BY <2>1, <3>1 DEF BackStep
  <2>3. ASSUME NEW i \in 1 .. n
        PROVE  a[i] \notin B /\ a[i - 1] \in Image(m, {a[i]})
    BY <2>1 DEF BackStep
  <2> QED  BY <2>2, <2>3
<1>2. ASSUME \A i \in 1 .. n : a[i] \notin B /\ a[i - 1] \in Image(m, {a[i]}),
             \A i, j \in 1 .. n : i < j /\ j # 2 => a[i] # a[j],
             NEW i \in 0 .. n - 1
      PROVE  BackStep(m, B, i, a)
  <2>1. i + 1 \in 1 .. n /\ (i + 1) - 1 = i
    OBVIOUS
  <2>2. a[i + 1] \notin B /\ a[i] \in Image(m, {a[i + 1]})
    BY <1>2, <2>1
  <2>3. ASSUME 1 < i, NEW l \in 1 .. i
        PROVE  a[l] # a[i + 1]
    <3>1. l \in 1 .. n /\ l < i + 1 /\ i + 1 # 2
      BY <2>3
    <3> QED  BY <1>2, <2>1, <3>1
  <2> QED  BY <2>2, <2>3 DEF BackStep
<1> QED  BY <1>1, <1>2

LEMMA ForthStepsMean ==
    ASSUME NEW m, NEW B, NEW n \in Nat, NEW a
    PROVE  (\A i \in 0 .. n - 1 : ForthStep(m, B, i, a)) <=>
               /\ n > 0 => a[0] \in m.invar
               /\ \A i \in 0 .. n - 2 :
                      a[i] \notin B /\ a[i + 1] \in Image(m, {a[i]})
               /\ DifferBelow(a, n)
<1>1. ASSUME \A i \in 0 .. n - 1 : ForthStep(m, B, i, a)
      PROVE  /\ n > 0 => a[0] \in m.invar
             /\ \A i \in 0 .. n - 2 :
                    a[i] \notin B /\ a[i + 1] \in Image(m, {a[i]})
             /\ DifferentBelow(n, a)
  <2>1. \A i \in 0 .. n - 1 : a[i] \in m.invar
    BY <1>1 DEF ForthStep
  <2>2. ASSUME NEW i \in 0 .. n - 2
        PROVE  a[i] \notin B /\ a[i + 1] \in Image(m, {a[i]})
    <3>1. i + 1 \in 0 .. n - 1 /\ i + 1 # 0 /\ (i + 1) - 1 = i /\ i \in 0 .. n - 1
      OBVIOUS
    <3>2. <<a[i], a[i + 1]>> \in m.trans /\ a[i] \notin B
      BY <1>1, <3>1 DEF ForthStep
    <3> QED  BY <2>1, <3>1, <3>2 DEF Image
  <2>3. ASSUME NEW i \in 0 .. n - 1, NEW l \in 0 .. i - 1
        PROVE  a[l] # a[i]
    <3>1. i # 0 /\ ForthStep(m, B, i, a)
      BY <1>1
    <3> QED  BY <3>1 DEF ForthStep
  <2>4. n > 0 => a[0] \in m.invar
    <3>1. n > 0 => 0 \in 0 .. n - 1
      OBVIOUS
    <3> QED  BY <2>1, <3>1
  <2>5. DifferentBelow(n, a)
    BY <2>3 DEF DifferentBelow
  <2> QED  BY <2>2, <2>4, <2>5
<1>2. ASSUME n > 0 => a[0] \in m.invar,
             \A i \in 0 .. n - 2 : a[i] \notin B /\ a[i + 1] \in Image(m, {a[i]}),
             DifferentBelow(n, a),
             NEW i \in 0 .. n - 1
      PROVE  ForthStep(m, B, i, a)
  <2>1. CASE i = 0
    BY <1>2, <2>1 DEF ForthStep
  <2>2. CASE i # 0
    <3>1. i - 1 \in 0 .. n - 2 /\ (i - 1) + 1 = i
      BY <2>2
    <3>2. a[i - 1] \notin B /\ a[i] \in Image(m, {a[i - 1]})
      BY <1>2, <3>1
    <3>3. <<a[i - 1], a[i]>> \in m.trans /\ a[i] \in m.invar
      BY <3>2 DEF Image
    <3>4. \A l \in 0 .. i - 1 : a[l] # a[i]
      BY <1>2 DEF DifferentBelow
    <3> QED  BY <2>2, <3>2, <3>3, <3>4 DEF ForthStep
  <2> QED  BY <2>1, <2>2
<1> QED  BY <1>1, <1>2, DifferentIsDiffer

LEMMA MeansSuffice == TypeInv /\ Means => NothingLeftOver
<1> SUFFICES ASSUME TypeInv, Means PROVE NothingLeftOver
  OBVIOUS
<1>1. SP!WellFormed(base) /\ k \in Nat /\ 0 \notin {InitialGroup}
  BY DEF TypeInv, SolversOK, Types, InitialGroup
<1>2. \A alg, a : Held(fsm, bad, alg, k, a) <=>
          /\ \A i \in 0 .. k - 1 :
                 a[i] \notin bad /\ a[i + 1] \in Image(fsm, {a[i]})
          /\ alg = "zigzag" => DifferBelow(a, k)
  BY <1>1, HeldMeans DEF Steps, Good
<1>3. ASSUME pc = "base", Incremental
      PROVE  Sat!SolveAll(base) = RunsSoFar
  <2>1. BaseHolds(base, algorithm, k)
    BY <1>3 DEF Means
  <2>2. \A a : a \in Sat!SolveAll(base) <=> SP!Model(base, {}, a)
    BY <1>1, SolveAllMeans
  <2>3. \A a : SP!Model(base, {}, a) => a \in [Times -> State]
    BY DEF SP!Model
  <2>4. \A a : a \in Sat!SolveAll(base) <=>
            /\ a \in [Times -> State]
            /\ a[0] \in InitStates(fsm) /\ Held(fsm, bad, algorithm, k, a)
    BY <2>1, <2>2, <2>3 DEF BaseHolds
  <2>5. \A a : a \in RunsSoFar <=>
            /\ a \in [Times -> State]
            /\ a[0] \in InitStates(fsm) /\ Held(fsm, bad, algorithm, k, a)
    BY <1>2 DEF RunsSoFar, GapsSoFar
  <2> QED  BY <2>4, <2>5
<1>4. ASSUME pc = "induction"
      PROVE  Sat!SolveWithout(base, {InitialGroup}) = GapsSoFar(TRUE)
  <2>1. GapHolds(base, k)
    BY <1>4 DEF Means, TypeInv, Flow
  <2>2. \A a : a \in Sat!SolveWithout(base, {InitialGroup}) <=>
                   SP!Model(base, {InitialGroup}, a)
    BY <1>1, SolveWithoutMeans
  <2>3. \A a : SP!Model(base, {InitialGroup}, a) => a \in [Times -> State]
    BY DEF SP!Model
  <2>4. \A a : a \in Sat!SolveWithout(base, {InitialGroup}) <=>
            a \in [Times -> State] /\ Held(fsm, bad, "zigzag", k, a)
    BY <2>1, <2>2, <2>3 DEF GapHolds
  <2>5. \A a : a \in GapsSoFar(TRUE) <=>
            a \in [Times -> State] /\ Held(fsm, bad, "zigzag", k, a)
    BY <1>2 DEF GapsSoFar
  <2> QED  BY <2>4, <2>5
<1>5. ASSUME pc = "backward"
      PROVE  Sat!SolveAll(step) = WaysToBad
  <2>1. BackHolds(step, k) /\ SP!WellFormed(step)
    BY <1>5 DEF Means, TypeInv, Flow, SolversOK
  <2>2. \A a : a \in Sat!SolveAll(step) <=> SP!Model(step, {}, a)
    BY <2>1, SolveAllMeans
  <2>3. \A a : SP!Model(step, {}, a) => a \in [Times -> State]
    BY DEF SP!Model
  <2>4. \A a : a \in Sat!SolveAll(step) <=>
            /\ a \in [Times -> State]
            /\ a[0] \in bad /\ \A i \in 0 .. k - 1 : BackStep(fsm, bad, i, a)
    BY <2>1, <2>2, <2>3 DEF BackHolds
  <2>5. \A a : a \in WaysToBad <=>
            /\ a \in [Times -> State]
            /\ a[0] \in bad /\ \A i \in 0 .. k - 1 : BackStep(fsm, bad, i, a)
    BY <1>1, BackStepsMean DEF WaysToBad
  <2> QED  BY <2>4, <2>5
<1>6. ASSUME pc = "forward"
      PROVE  Sat!SolveAll(step) = WaysSoFar
  <2>1. ForthHolds(step, k) /\ SP!WellFormed(step)
    BY <1>6 DEF Means, TypeInv, Flow, SolversOK
  <2>2. \A a : a \in Sat!SolveAll(step) <=> SP!Model(step, {}, a)
    BY <2>1, SolveAllMeans
  <2>3. \A a : SP!Model(step, {}, a) => a \in [Times -> State]
    BY DEF SP!Model
  <2>4. \A a : a \in Sat!SolveAll(step) <=>
            /\ a \in [Times -> State]
            /\ \A i \in 0 .. k - 1 : ForthStep(fsm, bad, i, a)
    BY <2>1, <2>2, <2>3 DEF ForthHolds
  <2>5. \A a : a \in WaysSoFar <=>
            /\ a \in [Times -> State]
            /\ \A i \in 0 .. k - 1 : ForthStep(fsm, bad, i, a)
    BY <1>1, ForthStepsMean DEF WaysSoFar
  <2> QED  BY <2>4, <2>5
<1> QED  BY <1>3, <1>4, <1>5, <1>6 DEF NothingLeftOver

(* No question asked before is left in a solver, base or step: between two *)
(* bounds it has the models the bound calls for, for every machine, bound  *)
(* and algorithm.                                                          *)
(* (NothingLeftOver)                                                       *)
THEOREM SolversStayClean == Spec => []NothingLeftOver
<1>1. Init => TypeInv /\ Means
  BY InitTypes, InitMeans
<1>2. TypeInv /\ Means /\ [Next]_vars => (TypeInv /\ Means)'
  BY TypesKept, MeansKept
<1> QED  BY <1>1, <1>2, MeansSuffice, PTL DEF Spec

-----------------------------------------------------------------------------
(* What the answers of the solvers mean for the machine.                   *)
LEMMA NoneAtBound ==
    ASSUME NEW m \in Machine, NEW B, NEW n \in Times, CleanBelow(m, B, n),
           \A a \in [Times -> State] :
               ~ /\ a[0] \in InitStates(m) /\ a[n] \in B
                 /\ Steps(m, n, a) /\ Good(B, n, a) /\ DifferBelow(a, n)
    PROVE  CleanBelow(m, B, n + 1)
<1>1. n \in Nat
  BY TimesType
<1>2. Within(m)[n] \cap B = {}
  <2> SUFFICES ASSUME Within(m)[n] \cap B # {} PROVE FALSE
    OBVIOUS
  <2>1. PICK a \in [Times -> State] :
            /\ a[0] \in InitStates(m) /\ a[n] \in B
            /\ Steps(m, n, a) /\ Good(B, n, a) /\ Different(n, a)
    BY WayFromStart
  <2>2. DifferBelow(a, n)
    BY <1>1, <2>1 DEF Different, DifferBelow
  <2> QED  BY <2>1, <2>2
<1> QED  BY <1>1, <1>2, UpToNext DEF CleanBelow

(* The base of the incremental algorithms finds nothing.                   *)
LEMMA BaseOpenMeans ==
    ASSUME TypeInv, Means, pc = "base", Incremental, BaseModels = {},
           CleanBelow(fsm, bad, k)
    PROVE  CleanBelow(fsm, bad, k + 1)
<1>1. Working /\ fsm \in Machine /\ BaseHolds(base, algorithm, k)
  BY DEF TypeInv, Types, Means, Working
<1>2. k \in Times /\ k \in Nat
  BY <1>1, WorkingTimes DEF TypeInv
<1>3. ASSUME NEW a \in [Times -> State],
             /\ a[0] \in InitStates(fsm) /\ a[k] \in bad
             /\ Steps(fsm, k, a) /\ Good(bad, k, a) /\ DifferBelow(a, k)
      PROVE  FALSE
  <2>1. Held(fsm, bad, algorithm, k, a)
    BY <1>2, <1>3, HeldMeans
  <2>2. SP!Model(base, {}, a)
    BY <1>1, <1>3, <2>1 DEF BaseHolds
  <2> QED  BY <1>1, <1>3, <2>2, BaseModelsAre
<1> QED  BY <1>1, <1>2, <1>3, NoneAtBound

(* That of Een and Sorensson's algorithm.                                  *)
LEMMA EenOpenMeans ==
    ASSUME TypeInv, pc = "base", Sat!SolveAll(EenBase) = {},
           CleanBelow(fsm, bad, k)
    PROVE  CleanBelow(fsm, bad, k + 1)
<1>1. Working /\ fsm \in Machine
  BY DEF TypeInv, Types, Working
<1>2. k \in Times
  BY <1>1, WorkingTimes DEF TypeInv
<1> QED  BY <1>1, <1>2, EenBaseMeans, NoneAtBound

(* zigzag: no bad state after k different good ones.                       *)
LEMMA ZigzagProvedMeans ==
    ASSUME TypeInv, Means, ZigzagProved, CleanBelow(fsm, bad, k)
    PROVE  Reachable(fsm) \cap bad = {}
<1>1. /\ Working /\ fsm \in Machine /\ pc = "induction" /\ algorithm = "zigzag"
      /\ Sat!SolveWithout(Asked(base), {InitialGroup}) = {}
  BY DEF ZigzagProved, TypeInv, Types, Flow, Working
<1>2. /\ k \in Times /\ k \in Nat /\ SP!WellFormed(base)
      /\ {InitialGroup} \subseteq base.existing /\ 0 \notin {InitialGroup}
  BY <1>1, WorkingTimes DEF TypeInv, SolversOK, InitialGroup
<1>3. GapHolds(base, k)
  BY <1>1 DEF Means
<1>4. /\ SP!WellFormed(Asked(base))
      /\ \A a : SP!Model(Asked(base), {InitialGroup}, a) <=>
                    SP!Model(base, {InitialGroup}, a) /\ a[k] \in bad
  BY <1>2, AskedMeans
<1>5. \A a : a \in Sat!SolveWithout(Asked(base), {InitialGroup}) <=>
                 SP!Model(Asked(base), {InitialGroup}, a)
  BY <1>2, <1>4, SolveWithoutMeans
<1> SUFFICES ASSUME Reachable(fsm) \cap bad # {} PROVE FALSE
  OBVIOUS
<1>6. PICK a \in [Times -> State] :
          /\ a[0] \in fsm.invar /\ a[k] \in bad
          /\ Steps(fsm, k, a) /\ Good(bad, k, a) /\ Different(k, a)
  BY <1>1, <1>2, WayToBad
<1>7. DifferBelow(a, k)
  BY <1>2, <1>6 DEF Different, DifferBelow
<1>8. Held(fsm, bad, "zigzag", k, a)
  BY <1>2, <1>6, <1>7, HeldMeans
<1>9. SP!Model(Asked(base), {InitialGroup}, a)
  BY <1>3, <1>4, <1>6, <1>8 DEF GapHolds
<1> QED  BY <1>1, <1>5, <1>9

(* The backward closure: no good state k good steps before a bad one.      *)
LEMMA BackwardProvedMeans ==
    ASSUME TypeInv, Means, BackwardProved, CleanBelow(fsm, bad, k)
    PROVE  Reachable(fsm) \cap bad = {}
<1>1. /\ Working /\ fsm \in Machine /\ pc = "backward" /\ algorithm = "backward"
      /\ Sat!SolveAll(step) = {} /\ BackHolds(step, k) /\ SP!WellFormed(step)
  BY DEF BackwardProved, TypeInv, Types, Flow, Working, Means, SolversOK
<1>2. k \in Times /\ k \in Nat
  BY <1>1, WorkingTimes DEF TypeInv
<1> SUFFICES ASSUME Reachable(fsm) \cap bad # {} PROVE FALSE
  OBVIOUS
<1>3. PICK a \in [Times -> State] :
          /\ a[0] \in fsm.invar /\ a[k] \in bad
          /\ Steps(fsm, k, a) /\ Good(bad, k, a) /\ Different(k, a)
  BY <1>1, <1>2, WayToBad
<1> DEFINE b == [t \in Times |-> IF t <= k THEN a[k - t] ELSE a[0]]
<1>4. 0 .. k \subseteq Times /\ \A t \in Times : t \in Nat
  BY <1>2, BmcAssumption DEF Times
<1>5. b \in [Times -> State]
  <2>1. ASSUME NEW t \in Times
        PROVE  (IF t <= k THEN a[k - t] ELSE a[0]) \in State
    <3>1. CASE t <= k
      <4>1. k - t \in Times
        BY <1>2, <1>4, <3>1
      <4> QED  BY <3>1, <4>1
    <3>2. CASE ~ (t <= k)
      BY <1>2, <1>4, <3>2
    <3> QED  BY <3>1, <3>2
  <2> QED  BY <2>1
<1>6. \A i \in 0 .. k : b[i] = a[k - i]
  BY <1>2, <1>4
<1> HIDE DEF b
<1>7. b[0] \in bad
  BY <1>2, <1>3, <1>6
<1>8. ASSUME NEW i \in 0 .. k - 1
      PROVE  BackStep(fsm, bad, i, b)
  <2>1. /\ i \in 0 .. k /\ i + 1 \in 0 .. k
        /\ k - (i + 1) \in 0 .. k - 1 /\ (k - (i + 1)) + 1 = k - i
    BY <1>2
  <2>2. b[i] = a[k - i] /\ b[i + 1] = a[k - (i + 1)]
    BY <1>6, <2>1
  <2>3. a[k - i] \in Image(fsm, {a[k - (i + 1)]})
    BY <1>3, <2>1 DEF Steps
  <2>4. b[i] \in Image(fsm, {b[i + 1]})
    BY <2>2, <2>3, Zenon
  <2>5. b[i + 1] \notin bad
    BY <1>3, <2>1, <2>2 DEF Good
  <2>6. ASSUME NEW l \in 1 .. i PROVE b[l] # b[i + 1]
    <3>1. l \in 0 .. k /\ k - l \in 0 .. k /\ k - (i + 1) \in 0 .. k /\ k - l # k - (i + 1)
      BY <1>2
    <3>2. a[k - l] # a[k - (i + 1)]
      BY <1>3, <3>1 DEF Different
    <3> QED  BY <1>6, <2>2, <3>1, <3>2
  <2> QED  BY <2>4, <2>5, <2>6 DEF BackStep
<1>9. SP!Model(step, {}, b)
  BY <1>1, <1>5, <1>7, <1>8 DEF BackHolds
<1> QED  BY <1>1, <1>9, SolveAllMeans

(* The forward closure: no bad state after k different good ones.          *)
LEMMA ForthMeans ==
    ASSUME fsm \in Machine, NEW n \in Times, NEW a \in [Times -> State],
           a[0] \in fsm.invar, Steps(fsm, n, a), Good(bad, n, a), Different(n, a)
    PROVE  \A i \in 0 .. n : ForthStep(fsm, bad, i, a)
<1>1. n \in Nat
  BY TimesType
<1>2. ASSUME NEW i \in 0 .. n, i # 0 PROVE ForthStep(fsm, bad, i, a)
  <2>1. i - 1 \in 0 .. n - 1 /\ (i - 1) + 1 = i
    BY <1>1, <1>2
  <2>2. a[i] \in Image(fsm, {a[i - 1]}) /\ a[i - 1] \notin bad
    BY <2>1 DEF Steps, Good
  <2>3. <<a[i - 1], a[i]>> \in fsm.trans /\ a[i] \in fsm.invar
    BY <2>2 DEF Image
  <2>4. \A l \in 0 .. i - 1 : a[l] # a[i]
    BY <1>1 DEF Different
  <2> QED  BY <1>2, <2>2, <2>3, <2>4 DEF ForthStep
<1> QED  BY <1>1, <1>2 DEF ForthStep

LEMMA ForwardProvedMeans ==
    ASSUME TypeInv, Means, ForwardProved, CleanBelow(fsm, bad, k)
    PROVE  Reachable(fsm) \cap bad = {}
<1>1. /\ Working /\ fsm \in Machine /\ pc = "forward" /\ algorithm = "forward"
      /\ Sat!SolveAll(Forwarded) = {} /\ ForthHolds(step, k) /\ SP!WellFormed(step)
  BY DEF ForwardProved, TypeInv, Types, Flow, Working, Means, SolversOK
<1>2. k \in Times /\ k \in Nat
  BY <1>1, WorkingTimes DEF TypeInv
<1> SUFFICES ASSUME Reachable(fsm) \cap bad # {} PROVE FALSE
  OBVIOUS
<1>3. PICK a \in [Times -> State] :
          /\ a[0] \in fsm.invar /\ a[k] \in bad
          /\ Steps(fsm, k, a) /\ Good(bad, k, a) /\ Different(k, a)
  BY <1>1, <1>2, WayToBad
<1>4. \A i \in 0 .. k : ForthStep(fsm, bad, i, a)
  BY <1>1, <1>2, <1>3, ForthMeans
<1>5. SP!Model(Forwarded, {}, a) /\ SP!WellFormed(Forwarded)
  BY <1>1, <1>2, <1>3, <1>4, ForthExtended
<1> QED  BY <1>1, <1>5, SolveAllMeans

(* Een and Sorensson's algorithm: one of its two questions has no answer.  *)
LEMMA EenProvedMeans ==
    ASSUME TypeInv, EenProved, CleanBelow(fsm, bad, k + 1)
    PROVE  Reachable(fsm) \cap bad = {}
<1>1. /\ Working /\ fsm \in Machine
      /\ Sat!SolveAll(EenStep) = {} \/ Sat!SolveAll(EenExtraStep) = {}
  BY DEF EenProved, EenSteps, TypeInv, Types, Working
<1>2. k \in Times /\ k \in Nat
  BY <1>1, WorkingTimes DEF TypeInv
<1> SUFFICES ASSUME Reachable(fsm) \cap bad # {} PROVE FALSE
  OBVIOUS
<1>3. CleanBelow(fsm, bad, k)
  BY <1>2, UpToNext DEF CleanBelow
<1>4. CASE Sat!SolveAll(EenStep) = {}
  <2>1. PICK a \in [Times -> State] :
            /\ a[0] \in fsm.invar /\ a[k] \in bad
            /\ Steps(fsm, k, a) /\ Good(bad, k, a) /\ Different(k, a)
    BY <1>1, <1>2, <1>3, WayToBad
  <2>2. DifferentBelow(k, a)
    BY <1>2, <2>1 DEF Different, DifferentBelow
  <2> QED  BY <1>2, <1>4, <2>1, <2>2, EenStepMeans
<1>5. CASE Sat!SolveAll(EenExtraStep) = {}
  <2>1. PICK a \in [Times -> State] :
            /\ a[0] \in InitStates(fsm)
            /\ \A i \in 1 .. k : a[i] \notin InitStates(fsm)
            /\ Steps(fsm, k, a) /\ Different(k, a)
    BY <1>1, <1>2, WayNotBack
  <2>2. DifferentBelow(k, a)
    BY <1>2, <2>1 DEF Different, DifferentBelow
  <2>3. \A i \in 1 .. k : a[i] \in State
    BY BmcAssumption, <1>2 DEF Times
  <2> QED  BY <1>2, <1>5, <2>1, <2>2, <2>3, EenExtraMeans
<1> QED  BY <1>1, <1>4, <1>5

(* The classic problem: induction over one step.                           *)
LEMMA ClassicMeans ==
    /\ \A a : a \in Sat!SolveAll(Problem({At("init", 0), At("invar", 0), At("bad", 0)}))
           <=> /\ a \in [Times -> State]
               /\ a[0] \in InitStates(fsm) /\ a[0] \in fsm.invar /\ a[0] \in bad
    /\ \A a : a \in Sat!SolveAll(Problem(Transition(0, 1) \cup {At("good", 0), At("bad", 1)}))
           <=> /\ a \in [Times -> State]
               /\ a[1] \in Image(fsm, {a[0]}) /\ a[0] \in State \ bad /\ a[1] \in bad
<1> DEFINE F == {At("init", 0), At("invar", 0), At("bad", 0)}
           T == Transition(0, 1)
           Q == {At("good", 0), At("bad", 1)}
<1>1. F \subseteq Formulas /\ Q \subseteq Formulas
  BY TimesType, AtMeans DEF Kinds
<1>2. \A a : Conj(F, a) <=>
          a[0] \in InitStates(fsm) /\ a[0] \in fsm.invar /\ a[0] \in bad
  <2>1. \A a : Conj(F, a) <=> /\ Condition(At("init", 0), a)
                              /\ Condition(At("invar", 0), a)
                              /\ Condition(At("bad", 0), a)
    BY DEF Conj
  <2> QED  BY <2>1, TimesType, AtMeans
<1>3. \A a : Conj(Q, a) <=> a[0] \in State \ bad /\ a[1] \in bad
  <2>1. \A a : Conj(Q, a) <=> Condition(At("good", 0), a) /\ Condition(At("bad", 1), a)
    BY DEF Conj
  <2> QED  BY <2>1, TimesType, AtMeans
<1>4. T \subseteq Formulas /\ \A a : Conj(T, a) <=> a[1] \in Image(fsm, {a[0]})
  BY TimesType, TransitionMeans
<1> HIDE DEF F, T, Q
<1>5. \A a : a \in Sat!SolveAll(Problem(F)) <=> a \in [Times -> State] /\ Conj(F, a)
  BY <1>1, ProblemMeans
<1>6. \A a : a \in Sat!SolveAll(Problem(T \cup Q)) <=>
                 a \in [Times -> State] /\ Conj(T \cup Q, a)
  BY <1>1, <1>4, ProblemMeans
<1>7. \A a : Conj(T \cup Q, a) <=> Conj(T, a) /\ Conj(Q, a)
  BY UnionMeans
<1>8. \A a : a \in Sat!SolveAll(Problem(F)) <=>
          /\ a \in [Times -> State]
          /\ a[0] \in InitStates(fsm) /\ a[0] \in fsm.invar /\ a[0] \in bad
  BY <1>2, <1>5
<1>9. \A a : a \in Sat!SolveAll(Problem(T \cup Q)) <=>
          /\ a \in [Times -> State]
          /\ a[1] \in Image(fsm, {a[0]}) /\ a[0] \in State \ bad /\ a[1] \in bad
  BY <1>3, <1>4, <1>6, <1>7
<1> QED  BY <1>8, <1>9 DEF F, T, Q

LEMMA ClassicProvedMeans ==
    ASSUME TypeInv, ClassicProved
    PROVE  Reachable(fsm) \cap bad = {}
<1>1. /\ fsm \in Machine
      /\ Sat!SolveAll(Problem({At("init", 0), At("invar", 0), At("bad", 0)})) = {}
      /\ Sat!SolveAll(Problem(Transition(0, 1) \cup {At("good", 0), At("bad", 1)})) = {}
  BY DEF ClassicProved, ClassicProblems, TypeInv, Types
<1> DEFINE S == fsm.invar \ bad
<1>2. fsm.invar \subseteq State /\ InitStates(fsm) \subseteq fsm.invar
  BY <1>1, MachineType
<1>3. ASSUME NEW s \in InitStates(fsm) PROVE s \notin bad
  <2> DEFINE a == [t \in Times |-> s]
  <2>1. a \in [Times -> State] /\ a[0] = s
    BY <1>2, TimesType
  <2> HIDE DEF a
  <2> QED  BY <1>1, <1>2, <2>1, ClassicMeans
<1>4. ASSUME NEW s \in S, NEW t \in Image(fsm, {s}) PROVE t \notin bad
  <2> DEFINE a == [i \in Times |-> IF i = 0 THEN s ELSE t]
  <2>1. t \in State
    BY <1>2, ImageType
  <2>2. a \in [Times -> State] /\ a[0] = s /\ a[1] = t
    BY <1>2, <2>1, TimesType
  <2> HIDE DEF a
  <2>3. s \in State \ bad /\ t \in Image(fsm, {s})
    BY <1>2
  <2>4. a[1] \in Image(fsm, {a[0]})
    BY <2>2, <2>3, Zenon
  <2> QED  BY <1>1, <2>2, <2>3, <2>4, ClassicMeans
<1>5. Image(fsm, S) \subseteq S
  <2>1. ASSUME NEW t \in Image(fsm, S) PROVE t \in S
    <3> HIDE DEF S
    <3>1. PICK s \in S : t \in Image(fsm, {s})
      BY ImageOfState
    <3>2. t \in fsm.invar
      BY ImageType
    <3> QED  BY <1>4, <3>1, <3>2 DEF S
  <2> QED  BY <2>1
<1>6. InitStates(fsm) \subseteq S /\ S \in SUBSET State
  BY <1>2, <1>3
<1> HIDE DEF S
<1>7. Reachable(fsm) \subseteq S
  BY <1>1, <1>5, <1>6, ReachableIsLeast
<1> QED  BY <1>7 DEF S

-----------------------------------------------------------------------------
(* A satisfying assignment for a bad state at time k is a counter-example. *)
LEMMA FoundMeans ==
    ASSUME fsm \in Machine, k \in Times, CleanBelow(fsm, bad, k),
           NEW a \in [Times -> State],
           a[0] \in InitStates(fsm), Steps(fsm, k, a), a[k] \in bad
    PROVE  /\ IsCounterExample(fsm, Decoded(a), bad)
           /\ Len(Decoded(a)) > 1 => Within(fsm)[Len(Decoded(a)) - 2] \cap bad = {}
           /\ Reachable(fsm) \cap bad # {}
<1> DEFINE p == Decoded(a)
<1>1. /\ p \in Seq(State) /\ Len(p) = k + 1
      /\ \A i \in 1 .. k + 1 : p[i] = a[i - 1]
  BY DecodedType
<1>2. k \in Nat
  BY TimesType
<1> HIDE DEF p
<1>3. p # << >> /\ p[1] = a[0] /\ p[Len(p)] = a[k]
  BY <1>1, <1>2
<1>4. ASSUME NEW i \in 1 .. Len(p) - 1
      PROVE  p[i + 1] \in Image(fsm, {p[i]})
  <2>1. i - 1 \in 0 .. k - 1 /\ i \in 1 .. k + 1 /\ i + 1 \in 1 .. k + 1
        /\ (i - 1) + 1 = i /\ (i + 1) - 1 = i
    BY <1>1, <1>2
  <2>2. a[(i - 1) + 1] \in Image(fsm, {a[i - 1]})
    BY <2>1 DEF Steps
  <2>3. p[i] = a[i - 1] /\ p[i + 1] = a[(i - 1) + 1]
    BY <1>1, <2>1
  <2> QED  BY <2>2, <2>3, Zenon
<1>5. IsChain(fsm, p)
  BY <1>4 DEF IsChain
<1>6. IsCounterExample(fsm, p, bad)
  BY <1>3, <1>5 DEF IsCounterExample
<1>7. p[Len(p)] \in Reachable(fsm)
  <2>1. p[1] \in Reachable(fsm)
    BY <1>3, ReachableIsLeast
  <2>2. Len(p) \in 1 .. Len(p)
    BY <1>1, <1>2
  <2> QED  BY <1>1, <1>5, <2>1, <2>2, ChainStaysReachable
<1>8. Len(p) > 1 => Within(fsm)[Len(p) - 2] \cap bad = {}
  <2>1. Len(p) > 1 => Len(p) - 2 \in 0 .. k - 1
    BY <1>1, <1>2
  <2> QED  BY <2>1 DEF CleanBelow
<1> QED  BY <1>3, <1>6, <1>7, <1>8 DEF p

(* At the bound k there is no bad state in fewer than k steps; once the    *)
(* base is done, none in k steps either.                                   *)
Clean ==
    /\ pc \in {"induction", "base"} => CleanBelow(fsm, bad, k)
    /\ pc \in {"backward", "forward", "een"} => CleanBelow(fsm, bad, k + 1)
    /\ verdict = "unknown" /\ algorithm # "classic" => CleanBelow(fsm, bad, maxK + 1)

BmcInv == TypeInv /\ Means /\ Clean /\ VerdictIsRight /\ TraceIsShortest

LEMMA CleanPrime ==
    ASSUME fsm' = fsm, bad' = bad, NEW n
    PROVE  CleanBelow(fsm, bad, n)' <=> CleanBelow(fsm, bad, n)
BY DEF CleanBelow

LEMMA BaseCleans ==
    ASSUME BmcInv, BaseZigzag \/ BaseFalsification \/ BaseDual \/ EenBaseOpen
    PROVE  CleanBelow(fsm, bad, k + 1)
<1>1. pc = "base" /\ CleanBelow(fsm, bad, k)
  BY DEF BaseZigzag, BaseFalsification, BaseDual, EenBaseOpen, BmcInv, Clean
<1>2. CASE EenBaseOpen
  BY <1>1, <1>2, EenOpenMeans DEF EenBaseOpen, BmcInv
<1>3. CASE BaseZigzag \/ BaseFalsification \/ BaseDual
  <2>1. Incremental /\ BaseModels = {}
    BY <1>3 DEF BaseZigzag, BaseFalsification, BaseDual, Incremental
  <2> QED  BY <1>1, <2>1, BaseOpenMeans DEF BmcInv
<1> QED  BY <1>2, <1>3

LEMMA NextBoundCleans ==
    ASSUME Types, Working, Flow, fsm' = fsm, bad' = bad, CleanBelow(fsm, bad, k + 1),
           NEW first \in {"induction", "base"}, NextBound(first)
    PROVE  Clean'
<1>1. /\ k' = k + 1 /\ maxK' = maxK
      /\ \/ pc' = first /\ verdict' = verdict
         \/ pc' = "return" /\ verdict' = "unknown" /\ ~ (k < maxK)
  BY DEF NextBound
<1>2. verdict # "unknown"
  BY DEF Flow, Working
<1>3. ~ (k < maxK) => maxK = k
  BY WorkingTimes DEF Types
<1>4. CleanBelow(fsm, bad, k)' /\ (maxK = k => CleanBelow(fsm, bad, maxK + 1)')
  BY <1>1, CleanPrime
<1> QED  BY <1>1, <1>2, <1>3, <1>4 DEF Clean

LEMMA CleanKept ==
    ASSUME BmcInv, [Next]_vars
    PROVE  Clean'
<1>1. fsm' = fsm /\ bad' = bad /\ Types /\ Flow
  BY PropertyStays DEF BmcInv, TypeInv
<1>2. ASSUME NEW alg \in Algorithm, NEW n \in Length, Check(alg, n)
      PROVE  Clean'
  <2>1. k' = 0 /\ pc' \in {"induction", "base", "classic"} /\ verdict' = "none"
    BY <1>1, <1>2 DEF Check, FirstCall, Flow
  <2>2. CleanBelow(fsm, bad, 0)
    BY DEF CleanBelow
  <2>3. CleanBelow(fsm, bad, k)'
    BY <1>1, <2>1, <2>2, CleanPrime
  <2> QED  BY <2>1, <2>3 DEF Clean
<1>3. CASE ZigzagOpen
  <2>1. pc = "induction" /\ pc' = "base" /\ k' = k /\ verdict' = "none"
    BY <1>1, <1>3 DEF ZigzagOpen, Flow, Working
  <2>2. CleanBelow(fsm, bad, k)'
    BY <1>1, <2>1, CleanPrime DEF BmcInv, Clean
  <2> QED  BY <2>1, <2>2 DEF Clean
<1>4. CASE EenBaseOpen \/ BaseDual
  <2>1. pc' \in {"een", "backward", "forward"} /\ k' = k /\ verdict' = "none"
    BY <1>1, <1>4 DEF EenBaseOpen, BaseDual, Flow, Working
  <2>2. CleanBelow(fsm, bad, k + 1)'
    BY <1>1, <1>4, <2>1, BaseCleans, CleanPrime
  <2> QED  BY <2>1, <2>2 DEF Clean
<1>5. CASE BaseZigzag \/ BaseFalsification
  <2>1. NextBound("induction") \/ NextBound("base")
    BY <1>5 DEF BaseZigzag, BaseFalsification
  <2>2. Working
    BY <1>5 DEF BaseZigzag, BaseFalsification, Working
  <2> QED  BY <1>1, <1>5, <2>1, <2>2, BaseCleans, NextBoundCleans
<1>6. CASE BackwardOpen \/ ForwardOpen \/ EenOpen
  <2>1. NextBound("base") /\ Working /\ CleanBelow(fsm, bad, k + 1)
    BY <1>6 DEF BackwardOpen, ForwardOpen, EenOpen, Working, BmcInv, Clean
  <2> QED  BY <1>1, <2>1, NextBoundCleans
<1>7. CASE ClassicOpen \/ CheckDecided \/ Return
  <2>1. /\ pc' \in {"return", "prompt"}
        /\ verdict' = "unknown" => algorithm' = "classic"
    BY <1>1, <1>7 DEF ClassicOpen, CheckDecided, Return, Flow
  <2> QED  BY <2>1 DEF Clean
<1>8. CASE \/ ZigzagProved \/ BackwardProved \/ ForwardProved
           \/ EenProved \/ ClassicProved \/ BaseFalse \/ EenFalse
  <2>1. pc' = "return" /\ verdict' # "unknown"
    BY <1>8 DEF ZigzagProved, BackwardProved, ForwardProved, EenProved,
                ClassicProved, BaseFalse, EenFalse, Proved, FoundAmong, Decide
  <2> QED  BY <2>1 DEF Clean
<1>9. CASE UNCHANGED vars
  <2>1. /\ pc' = pc /\ k' = k /\ maxK' = maxK /\ verdict' = verdict
        /\ algorithm' = algorithm
    BY <1>9 DEF vars
  <2>2. /\ CleanBelow(fsm, bad, k)' <=> CleanBelow(fsm, bad, k)
        /\ CleanBelow(fsm, bad, k + 1)' <=> CleanBelow(fsm, bad, k + 1)
        /\ CleanBelow(fsm, bad, maxK + 1)' <=> CleanBelow(fsm, bad, maxK + 1)
    BY <1>1, <2>1, CleanPrime
  <2> QED  BY <2>1, <2>2 DEF BmcInv, Clean
<1> QED  BY <1>2, <1>3, <1>4, <1>5, <1>6, <1>7, <1>8, <1>9, StepCases

(* No proof is wrong.                                                      *)
LEMMA ProvedRight ==
    ASSUME BmcInv,
           \/ ZigzagProved \/ BackwardProved \/ ForwardProved
           \/ EenProved \/ ClassicProved
    PROVE  Reachable(fsm) \cap bad = {}
<1>1. TypeInv /\ Means /\ k \in Nat
  BY DEF BmcInv, TypeInv, Types
<1>2. CASE ZigzagProved
  BY <1>1, <1>2, ZigzagProvedMeans DEF BmcInv, Clean, ZigzagProved
<1>3. CASE BackwardProved \/ ForwardProved
  <2>1. CleanBelow(fsm, bad, k + 1)
    BY <1>3 DEF BmcInv, Clean, BackwardProved, ForwardProved
  <2>2. CleanBelow(fsm, bad, k)
    BY <1>1, <2>1, UpToNext DEF CleanBelow
  <2> QED  BY <1>1, <1>3, <2>2, BackwardProvedMeans, ForwardProvedMeans
<1>4. CASE EenProved
  BY <1>1, <1>4, EenProvedMeans DEF BmcInv, Clean, EenProved
<1>5. CASE ClassicProved
  BY <1>1, <1>5, ClassicProvedMeans
<1> QED  BY <1>2, <1>3, <1>4, <1>5

(* No counter-example is wrong, or longer than necessary.                  *)
LEMMA FalseRight ==
    ASSUME BmcInv, BaseFalse \/ EenFalse
    PROVE  /\ Reachable(fsm) \cap bad # {}
           /\ IsCounterExample(fsm, path', bad)
           /\ Len(path') > 1 => Within(fsm)[Len(path') - 2] \cap bad = {}
<1>1. pc = "base" /\ Working /\ fsm \in Machine /\ TypeInv /\ CleanBelow(fsm, bad, k)
  BY DEF BaseFalse, EenFalse, BmcInv, TypeInv, Types, Clean, Working
<1>2. k \in Times /\ k \in Nat
  BY <1>1, WorkingTimes DEF TypeInv
<1>3. \E a \in [Times -> State] :
          /\ path' = Decoded(a) /\ a[0] \in InitStates(fsm) /\ a[k] \in bad
          /\ Steps(fsm, k, a)
  <2>1. CASE BaseFalse
    <3>1. PICK a \in BaseModels : path' = Decoded(a)
      BY <2>1 DEF BaseFalse, FoundAmong
    <3>2. SP!Model(base, {}, a) /\ a[k] \in bad /\ a \in [Times -> State]
      BY <1>1, <3>1, BaseModelsAre DEF SP!Model
    <3>3. BaseHolds(base, algorithm, k)
      BY <1>1, <2>1 DEF BaseFalse, BmcInv, Means
    <3>4. a[0] \in InitStates(fsm) /\ Held(fsm, bad, algorithm, k, a)
      BY <3>2, <3>3 DEF BaseHolds
    <3> QED  BY <1>2, <3>1, <3>2, <3>4, HeldMeans
  <2>2. CASE EenFalse
    <3>1. PICK a \in Sat!SolveAll(EenBase) : path' = Decoded(a)
      BY <2>2 DEF EenFalse, FoundAmong
    <3> QED  BY <1>2, <3>1, EenBaseMeans
  <2> QED  BY <2>1, <2>2
<1> QED  BY <1>1, <1>2, <1>3, FoundMeans

LEMMA RightKept ==
    ASSUME BmcInv, [Next]_vars
    PROVE  VerdictIsRight' /\ TraceIsShortest'
<1>1. fsm' = fsm /\ bad' = bad /\ VerdictIsRight /\ TraceIsShortest /\ Flow
  BY PropertyStays DEF BmcInv, TypeInv
<1>2. CASE \/ ZigzagProved \/ BackwardProved \/ ForwardProved
           \/ EenProved \/ ClassicProved
  <2>1. status' = "true" /\ verdict' = "true"
    BY <1>2 DEF ZigzagProved, BackwardProved, ForwardProved, EenProved,
                ClassicProved, Proved, Decide
  <2> QED  BY <1>1, <1>2, <2>1, ProvedRight DEF VerdictIsRight, TraceIsShortest
<1>3. CASE BaseFalse \/ EenFalse
  <2>1. status' = "false" /\ verdict' = "false"
    BY <1>3 DEF BaseFalse, EenFalse, FoundAmong, Decide
  <2> QED  BY <1>1, <1>3, <2>1, FalseRight DEF VerdictIsRight, TraceIsShortest
<1>4. CASE UNCHANGED vars
  <2>1. status' = status /\ verdict' = verdict /\ path' = path
    BY <1>4 DEF vars, property
  <2> QED  BY <1>1, <2>1 DEF VerdictIsRight, TraceIsShortest
<1>5. CASE \/ \E alg \in Algorithm, n \in Length : Check(alg, n)
           \/ ZigzagOpen \/ EenBaseOpen \/ ClassicOpen \/ CheckDecided
           \/ BaseZigzag \/ BaseFalsification \/ BaseDual
           \/ BackwardOpen \/ ForwardOpen \/ EenOpen \/ Return
  <2>1. status' = status
    BY <1>5 DEF Check, ZigzagOpen, EenBaseOpen, ClassicOpen, CheckDecided, BaseZigzag,
                BaseFalsification, BaseDual, BackwardOpen, ForwardOpen, EenOpen,
                Return, NextBound
  <2>2. verdict' # "false"
    <3>1. verdict' \in {verdict, "unknown", "none"} /\ (pc = "return" => verdict' = "none")
      BY <1>5 DEF Check, ZigzagOpen, EenBaseOpen, ClassicOpen, CheckDecided, BaseZigzag,
                  BaseFalsification, BaseDual, BackwardOpen, ForwardOpen, EenOpen,
                  Return, NextBound
    <3> QED  BY <1>1, <3>1 DEF Flow, Working
  <2> QED  BY <1>1, <2>1, <2>2 DEF VerdictIsRight, TraceIsShortest
<1> QED  BY <1>2, <1>3, <1>4, <1>5, StepCases

LEMMA BmcInvStarts == Init => BmcInv
<1> SUFFICES ASSUME Init PROVE BmcInv
  OBVIOUS
<1>1. TypeInv /\ Means
  BY InitTypes, InitMeans
<1>2. Clean /\ VerdictIsRight /\ TraceIsShortest
  BY DEF Init, Clean, VerdictIsRight, TraceIsShortest
<1> QED  BY <1>1, <1>2 DEF BmcInv

LEMMA BmcInvKept == BmcInv /\ [Next]_vars => BmcInv'
<1> SUFFICES ASSUME BmcInv, [Next]_vars PROVE BmcInv'
  OBVIOUS
<1>1. TypeInv' /\ Means'
  BY TypesKept, MeansKept DEF BmcInv
<1> QED  BY <1>1, CleanKept, RightKept DEF BmcInv

LEMMA BmcInvHolds == Spec => []BmcInv
BY BmcInvStarts, BmcInvKept, PTL DEF Spec

(* Whatever algorithms check a property, one after the other, the status   *)
(* it gets is right: true only when no bad state is reachable, although    *)
(* every induction looks a few steps ahead only.  (VerdictIsRight)         *)
THEOREM BmcVerdicts == Spec => []VerdictIsRight
<1>1. BmcInv => VerdictIsRight
  BY DEF BmcInv
<1> QED  BY <1>1, BmcInvHolds, PTL

(* The counter-example of every algorithm is a run of the machine to a bad *)
(* state, and none is shorter.  (TraceIsShortest)                          *)
THEOREM BmcTraces == Spec => []TraceIsShortest
<1>1. BmcInv => TraceIsShortest
  BY DEF BmcInv
<1> QED  BY <1>1, BmcInvHolds, PTL

(* "No proof or counterexample found with bound k" is never said of a      *)
(* property with a counter-example of k steps.  (UnknownIsHonest)          *)
THEOREM BmcUnknowns == Spec => []UnknownIsHonest
<1>1. BmcInv => UnknownIsHonest
  <2> SUFFICES ASSUME BmcInv, verdict = "unknown", algorithm # "classic"
               PROVE  Within(fsm)[maxK] \cap bad = {}
    BY DEF UnknownIsHonest
  <2>1. CleanBelow(fsm, bad, maxK + 1)
    BY DEF BmcInv, Clean
  <2>2. maxK \in 0 .. (maxK + 1) - 1
    BY BmcAssumption DEF BmcInv, TypeInv, Types
  <2> QED  BY <2>1, <2>2 DEF CleanBelow
<1> QED  BY <1>1, BmcInvHolds, PTL

-----------------------------------------------------------------------------
(* Completeness.  There are no more different states than there are states.*)
LEMMA Pigeons ==
    ASSUME NEW S, IsFiniteSet(S), NEW first \in Int, NEW last \in Int, NEW a,
           \A i \in first .. last : a[i] \in S,
           \A i \in first .. last : \A l \in first .. i - 1 : a[l] # a[i]
    PROVE  last - first + 1 <= Cardinality(S) /\ Cardinality(S) \in Nat
<1> DEFINE D == first .. last
           f == [i \in D |-> a[i]]
<1>1. Cardinality(S) \in Nat
  BY FS_CardinalityType
<1>2. IsFiniteSet(D) /\ Cardinality(D) = IF first > last THEN 0 ELSE last - first + 1
  BY FS_Interval
<1>3. ASSUME NEW i \in D, NEW j \in D, f[i] = f[j]
      PROVE  i = j
  <2>1. a[i] = a[j]
    BY <1>3
  <2>2. i = j \/ j \in first .. i - 1 \/ i \in first .. j - 1
    OBVIOUS
  <2> QED  BY <2>1, <2>2
<1>4. f \in [D -> S]
  OBVIOUS
<1> HIDE DEF f, D
<1>5. f \in Injection(D, S)
  BY <1>3, <1>4 DEF Injection, IsInjective
<1>6. Cardinality(D) <= Cardinality(S)
  BY <1>5, FS_Injection
<1> QED  BY <1>1, <1>2, <1>6

(* The good states that INVAR allows: what induction can go through.       *)
Room == Cardinality(fsm.invar \ bad)

LEMMA RoomType ==
    ASSUME IsFiniteSet(State), fsm \in Machine
    PROVE  IsFiniteSet(fsm.invar \ bad) /\ Room \in Nat
<1>1. fsm.invar \ bad \in SUBSET State
  BY MachineType
<1> QED  BY <1>1, FS_Subset, FS_CardinalityType DEF Room

(* k good states in a row, all different.                                  *)
LEMMA WayFits ==
    ASSUME IsFiniteSet(State), fsm \in Machine, NEW n \in Nat, NEW a,
           Steps(fsm, n, a), Good(bad, n, a), DifferentBelow(n, a)
    PROVE  n <= Room
<1>1. \A i \in 0 .. n - 1 : a[i] \in fsm.invar \ bad
  BY DEF Steps, Good, Image
<1> DEFINE S == fsm.invar \ bad
           last == n - 1
<1>2. /\ IsFiniteSet(S) /\ 0 \in Int /\ last \in Int /\ Room = Cardinality(S)
      /\ \A i \in 0 .. last : a[i] \in S
      /\ \A i \in 0 .. last : \A l \in 0 .. i - 1 : a[l] # a[i]
  BY <1>1, RoomType DEF DifferentBelow, Room
<1> HIDE DEF S, last
<1>3. last - 0 + 1 <= Cardinality(S) /\ Cardinality(S) \in Nat
  BY <1>2, Pigeons
<1> QED  BY <1>2, <1>3 DEF last

LEMMA ZigzagFits ==
    ASSUME IsFiniteSet(State), BmcInv, ZigzagOpen
    PROVE  k <= Room
<1>1. /\ Working /\ fsm \in Machine /\ TypeInv /\ GapHolds(base, k)
      /\ algorithm = "zigzag"
      /\ Sat!SolveWithout(Asked(base), {InitialGroup}) # {}
  BY DEF ZigzagOpen, BmcInv, TypeInv, Types, Flow, Means, Working
<1>2. /\ k \in Times /\ k \in Nat /\ SP!WellFormed(base)
      /\ {InitialGroup} \subseteq base.existing /\ 0 \notin {InitialGroup}
  BY <1>1, WorkingTimes DEF TypeInv, SolversOK, InitialGroup
<1>3. /\ SP!WellFormed(Asked(base))
      /\ \A a : SP!Model(Asked(base), {InitialGroup}, a) <=>
                    SP!Model(base, {InitialGroup}, a) /\ a[k] \in bad
  BY <1>2, AskedMeans
<1>4. \A a : a \in Sat!SolveWithout(Asked(base), {InitialGroup}) <=>
                 SP!Model(Asked(base), {InitialGroup}, a)
  BY <1>2, <1>3, SolveWithoutMeans
<1>5. PICK a : SP!Model(base, {InitialGroup}, a)
  BY <1>1, <1>3, <1>4
<1>6. a \in [Times -> State]
  BY <1>5 DEF SP!Model
<1>7. Held(fsm, bad, "zigzag", k, a)
  BY <1>1, <1>5, <1>6 DEF GapHolds
<1>8. Steps(fsm, k, a) /\ Good(bad, k, a) /\ DifferentBelow(k, a)
  BY <1>7 DEF Held, HeldStep, Steps, Good, DifferentBelow
<1> QED  BY <1>1, <1>2, <1>8, WayFits

LEMMA BackwardFits ==
    ASSUME IsFiniteSet(State), BmcInv, BackwardOpen
    PROVE  k <= Room + 1
<1>1. /\ Working /\ fsm \in Machine /\ TypeInv /\ BackHolds(step, k)
      /\ Sat!SolveAll(step) # {} /\ SP!WellFormed(step)
  BY DEF BackwardOpen, BmcInv, TypeInv, Types, Flow, Means, Working, SolversOK
<1>2. k \in Nat
  BY <1>1, WorkingTimes DEF TypeInv
<1>3. PICK a : SP!Model(step, {}, a)
  BY <1>1, SolveAllMeans
<1>4. a \in [Times -> State]
  BY <1>3 DEF SP!Model
<1>5. \A i \in 0 .. k - 1 : BackStep(fsm, bad, i, a)
  BY <1>1, <1>3, <1>4 DEF BackHolds
<1>6. ASSUME NEW j \in 2 .. k
      PROVE  /\ a[j] \in fsm.invar \ bad
             /\ \A l \in 2 .. j - 1 : a[l] # a[j]
  <2>1. /\ j - 1 \in 0 .. k - 1 /\ (j - 1) + 1 = j
        /\ \A l \in 2 .. j - 1 : l \in 1 .. j - 1 /\ 1 < j - 1
    BY <1>2
  <2>2. BackStep(fsm, bad, j - 1, a)
    BY <1>5, <2>1
  <2>3. /\ a[j - 1] \in Image(fsm, {a[j]}) /\ a[j] \notin bad
        /\ 1 < j - 1 => \A l \in 1 .. j - 1 : a[l] # a[j]
    BY <2>1, <2>2 DEF BackStep
  <2>4. a[j] \in fsm.invar
    BY <2>3 DEF Image
  <2> QED  BY <2>1, <2>3, <2>4
<1> DEFINE S == fsm.invar \ bad
<1>7. IsFiniteSet(S) /\ 2 \in Int /\ k \in Int /\ Room = Cardinality(S)
  BY <1>1, <1>2, RoomType DEF Room
<1>8. /\ \A i \in 2 .. k : a[i] \in S
      /\ \A i \in 2 .. k : \A l \in 2 .. i - 1 : a[l] # a[i]
  BY <1>6
<1> HIDE DEF S
<1>9. k - 2 + 1 <= Cardinality(S) /\ Cardinality(S) \in Nat
  BY <1>7, <1>8, Pigeons
<1> QED  BY <1>2, <1>7, <1>9

LEMMA ForwardFits ==
    ASSUME IsFiniteSet(State), BmcInv, ForwardOpen
    PROVE  k <= Room
<1>1. /\ Working /\ fsm \in Machine /\ TypeInv /\ ForthHolds(step, k)
      /\ Sat!SolveAll(Forwarded) # {} /\ SP!WellFormed(step)
  BY DEF ForwardOpen, BmcInv, TypeInv, Types, Flow, Means, Working, SolversOK
<1>2. k \in Times /\ k \in Nat
  BY <1>1, WorkingTimes DEF TypeInv
<1>3. /\ SP!WellFormed(Forwarded) /\ SP!WellFormed(Pop(Forwarded))
      /\ Pop(Forwarded).variables = step.variables + 1
      /\ ForthHolds(Pop(Forwarded), k + 1)
      /\ \A a \in [Times -> State] :
             SP!Model(Forwarded, {}, a) <=>
                 /\ \A i \in 0 .. k : ForthStep(fsm, bad, i, a)
                 /\ a[k] \in bad
  BY <1>1, <1>2, ForthExtended
<1>4. PICK a : SP!Model(Forwarded, {}, a)
  BY <1>1, <1>3, SolveAllMeans
<1>5. a \in [Times -> State]
  BY <1>4 DEF SP!Model
<1>6. \A i \in 0 .. k : ForthStep(fsm, bad, i, a)
  BY <1>3, <1>4, <1>5
<1>7. ASSUME NEW i \in 0 .. k - 1
      PROVE  /\ a[i + 1] \in Image(fsm, {a[i]}) /\ a[i] \notin bad
             /\ \A l \in 0 .. i - 1 : a[l] # a[i]
  <2>1. i \in 0 .. k /\ i + 1 \in 0 .. k /\ (i + 1) - 1 = i /\ i + 1 # 0
    BY <1>2
  <2>2. /\ <<a[i], a[i + 1]>> \in fsm.trans /\ a[i + 1] \in fsm.invar
        /\ a[i] \notin bad
    BY <1>6, <2>1 DEF ForthStep
  <2>3. a[i] \in fsm.invar /\ \A l \in 0 .. i - 1 : a[l] # a[i]
    <3>1. ForthStep(fsm, bad, i, a) /\ i \in Nat
      BY <1>2, <1>6, <2>1
    <3>2. CASE i = 0
      BY <1>2, <3>1, <3>2 DEF ForthStep
    <3>3. CASE i # 0
      BY <3>1, <3>3 DEF ForthStep
    <3> QED  BY <3>2, <3>3
  <2> QED  BY <2>2, <2>3 DEF Image
<1>8. Steps(fsm, k, a) /\ Good(bad, k, a) /\ DifferentBelow(k, a)
  BY <1>7 DEF Steps, Good, DifferentBelow
<1> QED  BY <1>1, <1>2, <1>8, WayFits

LEMMA EenFits ==
    ASSUME IsFiniteSet(State), BmcInv, EenOpen
    PROVE  k <= Room
<1>1. Working /\ fsm \in Machine /\ TypeInv /\ Sat!SolveAll(EenStep) # {}
  BY DEF EenOpen, EenSteps, BmcInv, TypeInv, Types, Working
<1>2. k \in Times /\ k \in Nat
  BY <1>1, WorkingTimes DEF TypeInv
<1>3. \A a : a \in Sat!SolveAll(EenStep) <=>
          /\ a \in [Times -> State]
          /\ a[k] \in bad
          /\ Steps(fsm, k, a) /\ Good(bad, k, a) /\ DifferentBelow(k, a)
  BY <1>2, EenStepMeans
<1> QED  BY <1>1, <1>2, <1>3, WayFits

(* zigzag asks about induction first: the base is only asked when there is *)
(* room for a longer way.                                                  *)
HasRoom == pc = "base" /\ algorithm = "zigzag" => k <= Room

LEMMA NextBoundInTime ==
    ASSUME Types, Flow, Working, fsm' = fsm, bad' = bad, NEW first, NextBound(first),
           algorithm' = algorithm,
           algorithm # "falsification" =>
               k <= Room + (IF algorithm = "backward" THEN 1 ELSE 0)
    PROVE  DecidedInTime'
<1>1. verdict = "none" /\ maxK' = maxK /\ (k < maxK => verdict' = verdict)
  BY DEF Flow, NextBound
<1>2. ~ (k < maxK) => maxK = k
  BY WorkingTimes DEF Types
<1> QED  BY <1>1, <1>2 DEF DecidedInTime, Room

LEMMA InTimeKept ==
    ASSUME IsFiniteSet(State), BmcInv, HasRoom, DecidedInTime, [Next]_vars
    PROVE  HasRoom' /\ DecidedInTime'
<1>1. fsm' = fsm /\ bad' = bad /\ Types /\ Flow /\ fsm \in Machine
  BY PropertyStays DEF BmcInv, TypeInv, Types
<1>2. CASE ZigzagOpen
  <2>1. /\ k' = k /\ algorithm' = algorithm /\ verdict' = "none"
    BY <1>1, <1>2 DEF ZigzagOpen, Flow, Working
  <2> QED  BY <1>1, <1>2, <2>1, ZigzagFits DEF HasRoom, DecidedInTime, Room
<1>3. CASE BaseZigzag
  <2>1. /\ NextBound("induction") /\ Working /\ algorithm' = algorithm
        /\ algorithm = "zigzag" /\ k <= Room /\ pc' # "base"
    BY <1>3 DEF BaseZigzag, NextBound, Working, HasRoom
  <2>2. Room \in Nat /\ k \in Nat
    BY <1>1, RoomType DEF Types
  <2>3. DecidedInTime'
    BY <1>1, <2>1, <2>2, NextBoundInTime
  <2> QED  BY <2>1, <2>3 DEF HasRoom
<1>4. CASE BaseFalsification
  <2>1. algorithm' = "falsification"
    BY <1>4 DEF BaseFalsification, NextBound
  <2> QED  BY <2>1 DEF HasRoom, DecidedInTime
<1>5. CASE BackwardOpen \/ ForwardOpen \/ EenOpen
  <2>1. /\ NextBound("base") /\ Working /\ algorithm' = algorithm
        /\ algorithm # "zigzag"
        /\ algorithm = "backward" <=> BackwardOpen
    BY <1>1, <1>5 DEF BackwardOpen, ForwardOpen, EenOpen, NextBound, Working, Flow,
                      NonIncremental
  <2>2. Room \in Nat /\ k \in Nat
    BY <1>1, RoomType DEF Types
  <2>3. k <= Room + (IF algorithm = "backward" THEN 1 ELSE 0)
    BY <1>5, <2>1, <2>2, BackwardFits, ForwardFits, EenFits
  <2>4. DecidedInTime'
    BY <1>1, <2>1, <2>3, NextBoundInTime
  <2> QED  BY <2>1, <2>4 DEF HasRoom
<1>6. CASE \/ \E alg \in Algorithm, n \in Length : Check(alg, n)
           \/ EenBaseOpen \/ ClassicOpen \/ CheckDecided
           \/ ZigzagProved \/ BackwardProved \/ ForwardProved
           \/ EenProved \/ ClassicProved \/ BaseFalse \/ EenFalse
           \/ BaseDual \/ Return
  <2>1. /\ verdict' = "unknown" => algorithm' = "classic"
        /\ pc' = "base" => algorithm' # "zigzag"
    BY <1>1, <1>6 DEF Check, FirstCall, EenBaseOpen, ClassicOpen, CheckDecided,
                ZigzagProved, BackwardProved, ForwardProved, EenProved,
                ClassicProved, BaseFalse, EenFalse, BaseDual, Return, Proved,
                FoundAmong, Decide, Flow, Working
  <2> QED  BY <2>1 DEF HasRoom, DecidedInTime
<1>7. CASE UNCHANGED vars
  <2>1. /\ pc' = pc /\ k' = k /\ maxK' = maxK /\ verdict' = verdict
        /\ algorithm' = algorithm
    BY <1>7 DEF vars
  <2> QED  BY <1>1, <2>1 DEF HasRoom, DecidedInTime, Room
<1> QED  BY <1>2, <1>3, <1>4, <1>5, <1>6, <1>7, StepCases

(* On a machine with finitely many states every algorithm with uniqueness  *)
(* constraints decides as soon as the bound exceeds the number of good     *)
(* states, the backward closure one bound later.  (DecidedInTime)          *)
THEOREM BmcDecides == IsFiniteSet(State) => (Spec => []DecidedInTime)
<1> SUFFICES ASSUME IsFiniteSet(State) PROVE Spec => []DecidedInTime
  OBVIOUS
<1>1. Init => HasRoom /\ DecidedInTime
  BY DEF Init, HasRoom, DecidedInTime
<1>2. BmcInv /\ HasRoom /\ DecidedInTime /\ [Next]_vars => (HasRoom /\ DecidedInTime)'
  BY InTimeKept
<1> QED  BY <1>1, <1>2, BmcInvHolds, PTL DEF Spec

-----------------------------------------------------------------------------
(* BmcInvar answers like InvarOracle: the safety half of the refinement.   *)
LEMMA SameReachable == \A m : Oracle!Reachable(m) = Reachable(m)
BY DEF Oracle!Reachable, Oracle!InitStates, Oracle!Closed, Oracle!Image,
       Reachable, InitStates, Closed, Image

(* The oracle is asked about bad states that INVAR allows: no others count.*)
LEMMA OnlyInvarCounts ==
    ASSUME fsm \in Machine
    PROVE  Oracle!Reachable(fsm) \cap (bad \cap fsm.invar) = Reachable(fsm) \cap bad
<1>1. fsm.invar \in SUBSET State /\ InitStates(fsm) \subseteq fsm.invar
  BY MachineType
<1>2. Image(fsm, fsm.invar) \subseteq fsm.invar
  BY ImageType
<1>3. Reachable(fsm) \subseteq fsm.invar
  BY <1>1, <1>2, ReachableIsLeast
<1> QED  BY <1>3, SameReachable

OracleStep == [Oracle!Next]_(Oracle!vars)

LEMMA AnswerStep ==
    ASSUME BmcInv, Working, fsm' = fsm, bad' = bad, algorithm' = algorithm,
           verdict' \in {"none", "unknown"} \/
               (verdict' \in {"true", "false"} /\ status' = verdict' /\ VerdictIsRight')
    PROVE  OracleStep
<1>1. verdict = "none" /\ algorithm # "none" /\ fsm \in Machine
  BY DEF BmcInv, TypeInv, Types, Flow
<1>2. CASE verdict' = "none"
  BY <1>1, <1>2 DEF OracleStep, Oracle!vars
<1>3. CASE verdict' = "unknown"
  <2>1. Oracle!Answer
    BY <1>1, <1>3 DEF Oracle!Answer, Oracle!RightAnswers
  <2> QED  BY <2>1 DEF OracleStep, Oracle!Next
<1>4. CASE verdict' \in {"true", "false"} /\ status' = verdict' /\ VerdictIsRight'
  <2> DEFINE reached == Reachable(fsm) \cap bad
  <2>1. /\ verdict' = "true" => reached = {}
        /\ verdict' = "false" => reached # {}
    BY <1>4 DEF VerdictIsRight
  <2>2. Oracle!Reachable(fsm) \cap (bad \cap fsm.invar) = reached
    BY <1>1, OnlyInvarCounts
  <2> HIDE DEF reached
  <2>3. Oracle!Answer
    BY <1>1, <1>4, <2>1, <2>2 DEF Oracle!Answer, Oracle!RightAnswers
  <2> QED  BY <2>3 DEF OracleStep, Oracle!Next
<1> QED  BY <1>2, <1>3, <1>4

LEMMA CheckStep ==
    ASSUME BmcInv, NEW alg \in Algorithm, NEW n \in Length, Check(alg, n)
    PROVE  OracleStep
<1>1. /\ algorithm = "none" /\ verdict' = verdict /\ fsm' = fsm /\ bad' = bad
      /\ algorithm' = alg /\ alg # "none"
  BY BmcAssumption DEF Check, property, BmcInv, TypeInv, Flow, Algorithms
<1>2. Oracle!Ask
  BY <1>1 DEF Oracle!Ask
<1> QED  BY <1>2 DEF OracleStep, Oracle!Next

LEMMA ReturnStep ==
    ASSUME BmcInv, Return
    PROVE  OracleStep
<1>1. algorithm' = "none" /\ verdict' = "none" /\ fsm' = fsm
  BY DEF Return, property
<1>2. CASE algorithm = "none"
  BY <1>1, <1>2 DEF BmcInv, TypeInv, Flow, OracleStep, Oracle!vars
<1>3. CASE algorithm # "none"
  <2>1. Oracle!Forget
    BY <1>1, <1>3 DEF Oracle!Forget
  <2> QED  BY <2>1 DEF OracleStep, Oracle!Next
<1> QED  BY <1>2, <1>3

LEMMA WorkStep ==
    ASSUME BmcInv, VerdictIsRight',
           \/ ZigzagOpen \/ EenBaseOpen \/ ClassicOpen
           \/ ZigzagProved \/ BackwardProved \/ ForwardProved
           \/ EenProved \/ ClassicProved
           \/ BaseFalse \/ EenFalse
           \/ BaseZigzag \/ BaseFalsification \/ BaseDual
           \/ BackwardOpen \/ ForwardOpen \/ EenOpen
    PROVE  OracleStep
<1>1. Working /\ fsm' = fsm /\ bad' = bad /\ algorithm' = algorithm
  BY DEF ZigzagOpen, EenBaseOpen, ClassicOpen, ZigzagProved, BackwardProved,
         ForwardProved, EenProved, ClassicProved, BaseFalse, EenFalse,
         BaseZigzag, BaseFalsification, BaseDual, BackwardOpen, ForwardOpen,
         EenOpen, Proved, FoundAmong, Decide, NextBound, property, Working
<1>2. verdict = "none"
  BY <1>1 DEF BmcInv, TypeInv, Flow
<1>3. \/ verdict' \in {verdict, "unknown"}
      \/ verdict' \in {"true", "false"} /\ status' = verdict'
  BY DEF ZigzagOpen, EenBaseOpen, ClassicOpen, ZigzagProved, BackwardProved,
         ForwardProved, EenProved, ClassicProved, BaseFalse, EenFalse,
         BaseZigzag, BaseFalsification, BaseDual, BackwardOpen, ForwardOpen,
         EenOpen, Proved, FoundAmong, Decide, NextBound
<1> QED  BY <1>1, <1>2, <1>3, AnswerStep

(* Every behaviour of the commands is one of the oracle, but for its       *)
(* liveness: whatever algorithm is chosen, it gives the answer that a      *)
(* search of all reachable states would give, or says that it has none.    *)
THEOREM BmcImplementsOracle == Spec => Oracle!OInit /\ [][Oracle!Next]_(Oracle!vars)
<1>1. Init => Oracle!OInit
  BY DEF Init, Oracle!OInit
<1>2. ASSUME BmcInv, BmcInv', [Next]_vars
      PROVE  OracleStep
  <2>1. VerdictIsRight'
    BY <1>2 DEF BmcInv
  <2>2. CASE UNCHANGED vars
    BY <2>2 DEF OracleStep, vars, property, Oracle!vars
  <2>3. CASE CheckDecided
    BY <2>3 DEF CheckDecided, property, OracleStep, Oracle!vars
  <2> QED  BY <1>2, <2>1, <2>2, <2>3, StepCases, CheckStep, ReturnStep, WorkStep
<1> QED  BY <1>1, <1>2, BmcInvHolds, PTL DEF Spec, OracleStep
=============================================================================
