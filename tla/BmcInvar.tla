------------------------------ MODULE BmcInvar ------------------------------
(***************************************************************************)
(* Checking invariants with bounded model checking: check_invar_bmc_inc    *)
(* with the algorithms zigzag, dual (backward and forward closure) and     *)
(* falsification (bmc/bmcBmcInc.c), and check_invar_bmc with the classic   *)
(* induction and Een and Sorensson's algorithm, with and without the extra *)
(* step (bmc/bmcBmcNonInc.c).                                              *)
(*                                                                         *)
(* A formula names a condition on the states at one or two times, an       *)
(* assignment is a state for every time.  The incremental algorithms keep  *)
(* one or two solvers for all bounds and extend what they ask.  Each call  *)
(* of a solver is a step, together with the code that its result leads to. *)
(***************************************************************************)
EXTENDS Fsm, FiniteSets

CONSTANTS
    Algorithm,  \* the algorithms of interest, a subset of Algorithms
    Length,     \* the bounds the user gives
    LastTime    \* the assignments cover the times 0..LastTime

Algorithms == {"zigzag", "backward", "forward", "falsification",
               "een", "een-extra", "classic"}

ASSUME BmcAssumption ==
    /\ Algorithm \subseteq Algorithms
    /\ LastTime \in Nat
    /\ Length \subseteq 0 .. LastTime

VARIABLES
    fsm,        \* the machine of the property
    bad,        \* the states where the invariant fails
    status,     \* of the property: "unchecked", "true" or "false"
    pc,         \* the next call of a solver, "prompt" between commands
    algorithm,
    maxK,       \* max_k
    k,          \* stepN
    base, step, \* the solvers
    path,       \* the counter-example
    verdict     \* what the command has printed, "none" so far

property == <<fsm, bad>>
solvers == <<base, step>>
vars == <<property, status, pc, algorithm, maxK, k, solvers, path, verdict>>

-----------------------------------------------------------------------------
(* Conditions at the times i and j; j matters to "trans" and "differ" only.*)
Kinds == {"init", "uninit", "invar", "good", "bad", "trans", "differ"}
Times == 0 .. LastTime + 1
Formulas == Kinds \X Times \X Times

At(kind, i) == <<kind, i, i>>

States(kind) == CASE kind = "init"   -> InitStates(fsm)
                  [] kind = "uninit" -> State \ InitStates(fsm)
                  [] kind = "invar"  -> fsm.invar
                  [] kind = "good"   -> State \ bad
                  [] kind = "bad"    -> bad

Condition(f, a) ==
    CASE f[1] = "trans"  -> <<a[f[2]], a[f[3]]>> \in fsm.trans
      [] f[1] = "differ" -> a[f[2]] # a[f[3]]
      [] OTHER           -> a[f[2]] \in States(f[1])

(* Conversion finds a falsehood where no state meets the condition.        *)
False == {f \in Formulas : f[1] \notin {"trans", "differ"} /\ States(f[1]) = {}}

Sat == INSTANCE SatMinisat WITH
    Formula <- Formulas, Falsity <- False,
    Assignment <- [Times -> State], Holds <- Condition

(* Faulty: the transition is taken the other way.                          *)
Reversed(i, j) == {<<"trans", j, i>>, At("invar", i), At("invar", j)}

(* A transition from time i to time j, state constraints included.         *)
(* (Bmc_Model_GetUnrolling)                                                *)
Transition(i, j) == {<<"trans", i, j>>, At("invar", i), At("invar", j)}

Unrolling(n) == UNION {Transition(i, i + 1) : i \in 0 .. n - 1}

(* Faulty: a state may equal the one before it.                            *)
UniquenessButLast(i, j) == {<<"differ", l, j>> : l \in i .. j - 2}

(* The states at the times i..j - 1 differ from the one at j.              *)
(* (bmc_build_uniqueness)                                                  *)
Uniqueness(i, j) == {<<"differ", l, j>> : l \in i .. j - 1}

(* Faulty: the state asked about is included.                              *)
GoodUpToLast(n) == {At("good", i) : i \in 0 .. n}

GoodUpTo(n) == {At("good", i) : i \in 0 .. n - 1}

(* A solver after adding F for good.                                       *)
Assert(s, F) == Sat!Add(s, F, Sat!Permanent)

(* A solver with a new group that holds F.                                 *)
Push(s, F) == Sat!Add(Sat!CreateGroup(s), F, Sat!NewGroup(s))

(* A solver after destroying the group created last.                       *)
Pop(s) == Sat!DestroyGroup(s, s.variables)

(* A problem of its own, for a solver that is not incremental.             *)
Problem(F) == Assert(Sat!NewSolver, F)

-----------------------------------------------------------------------------
Init ==
    /\ fsm \in Machine
    /\ bad \in SUBSET State
    /\ status = "unchecked" /\ pc = "prompt" /\ algorithm = "none"
    /\ maxK = 0 /\ k = 0
    /\ base = Sat!NewSolver /\ step = Sat!NewSolver
    /\ path = << >> /\ verdict = "none"

FirstCall(alg) == CASE alg = "zigzag"  -> "induction"
                    [] alg = "classic" -> "classic"
                    [] OTHER           -> "base"

(* zigzag keeps the initial states in a group of their own, the first one; *)
(* the backward closure counts its times from a bad state at time 0.  It   *)
(* refuses a machine with input variables; there are none here, and the    *)
(* solvers are there.                                                      *)
Check(alg, n) ==
    /\ pc = "prompt" /\ status = "unchecked"
    /\ pc' = FirstCall(alg) /\ algorithm' = alg /\ maxK' = n /\ k' = 0
    /\ base' = IF alg = "zigzag"
               THEN Push(Sat!NewSolver, {At("init", 0)})
               ELSE Assert(Sat!NewSolver, {At("init", 0)})
    /\ step' = IF alg = "backward"
               THEN Assert(Sat!NewSolver, {At("bad", 0)})
               ELSE Sat!NewSolver
    /\ UNCHANGED <<property, status, path, verdict>>

(* A property that is decided is not checked again.                        *)
CheckDecided ==
    /\ pc = "prompt" /\ status # "unchecked"
    /\ pc' = "return"
    /\ UNCHANGED <<property, status, algorithm, maxK, k, solvers, path, verdict>>

InitialGroup == 1

(* What a solver is asked about a state at time k that is bad.             *)
Asked(s) == Push(s, {At("bad", k)})

(* Faulty: the question is left in the solver.                             *)
ExtendedOnly(s) == Assert(Asked(s), {At("good", k)} \cup Transition(k, k + 1))

(* What it keeps when there is none: from here on the state is good, and   *)
(* has a successor.                                                        *)
Extended(s) == Assert(Pop(Asked(s)), {At("good", k)} \cup Transition(k, k + 1))

Decide(answer) ==
    /\ status' = answer /\ verdict' = answer /\ pc' = "return"
    /\ UNCHANGED <<property, algorithm, maxK, k, solvers>>

(* Faulty: one bound too many.                                             *)
NextBoundLate(first) ==
    /\ k' = k + 1
    /\ IF k <= maxK THEN pc' = first /\ UNCHANGED verdict
                    ELSE pc' = "return" /\ verdict' = "unknown"
    /\ UNCHANGED <<property, status, algorithm, maxK, path>>

(* The bound k is done, with no proof and no counter-example.              *)
NextBound(first) ==
    /\ k' = k + 1
    /\ IF k < maxK THEN pc' = first /\ UNCHANGED verdict
                   ELSE pc' = "return" /\ verdict' = "unknown"
    /\ UNCHANGED <<property, status, algorithm, maxK, path>>

(* The states of a satisfying assignment at the times 0..k.                *)
Decoded(a) == [i \in 1 .. k + 1 |-> a[i - 1]]

FoundAmong(models) ==
    /\ path' \in {Decoded(a) : a \in models}
    /\ Decide("false")

Proved == UNCHANGED path /\ Decide("true")

-----------------------------------------------------------------------------
(* zigzag: is there a bad state after k good ones, from anywhere?          *)
ZigzagProved ==
    /\ pc = "induction"
    /\ Sat!SolveWithout(Asked(base), {InitialGroup}) = {}
    /\ Proved

ZigzagOpen ==
    /\ pc = "induction"
    /\ Sat!SolveWithout(Asked(base), {InitialGroup}) # {}
    /\ pc' = "base"
    /\ UNCHANGED <<property, status, algorithm, maxK, k, solvers, path, verdict>>

BaseModels == Sat!SolveAll(Asked(base))

(* The base of all incremental algorithms: a bad state in k steps?         *)
Incremental == algorithm \in {"zigzag", "backward", "forward", "falsification"}

BaseFalse ==
    /\ pc = "base" /\ Incremental
    /\ FoundAmong(BaseModels)

BaseZigzag ==
    /\ pc = "base" /\ algorithm = "zigzag" /\ BaseModels = {}
    /\ base' = Assert(Extended(base), Uniqueness(0, k))
    /\ UNCHANGED step
    /\ NextBound("induction")

BaseFalsification ==
    /\ pc = "base" /\ algorithm = "falsification" /\ BaseModels = {}
    /\ base' = Extended(base)
    /\ UNCHANGED step
    /\ NextBound("base")

BaseDual ==
    /\ pc = "base" /\ algorithm \in {"backward", "forward"} /\ BaseModels = {}
    /\ base' = Extended(base)
    /\ pc' = algorithm
    /\ UNCHANGED <<property, status, algorithm, maxK, k, step, path, verdict>>

-----------------------------------------------------------------------------
(* The backward closure: is there a good state k steps before a bad one?   *)
BackwardProved ==
    /\ pc = "backward" /\ Sat!SolveAll(step) = {}
    /\ Proved

(* The states at 2 and 1 are not told apart: 1 < stepN.                    *)
BackwardOpen ==
    /\ pc = "backward" /\ Sat!SolveAll(step) # {}
    /\ step' = Assert(step, Transition(k + 1, k) \cup {At("good", k + 1)}
                             \cup (IF 1 < k THEN Uniqueness(1, k + 1) ELSE {}))
    /\ UNCHANGED base
    /\ NextBound("base")

(* Faulty: the state that is asked about is required to be good.           *)
ForwardUnrollingLate(n) ==
    IF n = 0 THEN {At("invar", 0)}
    ELSE {<<"trans", n - 1, n>>, At("invar", n), At("good", n)}
             \cup Uniqueness(0, n)

(* What the forward closure adds at time n.                                *)
(* (Bmc_Model_Invar_Dual_forward_unrolling)                                *)
ForwardUnrolling(n) ==
    IF n = 0 THEN {At("invar", 0)}
    ELSE {<<"trans", n - 1, n>>, At("invar", n), At("good", n - 1)}
             \cup Uniqueness(0, n)

Forwarded == Asked(Assert(step, ForwardUnrolling(k)))

ForwardProved ==
    /\ pc = "forward" /\ Sat!SolveAll(Forwarded) = {}
    /\ Proved

ForwardOpen ==
    /\ pc = "forward" /\ Sat!SolveAll(Forwarded) # {}
    /\ step' = Pop(Forwarded)
    /\ UNCHANGED base
    /\ NextBound("base")

-----------------------------------------------------------------------------
(* Een and Sorensson: every problem is built from nothing.                 *)
NonIncremental == algorithm \in {"een", "een-extra"}

EenBase ==
    Problem(Unrolling(k) \cup {At("init", 0)} \cup GoodUpTo(k) \cup {At("bad", k)})

Distinct == UNION {Uniqueness(0, i) : i \in 0 .. k - 1}

EenStep ==
    Problem(Unrolling(k) \cup GoodUpTo(k) \cup {At("bad", k)} \cup Distinct)

(* Is there a way of k steps from an initial state that meets no other?    *)
EenExtraStep ==
    Problem(Unrolling(k) \cup {At("init", 0)}
                \cup {At("uninit", i) : i \in 1 .. k} \cup Distinct)

EenFalse ==
    /\ pc = "base" /\ NonIncremental
    /\ FoundAmong(Sat!SolveAll(EenBase))

EenBaseOpen ==
    /\ pc = "base" /\ NonIncremental
    /\ Sat!SolveAll(EenBase) = {}
    /\ pc' = "een"
    /\ UNCHANGED <<property, status, algorithm, maxK, k, solvers, path, verdict>>

EenSteps == {EenStep} \cup (IF algorithm = "een-extra" THEN {EenExtraStep} ELSE {})

EenProved ==
    /\ pc = "een"
    /\ \E s \in EenSteps : Sat!SolveAll(s) = {}
    /\ Proved

EenOpen ==
    /\ pc = "een"
    /\ \A s \in EenSteps : Sat!SolveAll(s) # {}
    /\ UNCHANGED solvers
    /\ NextBound("base")

-----------------------------------------------------------------------------
(* The classic problem: an initial state is bad, or a good state leads to a*)
(* bad one.  A solution decides nothing.  The code asks for the disjunction*)
(* of the two, which has a solution iff one of them has.                   *)
(* (Bmc_Gen_InvarProblem)                                                  *)
ClassicProblems ==
    {Problem({At("init", 0), At("invar", 0), At("bad", 0)}),
     Problem(Transition(0, 1) \cup {At("good", 0), At("bad", 1)})}

ClassicProved ==
    /\ pc = "classic"
    /\ \A s \in ClassicProblems : Sat!SolveAll(s) = {}
    /\ Proved

ClassicOpen ==
    /\ pc = "classic"
    /\ \E s \in ClassicProblems : Sat!SolveAll(s) # {}
    /\ pc' = "return" /\ verdict' = "unknown"
    /\ UNCHANGED <<property, status, algorithm, maxK, k, solvers, path>>

(* The solvers are destroyed and the prompt is back.                       *)
Return ==
    /\ pc = "return"
    /\ pc' = "prompt" /\ algorithm' = "none" /\ maxK' = 0 /\ k' = 0
    /\ base' = Sat!NewSolver /\ step' = Sat!NewSolver
    /\ path' = << >> /\ verdict' = "none"
    /\ UNCHANGED <<property, status>>

Command == (\E alg \in Algorithm, n \in Length : Check(alg, n)) \/ CheckDecided

Work ==
    \/ ZigzagProved \/ ZigzagOpen
    \/ BaseFalse \/ BaseZigzag \/ BaseFalsification \/ BaseDual
    \/ BackwardProved \/ BackwardOpen \/ ForwardProved \/ ForwardOpen
    \/ EenFalse \/ EenBaseOpen \/ EenProved \/ EenOpen
    \/ ClassicProved \/ ClassicOpen
    \/ Return

Next == Command \/ Work

(* The program runs: a command goes on until it is over.                   *)
Spec == Init /\ [][Next]_vars /\ WF_vars(Work)

-----------------------------------------------------------------------------
Groups == 0 .. 2 * LastTime + 4

SolverOK(s) ==
    /\ s.clauses \subseteq Formulas \X Groups
    /\ s.closed \subseteq Groups /\ s.existing \subseteq Groups
    /\ s.unsatisfiable \subseteq Groups /\ s.variables \in Groups

(* The types of the variables.                                             *)
TypeOK ==
    /\ fsm \in Machine /\ bad \in SUBSET State
    /\ status \in {"unchecked", "true", "false"}
    /\ pc \in {"prompt", "induction", "base", "backward", "forward", "een",
               "classic", "return"}
    /\ algorithm \in Algorithms \cup {"none"}
    /\ maxK \in 0 .. LastTime /\ k \in 0 .. maxK + 1
    /\ SolverOK(base) /\ SolverOK(step)
    /\ path \in Seq(State)
    /\ verdict \in {"none", "true", "false", "unknown"}

(* Whatever algorithm, and however often the property was checked before   *)
(* without success: the status it gets is right.  Induction is sound only  *)
(* together with the base of all smaller bounds.  (Prop_set_status)        *)
VerdictIsRight ==
    /\ status = "true" => Reachable(fsm) \cap bad = {}
    /\ status = "false" => Reachable(fsm) \cap bad # {}

(* The counter-example of any algorithm is a run to a bad state, and there *)
(* is no shorter one.  (Bmc_Utils_generate_and_print_cntexample)           *)
TraceIsShortest ==
    verdict = "false" =>
        /\ IsCounterExample(fsm, path, bad)
        /\ Len(path) > 1 => Within(fsm)[Len(path) - 2] \cap bad = {}

(* "No proof or counterexample found with bound k": there is none within k *)
(* steps.  The classic algorithm promises nothing.                         *)
UnknownIsHonest ==
    verdict = "unknown" /\ algorithm # "classic" =>
        Within(fsm)[maxK] \cap bad = {}

(* The uniqueness constraints make induction complete: the algorithms that *)
(* have them decide as soon as the bound exceeds the number of good states,*)
(* the backward closure, which lets the first two be equal, one bound later*)
DecidedInTime ==
    verdict = "unknown" /\ algorithm \notin {"classic", "falsification"} =>
        maxK <= Cardinality(fsm.invar \ bad)
                    + (IF algorithm = "backward" THEN 1 ELSE 0)

DifferBelow(a, n) == \A i, j \in 0 .. n - 1 : i # j => a[i] # a[j]

(* The runs of k steps that start at any good state.                       *)
GapsSoFar(different) ==
    {a \in [Times -> State] :
        /\ \A i \in 0 .. k - 1 :
               a[i] \notin bad /\ a[i + 1] \in Image(fsm, {a[i]})
        /\ different => DifferBelow(a, k)}

(* zigzag asks its two questions of one solver: the runs from the initial  *)
(* states, too, must meet no state twice.                                  *)
RunsSoFar ==
    {a \in GapsSoFar(algorithm = "zigzag") : a[0] \in InitStates(fsm)}

(* The backward closure: k steps to a bad state at time 0, from good states*)
(* that differ, but for those at the times 1 and 2.                        *)
WaysToBad ==
    {a \in [Times -> State] :
        /\ a[0] \in bad
        /\ \A i \in 1 .. k : a[i] \notin bad /\ a[i - 1] \in Image(fsm, {a[i]})
        /\ \A i, j \in 1 .. k : i < j /\ j # 2 => a[i] # a[j]}

(* The forward closure: k different states in a row from anywhere, all of  *)
(* them good but the last.                                                 *)
WaysSoFar ==
    {a \in [Times -> State] :
        /\ k > 0 => a[0] \in fsm.invar
        /\ \A i \in 0 .. k - 2 :
               a[i] \notin bad /\ a[i + 1] \in Image(fsm, {a[i]})
        /\ DifferBelow(a, k)}

(* The solvers that live from bound to bound hold what the bound calls for *)
(* and nothing else, the step solvers of both closures included: no        *)
(* question asked before is left in them, although a group that is         *)
(* destroyed leaves its clauses behind.                                    *)
NothingLeftOver ==
    /\ pc = "base" /\ Incremental => Sat!SolveAll(base) = RunsSoFar
    /\ pc = "induction" => Sat!SolveWithout(base, {InitialGroup}) = GapsSoFar(TRUE)
    /\ pc = "backward" => Sat!SolveAll(step) = WaysToBad
    /\ pc = "forward" => Sat!SolveAll(step) = WaysSoFar

(* The commands as an oracle: whatever the algorithm, every question is    *)
(* answered in the end, and right (InvarOracle).                           *)
Oracle == INSTANCE InvarOracle WITH
    asked <- IF algorithm = "none" THEN << >> ELSE <<bad \cap fsm.invar>>,
    mayGiveUp <- algorithm # "none",
    answer <- verdict

AnswersLikeAnOracle == Oracle!Spec
=============================================================================
