# A TLA+ model of NuSMV with the next-counter-example add-on

This directory specifies, model-checks and proves properties of the program in
`src/`: NuSMV 2.5 (`src/nusmv/`) with the package `nextce`
(`src/nusmv/src/nextce/`), which enumerates the counter-examples of an LTL
property instead of stopping at the first one. Three parts are modelled: the
enumeration with the traces and properties it works on; the checks of
invariants with BDDs over the cache of reachable states; and the checks of
invariants with bounded model checking over the SAT solvers. Paths below are relative to
`src/nusmv/src/` unless they start with `src/`.

- `tlc -config X.cfg M` runs configuration X of module M; the table under
  *Runs* says which X goes with which M.
- `tlapm M.tla` checks the proofs of `FiPath_proofs`, `LtlDisjunct_proofs`,
  `NextCE_proofs`, `Trace_proofs`, `Fsm_proofs`, `InvarCheck_proofs`,
  `SatMinisat_proofs` and `BmcInvar_proofs`.
- `PROJECT.json` maps every definition to the lines it models, and lists the
  hazards of the code with the properties that cover them.


## 1. Inventory

NuSMV is one process with one thread. It reads commands from a prompt and runs
them one after the other; every component keeps its state in globals or in
objects reachable from them. There is no message passing and nothing is
persisted. What makes the program hard is different:

- **long sequences of commands** share global state (the property database,
  the trace list, options), and each command relies on what earlier ones left;
- **SIGINT** longjmps back to the prompt from any point of a command
  (`cmd/cmdCmd.c:944`), and an **internal error** does the same through
  `utils/error.c`, so every command may stop half-way;
- **references by index**: a property knows its counter-example by its position
  in the list of the trace manager, which all commands append to;
- **loops driven by iterators** over one trace compared with iterators over
  another; boundaries (a trace of one step, no initial step, NULL iterators);
- **a fixpoint over verdicts**: `compute_all` verifies a growing formula until
  it becomes true;
- **a cache that every checker extends**: a search resumes where a command with
  another strategy, a limit or ^C left the reachable states, and a trace is
  later walked back along the layers that were left;
- **solvers that live from bound to bound** and are asked one question after
  the other, each to be forgotten before the next, although MiniSat forgets no
  clause.

| Component | State | Operations | What must hold |
|---|---|---|---|
| `nextce` | `equivalence_class`; per property a status and a list of disjuncts | `next_ce`, `compute_all`, `reset_ce`, `set ce_equivalence` | each counter-example shown is new up to the class; "No more counterexamples" is said only when all are covered; `compute_all` ends |
| `trace` objects | a list of steps, frozen variables, a length, a frozen flag, an ID when registered | create, append, put value, freeze, thaw, loopbacks, copy, concat, equals, destroy | a frozen trace does not change; loopbacks close loops; the length fits the steps; a registered trace is never freed |
| `TraceManager` | list of traces, current trace, plugins, executors, evaluators | register, get by index, plug-in and executor registration | an index handed out stays valid and means the same trace |
| trace evaluation, execution, printing | none of their own | evaluate defines, re-execute a trace, print | completing a trace keeps its values |
| `prop` | per property: status, trace index, cone, FSM, nextce data; the database | create, verify, set status and trace, look up | status, trace and data of a property agree; indices stay in range |
| `ltl` | a tableau layer per verification | build tableau, check, explain, build the counter-example | the trace violates the formula; the layer is removed again |
| `opt`, `cmd`, signals | options with check and trigger callbacks; command table; jump buffer | set, unset, reset; the command loop | a trigger sees a consistent state |
| `mc` | during a check of an invariant: the lists of both searches, their frontiers, the path | `check_invar` with four strategies, the AG-only check; EX, EU, EG, fair states, explanations | verdicts do not depend on what is cached; traces are runs, and shortest |
| `fsm` | per machine: the layers of reachable states, are they all | images; `compute_reachable`; distances; update of the cache | the layers are exact and only grow |
| `enc`, `compile` | variable orders; layers of the symbol table | build, commit and remove layers, cone of influence | the cone contains all dependencies; a removed layer leaves nothing behind |
| `bmc`, `sbmc` | during a check: one or two solvers, the bound | loops over the bound; problems for invariants and LTL | induction is used together with its bases; an open answer is honest |
| `sat` | per solver: groups, clauses, variables of groups | create, fill and destroy groups, solve with and without some | a destroyed group leaves no trace in what is satisfiable |
| `simulate` | current state, a registered trace being extended | pick_state, simulate, goto_state | the trace stays a path |
| `utils`, `set`, `node`, `dag`, `rbc`, `be`, `wff`, `dd`, `trans`, `hrc`, `parser`, `sexp`, `cinit` | containers, formulas, syntax | | |

### How they interact

`next_ce` (component `nextce`) builds a formula from the trace a property
refers to (`TraceManager`, `trace`), makes a new property of it (`prop`), has
it verified (`ltl`, which uses `fsm`, `mc`, `enc`), and moves the new trace
index back to the original property. `set ce_equivalence` reaches
`resetAllCE` through a trigger of the option (`opt`). `check_ltlspec` writes
the same status and trace index that `next_ce` reads; `simulate` and the
other checking commands append to the same trace list. SIGINT and internal
errors cut any of these calls short.

`check_invar`, `check_ctlspec -AG` and `compute_reachable` (component `mc`, and
`fsm` for the last) share one `BddFsmCache` per machine: each reads the layers
at its start and may replace them at its end. With the strategy
forward-backward and bounded model checking, `mc` hands the gap between its two
searches to `bmc`. `check_invar_bmc` and `check_invar_bmc_inc` (`bmc`) work on
solvers of `sat` that live as long as the command, and record their verdict in
the property (`prop`), which the next command looks at first.


## 2. Modules

| Module | Models | From |
|---|---|---|
| `FiPath` | trimming a counter-example to its FIPATH, meaning of the four classes of disjuncts and of the formula they build | `nextce/NextCECmd.c` 199-620 |
| `LtlDisjunct` | the same loop by loop, with the LTL formulas the loops build | same, and the copying loop of `trace/Trace_private.c` |
| `CeEnumeration` | abstract: what `next_ce` promises about one property | |
| `NextCE` | the session: commands, stages of `displayNextCE`, options, SIGINT, internal errors | `nextce/`, `prop/`, `ltl/ltl.c`, `trace/TraceManager.c`, `cmd/cmdCmd.c` |
| `Trace` | trace objects and their life cycle | `trace/Trace.c`, `trace/Trace_private.c` |
| `Fsm` | machines, images, and by definition: reachable states, distances, counter-examples | `fsm/bdd/BddFsm.c` 294-324, 1076-1439 |
| `InvarOracle` | abstract: a question about bad states gets one answer, and the right one | |
| `InvarCheck` | `check_invar` with its strategies, AG-only checks, `compute_reachable`, and the cache between them | `mc/mcInvar.c`, `mc/mcAGonly.c`, `fsm/bdd/BddFsm.c`, `fsm/bdd/bddCmd.c` |
| `SatMinisat` | the groups of an incremental solver on top of MiniSat | `sat/SatSolver.c`, `sat/solvers/SatMinisat.c` |
| `BmcInvar` | the seven algorithms for invariants with SAT | `bmc/bmcBmcInc.c`, `bmc/bmcBmcNonInc.c`, `bmc/bmcModel.c`, `bmc/bmcGen.c`, `bmc/bmcCmd.c` |
| `MCNextCE`, `MCLtlDisjunct`, `MCTrace`, `MCInvarCheck`, `MCBmcInvar` | small instances for TLC | |
| `FiPath_proofs`, `LtlDisjunct_proofs`, `NextCE_proofs`, `Trace_proofs`, `Fsm_proofs`, `InvarCheck_proofs`, `SatMinisat_proofs`, `BmcInvar_proofs` | theorems | |

`NextCE` and `CeEnumeration` extend `FiPath`; `NextCE` instantiates
`CeEnumeration` once per property with a refinement mapping; `LtlDisjunct`
extends `FiPath` to check its closed forms. `InvarCheck` and `BmcInvar` extend
`Fsm` and both implement `InvarOracle`; `BmcInvar` instantiates `SatMinisat`
with its formulas and assignments. Operators whose comment begins
with "Faulty:" are variants of the next definition with a plausible bug; no
specification uses them, they document which bug each property detects.

### `NextCE`

| State | Code |
|---|---|
| `status[p]`, `ptrace[p]`, `nextce[p]` | `Prop_get_status`, `Prop_get_trace`, `Prop_get_nextce_data` (`NextCE_ptr`: status, list of disjuncts) |
| `traces` | the list of the global trace manager; index i is trace ID i, 0 is "no trace" |
| `eqClass`, `cexOn` | `equivalence_class`; option `counter_examples` |
| `cmd`, `cur`, `last`, `stage` | which command runs, where its loop over the database is, how far `displayNextCE` or `PropDb_verify_all_type` got |
| `target`, `result`, `newTrace` | `new_prop`: is it the property itself or a clone, the disjuncts in its formula, its status and its trace |
| `failed` | the last command ended in an internal error |
| `shown[p]` | history variable: counter-examples printed since the enumeration of p was started or reset |

One verification is cut into the stages *prepare* (`create_updated_prop`),
*check* (the verdict), *explain* (the counter-example is built, registered and
printed) and *commit* (what `displayNextCE` stores afterwards), because SIGINT
may strike between them and leaves different states behind. Each stage has
one action per outcome. `Die` is the end of the process: the assertion of
`TraceManager_get_trace_at_index` on index -1, or the NULL formula for an
unknown class.

What is abstracted:

- Properties are `LTLSPEC G(inv)`, the form `get_inv` of `nextce` expects;
  `inv` is a set of states. A state is the assignment of all the state
  variables, as `generate_state_eq` builds it; models with input or frozen
  variables in the property are left out.
- The model checker is its contract: the verdict is true iff no trace of `Cex`
  refutes the formula, and the counter-example is any trace that does. Which
  one the BDDs yield is not determined. `Cex` is the set of witnesses that
  can be built; in the runs, every path up to the violation, or one state
  beyond, up to a length.
- The satisfaction of the `init` expressions, which `construct_is_init_state_expr`
  collects, is the constant set `InitExpr`: it may hold in more states than
  the initial ones when the model uses INIT or INVAR.
- The class is the default (class 1 in the code) or was set before the model was read, as the
  usage notes in `src/README.txt` do it; `Init` chooses it.

### `LtlDisjunct`

One step is one turn of a loop: `find_trunc_trace_step`, `find_init_trace_step`
(`from = 0` is the NULL that `Trace_copy_ex` reads as "from the start"), the
copying loop, and `generate_disjunc_1 .. 4`. A formula is what it means in LTL
with past: the set of points, paths with a position, where it holds, so that
each node the code builds is an operation on such sets. The module shows that the sets and quantifiers of
`FiPath` (which the session and the proofs use) mean what the formulas mean.

### `Trace`

A heap of trace objects with one variable of each kind (state, input, frozen)
and one language. The copy with `until_here = NULL` and the concatenation are
modelled as the code has them, with the extra empty step and the dropped first
step of `other`. `warned` is a history variable: `trace_step_force_loopback`
only warns when the step closes no loop. The builders' preconditions (thawed,
written once) are the `nusmv_assert`s of the code. Traces are
counter-examples; loopbacks mean nothing in a simulation.

### `InvarCheck`

| State | Code |
|---|---|
| `fsm` | the machine: `init`, `invar`, `trans`; input variables are quantified away, as the images do |
| `layers`, `computed` | `cache->reachable.layers`, `cache->reachable.computed`; the diameter is the number of layers |
| `pc`, `job`, `limited`, `cex`, `bad` | how far the command is, which strategy or command it is, does `compute_reachable` have `-k` or `-t`, option `counter_examples`, the negated invariant |
| `status` | the status of the property while the command works on it |
| `fwd`, `bwd`, `rfront`, `bfront`, `target` | `forward_reachable_list`, `backward_reachable_list`, `reachable_frontier`, `bad_frontier`, `target_states` |
| `lower`, `upper` | the bounds of the binary search among the cached layers |
| `path`, `fleft`, `bleft` | the trace in the making, and how many elements of both lists are left to visit |

A command is a sequence of actions, one per turn of a loop: `CheckInvar` and
`CheckAG` read the cache; `BugInInitialState`, `BugInCachedLayers` and
`AlreadyComplete` answer from it; `SearchLayers` looks for the first buggy
layer; `ForwardStep` and `BackwardStep` search; `BmcTrue`, `BmcFalse` and
`BmcUnknown` stand for the hand-off to bounded model checking;
`FollowBackwardList` and `FollowForwardList` build the trace; `StoreLayers`
and `ExpandEnd` write the cache. `Interrupt` is ^C between any two of them.
Sets of states are sets: what a BDD is made of does not matter. Which state is
picked from a set, and which search takes the next step in a forward-backward
search (the code compares BDD sizes), is not determined. The bounded search in
the gap is its contract: it proves the gap empty by a closed set that misses
the bad frontier, finds one of the shortest paths, or gives up; `BmcInvar`
is about how such a contract is met.

### `SatMinisat` and `BmcInvar`

A solver is a record: which formulas were added with which group variable,
which group variables were made true for good, the groups on the list, and
those that a constant made unsatisfiable. `SolveGroups` quantifies over the
group variables, as MiniSat is free to choose them.

| State of `BmcInvar` | Code |
|---|---|
| `fsm`, `bad`, `status` | the machine and the invariant of the property, `Prop_get_status` |
| `algorithm`, `maxK`, `k` | the command and its options, `max_k`, `stepN` |
| `base`, `step` | the solvers, `solver`/`baseSolver` and `stepSolver` |
| `pc` | which call of a solver is next |
| `path`, `verdict` | the decoded counter-example; what the command has printed |

A formula is a kind of condition at one or two times (*initial at 0*,
*transition from 2 to 3*, *different at 1 and 2*); an assignment gives a state
to each time. The conversion of formulas to RBC and CNF is abstracted except
for the case in which it finds a constant: `States` without elements become
`Falsity`, which takes the other path of `SatSolver_set_polarity`. The
non-incremental algorithms build a new solver for each problem. The dual
algorithms run the base and the induction on two solvers at each bound; the
zigzag algorithm on one, where the initial condition is a group of its own.


## 3. Runs

| Run (`.cfg`) | Module | Expected | Checks | Shows |
|---|---|---|---|---|
| `NextCE_classes` | `MCNextCE` | passes | `AnchorIsCex`, `NextIsNew`, `NoMoreMeansCovered`, `NeverDies`, `NeverFails`, `Enumerates` | one property, a model with a loop and two violations, all classes, changed at will |
| `NextCE_two` | `MCNextCE` | passes | `NextIsNew`, `NoMoreMeansCovered`, `Enumerates`, `CommandEnds` | two properties share trace list, class and prompt without disturbing each other; commands end |
| `NextCE_anything` | `MCNextCE` | passes | `TypeOK`, `AnchorIsCex`, `NoMoreMeansCovered` | bad initial state, undefined class, ^C everywhere, resets before any check, `counter_examples` unset |
| `LtlDisjunct` | `MCLtlDisjunct` | passes | `FipathIsClosedForm`, `FormulaIsClosedForm`, `ExcludesItsOwn`, `ClassesNest`, `EndsInFormula` | the loops compute the closed forms and end |
| `Trace_objects` | `MCTrace` | passes | `TypeOK`, `LengthCountsSteps`, `LoopbackClosesLoop`, `FrozenIsImmutable`, `RegisteredSurvives`, `ValuesPersist` | two trace objects used in any order |
| `InvarCheck` | `MCInvarCheck` | passes | `TypeOK`, `CacheIsExact`, `LayersGrow`, `VerdictIsRight`, `NeverStuck`, `TraceIsShortest`, `AgTraceIsChain`, `NeverForgets`, `AnswersLikeAnOracle` | any commands on one shared cache, all strategies, limits and ^C |
| `BmcInvar` | `MCBmcInvar` | passes | `TypeOK`, `VerdictIsRight`, `TraceIsShortest`, `UnknownIsHonest`, `DecidedInTime`, `NothingLeftOver`, `AnswersLikeAnOracle` | all algorithms, at all bounds, on one property, repeatedly |
| `NextCE_two_initial` | `MCNextCE` | violated | `NextIsNew` | finding 1 |
| `NextCE_true_property` | `MCNextCE` | violated | `NeverDies` | finding 2 |
| `Trace_full_copy` | `MCTrace` | violated | `FullCopyEquals` | finding 3 |
| `Trace_equals` | `MCTrace` | violated | `EqualsIsExact` | finding 4 |
| `InvarCheck_ag` | `MCInvarCheck` | violated | `AgTraceIsCounterExample` | finding 5 |

The properties, in words:

- `AnchorIsCex`: the trace a property refers to is one of its own
  counter-examples, whatever was registered in between.
- `NextIsNew`: within one enumeration no counter-example is shown twice, not
  even up to the class.
- `NoMoreMeansCovered`: "No more counterexamples" implies that each
  counter-example of the property is equivalent to one shown.
- `Enumerates`: seen from each property, the session implements
  `CeEnumeration` (show a new one, finish when all are covered, restart).
- `NeverDies`, `NeverFails`: no command kills the process or ends in an
  internal error (with counter-examples on, no ^C after the verdict, a good
  initial state and no property proved true by `check_ltlspec`; the other
  cases are described under *Findings*).
- `CommandEnds`: every command comes to an end, `compute_all` in particular.
- `CacheIsExact`, `LayersGrow`, `NeverForgets`: layer i holds exactly what i - 1
  steps reach, although every command takes images of what is new only; only
  the last layer of a complete cache may repeat the one before; nothing that is
  cached is lost.
- `VerdictIsRight` (both modules): a property is true iff no bad state is
  reachable, whatever the strategy, and whatever earlier commands left.
- `NeverStuck`: walking back along the layers always finds a state in the next
  one, and the binary search meets none of its assertions.
- `TraceIsShortest` (both modules): a counter-example is a run, and no run to a
  bad state is shorter. For the two searches from both ends this says that
  they meet where the distances add up.
- `AgTraceIsChain`: the trace of an AG-only check follows transitions to a bad
  state. That it is not a run is finding 5.
- `UnknownIsHonest`: "no proof or counterexample found with bound k" means that
  no run of up to k steps is one.
- `DecidedInTime`: with uniqueness, an answer is open only for bounds up to the
  number of good states (one more for the backward closure, see *Findings*).
- `NothingLeftOver`: at each bound the solvers that live on have exactly the
  models of the unrolling, no question of an earlier bound is left in them: the
  base of every incremental algorithm, zigzag's with and without the initial
  states, and the step solvers of both closures.
  (Zigzag asks for runs in the solver in which it keeps the states of the
  induction apart, so its runs from the initial states repeat no state either;
  a shortest one does not.)
- `AnswersLikeAnOracle` (both modules): every question is answered in the end,
  once and right, and independently of the questions before (`InvarOracle`).

### Bounds, and why they are enough

- `MaxLen` (3 or 4): longest counter-example. Three states are enough for a
  first state, one in between and a violation; four for the loop a-b-a-b
  before it, so that one FIPATH embeds in paths of different lengths (class
  1) and paths share the last edge but not the first state (class 2).
  `LtlDisjunct` takes every path up to length 4 in a complete graph on four
  states, three of them initial, one of those bad.
- `MaxTraces` (3, 4; 2 in `NextCE_anything`): no new command is *started* when
  so many traces are stored; a running one goes on, so `compute_all` always
  enumerates to the end, also when two commands of the session came before.
- `MaxDisjuncts` (1 or 2): no ^C when more disjuncts than that are stored. An
  interrupted enumeration leaves its disjunct behind, and the next command
  stores it again; without the bound the list grows for ever.
- `MaxSteps = 2` in `Trace`: traces of one and two steps. Copies, loopbacks and
  concatenations need two; with a second trace object concatenation
  reaches the bound from both sides.

- Machines in `InvarCheck` (five, of five states): a line with a way back (the
  farthest state is at distance 4, so that the searches can meet at any place,
  the binary search has an interior, and a limit or ^C leaves 1 to 5 layers);
  two initial states whose paths join; a fork into a short and a long way and
  a state that is reached by none; an INVAR that cuts the line; no initial
  state at all. Every subset of the state space is asked for, in any order,
  with any cache. `MaxBmc = 3` lets the bounded search cross every gap.
- Machines in `BmcInvar` (six, of up to four states): a line into a loop; a line
  no run reaches, with loops (what uniqueness is for) and an initial state that
  stays, so that zigzag, which asks both questions of one solver, has runs that
  repeat a state while the unreachable line is still free of repetition (this
  takes four states: with three, no run of that length repeats one and
  `NothingLeftOver` could not tell what zigzag keeps apart); two initial
  states; INVAR; no initial state; no transition. `Length` is 0, 1 and 3: the
  smallest bounds are where the algorithms differ, a command with bound 3 passes
  through bound 2 as well, and 3 exceeds the number of good states of most
  questions, so that uniqueness must decide. `LastTime = 3` is the largest
  bound; the assignments have one time more for the bad state after it.

Deadlock is checked for `InvarCheck`, `BmcInvar`, `InvarCheck_ag`, `NextCE_classes`, `NextCE_two`, `NextCE_two_initial`
and `NextCE_true_property`. It is off where the system really stops: after
`Die`, after `crash`, at the end of the generation of one formula.

### Fairness

`FairSpec` assumes `WF_vars(Step)` only: one thread runs the command, and
nothing it waits for is missing. Nothing is assumed of the user, who need not
type another command and need not press ^C; `CommandEnds` is about the
command in execution. `LtlDisjunct` assumes weak fairness of its next step.
`InvarCheck` and `BmcInvar` assume `WF_vars(Work)`: a command that runs takes
its next step. Neither a command nor ^C is ever assumed, and a
forward-backward search may prefer one direction for ever: each grows towards
a fixpoint. That a command returns is the fairness of `InvarOracle`, which the
refinement shows to follow.


## 4. Findings

Found by runs (quotes and lines in `PROJECT.json`):

1. **Trimming loses the first state.** `find_init_trace_step` starts the FIPATH
   at the *last* step that looks initial. If an initial state leads to
   another, the disjuncts of classes 1 and 3 demand the wrong first state,
   do not exclude their own counter-example, and `next_ce` shows it again
   (`compute_all` never ends).
2. **`next_ce` on a true property.** If `check_ltlspec` found the property
   true there is neither a trace nor nextce data; `create_updated_prop` asks
   for trace -1 and an assertion kills the process.
3. **A full copy is one step too long.** `trace_copy_ex` appends before it
   looks whether the original has a next step.
4. **`trace_equals` returns true** as soon as the frozen variables differ.
5. **The trace of an AG-only check lacks its first state.**
   `make_AG_counterexample` walks back through the distances d - 1 down to 1
   and stops before 0 (`mc/mcAGonly.c:302`). The trace starts in a successor of
   an initial state; for a bad state at distance 1 it is that state alone.

Seen while modelling, reachable in the model, and with no document that says
otherwise; each can be reproduced by changing the named constant or property:

- `reset_ce` (or a change of class) before the first check leaves the property
  unchecked and its later enumeration starts over, so the same
  counter-example is printed twice: `ResetUnchecked = TRUE` with `NextIsNew`.
- Class 2 on a counter-example whose first state is bad ends in an internal
  error: a bad initial state in `Inv` with `NeverFails`.
- ^C between the verdict and the trace, or the option `counter_examples`
  unset, leaves a false property without a trace and the next `next_ce` dies:
  `InterruptAt = {"explain"}` or `CexOff = TRUE` with `NeverDies`.
- ^C between the printing and the bookkeeping: the same counter-example may be
  printed again, `InterruptAt = {"commit"}` with `NextIsNew` (and without the
  deadlock check: the process may die as well).
- Any integer is accepted as a class: `Class = {5}` with `NeverDies`.
- A full copy of a *frozen* trace dereferences NULL (`CopyCrashes`), and a
  partial copy of a frozen trace stays frozen, where `trace/Trace.c:225` says
  partial copies are thawed.
- The number of cached layers, which is printed as the diameter, depends on the
  command that completed them: `compute_reachable` drops the last layer if it
  repeats the one before, `check_invar` does not, and it stores nothing if it
  found one new layer only (`mc/mcInvar.c:1440`). Hence the exception in
  `LayersGrow`.
- The backward closure adds uniqueness only if `1 < stepN`
  (`bmc/bmcBmcInc.c:1152`), so the states at the times 1 and 2 are never told
  apart. A proof may come one bound later: hence the exception in
  `DecidedInTime`.
- `Bmc_GenSolveLtlInc` leaves its group in the solver when it skips a loop
  that is not possible (`bmc/bmcBmcInc.c:240`); harmless, since
  nothing was added to it.
- If bounded model checking leaves the gap open and a trace exists, it is
  recorded for a property that stays unchecked (`mc/mcInvar.c:1337`).
- In `trace_concat` the state variables of the frontier step are not merged
  (the loop runs over the frozen variables twice), and a clash of frozen
  values is an assertion (`ConcatCrashes`) instead of an error.


## 5. What is proved

For every model, every number of properties, every set of counter-examples and
every pattern of interrupts (for traces, any number of objects, values and
steps; for the checks of invariants, any machines, strategies and bounds), from
the assumptions `FsmAssumption`, `SessionAssumption`, `TraceAssumption`,
`MachineAssumption`, `SearchAssumption`, `BmcAssumption` and `CexAssumption` on the constants, which TLC
evaluates in the runs:

- `FiPath_proofs`: `TruncStepIsFirst`, `FipathProperties` (the FIPATH is a
  non-empty path that ends in the first violation), `ExcludesItself` (class by
  class, when a disjunct holds on its own counter-example), `ClassesAreNested`.
- `LtlDisjunct_proofs`: `FipathAlwaysClosedForm`, `FormulaAlwaysClosedForm`,
  `OwnAlwaysExcluded` and `ClassesAlwaysNest` (`Spec => []FipathIsClosedForm`,
  ...), from `CexAssumption`. The invariant (`LoopInv`) says of each loop how
  far it got: `from` is the last initial step so far, `fipath` the part copied
  so far, and the formula of class 1, which grows from its end, holds at
  position i iff the steps of the FIPATH already visited are embedded in the
  path from i to its first violation (`SuffixFrom`). `UntilHolds` is the point
  where it matters that every until is `inv U ...`: it looks no further than
  the first violation.
- `NextCE_proofs`: `SessionTypes` (`Spec => []TypeOK`) and `AnchorIsAlwaysCex`
  (`Spec => []AnchorIsCex`). The invariant `SessionInv` adds to these two that
  the trace of the property being verified is a counter-example of it and that
  nothing is left of a command at the prompt: the trace index reaches the
  property by way of `newTrace`, three actions after it was drawn, so
  `AnchorIsCex` alone is not inductive.
- `NoMoreAlwaysMeansCovered`, there too
  (`Spec => []NoMoreMeansCovered`), without any condition on the user. The
  argument (`DoneInv`): the list of a property holds disjuncts of
  counter-examples shown in this enumeration only, since the trace from which
  the next disjunct is generated is one of them; a true verdict then means
  that every counter-example satisfies one of those disjuncts.
- `NeverEverDies` (`PlainUse /\ Spec => []NeverDies`), there too. `PlainUse`:
  `counter_examples` stays set, the class is one of the four, no ^C strikes
  between a verdict and its bookkeeping, and every property has a
  counter-example; without each of these a command can reach an assertion
  (findings and hazards). The invariant (`SurviveInv`): a property that was
  checked refers to a trace, unless its verdict is known and its trace under
  way. `NeverEverFails` (`GoodFirstStates /\ Spec => []NeverFails`): class 2
  always finds the state before the last where no counter-example starts in a
  bad state.
- `NextIsAlwaysNew`, there too
  (`CarefulUser /\ SelfExcluding /\ Spec => []NextIsNew`). The argument
  (`EnumInv`): every counter-example shown since the last reset has its
  disjunct in the list, but for the one the property refers to, whose
  disjunct is added by the next command; a trace that refutes the new
  formula is therefore equivalent to none of them. `CarefulUser` excludes the
  early reset and the ^C after the printing, `SelfExcluding` finding 1 and
  the bad first state of class 2; the runs show the property fails
  without them.
- `SessionEnumerates`, there too
  (`CarefulUser /\ SelfExcluding /\ Spec => Enumerates`): seen from any one
  property, every step of the session is a step of `CeEnumeration` or a
  stutter. It rests on `EnumInv`, on `NoMoreMeansCovered`, and on
  `DoneIsQuiet`: no disjunct is added to a property that has no more
  counter-examples.
- `Trace_proofs`: `TraceTypes`, `LengthAlwaysCounts` and
  `LoopbackAlwaysCloses`. The invariant `TraceInv` is stated trace by trace
  (`Sound`). It is inductive because a thawed trace compares states whenever
  it is asked for a loopback, freezing starts from cleared flags, and each
  operation that can change the last step thaws the trace first.
  `FrozenNeverChanges`, `RegisteredAlwaysSurvives` and `ValuesAlwaysPersist`
  (`Spec => FrozenIsImmutable`, ...): under that invariant every call takes a
  trace `t` of a slot to a `u` with `Evolves(t, u)`, a relation that holds the
  three promises.
- `Fsm_proofs`: lemmas about images, the least closed set and distances.
  `ReachableIsLeast` gives reachable states as the least set that is closed, so
  a set with the initial states that no transition leaves contains them.
  `FrontierIsEnough`: the image of what was new is as good as that of the whole
  ring. `GapIsClosed`: if the closed set that bounded model checking exhibits
  misses the bad frontier, then that set together with the ring and without the
  states that reach a bad one is closed, so no bad state is reachable.
  Induction over steps is `SetInduction`, a consequence of the least number
  that violates a claim; `WithinStep` and `ReachableIsWithin` solve the
  recursion of `Within` by exhibiting the ends of walks of n steps as the
  function it defines. `ShortestToBad` and `ShortestIsClean`: if a bad state is
  reachable, some shortest run reaches it, and it repeats no state and meets no
  bad one before its end.
- `InvarCheck_proofs`: `InvariantHolds` (`Spec => []Inv`) and from it
  `TypesHold`, `CacheAlwaysExact`, `LayersAlwaysGrow`, `VerdictAlwaysRight`,
  `WalksNeverStuck`, `AgTraceAlwaysChain` and
  `CacheNeverForgotten`. `Inv` says stage by stage what the lists hold. Both
  consist of rings, each the one before with its image (or preimage), between
  the initial and the reachable states, or around the bad ones; the frontier is
  the difference of the last two. While the searches run they miss each other;
  when they meet, the last ring of each still misses the last but one of the
  other (`MeetOnlyLast`). That is the point of the proof: a state where they
  meet lies outside all earlier rings, so it has a neighbour in each, and the
  walk is never stuck (`TraceInv`). The cache receives forward rings only, of
  a search that started from the cache, hence `CacheInv` again.
- `TraceAlwaysShortest` (`Spec => []TraceIsShortest`), there too. `Inv` is
  strengthened by `ShortInv`: as soon as it is settled where the trace will
  come from, the number of states it is going to have is known from the lists
  (`StatesShown`), and no run to a bad state has fewer. If i forward steps miss
  the j-th ring around the bad states, no bad state is within i + j
  (`MissedRing`); if they meet it, one is (`MetRing`): the distances add up.
  Where bounded model checking found the trace, a shorter run would have to
  cross the rings of both searches (`WayMeetsRings`), so its middle part would
  be a shorter path through the gap, and the one that was found is shortest
  (`GapIsUnbeaten`).
- `ImplementsOracle`, there too: the initial states and every step of
  `InvarCheck` are those of `InvarOracle`, or stutter (all of
  `AnswersLikeAnOracle` but its fairness).
- `SatMinisat_proofs`, for any formulas and assignments: `SolvesItsGroups`
  (the models of a problem are those of the formulas in the groups that
  count), `AddRestricts` and `QuestionLeavesNothing` (a group that is created,
  filled and destroyed leaves the models as they were, although its clauses
  stay).
- `QuestionModels`, there too: the same with the models of a solver described
  formula by formula, the form in which `BmcInvar_proofs` uses it at each
  bound, with groups of other questions open or not.
- `BmcInvar_proofs`, from `BmcAssumption`, for all machines, sets of bad states
  and bounds: `BmcTypes`, `SolversStayClean`, `BmcVerdicts`, `BmcTraces`,
  `BmcUnknowns` (`Spec => []TypeOK`, `[]NothingLeftOver`, `[]VerdictIsRight`,
  `[]TraceIsShortest`, `[]UnknownIsHonest`), `BmcImplementsOracle`, and, if there
  are finitely many states, `BmcDecides` (`[]DecidedInTime`). None of the
  properties is inductive: a verdict of the induction at bound k is right
  because of the bases of all smaller bounds, and the solvers do not say
  which of those were asked. The invariant `BmcInv` therefore has, besides the
  properties, `TypeInv` (how many groups there may be at bound k, which of them
  are open), `Means` (which assignments satisfy each solver: the steps that
  were added up to k, whatever was asked and destroyed in between) and `Clean`
  (no run of fewer than k steps ends in a bad state, none of k steps either
  once the base of k is answered). The induction answers "no" only if k good
  steps cannot be followed by a bad one; by `ShortestIsClean` a shortest run of
  more steps would be such steps, and by `Clean` there is none of fewer.
  `BmcDecides` adds `HasRoom`: an open induction exhibits k different good
  states, and `Pigeons` bounds k by their number; the hypothesis that there are
  finitely many is what NuSMV's finite types give.

### What is only model-checked

Every invariant and every action property that a passing run checks is proved,
some of them for the users and models named above. What is left to TLC is liveness: `CommandEnds`, `EndsInFormula`,
and that the questions of `InvarOracle` are answered (the theorems about it have
its initial states and steps, not its fairness). ENABLED and fairness are
out of the prover's reach. That no command gets stuck before it is
done is the deadlock check of the runs, and `EndsInFormula` in `LtlDisjunct`.

## 6. What is not modelled, and the plan

Left out for good: printing plugins, XML, grammars and generated parsers,
dumping (output and syntax, no behaviour over time); CUDD, MiniSat and ZChaff
(third party, and most of the lines of `src/`); bit encodings, BDD clustering,
`rbc`, `be`, `dd` (data whose result is abstracted by sets of states and
relations).

Left out of the modelled parts:

- `InvarCheck`: reachable states that are set without layers
  (`BddFsm_set_reachable_states`, used by other tools), the rewriting of
  invariants with *next*, fair states, the deadlock check of a machine, and
  sharing of a cache between copies of a machine. A conjunction of AGs is
  checked conjunct by conjunct until one fails (`check_AG_only`, case AND), each
  like a specification of its own; `CheckAG` has one AG. `BmcUnknown` has one
  outcome for two: with a trace the open answer is printed, without one printing
  it is an internal error (`mc/mcInvar.c:1557`) that comes after the cache is
  stored; both leave the property unchecked and the same state at the prompt.
  `BMC_ERROR` (an algorithm that `bdd-bmc` does not offer, or no solver) ends
  the command before the cache is stored (`mc/mcInvar.c:1371`), and its effect is
  that of `Interrupt` at this stage.
- `BmcInvar`: LTL problems with loopbacks, the simple bounded encoding, dumping
  of problems. One property is checked over and over. The machines have no
  input variables, for which the backward closure refuses to work
  (`bmc/bmcBmcInc.c:829-846`), a solver is always available, and there is no ^C:
  these commands keep nothing but the status, which is set last. The one
  disjunctive problem of `Bmc_Gen_InvarProblem` is solved as its two disjuncts.
- `Trace`: that no client destroys a registered trace is taken as the contract
  it is; `trace_destroy` does not check it, and `RegisteredSurvives` is about
  the other calls.
- `SatMinisat`: preferred variables, polarity modes, interpolation.
- `NextCE`: properties over input and frozen variables; source files of
  commands; the cone of influence.

In order of importance, what would come next:

1. Fair states and the CTL fixpoints (`mc/mcEval.c`, `mc/mcExplain.c`) on `Fsm`,
   with the lassos that `NextCE` takes as given (`ltl/ltl.c`).
2. The LTL problems of `bmc` on `SatMinisat`.
3. `PropDb`: cone of influence, the machine a property owns, index look-ups;
   composed with `NextCE`.
4. `TraceManager` with executors, plugins, layers, and the completion and
   execution of traces.
5. `SymbTable`: layers, dependencies, encodings committed and removed, listeners.
6. `Options`, `simulate`, and the containers of `utils`.
