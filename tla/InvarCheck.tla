----------------------------- MODULE InvarCheck -----------------------------
(***************************************************************************)
(* Checking invariants with BDDs over a shared cache of reachable states:  *)
(* check_invar (mc/mcInvar.c), the AG-only check of CTL specifications     *)
(* (mc/mcAGonly.c) and compute_reachable, all on the onion rings that      *)
(* BddFsmCache keeps from one command to the next.                         *)
(*                                                                         *)
(* The rings are cumulative: layers[i] holds what i - 1 steps or fewer     *)
(* reach.  A check resumes the forward search where the last command left  *)
(* it, may search backwards from the bad states as well, may hand the gap  *)
(* between both searches to bounded model checking, and builds a           *)
(* counter-example by walking the rings.  Each turn of a loop is a step;   *)
(* ^C may end a command between two of them.                               *)
(*                                                                         *)
(* Operators commented "Faulty:" are variants with a bug in them of the    *)
(* definition that follows; no specification uses them.                    *)
(***************************************************************************)
EXTENDS Fsm

CONSTANTS
    Strategy,   \* the strategies the user asks for, a subset of Strategies
    MaxBmc      \* bmc_length: the transitions a bounded search may take

Strategies == {"forward", "backward", "forward-backward", "bdd-bmc"}

ASSUME SearchAssumption ==
    /\ Strategy \subseteq Strategies
    /\ MaxBmc \in Nat

VARIABLES
    fsm,            \* the machine of the session
    layers,         \* cache: reachable.layers, as many as reachable.diameter
    computed,       \* cache: reachable.computed
    pc,             \* the stage the command is at, "prompt" between commands
    job,            \* a strategy of check_invar, "ag", "expand" or "idle"
    limited,        \* compute_reachable has a limit of steps or time
    cex,            \* the option counter_examples
    bad,            \* the states to avoid
    status,         \* of the property: "none", "true", "false" or "unknown"
    fwd, bwd,       \* forward_reachable_list and backward_reachable_list
    rfront, bfront, \* reachable_frontier and bad_frontier
    target,         \* target_states
    lower, upper,   \* the bounds of the search among the cached layers
    path,           \* the states of the trace, so far
    fleft, bleft    \* the elements of fwd and bwd the path has yet to visit

cache == <<layers, computed>>
question == <<job, limited, cex, bad>>
search == <<fwd, bwd, rfront, bfront, target, lower, upper>>
walk == <<path, fleft, bleft>>
vars == <<fsm, cache, pc, question, status, search, walk>>

Final(s) == s[Len(s)]
Truncated(s) == SubSeq(s, 1, Len(s) - 1)

forwardStep == Len(fwd) - 1
backwardStep == Len(bwd) - 1

Init ==
    /\ fsm \in Machine
    /\ layers = << >> /\ computed = FALSE
    /\ pc = "prompt" /\ job = "idle" /\ limited = FALSE /\ cex = FALSE
    /\ bad = {} /\ status = "none"
    /\ fwd = << >> /\ bwd = << >> /\ rfront = {} /\ bfront = {} /\ target = {}
    /\ lower = 0 /\ upper = 0
    /\ path = << >> /\ fleft = 0 /\ bleft = 0

(* Faulty: the last layer is the frontier, however many layers there are.  *)
NoFrontier(rings) == {}

(* The states of the last layer that are in no earlier one.                *)
LastFrontier(rings) ==
    IF Len(rings) > 1 THEN Final(rings) \ rings[Len(rings) - 1] ELSE Final(rings)

(* The layers a search starts from: the cached ones, or the initial states.*)
StartingLayers == IF layers # << >> THEN layers ELSE <<InitStates(fsm)>>

-----------------------------------------------------------------------------
(* check_invar on a property whose negation is b, with strategy st.        *)
CheckInvar(st, b, wantCex) ==
    /\ pc = "prompt"
    /\ pc' = "start" /\ job' = st /\ cex' = wantCex /\ bad' = b
    /\ fwd' = StartingLayers /\ rfront' = LastFrontier(StartingLayers)
    /\ bwd' = <<b>> /\ bfront' = b
    /\ target' = b \cap Final(StartingLayers)
    /\ UNCHANGED <<fsm, cache, limited, status, lower, upper, walk>>

(* A bad initial state is the whole path.  Only an empty cache learns from *)
(* it.                                                                     *)
BugInInitialState ==
    /\ pc = "start" /\ target # {}
    /\ \E s \in InitStates(fsm) \cap bad :
           path' = IF cex THEN <<s>> ELSE << >>
    /\ status' = "false"
    /\ IF layers = << >>
       THEN layers' = <<InitStates(fsm)>> /\ computed' = FALSE
       ELSE UNCHANGED cache
    /\ pc' = "return"
    /\ UNCHANGED <<fsm, question, search, fleft, bleft>>

(* The bug is in a later cached layer; which one matters to the trace only.*)
BugInCachedLayers ==
    /\ pc = "start" /\ target # {} /\ InitStates(fsm) \cap bad = {}
    /\ IF cex
       THEN /\ pc' = "layers" /\ lower' = 0 /\ upper' = Len(layers) - 1
            /\ UNCHANGED status
       ELSE /\ pc' = "return" /\ status' = "false"
            /\ UNCHANGED <<lower, upper>>
    /\ UNCHANGED <<fsm, cache, question, fwd, bwd, rfront, bfront, target, walk>>

(* A trace in the making, with nf elements of fwd and nb of bwd to visit.  *)
StartPath(p, nf, nb) == path' = p /\ fleft' = nf /\ bleft' = nb

(* The state of the middle is chosen on the last turn.                     *)
Middle == IF 2 <= upper - lower THEN (upper + lower) \div 2 ELSE upper

Buggy(i) == layers[i + 1] \cap bad # {}

(* Faulty: the first buggy layer the search meets will do.                 *)
FirstBuggyIsAny(i) == Buggy(i)

FirstBuggy(i) == Buggy(i) /\ ~ Buggy(i - 1)

(* One turn of the binary search among the layers lower..upper, counted    *)
(* from 0.  It ends with a trace through the layers up to the buggy one.   *)
SearchLayers ==
    /\ pc = "layers"
    /\ IF upper - lower < 1
       THEN /\ pc' = "assertion"
            /\ UNCHANGED <<lower, upper, fwd, target, walk>>
       ELSE /\ target' = layers[Middle + 1] \cap bad
            /\ upper' = IF Buggy(Middle) THEN Middle ELSE upper
            /\ lower' = IF Buggy(Middle) THEN lower ELSE Middle
            /\ IF FirstBuggy(Middle)
               THEN /\ fwd' = SubSeq(fwd, 1, Middle + 1)
                    /\ pc' = "trace"
                    /\ \E s \in target' : StartPath(<<s>>, Middle, 0)
               ELSE UNCHANGED <<fwd, pc, walk>>
    /\ UNCHANGED <<fsm, cache, question, status, bwd, rfront, bfront>>

(* The cached layers are all there is, and none of them is buggy.          *)
AlreadyComplete ==
    /\ pc = "start" /\ target = {} /\ computed
    /\ status' = "true" /\ pc' = "return"
    /\ UNCHANGED <<fsm, cache, question, search, walk>>

BeginSearch ==
    /\ pc = "start" /\ target = {} /\ ~ computed
    /\ pc' = "search"
    /\ UNCHANGED <<fsm, cache, question, status, search, walk>>

-----------------------------------------------------------------------------
Searching == pc = "search" /\ bfront # {} /\ rfront # {} /\ target = {}

(* Faulty: what was reached before the step is forgotten.                  *)
GrowForgetting(S, image) == <<image, image \ S>>

(* What a step makes of a set and its frontier.                            *)
Grow(S, image) == <<S \cup image, image \ S>>

ForwardStep ==
    /\ Searching /\ job # "backward"
    /\ LET grown == Grow(Final(fwd), Image(fsm, rfront)) IN
           /\ fwd' = Append(fwd, grown[1])
           /\ rfront' = grown[2]
           /\ target' = Final(bwd) \cap grown[2]
    /\ UNCHANGED <<fsm, cache, pc, question, status, bwd, bfront, lower, upper, walk>>

BackwardStep ==
    /\ Searching /\ job # "forward"
    /\ LET grown == Grow(Final(bwd), Preimage(fsm, bfront)) IN
           /\ bwd' = Append(bwd, grown[1])
           /\ bfront' = grown[2]
           /\ target' = grown[1] \cap Final(fwd)
    /\ UNCHANGED <<fsm, cache, pc, question, status, fwd, rfront, lower, upper, walk>>

(* The search ends.  Both lists are walked from a target state.            *)
EndSearch ==
    /\ pc = "search" /\ ~ Searching
    /\ status' = IF target # {} THEN "false" ELSE "true"
    /\ IF target # {} /\ cex
       THEN /\ pc' = "trace"
            /\ \E s \in target : StartPath(<<s>>, forwardStep, backwardStep)
       ELSE pc' = "store" /\ UNCHANGED walk
    /\ UNCHANGED <<fsm, cache, question, search>>

-----------------------------------------------------------------------------
(* Faulty: the frontier counts as finished with.                           *)
FinishedWithAll(list) == IF Len(list) > 2 THEN Final(list) ELSE {}

(* Bounded model checking looks for a way from the forward frontier to the *)
(* backward one, and the states a search has finished with are removed     *)
(* from the machine: each list but its last element.                       *)
FinishedWith(list) == IF Len(list) > 2 THEN list[Len(list) - 1] ELSE {}

Allowed == fsm.invar \ (FinishedWith(fwd) \cup FinishedWith(bwd))

(* Unsatisfiable for every bound: some set has the frontier, is not left   *)
(* within the allowed states and misses the bad frontier.                  *)
GapProved ==
    \E S \in SUBSET Allowed :
        /\ rfront \cap Allowed \subseteq S
        /\ Image(fsm, S) \cap Allowed \subseteq S
        /\ S \cap bfront = {}

(* The paths a satisfying assignment may stand for.                        *)
GapPaths ==
    {p \in UNION {[1 .. n -> Allowed] : n \in 1 .. MaxBmc + 1} :
        p[1] \in rfront /\ IsChain(fsm, p) /\ p[Len(p)] \in bfront}

(* The bound grows from 0: the first satisfiable problem is the shortest.  *)
FirstGapPaths == {p \in GapPaths : \A q \in GapPaths : Len(p) <= Len(q)}

SwitchToBmc == Searching /\ job = "bdd-bmc"

BmcTrue ==
    /\ SwitchToBmc /\ GapProved
    /\ status' = "true" /\ pc' = "store"
    /\ UNCHANGED <<fsm, cache, question, search, walk>>

(* The bound is reached, or the property is not inductive.  With a trace   *)
(* this is printed as an answer, without one it is an internal error after *)
(* the cache is stored; both leave the property unchecked.                 *)
BmcUnknown ==
    /\ SwitchToBmc
    /\ status' = "unknown" /\ pc' = "store"
    /\ UNCHANGED <<fsm, cache, question, search, walk>>

(* The path found is completed at both ends.                               *)
BmcFalse ==
    /\ SwitchToBmc
    /\ \E p \in FirstGapPaths : IF cex THEN StartPath(p, forwardStep, backwardStep)
                                  ELSE UNCHANGED walk
    /\ status' = "false" /\ pc' = IF cex THEN "trace" ELSE "store"
    /\ UNCHANGED <<fsm, cache, question, search>>

-----------------------------------------------------------------------------
(* compute_and_complete_path: first forward along the elements of bwd,     *)
(* then backward along those of fwd.                                       *)
FollowBackwardList ==
    /\ pc = "trace" /\ bleft > 0
    /\ LET next == Image(fsm, {Final(path)}) \cap bwd[bleft] IN
       IF next = {}
       THEN pc' = "error" /\ UNCHANGED walk
       ELSE /\ \E s \in next : StartPath(Append(path, s), fleft, bleft - 1)
            /\ UNCHANGED pc
    /\ UNCHANGED <<fsm, cache, question, status, search>>

FollowForwardList ==
    /\ pc = "trace" /\ bleft = 0 /\ fleft > 0
    /\ LET previous == Preimage(fsm, {path[1]}) \cap fwd[fleft] IN
       IF previous = {}
       THEN pc' = "error" /\ UNCHANGED walk
       ELSE /\ \E s \in previous : StartPath(<<s>> \o path, fleft - 1, 0)
            /\ UNCHANGED pc
    /\ UNCHANGED <<fsm, cache, question, status, search>>

EndTrace ==
    /\ pc = "trace" /\ bleft = 0 /\ fleft = 0
    /\ status' = "false" /\ pc' = "store"
    /\ UNCHANGED <<fsm, cache, question, search, walk>>

(* Faulty: the layers are complete as soon as the search ends.             *)
StoreComplete ==
    /\ pc = "store"
    /\ IF forwardStep > Len(layers)
       THEN layers' = fwd /\ computed' = TRUE
       ELSE UNCHANGED cache
    /\ pc' = "return"
    /\ UNCHANGED <<fsm, question, status, search, walk>>

(* Faulty: the layers never count as complete.                             *)
StoreIncomplete ==
    /\ pc = "store"
    /\ IF forwardStep > Len(layers)
       THEN layers' = fwd /\ computed' = FALSE
       ELSE UNCHANGED cache
    /\ pc' = "return"
    /\ UNCHANGED <<fsm, question, status, search, walk>>

(* BddFsm_update_cached_reachable_states, if the forward steps outnumber   *)
(* the cached layers.  (They do not after a bug in the cached layers.)     *)
StoreLayers ==
    /\ pc = "store"
    /\ IF forwardStep > Len(layers)
       THEN layers' = fwd /\ computed' = (rfront = {})
       ELSE UNCHANGED cache
    /\ pc' = "return"
    /\ UNCHANGED <<fsm, question, status, search, walk>>

-----------------------------------------------------------------------------
(* BddFsm_expand_cached_reachable_states                                   *)
Complete == layers # << >> /\ computed

BeginExpand ==
    IF layers # << >>
    THEN fwd' = layers /\ rfront' = LastFrontier(layers)
    ELSE /\ fwd' = IF InitStates(fsm) = {} THEN << >> ELSE <<InitStates(fsm)>>
         /\ rfront' = InitStates(fsm)

ComputeReachable(hasLimit) ==
    /\ pc = "prompt"
    /\ job' = "expand" /\ limited' = hasLimit
    /\ IF Complete
       THEN pc' = "return" /\ UNCHANGED <<fwd, rfront>>
       ELSE pc' = "expand" /\ BeginExpand
    /\ UNCHANGED <<fsm, cache, cex, bad, status, bwd, bfront, target, lower, upper, walk>>

ExpandStep ==
    /\ pc = "expand" /\ rfront # {}
    /\ LET grown == Grow(Final(fwd), Image(fsm, rfront)) IN
           fwd' = Append(fwd, grown[1]) /\ rfront' = grown[2]
    /\ UNCHANGED <<fsm, cache, pc, question, status, bwd, bfront, target, lower, upper, walk>>

(* The fixpoint is reached, and its last layer repeats the one before it;  *)
(* or the steps or the time are over.                                      *)
ExpandEnd ==
    /\ pc = "expand" /\ (rfront = {} \/ limited)
    /\ computed' = (rfront = {})
    /\ layers' = IF rfront = {} /\ fwd # << >> THEN Truncated(fwd) ELSE fwd
    /\ pc' = IF job = "ag" THEN "ag" ELSE "return"
    /\ UNCHANGED <<fsm, question, status, search, walk>>

-----------------------------------------------------------------------------
(* The AG-only check of AG alpha, b the states where alpha fails: the      *)
(* reachable states are computed first, with no limit.  A conjunction is   *)
(* checked conjunct by conjunct until one fails; this is one of them.      *)
CheckAG(b, wantCex) ==
    /\ pc = "prompt"
    /\ job' = "ag" /\ bad' = b /\ cex' = wantCex
    /\ IF computed
       THEN pc' = "ag" /\ UNCHANGED <<fwd, rfront>>
       ELSE pc' = "expand" /\ BeginExpand
    /\ UNCHANGED <<fsm, cache, limited, status, bwd, bfront, target, lower, upper, walk>>

ReachableStates == IF layers = << >> THEN {} ELSE Final(layers)

(* BddFsm_get_reachable_states_at_distance                                 *)
AtDistance(d) == IF d = 0 THEN layers[1] ELSE layers[d + 1] \ layers[d]

(* BddFsm_get_minimum_distance_of_states                                   *)
IsMinimumDistance(d, S) ==
    /\ d \in 0 .. Len(layers) - 1
    /\ AtDistance(d) \cap S # {}
    /\ \A e \in 0 .. d - 1 : AtDistance(e) \cap S = {}

AgTrue ==
    /\ pc = "ag" /\ ReachableStates \cap bad = {}
    /\ status' = "true" /\ pc' = "return"
    /\ UNCHANGED <<fsm, cache, question, search, walk>>

(* Faulty: a bad initial state leaves a negative number.                   *)
LayersBelowSigned(d) == d - 1

(* make_AG_counterexample visits the distances d - 1 down to 1.            *)
LayersBelow(d) == IF d > 1 THEN d - 1 ELSE 0

AgFalse ==
    /\ pc = "ag" /\ ReachableStates \cap bad # {}
    /\ IF cex
       THEN /\ pc' = "agtrace"
            /\ \E d \in 0 .. Len(layers) - 1 :
                   /\ IsMinimumDistance(d, bad)
                   /\ \E s \in AtDistance(d) \cap bad :
                          StartPath(<<s>>, LayersBelow(d), 0)
            /\ UNCHANGED status
       ELSE pc' = "return" /\ status' = "false" /\ UNCHANGED walk
    /\ UNCHANGED <<fsm, cache, question, search>>

AgTraceStep ==
    /\ pc = "agtrace" /\ fleft > 0
    /\ LET previous == Preimage(fsm, {path[1]}) \cap AtDistance(fleft) IN
       IF previous = {}
       THEN pc' = "assertion" /\ UNCHANGED walk
       ELSE /\ \E s \in previous : StartPath(<<s>> \o path, fleft - 1, 0)
            /\ UNCHANGED pc
    /\ UNCHANGED <<fsm, cache, question, status, search>>

AgTraceEnd ==
    /\ pc = "agtrace" /\ fleft = 0
    /\ status' = "false" /\ pc' = "return"
    /\ UNCHANGED <<fsm, cache, question, search, walk>>

-----------------------------------------------------------------------------
ForgetCommand ==
    /\ pc' = "prompt" /\ job' = "idle" /\ limited' = FALSE /\ cex' = FALSE
    /\ bad' = {} /\ status' = "none"
    /\ fwd' = << >> /\ bwd' = << >> /\ rfront' = {} /\ bfront' = {} /\ target' = {}
    /\ lower' = 0 /\ upper' = 0
    /\ path' = << >> /\ fleft' = 0 /\ bleft' = 0
    /\ UNCHANGED <<fsm, cache>>

(* The command is over and its verdict printed.                            *)
Return == pc = "return" /\ ForgetCommand

(* ^C: back to the prompt, with the cache as it is.                        *)
Interrupt == pc \notin {"prompt", "return", "error", "assertion"} /\ ForgetCommand

Command ==
    \/ \E b \in SUBSET fsm.invar, wantCex \in BOOLEAN :
           (\E st \in Strategy : CheckInvar(st, b, wantCex)) \/ CheckAG(b, wantCex)
    \/ \E hasLimit \in BOOLEAN : ComputeReachable(hasLimit)

Work ==
    \/ BugInInitialState \/ BugInCachedLayers \/ SearchLayers
    \/ AlreadyComplete \/ BeginSearch
    \/ ForwardStep \/ BackwardStep \/ EndSearch
    \/ BmcTrue \/ BmcUnknown \/ BmcFalse
    \/ FollowBackwardList \/ FollowForwardList \/ EndTrace \/ StoreLayers
    \/ ExpandStep \/ ExpandEnd
    \/ AgTrue \/ AgFalse \/ AgTraceStep \/ AgTraceEnd
    \/ Return

Next == Command \/ Work \/ Interrupt

(* The program runs: a command goes on until it is over.                   *)
Spec == Init /\ [][Next]_vars /\ WF_vars(Work)

-----------------------------------------------------------------------------
Stages == {"prompt", "start", "layers", "search", "trace", "store", "return",
           "expand", "ag", "agtrace", "error", "assertion"}

(* The types of the variables.                                             *)
TypeOK ==
    /\ fsm \in Machine
    /\ layers \in Seq(SUBSET State) /\ computed \in BOOLEAN
    /\ pc \in Stages /\ job \in Strategies \cup {"ag", "expand", "idle"}
    /\ limited \in BOOLEAN /\ cex \in BOOLEAN
    /\ bad \in SUBSET State /\ status \in {"none", "true", "false", "unknown"}
    /\ fwd \in Seq(SUBSET State) /\ bwd \in Seq(SUBSET State)
    /\ rfront \in SUBSET State /\ bfront \in SUBSET State /\ target \in SUBSET State
    /\ lower \in Nat /\ upper \in Int
    /\ path \in Seq(State) /\ fleft \in Nat /\ bleft \in Nat

(* The cache holds exactly the states within 0, 1, 2... steps although each*)
(* command only takes the image of what it finds new, and a cache that     *)
(* counts as computed holds all there is.  (BddFsm_get_reachable_states)   *)
CacheIsExact ==
    /\ layers # << >> => layers[1] = InitStates(fsm)
    /\ \A i \in 1 .. Len(layers) - 1 :
           layers[i + 1] = layers[i] \cup Image(fsm, layers[i])
    /\ computed => IF layers = << >> THEN InitStates(fsm) = {}
                                     ELSE Closed(fsm, Final(layers))

(* The diameter is at most one too large: only the last layer of a complete*)
(* cache may repeat the one before, when check_invar completed it.         *)
LayersGrow ==
    \A i \in 1 .. Len(layers) - 1 :
        layers[i] = layers[i + 1] => computed /\ i + 1 = Len(layers)

(* Whatever strategy and whatever the cache held, a verdict is right.      *)
VerdictIsRight ==
    /\ status = "true" => Reachable(fsm) \cap bad = {}
    /\ status = "false" => Reachable(fsm) \cap bad # {}

(* "Intersection == emptyset" and the assertions of the binary search and  *)
(* of the AG-only trace do not occur: the walk along the layers never gets *)
(* stuck (compute_and_complete_path, make_AG_counterexample).              *)
NeverStuck == pc \notin {"error", "assertion"}

(* A trace of check_invar is a run to a bad state, and none is shorter: the*)
(* searches meet where the distances add up.                               *)
TraceIsShortest ==
    pc = "return" /\ job \in Strategies /\ status = "false" /\ cex =>
        /\ IsCounterExample(fsm, path, bad)
        /\ Len(path) > 1 => Within(fsm)[Len(path) - 2] \cap bad = {}

(* A trace of the AG-only check leads to a bad state along transitions.    *)
AgTraceIsChain ==
    pc = "return" /\ job = "ag" /\ status = "false" /\ cex =>
        path # << >> /\ IsChain(fsm, path) /\ Final(path) \in bad

(* The trace printed for a false AG-only specification is announced as "the*)
(* following execution sequence" that demonstrates it (Mc_CheckAGOnlySpec):*)
(* a run from an initial state to a bad one.  make_AG_counterexample stops *)
(* walking back before it reaches distance 0.                              *)
AgTraceIsCounterExample ==
    pc = "return" /\ job = "ag" /\ status = "false" /\ cex =>
        IsCounterExample(fsm, path, bad)

(* No command and no interrupt loses reachable states that are cached, or  *)
(* the knowledge that they are all.                                        *)
NeverForgets ==
    [][layers # << >> => /\ layers' # << >>
                         /\ Final(layers) \subseteq Final(layers')
                         /\ computed => computed']_vars

(* The checks as an oracle: every question is answered in the end, right,  *)
(* and independently of the cache (InvarOracle).                           *)
Oracle == INSTANCE InvarOracle WITH
    asked <- IF job \in Strategies \cup {"ag"} THEN <<bad>> ELSE << >>,
    mayGiveUp <- job = "bdd-bmc",
    answer <- status

AnswersLikeAnOracle == Oracle!Spec
=============================================================================
