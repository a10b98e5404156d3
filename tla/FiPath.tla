------------------------------- MODULE FiPath -------------------------------
(***************************************************************************)
(* The trimming of a counter-example and the meaning of the "disjuncts"    *)
(* built from it (nextce/NextCECmd.c).                                     *)
(*                                                                         *)
(* The property under test is LTLSPEC G(inv).  A state is what             *)
(* generate_state_eq conjoins: a value for every variable, so two steps    *)
(* satisfy the same state equation iff they are the same state.  inv is    *)
(* the set of the states where the invariant holds.                        *)
(***************************************************************************)
EXTENDS Integers, Sequences

CONSTANTS
    State,      \* the states of the flat model
    InitState,  \* the initial states of the model
    Trans,      \* its transition relation
    InitExpr    \* the states satisfying construct_is_init_state_expr: the
                \* conjunction of the init(v) := e assignments only, so a
                \* superset of InitState when INIT or INVAR say more

ASSUME FsmAssumption ==
    /\ InitExpr \subseteq State
    /\ InitState \subseteq InitExpr
    /\ Trans \subseteq State \X State

-----------------------------------------------------------------------------
(* A trace is a path of the model, as long as the trace object: the lasso  *)
(* the checker builds, unrolled once.                                      *)
IsPath(t) ==
    /\ t \in Seq(State)
    /\ t # << >>
    /\ t[1] \in InitState
    /\ \A i \in 1 .. Len(t) - 1 : <<t[i], t[i + 1]>> \in Trans

Violates(inv, t) == \E i \in 1 .. Len(t) : t[i] \notin inv

(* find_trunc_trace_step: the first step where inv does not hold.          *)
TruncStep(inv, t) ==
    CHOOSE k \in 1 .. Len(t) :
        /\ t[k] \notin inv
        /\ \A j \in 1 .. k - 1 : t[j] \in inv

(* find_init_trace_step: the last step before until_here that looks like   *)
(* an initial state.  When there is none it returns NULL, which            *)
(* Trace_copy_ex reads as "from the first step".                           *)
InitStep(t, until) ==
    IF \E i \in 1 .. until - 1 : t[i] \in InitExpr
    THEN CHOOSE i \in 1 .. until - 1 :
            /\ t[i] \in InitExpr
            /\ \A j \in i + 1 .. until - 1 : t[j] \notin InitExpr
    ELSE 1

(* Faulty: the copy starts where it should end.                            *)
FipathOfLast(inv, t) == <<t[TruncStep(inv, t)]>>

(* create_fipath                                                           *)
Fipath(inv, t) ==
    LET until == TruncStep(inv, t)
    IN  SubSeq(t, InitStep(t, until), until)

-----------------------------------------------------------------------------
(* A disjunct is kept as its equivalence class and the FIPATH it was       *)
(* generated from.  Holds(d, t) is the truth of the generated LTL formula  *)
(* on a path t that violates inv; k is the first violation, n the length   *)
(* of the FIPATH.  (LtlDisjunct.tla gives the formulas and their           *)
(* semantics, and checks these closed forms against them.)                 *)
EqClass == 1 .. 4

Disjunct(c, inv, t) == [class |-> c, path |-> Fipath(inv, t)]

(* class 1: c1 & (inv U (c2 & inv U ( ... (!inv & cn)))) : the FIPATH is   *)
(* embedded in the path, in order, from its first state to its violation.  *)
Embeds(c, t, k) ==
    LET n == Len(c)
    IN  \E f \in [1 .. n -> 1 .. k] :
            /\ f[1] = 1
            /\ f[n] = k
            /\ \A i \in 1 .. n : t[f[i]] = c[i]
            /\ \A i \in 1 .. n - 1 : f[i] <= f[i + 1]

(* class 2: inv U (!inv & (Y before_last & last))                          *)
SameLastEdge(c, t, k) ==
    LET n == Len(c)
    IN  /\ n > 1
        /\ k > 1
        /\ t[k] = c[n]
        /\ t[k - 1] = c[n - 1]

(* class 3: first & (inv U (!inv & last))                                  *)
SameEnds(c, t, k) == t[1] = c[1] /\ t[k] = c[Len(c)]

(* class 4: inv U (!inv & last)                                            *)
SameLast(c, t, k) == t[k] = c[Len(c)]

Holds(d, inv, t) ==
    LET k == TruncStep(inv, t)
    IN  \/ d.class = 1 /\ Embeds(d.path, t, k)
        \/ d.class = 2 /\ SameLastEdge(d.path, t, k)
        \/ d.class = 3 /\ SameEnds(d.path, t, k)
        \/ d.class = 4 /\ SameLast(d.path, t, k)

(* Two counter-examples count as one for the user when they violate inv in *)
(* the same way, or when the disjunct of the first holds on the second.    *)
BadPrefix(inv, t) == SubSeq(t, 1, TruncStep(inv, t))

Equivalent(c, inv, s, t) ==
    \/ BadPrefix(inv, s) = BadPrefix(inv, t)
    \/ Holds(Disjunct(c, inv, s), inv, t)

(* create_new_expr: the original formula, or-ed with every disjunct.  t    *)
(* is a counter-example of the new formula iff it makes all of them false. *)
Refutes(inv, disjuncts, t) ==
    /\ Violates(inv, t)
    /\ \A i \in DOMAIN disjuncts : ~ Holds(disjuncts[i], inv, t)
=============================================================================
