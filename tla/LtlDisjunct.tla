---------------------------- MODULE LtlDisjunct ----------------------------
(***************************************************************************)
(* From a counter-example to the LTL formula that excludes it, loop by     *)
(* loop: find_trunc_trace_step, find_init_trace_step, the copying loop of  *)
(* Trace_copy_ex and generate_disjunc_1 .. 4, where a formula is what it   *)
(* means in LTL with past.                                                 *)
(* Operators commented "Faulty:" are variants with a bug in them of the    *)
(* definition that follows; no specification uses them.                    *)
(***************************************************************************)
EXTENDS FiPath

CONSTANTS
    inv,    \* the states where the invariant of the property holds
    Cex     \* paths violating inv

ASSUME CexAssumption == \A t \in Cex : IsPath(t) /\ Violates(inv, t)

VARIABLES
    class,  \* the equivalence class in force
    trace,  \* the counter-example
    pc,     \* the loop in execution
    step,   \* its iterator into the trace (0 for NULL)
    until,  \* result of find_trunc_trace_step (0 for NULL)
    from,   \* result of find_init_trace_step (0 for NULL)
    fipath, \* the copy
    expr    \* the formula under construction

vars == <<class, trace, pc, step, until, from, fipath, expr>>

-----------------------------------------------------------------------------
(* A formula is what it means: the points, paths with a position, where it *)
(* holds in LTL with past.  The paths are the counter-examples, and for    *)
(* test_expr_in_state those of one state.  Every until is of the form      *)
(* inv U ..., and a counter-example violates inv, so no witness lies       *)
(* beyond its end.                                                         *)
Points == UNION {{t} \X (1 .. Len(t)) : t \in Cex \cup {<<s>> : s \in State}}

IsState(s) == {p \in Points : p[1][p[2]] = s}        \* generate_state_eq
InvExpr == {p \in Points : p[1][p[2]] \in inv}       \* get_inv
Not(f) == Points \ f
And(f, g) == f \cap g
Prev(f) == {p \in Points : <<p[1], p[2] - 1>> \in f}
Until(f, g) ==
    {p \in Points : \E j \in p[2] .. Len(p[1]) :
        /\ <<p[1], j>> \in g
        /\ \A m \in p[2] .. j - 1 : <<p[1], m>> \in f}

(* test_expr_in_state: the formula is checked on a machine that starts in  *)
(* the state of the step and stays there.                                  *)
HoldsInStep(f, t, i) == <<<<t[i]>>, 1>> \in f

-----------------------------------------------------------------------------
Init ==
    /\ class \in EqClass
    /\ trace \in Cex
    /\ pc = "trunc" /\ step = 1
    /\ until = 0 /\ from = 0
    /\ fipath = << >>
    /\ expr = InvExpr

Stuck == step        \* Faulty: the iterator does not move
NextStep == step + 1

(* find_trunc_trace_step, one turn of the loop.                            *)
TruncLoop ==
    /\ pc = "trunc"
    /\ \/ /\ HoldsInStep(InvExpr, trace, step)
          /\ step' = NextStep
          /\ UNCHANGED <<pc, until>>
       \/ /\ ~ HoldsInStep(InvExpr, trace, step)
          /\ until' = step
          /\ pc' = "init" /\ step' = 1
    /\ UNCHANGED <<class, trace, from, fipath, expr>>

FirstInit ==         \* Faulty: the first initial step
    IF trace[step] \in InitExpr /\ from = 0 THEN step ELSE from
LastInit == IF trace[step] \in InitExpr THEN step ELSE from

(* find_init_trace_step: the last step that satisfies the init expression. *)
InitLoop ==
    /\ pc = "init"
    /\ \/ /\ step # until
          /\ from' = LastInit
          /\ step' = NextStep
          /\ UNCHANGED pc
       \/ /\ step = until
          /\ pc' = "copy"
          /\ step' = IF from = 0 THEN 1 ELSE from
          /\ UNCHANGED from
    /\ UNCHANGED <<class, trace, until, fipath, expr>>

(* Trace_copy_ex(trace, from_here, until_here): until_here is included.    *)
CopyLoop ==
    /\ pc = "copy"
    /\ fipath' = Append(fipath, trace[step])
    /\ \/ step # until /\ step' = NextStep /\ UNCHANGED pc
       \/ step = until /\ step' = Len(fipath') /\ pc' = "last"
    /\ UNCHANGED <<class, trace, until, from, expr>>

Bad == And(Not(InvExpr), IsState(fipath[step]))

(* Faulty: the last state twice.                                           *)
Disjunct2Twice == Until(InvExpr, And(Prev(IsState(fipath[step])), Bad))

(* generate_disjunc_2                                                      *)
Disjunct2 ==
    Until(InvExpr, And(Not(InvExpr), And(Prev(IsState(fipath[step - 1])),
                                         IsState(fipath[step]))))

(* Faulty: the last state is forgotten.                                    *)
Disjunct4Forgets == Until(InvExpr, Not(InvExpr))

(* generate_disjunc_4                                                      *)
Disjunct4 == Until(InvExpr, Bad)

(* generate_disjunc: the part that looks at the last step of the FIPATH.   *)
(* Class 2 asks for the state before it, an internal error if there is     *)
(* none.                                                                   *)
LastOfFipath ==
    /\ pc = "last"
    /\ \/ class = 1 /\ expr' = Bad /\ step' = step - 1 /\ pc' = "chain"
       \/ class = 2 /\ step > 1 /\ expr' = Disjunct2 /\ step' = step - 1 /\ pc' = "done"
       \/ class = 2 /\ step = 1 /\ UNCHANGED expr /\ step' = 0 /\ pc' = "error"
       \/ /\ class = 3
          /\ expr' = And(IsState(fipath[1]), Disjunct4)
          /\ pc' = "done" /\ UNCHANGED step
       \/ class = 4 /\ expr' = Disjunct4 /\ pc' = "done" /\ UNCHANGED step
    /\ UNCHANGED <<class, trace, until, from, fipath>>

BeforeFirst == step <= 1   \* Faulty: stops before the first step
NoStepLeft == step = 0

(* generate_disjunc_1: backwards to the first step of the FIPATH.          *)
ChainLoop ==
    /\ pc = "chain"
    /\ \/ /\ ~ NoStepLeft
          /\ expr' = And(IsState(fipath[step]), Until(InvExpr, expr))
          /\ step' = step - 1
          /\ UNCHANGED pc
       \/ NoStepLeft /\ pc' = "done" /\ UNCHANGED <<expr, step>>
    /\ UNCHANGED <<class, trace, until, from, fipath>>

Next == TruncLoop \/ InitLoop \/ CopyLoop \/ LastOfFipath \/ ChainLoop

Spec == Init /\ [][Next]_vars /\ WF_vars(Next)

-----------------------------------------------------------------------------
(* The loops compute the FIPATH that the session model uses.               *)
FipathIsClosedForm ==
    pc \in {"last", "chain", "done", "error"} => fipath = Fipath(inv, trace)

(* The formula means what the session model takes it to mean, on every     *)
(* path that violates inv.                                                 *)
FormulaIsClosedForm ==
    pc = "done" => \A t \in Cex :
        <<t, 1>> \in expr <=> Holds(Disjunct(class, inv, trace), inv, t)

(* Classes 2 and 4 exclude the counter-example they were generated from;   *)
(* classes 1 and 3 do whenever trimming does not change its first state.   *)
(* So the checker cannot come back with the same one.                      *)
ExcludesItsOwn ==
    pc = "done" /\ (class \in {2, 4} \/ fipath[1] = trace[1])
        => <<trace, 1>> \in expr

(* The classes are nested as the numbering suggests: what a disjunct of    *)
(* class 1 excludes, the one of class 3 excludes too, and whatever any of  *)
(* them excludes, class 4 excludes.                                        *)
ClassesNest ==
    pc = "done" => \A t \in Cex : <<t, 1>> \in expr =>
        /\ class = 1 => Holds(Disjunct(3, inv, trace), inv, t)
        /\ Holds(Disjunct(4, inv, trace), inv, t)

(* A disjunct is generated unless class 2 meets a bad first state.         *)
EndsInFormula == <>(pc = "done" \/ (pc = "error" /\ class = 2 /\ until = 1))
=============================================================================
