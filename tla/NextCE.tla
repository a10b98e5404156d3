------------------------------- MODULE NextCE -------------------------------
(***************************************************************************)
(* A NuSMV session with the nextce add-on (nextce/NextCECmd.c, NextCE.c):  *)
(* the commands check_ltlspec, next_ce, compute_all, reset_ce and          *)
(* "set ce_equivalence" over the properties LTLSPEC G(inv) of one model.   *)
(*                                                                         *)
(* A command runs over the properties first..last of the database, one     *)
(* after the other.  displayNextCE on one property goes through the stages *)
(*                                                                         *)
(*   "prepare"  create_updated_prop: which property object to verify       *)
(*   "check"    Ltl_StructCheckLtlSpec_check: its verdict                  *)
(*   "explain"  Ltl_StructCheckLtlSpec_explain: build, register and print  *)
(*              a counter-example                                          *)
(*   "commit"   the bookkeeping after Prop_verify                          *)
(*                                                                         *)
(* and SIGINT may longjmp back to the prompt between them.                 *)
(*                                                                         *)
(* Operators commented "Faulty:" are variants of the definition that       *)
(* follows them with a bug in it.  No specification uses them; they show   *)
(* that the properties tell the bug from the code.                         *)
(***************************************************************************)
EXTENDS FiPath

CONSTANTS
    NProps,         \* number of properties in the database
    Inv,            \* Inv[p]: the states where the invariant of p holds
    Cex,            \* the counter-examples the checker may build
    OtherTrace,     \* traces of other commands (simulate)
    Class,          \* the classes the user sets, 5 standing for no class
    MaxTraces,      \* bound: no new command once so many traces are stored
    MaxDisjuncts,   \* bound: no interrupt once so many disjuncts are stored
    InterruptAt,    \* the stages at which the user hits ^C
    ResetUnchecked, \* does the user reset a property never checked?
    CexOff          \* does the user unset counter_examples?

Prop == 0 .. NProps - 1

ASSUME SessionAssumption ==
    /\ NProps \in Nat \ {0}
    /\ Inv \in [Prop -> SUBSET State]
    /\ \A t \in Cex \cup OtherTrace : IsPath(t)
    /\ Class \subseteq 1 .. 5
    /\ InterruptAt \subseteq {"prepare", "check", "explain", "commit"}
    /\ ResetUnchecked \in BOOLEAN
    /\ CexOff \in BOOLEAN
    /\ MaxTraces \in Nat
    /\ MaxDisjuncts \in Nat

VARIABLES
    status,     \* status[p]: Prop_get_status
    ptrace,     \* ptrace[p]: Prop_get_trace, 0 when there is none
    nextce,     \* nextce[p]: Prop_get_nextce_data, status "None" for NULL
    traces,     \* the list of the global trace manager
    eqClass,    \* equivalence_class
    cexOn,      \* option counter_examples
    cmd,        \* the command in execution, "idle" or "dead"
    cur, last,  \* the property it is at, the last one it will visit
    stage,      \* see above
    target,     \* new_prop: the property itself or a clone with disjuncts
    result,     \* status of new_prop
    newTrace,   \* trace of new_prop
    failed,     \* the last command ended in an internal error
    shown       \* history: shown[p], the counter-examples printed since the
                \* enumeration of p was last (re)started

data    == <<status, ptrace, nextce, traces>>
options == <<eqClass, cexOn>>
control == <<cmd, cur, last, stage, target, result, newTrace, failed>>
vars    == <<status, ptrace, nextce, traces, eqClass, cexOn, cmd, cur, last,
             stage, target, result, newTrace, failed, shown>>

Commands == {"check_ltlspec", "next_ce", "compute_all"}
Stages == {"prepare", "check", "explain", "commit"}
NoTarget == [self |-> FALSE, disjuncts |-> << >>]
NoNextCE == [status |-> "None", disjuncts |-> << >>]

Busy == cmd \in Commands
Displaying == cmd \in {"next_ce", "compute_all"}

-----------------------------------------------------------------------------
(* NextCE_create, where the data is missing.                               *)
CreateIfMissing(n) == IF n = NoNextCE THEN [n EXCEPT !.status = "Unknown"] ELSE n

(* Faulty: the last disjunct replaces the others.                          *)
WithOnlyDisjunct(n, d) == [CreateIfMissing(n) EXCEPT !.disjuncts = <<d>>]

(* generate_and_append_disjunc, create_new_expr: every disjunct counts.    *)
WithDisjunct(n, d) == [CreateIfMissing(n) EXCEPT !.disjuncts = Append(@, d)]

(* Faulty: the disjuncts are not cleared.                                  *)
ResetStatusOf(n) == [n EXCEPT !.status = "Reset"]

(* resetceDoOne: create or clear the disjuncts, status Reset.              *)
ResetOf(n) == [n EXCEPT !.status = "Reset", !.disjuncts = << >>]

AnchorOf(p) == traces[ptrace[p]]   \* get_ce

(* Faulty: every class is treated as class 4.                              *)
LastDisjunct(p) == Disjunct(4, Inv[p], AnchorOf(p))

NewDisjunct(p) == Disjunct(eqClass, Inv[p], AnchorOf(p))

(* The class is the default one, or was set before the model was read.     *)
Init ==
    /\ status = [p \in Prop |-> "Unchecked"]
    /\ ptrace = [p \in Prop |-> 0]
    /\ nextce = [p \in Prop |-> NoNextCE]
    /\ traces = << >>
    /\ eqClass \in Class
    /\ cexOn = TRUE
    /\ cmd = "idle" /\ cur = 0 /\ last = 0 /\ stage = "prepare"
    /\ target = NoTarget /\ result = "Unchecked" /\ newTrace = 0
    /\ failed = FALSE
    /\ shown = [p \in Prop |-> << >>]

(* Back to the prompt.                                                     *)
ToPrompt ==
    /\ cmd' = "idle" /\ cur' = 0 /\ last' = 0 /\ stage' = "prepare"
    /\ target' = NoTarget /\ result' = "Unchecked" /\ newTrace' = 0

PastLast == cur > last    \* Faulty: the loop runs once too often
AtLast == cur = last

SameProp == cur           \* Faulty: the loop does not move on
NextProp == cur + 1

(* The loop of the command goes on to the next property, or is done.       *)
Advance ==
    /\ UNCHANGED failed
    /\ \/ AtLast /\ ToPrompt
       \/ /\ ~ AtLast
          /\ cur' = NextProp
          /\ stage' = "prepare" /\ target' = NoTarget
          /\ result' = "Unchecked" /\ newTrace' = 0
          /\ UNCHANGED <<cmd, last>>

-----------------------------------------------------------------------------
(* The user, at the prompt.                                                *)

(* -n p addresses one property, no option addresses all of them.           *)
Addressed(first, end) == first = end \/ (first = 0 /\ end = NProps - 1)

SelectedAll(first, end) == Prop   \* Faulty: -n is ignored
Selected(first, end) == first .. end

StartCommand(c, first, end) ==
    /\ cmd = "idle"
    /\ Len(traces) < MaxTraces
    /\ Addressed(first, end)
    /\ cmd' = c /\ cur' = first /\ last' = end /\ failed' = FALSE
    /\ UNCHANGED <<data, options, stage, target, result, newTrace, shown>>

ResetCE(first, end) ==
    /\ cmd = "idle"
    /\ Addressed(first, end)
    /\ ResetUnchecked \/ \A p \in first .. end : status[p] # "Unchecked"
    /\ nextce' = [p \in Prop |-> IF p \in Selected(first, end)
                                 THEN ResetOf(nextce[p]) ELSE nextce[p]]
    /\ shown' = [p \in Prop |-> IF p \in first .. end THEN << >> ELSE shown[p]]
    /\ UNCHANGED <<status, ptrace, traces, options, control>>

(* NextCE_set_equivalence_class: resetAllCE, then the assignment.          *)
SetEquivalence(c) ==
    /\ cmd = "idle"
    /\ ResetUnchecked \/ \A p \in Prop : status[p] # "Unchecked"
    /\ nextce' = [p \in Prop |-> ResetOf(nextce[p])]
    /\ shown' = [p \in Prop |-> << >>]
    /\ eqClass' = c
    /\ UNCHANGED <<status, ptrace, traces, cexOn, control>>

SetCounterExamples(b) ==
    /\ CexOff
    /\ cmd = "idle"
    /\ cexOn' = b
    /\ UNCHANGED <<data, eqClass, control, shown>>

RegisterOtherTrace(t) ==
    /\ cmd = "idle"
    /\ Len(traces) + 1 < MaxTraces    \* room is left for a counter-example
    /\ traces' = Append(traces, t)
    /\ UNCHANGED <<status, ptrace, nextce, options, control, shown>>

-----------------------------------------------------------------------------
(* Stage "prepare".                                                        *)

Preparing == stage = "prepare" /\ Displaying

Verify(self, disjuncts) ==
    /\ stage' = "check"
    /\ target' = [self |-> self, disjuncts |-> disjuncts]
    /\ newTrace' = IF self THEN ptrace[cur] ELSE 0
    /\ UNCHANGED <<cmd, cur, last, result, failed>>

(* check_ltlspec ignores the properties already checked.                   *)
CheckProperty ==
    /\ cmd = "check_ltlspec" /\ stage = "prepare"
    /\ \/ status[cur] = "Unchecked" /\ Verify(TRUE, << >>)
       \/ status[cur] # "Unchecked" /\ Advance
    /\ UNCHANGED <<data, options, shown>>

(* create_updated_prop after a reset: a clone of the original property.    *)
VerifyClone ==
    /\ Preparing
    /\ nextce[cur].status = "Reset"
    /\ Verify(FALSE, << >>)
    /\ UNCHANGED <<data, options, shown>>

(* A property never checked is verified itself.                            *)
VerifyItself ==
    /\ Preparing
    /\ nextce[cur].status # "Reset"
    /\ status[cur] = "Unchecked"
    /\ Verify(TRUE, << >>)
    /\ UNCHANGED <<data, options, shown>>

(* "No more counterexamples", displayNextCE returns 0.                     *)
NoMoreCE ==
    /\ Preparing
    /\ status[cur] # "Unchecked"
    /\ nextce[cur].status = "True"
    /\ Advance
    /\ UNCHANGED <<data, options, shown>>

(* The property has been checked and may have more counter-examples: its   *)
(* last one is turned into a disjunct.                                     *)
Extending ==
    /\ Preparing
    /\ nextce[cur].status \notin {"Reset", "True"}
    /\ status[cur] # "Unchecked"

AddDisjunct ==
    /\ Extending
    /\ ptrace[cur] # 0
    /\ eqClass \in EqClass
    /\ eqClass = 2 => Len(Fipath(Inv[cur], AnchorOf(cur))) > 1
    /\ LET n == WithDisjunct(nextce[cur], NewDisjunct(cur))
       IN  /\ nextce' = [nextce EXCEPT ![cur] = n]
           /\ Verify(FALSE, n.disjuncts)
    /\ UNCHANGED <<status, ptrace, traces, options, shown>>

(* generate_disjunc_2 asks for the state before the only one: an internal  *)
(* error, raised before anything was stored.                               *)
NoStateBeforeLast ==
    /\ Extending
    /\ ptrace[cur] # 0
    /\ eqClass = 2
    /\ Len(Fipath(Inv[cur], AnchorOf(cur))) = 1
    /\ ToPrompt
    /\ failed' = TRUE
    /\ UNCHANGED <<data, options, shown>>

(* The process dies: the assertion of TraceManager_get_trace_at_index on   *)
(* index -1, or Expr_or on the NULL disjunct of an unknown class.          *)
Die ==
    /\ Extending
    /\ ptrace[cur] = 0 \/ eqClass \notin EqClass
    /\ cmd' = "dead"
    /\ UNCHANGED <<data, options, cur, last, stage, target, result, newTrace,
                   failed, shown>>

-----------------------------------------------------------------------------
(* Prop_verify on new_prop, Ltl_CheckLtlSpecEx.                            *)

StatusOfTarget(verdict) ==
    status' = IF target.self THEN [status EXCEPT ![cur] = verdict] ELSE status

Candidates == {t \in Cex : Refutes(Inv[cur], target.disjuncts, t)}

VerdictTrue ==
    /\ Busy /\ stage = "check"
    /\ Candidates = {}
    /\ StatusOfTarget("True")
    /\ result' = "True" /\ stage' = "commit"
    /\ UNCHANGED <<ptrace, nextce, traces, options, cmd, cur, last, target,
                   newTrace, failed, shown>>

VerdictFalse ==
    /\ Busy /\ stage = "check"
    /\ Candidates # {}
    /\ StatusOfTarget("False")
    /\ result' = "False"
    /\ stage' = IF cexOn THEN "explain" ELSE "commit"
    /\ UNCHANGED <<ptrace, nextce, traces, options, cmd, cur, last, target,
                   newTrace, failed, shown>>

NoIndex == newTrace          \* Faulty: the new index is not recorded
IndexBefore == Len(traces)   \* Faulty: off by one
NewIndex == Len(traces) + 1

(* The witness is registered with the trace manager and printed.           *)
Explain(t) ==
    /\ Busy /\ stage = "explain"
    /\ Refutes(Inv[cur], target.disjuncts, t)
    /\ traces' = Append(traces, t)
    /\ shown' = [shown EXCEPT ![cur] = Append(@, t)]
    /\ newTrace' = NewIndex
    /\ stage' = "commit"
    /\ UNCHANGED <<status, ptrace, nextce, options, cmd, cur, last, target,
                   result, failed>>

-----------------------------------------------------------------------------
(* Stage "commit": Prop_set_trace and the rest of displayNextCE.           *)

(* Faulty: one status for all the properties.                              *)
RecordForAll(s) ==
    nextce' = [p \in Prop |-> [CreateIfMissing(nextce[p]) EXCEPT !.status = s]]

Record(s) ==
    nextce' = [nextce EXCEPT ![cur] = [CreateIfMissing(@) EXCEPT !.status = s]]

CommitCheck ==
    /\ cmd = "check_ltlspec" /\ stage = "commit"
    /\ ptrace' = [ptrace EXCEPT ![cur] = newTrace]
    /\ Advance
    /\ UNCHANGED <<status, nextce, traces, options, shown>>

CommitTrue ==
    /\ Displaying /\ stage = "commit"
    /\ result = "True"
    /\ Record("True")
    /\ Advance
    /\ UNCHANGED <<status, ptrace, traces, options, shown>>

(* next_ce goes on to the next property, compute_all stays at this one.    *)
CommitFalse ==
    /\ Displaying /\ stage = "commit"
    /\ result = "False"
    /\ Record("False")
    /\ ptrace' = [ptrace EXCEPT ![cur] = newTrace]
    /\ \/ cmd = "next_ce" /\ Advance
       \/ /\ cmd = "compute_all"
          /\ stage' = "prepare" /\ target' = NoTarget
          /\ result' = "Unchecked" /\ newTrace' = 0
          /\ UNCHANGED <<cmd, cur, last, failed>>
    /\ UNCHANGED <<status, traces, options, shown>>

(* SIGINT: sigterm longjmps out of the command.                            *)
Interrupt ==
    /\ Busy
    /\ stage \in InterruptAt
    /\ Len(nextce[cur].disjuncts) <= MaxDisjuncts
    /\ ToPrompt
    /\ UNCHANGED <<data, options, failed, shown>>

-----------------------------------------------------------------------------
User ==
    \/ \E c \in Commands, first, end \in Prop : StartCommand(c, first, end)
    \/ \E first, end \in Prop : ResetCE(first, end)
    \/ \E c \in Class : SetEquivalence(c)
    \/ \E b \in BOOLEAN : SetCounterExamples(b)
    \/ \E t \in OtherTrace : RegisterOtherTrace(t)
    \/ Interrupt

Step ==
    \/ CheckProperty \/ VerifyClone \/ VerifyItself \/ NoMoreCE
    \/ AddDisjunct \/ NoStateBeforeLast \/ Die
    \/ VerdictTrue \/ VerdictFalse
    \/ \E t \in Cex : Explain(t)
    \/ CommitCheck \/ CommitTrue \/ CommitFalse

Next == User \/ Step

Spec == Init /\ [][Next]_vars

(* One thread runs the command to its end; the user need do nothing.       *)
FairSpec == Spec /\ WF_vars(Step)

-----------------------------------------------------------------------------
(***************************************************************************)
(* Properties.                                                             *)
(***************************************************************************)

Indices == 0 .. Len(traces)
NextCEStatus == {"None", "Unknown", "Reset", "False", "True"}
DisjunctType == [class : EqClass, path : Seq(State)]

(* The types of the variables; a running command is at a property of the   *)
(* database and will not run past its end.                                 *)
TypeOK ==
    /\ status \in [Prop -> {"Unchecked", "True", "False"}]
    /\ ptrace \in [Prop -> Indices]
    /\ nextce \in [Prop -> [status : NextCEStatus, disjuncts : Seq(DisjunctType)]]
    /\ traces \in Seq(Cex \cup OtherTrace)
    /\ eqClass \in 1 .. 5
    /\ cexOn \in BOOLEAN
    /\ cmd \in Commands \cup {"idle", "dead"}
    /\ cur \in Prop /\ last \in Prop /\ cur <= last
    /\ stage \in Stages
    /\ target \in [self : BOOLEAN, disjuncts : Seq(DisjunctType)]
    /\ result \in {"Unchecked", "True", "False"}
    /\ newTrace \in Indices
    /\ failed \in BOOLEAN
    /\ shown \in [Prop -> Seq(Cex)]

(* The trace a property refers to is one of its own counter-examples,      *)
(* whatever other traces are registered in between: get_ce hands           *)
(* create_fipath a trace in which find_trunc_trace_step finds a step, so   *)
(* neither of them meets NULL.                                             *)
AnchorIsCex ==
    \A p \in Prop :
        ptrace[p] # 0 => /\ ptrace[p] <= Len(traces)
                         /\ Violates(Inv[p], traces[ptrace[p]])

(* "next_ce to get the next counter-example" (README.txt): within one      *)
(* enumeration no counter-example is shown twice, not even up to the       *)
(* equivalence class.                                                      *)
NextIsNew ==
    \A p \in Prop : \A j \in 1 .. Len(shown[p]) : \A i \in 1 .. j - 1 :
        ~ Equivalent(eqClass, Inv[p], shown[p][i], shown[p][j])

(* "No more counterexamples" is said of a property only when each of its   *)
(* counter-examples is equivalent to one that was shown.                   *)
NoMoreMeansCovered ==
    \A p \in Prop : nextce[p].status = "True" =>
        \A t \in Cex : Violates(Inv[p], t) =>
            \E i \in 1 .. Len(shown[p]) :
                Equivalent(eqClass, Inv[p], shown[p][i], t)

(* A command ends in an answer, not in the death of the process.           *)
NeverDies == cmd # "dead"

(* ... nor in an internal error.                                           *)
NeverFails == ~ failed

(* Seen from one property the session is the enumeration CeEnumeration     *)
(* promises.                                                               *)
Enumeration(p) == INSTANCE CeEnumeration WITH
    inv <- Inv[p],
    class <- eqClass,
    shown <- shown[p],
    done <- nextce[p].status = "True"

Enumerates ==
    /\ \A p \in Prop : Enumeration(p)!Init
    /\ [][\A p \in Prop : [Enumeration(p)!Next]_<<eqClass, shown[p],
                                      nextce[p].status = "True">>]_vars

(* compute_all comes to an end, and so does every other command.           *)
CommandEnds == Busy ~> ~ Busy
=============================================================================
