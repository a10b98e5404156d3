------------------------------- MODULE Trace -------------------------------
(***************************************************************************)
(* Trace objects (trace/Trace.c, trace/Trace_private.c): building, freezing*)
(* and thawing, loopbacks, registration, copying and concatenation.        *)
(*                                                                         *)
(* A trace has a list of steps, each with the values of the state and of   *)
(* the input variables and an explicit loopback flag, one frame for the    *)
(* frozen variables, and a step counter.  One variable of each kind stands *)
(* for all of them, and all the traces have the same language.             *)
(* The traces are counter-examples: a loopback means nothing in a          *)
(* simulation.                                                             *)
(* Operators commented "Faulty:" are variants with a bug in them of the    *)
(* definition that follows; no specification uses them.                    *)
(***************************************************************************)
EXTENDS Integers, Sequences

CONSTANTS
    Slot,       \* names of the trace objects of a client
    StateVal, InputVal, FrozenVal,  \* values of the three kinds of variable
    Nil,        \* no value
    MaxSteps    \* bound on the steps of a trace

ASSUME TraceAssumption ==
    /\ Nil \notin StateVal \cup InputVal \cup FrozenVal
    /\ MaxSteps \in Nat \ {0}

VARIABLES
    heap,       \* heap[i]: the trace of slot i, NoTrace if there is none
    crash       \* "copy": NULL was dereferenced, "concat": an assertion failed

vars == <<heap, crash>>

Step == [state : StateVal \cup {Nil}, input : InputVal \cup {Nil}, loopback : BOOLEAN]
TraceType == [steps : Seq(Step), length : Int, fvalue : FrozenVal \cup {Nil},
              frozen : BOOLEAN, registered : BOOLEAN, warned : BOOLEAN]

NoTrace == [steps |-> << >>, length |-> -1, fvalue |-> Nil, frozen |-> FALSE,
            registered |-> FALSE, warned |-> FALSE]

(* trace_var_frame_create                                                  *)
EmptyStep == [state |-> Nil, input |-> Nil, loopback |-> FALSE]

(* trace_create: one empty step, length 0, thawed, not registered.  warned *)
(* is history: a loopback that closes no loop was forced on the trace.     *)
NewTrace == [NoTrace EXCEPT !.steps = <<EmptyStep>>, !.length = 0]

Live(i) == heap[i] # NoTrace
StepsOf(t) == 1 .. Len(t.steps)

Cleared(steps) == [k \in DOMAIN steps |-> [steps[k] EXCEPT !.loopback = FALSE]]

(* Faulty: the flags are not cleared.                                      *)
FrozenAsItIs(t) == [t EXCEPT !.frozen = TRUE]

(* trace_freeze: a thawed trace loses its loopback flags.                  *)
Frozen(t) ==
    [t EXCEPT !.frozen = TRUE,
              !.steps = IF t.frozen THEN t.steps ELSE Cleared(t.steps)]

(* trace_step_test_loopback, trace_step_is_loopback.                       *)
ClosesLoop(t, k) == t.steps[k].state = t.steps[Len(t.steps)].state

IsLoopback(t, k) ==
    /\ k # Len(t.steps)
    /\ IF t.frozen THEN t.steps[k].loopback ELSE ClosesLoop(t, k)

(* trace_equals: the lengths, the frozen variables, then step by step the  *)
(* inputs, the states and the loopbacks.  A difference between the frozen  *)
(* variables makes it return 1.                                            *)
Equals(t, u) ==
    /\ t.length = u.length
    /\ \/ t.fvalue # u.fvalue
       \/ \A k \in StepsOf(t) :
            /\ t.steps[k].input = u.steps[k].input
            /\ t.steps[k].state = u.steps[k].state
            /\ IsLoopback(t, k) <=> IsLoopback(u, k)

-----------------------------------------------------------------------------
Init == heap = [i \in Slot |-> NoTrace] /\ crash = "none"

Update(i, t) == heap' = [heap EXCEPT ![i] = t] /\ UNCHANGED crash

Create(i) == ~ Live(i) /\ Update(i, NewTrace)

(* TraceManager destroys the registered traces, their clients the others;  *)
(* this is their contract, which trace_destroy does not check.             *)
Destroy(i) == Live(i) /\ ~ heap[i].registered /\ Update(i, NoTrace)

Register(i) ==
    /\ Live(i) /\ ~ heap[i].registered
    /\ Update(i, [heap[i] EXCEPT !.registered = TRUE])

(* The contract of the three builders is CHECKed in debug builds: the      *)
(* trace is thawed, and a value is written once.                           *)
AppendStep(i) ==
    /\ Live(i) /\ ~ heap[i].frozen
    /\ Len(heap[i].steps) < MaxSteps
    /\ Update(i, [heap[i] EXCEPT !.steps = Append(@, EmptyStep), !.length = @ + 1])

PutState(i, k, v) ==
    /\ Live(i) /\ ~ heap[i].frozen
    /\ heap[i].steps[k].state = Nil
    /\ Update(i, [heap[i] EXCEPT !.steps[k].state = v])

PutInput(i, k, v) ==
    /\ Live(i) /\ ~ heap[i].frozen
    /\ heap[i].steps[k].input = Nil
    /\ Update(i, [heap[i] EXCEPT !.steps[k].input = v])

PutFrozenVar(i, v) ==
    /\ Live(i) /\ ~ heap[i].frozen
    /\ heap[i].fvalue = Nil
    /\ Update(i, [heap[i] EXCEPT !.fvalue = v])

Freeze(i) == Live(i) /\ Update(i, Frozen(heap[i]))

Thaw(i) == Live(i) /\ Update(i, [heap[i] EXCEPT !.frozen = FALSE])

(* trace_step_force_loopback only warns when the step closes no loop.      *)
ForceLoopback(i, k) ==
    /\ Live(i) /\ heap[i].frozen
    /\ Update(i, [heap[i] EXCEPT !.steps[k].loopback = TRUE,
                                 !.warned = @ \/ ~ ClosesLoop(heap[i], k)])

-----------------------------------------------------------------------------
(* trace_copy_ex.  The loop appends a step to the copy before it knows     *)
(* whether the original has one more: a copy with no until_here (0) gets   *)
(* an empty last step.                                                     *)
StepBefore(until) == until - 1      \* Faulty: until_here is excluded
LastCopied(until) == until

CopiedSteps(t, from, until) ==
    IF until = 0
    THEN Append(Cleared(SubSeq(t.steps, from, Len(t.steps))), EmptyStep)
    ELSE Cleared(SubSeq(t.steps, from, LastCopied(until)))

CopyOf(t, from, until) ==
    LET thawed == [NewTrace EXCEPT !.steps = CopiedSteps(t, from, until),
                                   !.length = Len(CopiedSteps(t, from, until)) - 1,
                                   !.fvalue = t.fvalue]
    IN  IF t.frozen THEN Frozen(thawed) ELSE thawed

Copy(i, j, from, until) ==
    /\ Live(i) /\ ~ Live(j)
    /\ from \in StepsOf(heap[i])
    /\ until = 0 \/ until \in from .. Len(heap[i].steps)
    /\ ~ (heap[i].frozen /\ until = 0)
    /\ until = 0 => Len(heap[i].steps) < MaxSteps
    /\ Update(j, CopyOf(heap[i], from, until))

(* Copying the loopbacks after a copy with no until_here, the original     *)
(* runs out of steps before the copy does.                                 *)
CopyCrashes(i, j) ==
    /\ Live(i) /\ ~ Live(j)
    /\ heap[i].frozen
    /\ crash' = "copy"
    /\ UNCHANGED heap

-----------------------------------------------------------------------------
(* trace_concat.  self is thawed, whatever comes next.                     *)
ConcatNull(i) ==
    /\ Live(i)
    /\ Update(i, [heap[i] EXCEPT !.frozen = FALSE])

RegisteredOrNot(t) == TRUE          \* Faulty: any trace may be consumed
Consumable(t) == ~ t.registered

(* An internal error.                                                      *)
ConcatRegistered(i, j) ==
    /\ i # j /\ Live(i) /\ Live(j)
    /\ ~ Consumable(heap[j])
    /\ Update(i, [heap[i] EXCEPT !.frozen = FALSE])

Second(u, v) == v                   \* Faulty: the value of other wins
Merge(u, v) == IF u # Nil THEN u ELSE v

Clash(u, v) == u # Nil /\ v # Nil /\ u # v

(* Faulty: self is not thawed.                                            *)
JoinedFrozen(t, u) ==
    [t EXCEPT !.fvalue = Merge(@, u.fvalue), !.steps = @ \o Tail(u.steps),
              !.length = @ + u.length]

(* Faulty: the steps are counted instead of the transitions.               *)
JoinedCountsSteps(t, u) ==
    [t EXCEPT !.frozen = FALSE, !.fvalue = Merge(@, u.fvalue),
              !.steps = @ \o Tail(u.steps), !.length = @ + Len(u.steps)]

(* The steps of other but its first are linked behind the last of self.    *)
Joined(t, u) ==
    [t EXCEPT !.frozen = FALSE, !.fvalue = Merge(@, u.fvalue),
              !.steps = @ \o Tail(u.steps), !.length = @ + u.length]

Concat(i, j) ==
    /\ i # j /\ Live(i) /\ Live(j)
    /\ Consumable(heap[j])
    /\ ~ Clash(heap[i].fvalue, heap[j].fvalue)
    /\ Len(heap[i].steps) + Len(heap[j].steps) - 1 <= MaxSteps
    /\ heap' = [heap EXCEPT ![i] = Joined(@, heap[j]), ![j] = NoTrace]
    /\ UNCHANGED crash

(* The assertion that the frozen variables agree.                          *)
ConcatCrashes(i, j) ==
    /\ i # j /\ Live(i) /\ Live(j)
    /\ Consumable(heap[j])
    /\ Clash(heap[i].fvalue, heap[j].fvalue)
    /\ crash' = "concat"
    /\ UNCHANGED heap

Next ==
    /\ crash = "none"
    /\ \/ \E i \in Slot :
            \/ Create(i) \/ Destroy(i) \/ Register(i)
            \/ AppendStep(i) \/ Freeze(i) \/ Thaw(i) \/ ConcatNull(i)
            \/ \E v \in FrozenVal : PutFrozenVar(i, v)
            \/ \E k \in StepsOf(heap[i]) :
                 \/ ForceLoopback(i, k)
                 \/ \E v \in StateVal : PutState(i, k, v)
                 \/ \E v \in InputVal : k > 1 /\ PutInput(i, k, v)
       \/ \E i, j \in Slot :
            \/ \E from \in StepsOf(heap[i]), until \in 0 .. MaxSteps :
                 Copy(i, j, from, until)
            \/ CopyCrashes(i, j)
            \/ ConcatRegistered(i, j) \/ Concat(i, j) \/ ConcatCrashes(i, j)

Spec == Init /\ [][Next]_vars

-----------------------------------------------------------------------------
(***************************************************************************)
(* Properties.                                                             *)
(***************************************************************************)

(* The types of the variables; a trace always has a first step             *)
(* (trace_first_iter is never NULL).                                       *)
TypeOK ==
    /\ heap \in [Slot -> TraceType]
    /\ \A i \in Slot : Live(i) => heap[i].steps # << >>
    /\ crash \in {"none", "copy", "concat"}

(* The counter counts the transitions: trace_destroy checks that freeing   *)
(* the steps brings it to -1, trace_ith_iter walks backwards by it.        *)
LengthCountsSteps == \A i \in Slot : heap[i].length = Len(heap[i].steps) - 1

(* A step is a loopback only if its state is that of the last step, unless *)
(* the owner was warned that it is not: whatever freezing, thawing,        *)
(* copying and concatenating came before, no flag survives the change of   *)
(* the last step.                                                          *)
LoopbackClosesLoop ==
    \A i \in Slot : ~ heap[i].warned => \A k \in StepsOf(heap[i]) :
        IsLoopback(heap[i], k) => ClosesLoop(heap[i], k)

(* "Its length and assignments are immutable" (Trace.c, Trace_freeze): a   *)
(* trace that is frozen before and after a call still has the same steps   *)
(* and values, but for the loopback flags forced on it.                    *)
FrozenIsImmutable ==
    [][\A i \in Slot : heap[i].frozen /\ heap'[i].frozen =>
          /\ heap'[i].length = heap[i].length
          /\ heap'[i].fvalue = heap[i].fvalue
          /\ Cleared(heap'[i].steps) = Cleared(heap[i].steps)]_vars

(* A registered trace stays in the trace manager: nothing but the manager  *)
(* disposes of it, so the indices of the properties stay valid, and its    *)
(* steps are never lost, only extended.                                    *)
RegisteredSurvives ==
    [][\A i \in Slot : heap[i].registered =>
          /\ heap'[i].registered
          /\ heap'[i].length >= heap[i].length]_vars

(* A value once stored in a trace is never replaced, not by the merge that *)
(* Trace_concat does either.                                               *)
ValuesPersist ==
    [][\A i \in Slot : Live(i) /\ heap'[i] # NoTrace =>
          /\ heap[i].fvalue # Nil => heap'[i].fvalue = heap[i].fvalue
          /\ \A k \in StepsOf(heap[i]) : heap[i].steps[k].state # Nil =>
                heap'[i].steps[k].state = heap[i].steps[k].state]_vars

(* A full copy equals its original (trace/traceTest.c).                    *)
FullCopyEquals ==
    [][\A i, j \in Slot : Copy(i, j, 1, 0) => Equals(heap[i], heap'[j])]_vars

(* "Two traces are equals iff ... they have exactly the same language,     *)
(* length, assignments for all variables in all times and the same         *)
(* loopbacks" (Trace.c, Trace_equals).                                     *)
EqualsIsExact ==
    \A i, j \in Slot : Live(i) /\ Live(j) /\ Equals(heap[i], heap[j]) =>
        /\ heap[i].fvalue = heap[j].fvalue
        /\ \A k \in StepsOf(heap[i]) :
             /\ heap[i].steps[k].state = heap[j].steps[k].state
             /\ heap[i].steps[k].input = heap[j].steps[k].input
=============================================================================
