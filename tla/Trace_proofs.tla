---------------------------- MODULE Trace_proofs ----------------------------
(***************************************************************************)
(* For any number of trace objects, any values and any length: the length  *)
(* of a trace fits its steps, no loopback flag outlives the loop, and what *)
(* a call does to a trace respects the promises made to its owner.         *)
(***************************************************************************)
EXTENDS Trace, TLAPS

(* The inductive invariant speaks of the traces one by one, since an       *)
(* operation changes one trace (trace_concat destroys another as well).    *)
Sound(t) ==
    /\ t \in TraceType
    /\ t # NoTrace => t.steps # << >>
    /\ t.length = Len(t.steps) - 1
    /\ ~ t.warned => \A k \in StepsOf(t) : IsLoopback(t, k) => ClosesLoop(t, k)

TraceInv ==
    /\ heap \in [Slot -> TraceType]
    /\ \A i \in Slot : Sound(heap[i])
    /\ crash \in {"none", "copy", "concat"}

LEMMA InvImplies == TraceInv => TypeOK /\ LengthCountsSteps /\ LoopbackClosesLoop
BY DEF TraceInv, Sound, TypeOK, Live, LengthCountsSteps, LoopbackClosesLoop

-----------------------------------------------------------------------------
(* Traces.                                                                 *)

LEMMA EmptyStepType == EmptyStep \in Step
BY DEF EmptyStep, Step

LEMMA NoTraceSound == Sound(NoTrace)
<1>1. NoTrace \in TraceType
  BY DEF NoTrace, TraceType
<1>2. NoTrace.steps = << >> /\ NoTrace.length = -1
  BY DEF NoTrace
<1>3. StepsOf(NoTrace) = {}
  BY <1>2 DEF StepsOf
<1> QED  BY <1>1, <1>2, <1>3 DEF Sound

(* Storing steps in a trace.                                               *)
LEMMA WithSameLength ==
    ASSUME NEW t \in TraceType, NEW s \in Seq(Step)
    PROVE  /\ [t EXCEPT !.steps = s] \in TraceType
           /\ [t EXCEPT !.steps = s].steps = s
           /\ [t EXCEPT !.steps = s].length = t.length
           /\ [t EXCEPT !.steps = s].frozen = t.frozen
BY DEF TraceType

LEMMA AppendType ==
    ASSUME NEW s \in Seq(Step), NEW e \in Step
    PROVE  /\ Append(s, e) \in Seq(Step)
           /\ Len(Append(s, e)) = Len(s) + 1
OBVIOUS

LEMMA NotEmpty ==
    ASSUME NEW s \in Seq(Step)
    PROVE  s # << >> <=> Len(s) > 0
OBVIOUS

(* A thawed trace asks for its loops, it does not remember them.           *)
LEMMA ThawedSound ==
    ASSUME NEW t \in TraceType, ~ t.frozen, Len(t.steps) > 0,
           t.length = Len(t.steps) - 1
    PROVE  Sound(t)
<1>1. t.steps \in Seq(Step)
  BY DEF TraceType
<1>2. t.steps # << >>
  BY <1>1, NotEmpty
<1> QED  BY <1>2 DEF Sound, IsLoopback

LEMMA SoundType ==
    ASSUME NEW t, Sound(t), t # NoTrace
    PROVE  /\ t \in TraceType /\ t.steps \in Seq(Step)
           /\ Len(t.steps) \in Nat /\ Len(t.steps) > 0
           /\ t.length = Len(t.steps) - 1 /\ t.length \in Int
<1>1. t \in TraceType /\ t.steps # << >> /\ t.length = Len(t.steps) - 1
  BY DEF Sound
<1>2. t.steps \in Seq(Step) /\ t.length \in Int
  BY <1>1 DEF TraceType
<1> QED  BY <1>1, <1>2, NotEmpty

LEMMA SeqOfSteps ==
    ASSUME NEW n \in Nat, NEW f \in [1 .. n -> Step]
    PROVE  f \in Seq(Step) /\ Len(f) = n
OBVIOUS

LEMMA StepReplaced ==
    ASSUME NEW s \in Seq(Step), NEW k \in 1 .. Len(s), NEW e \in Step
    PROVE  /\ [s EXCEPT ![k] = e] \in Seq(Step)
           /\ Len([s EXCEPT ![k] = e]) = Len(s)
           /\ [s EXCEPT ![k] = e][k] = e
           /\ \A m \in 1 .. Len(s) : m # k => [s EXCEPT ![k] = e][m] = s[m]
OBVIOUS

LEMMA ClearedType ==
    ASSUME NEW s \in Seq(Step)
    PROVE  /\ Cleared(s) \in Seq(Step)
           /\ Len(Cleared(s)) = Len(s)
           /\ \A k \in 1 .. Len(s) : Cleared(s)[k].loopback = FALSE
<1>1. DOMAIN s = 1 .. Len(s) /\ Len(s) \in Nat
  OBVIOUS
<1>2. ASSUME NEW k \in 1 .. Len(s)
      PROVE  /\ [s[k] EXCEPT !.loopback = FALSE] \in Step
             /\ [s[k] EXCEPT !.loopback = FALSE].loopback = FALSE
  <2>1. s[k] \in Step
    OBVIOUS
  <2> QED  BY <2>1 DEF Step
<1>3. Cleared(s) = [k \in 1 .. Len(s) |-> [s[k] EXCEPT !.loopback = FALSE]]
  BY <1>1 DEF Cleared
<1>4. Cleared(s) \in [1 .. Len(s) -> Step]
  BY <1>2, <1>3
<1>5. Cleared(s) \in Seq(Step) /\ Len(Cleared(s)) = Len(s)
  BY <1>1, <1>4, SeqOfSteps
<1> QED  BY <1>2, <1>3, <1>5

(* A trace without loopback flags makes no promise it could break.         *)
LEMMA ClearSound ==
    ASSUME NEW t \in TraceType, NEW s \in Seq(Step), t.steps = Cleared(s),
           Len(s) > 0, t.length = Len(s) - 1, t.frozen
    PROVE  Sound(t)
<1>1. t.steps \in Seq(Step) /\ Len(t.steps) = Len(s) /\ t.steps # << >>
  BY ClearedType, NotEmpty
<1>2. ASSUME NEW k \in StepsOf(t) PROVE ~ IsLoopback(t, k)
  <2>1. t.steps[k].loopback = FALSE
    BY <1>1, ClearedType DEF StepsOf
  <2> QED  BY <2>1 DEF IsLoopback
<1> QED  BY <1>1, <1>2 DEF Sound

LEMMA FrozenSound ==
    ASSUME NEW t, Sound(t), t # NoTrace
    PROVE  Sound(Frozen(t))
<1>1. t \in TraceType /\ t.steps \in Seq(Step)
  BY SoundType
<1>2. CASE t.frozen
  <2>1. Frozen(t) = t
    BY <1>1, <1>2 DEF Frozen, TraceType
  <2> QED  BY <2>1
<1>3. CASE ~ t.frozen
  <2>1. Cleared(t.steps) \in Seq(Step)
    BY <1>1, ClearedType
  <2>2. Frozen(t) = [t EXCEPT !.frozen = TRUE, !.steps = Cleared(t.steps)]
    BY <1>3 DEF Frozen
  <2>3. /\ Frozen(t) \in TraceType /\ Frozen(t).frozen
        /\ Frozen(t).steps = Cleared(t.steps) /\ Frozen(t).length = t.length
    BY <1>1, <2>1, <2>2 DEF TraceType
  <2> QED  BY <1>1, <2>3, SoundType, ClearSound
<1> QED  BY <1>1, <1>2, <1>3 DEF TraceType

-----------------------------------------------------------------------------
(* Operations.                                                             *)

LEMMA UpdateInv ==
    ASSUME TraceInv, NEW i \in Slot, NEW t, Sound(t), Update(i, t)
    PROVE  TraceInv'
<1>1. t \in TraceType
  BY DEF Sound
<1> QED  BY <1>1 DEF TraceInv, Update

LEMMA NewTraceType ==
    /\ NewTrace \in TraceType /\ ~ NewTrace.frozen
    /\ Sound(NewTrace)
<1> SUFFICES ASSUME NEW t, t = NewTrace
             PROVE  t \in TraceType /\ ~ t.frozen /\ Sound(t)
  OBVIOUS
<1> DEFINE s == <<EmptyStep>>
           l == 0
<1>1. NoTrace \in TraceType /\ NoTrace.frozen = FALSE
  BY DEF NoTrace, TraceType
<1>2. s \in Seq(Step) /\ Len(s) = 1 /\ l = 0
  BY EmptyStepType
<1>3. t = [NoTrace EXCEPT !.steps = s, !.length = l]
  BY DEF NewTrace
<1>4. l \in Int /\ l = Len(s) - 1 /\ Len(s) > 0
  BY <1>2
<1> HIDE DEF s, l
<1>5. t \in TraceType /\ ~ t.frozen /\ t.steps = s /\ t.length = l
  BY <1>1, <1>2, <1>3, <1>4 DEF TraceType
<1> QED  BY <1>4, <1>5, ThawedSound

(* What is thawed stays sound whatever is stored in it.                    *)
LEMMA AppendStepInv ==
    ASSUME TraceInv, NEW i \in Slot, AppendStep(i)
    PROVE  TraceInv'
<1> DEFINE t == heap[i]
           s == Append(t.steps, EmptyStep)
           l == t.length + 1
           u == [t EXCEPT !.steps = s, !.length = l]
<1>1. Sound(t) /\ t # NoTrace /\ ~ t.frozen
  BY DEF TraceInv, AppendStep, Live
<1>2. /\ t \in TraceType /\ t.steps \in Seq(Step)
      /\ Len(t.steps) \in Nat /\ t.length = Len(t.steps) - 1
  BY <1>1, SoundType
<1>3. s \in Seq(Step) /\ Len(s) = Len(t.steps) + 1
  BY <1>2, EmptyStepType, AppendType
<1>4. l \in Int /\ l = Len(s) - 1 /\ Len(s) > 0
  BY <1>2, <1>3
<1>5. Update(i, u)
  BY DEF AppendStep
<1> HIDE DEF s, l
<1>6. u \in TraceType /\ u.steps = s /\ u.length = l /\ ~ u.frozen
  BY <1>1, <1>2, <1>3, <1>4 DEF TraceType
<1> HIDE DEF u
<1>7. Sound(u)
  BY <1>4, <1>6, ThawedSound
<1> QED  BY <1>5, <1>7, UpdateInv

LEMMA StoreInv ==
    ASSUME TraceInv, NEW i \in Slot, Live(i), ~ heap[i].frozen,
           NEW k \in StepsOf(heap[i]), NEW e \in Step,
           Update(i, [heap[i] EXCEPT !.steps = [heap[i].steps EXCEPT ![k] = e]])
    PROVE  TraceInv'
<1> DEFINE t == heap[i]
           s == [t.steps EXCEPT ![k] = e]
           u == [t EXCEPT !.steps = s]
<1>1. Sound(t) /\ t # NoTrace
  BY DEF TraceInv, Live
<1>2. /\ t \in TraceType /\ t.steps \in Seq(Step)
      /\ Len(t.steps) > 0 /\ t.length = Len(t.steps) - 1
  BY <1>1, SoundType
<1>3. s \in Seq(Step) /\ Len(s) = Len(t.steps)
  BY <1>2, StepReplaced DEF StepsOf
<1> HIDE DEF s
<1>4. u \in TraceType /\ u.steps = s /\ u.length = t.length /\ ~ u.frozen
  BY <1>2, <1>3, WithSameLength
<1> HIDE DEF u
<1>5. Sound(u)
  BY <1>2, <1>3, <1>4, ThawedSound
<1> QED  BY <1>5, UpdateInv DEF u, s

LEMMA PutValueInv ==
    ASSUME TraceInv, NEW i \in Slot, NEW k \in StepsOf(heap[i]), NEW v,
           \/ v \in StateVal /\ PutState(i, k, v)
           \/ v \in InputVal /\ PutInput(i, k, v)
    PROVE  TraceInv'
<1> DEFINE t == heap[i]
<1>1. Live(i) /\ ~ t.frozen
  BY DEF PutState, PutInput
<1>2. t \in TraceType /\ t.steps \in Seq(Step)
  BY <1>1, SoundType DEF TraceInv, Live
<1>3. t.steps[k] \in Step
  BY <1>2 DEF StepsOf
<1>4. CASE v \in StateVal /\ PutState(i, k, v)
  <2> DEFINE e == [t.steps[k] EXCEPT !.state = v]
  <2>1. e \in Step
    BY <1>3, <1>4 DEF Step
  <2>2. [t EXCEPT !.steps[k].state = v]
          = [t EXCEPT !.steps = [t.steps EXCEPT ![k] = e]]
    BY <1>2 DEF TraceType
  <2>3. Update(i, [t EXCEPT !.steps = [t.steps EXCEPT ![k] = e]])
    BY <1>4, <2>2 DEF PutState
  <2> HIDE DEF e
  <2> QED  BY <1>1, <2>1, <2>3, StoreInv
<1>5. CASE v \in InputVal /\ PutInput(i, k, v)
  <2> DEFINE e == [t.steps[k] EXCEPT !.input = v]
  <2>1. e \in Step
    BY <1>3, <1>5 DEF Step
  <2>2. [t EXCEPT !.steps[k].input = v]
          = [t EXCEPT !.steps = [t.steps EXCEPT ![k] = e]]
    BY <1>2 DEF TraceType
  <2>3. Update(i, [t EXCEPT !.steps = [t.steps EXCEPT ![k] = e]])
    BY <1>5, <2>2 DEF PutInput
  <2> HIDE DEF e
  <2> QED  BY <1>1, <2>1, <2>3, StoreInv
<1> QED  BY <1>4, <1>5

LEMMA PutFrozenVarInv ==
    ASSUME TraceInv, NEW i \in Slot, NEW v \in FrozenVal, PutFrozenVar(i, v)
    PROVE  TraceInv'
<1> DEFINE t == heap[i]
           u == [t EXCEPT !.fvalue = v]
<1>1. Sound(t) /\ t # NoTrace /\ ~ t.frozen
  BY DEF TraceInv, PutFrozenVar, Live
<1>2. t \in TraceType /\ Len(t.steps) > 0 /\ t.length = Len(t.steps) - 1
  BY <1>1, SoundType
<1>3. u \in TraceType /\ u.steps = t.steps /\ u.length = t.length /\ ~ u.frozen
  BY <1>1, <1>2 DEF TraceType
<1>4. Update(i, u)
  BY DEF PutFrozenVar
<1> HIDE DEF u
<1>5. Sound(u)
  BY <1>2, <1>3, ThawedSound
<1> QED  BY <1>4, <1>5, UpdateInv

LEMMA ThawSound ==
    ASSUME NEW t, Sound(t), t # NoTrace
    PROVE  Sound([t EXCEPT !.frozen = FALSE])
<1> DEFINE u == [t EXCEPT !.frozen = FALSE]
<1>1. t \in TraceType /\ Len(t.steps) > 0 /\ t.length = Len(t.steps) - 1
  BY SoundType
<1>2. u \in TraceType /\ ~ u.frozen /\ u.steps = t.steps /\ u.length = t.length
  BY <1>1 DEF TraceType
<1> HIDE DEF u
<1>3. Sound(u)
  BY <1>1, <1>2, ThawedSound
<1> QED  BY <1>3 DEF u

(* The warning of trace_step_force_loopback is what keeps a frozen trace   *)
(* honest.                                                                 *)
LEMMA ForceLoopbackInv ==
    ASSUME TraceInv, NEW i \in Slot, NEW k \in StepsOf(heap[i]), ForceLoopback(i, k)
    PROVE  TraceInv'
<1> DEFINE t == heap[i]
           e == [t.steps[k] EXCEPT !.loopback = TRUE]
           s == [t.steps EXCEPT ![k] = e]
           w == t.warned \/ ~ ClosesLoop(t, k)
           u == [t EXCEPT !.steps = s, !.warned = w]
<1>1. Sound(t) /\ t # NoTrace /\ t.frozen
  BY DEF TraceInv, ForceLoopback, Live
<1>2. /\ t \in TraceType /\ t.steps \in Seq(Step) /\ Len(t.steps) \in Nat
      /\ Len(t.steps) > 0 /\ t.length = Len(t.steps) - 1
  BY <1>1, SoundType
<1>3. t.steps[k] \in Step /\ k \in 1 .. Len(t.steps)
  BY <1>2 DEF StepsOf
<1>4. e \in Step /\ e.state = t.steps[k].state
  BY <1>3 DEF Step
<1>5. Update(i, u)
  <2>1. [t EXCEPT !.steps[k].loopback = TRUE, !.warned = w] = u
    BY <1>2 DEF TraceType
  <2> QED  BY <2>1 DEF ForceLoopback
<1> HIDE DEF e
<1>6. /\ s \in Seq(Step) /\ Len(s) = Len(t.steps) /\ s[k] = e
      /\ \A m \in 1 .. Len(t.steps) : m # k => s[m] = t.steps[m]
  BY <1>2, <1>3, <1>4, StepReplaced
<1>7. w \in BOOLEAN
  BY <1>2 DEF TraceType, ClosesLoop
<1> HIDE DEF s, w
<1>8. /\ u \in TraceType /\ u.steps = s /\ u.length = t.length
      /\ u.frozen /\ u.warned = w
  BY <1>1, <1>2, <1>6, <1>7 DEF TraceType
<1> HIDE DEF u
<1>9. ASSUME ~ u.warned, NEW m \in StepsOf(u), IsLoopback(u, m)
      PROVE  ClosesLoop(u, m)
  <2>1. m \in 1 .. Len(t.steps)
    BY <1>6, <1>8 DEF StepsOf
  <2>2. ~ t.warned /\ ClosesLoop(t, k)
    BY <1>8, <1>9 DEF w
  <2>3. \A n \in 1 .. Len(t.steps) : s[n].state = t.steps[n].state
    BY <1>4, <1>6
  <2>4. ClosesLoop(t, m)
    <3>1. CASE m = k
      BY <2>2, <3>1
    <3>2. CASE m # k
      <4>1. IsLoopback(t, m)
        BY <1>1, <1>6, <1>8, <1>9, <2>1, <3>2 DEF IsLoopback
      <4> QED  BY <1>1, <2>1, <2>2, <4>1 DEF Sound, StepsOf
    <3> QED  BY <3>1, <3>2
  <2>5. Len(t.steps) \in 1 .. Len(t.steps)
    BY <1>2
  <2> QED  BY <1>6, <1>8, <2>1, <2>3, <2>4, <2>5 DEF ClosesLoop
<1>10. u.steps # << >>
  BY <1>2, <1>6, <1>8, NotEmpty
<1>11. Sound(u)
  BY <1>2, <1>6, <1>8, <1>9, <1>10 DEF Sound
<1> QED  BY <1>5, <1>11, UpdateInv

-----------------------------------------------------------------------------
(* trace_copy_ex: the copy is thawed and as long as what was copied.       *)
LEMMA CopiedStepsType ==
    ASSUME NEW t, t.steps \in Seq(Step), NEW from \in StepsOf(t),
           NEW until, until = 0 \/ until \in from .. Len(t.steps)
    PROVE  CopiedSteps(t, from, until) \in Seq(Step) /\ Len(CopiedSteps(t, from, until)) > 0
<1>1. Len(t.steps) \in Nat /\ from \in 1 .. Len(t.steps)
  BY DEF StepsOf
<1>2. CASE until = 0
  <2> DEFINE s == SubSeq(t.steps, from, Len(t.steps))
             c == Cleared(s)
  <2>1. s \in Seq(Step)
    BY <1>1
  <2> HIDE DEF s
  <2>2. c \in Seq(Step)
    BY <2>1, ClearedType
  <2>3. CopiedSteps(t, from, until) = Append(c, EmptyStep)
    BY <1>2 DEF CopiedSteps, s
  <2> HIDE DEF c
  <2>4. Append(c, EmptyStep) \in Seq(Step) /\ Len(Append(c, EmptyStep)) = Len(c) + 1
    BY <2>2, EmptyStepType, AppendType
  <2>5. Len(c) \in Nat
    BY <2>2
  <2> QED  BY <2>3, <2>4, <2>5
<1>3. CASE until # 0
  <2> DEFINE s == SubSeq(t.steps, from, until)
  <2>1. s \in Seq(Step) /\ Len(s) > 0
    BY <1>1, <1>3
  <2>2. CopiedSteps(t, from, until) = Cleared(s)
    BY <1>3 DEF CopiedSteps, LastCopied
  <2> HIDE DEF s
  <2> QED  BY <2>1, <2>2, ClearedType
<1> QED  BY <1>2, <1>3

LEMMA CopyInv ==
    ASSUME TraceInv, NEW i \in Slot, NEW j \in Slot,
           NEW from \in StepsOf(heap[i]), NEW until, Copy(i, j, from, until)
    PROVE  TraceInv'
<1> DEFINE t == heap[i]
           s == CopiedSteps(t, from, until)
           l == Len(s) - 1
           u == [NewTrace EXCEPT !.steps = s, !.length = l, !.fvalue = t.fvalue]
<1>1. t \in TraceType /\ t.steps \in Seq(Step)
  BY SoundType DEF TraceInv, Copy, Live
<1>2. until = 0 \/ until \in from .. Len(t.steps)
  BY DEF Copy
<1>3. s \in Seq(Step) /\ Len(s) > 0 /\ Len(s) \in Nat
  BY <1>1, <1>2, CopiedStepsType
<1>4. CopyOf(t, from, until) = IF t.frozen THEN Frozen(u) ELSE u
  BY DEF CopyOf
<1>5. t.fvalue \in FrozenVal \cup {Nil}
  BY <1>1 DEF TraceType
<1>6. l \in Int /\ l = Len(s) - 1
  BY <1>3
<1>7. NewTrace \in TraceType /\ ~ NewTrace.frozen
  BY NewTraceType
<1> HIDE DEF s, l
<1>8. u \in TraceType /\ ~ u.frozen /\ u.steps = s /\ u.length = l
  BY <1>3, <1>5, <1>6, <1>7 DEF TraceType
<1> HIDE DEF u
<1>9. Sound(u)
  BY <1>3, <1>6, <1>8, ThawedSound
<1>10. u # NoTrace
  BY <1>3, <1>8, NotEmpty DEF NoTrace
<1>11. Sound(CopyOf(t, from, until))
  BY <1>4, <1>9, <1>10, FrozenSound
<1>12. Update(j, CopyOf(t, from, until))
  BY DEF Copy
<1> QED  BY <1>11, <1>12, UpdateInv

(* trace_concat: the lengths add up, since the first step of the other     *)
(* trace is dropped.                                                       *)
LEMMA JoinType ==
    ASSUME NEW s \in Seq(Step), NEW r \in Seq(Step)
    PROVE  s \o r \in Seq(Step) /\ Len(s \o r) = Len(s) + Len(r)
OBVIOUS

LEMMA TailType ==
    ASSUME NEW s \in Seq(Step), s # << >>
    PROVE  Tail(s) \in Seq(Step) /\ Len(Tail(s)) = Len(s) - 1
OBVIOUS

LEMMA JoinedSound ==
    ASSUME NEW t, NEW u, Sound(t), Sound(u), t # NoTrace, u # NoTrace
    PROVE  Sound(Joined(t, u))
<1> DEFINE r == Tail(u.steps)
           s == t.steps \o r
           l == t.length + u.length
           v == IF t.fvalue # Nil THEN t.fvalue ELSE u.fvalue
           w == Joined(t, u)
<1>1. /\ t \in TraceType /\ t.steps \in Seq(Step) /\ Len(t.steps) \in Nat
      /\ Len(t.steps) > 0 /\ t.length = Len(t.steps) - 1 /\ t.length \in Int
  BY SoundType
<1>2. /\ u \in TraceType /\ u.steps \in Seq(Step) /\ Len(u.steps) \in Nat
      /\ Len(u.steps) > 0 /\ u.length = Len(u.steps) - 1 /\ u.length \in Int
  BY SoundType
<1>3. u.steps # << >>
  BY <1>2, NotEmpty
<1>4. r \in Seq(Step) /\ Len(r) = Len(u.steps) - 1
  BY <1>2, <1>3, TailType
<1> HIDE DEF r
<1>5. s \in Seq(Step) /\ Len(s) = Len(t.steps) + Len(r)
  BY <1>1, <1>4, JoinType
<1> HIDE DEF s
<1>6. l \in Int /\ l = Len(s) - 1 /\ Len(s) > 0
  <2> DEFINE m == Len(t.steps)
             n == Len(u.steps)
  <2>1. m \in Nat /\ n \in Nat /\ m > 0 /\ n > 0
    BY <1>1, <1>2
  <2>2. l = (m - 1) + (n - 1)
    BY <1>1, <1>2
  <2>3. Len(s) = m + (n - 1)
    BY <1>4, <1>5
  <2> HIDE DEF m, n, l
  <2> QED  BY <2>1, <2>2, <2>3
<1>7. v \in FrozenVal \cup {Nil}
  BY <1>1, <1>2 DEF TraceType
<1>8. w = [t EXCEPT !.frozen = FALSE, !.fvalue = v, !.steps = s, !.length = l]
  BY DEF Joined, Merge, r, s
<1> HIDE DEF l, v, w
<1>9. w \in TraceType /\ ~ w.frozen /\ w.steps = s /\ w.length = l
  BY <1>1, <1>5, <1>6, <1>7, <1>8 DEF TraceType
<1>10. Sound(w)
  BY <1>6, <1>9, ThawedSound
<1> QED  BY <1>10 DEF w

LEMMA ConcatInv ==
    ASSUME TraceInv, NEW i \in Slot, NEW j \in Slot, Concat(i, j)
    PROVE  TraceInv'
<1>1. Sound(Joined(heap[i], heap[j]))
  BY JoinedSound DEF Concat, TraceInv, Live
<1>2. NoTrace \in TraceType /\ Joined(heap[i], heap[j]) \in TraceType
  BY <1>1, NoTraceSound DEF Sound
<1> QED  BY <1>1, <1>2, NoTraceSound DEF Concat, TraceInv

-----------------------------------------------------------------------------
LEMMA NextInv ==
    ASSUME TraceInv, Next
    PROVE  TraceInv'
<1>1. \A i \in Slot : Sound(heap[i])
  BY DEF TraceInv
<1>2. ASSUME NEW i \in Slot, Create(i) PROVE TraceInv'
  BY <1>2, NewTraceType, UpdateInv DEF Create
<1>3. ASSUME NEW i \in Slot, Destroy(i) PROVE TraceInv'
  BY <1>3, NoTraceSound, UpdateInv DEF Destroy
<1>4. ASSUME NEW i \in Slot, Register(i) PROVE TraceInv'
  <2> DEFINE t == heap[i]
             u == [t EXCEPT !.registered = TRUE]
  <2>1. Sound(t) /\ t # NoTrace /\ Update(i, u)
    BY <1>1, <1>4 DEF Register, Live
  <2>2. t \in TraceType
    BY <2>1, SoundType
  <2>3. /\ u \in TraceType /\ u.steps = t.steps /\ u.length = t.length
        /\ u.frozen = t.frozen /\ u.warned = t.warned
    BY <2>2 DEF TraceType
  <2> HIDE DEF u
  <2>4. Sound(u)
    BY <2>1, <2>3 DEF Sound, StepsOf, IsLoopback, ClosesLoop
  <2> QED  BY <2>1, <2>4, UpdateInv
<1>5. ASSUME NEW i \in Slot, AppendStep(i) PROVE TraceInv'
  BY <1>5, AppendStepInv
<1>6. ASSUME NEW i \in Slot, Freeze(i) PROVE TraceInv'
  BY <1>1, <1>6, FrozenSound, UpdateInv DEF Freeze, Live
<1>7. ASSUME NEW i \in Slot, Live(i), Update(i, [heap[i] EXCEPT !.frozen = FALSE])
      PROVE  TraceInv'
  BY <1>1, <1>7, ThawSound, UpdateInv DEF Live
<1>8. ASSUME NEW i \in Slot, NEW v \in FrozenVal, PutFrozenVar(i, v) PROVE TraceInv'
  BY <1>8, PutFrozenVarInv
<1>9. ASSUME NEW i \in Slot, NEW k \in StepsOf(heap[i]), ForceLoopback(i, k)
      PROVE  TraceInv'
  BY <1>9, ForceLoopbackInv
<1>10. ASSUME NEW i \in Slot, NEW k \in StepsOf(heap[i]), NEW v,
              \/ v \in StateVal /\ PutState(i, k, v)
              \/ v \in InputVal /\ PutInput(i, k, v)
       PROVE  TraceInv'
  BY <1>10, PutValueInv
<1>11. ASSUME NEW i \in Slot, NEW j \in Slot, NEW from \in StepsOf(heap[i]),
              NEW until, Copy(i, j, from, until)
       PROVE  TraceInv'
  BY <1>11, CopyInv
<1>12. ASSUME NEW i \in Slot, NEW j \in Slot, CopyCrashes(i, j) \/ ConcatCrashes(i, j)
       PROVE  TraceInv'
  BY <1>12 DEF CopyCrashes, ConcatCrashes, TraceInv
<1>13. ASSUME NEW i \in Slot, NEW j \in Slot, ConcatRegistered(i, j) PROVE TraceInv'
  BY <1>7, <1>13 DEF ConcatRegistered
<1>14. ASSUME NEW i \in Slot, NEW j \in Slot, Concat(i, j) PROVE TraceInv'
  BY <1>14, ConcatInv
<1>15. ASSUME NEW i \in Slot, Thaw(i) \/ ConcatNull(i) PROVE TraceInv'
  BY <1>7, <1>15 DEF Thaw, ConcatNull
<1> QED
  BY <1>2, <1>3, <1>4, <1>5, <1>6, <1>8, <1>9, <1>10, <1>11, <1>12, <1>13,
     <1>14, <1>15 DEF Next

(* In every session the traces are well-formed, their lengths fit their    *)
(* steps, and the loopbacks they report close a loop.                      *)
THEOREM TraceInvariant == Spec => []TraceInv
<1>1. Init => TraceInv
  <2> SUFFICES ASSUME Init PROVE TraceInv
    OBVIOUS
  <2>1. NoTrace \in TraceType
    BY NoTraceSound DEF Sound
  <2> QED  BY <2>1, NoTraceSound DEF Init, TraceInv
<1>2. TraceInv /\ [Next]_vars => TraceInv'
  <2>1. ASSUME TraceInv, UNCHANGED vars PROVE TraceInv'
    BY <2>1 DEF TraceInv, vars
  <2> QED  BY <2>1, NextInv
<1> QED  BY <1>1, <1>2, PTL DEF Spec

(* The state of every trace object has its type, at any length.            *)
THEOREM TraceTypes == Spec => []TypeOK
BY TraceInvariant, InvImplies, PTL

(* trace_destroy and trace_ith_iter may rely on the counter.               *)
THEOREM LengthAlwaysCounts == Spec => []LengthCountsSteps
BY TraceInvariant, InvImplies, PTL

(* No history of freezing, thawing, copying and joining leaves a stale     *)
(* loopback.                                                               *)
THEOREM LoopbackAlwaysCloses == Spec => []LoopbackClosesLoop
BY TraceInvariant, InvImplies, PTL

-----------------------------------------------------------------------------
(* What a call may do to the trace of a slot: t before it, u after it.     *)
KeepsValues(t, u) ==
    /\ t.fvalue # Nil => u.fvalue = t.fvalue
    /\ \A k \in StepsOf(t) :
         t.steps[k].state # Nil => u.steps[k].state = t.steps[k].state

Evolves(t, u) ==
    /\ t.frozen /\ u.frozen =>
         /\ u.length = t.length
         /\ u.fvalue = t.fvalue
         /\ Cleared(u.steps) = Cleared(t.steps)
    /\ t.registered => u.registered /\ u.length >= t.length
    /\ t # NoTrace /\ u # NoTrace => KeepsValues(t, u)

LEMMA StaysTheSame ==
    ASSUME NEW t, Sound(t)
    PROVE  Evolves(t, t)
<1>1. t.length \in Int
  BY DEF Sound, TraceType
<1> QED  BY <1>1 DEF Evolves, KeepsValues

(* A slot without a trace promised nothing.                                *)
LEMMA FromNothing ==
    ASSUME NEW u
    PROVE  Evolves(NoTrace, u)
<1>1. NoTrace.frozen = FALSE /\ NoTrace.registered = FALSE
  BY DEF NoTrace
<1> QED  BY <1>1 DEF Evolves

LEMMA ToNothing ==
    ASSUME NEW t, ~ t.registered
    PROVE  Evolves(t, NoTrace)
<1>1. NoTrace.frozen = FALSE
  BY DEF NoTrace
<1> QED  BY <1>1 DEF Evolves

(* A trace thawed before or after the call may only be added to.           *)
LEMMA Extends ==
    ASSUME NEW t, NEW u, ~ t.frozen \/ ~ u.frozen, u.registered = t.registered,
           u.length >= t.length, KeepsValues(t, u)
    PROVE  Evolves(t, u)
BY DEF Evolves

LEMMA UpdateEvolves ==
    ASSUME TraceInv, NEW i \in Slot, NEW u, Update(i, u), Evolves(heap[i], u)
    PROVE  \A s \in Slot : Evolves(heap[s], heap'[s])
<1> TAKE s \in Slot
<1>1. Sound(heap[s])
  BY DEF TraceInv
<1>2. heap' = [heap EXCEPT ![i] = u] /\ heap \in [Slot -> TraceType]
  BY DEF Update, TraceInv
<1>3. CASE s = i
  BY <1>2, <1>3
<1>4. CASE s # i
  <2>1. heap'[s] = heap[s]
    BY <1>2, <1>4
  <2> QED  BY <1>1, <2>1, StaysTheSame
<1> QED  BY <1>3, <1>4

LEMMA RegisterEvolves ==
    ASSUME NEW t, Sound(t), t # NoTrace
    PROVE  Evolves(t, [t EXCEPT !.registered = TRUE])
<1> DEFINE u == [t EXCEPT !.registered = TRUE]
<1>1. t \in TraceType /\ t.length \in Int
  BY SoundType
<1>2. /\ u.steps = t.steps /\ u.length = t.length /\ u.fvalue = t.fvalue
      /\ u.registered = TRUE
  BY <1>1 DEF TraceType
<1> HIDE DEF u
<1>3. Evolves(t, u)
  BY <1>1, <1>2 DEF Evolves, KeepsValues
<1> QED  BY <1>3 DEF u

LEMMA ThawEvolves ==
    ASSUME NEW t, Sound(t), t # NoTrace
    PROVE  Evolves(t, [t EXCEPT !.frozen = FALSE])
<1> DEFINE u == [t EXCEPT !.frozen = FALSE]
<1>1. t \in TraceType /\ t.length \in Int
  BY SoundType
<1>2. /\ u.steps = t.steps /\ u.length = t.length /\ u.fvalue = t.fvalue
      /\ u.registered = t.registered /\ u.frozen = FALSE
  BY <1>1 DEF TraceType
<1> HIDE DEF u
<1>3. Evolves(t, u)
  BY <1>1, <1>2 DEF Evolves, KeepsValues
<1> QED  BY <1>3 DEF u

(* Freezing clears flags and nothing else.                                 *)
LEMMA ClearedStates ==
    ASSUME NEW s \in Seq(Step), NEW k \in 1 .. Len(s)
    PROVE  Cleared(s)[k].state = s[k].state
<1>1. s[k] \in Step /\ k \in DOMAIN s
  OBVIOUS
<1>2. Cleared(s)[k] = [s[k] EXCEPT !.loopback = FALSE]
  BY <1>1 DEF Cleared
<1> QED  BY <1>1, <1>2 DEF Step

LEMMA FreezeEvolves ==
    ASSUME NEW t, Sound(t), t # NoTrace
    PROVE  Evolves(t, Frozen(t))
<1>1. t \in TraceType /\ t.steps \in Seq(Step) /\ t.length \in Int
  BY SoundType
<1>2. CASE t.frozen
  <2>1. Frozen(t) = t
    BY <1>1, <1>2 DEF Frozen, TraceType
  <2> QED  BY <2>1, StaysTheSame
<1>3. CASE ~ t.frozen
  <2> DEFINE c == Cleared(t.steps)
             u == [t EXCEPT !.frozen = TRUE, !.steps = c]
  <2>1. \A k \in StepsOf(t) : c[k].state = t.steps[k].state
    BY <1>1, ClearedStates DEF StepsOf
  <2>2. Frozen(t) = u
    BY <1>3 DEF Frozen
  <2> HIDE DEF c
  <2>3. /\ u.steps = c /\ u.length = t.length /\ u.fvalue = t.fvalue
        /\ u.registered = t.registered
    BY <1>1 DEF TraceType
  <2> HIDE DEF u
  <2>4. KeepsValues(t, u) /\ u.length >= t.length
    BY <1>1, <2>1, <2>3 DEF KeepsValues
  <2> QED  BY <1>3, <2>2, <2>3, <2>4, Extends
<1> QED  BY <1>2, <1>3

-----------------------------------------------------------------------------
LEMMA AppendStepEvolves ==
    ASSUME NEW t, Sound(t), t # NoTrace, ~ t.frozen
    PROVE  Evolves(t, [t EXCEPT !.steps = Append(@, EmptyStep), !.length = @ + 1])
<1> DEFINE s == Append(t.steps, EmptyStep)
           l == t.length + 1
           u == [t EXCEPT !.steps = s, !.length = l]
<1>1. /\ t \in TraceType /\ t.steps \in Seq(Step) /\ Len(t.steps) \in Nat
      /\ t.length \in Int
  BY SoundType
<1>2. \A k \in StepsOf(t) : s[k] = t.steps[k]
  BY <1>1 DEF StepsOf
<1>3. l >= t.length
  BY <1>1
<1> HIDE DEF s, l
<1>4. /\ u.steps = s /\ u.length = l /\ u.fvalue = t.fvalue
      /\ u.registered = t.registered
  BY <1>1 DEF TraceType
<1> HIDE DEF u
<1>5. KeepsValues(t, u)
  BY <1>2, <1>4 DEF KeepsValues
<1>6. Evolves(t, u)
  BY <1>3, <1>4, <1>5, Extends
<1> QED  BY <1>6 DEF u, s, l

(* Storing a value where there was none.                                   *)
LEMMA StoreEvolves ==
    ASSUME NEW t, Sound(t), t # NoTrace, ~ t.frozen, NEW k \in StepsOf(t),
           NEW e \in Step, t.steps[k].state # Nil => e.state = t.steps[k].state
    PROVE  Evolves(t, [t EXCEPT !.steps = [t.steps EXCEPT ![k] = e]])
<1> DEFINE s == [t.steps EXCEPT ![k] = e]
           u == [t EXCEPT !.steps = s]
<1>1. t \in TraceType /\ t.steps \in Seq(Step) /\ t.length \in Int
  BY SoundType
<1>2. s[k] = e /\ \A m \in StepsOf(t) : m # k => s[m] = t.steps[m]
  BY <1>1, StepReplaced DEF StepsOf
<1> HIDE DEF s
<1>3. /\ u.steps = s /\ u.length = t.length /\ u.fvalue = t.fvalue
      /\ u.registered = t.registered
  BY <1>1 DEF TraceType
<1> HIDE DEF u
<1>4. KeepsValues(t, u) /\ u.length >= t.length
  BY <1>1, <1>2, <1>3 DEF KeepsValues
<1>5. Evolves(t, u)
  BY <1>3, <1>4, Extends
<1> QED  BY <1>5 DEF u, s

LEMMA PutStateEvolves ==
    ASSUME NEW t, Sound(t), t # NoTrace, ~ t.frozen, NEW k \in StepsOf(t),
           t.steps[k].state = Nil, NEW v \in StateVal
    PROVE  Evolves(t, [t EXCEPT !.steps[k].state = v])
<1> DEFINE e == [t.steps[k] EXCEPT !.state = v]
<1>1. t \in TraceType /\ t.steps \in Seq(Step)
  BY SoundType
<1>2. t.steps[k] \in Step
  BY <1>1 DEF StepsOf
<1>3. e \in Step
  BY <1>2 DEF Step
<1>4. [t EXCEPT !.steps[k].state = v]
        = [t EXCEPT !.steps = [t.steps EXCEPT ![k] = e]]
  BY <1>1 DEF TraceType
<1> HIDE DEF e
<1>5. Evolves(t, [t EXCEPT !.steps = [t.steps EXCEPT ![k] = e]])
  BY <1>3, StoreEvolves
<1> QED  BY <1>4, <1>5

LEMMA PutInputEvolves ==
    ASSUME NEW t, Sound(t), t # NoTrace, ~ t.frozen, NEW k \in StepsOf(t),
           NEW v \in InputVal
    PROVE  Evolves(t, [t EXCEPT !.steps[k].input = v])
<1> DEFINE e == [t.steps[k] EXCEPT !.input = v]
<1>1. t \in TraceType /\ t.steps \in Seq(Step)
  BY SoundType
<1>2. t.steps[k] \in Step
  BY <1>1 DEF StepsOf
<1>3. e \in Step /\ e.state = t.steps[k].state
  BY <1>2 DEF Step
<1>4. [t EXCEPT !.steps[k].input = v]
        = [t EXCEPT !.steps = [t.steps EXCEPT ![k] = e]]
  BY <1>1 DEF TraceType
<1> HIDE DEF e
<1>5. Evolves(t, [t EXCEPT !.steps = [t.steps EXCEPT ![k] = e]])
  BY <1>3, StoreEvolves
<1> QED  BY <1>4, <1>5

LEMMA PutFrozenVarEvolves ==
    ASSUME NEW t, Sound(t), t # NoTrace, ~ t.frozen, t.fvalue = Nil, NEW v
    PROVE  Evolves(t, [t EXCEPT !.fvalue = v])
<1> DEFINE u == [t EXCEPT !.fvalue = v]
<1>1. t \in TraceType /\ t.length \in Int
  BY SoundType
<1>2. /\ u.steps = t.steps /\ u.length = t.length
      /\ u.registered = t.registered
  BY <1>1 DEF TraceType
<1> HIDE DEF u
<1>3. KeepsValues(t, u) /\ u.length >= t.length
  BY <1>1, <1>2 DEF KeepsValues
<1>4. Evolves(t, u)
  BY <1>2, <1>3, Extends
<1> QED  BY <1>4 DEF u

(* A loopback forced on a frozen trace changes a flag, which Cleared does  *)
(* not see.                                                                *)
Unflagged(e) == [e EXCEPT !.loopback = FALSE]

LEMMA FlagsCleared ==
    ASSUME NEW s \in Seq(Step), NEW r \in Seq(Step), Len(r) = Len(s),
           \A m \in 1 .. Len(s) : Unflagged(r[m]) = Unflagged(s[m])
    PROVE  Cleared(r) = Cleared(s)
<1>1. DOMAIN r = 1 .. Len(s) /\ DOMAIN s = 1 .. Len(s)
  OBVIOUS
<1>2. Cleared(r) = [m \in 1 .. Len(s) |-> Unflagged(r[m])]
  BY <1>1 DEF Cleared, Unflagged
<1>3. Cleared(s) = [m \in 1 .. Len(s) |-> Unflagged(s[m])]
  BY <1>1 DEF Cleared, Unflagged
<1> QED  BY <1>2, <1>3

LEMMA ForceLoopbackEvolves ==
    ASSUME NEW t, Sound(t), t # NoTrace, NEW k \in StepsOf(t), NEW w
    PROVE  Evolves(t, [t EXCEPT !.steps[k].loopback = TRUE, !.warned = w])
<1> DEFINE e == [t.steps[k] EXCEPT !.loopback = TRUE]
           s == [t.steps EXCEPT ![k] = e]
           u == [t EXCEPT !.steps = s, !.warned = w]
<1>1. t \in TraceType /\ t.steps \in Seq(Step) /\ t.length \in Int
  BY SoundType
<1>2. t.steps[k] \in Step /\ k \in 1 .. Len(t.steps)
  BY <1>1 DEF StepsOf
<1>3. /\ e \in Step /\ e.state = t.steps[k].state
      /\ Unflagged(e) = Unflagged(t.steps[k])
  BY <1>2 DEF Step, Unflagged
<1>4. [t EXCEPT !.steps[k].loopback = TRUE, !.warned = w] = u
  BY <1>1 DEF TraceType
<1> HIDE DEF e
<1>5. /\ s \in Seq(Step) /\ Len(s) = Len(t.steps) /\ s[k] = e
      /\ \A m \in StepsOf(t) : m # k => s[m] = t.steps[m]
  BY <1>1, <1>2, <1>3, StepReplaced DEF StepsOf
<1> HIDE DEF s
<1>6. Cleared(s) = Cleared(t.steps)
  BY <1>1, <1>3, <1>5, FlagsCleared DEF StepsOf
<1>7. /\ u.steps = s /\ u.length = t.length /\ u.fvalue = t.fvalue
      /\ u.registered = t.registered
  BY <1>1 DEF TraceType
<1> HIDE DEF u
<1>8. KeepsValues(t, u)
  BY <1>3, <1>5, <1>7 DEF KeepsValues
<1>9. Evolves(t, u)
  BY <1>1, <1>6, <1>7, <1>8 DEF Evolves
<1> QED  BY <1>4, <1>9

(* Joining keeps what self had: its steps come first, and its values win   *)
(* the merge.                                                              *)
LEMMA JoinedEvolves ==
    ASSUME NEW t, NEW u, Sound(t), Sound(u), t # NoTrace, u # NoTrace
    PROVE  Evolves(t, Joined(t, u))
<1> DEFINE r == Tail(u.steps)
           s == t.steps \o r
           l == t.length + u.length
           v == Merge(t.fvalue, u.fvalue)
           w == Joined(t, u)
<1>1. /\ t \in TraceType /\ t.steps \in Seq(Step) /\ Len(t.steps) \in Nat
      /\ t.length \in Int
  BY SoundType
<1>2. /\ u.steps \in Seq(Step) /\ Len(u.steps) \in Nat /\ Len(u.steps) > 0
      /\ u.length = Len(u.steps) - 1 /\ u.length \in Int
  BY SoundType
<1>3. r \in Seq(Step)
  BY <1>2, NotEmpty, TailType
<1>4. w = [t EXCEPT !.frozen = FALSE, !.fvalue = v, !.steps = s, !.length = l]
  BY DEF Joined
<1> HIDE DEF r
<1>5. \A k \in StepsOf(t) : s[k] = t.steps[k]
  BY <1>1, <1>3 DEF StepsOf
<1>6. l >= t.length
  <2>1. u.length >= 0
    BY <1>2
  <2> HIDE DEF l
  <2>2. l = t.length + u.length
    BY DEF l
  <2> QED  BY <1>1, <1>2, <2>1, <2>2
<1>7. t.fvalue # Nil => v = t.fvalue
  BY DEF Merge
<1> HIDE DEF s, l, v, w
<1>8. /\ w.steps = s /\ w.length = l /\ w.fvalue = v /\ w.frozen = FALSE
      /\ w.registered = t.registered
  BY <1>1, <1>4 DEF TraceType
<1>9. KeepsValues(t, w)
  BY <1>5, <1>7, <1>8 DEF KeepsValues
<1>10. Evolves(t, w)
  BY <1>6, <1>8, <1>9, Extends
<1> QED  BY <1>10 DEF w

LEMMA ConcatEvolves ==
    ASSUME TraceInv, NEW i \in Slot, NEW j \in Slot, Concat(i, j)
    PROVE  \A s \in Slot : Evolves(heap[s], heap'[s])
<1> TAKE s \in Slot
<1>1. /\ i # j /\ heap[i] # NoTrace /\ heap[j] # NoTrace
      /\ ~ heap[j].registered
      /\ heap' = [heap EXCEPT ![i] = Joined(heap[i], heap[j]), ![j] = NoTrace]
  BY DEF Concat, Live, Consumable
<1>2. heap \in [Slot -> TraceType] /\ \A n \in Slot : Sound(heap[n])
  BY DEF TraceInv
<1>3. CASE s = i
  <2>1. heap'[s] = Joined(heap[i], heap[j])
    BY <1>1, <1>2, <1>3
  <2> QED  BY <1>1, <1>2, <1>3, <2>1, JoinedEvolves
<1>4. CASE s = j
  <2>1. heap'[s] = NoTrace
    BY <1>1, <1>2, <1>4
  <2> QED  BY <1>1, <1>4, <2>1, ToNothing
<1>5. CASE s # i /\ s # j
  <2>1. heap'[s] = heap[s]
    BY <1>1, <1>2, <1>5
  <2> QED  BY <1>2, <2>1, StaysTheSame
<1> QED  BY <1>3, <1>4, <1>5

-----------------------------------------------------------------------------
LEMMA NextEvolves ==
    ASSUME TraceInv, Next
    PROVE  \A s \in Slot : Evolves(heap[s], heap'[s])
<1> DEFINE Goal == \A s \in Slot : Evolves(heap[s], heap'[s])
<1>1. \A i \in Slot : Sound(heap[i])
  BY DEF TraceInv
<1>2. ASSUME NEW i \in Slot, NEW u, ~ Live(i), Update(i, u) PROVE Goal
  BY <1>2, FromNothing, UpdateEvolves DEF Live
<1>3. ASSUME NEW i \in Slot, Destroy(i) PROVE Goal
  BY <1>3, ToNothing, UpdateEvolves DEF Destroy
<1>4. ASSUME NEW i \in Slot, Register(i) PROVE Goal
  BY <1>1, <1>4, RegisterEvolves, UpdateEvolves DEF Register, Live
<1>5. ASSUME NEW i \in Slot, AppendStep(i) PROVE Goal
  BY <1>1, <1>5, AppendStepEvolves, UpdateEvolves DEF AppendStep, Live
<1>6. ASSUME NEW i \in Slot, Freeze(i) PROVE Goal
  BY <1>1, <1>6, FreezeEvolves, UpdateEvolves DEF Freeze, Live
<1>7. ASSUME NEW i \in Slot, Live(i), Update(i, [heap[i] EXCEPT !.frozen = FALSE])
      PROVE  Goal
  BY <1>1, <1>7, ThawEvolves, UpdateEvolves DEF Live
<1>8. ASSUME NEW i \in Slot, NEW v \in FrozenVal, PutFrozenVar(i, v) PROVE Goal
  BY <1>1, <1>8, PutFrozenVarEvolves, UpdateEvolves DEF PutFrozenVar, Live
<1>9. ASSUME NEW i \in Slot, NEW k \in StepsOf(heap[i]), ForceLoopback(i, k)
      PROVE  Goal
  <2>1. PICK w : Update(i, [heap[i] EXCEPT !.steps[k].loopback = TRUE, !.warned = w])
    BY <1>9 DEF ForceLoopback
  <2> QED  BY <1>1, <1>9, <2>1, ForceLoopbackEvolves, UpdateEvolves
           DEF ForceLoopback, Live
<1>10. ASSUME NEW i \in Slot, NEW k \in StepsOf(heap[i]), NEW v \in StateVal,
              PutState(i, k, v)
       PROVE  Goal
  BY <1>1, <1>10, PutStateEvolves, UpdateEvolves DEF PutState, Live
<1>11. ASSUME NEW i \in Slot, NEW k \in StepsOf(heap[i]), NEW v \in InputVal,
              PutInput(i, k, v)
       PROVE  Goal
  BY <1>1, <1>11, PutInputEvolves, UpdateEvolves DEF PutInput, Live
<1>12. ASSUME NEW i \in Slot, NEW j \in Slot, NEW from, NEW until,
              Copy(i, j, from, until)
       PROVE  Goal
  BY <1>2, <1>12 DEF Copy
<1>13. ASSUME NEW i \in Slot, NEW j \in Slot, CopyCrashes(i, j) \/ ConcatCrashes(i, j)
       PROVE  Goal
  <2>1. heap' = heap
    BY <1>13 DEF CopyCrashes, ConcatCrashes
  <2> QED  BY <1>1, <2>1, StaysTheSame
<1>14. ASSUME NEW i \in Slot, NEW j \in Slot, ConcatRegistered(i, j) PROVE Goal
  BY <1>7, <1>14 DEF ConcatRegistered
<1>15. ASSUME NEW i \in Slot, NEW j \in Slot, Concat(i, j) PROVE Goal
  BY <1>15, ConcatEvolves
<1>16. ASSUME NEW i \in Slot, Thaw(i) \/ ConcatNull(i) PROVE Goal
  BY <1>7, <1>16 DEF Thaw, ConcatNull
<1>17. ASSUME NEW i \in Slot, Create(i) PROVE Goal
  BY <1>2, <1>17 DEF Create
<1> HIDE DEF Goal
<1>18. Goal
  BY <1>3, <1>4, <1>5, <1>6, <1>8, <1>9, <1>10, <1>11, <1>12, <1>13, <1>14,
     <1>15, <1>16, <1>17 DEF Next
<1> QED  BY <1>18 DEF Goal

LEMMA StepEvolves ==
    ASSUME TraceInv, [Next]_vars
    PROVE  \A s \in Slot : Evolves(heap[s], heap'[s])
<1>1. CASE UNCHANGED vars
  <2>1. heap' = heap
    BY <1>1 DEF vars
  <2> QED  BY <2>1, StaysTheSame DEF TraceInv
<1> QED  BY <1>1, NextEvolves

(* Between two moments at which a trace is frozen, without a thaw between  *)
(* them, only its loopback flags have changed.                             *)
THEOREM FrozenNeverChanges == Spec => FrozenIsImmutable
<1> DEFINE A == \A i \in Slot : heap[i].frozen /\ heap'[i].frozen =>
                   /\ heap'[i].length = heap[i].length
                   /\ heap'[i].fvalue = heap[i].fvalue
                   /\ Cleared(heap'[i].steps) = Cleared(heap[i].steps)
<1>1. TraceInv /\ [Next]_vars => [A]_vars
  BY StepEvolves DEF Evolves
<1> QED  BY <1>1, TraceInvariant, PTL DEF Spec, FrozenIsImmutable

(* No operation of a client takes a registered trace away from the trace   *)
(* manager or cuts it short.                                               *)
THEOREM RegisteredAlwaysSurvives == Spec => RegisteredSurvives
<1> DEFINE A == \A i \in Slot : heap[i].registered =>
                   /\ heap'[i].registered
                   /\ heap'[i].length >= heap[i].length
<1>1. TraceInv /\ [Next]_vars => [A]_vars
  BY StepEvolves DEF Evolves
<1> QED  BY <1>1, TraceInvariant, PTL DEF Spec, RegisteredSurvives

(* A value is written once: no later call, and no merge, replaces it.      *)
THEOREM ValuesAlwaysPersist == Spec => ValuesPersist
<1> DEFINE A == \A i \in Slot : Live(i) /\ heap'[i] # NoTrace =>
                   /\ heap[i].fvalue # Nil => heap'[i].fvalue = heap[i].fvalue
                   /\ \A k \in StepsOf(heap[i]) : heap[i].steps[k].state # Nil =>
                         heap'[i].steps[k].state = heap[i].steps[k].state
<1>1. TraceInv /\ [Next]_vars => [A]_vars
  BY StepEvolves DEF Evolves, KeepsValues, Live
<1> QED  BY <1>1, TraceInvariant, PTL DEF Spec, ValuesPersist
=============================================================================
