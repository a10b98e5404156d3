------------------------- MODULE LtlDisjunct_proofs -------------------------
(***************************************************************************)
(* The loops that trim a counter-example and generate its disjunct compute *)
(* the closed forms of FiPath, for every model, invariant and set of       *)
(* counter-examples.                                                       *)
(*                                                                         *)
(* The formula of class 1 grows from its end: when the loop has come down  *)
(* to step m, the formula holds at position i of a path iff the steps      *)
(* after m of the FIPATH are embedded in it from i to the violation        *)
(* (SuffixFrom).  An until of the form inv U ... reaches no further than   *)
(* the first violation, so the last state of the FIPATH is met there only. *)
(***************************************************************************)
EXTENDS LtlDisjunct, FiPath_proofs

K(t) == TruncStep(inv, t)

LEMMA CexFacts ==
    ASSUME NEW t \in Cex
    PROVE  /\ t \in Seq(State) /\ Violates(inv, t)
           /\ Len(t) \in Nat /\ K(t) \in 1 .. Len(t)
           /\ t[K(t)] \notin inv
           /\ \A j \in 1 .. K(t) - 1 : t[j] \in inv
           /\ \A j \in 1 .. Len(t) : t[j] \in State
<1>1. t \in Seq(State) /\ Violates(inv, t)
  BY CexAssumption DEF IsPath
<1> QED  BY <1>1, TruncStepIsFirst DEF K

(* Until the first violation the position alone says whether inv holds.    *)
LEMMA InvUpToK ==
    ASSUME NEW t \in Cex, NEW j \in 1 .. K(t)
    PROVE  t[j] \in inv <=> j # K(t)
BY CexFacts

-----------------------------------------------------------------------------
(* What the formulas mean at the positions of a counter-example.           *)
LEMMA PointOf ==
    ASSUME NEW t \in Cex, NEW i \in 1 .. Len(t)
    PROVE  <<t, i>> \in Points
BY DEF Points

LEMMA PointOnly ==
    ASSUME NEW t \in Cex, NEW i, <<t, i>> \in Points
    PROVE  i \in 1 .. Len(t)
<1>1. PICK u \in Cex \cup {<<s>> : s \in State} : <<t, i>> \in {u} \X (1 .. Len(u))
  BY DEF Points
<1> QED  BY <1>1

LEMMA StateHolds ==
    ASSUME NEW t \in Cex, NEW i \in 1 .. Len(t), NEW s
    PROVE  <<t, i>> \in IsState(s) <=> t[i] = s
BY PointOf DEF IsState

LEMMA InvHolds ==
    ASSUME NEW t \in Cex, NEW i \in 1 .. Len(t)
    PROVE  <<t, i>> \in InvExpr <=> t[i] \in inv
BY PointOf DEF InvExpr

LEMMA NotHolds ==
    ASSUME NEW t \in Cex, NEW i \in 1 .. Len(t), NEW f
    PROVE  <<t, i>> \in Not(f) <=> <<t, i>> \notin f
BY PointOf DEF Not

LEMMA PrevHolds ==
    ASSUME NEW t \in Cex, NEW i \in 1 .. Len(t), NEW s
    PROVE  <<t, i>> \in Prev(IsState(s)) <=> i > 1 /\ t[i - 1] = s
<1>1. <<t, i>> \in Prev(IsState(s)) <=> <<t, i - 1>> \in IsState(s)
  BY PointOf DEF Prev
<1>2. ASSUME <<t, i - 1>> \in IsState(s)
      PROVE  i > 1 /\ t[i - 1] = s
  <2>1. <<t, i - 1>> \in Points
    BY <1>2 DEF IsState
  <2>2. i - 1 \in 1 .. Len(t)
    BY <2>1, PointOnly
  <2>3. Len(t) \in Nat
    BY CexFacts
  <2> QED  BY <1>2, <2>2, <2>3, StateHolds
<1>3. ASSUME i > 1, t[i - 1] = s
      PROVE  <<t, i - 1>> \in IsState(s)
  <2>1. i - 1 \in 1 .. Len(t)
    BY <1>3, CexFacts
  <2> QED  BY <1>3, <2>1, StateHolds
<1> QED  BY <1>1, <1>2, <1>3

(* inv U g looks no further than the first violation.                      *)
LEMMA UntilHolds ==
    ASSUME NEW t \in Cex, NEW i \in 1 .. K(t), NEW g
    PROVE  <<t, i>> \in Until(InvExpr, g) <=> \E j \in i .. K(t) : <<t, j>> \in g
<1>1. Len(t) \in Nat /\ K(t) \in 1 .. Len(t)
  BY CexFacts
<1>2. <<t, i>> \in Until(InvExpr, g) <=>
        \E j \in i .. Len(t) :
            <<t, j>> \in g /\ \A m \in i .. j - 1 : <<t, m>> \in InvExpr
  BY <1>1, PointOf DEF Until
<1>3. ASSUME NEW j \in i .. Len(t), \A m \in i .. j - 1 : <<t, m>> \in InvExpr
      PROVE  j \in i .. K(t)
  <2>1. SUFFICES ASSUME j > K(t) PROVE FALSE
    BY <1>1
  <2>2. K(t) \in i .. j - 1
    BY <1>1, <2>1
  <2>3. <<t, K(t)>> \in InvExpr
    BY <1>3, <2>2
  <2> QED  BY <1>1, <2>3, InvHolds, CexFacts
<1>4. ASSUME NEW j \in i .. K(t), NEW m \in i .. j - 1
      PROVE  <<t, m>> \in InvExpr
  <2>1. m \in 1 .. K(t) - 1 /\ m \in 1 .. Len(t)
    BY <1>1
  <2> QED  BY <2>1, InvHolds, CexFacts
<1>5. \A j \in i .. K(t) : j \in i .. Len(t)
  BY <1>1
<1> QED  BY <1>2, <1>3, <1>4, <1>5

(* !inv & ... up to the first violation: only there.                       *)
LEMMA BadHolds ==
    ASSUME NEW t \in Cex, NEW j \in 1 .. K(t), NEW f
    PROVE  <<t, j>> \in And(Not(InvExpr), f) <=> j = K(t) /\ <<t, j>> \in f
<1>1. j \in 1 .. Len(t)
  BY CexFacts
<1> QED  BY <1>1, NotHolds, InvHolds, InvUpToK DEF And

(* inv U (!inv & ...) speaks of the first violation.                       *)
LEMMA UntilBadHolds ==
    ASSUME NEW t \in Cex, NEW f
    PROVE  <<t, 1>> \in Until(InvExpr, And(Not(InvExpr), f)) <=> <<t, K(t)>> \in f
<1>1. K(t) \in Nat /\ K(t) >= 1
  BY CexFacts
<1>2. 1 \in 1 .. K(t) /\ K(t) \in 1 .. K(t)
  BY <1>1
<1>3. <<t, 1>> \in Until(InvExpr, And(Not(InvExpr), f)) <=>
        \E j \in 1 .. K(t) : <<t, j>> \in And(Not(InvExpr), f)
  BY <1>2, UntilHolds
<1> QED  BY <1>2, <1>3, BadHolds

-----------------------------------------------------------------------------
(* The steps m .. Len(c) of a FIPATH c are embedded in t, in order, from   *)
(* position i to its first violation.                                      *)
Embedding(c, m, t, i, f) ==
    /\ f \in [m .. Len(c) -> i .. K(t)]
    /\ f[m] = i /\ f[Len(c)] = K(t)
    /\ \A x \in m .. Len(c) : t[f[x]] = c[x]
    /\ \A x \in m .. Len(c) - 1 : f[x] <= f[x + 1]

SuffixFrom(c, m, t, i) == \E f : Embedding(c, m, t, i, f)

(* The last step of the FIPATH alone.                                      *)
LEMMA SuffixLast ==
    ASSUME NEW c \in Seq(State), c # << >>, NEW t \in Cex, NEW i \in 1 .. K(t)
    PROVE  SuffixFrom(c, Len(c), t, i) <=> i = K(t) /\ t[i] = c[Len(c)]
<1>1. Len(c) \in Nat /\ K(t) \in Nat
  BY CexFacts
<1>2. ASSUME SuffixFrom(c, Len(c), t, i) PROVE i = K(t) /\ t[i] = c[Len(c)]
  BY <1>1, <1>2 DEF SuffixFrom, Embedding
<1>3. ASSUME i = K(t), t[i] = c[Len(c)] PROVE SuffixFrom(c, Len(c), t, i)
  <2> DEFINE f == [x \in Len(c) .. Len(c) |-> i]
  <2>1. f \in [Len(c) .. Len(c) -> i .. K(t)]
    BY <1>1, <1>3
  <2>2. \A x \in Len(c) .. Len(c) : x = Len(c) /\ f[x] = i
    BY <1>1
  <2>3. Len(c) \in Len(c) .. Len(c)
    BY <1>1
  <2> HIDE DEF f
  <2>4. Embedding(c, Len(c), t, i, f)
    BY <1>1, <1>3, <2>1, <2>2, <2>3 DEF Embedding
  <2> QED  BY <2>4 DEF SuffixFrom
<1> QED  BY <1>2, <1>3

(* One step more at its front.                                             *)
LEMMA SuffixGrows ==
    ASSUME NEW c \in Seq(State), NEW m \in 1 .. Len(c) - 1,
           NEW t \in Cex, NEW i \in 1 .. K(t)
    PROVE  SuffixFrom(c, m, t, i) <=>
             t[i] = c[m] /\ \E j \in i .. K(t) : SuffixFrom(c, m + 1, t, j)
<1>1. Len(c) \in Nat /\ K(t) \in Nat /\ m \in Nat /\ i \in Nat
  BY CexFacts
<1>2. ASSUME NEW f, Embedding(c, m, t, i, f)
      PROVE  t[i] = c[m] /\ \E j \in i .. K(t) : SuffixFrom(c, m + 1, t, j)
  <2>1. /\ m \in m .. Len(c) /\ m + 1 \in m .. Len(c) /\ Len(c) \in m + 1 .. Len(c)
        /\ \A x \in m + 1 .. Len(c) : x \in m .. Len(c)
        /\ \A x \in m + 1 .. Len(c) - 1 : x \in m .. Len(c) - 1
    BY <1>1
  <2> DEFINE j == f[m + 1]
             g == [x \in m + 1 .. Len(c) |-> f[x]]
  <2>2. t[i] = c[m] /\ j \in i .. K(t)
    BY <1>2, <2>1 DEF Embedding
  <2>3. \A x \in m + 1 .. Len(c) : f[x] \in j .. K(t)
    <3> DEFINE T == {x \in m + 1 .. Len(c) : f[x] < j}
    <3>1. SUFFICES ASSUME T # {} PROVE FALSE
      <4>1. \A x \in m + 1 .. Len(c) : f[x] \in i .. K(t)
        BY <1>2, <2>1 DEF Embedding
      <4>2. j \in Nat /\ \A x \in m + 1 .. Len(c) : f[x] \in Nat /\ f[x] <= K(t)
        BY <1>1, <2>2, <4>1
      <4>3. \A x \in m + 1 .. Len(c) : ~ (f[x] < j)
        BY <3>1
      <4> HIDE DEF j
      <4> QED  BY <1>1, <4>2, <4>3
    <3>2. T \subseteq Nat
      BY <1>1
    <3>3. PICK x \in T : \A y \in T : x <= y
      BY <3>1, <3>2, LeastNat
    <3>4. x \in m + 1 .. Len(c) /\ f[x] < j /\ x # m + 1
      BY <1>1, <2>2, <3>3
    <3>5. x - 1 \in m + 1 .. Len(c) /\ x - 1 \in m .. Len(c) - 1 /\ x \in Nat
      BY <1>1, <3>4
    <3>6. x - 1 \notin T
      BY <3>3, <3>5
    <3>7. f[x - 1] <= f[(x - 1) + 1]
      BY <1>2, <3>5 DEF Embedding
    <3>8. f[x - 1] \in Nat /\ f[x] \in Nat /\ j \in Nat
      <4>1. x \in m .. Len(c) /\ x - 1 \in m .. Len(c)
        BY <1>1, <3>4, <3>5
      <4>2. f[x - 1] \in i .. K(t) /\ f[x] \in i .. K(t)
        BY <1>2, <4>1 DEF Embedding
      <4> HIDE DEF j
      <4> QED  BY <1>1, <2>2, <4>2
    <3>9. (x - 1) + 1 = x
      BY <3>5
    <3> HIDE DEF j
    <3>10. ~ (f[x - 1] < j)
      BY <3>5, <3>6
    <3> QED  BY <3>4, <3>7, <3>8, <3>9, <3>10
  <2>4. Embedding(c, m + 1, t, j, g)
    <3>1. g \in [m + 1 .. Len(c) -> j .. K(t)]
      BY <2>3
    <3>2. g[m + 1] = j /\ g[Len(c)] = K(t)
      BY <1>1, <1>2, <2>1 DEF Embedding
    <3>3. \A x \in m + 1 .. Len(c) : t[g[x]] = c[x]
      BY <1>2, <2>1 DEF Embedding
    <3>4. \A x \in m + 1 .. Len(c) - 1 : g[x] <= g[x + 1]
      <4> TAKE x \in m + 1 .. Len(c) - 1
      <4>1. x \in m + 1 .. Len(c) /\ x + 1 \in m + 1 .. Len(c) /\ x \in m .. Len(c) - 1
        BY <1>1
      <4> QED  BY <1>2, <4>1 DEF Embedding
    <3> HIDE DEF g, j
    <3> QED  BY <3>1, <3>2, <3>3, <3>4 DEF Embedding
  <2> QED  BY <2>2, <2>4 DEF SuffixFrom
<1>3. ASSUME t[i] = c[m], NEW j \in i .. K(t), NEW g, Embedding(c, m + 1, t, j, g)
      PROVE  SuffixFrom(c, m, t, i)
  <2> DEFINE f == [x \in m .. Len(c) |-> IF x = m THEN i ELSE g[x]]
  <2>1. /\ \A x \in m .. Len(c) : x # m => x \in m + 1 .. Len(c)
        /\ m \in m .. Len(c) /\ Len(c) \in m .. Len(c) /\ Len(c) # m
        /\ m + 1 \in m + 1 .. Len(c)
    BY <1>1
  <2>2. \A x \in m + 1 .. Len(c) : g[x] \in j .. K(t) /\ g[x] \in i .. K(t)
    <3>1. \A x \in m + 1 .. Len(c) : g[x] \in j .. K(t)
      BY <1>3 DEF Embedding
    <3>2. j .. K(t) \subseteq i .. K(t)
      BY <1>1
    <3> QED  BY <3>1, <3>2
  <2>3. f[m] = i /\ \A x \in m + 1 .. Len(c) : f[x] = g[x]
    BY <1>1
  <2>4. f \in [m .. Len(c) -> i .. K(t)]
    BY <1>1, <2>1, <2>2
  <2> HIDE DEF f
  <2>5. f[Len(c)] = K(t)
    <3>1. Len(c) \in m + 1 .. Len(c)
      BY <2>1
    <3> QED  BY <1>3, <2>3, <3>1 DEF Embedding
  <2>6. \A x \in m .. Len(c) : t[f[x]] = c[x]
    <3> TAKE x \in m .. Len(c)
    <3>1. CASE x = m
      BY <1>3, <2>3, <3>1
    <3>2. CASE x # m
      <4>1. x \in m + 1 .. Len(c)
        BY <2>1, <3>2
      <4> QED  BY <1>3, <2>3, <4>1 DEF Embedding
    <3> QED  BY <3>1, <3>2
  <2>7. \A x \in m .. Len(c) - 1 : f[x] <= f[x + 1]
    <3> TAKE x \in m .. Len(c) - 1
    <3>1. CASE x = m
      <4>1. f[x + 1] = j
        BY <1>3, <2>1, <2>3, <3>1 DEF Embedding
      <4> QED  BY <1>1, <2>3, <3>1, <4>1
    <3>2. CASE x # m
      <4>1. x \in m + 1 .. Len(c) - 1 /\ x \in m + 1 .. Len(c) /\ x + 1 \in m + 1 .. Len(c)
        BY <1>1, <3>2
      <4>2. g[x] <= g[x + 1]
        BY <1>3, <4>1 DEF Embedding
      <4> QED  BY <2>3, <4>1, <4>2
    <3> QED  BY <3>1, <3>2
  <2>8. Embedding(c, m, t, i, f)
    BY <2>3, <2>4, <2>5, <2>6, <2>7 DEF Embedding
  <2> QED  BY <2>8 DEF SuffixFrom
<1> QED  BY <1>2, <1>3 DEF SuffixFrom

(* All of the FIPATH from the first position: the closed form of class 1.  *)
LEMMA SuffixIsEmbeds ==
    ASSUME NEW c \in Seq(State), NEW t \in Cex
    PROVE  SuffixFrom(c, 1, t, 1) <=> Embeds(c, t, K(t))
BY DEF SuffixFrom, Embedding, Embeds

-----------------------------------------------------------------------------
(* The invariant.  First the loops over the trace.                         *)
StartOf(t) == InitStep(t, K(t))

TypeInv ==
    /\ class \in EqClass /\ trace \in Cex /\ step \in Nat
    /\ pc \in {"trunc", "init", "copy", "last", "chain", "done", "error"}

(* from is the last of the first n steps that looks initial, 0 for none.   *)
LastOf(n) ==
    /\ from \in 0 .. n
    /\ from # 0 => trace[from] \in InitExpr
    /\ \A j \in from + 1 .. n : trace[j] \notin InitExpr

TrimInv ==
    /\ pc = "trunc" => step \in 1 .. K(trace) /\ from = 0 /\ fipath = << >>
    /\ pc # "trunc" => until = K(trace)
    /\ pc = "init" => step \in 1 .. K(trace) /\ LastOf(step - 1) /\ fipath = << >>
    /\ pc = "copy" =>
        /\ step \in StartOf(trace) .. K(trace)
        /\ fipath = SubSeq(trace, StartOf(trace), step - 1)

(* Then the generation: the part of the formula built so far.              *)
ExprInv ==
    /\ pc = "last" => step = Len(fipath)
    /\ pc = "chain" =>
        /\ class = 1 /\ step \in 0 .. Len(fipath) - 1
        /\ \A t \in Cex : \A i \in 1 .. K(t) :
               <<t, i>> \in expr <=> SuffixFrom(fipath, step + 1, t, i)
    /\ pc = "done" /\ class = 2 => Len(fipath) > 1

LoopInv == TypeInv /\ TrimInv /\ FipathIsClosedForm /\ ExprInv /\ FormulaIsClosedForm


LEMMA TraceFacts ==
    ASSUME TypeInv
    PROVE  /\ trace \in Seq(State) /\ Violates(inv, trace)
           /\ Len(trace) \in Nat /\ K(trace) \in 1 .. Len(trace)
           /\ StartOf(trace) \in 1 .. K(trace)
           /\ Fipath(inv, trace) = SubSeq(trace, StartOf(trace), K(trace))
           /\ Fipath(inv, trace) \in Seq(State)
           /\ Len(Fipath(inv, trace)) \in 1 .. K(trace)
<1>1. /\ trace \in Seq(State) /\ Violates(inv, trace)
      /\ Len(trace) \in Nat /\ K(trace) \in 1 .. Len(trace)
  BY CexFacts DEF TypeInv
<1>2. StartOf(trace) \in 1 .. K(trace)
  BY <1>1, InitStepType DEF StartOf
<1>3. Fipath(inv, trace) = SubSeq(trace, StartOf(trace), K(trace))
  BY DEF Fipath, StartOf, K
<1> QED  BY <1>1, <1>2, <1>3, FipathProperties DEF K

(* What find_init_trace_step found, once its loop reaches the violation.   *)
LEMMA LastIsInitStep ==
    ASSUME TypeInv, LastOf(K(trace) - 1)
    PROVE  StartOf(trace) = IF from = 0 THEN 1 ELSE from
<1>1. K(trace) \in Nat /\ K(trace) >= 1
  BY TraceFacts
<1>2. CASE from = 0
  <2>1. ~ \E i \in 1 .. K(trace) - 1 : trace[i] \in InitExpr
    BY <1>1, <1>2 DEF LastOf
  <2> QED  BY <1>2, <2>1 DEF StartOf, InitStep
<1>3. CASE from # 0
  <2> DEFINE P(i) == trace[i] \in InitExpr /\ \A j \in i + 1 .. K(trace) - 1 : trace[j] \notin InitExpr
             m == CHOOSE i \in 1 .. K(trace) - 1 : P(i)
  <2>1. from \in 1 .. K(trace) - 1 /\ P(from)
    BY <1>1, <1>3 DEF LastOf
  <2>2. m \in 1 .. K(trace) - 1 /\ P(m)
    BY <2>1
  <2>3. StartOf(trace) = m
    BY <2>1 DEF StartOf, InitStep
  <2> HIDE DEF m
  <2>4. ~ (m < from) /\ ~ (from < m)
    BY <1>1, <2>1, <2>2
  <2> QED  BY <1>1, <1>3, <2>1, <2>2, <2>3, <2>4
<1> QED  BY <1>2, <1>3

-----------------------------------------------------------------------------
LEMMA LoopInit == Init => LoopInv
<1> SUFFICES ASSUME Init PROVE LoopInv
  OBVIOUS
<1>1. TypeInv
  BY DEF Init, TypeInv
<1>2. 1 \in 1 .. K(trace)
  BY <1>1, TraceFacts
<1> QED
  BY <1>1, <1>2
  DEF Init, LoopInv, TrimInv, ExprInv, FipathIsClosedForm, FormulaIsClosedForm

(* find_trunc_trace_step.                                                  *)
LEMMA TruncKeeps == LoopInv /\ TruncLoop => LoopInv'
<1> SUFFICES ASSUME LoopInv, TruncLoop PROVE LoopInv'
  OBVIOUS
<1>1. /\ TypeInv /\ pc = "trunc" /\ step \in 1 .. K(trace)
      /\ from = 0 /\ fipath = << >>
      /\ UNCHANGED <<class, trace, from, fipath, expr>>
  BY DEF LoopInv, TrimInv, TruncLoop
<1>2. /\ trace \in Cex /\ K(trace) \in 1 .. Len(trace) /\ Len(trace) \in Nat
      /\ trace[step] \in State
  BY <1>1, CexFacts DEF TypeInv
<1>3. HoldsInStep(InvExpr, trace, step) <=> trace[step] \in inv
  <2> DEFINE u == <<trace[step]>>
  <2>1. u \in Cex \cup {<<s>> : s \in State} /\ Len(u) = 1 /\ u[1] = trace[step]
    BY <1>2
  <2> HIDE DEF u
  <2>2. <<u, 1>> \in {u} \X (1 .. Len(u))
    BY <2>1
  <2>3. <<u, 1>> \in Points
    BY <2>1, <2>2 DEF Points
  <2>4. <<u, 1>> \in InvExpr <=> u[1] \in inv
    BY <2>3 DEF InvExpr
  <2> QED  BY <2>1, <2>4 DEF HoldsInStep, u
<1>4. trace[step] \in inv <=> step # K(trace)
  BY <1>1, <1>2, InvUpToK
<1>5. CASE HoldsInStep(InvExpr, trace, step)
  <2>1. step' = step + 1 /\ pc' = "trunc" /\ step' \in 1 .. K(trace)
    BY <1>1, <1>2, <1>3, <1>4, <1>5 DEF TruncLoop, NextStep
  <2>2. TypeInv'
    BY <1>1, <2>1 DEF TypeInv
  <2>3. TrimInv'
    BY <1>1, <2>1 DEF TrimInv, K
  <2> QED
    BY <2>1, <2>2, <2>3 DEF LoopInv, ExprInv, FipathIsClosedForm, FormulaIsClosedForm
<1>6. CASE ~ HoldsInStep(InvExpr, trace, step)
  <2>1. step' = 1 /\ pc' = "init" /\ until' = K(trace) /\ 1 \in 1 .. K(trace)
    BY <1>1, <1>2, <1>3, <1>4, <1>6 DEF TruncLoop
  <2>2. TypeInv'
    BY <1>1, <2>1 DEF TypeInv
  <2>3. LastOf(step - 1)'
    BY <1>1, <2>1 DEF LastOf
  <2>4. TrimInv'
    BY <1>1, <2>1, <2>3 DEF TrimInv, K
  <2> QED
    BY <2>1, <2>2, <2>4 DEF LoopInv, ExprInv, FipathIsClosedForm, FormulaIsClosedForm
<1> QED  BY <1>5, <1>6

(* find_init_trace_step.                                                   *)
LEMMA InitKeeps == LoopInv /\ InitLoop => LoopInv'
<1> SUFFICES ASSUME LoopInv, InitLoop PROVE LoopInv'
  OBVIOUS
<1>1. /\ TypeInv /\ pc = "init" /\ step \in 1 .. K(trace)
      /\ LastOf(step - 1) /\ until = K(trace) /\ fipath = << >>
      /\ UNCHANGED <<class, trace, until, fipath, expr>>
  BY DEF LoopInv, TrimInv, InitLoop
<1>2. K(trace) \in Nat /\ StartOf(trace) \in 1 .. K(trace)
  BY <1>1, TraceFacts
<1>3. CASE step # until
  <2>1. step' = step + 1 /\ pc' = "init" /\ from' = LastInit /\ step' \in 1 .. K(trace)
    BY <1>1, <1>2, <1>3 DEF InitLoop, NextStep
  <2>2. TypeInv'
    BY <1>1, <2>1 DEF TypeInv
  <2>3. LastOf(step - 1)'
    <3>1. step' - 1 = step /\ step - 1 \in Nat /\ step \in Nat
      BY <1>1, <2>1
    <3>2. CASE trace[step] \in InitExpr
      <4>1. from' = step
        BY <2>1, <3>2 DEF LastInit
      <4> QED  BY <1>1, <3>1, <3>2, <4>1 DEF LastOf
    <3>3. CASE trace[step] \notin InitExpr
      <4>1. from' = from
        BY <2>1, <3>3 DEF LastInit
      <4>2. from \in 0 .. step - 1 /\ from \in 0 .. step
        BY <1>1, <3>1 DEF LastOf
      <4>3. \A j \in from + 1 .. step : j \in from + 1 .. step - 1 \/ j = step
        BY <3>1, <4>2
      <4> QED  BY <1>1, <3>1, <3>3, <4>1, <4>2, <4>3 DEF LastOf
    <3> QED  BY <3>2, <3>3
  <2>4. TrimInv'
    BY <1>1, <2>1, <2>3 DEF TrimInv, K
  <2> QED
    BY <2>1, <2>2, <2>4 DEF LoopInv, ExprInv, FipathIsClosedForm, FormulaIsClosedForm
<1>4. CASE step = until
  <2>1. pc' = "copy" /\ from' = from /\ step' = IF from = 0 THEN 1 ELSE from
    BY <1>4 DEF InitLoop
  <2>2. step' = StartOf(trace)
    BY <1>1, <1>4, <2>1, LastIsInitStep
  <2>3. step' \in StartOf(trace) .. K(trace) /\ step' \in Nat
    BY <1>2, <2>2
  <2>4. SubSeq(trace, StartOf(trace), step' - 1) = << >>
    BY <1>1, <1>2, <2>2, TraceFacts, SubSeqProperties
  <2>5. TypeInv'
    BY <1>1, <2>1, <2>3 DEF TypeInv
  <2>6. TrimInv'
    BY <1>1, <2>1, <2>3, <2>4 DEF TrimInv, K, StartOf
  <2> QED
    BY <2>1, <2>5, <2>6 DEF LoopInv, ExprInv, FipathIsClosedForm, FormulaIsClosedForm
<1> QED  BY <1>3, <1>4

(* Trace_copy_ex.                                                          *)
LEMMA CopyKeeps == LoopInv /\ CopyLoop => LoopInv'
<1> SUFFICES ASSUME LoopInv, CopyLoop PROVE LoopInv'
  OBVIOUS
<1> DEFINE F == StartOf(trace)
<1>1. /\ TypeInv /\ pc = "copy" /\ step \in F .. K(trace)
      /\ fipath = SubSeq(trace, F, step - 1) /\ until = K(trace)
      /\ UNCHANGED <<class, trace, until, from, expr>>
      /\ fipath' = Append(fipath, trace[step])
  BY DEF LoopInv, TrimInv, CopyLoop
<1>2. /\ trace \in Seq(State) /\ Len(trace) \in Nat /\ K(trace) \in 1 .. Len(trace)
      /\ F \in 1 .. K(trace)
      /\ Fipath(inv, trace) = SubSeq(trace, F, K(trace))
  BY <1>1, TraceFacts
<1> HIDE DEF F
<1>3. fipath' = SubSeq(trace, F, step)
  <2>1. step \in 1 .. Len(trace) /\ step \in Nat /\ F \in Nat
    BY <1>1, <1>2
  <2>2. /\ fipath \in Seq(State) /\ Len(fipath) = step - F
        /\ \A i \in 1 .. step - F : fipath[i] = trace[F + i - 1]
    <3>1. F .. step - 1 \subseteq 1 .. Len(trace)
      BY <1>2, <2>1
    <3>2. F \in 1 .. Len(trace) + 1 /\ step - 1 \in F - 1 .. Len(trace)
      BY <1>1, <1>2, <2>1
    <3> QED  BY <1>1, <1>2, <2>1, <3>1, <3>2, SubSeqProperties
  <2>3. /\ SubSeq(trace, F, step) \in Seq(State)
        /\ Len(SubSeq(trace, F, step)) = step - F + 1
        /\ \A i \in 1 .. step - F + 1 : SubSeq(trace, F, step)[i] = trace[F + i - 1]
    BY <1>1, <1>2, <2>1, SubSeqProperties
  <2>4. /\ fipath' \in Seq(State) /\ Len(fipath') = step - F + 1
        /\ \A i \in 1 .. step - F + 1 : fipath'[i] = trace[F + i - 1]
    <3>1. trace[step] \in State
      BY <1>2, <2>1
    <3>2. fipath' \in Seq(State) /\ Len(fipath') = step - F + 1
      BY <1>1, <2>2, <3>1
    <3>3. fipath'[step - F + 1] = trace[F + (step - F + 1) - 1]
      <4>1. fipath'[Len(fipath) + 1] = trace[step]
        BY <1>1, <2>2
      <4>2. Len(fipath) + 1 = step - F + 1 /\ F + (step - F + 1) - 1 = step
        BY <2>1, <2>2
      <4> QED  BY <4>1, <4>2
    <3>4. \A i \in 1 .. step - F : fipath'[i] = fipath[i]
      BY <1>1, <2>2, <3>1
    <3>5. \A i \in 1 .. step - F + 1 : i \in 1 .. step - F \/ i = step - F + 1
      BY <1>1, <2>1
    <3> QED  BY <2>2, <3>2, <3>3, <3>4, <3>5
  <2>5. \A i \in 1 .. Len(fipath') : fipath'[i] = SubSeq(trace, F, step)[i]
    BY <2>3, <2>4
  <2> QED  BY <2>3, <2>4, <2>5, SeqEqual
<1>4. CASE step # until
  <2>1. step' = step + 1 /\ pc' = "copy" /\ step' \in F .. K(trace) /\ step' - 1 = step
    BY <1>1, <1>2, <1>4 DEF CopyLoop, NextStep
  <2>2. TypeInv'
    BY <1>1, <1>2, <2>1 DEF TypeInv
  <2>3. TrimInv'
    BY <1>1, <1>3, <2>1 DEF TrimInv, K, StartOf, F
  <2> QED
    BY <2>1, <2>2, <2>3 DEF LoopInv, ExprInv, FipathIsClosedForm, FormulaIsClosedForm
<1>5. CASE step = until
  <2>1. step' = Len(fipath') /\ pc' = "last"
    BY <1>5 DEF CopyLoop
  <2>2. fipath' = Fipath(inv, trace)
    BY <1>1, <1>2, <1>3, <1>5
  <2>3. Len(fipath') \in Nat
    BY <1>1, <1>2, <2>2, TraceFacts
  <2>4. TypeInv'
    BY <1>1, <2>1, <2>3 DEF TypeInv
  <2>5. TrimInv'
    BY <1>1, <2>1 DEF TrimInv, K
  <2>6. FipathIsClosedForm' /\ ExprInv' /\ FormulaIsClosedForm'
    BY <1>1, <2>1, <2>2 DEF FipathIsClosedForm, ExprInv, FormulaIsClosedForm
  <2> QED  BY <2>4, <2>5, <2>6 DEF LoopInv
<1> QED  BY <1>4, <1>5

-----------------------------------------------------------------------------
(* generate_disjunc, class by class, on the last step of the FIPATH.       *)
LEMMA DisjunctHolds ==
    ASSUME TypeInv, NEW c \in EqClass, NEW t
    PROVE  LET p == Fipath(inv, trace)
           IN  Holds(Disjunct(c, inv, trace), inv, t) <=>
                 \/ c = 1 /\ Embeds(p, t, K(t))
                 \/ c = 2 /\ SameLastEdge(p, t, K(t))
                 \/ c = 3 /\ SameEnds(p, t, K(t))
                 \/ c = 4 /\ SameLast(p, t, K(t))
BY DEF Holds, Disjunct, K

LEMMA LastKeeps == LoopInv /\ LastOfFipath => LoopInv'
<1> SUFFICES ASSUME LoopInv, LastOfFipath PROVE LoopInv'
  OBVIOUS
<1> DEFINE n == Len(fipath)
<1>1. /\ TypeInv /\ pc = "last" /\ step = n
      /\ fipath = Fipath(inv, trace) /\ until = K(trace)
      /\ UNCHANGED <<class, trace, until, from, fipath>>
  BY DEF LoopInv, TrimInv, ExprInv, FipathIsClosedForm, LastOfFipath
<1>2. fipath \in Seq(State) /\ n \in Nat /\ n >= 1 /\ fipath # << >>
  <2>1. fipath \in Seq(State) /\ n \in 1 .. K(trace) /\ K(trace) \in Nat
    BY <1>1, TraceFacts
  <2> QED  BY <2>1
<1> HIDE DEF n
<1>3. ASSUME NEW t \in Cex
      PROVE  /\ K(t) \in 1 .. Len(t) /\ Len(t) \in Nat /\ 1 \in 1 .. Len(t)
             /\ 1 \in 1 .. K(t) /\ K(t) \in 1 .. K(t)
  BY CexFacts
<1>4. ASSUME NEW t \in Cex
      PROVE  <<t, 1>> \in Disjunct4 <=> SameLast(fipath, t, K(t))
  <2>1. <<t, 1>> \in Disjunct4 <=> <<t, K(t)>> \in IsState(fipath[n])
    BY <1>1, UntilBadHolds DEF Disjunct4, Bad
  <2> QED  BY <1>3, <2>1, StateHolds DEF SameLast, n
<1>5. /\ fipath' = fipath /\ trace' = trace /\ class' = class /\ until' = until
      /\ class \in EqClass /\ trace \in Cex
  BY <1>1 DEF TypeInv
<1>6. ASSUME NEW q \in {"chain", "done", "error"}, pc' = q, step' \in Nat
      PROVE  TypeInv' /\ TrimInv' /\ FipathIsClosedForm'
  BY <1>1, <1>5, <1>6 DEF TypeInv, TrimInv, FipathIsClosedForm, K, StartOf
<1>7. CASE class = 1
  <2>1. expr' = Bad /\ step' = n - 1 /\ pc' = "chain"
    BY <1>1, <1>7 DEF LastOfFipath
  <2>2. ASSUME NEW t \in Cex, NEW i \in 1 .. K(t)
        PROVE  <<t, i>> \in Bad <=> SuffixFrom(fipath, n, t, i)
    <3>1. <<t, i>> \in Bad <=> i = K(t) /\ <<t, i>> \in IsState(fipath[n])
      BY <1>1, BadHolds DEF Bad
    <3>2. i \in 1 .. Len(t)
      BY <1>3
    <3>3. <<t, i>> \in IsState(fipath[n]) <=> t[i] = fipath[n]
      BY <3>2, StateHolds
    <3> QED  BY <1>2, <3>1, <3>3, SuffixLast DEF n
  <2>3. step' \in 0 .. n - 1 /\ step' + 1 = n /\ step' \in Nat
    BY <1>2, <2>1
  <2>4. \A t \in Cex : \A i \in 1 .. K(t) :
          <<t, i>> \in expr' <=> SuffixFrom(fipath', step' + 1, t, i)
    BY <1>5, <2>1, <2>2, <2>3
  <2>5. step' \in 0 .. Len(fipath') - 1
    BY <1>5, <2>3 DEF n
  <2>6. ExprInv'
    BY <1>5, <1>7, <2>1, <2>4, <2>5 DEF ExprInv, SuffixFrom, Embedding, K
  <2> QED  BY <1>6, <2>1, <2>3, <2>6 DEF LoopInv, FormulaIsClosedForm
<1>8. CASE class = 2 /\ step > 1
  <2>1. expr' = Disjunct2 /\ step' = n - 1 /\ pc' = "done" /\ n > 1 /\ step' \in Nat
    BY <1>1, <1>2, <1>8 DEF LastOfFipath
  <2>2. ASSUME NEW t \in Cex
        PROVE  <<t, 1>> \in Disjunct2 <=> SameLastEdge(fipath, t, K(t))
    <3> DEFINE f == And(Prev(IsState(fipath[n - 1])), IsState(fipath[n]))
    <3>1. Disjunct2 = Until(InvExpr, And(Not(InvExpr), f))
      BY <1>1 DEF Disjunct2
    <3> HIDE DEF f
    <3>2. <<t, 1>> \in Disjunct2 <=> <<t, K(t)>> \in f
      BY <3>1, UntilBadHolds
    <3>3. <<t, K(t)>> \in f <=>
            K(t) > 1 /\ t[K(t) - 1] = fipath[n - 1] /\ t[K(t)] = fipath[n]
      BY <1>3, PrevHolds, StateHolds DEF f, And
    <3> QED  BY <2>1, <3>2, <3>3 DEF SameLastEdge, n
  <2>3. FormulaIsClosedForm'
    <3>1. \A t : Holds(Disjunct(class, inv, trace), inv, t) <=> SameLastEdge(fipath, t, K(t))
      BY <1>1, <1>5, <1>8, DisjunctHolds
    <3>2. \A t \in Cex : <<t, 1>> \in expr' <=> Holds(Disjunct(class, inv, trace), inv, t)
      BY <2>1, <2>2, <3>1
    <3> QED  BY <1>5, <3>2 DEF FormulaIsClosedForm
  <2>4. ExprInv'
    BY <1>5, <2>1 DEF ExprInv, n
  <2> QED  BY <1>6, <2>1, <2>3, <2>4 DEF LoopInv
<1>9. CASE class = 2 /\ step = 1
  <2>1. step' = 0 /\ pc' = "error"
    BY <1>9 DEF LastOfFipath
  <2> QED  BY <1>6, <2>1 DEF LoopInv, ExprInv, FormulaIsClosedForm
<1>10. CASE class = 3
  <2>1. expr' = And(IsState(fipath[1]), Disjunct4) /\ step' = step /\ pc' = "done"
    BY <1>1, <1>10 DEF LastOfFipath
  <2>2. ASSUME NEW t \in Cex
        PROVE  <<t, 1>> \in And(IsState(fipath[1]), Disjunct4) <=> SameEnds(fipath, t, K(t))
    BY <1>3, <1>4, StateHolds DEF And, SameEnds, SameLast
  <2>3. FormulaIsClosedForm'
    <3>1. \A t : Holds(Disjunct(class, inv, trace), inv, t) <=> SameEnds(fipath, t, K(t))
      BY <1>1, <1>5, <1>10, DisjunctHolds
    <3>2. \A t \in Cex : <<t, 1>> \in expr' <=> Holds(Disjunct(class, inv, trace), inv, t)
      BY <2>1, <2>2, <3>1
    <3> QED  BY <1>5, <3>2 DEF FormulaIsClosedForm
  <2>4. ExprInv'
    BY <1>5, <1>10, <2>1 DEF ExprInv
  <2> QED  BY <1>1, <1>2, <1>6, <2>1, <2>3, <2>4 DEF LoopInv
<1>11. CASE class = 4
  <2>1. expr' = Disjunct4 /\ step' = step /\ pc' = "done"
    BY <1>1, <1>11 DEF LastOfFipath
  <2>2. FormulaIsClosedForm'
    <3>1. \A t : Holds(Disjunct(class, inv, trace), inv, t) <=> SameLast(fipath, t, K(t))
      BY <1>1, <1>5, <1>11, DisjunctHolds
    <3>2. \A t \in Cex : <<t, 1>> \in expr' <=> Holds(Disjunct(class, inv, trace), inv, t)
      BY <2>1, <1>4, <3>1
    <3> QED  BY <1>5, <3>2 DEF FormulaIsClosedForm
  <2>3. ExprInv'
    BY <1>5, <1>11, <2>1 DEF ExprInv
  <2> QED  BY <1>1, <1>2, <1>6, <2>1, <2>2, <2>3 DEF LoopInv
<1> QED  BY <1>7, <1>8, <1>9, <1>10, <1>11 DEF LastOfFipath

(* generate_disjunc_1: one until more in front.                            *)
LEMMA ChainKeeps == LoopInv /\ ChainLoop => LoopInv'
<1> SUFFICES ASSUME LoopInv, ChainLoop PROVE LoopInv'
  OBVIOUS
<1> DEFINE n == Len(fipath)
<1>1. /\ TypeInv /\ pc = "chain" /\ class = 1 /\ step \in 0 .. n - 1
      /\ fipath = Fipath(inv, trace) /\ until = K(trace)
      /\ UNCHANGED <<class, trace, until, from, fipath>>
      /\ \A t \in Cex : \A i \in 1 .. K(t) :
             <<t, i>> \in expr <=> SuffixFrom(fipath, step + 1, t, i)
  BY DEF LoopInv, TrimInv, ExprInv, FipathIsClosedForm, ChainLoop
<1>2. fipath \in Seq(State) /\ n \in Nat
  BY <1>1, TraceFacts
<1>3. /\ fipath' = fipath /\ trace' = trace /\ class' = class /\ until' = until
      /\ class \in EqClass /\ trace \in Cex
  BY <1>1 DEF TypeInv
<1>4. ASSUME NEW q \in {"chain", "done"}, pc' = q, step' \in Nat
      PROVE  TypeInv' /\ TrimInv' /\ FipathIsClosedForm'
  BY <1>1, <1>3, <1>4 DEF TypeInv, TrimInv, FipathIsClosedForm, K, StartOf
<1> HIDE DEF n
<1>5. CASE ~ NoStepLeft
  <2> DEFINE e == And(IsState(fipath[step]), Until(InvExpr, expr))
  <2>1. expr' = e /\ step' = step - 1 /\ pc' = "chain"
    BY <1>1, <1>5 DEF ChainLoop
  <2>2. /\ step \in 1 .. n - 1 /\ step' \in Nat /\ step' \in 0 .. n - 1
        /\ step' + 1 = step
    BY <1>1, <1>2, <1>5, <2>1 DEF NoStepLeft
  <2>3. ASSUME NEW t \in Cex, NEW i \in 1 .. K(t)
        PROVE  <<t, i>> \in e <=> SuffixFrom(fipath, step, t, i)
    <3>1. i \in 1 .. Len(t) /\ \A j \in i .. K(t) : j \in 1 .. K(t)
      BY CexFacts
    <3>2. <<t, i>> \in e <=> t[i] = fipath[step] /\ <<t, i>> \in Until(InvExpr, expr)
      BY <3>1, StateHolds DEF And
    <3>3. <<t, i>> \in Until(InvExpr, expr) <=> \E j \in i .. K(t) : <<t, j>> \in expr
      BY UntilHolds
    <3>4. <<t, i>> \in Until(InvExpr, expr) <=>
            \E j \in i .. K(t) : SuffixFrom(fipath, step + 1, t, j)
      BY <1>1, <3>1, <3>3
    <3> QED  BY <1>2, <2>2, <3>2, <3>4, SuffixGrows DEF n
  <2> HIDE DEF e
  <2>4. \A t \in Cex : \A i \in 1 .. K(t) :
          <<t, i>> \in expr' <=> SuffixFrom(fipath', step' + 1, t, i)
    BY <1>3, <2>1, <2>2, <2>3
  <2>5. step' \in 0 .. Len(fipath') - 1
    BY <1>3, <2>2 DEF n
  <2>6. ExprInv'
    BY <1>1, <1>3, <2>1, <2>4, <2>5 DEF ExprInv, SuffixFrom, Embedding, K
  <2> QED  BY <1>4, <2>1, <2>2, <2>6 DEF LoopInv, FormulaIsClosedForm
<1>6. CASE NoStepLeft
  <2>1. expr' = expr /\ step' = step /\ pc' = "done" /\ step = 0
    BY <1>1, <1>6 DEF ChainLoop, NoStepLeft
  <2>2. ASSUME NEW t \in Cex
        PROVE  <<t, 1>> \in expr <=> Embeds(fipath, t, K(t))
    <3>1. 1 \in 1 .. K(t) /\ step + 1 = 1
      BY <2>1, CexFacts
    <3>2. <<t, 1>> \in expr <=> SuffixFrom(fipath, 1, t, 1)
      BY <1>1, <3>1
    <3> QED  BY <1>2, <3>2, SuffixIsEmbeds
  <2>3. FormulaIsClosedForm'
    <3>1. \A t : Holds(Disjunct(class, inv, trace), inv, t) <=> Embeds(fipath, t, K(t))
      BY <1>1, <1>3, DisjunctHolds
    <3>2. \A t \in Cex : <<t, 1>> \in expr' <=> Holds(Disjunct(class, inv, trace), inv, t)
      BY <2>1, <2>2, <3>1
    <3> QED  BY <1>3, <3>2 DEF FormulaIsClosedForm
  <2>4. ExprInv'
    BY <1>1, <1>3, <2>1 DEF ExprInv
  <2> QED  BY <1>1, <1>4, <2>1, <2>3, <2>4 DEF LoopInv, TypeInv
<1> QED  BY <1>5, <1>6

LEMMA IdleKeeps == LoopInv /\ UNCHANGED vars => LoopInv'
<1> SUFFICES ASSUME LoopInv, UNCHANGED vars PROVE LoopInv'
  OBVIOUS
<1>1. /\ class' = class /\ trace' = trace /\ pc' = pc /\ step' = step
      /\ until' = until /\ from' = from /\ fipath' = fipath /\ expr' = expr
  BY DEF vars
<1>2. TypeInv' /\ TrimInv'
  BY <1>1 DEF LoopInv, TypeInv, TrimInv, LastOf, StartOf, K
<1>3. ExprInv'
  <2>1. pc' = "chain" => \A t \in Cex : \A i \in 1 .. K(t) :
          <<t, i>> \in expr' <=> SuffixFrom(fipath', step' + 1, t, i)
    BY <1>1 DEF LoopInv, ExprInv
  <2>2. /\ pc' = "last" => step' = Len(fipath')
        /\ pc' = "chain" => class' = 1 /\ step' \in 0 .. Len(fipath') - 1
        /\ pc' = "done" /\ class' = 2 => Len(fipath') > 1
    BY <1>1 DEF LoopInv, ExprInv
  <2> QED  BY <2>1, <2>2 DEF ExprInv, SuffixFrom, Embedding, K
<1>4. FipathIsClosedForm' /\ FormulaIsClosedForm'
  BY <1>1 DEF LoopInv, FipathIsClosedForm, FormulaIsClosedForm
<1> QED  BY <1>2, <1>3, <1>4 DEF LoopInv

-----------------------------------------------------------------------------
(* The loops never leave what they are meant to compute.                   *)
THEOREM LoopInvariant == Spec => []LoopInv
<1>1. LoopInv /\ [Next]_vars => LoopInv'
  BY TruncKeeps, InitKeeps, CopyKeeps, LastKeeps, ChainKeeps, IdleKeeps DEF Next
<1> QED  BY LoopInit, <1>1, PTL DEF Spec

(* find_trunc_trace_step, find_init_trace_step and Trace_copy_ex together  *)
(* compute the FIPATH as the session model has it.                         *)
THEOREM FipathAlwaysClosedForm == Spec => []FipathIsClosedForm
<1>1. LoopInv => FipathIsClosedForm
  BY DEF LoopInv
<1> QED  BY <1>1, LoopInvariant, PTL

(* The formulas of all four classes mean, on every counter-example, what   *)
(* the session model takes them to mean.                                   *)
THEOREM FormulaAlwaysClosedForm == Spec => []FormulaIsClosedForm
<1>1. LoopInv => FormulaIsClosedForm
  BY DEF LoopInv
<1> QED  BY <1>1, LoopInvariant, PTL

(* The generated formula excludes the counter-example it comes from, but   *)
(* for the two classes that lose its first state when trimming does.       *)
THEOREM OwnAlwaysExcluded == Spec => []ExcludesItsOwn
<1>1. LoopInv => ExcludesItsOwn
  <2> SUFFICES ASSUME LoopInv, pc = "done",
                      class \in {2, 4} \/ fipath[1] = trace[1]
               PROVE  <<trace, 1>> \in expr
    BY DEF ExcludesItsOwn
  <2>1. /\ TypeInv /\ fipath = Fipath(inv, trace)
        /\ class = 2 => Len(fipath) > 1
        /\ <<trace, 1>> \in expr <=> Holds(Disjunct(class, inv, trace), inv, trace)
        /\ class \in EqClass
    BY DEF LoopInv, TypeInv, FipathIsClosedForm, ExprInv, FormulaIsClosedForm
  <2>2. /\ trace \in Seq(State) /\ Violates(inv, trace)
        /\ K(trace) \in Nat /\ Len(fipath) \in 1 .. K(trace)
        /\ \A j \in 1 .. K(trace) - 1 : trace[j] \in inv
    BY <2>1, TraceFacts, CexFacts DEF TypeInv
  <2>3. fipath[1] = trace[StartOf(trace)]
    BY <2>1, <2>2, FipathProperties DEF StartOf, K
  <2>4. class = 2 => trace[1] \in inv
    BY <2>1, <2>2
  <2>5. class \in {1, 3} => KeepsFirst(inv, trace)
    BY <2>3 DEF KeepsFirst, StartOf, K
  <2> QED  BY <2>1, <2>2, <2>4, <2>5, ExcludesItself
<1> QED  BY <1>1, LoopInvariant, PTL

(* What the formula of class 1 excludes the one of class 3 would exclude   *)
(* too, and what any formula excludes the one of class 4 would.            *)
THEOREM ClassesAlwaysNest == Spec => []ClassesNest
<1>1. LoopInv => ClassesNest
  <2> SUFFICES ASSUME LoopInv, pc = "done", NEW t \in Cex, <<t, 1>> \in expr
               PROVE  /\ class = 1 => Holds(Disjunct(3, inv, trace), inv, t)
                      /\ Holds(Disjunct(4, inv, trace), inv, t)
    BY DEF ClassesNest
  <2>1. TypeInv /\ class \in EqClass /\ Holds(Disjunct(class, inv, trace), inv, t)
    BY DEF LoopInv, TypeInv, FormulaIsClosedForm
  <2>2. /\ trace \in Seq(State) /\ Violates(inv, trace)
        /\ t \in Seq(State) /\ Violates(inv, t)
    BY <2>1, TraceFacts, CexFacts
  <2> QED  BY <2>1, <2>2, ClassesAreNested
<1> QED  BY <1>1, LoopInvariant, PTL
=============================================================================
