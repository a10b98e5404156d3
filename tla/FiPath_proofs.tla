---------------------------- MODULE FiPath_proofs ----------------------------
(***************************************************************************)
(* What the trimming of a counter-example guarantees, and how the classes  *)
(* of disjuncts relate: for every model, invariant and path.               *)
(***************************************************************************)
EXTENDS FiPath, TLAPS, WellFoundedInduction, SequenceTheorems

-----------------------------------------------------------------------------
(* Every non-empty set of naturals has a least element.                    *)
LEMMA LeastNat ==
    ASSUME NEW T, T \subseteq Nat, T # {}
    PROVE  \E x \in T : \A y \in T : x <= y
<1>1. \E x \in T : \A y \in T : ~ (<<y, x>> \in OpToRel(<, Nat))
  BY WFMin, NatLessThanWellFounded
<1>2. PICK x \in T : \A y \in T : ~ (<<y, x>> \in OpToRel(<, Nat))
  BY <1>1
<1>3. \A y \in T : ~ (y < x)
  BY <1>2 DEF OpToRel
<1> QED  BY <1>3

(* And every bounded one a greatest.                                       *)
LEMMA GreatestNat ==
    ASSUME NEW n \in Nat, NEW T, T \subseteq 0 .. n, T # {}
    PROVE  \E x \in T : \A y \in T : y <= x
<1> DEFINE D == {n - x : x \in T}
<1>1. D \subseteq Nat /\ D # {}
  <2>1. \A x \in T : n - x \in Nat
    OBVIOUS
  <2> QED  BY <2>1
<1>2. PICK d \in D : \A e \in D : d <= e
  BY <1>1, LeastNat
<1>3. PICK x \in T : d = n - x
  OBVIOUS
<1>4. \A y \in T : n - x <= n - y
  BY <1>2, <1>3
<1> QED  BY <1>4

-----------------------------------------------------------------------------
(* find_trunc_trace_step returns a step of the trace, the first that       *)
(* violates the invariant: NULL is never handed on.                        *)
THEOREM TruncStepIsFirst ==
    ASSUME NEW inv, NEW t \in Seq(State), Violates(inv, t)
    PROVE  /\ TruncStep(inv, t) \in 1 .. Len(t)
           /\ t[TruncStep(inv, t)] \notin inv
           /\ \A j \in 1 .. TruncStep(inv, t) - 1 : t[j] \in inv
<1> DEFINE T == {k \in 1 .. Len(t) : t[k] \notin inv}
<1>1. Len(t) \in Nat
  OBVIOUS
<1>2. T \subseteq Nat /\ T # {}
  BY <1>1 DEF Violates
<1>3. PICK k \in T : \A j \in T : k <= j
  BY <1>2, LeastNat
<1>4. \A j \in 1 .. k - 1 : t[j] \in inv
  BY <1>1, <1>3
<1>5. \E m \in 1 .. Len(t) : t[m] \notin inv /\ \A j \in 1 .. m - 1 : t[j] \in inv
  BY <1>3, <1>4
<1> QED  BY <1>5 DEF TruncStep

(* There is only one such step.                                            *)
LEMMA TruncStepUnique ==
    ASSUME NEW inv, NEW t \in Seq(State), NEW k \in 1 .. Len(t),
           t[k] \notin inv, \A j \in 1 .. k - 1 : t[j] \in inv
    PROVE  TruncStep(inv, t) = k
<1>1. Violates(inv, t)
  BY DEF Violates
<1>2. /\ TruncStep(inv, t) \in 1 .. Len(t)
      /\ t[TruncStep(inv, t)] \notin inv
      /\ \A j \in 1 .. TruncStep(inv, t) - 1 : t[j] \in inv
  BY <1>1, TruncStepIsFirst
<1>3. Len(t) \in Nat
  OBVIOUS
<1>4. ~ (TruncStep(inv, t) < k) /\ ~ (k < TruncStep(inv, t))
  BY <1>2, <1>3
<1> QED  BY <1>2, <1>3, <1>4

(* find_init_trace_step returns a step before the violation, or the first. *)
LEMMA InitStepType ==
    ASSUME NEW t \in Seq(State), NEW until \in 1 .. Len(t)
    PROVE  /\ InitStep(t, until) \in 1 .. until
           /\ until > 1 => InitStep(t, until) \in 1 .. until - 1
<1>1. Len(t) \in Nat
  OBVIOUS
<1>2. CASE \E i \in 1 .. until - 1 : t[i] \in InitExpr
  <2> DEFINE T == {i \in 1 .. until - 1 : t[i] \in InitExpr}
  <2>1. T \subseteq 0 .. until /\ T # {} /\ until \in Nat
    BY <1>1, <1>2
  <2>2. PICK i \in T : \A j \in T : j <= i
    BY <2>1, GreatestNat
  <2>3. \A j \in i + 1 .. until - 1 : t[j] \notin InitExpr
    BY <1>1, <2>2
  <2>4. \E m \in 1 .. until - 1 :
          t[m] \in InitExpr /\ \A j \in m + 1 .. until - 1 : t[j] \notin InitExpr
    BY <2>2, <2>3
  <2>5. InitStep(t, until) \in 1 .. until - 1
    BY <1>2, <2>4 DEF InitStep
  <2> QED  BY <1>1, <2>5
<1>3. CASE ~ \E i \in 1 .. until - 1 : t[i] \in InitExpr
  BY <1>1, <1>3 DEF InitStep
<1> QED  BY <1>2, <1>3

-----------------------------------------------------------------------------
(* create_fipath returns a non-empty path that ends in the violation, and  *)
(* that keeps the step before it unless the violation is the first step.   *)
THEOREM FipathProperties ==
    ASSUME NEW inv, NEW t \in Seq(State), Violates(inv, t)
    PROVE  LET k == TruncStep(inv, t)
               c == Fipath(inv, t)
           IN  /\ c \in Seq(State)
               /\ Len(c) \in 1 .. k
               /\ c[1] = t[InitStep(t, k)]
               /\ c[Len(c)] = t[k]
               /\ k > 1 => Len(c) > 1 /\ c[Len(c) - 1] = t[k - 1]
               /\ \A i \in 1 .. Len(c) : c[i] = t[InitStep(t, k) + i - 1]
<1> DEFINE k == TruncStep(inv, t)
           m == InitStep(t, k)
           c == Fipath(inv, t)
<1>1. k \in 1 .. Len(t) /\ Len(t) \in Nat
  BY TruncStepIsFirst
<1>2. m \in 1 .. k /\ (k > 1 => m \in 1 .. k - 1)
  BY <1>1, InitStepType
<1>3. c = SubSeq(t, m, k)
  BY DEF Fipath
<1> HIDE DEF k, m, c
<1>4. /\ c \in Seq(State)
      /\ Len(c) = k - m + 1
      /\ \A i \in 1 .. k - m + 1 : c[i] = t[m + i - 1]
  BY <1>1, <1>2, <1>3, SubSeqProperties
<1>5. c[1] = t[m] /\ c[Len(c)] = t[k]
  BY <1>1, <1>2, <1>4
<1>6. k > 1 => Len(c) > 1 /\ c[Len(c) - 1] = t[k - 1]
  BY <1>1, <1>2, <1>4
<1> QED  BY <1>1, <1>2, <1>4, <1>5, <1>6 DEF k, m, c

-----------------------------------------------------------------------------
(* Trimming keeps the first state of t: find_init_trace_step found no      *)
(* initial state after the first one, or only copies of the first one.     *)
KeepsFirst(inv, t) == t[InitStep(t, TruncStep(inv, t))] = t[1]

(* A disjunct holds on the counter-example it was generated from, so the   *)
(* checker cannot answer with that one again: always for class 4, for      *)
(* class 2 when the violation is not in the first state, for classes 1 and *)
(* 3 when trimming keeps the first state.                                  *)
THEOREM ExcludesItself ==
    ASSUME NEW inv, NEW t \in Seq(State), Violates(inv, t), NEW c \in EqClass,
           c = 2 => t[1] \in inv,
           c \in {1, 3} => KeepsFirst(inv, t)
    PROVE  Holds(Disjunct(c, inv, t), inv, t)
<1> DEFINE k == TruncStep(inv, t)
           m == InitStep(t, k)
           p == Fipath(inv, t)
<1>1. /\ k \in 1 .. Len(t) /\ Len(t) \in Nat
      /\ t[k] \notin inv
  BY TruncStepIsFirst
<1>2. /\ p \in Seq(State)
      /\ Len(p) \in 1 .. k
      /\ p[1] = t[m]
      /\ p[Len(p)] = t[k]
      /\ k > 1 => Len(p) > 1 /\ p[Len(p) - 1] = t[k - 1]
      /\ \A i \in 1 .. Len(p) : p[i] = t[m + i - 1]
  BY FipathProperties
<1>3. m \in 1 .. k
  BY <1>1, InitStepType
<1>4. c \in {1, 3} => p[1] = t[1]
  BY <1>2 DEF KeepsFirst
<1>5. c = 2 => k > 1
  BY <1>1
<1>6. Len(p) = k - m + 1
  BY <1>1, <1>3 DEF Fipath
<1> HIDE DEF k, m, p
<1>7. ASSUME c = 1 PROVE Embeds(p, t, k)
  <2> DEFINE n == Len(p)
             f == [i \in 1 .. n |-> IF i = 1 THEN 1 ELSE m + i - 1]
  <2>1. n \in Nat /\ n >= 1 /\ n = k - m + 1 /\ k \in Nat /\ m \in 1 .. k
    BY <1>1, <1>2, <1>3, <1>6
  <2>2. n = 1 => k = 1
    <3>1. k > 1 => n > 1
      BY <1>2
    <3>2. ~ (k > 1) => k = 1
      BY <1>1
    <3>3. n = 1 => ~ (n > 1)
      OBVIOUS
    <3> QED  BY <3>1, <3>2, <3>3
  <2>3. f \in [1 .. n -> 1 .. k]
    BY <2>1
  <2>4. f[1] = 1 /\ f[n] = k
    BY <2>1, <2>2
  <2>5. \A i \in 1 .. n : t[f[i]] = p[i]
    BY <1>2, <1>4, <1>7, <2>1
  <2>6. \A i \in 1 .. n - 1 : f[i] <= f[i + 1]
    BY <2>1
  <2> HIDE DEF f, n
  <2> QED  BY <2>3, <2>4, <2>5, <2>6 DEF Embeds, n
<1>8. ASSUME c = 2 PROVE SameLastEdge(p, t, k)
  BY <1>2, <1>5, <1>8 DEF SameLastEdge
<1>9. ASSUME c = 3 PROVE SameEnds(p, t, k)
  BY <1>2, <1>4, <1>9 DEF SameEnds
<1>10. SameLast(p, t, k)
  BY <1>2 DEF SameLast
<1> QED  BY <1>7, <1>8, <1>9, <1>10 DEF Holds, Disjunct, EqClass, k, p

-----------------------------------------------------------------------------
(* Whether a disjunct holds depends on the path up to its violation only.  *)
LEMMA HoldsByPrefix ==
    ASSUME NEW inv, NEW d,
           NEW s \in Seq(State), Violates(inv, s),
           NEW t \in Seq(State), Violates(inv, t),
           BadPrefix(inv, s) = BadPrefix(inv, t),
           Holds(d, inv, s)
    PROVE  Holds(d, inv, t)
<1> DEFINE k == TruncStep(inv, s)
           l == TruncStep(inv, t)
<1>1. /\ k \in 1 .. Len(s) /\ Len(s) \in Nat
      /\ l \in 1 .. Len(t) /\ Len(t) \in Nat
  BY TruncStepIsFirst
<1>2. SubSeq(s, 1, k) = SubSeq(t, 1, l)
  BY DEF BadPrefix
<1> HIDE DEF k, l
<1>3. Len(SubSeq(s, 1, k)) = k /\ Len(SubSeq(t, 1, l)) = l
  BY <1>1
<1>4. k = l
  BY <1>2, <1>3
<1>5. \A i \in 1 .. k : s[i] = SubSeq(s, 1, k)[i] /\ t[i] = SubSeq(t, 1, l)[i]
  BY <1>1, <1>4
<1>6. \A i \in 1 .. k : s[i] = t[i]
  BY <1>2, <1>5
<1>7. ASSUME Embeds(d.path, s, k) PROVE Embeds(d.path, t, k)
  BY <1>6, <1>7 DEF Embeds
<1>8. ASSUME SameLastEdge(d.path, s, k) PROVE SameLastEdge(d.path, t, k)
  BY <1>1, <1>6, <1>8 DEF SameLastEdge
<1>9. ASSUME SameEnds(d.path, s, k) PROVE SameEnds(d.path, t, k)
  BY <1>1, <1>6, <1>9 DEF SameEnds
<1>10. ASSUME SameLast(d.path, s, k) PROVE SameLast(d.path, t, k)
  BY <1>1, <1>6, <1>10 DEF SameLast
<1> QED  BY <1>4, <1>7, <1>8, <1>9, <1>10 DEF Holds, k, l

-----------------------------------------------------------------------------
(* The classes are ordered by what they exclude: 1 excludes no more than   *)
(* 3, and none excludes more than 4.                                       *)
THEOREM ClassesAreNested ==
    ASSUME NEW inv,
           NEW s \in Seq(State), Violates(inv, s),
           NEW t \in Seq(State), Violates(inv, t)
    PROVE  /\ Holds(Disjunct(1, inv, s), inv, t) => Holds(Disjunct(3, inv, s), inv, t)
           /\ \A c \in EqClass :
                Holds(Disjunct(c, inv, s), inv, t) => Holds(Disjunct(4, inv, s), inv, t)
<1> DEFINE k == TruncStep(inv, t)
           p == Fipath(inv, s)
<1>1. p \in Seq(State) /\ Len(p) \in Nat /\ Len(p) >= 1
  <2>1. Len(p) \in 1 .. TruncStep(inv, s) /\ p \in Seq(State)
    BY FipathProperties
  <2> QED  BY <2>1
<1> HIDE DEF k, p
<1>2. ASSUME Embeds(p, t, k) PROVE SameEnds(p, t, k)
  BY <1>1, <1>2 DEF Embeds, SameEnds
<1>3. SameEnds(p, t, k) => SameLast(p, t, k)
  BY DEF SameEnds, SameLast
<1>4. SameLastEdge(p, t, k) => SameLast(p, t, k)
  BY DEF SameLastEdge, SameLast
<1>5. \A c \in EqClass : Holds(Disjunct(c, inv, s), inv, t) <=>
        \/ c = 1 /\ Embeds(p, t, k)
        \/ c = 2 /\ SameLastEdge(p, t, k)
        \/ c = 3 /\ SameEnds(p, t, k)
        \/ c = 4 /\ SameLast(p, t, k)
  BY DEF Holds, Disjunct, k, p
<1>6. {1, 3, 4} \subseteq EqClass
  BY DEF EqClass
<1>7. /\ Holds(Disjunct(1, inv, s), inv, t) <=> Embeds(p, t, k)
      /\ Holds(Disjunct(3, inv, s), inv, t) <=> SameEnds(p, t, k)
      /\ Holds(Disjunct(4, inv, s), inv, t) <=> SameLast(p, t, k)
  BY <1>5, <1>6
<1>8. \A c \in EqClass : Holds(Disjunct(c, inv, s), inv, t) => SameLast(p, t, k)
  BY <1>2, <1>3, <1>4, <1>5
<1> QED  BY <1>2, <1>7, <1>8

=============================================================================
