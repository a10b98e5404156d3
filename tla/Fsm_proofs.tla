----------------------------- MODULE Fsm_proofs -----------------------------
(***************************************************************************)
(* Images, preimages and reachable states of every machine: the facts the  *)
(* searches of InvarCheck and the bounds of BmcInvar rest on.  Induction   *)
(* over steps is the least number that violates a claim; the states within *)
(* n steps are the ends of the ways of n steps, which solves the recursion *)
(* of Within, and a shortest way to a bad state is what the algorithms     *)
(* that give up in time must find.                                         *)
(***************************************************************************)
EXTENDS Fsm, TLAPS, WellFoundedInduction

(* Every non-empty set of naturals has a least element.                    *)
LEMMA LeastNatural ==
    ASSUME NEW T, T \subseteq Nat, T # {}
    PROVE  \E x \in T : \A y \in T : x <= y
<1>1. PICK x \in T : \A y \in T : ~ (<<y, x>> \in OpToRel(<, Nat))
  BY WFMin, NatLessThanWellFounded
<1>2. \A y \in T : ~ (y < x)
  BY <1>1 DEF OpToRel
<1> QED  BY <1>2

(* Induction, for a set: the theorem of the library takes an operator.     *)
LEMMA SetInduction ==
    ASSUME NEW T, 0 \in T, \A n \in Nat : n \in T => n + 1 \in T
    PROVE  Nat \subseteq T
<1> DEFINE U == Nat \ T
<1> SUFFICES ASSUME U # {} PROVE FALSE
  OBVIOUS
<1>1. PICK n \in U : \A l \in U : n <= l
  <2>1. U \subseteq Nat
    OBVIOUS
  <2> HIDE DEF U
  <2> QED  BY <2>1, LeastNatural
<1>2. n \in Nat /\ n # 0
  BY <1>1
<1>3. n - 1 \in Nat /\ (n - 1) + 1 = n
  BY <1>2
<1>4. n - 1 \in T
  BY <1>1, <1>3
<1> QED  BY <1>1, <1>3, <1>4

(* The parts of a machine are sets of states.                              *)
LEMMA MachineType ==
    ASSUME NEW m \in Machine
    PROVE  /\ m.init \subseteq State /\ m.invar \subseteq State
           /\ InitStates(m) \subseteq m.invar
BY MachineAssumption DEF InitStates

LEMMA ImageType ==
    ASSUME NEW m, NEW S
    PROVE  Image(m, S) \subseteq m.invar /\ Preimage(m, S) \subseteq m.invar
BY DEF Image, Preimage

LEMMA ImageMonotone ==
    ASSUME NEW m, NEW S, NEW T, S \subseteq T
    PROVE  /\ Image(m, S) \subseteq Image(m, T)
           /\ Preimage(m, S) \subseteq Preimage(m, T)
BY DEF Image, Preimage

(* The image and the preimage of a state look at the same transitions.     *)
LEMMA ImageOfState ==
    ASSUME NEW m, NEW S, NEW t
    PROVE  /\ t \in Image(m, S) <=> \E s \in S : t \in Image(m, {s})
           /\ t \in Preimage(m, S) <=> \E s \in S : t \in Preimage(m, {s})
BY DEF Image, Preimage

LEMMA ImageIsConverse ==
    ASSUME NEW m, NEW s, NEW t
    PROVE  t \in Image(m, {s}) <=> s \in Preimage(m, {t})
BY DEF Image, Preimage

(* No step leads from S into T iff no step into T comes from S.            *)
LEMMA ImageMisses ==
    ASSUME NEW m, NEW S, NEW T
    PROVE  Image(m, S) \cap T = {} <=> S \cap Preimage(m, T) = {}
BY DEF Image, Preimage

-----------------------------------------------------------------------------
(* The reachable states are closed, hold the initial ones, and are in every*)
(* set that does both.                                                     *)
LEMMA ReachableIsLeast ==
    ASSUME NEW m \in Machine
    PROVE  /\ InitStates(m) \subseteq Reachable(m)
           /\ Image(m, Reachable(m)) \subseteq Reachable(m)
           /\ Reachable(m) \subseteq State
           /\ \A S \in SUBSET State :
                  InitStates(m) \subseteq S /\ Image(m, S) \subseteq S
                      => Reachable(m) \subseteq S
<1>1. InitStates(m) \subseteq State
  BY MachineType
<1>2. \A S \in SUBSET State :
          InitStates(m) \subseteq S /\ Image(m, S) \subseteq S => Reachable(m) \subseteq S
  BY DEF Reachable, Closed
<1>3. ASSUME NEW t \in Image(m, Reachable(m))
      PROVE  t \in Reachable(m)
  <2>1. t \in State
    BY <1>3, ImageType, MachineType
  <2>2. ASSUME NEW S \in SUBSET State,
               InitStates(m) \subseteq S, Closed(m, S)
        PROVE  t \in S
    <3>1. Image(m, Reachable(m)) \subseteq Image(m, S)
      BY <1>2, <2>2, ImageMonotone DEF Closed
    <3> QED BY <2>2, <3>1 DEF Closed
  <2> QED BY <2>1, <2>2 DEF Reachable
<1>4. InitStates(m) \subseteq Reachable(m) /\ Reachable(m) \subseteq State
  BY <1>1 DEF Reachable
<1> QED BY <1>2, <1>3, <1>4

(* Without an initial state nothing is reachable.                          *)
LEMMA NothingReachable ==
    ASSUME NEW m \in Machine, InitStates(m) = {}
    PROVE  Reachable(m) = {}
<1>1. Image(m, {}) = {}
  BY DEF Image
<1>2. {} \in SUBSET State
  OBVIOUS
<1> QED BY <1>1, <1>2, ReachableIsLeast

(* A chain of transitions does not leave the reachable states.             *)
LEMMA ChainStaysReachable ==
    ASSUME NEW m \in Machine, NEW p \in Seq(State), IsChain(m, p),
           NEW i \in 1 .. Len(p), p[1] \in Reachable(m)
    PROVE  p[i] \in Reachable(m)
<1> DEFINE T == {j \in 1 .. Len(p) : p[j] \notin Reachable(m)}
<1> SUFFICES ASSUME T # {} PROVE FALSE
  OBVIOUS
<1>1. Len(p) \in Nat /\ T \subseteq Nat
  OBVIOUS
<1>2. PICK j \in T : \A k \in T : j <= k
  BY <1>1, LeastNatural
<1>3. j - 1 \in 1 .. Len(p) - 1 /\ j = (j - 1) + 1
  BY <1>1, <1>2
<1>4. p[j - 1] \in Reachable(m)
  BY <1>1, <1>2, <1>3
<1>5. p[j] \in Image(m, {p[j - 1]})
  BY <1>3 DEF IsChain
<1>6. Image(m, {p[j - 1]}) \subseteq Image(m, Reachable(m))
  BY <1>4, ImageMonotone
<1> QED BY <1>2, <1>5, <1>6, ReachableIsLeast

(* A set of bad states that the reachable ones meet after no step backward *)
(* is missed for good.                                                     *)
LEMMA BackwardClosed ==
    ASSUME NEW m \in Machine, NEW B, Preimage(m, B) \subseteq B,
           InitStates(m) \cap B = {}
    PROVE  Reachable(m) \cap B = {}
<1>1. Image(m, State \ B) \cap B = {}
  BY ImageMisses
<1>2. Image(m, State \ B) \subseteq State \ B
  BY <1>1, ImageType, MachineType
<1>3. InitStates(m) \subseteq State \ B
  BY MachineType
<1>4. State \ B \in SUBSET State
  OBVIOUS
<1> QED BY <1>2, <1>3, <1>4, ReachableIsLeast

-----------------------------------------------------------------------------
(* The image of the new states is as good as that of all: P is what the    *)
(* last step started from.                                                 *)
LEMMA FrontierIsEnough ==
    ASSUME NEW m, NEW S, NEW P, P \subseteq S, Image(m, P) \subseteq S
    PROVE  S \cup Image(m, S \ P) = S \cup Image(m, S)
<1> DEFINE T == S \ P
<1>1. P \cup T = S
  OBVIOUS
<1> HIDE DEF T
<1>2. Image(m, S) = Image(m, P) \cup Image(m, T)
  BY <1>1 DEF Image
<1>3. S \cup Image(m, T) = S \cup Image(m, S)
  BY <1>2
<1> QED BY <1>3 DEF T

(* The same, backward.                                                     *)
LEMMA BadFrontierIsEnough ==
    ASSUME NEW m, NEW S, NEW P, P \subseteq S, Preimage(m, P) \subseteq S
    PROVE  S \cup Preimage(m, S \ P) = S \cup Preimage(m, S)
<1> DEFINE T == S \ P
<1>1. P \cup T = S
  OBVIOUS
<1> HIDE DEF T
<1>2. Preimage(m, S) = Preimage(m, P) \cup Preimage(m, T)
  BY <1>1 DEF Preimage
<1>3. S \cup Preimage(m, T) = S \cup Preimage(m, S)
  BY <1>2
<1> QED BY <1>3 DEF T

(* Both searches and the gap between them: F with frontier f was reached   *)
(* forward, B with frontier b backward; G and P are what is finished with. *)
(* The set S holds f, misses b, and is left only for states of G or P.     *)
ClosesGap(m, F, B, f, b, G, P, S) ==
    /\ F \subseteq m.invar /\ InitStates(m) \subseteq F /\ F \cap B = {}
    /\ f \subseteq F /\ Image(m, F) \subseteq F \cup Image(m, f)
    /\ b \subseteq B /\ Preimage(m, B \ b) \subseteq B
    /\ G \subseteq F /\ P \subseteq B \ b
    /\ S \subseteq m.invar /\ f \subseteq S /\ S \cap b = {}
    /\ Image(m, S) \subseteq S \cup G \cup P

(* Then no bad state is reachable.                                         *)
LEMMA GapIsClosed ==
    ASSUME NEW m \in Machine, NEW F, NEW B, NEW f, NEW b, NEW G, NEW P, NEW S,
           ClosesGap(m, F, B, f, b, G, P, S)
    PROVE  Reachable(m) \cap B = {}
<1> USE DEF ClosesGap
<1> DEFINE T == F \cup (S \ B)
<1>1. Image(m, S \ B) \subseteq Image(m, S)
  BY ImageMonotone
<1>2. Image(m, S \ B) \cap (B \ b) = {}
  <2>1. (S \ B) \cap Preimage(m, B \ b) = {}
    OBVIOUS
  <2> QED BY <2>1, ImageMisses
<1>3. Image(m, S \ B) \cap b = {}
  BY <1>1
<1>4. Image(m, S \ B) \subseteq T
  BY <1>1, <1>2, <1>3
<1>5. Image(m, f) \subseteq Image(m, S \ B)
  <2>1. f \subseteq S \ B
    OBVIOUS
  <2> QED BY <2>1, ImageMonotone
<1>6. Image(m, T) = Image(m, F) \cup Image(m, S \ B)
  <2> HIDE DEF ClosesGap
  <2> QED  BY DEF Image
<1>7. Image(m, T) \subseteq T
  <2>1. Image(m, F) \subseteq F \cup Image(m, S \ B)
    BY <1>5
  <2>2. Image(m, F) \subseteq T
    BY <1>4, <2>1
  <2> HIDE DEF T, ClosesGap
  <2> QED  BY <1>4, <1>6, <2>2
<1>8. T \in SUBSET State /\ InitStates(m) \subseteq T
  BY MachineType
<1>9. Reachable(m) \subseteq T
  <2> HIDE DEF T
  <2> QED BY <1>7, <1>8, ReachableIsLeast
<1> QED BY <1>9

-----------------------------------------------------------------------------
(* The states within n steps.  The recursion of Within has a solution: the *)
(* ends of the walks of n steps, waiting allowed.                          *)
Walks(m, n) ==
    {w \in [0 .. n -> State] :
        /\ w[0] \in InitStates(m)
        /\ \A i \in 0 .. n - 1 : w[i + 1] \in {w[i]} \cup Image(m, {w[i]})}

Ends(m, n) == {s \in State : \E w \in Walks(m, n) : w[n] = s}

LEMMA EndsStep ==
    ASSUME NEW m \in Machine, NEW n \in Nat
    PROVE  Ends(m, n + 1) = Ends(m, n) \cup Image(m, Ends(m, n))
<1>1. ASSUME NEW s \in Ends(m, n + 1)
      PROVE  s \in Ends(m, n) \cup Image(m, Ends(m, n))
  <2>1. PICK w \in Walks(m, n + 1) : w[n + 1] = s
    BY DEF Ends
  <2> DEFINE v == [i \in 0 .. n |-> w[i]]
  <2>2. /\ w \in [0 .. n + 1 -> State] /\ w[0] \in InitStates(m)
        /\ \A i \in 0 .. n : w[i + 1] \in {w[i]} \cup Image(m, {w[i]})
    BY DEF Walks
  <2>3. v \in Walks(m, n)
    BY <2>2 DEF Walks
  <2>4. w[n] \in Ends(m, n)
    BY <2>2, <2>3 DEF Ends
  <2>5. Image(m, {w[n]}) \subseteq Image(m, Ends(m, n))
    BY <2>4, ImageMonotone
  <2>6. s \in {w[n]} \cup Image(m, {w[n]})
    BY <2>1, <2>2
  <2> QED  BY <2>4, <2>5, <2>6
<1>2. ASSUME NEW s \in Ends(m, n) \cup Image(m, Ends(m, n))
      PROVE  s \in Ends(m, n + 1)
  <2>1. PICK t \in Ends(m, n) : s \in {t} \cup Image(m, {t})
    BY <1>2, ImageOfState
  <2>2. PICK w \in Walks(m, n) : w[n] = t
    BY DEF Ends
  <2>3. s \in State
    BY <2>1, ImageType, MachineType DEF Ends
  <2> DEFINE v == [i \in 0 .. n + 1 |-> IF i = n + 1 THEN s ELSE w[i]]
  <2>4. /\ w \in [0 .. n -> State] /\ w[0] \in InitStates(m)
        /\ \A i \in 0 .. n - 1 : w[i + 1] \in {w[i]} \cup Image(m, {w[i]})
    BY DEF Walks
  <2>5. v \in [0 .. n + 1 -> State] /\ v[0] = w[0] /\ v[n + 1] = s
    BY <2>3, <2>4
  <2>6. ASSUME NEW i \in 0 .. n
        PROVE  v[i + 1] \in {v[i]} \cup Image(m, {v[i]})
    <3>1. CASE i = n
      <4>1. v[i] = t /\ v[i + 1] = s
        BY <2>2, <2>5, <3>1
      <4> HIDE DEF v
      <4> QED  BY <2>1, <4>1, Zenon
    <3>2. CASE i # n
      <4>1. i \in 0 .. n - 1
        BY <3>2
      <4>2. v[i] = w[i] /\ v[i + 1] = w[i + 1]
        BY <4>1
      <4>3. w[i + 1] \in {w[i]} \cup Image(m, {w[i]})
        BY <2>4, <4>1
      <4> HIDE DEF v
      <4> QED  BY <4>2, <4>3, Zenon
    <3> QED  BY <3>1, <3>2
  <2> HIDE DEF v
  <2>7. v \in Walks(m, n + 1)
    <3>1. (n + 1) - 1 = n
      OBVIOUS
    <3> QED  BY <2>4, <2>5, <2>6, <3>1 DEF Walks
  <2> QED  BY <2>3, <2>5, <2>7 DEF Ends
<1> QED  BY <1>1, <1>2

LEMMA EndsStart ==
    ASSUME NEW m \in Machine
    PROVE  Ends(m, 0) = InitStates(m)
<1>1. ASSUME NEW s \in InitStates(m)
      PROVE  s \in Ends(m, 0)
  <2> DEFINE v == [i \in 0 .. 0 |-> s]
  <2>1. s \in State
    BY MachineType
  <2>2. v \in Walks(m, 0) /\ v[0] = s
    BY <2>1 DEF Walks
  <2> QED  BY <2>1, <2>2 DEF Ends
<1> QED  BY <1>1 DEF Ends, Walks

(* What the definition of Within says of it.                               *)
LEMMA WithinStep ==
    ASSUME NEW m \in Machine
    PROVE  /\ Within(m)[0] = InitStates(m)
           /\ \A n \in Nat : Within(m)[n + 1] = Within(m)[n] \cup Image(m, Within(m)[n])
<1> DEFINE f == [n \in Nat |-> Ends(m, n)]
           W == Within(m)
<1>1. ASSUME NEW n \in Nat
      PROVE  f[n] = IF n = 0 THEN InitStates(m) ELSE f[n - 1] \cup Image(m, f[n - 1])
  <2>1. CASE n = 0
    BY <2>1, EndsStart
  <2>2. CASE n # 0
    <3>1. n - 1 \in Nat /\ (n - 1) + 1 = n
      BY <2>2
    <3> QED  BY <2>2, <3>1, EndsStep
  <2> QED  BY <2>1, <2>2
<1>2. f = [n \in Nat |-> f[n]]
  OBVIOUS
<1> HIDE DEF f
<1>3. f = [n \in Nat |-> IF n = 0 THEN InitStates(m) ELSE f[n - 1] \cup Image(m, f[n - 1])]
  BY <1>1, <1>2
<1>4. W = [n \in Nat |-> IF n = 0 THEN InitStates(m) ELSE W[n - 1] \cup Image(m, W[n - 1])]
  BY <1>3 DEF Within
<1> HIDE DEF W
<1>5. W[0] = InitStates(m)
  BY <1>4
<1>6. ASSUME NEW n \in Nat PROVE W[n + 1] = W[n] \cup Image(m, W[n])
  <2>1. n + 1 \in Nat /\ n + 1 # 0 /\ (n + 1) - 1 = n
    OBVIOUS
  <2> QED  BY <1>4, <2>1
<1> QED  BY <1>5, <1>6 DEF W

LEMMA WithinGrows ==
    ASSUME NEW m \in Machine, NEW i \in Nat, NEW j \in Nat, i <= j
    PROVE  Within(m)[i] \subseteq Within(m)[j]
<1> DEFINE T == {n \in Nat : i <= n => Within(m)[i] \subseteq Within(m)[n]}
<1>1. 0 \in T
  OBVIOUS
<1>2. ASSUME NEW n \in Nat, n \in T PROVE n + 1 \in T
  <2>1. CASE i <= n
    BY <1>2, <2>1, WithinStep
  <2>2. CASE ~ (i <= n)
    BY <2>2
  <2> QED  BY <2>1, <2>2
<1>3. Nat \subseteq T
  <2> HIDE DEF T
  <2> QED  BY <1>1, <1>2, SetInduction
<1> QED  BY <1>3

(* A state is reachable iff some number of steps is enough.                *)
LEMMA ReachableIsWithin ==
    ASSUME NEW m \in Machine
    PROVE  Reachable(m) = UNION {Within(m)[n] : n \in Nat}
<1> DEFINE U == UNION {Within(m)[n] : n \in Nat}
           T == {n \in Nat : Within(m)[n] \subseteq Reachable(m)}
<1>1. U \subseteq Reachable(m)
  <2>1. 0 \in T
    BY WithinStep, ReachableIsLeast
  <2>2. ASSUME NEW n \in Nat, n \in T PROVE n + 1 \in T
    <3>1. Image(m, Within(m)[n]) \subseteq Image(m, Reachable(m))
      BY <2>2, ImageMonotone
    <3> QED  BY <2>2, <3>1, WithinStep, ReachableIsLeast
  <2>3. Nat \subseteq T
    <3> HIDE DEF T
    <3> QED  BY <2>1, <2>2, SetInduction
  <2> QED  BY <2>3
<1>2. InitStates(m) \subseteq U
  <2>1. Within(m)[0] = InitStates(m)
    BY WithinStep
  <2> QED  BY <2>1
<1>3. Image(m, U) \subseteq U
  <2> SUFFICES ASSUME NEW t \in Image(m, U) PROVE t \in U
    OBVIOUS
  <2>1. PICK s \in U : t \in Image(m, {s})
    <3> HIDE DEF U
    <3> QED  BY ImageOfState
  <2>2. PICK n \in Nat : s \in Within(m)[n]
    OBVIOUS
  <2>3. Image(m, {s}) \subseteq Image(m, Within(m)[n])
    BY <2>2, ImageMonotone
  <2>4. t \in Image(m, Within(m)[n])
    <3> HIDE DEF U
    <3> QED  BY <2>1, <2>3
  <2>5. Within(m)[n + 1] = Within(m)[n] \cup Image(m, Within(m)[n])
    BY WithinStep
  <2> QED  BY <2>4, <2>5
<1>4. U \in SUBSET State
  BY <1>1, ReachableIsLeast
<1> HIDE DEF U
<1>5. Reachable(m) \subseteq U
  BY <1>2, <1>3, <1>4, ReachableIsLeast
<1> QED  BY <1>1, <1>5 DEF U

-----------------------------------------------------------------------------
(* The states first reached after n steps.                                 *)
Layer(m, n) ==
    {s \in Within(m)[n] : \A l \in 0 .. n - 1 : s \notin Within(m)[l]}

(* A shortest way to the state w[n]: every state on it is in its own layer.*)
Shortest(m, n, w) ==
    /\ w \in [0 .. n -> State]
    /\ \A i \in 0 .. n : w[i] \in Layer(m, i)
    /\ \A i \in 0 .. n - 1 : w[i + 1] \in Image(m, {w[i]})

LEMMA LayerStart ==
    ASSUME NEW m \in Machine
    PROVE  Layer(m, 0) = InitStates(m)
<1>1. 0 .. 0 - 1 = {}
  OBVIOUS
<1> QED  BY <1>1, WithinStep DEF Layer

(* A state of a layer has a predecessor in the layer before.               *)
LEMMA LayerStep ==
    ASSUME NEW m \in Machine, NEW n \in Nat, NEW s \in Layer(m, n + 1)
    PROVE  \E t \in Layer(m, n) : s \in Image(m, {t})
<1>1. s \in Within(m)[n + 1] /\ \A l \in 0 .. n : s \notin Within(m)[l]
  BY DEF Layer
<1>2. s \in Image(m, Within(m)[n])
  BY <1>1, WithinStep
<1>3. PICK t \in Within(m)[n] : s \in Image(m, {t})
  BY <1>2, ImageOfState
<1>4. ASSUME NEW l \in 0 .. n - 1, t \in Within(m)[l] PROVE FALSE
  <2>1. l \in Nat /\ l + 1 \in 0 .. n
    OBVIOUS
  <2>2. Image(m, {t}) \subseteq Image(m, Within(m)[l])
    BY <1>4, ImageMonotone
  <2>3. s \in Within(m)[l + 1]
    BY <1>3, <2>1, <2>2, WithinStep
  <2> QED  BY <1>1, <2>1, <2>3
<1> QED  BY <1>3, <1>4 DEF Layer

LEMMA ShortestWay ==
    ASSUME NEW m \in Machine, NEW n \in Nat, NEW s \in Layer(m, n)
    PROVE  \E w : Shortest(m, n, w) /\ w[n] = s
<1> DEFINE T == {l \in Nat : \A t \in Layer(m, l) :
                                 \E w : Shortest(m, l, w) /\ w[l] = t}
<1>1. 0 \in T
  <2> SUFFICES ASSUME NEW t \in Layer(m, 0)
               PROVE  \E w : Shortest(m, 0, w) /\ w[0] = t
    OBVIOUS
  <2> DEFINE v == [i \in 0 .. 0 |-> t]
  <2>1. t \in State
    BY LayerStart, MachineType
  <2>2. v[0] = t /\ v \in [0 .. 0 -> State]
    BY <2>1
  <2> HIDE DEF v
  <2>3. Shortest(m, 0, v)
    BY <2>2 DEF Shortest
  <2> QED  BY <2>2, <2>3
<1>2. ASSUME NEW l \in Nat, l \in T PROVE l + 1 \in T
  <2> SUFFICES ASSUME NEW t \in Layer(m, l + 1)
               PROVE  \E w : Shortest(m, l + 1, w) /\ w[l + 1] = t
    OBVIOUS
  <2>1. PICK u \in Layer(m, l) : t \in Image(m, {u})
    BY LayerStep
  <2>2. PICK w : Shortest(m, l, w) /\ w[l] = u
    BY <1>2
  <2>3. /\ w \in [0 .. l -> State]
        /\ \A i \in 0 .. l : w[i] \in Layer(m, i)
        /\ \A i \in 0 .. l - 1 : w[i + 1] \in Image(m, {w[i]})
    BY <2>2 DEF Shortest
  <2>4. t \in State
    BY <2>1, ImageType, MachineType
  <2> DEFINE v == [i \in 0 .. l + 1 |-> IF i = l + 1 THEN t ELSE w[i]]
  <2>5. /\ v \in [0 .. l + 1 -> State] /\ v[l + 1] = t
        /\ \A i \in 0 .. l : v[i] = w[i]
    BY <2>3, <2>4
  <2> HIDE DEF v
  <2>6. ASSUME NEW i \in 0 .. l + 1 PROVE v[i] \in Layer(m, i)
    BY <2>3, <2>5
  <2>7. ASSUME NEW i \in 0 .. (l + 1) - 1 PROVE v[i + 1] \in Image(m, {v[i]})
    <3>1. CASE i = l
      <4>1. v[i] = u /\ v[i + 1] = t
        BY <2>2, <2>5, <3>1
      <4> QED  BY <2>1, <4>1, Zenon
    <3>2. CASE i # l
      <4>1. i \in 0 .. l - 1 /\ i \in 0 .. l /\ i + 1 \in 0 .. l
        BY <3>2
      <4>2. w[i + 1] \in Image(m, {w[i]})
        BY <2>3, <4>1
      <4>3. v[i] = w[i] /\ v[i + 1] = w[i + 1]
        BY <2>5, <4>1
      <4> QED  BY <4>2, <4>3, Zenon
    <3> QED  BY <3>1, <3>2
  <2>8. Shortest(m, l + 1, v)
    BY <2>5, <2>6, <2>7 DEF Shortest
  <2> QED  BY <2>5, <2>8
<1>3. Nat \subseteq T
  <2> HIDE DEF T
  <2> QED  BY <1>1, <1>2, SetInduction
<1> QED  BY <1>3

LEMMA LayersDiffer ==
    ASSUME NEW m \in Machine, NEW i \in Nat, NEW j \in Nat, i # j,
           NEW s \in Layer(m, i), NEW t \in Layer(m, j)
    PROVE  s # t
<1>1. CASE i < j
  <2>1. i \in 0 .. j - 1
    BY <1>1
  <2> QED  BY <2>1 DEF Layer
<1>2. CASE j < i
  <2>1. j \in 0 .. i - 1
    BY <1>2
  <2> QED  BY <2>1 DEF Layer
<1> QED  BY <1>1, <1>2

(* No state of B is met in fewer than n steps.                             *)
CleanBelow(m, B, n) == \A l \in 0 .. n - 1 : Within(m)[l] \cap B = {}

(* If a state of B is reachable at all, a shortest way to one meets none   *)
(* before its end.                                                         *)
LEMMA ShortestToBad ==
    ASSUME NEW m \in Machine, NEW B, Reachable(m) \cap B # {}
    PROVE  \E n \in Nat : /\ CleanBelow(m, B, n)
                          /\ \E w : Shortest(m, n, w) /\ w[n] \in B
<1> DEFINE T == {n \in Nat : Within(m)[n] \cap B # {}}
<1>1. T # {} /\ T \subseteq Nat
  BY ReachableIsWithin
<1> HIDE DEF T
<1>2. PICK n \in T : \A l \in T : n <= l
  BY <1>1, LeastNatural
<1>3. n \in Nat /\ CleanBelow(m, B, n)
  <2>1. n \in Nat
    BY <1>1
  <2>2. ASSUME NEW l \in 0 .. n - 1 PROVE l \in Nat /\ l \notin T
    BY <1>2, <2>1
  <2> QED  BY <2>1, <2>2 DEF CleanBelow, T
<1>4. PICK s \in Within(m)[n] : s \in B
  BY DEF T
<1>5. s \in Layer(m, n)
  BY <1>3, <1>4 DEF CleanBelow, Layer
<1>6. PICK w : Shortest(m, n, w) /\ w[n] = s
  BY <1>3, <1>5, ShortestWay
<1> QED  BY <1>3, <1>4, <1>6

(* The way itself meets none before its end.                               *)
LEMMA ShortestIsClean ==
    ASSUME NEW m \in Machine, NEW B, NEW n \in Nat, CleanBelow(m, B, n),
           NEW w, Shortest(m, n, w), NEW i \in 0 .. n - 1
    PROVE  w[i] \notin B
BY DEF Shortest, Layer, CleanBelow

(* INVAR holds wherever a run gets.                                        *)
LEMMA WithinType ==
    ASSUME NEW m \in Machine, NEW n \in Nat
    PROVE  Within(m)[n] \subseteq m.invar
<1> DEFINE T == {l \in Nat : Within(m)[l] \subseteq m.invar}
<1>1. 0 \in T
  BY WithinStep, MachineType
<1>2. ASSUME NEW l \in Nat, l \in T PROVE l + 1 \in T
  <2>1. Within(m)[l + 1] = Within(m)[l] \cup Image(m, Within(m)[l])
    BY WithinStep
  <2>2. Image(m, Within(m)[l]) \subseteq m.invar
    BY ImageType
  <2> QED  BY <1>2, <2>1, <2>2
<1>3. Nat \subseteq T
  <2> HIDE DEF T
  <2> QED  BY <1>1, <1>2, SetInduction
<1> QED  BY <1>3

(* What is met in n steps at the earliest ends a shortest way.             *)
LEMMA FirstBadEndsWay ==
    ASSUME NEW m \in Machine, NEW B, NEW n \in Nat, CleanBelow(m, B, n),
           Within(m)[n] \cap B # {}
    PROVE  \E w : Shortest(m, n, w) /\ w[n] \in B
<1>1. PICK s \in Within(m)[n] : s \in B
  OBVIOUS
<1>2. s \in Layer(m, n)
  BY <1>1 DEF CleanBelow, Layer
<1> QED  BY <1>1, <1>2, ShortestWay
=============================================================================
