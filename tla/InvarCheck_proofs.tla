-------------------------- MODULE InvarCheck_proofs --------------------------
(***************************************************************************)
(* The invariant checks over the shared cache are right for every set of   *)
(* machines and strategies and every bound: proofs about InvarCheck.       *)
(*                                                                         *)
(* The inductive invariant says, stage by stage, what the onion rings hold:*)
(* each ring is the one before and its image, all are between the initial  *)
(* and the reachable states, and the frontier is the difference of the last*)
(* two, so that its image is as good as that of the whole ring.  While both*)
(* searches run they miss each other, the last ring of one and the last but*)
(* one of the other included; that is why a path can be walked along them. *)
(*                                                                         *)
(* That no trace is longer than it must be needs one thing more: from the  *)
(* moment it is settled where the trace comes from, the number of its      *)
(* states is known from the lists, and no run to a bad state has fewer     *)
(* (ShortInv).                                                             *)
(***************************************************************************)
EXTENDS InvarCheck, Fsm_proofs

(* The rings of the forward search, or cached.                             *)
ForwardRings(m, r) ==
    /\ r \in Seq(SUBSET m.invar)
    /\ r # << >> => r[1] = InitStates(m)
    /\ Len(r) > 1 => InitStates(m) # {}
    /\ \A i \in 1 .. Len(r) : InitStates(m) \subseteq r[i] /\ r[i] \subseteq Reachable(m)
    /\ \A i \in 1 .. Len(r) - 1 : r[i + 1] = r[i] \cup Image(m, r[i])

(* The rings around the bad states b.                                      *)
BackwardRings(m, b, r) ==
    /\ r \in Seq(SUBSET m.invar)
    /\ r # << >>
    /\ r[1] = b
    /\ \A i \in 1 .. Len(r) :
           b \subseteq r[i] /\ (Reachable(m) \cap r[i] # {} => Reachable(m) \cap b # {})
    /\ \A i \in 1 .. Len(r) - 1 : r[i + 1] = r[i] \cup Preimage(m, r[i])

(* Only the last ring may repeat the one before it.                        *)
Growing(r) == \A i \in 1 .. Len(r) - 2 : r[i] # r[i + 1]

(* A cache is kept by rings that hold what it holds.                       *)
Keeps(cached, r) == cached # << >> => r # << >> /\ Final(cached) \subseteq Final(r)

CacheInv ==
    /\ ForwardRings(fsm, layers) /\ Growing(layers)
    /\ layers # << >> => InitStates(fsm) # {}
    /\ ~ computed /\ Len(layers) > 1 => LastFrontier(layers) # {}
    /\ computed => IF layers = << >> THEN InitStates(fsm) = {}
                                     ELSE Image(fsm, Final(layers)) \subseteq Final(layers)

Checking == {"start", "layers", "search", "trace", "store"}

JobInv ==
    /\ bad \in SUBSET fsm.invar
    /\ pc = "prompt" => /\ job = "idle" /\ status = "none" /\ ~ limited
    /\ pc \in Checking => job \in Strategies
    /\ pc = "expand" => job \in {"expand", "ag"}
    /\ pc \in {"ag", "agtrace"} => job = "ag"
    /\ pc = "return" => job # "idle"
    /\ job = "ag" => ~ limited
    /\ job = "expand" => status = "none"
    /\ pc \in {"start", "layers", "search", "expand", "ag", "agtrace"} => status = "none"

RingsInv ==
    pc \in Checking =>
        /\ ForwardRings(fsm, fwd) /\ fwd # << >>
        /\ BackwardRings(fsm, bad, bwd)
        /\ bfront = LastFrontier(bwd)

StartInv ==
    pc = "start" =>
        /\ fwd = StartingLayers /\ rfront = LastFrontier(fwd)
        /\ bwd = <<bad>>
        /\ target = bad \cap Final(fwd)

LayersInv ==
    pc = "layers" =>
        /\ layers # << >> /\ fwd = layers /\ bwd = <<bad>>
        /\ lower \in 0 .. Len(layers) - 1 /\ upper \in 0 .. Len(layers) - 1
        /\ lower < upper
        /\ ~ Buggy(lower) /\ Buggy(upper)

(* The searches have just met, or miss each other.                         *)
MeetOnlyLast(f, b) ==
    /\ Len(f) > 1 => f[Len(f) - 1] \cap Final(b) = {}
    /\ Len(b) > 1 => Final(f) \cap b[Len(b) - 1] = {}

SearchInv ==
    pc = "search" =>
        /\ ~ computed
        /\ rfront = LastFrontier(fwd) /\ Growing(fwd) /\ Keeps(layers, fwd)
        /\ target \subseteq Final(fwd) \cap Final(bwd)
        /\ target = {} => Final(fwd) \cap Final(bwd) = {}
        /\ MeetOnlyLast(fwd, bwd)

StoreInv ==
    pc \in {"trace", "store"} /\ forwardStep > Len(layers) =>
        /\ ~ computed
        /\ rfront = LastFrontier(fwd) /\ Growing(fwd) /\ Keeps(layers, fwd)

ExpandInv ==
    pc = "expand" =>
        /\ ForwardRings(fsm, fwd) /\ Growing(fwd) /\ Keeps(layers, fwd)
        /\ IF fwd = << >> THEN rfront = {} /\ InitStates(fsm) = {}
                          ELSE rfront = LastFrontier(fwd) /\ InitStates(fsm) # {}
        /\ layers # << >> => ~ computed

(* Where a path in the making begins and ends.                             *)
TraceInv ==
    pc = "trace" =>
        /\ path # << >> /\ IsChain(fsm, path)
        /\ fleft \in 0 .. Len(fwd) - 1 /\ bleft \in 0 .. Len(bwd) - 1
        /\ path[1] \in fwd[fleft + 1] /\ (fleft > 0 => path[1] \notin fwd[fleft])
        /\ Final(path) \in bwd[bleft + 1] /\ (bleft > 0 => Final(path) \notin bwd[bleft])

AgInv ==
    /\ pc \in {"ag", "agtrace"} => computed
    /\ pc = "agtrace" =>
           /\ path # << >> /\ IsChain(fsm, path) /\ Final(path) \in bad
           /\ fleft > 0 => /\ fleft + 2 \in 1 .. Len(layers)
                           /\ path[1] \in layers[fleft + 2] \ layers[fleft + 1]

VerdictInv ==
    /\ VerdictIsRight
    /\ pc \in {"layers", "trace", "agtrace"} => Reachable(fsm) \cap bad # {}

PathInv ==
    /\ pc \in {"store", "return"} /\ job \in Strategies /\ status = "false" /\ cex
           => IsCounterExample(fsm, path, bad)
    /\ AgTraceIsChain

Inv ==
    /\ TypeOK /\ CacheInv /\ JobInv /\ RingsInv /\ StartInv /\ LayersInv
    /\ SearchInv /\ StoreInv /\ ExpandInv /\ TraceInv /\ AgInv
    /\ VerdictInv /\ PathInv /\ NeverStuck

-----------------------------------------------------------------------------
(* Sequences.                                                              *)
LEMMA AppendFacts ==
    ASSUME NEW T, NEW s \in Seq(T), NEW x \in T
    PROVE  /\ Append(s, x) \in Seq(T)
           /\ Append(s, x) # << >>
           /\ Len(Append(s, x)) = Len(s) + 1
           /\ Len(s) \in Nat
           /\ \A i \in 1 .. Len(s) : Append(s, x)[i] = s[i]
           /\ Append(s, x)[Len(s) + 1] = x
OBVIOUS

LEMMA SingletonFacts ==
    ASSUME NEW T, NEW x \in T
    PROVE  <<x>> \in Seq(T) /\ <<x>> # << >> /\ Len(<<x>>) = 1 /\ <<x>>[1] = x
OBVIOUS

LEMMA EmptyFacts == \A T : << >> \in Seq(T) /\ {} \in SUBSET T
OBVIOUS

LEMMA PrefixFacts ==
    ASSUME NEW T, NEW s \in Seq(T), NEW n \in 1 .. Len(s)
    PROVE  /\ SubSeq(s, 1, n) \in Seq(T)
           /\ SubSeq(s, 1, n) # << >>
           /\ Len(SubSeq(s, 1, n)) = n
           /\ \A i \in 1 .. n : SubSeq(s, 1, n)[i] = s[i]
OBVIOUS

LEMMA ConsFacts ==
    ASSUME NEW T, NEW s \in Seq(T), NEW x \in T
    PROVE  /\ <<x>> \o s \in Seq(T)
           /\ <<x>> \o s # << >>
           /\ Len(<<x>> \o s) = Len(s) + 1
           /\ (<<x>> \o s)[1] = x
           /\ \A i \in 1 .. Len(s) : (<<x>> \o s)[i + 1] = s[i]
OBVIOUS

LEMMA OneOrMore ==
    ASSUME NEW n \in Nat, n > 0
    PROVE  n = 1 <=> ~ (n > 1)
OBVIOUS

LEMMA NonEmptyFacts ==
    ASSUME NEW T, NEW s \in Seq(T)
    PROVE  /\ Len(s) \in Nat
           /\ s # << >> <=> Len(s) > 0
           /\ \A i \in 1 .. Len(s) : s[i] \in T
           /\ s # << >> => Final(s) \in T
BY DEF Final

-----------------------------------------------------------------------------
(* The rings.  What the last ring and its frontier are worth.              *)
LEMMA ForwardLast ==
    ASSUME NEW m \in Machine, NEW r, ForwardRings(m, r), r # << >>
    PROVE  /\ Len(r) \in Nat /\ Len(r) > 0
           /\ Final(r) \in SUBSET m.invar
           /\ InitStates(m) \subseteq Final(r) /\ Final(r) \subseteq Reachable(m)
           /\ LastFrontier(r) \subseteq Final(r)
           /\ Final(r) \cup Image(m, LastFrontier(r)) = Final(r) \cup Image(m, Final(r))
           /\ Len(r) > 1 => /\ r[Len(r) - 1] \subseteq Final(r)
                            /\ LastFrontier(r) = Final(r) \ r[Len(r) - 1]
                            /\ Final(r) = r[Len(r) - 1] \cup Image(m, r[Len(r) - 1])
           /\ Len(r) = 1 => LastFrontier(r) = Final(r) /\ Final(r) = InitStates(m)
<1>1. Len(r) \in Nat /\ Len(r) > 0
  BY NonEmptyFacts DEF ForwardRings
<1>2. /\ Final(r) \in SUBSET m.invar
      /\ InitStates(m) \subseteq Final(r) /\ Final(r) \subseteq Reachable(m)
  BY <1>1 DEF ForwardRings, Final
<1>0. Len(r) = 1 <=> ~ (Len(r) > 1)
  BY <1>1, OneOrMore
<1>3. CASE Len(r) > 1
  <2> DEFINE n == Len(r) - 1
  <2>1. n \in 1 .. Len(r) - 1 /\ n + 1 = Len(r)
    BY <1>1, <1>3
  <2>2. Final(r) = r[n] \cup Image(m, r[n])
    BY <2>1 DEF ForwardRings, Final
  <2>3. LastFrontier(r) = Final(r) \ r[n]
    BY <1>3 DEF LastFrontier
  <2>4. Final(r) \cup Image(m, Final(r) \ r[n]) = Final(r) \cup Image(m, Final(r))
    <3>1. r[n] \subseteq Final(r) /\ Image(m, r[n]) \subseteq Final(r)
      BY <2>2
    <3> QED BY <3>1, FrontierIsEnough
  <2>5. Len(r) # 1
    BY <1>0, <1>3
  <2>6. r[n] \subseteq Final(r)
    BY <2>2
  <2>7. LastFrontier(r) \subseteq Final(r)
    BY <2>3
  <2> QED BY <1>1, <1>2, <2>2, <2>3, <2>4, <2>5, <2>6, <2>7
<1>4. CASE Len(r) = 1
  <2>1. LastFrontier(r) = Final(r) /\ ~ (Len(r) > 1)
    BY <1>4 DEF LastFrontier
  <2>2. Final(r) = InitStates(m)
    BY <1>1, <1>4 DEF Final, ForwardRings
  <2>3. Final(r) \cup Image(m, LastFrontier(r)) = Final(r) \cup Image(m, Final(r))
    BY <2>1
  <2>4. LastFrontier(r) \subseteq Final(r)
    BY <2>1
  <2> QED BY <1>1, <1>2, <2>1, <2>2, <2>3, <2>4
<1> QED BY <1>0, <1>3, <1>4

(* Nothing new was found: everything reachable was.                        *)
LEMMA ForwardComplete ==
    ASSUME NEW m \in Machine, NEW r, ForwardRings(m, r), r # << >>,
           Image(m, Final(r)) \subseteq Final(r)
    PROVE  Reachable(m) = Final(r)
<1>1. /\ Final(r) \in SUBSET State
      /\ InitStates(m) \subseteq Final(r) /\ Final(r) \subseteq Reachable(m)
  BY ForwardLast, MachineType
<1> QED BY <1>1, ReachableIsLeast

LEMMA EmptyFrontier ==
    ASSUME NEW m \in Machine, NEW r, ForwardRings(m, r), r # << >>,
           LastFrontier(r) = {}
    PROVE  Image(m, Final(r)) \subseteq Final(r)
<1>1. Image(m, {}) = {}
  BY DEF Image
<1>2. Final(r) \cup Image(m, LastFrontier(r)) = Final(r) \cup Image(m, Final(r))
  BY ForwardLast
<1> QED BY <1>1, <1>2

LEMMA ForwardStart ==
    ASSUME NEW m \in Machine
    PROVE  /\ ForwardRings(m, << >>) /\ Growing(<< >>)
           /\ ForwardRings(m, <<InitStates(m)>>) /\ Growing(<<InitStates(m)>>)
           /\ LastFrontier(<<InitStates(m)>>) = InitStates(m)
           /\ Final(<<InitStates(m)>>) = InitStates(m)
<1>1. InitStates(m) \in SUBSET m.invar /\ InitStates(m) \subseteq Reachable(m)
  BY MachineType, ReachableIsLeast
<1>2. /\ <<InitStates(m)>> \in Seq(SUBSET m.invar)
      /\ Len(<<InitStates(m)>>) = 1 /\ <<InitStates(m)>>[1] = InitStates(m)
  BY <1>1, SingletonFacts
<1>3. << >> \in Seq(SUBSET m.invar) /\ Len(<< >>) = 0
  OBVIOUS
<1>4. ForwardRings(m, << >>) /\ Growing(<< >>)
  BY <1>3 DEF ForwardRings, Growing
<1> HIDE DEF InitStates
<1>5. ForwardRings(m, <<InitStates(m)>>) /\ Growing(<<InitStates(m)>>)
  BY <1>1, <1>2 DEF ForwardRings, Growing
<1> QED BY <1>2, <1>4, <1>5 DEF LastFrontier, Final

(* A step with the frontier makes the ring that the whole would have made. *)
NextForward(m, r) == Append(r, Final(r) \cup Image(m, LastFrontier(r)))
NextBackward(m, r) == Append(r, Final(r) \cup Preimage(m, LastFrontier(r)))

LEMMA ForwardGrows ==
    ASSUME NEW m \in Machine, NEW r, ForwardRings(m, r), r # << >>, Growing(r),
           LastFrontier(r) # {},
           NEW q, q = NextForward(m, r)
    PROVE  /\ ForwardRings(m, q) /\ Growing(q) /\ q # << >>
           /\ Len(q) = Len(r) + 1 /\ Len(r) \in Nat
           /\ q[Len(q) - 1] = Final(r)
           /\ Final(q) = Final(r) \cup Image(m, Final(r))
           /\ Final(q) = Final(r) \cup Image(m, LastFrontier(r))
           /\ LastFrontier(q) = Image(m, LastFrontier(r)) \ Final(r)
<1> DEFINE S == Final(r)
           f == LastFrontier(r)
           U == S \cup Image(m, f)
           n == Len(r)
<1>1. /\ n \in Nat /\ n > 0
      /\ S \in SUBSET m.invar
      /\ InitStates(m) \subseteq S /\ S \subseteq Reachable(m)
      /\ f \subseteq S
      /\ U = S \cup Image(m, S)
      /\ n > 1 => f = S \ r[n - 1]
  BY ForwardLast
<1>2. U \in SUBSET m.invar
  BY <1>1, ImageType
<1>3. /\ q \in Seq(SUBSET m.invar) /\ q # << >>
      /\ Len(q) = n + 1
      /\ \A i \in 1 .. n : q[i] = r[i]
      /\ q[n + 1] = U
  BY <1>2, AppendFacts DEF ForwardRings, NextForward
<1>4. S = r[n]
  BY DEF Final
<1>5. Image(m, S) \subseteq Reachable(m)
  BY <1>1, ImageMonotone, ReachableIsLeast
<1>6. InitStates(m) # {}
  <2>1. Reachable(m) # {}
    BY <1>1
  <2> QED BY <2>1, NothingReachable
<1> HIDE DEF S, U, f, n
<1>7. ForwardRings(m, q)
  <2>1. q[1] = InitStates(m)
    BY <1>1, <1>3 DEF ForwardRings, n
  <2>2. \A i \in 1 .. Len(q) :
            InitStates(m) \subseteq q[i] /\ q[i] \subseteq Reachable(m)
    BY <1>1, <1>3, <1>5 DEF ForwardRings, n
  <2>3. \A i \in 1 .. Len(q) - 1 : q[i + 1] = q[i] \cup Image(m, q[i])
    <3>1. ASSUME NEW i \in 1 .. Len(q) - 1, i # n
          PROVE  q[i + 1] = q[i] \cup Image(m, q[i])
      <4>1. i \in 1 .. n - 1 /\ i \in 1 .. n /\ i + 1 \in 1 .. n
        BY <1>1, <1>3, <3>1
      <4> QED BY <1>3, <4>1 DEF ForwardRings, n
    <3>2. q[n + 1] = q[n] \cup Image(m, q[n])
      BY <1>1, <1>3, <1>4
    <3> QED BY <3>1, <3>2
  <2> QED BY <1>3, <1>6, <2>1, <2>2, <2>3 DEF ForwardRings
<1>8. Growing(q)
  <2>1. ASSUME NEW i \in 1 .. Len(q) - 2
        PROVE  q[i] # q[i + 1]
    <3>1. i \in 1 .. n - 1 /\ i \in 1 .. n /\ i + 1 \in 1 .. n
      BY <1>1, <1>3
    <3>2. CASE i \in 1 .. n - 2
      BY <1>3, <3>1, <3>2 DEF Growing, n
    <3>3. CASE i = n - 1
      <4>1. f = S \ r[n - 1] /\ f # {}
        BY <1>1, <3>1, <3>3 DEF f
      <4> QED BY <1>1, <1>3, <1>4, <3>1, <3>3, <4>1
    <3> QED BY <1>1, <3>1, <3>2, <3>3
  <2> QED BY <2>1 DEF Growing
<1>9. q[Len(q) - 1] = S /\ Final(q) = U
  BY <1>1, <1>3, <1>4 DEF Final
<1>10. LastFrontier(q) = U \ S
  <2>1. Len(q) > 1
    BY <1>1, <1>3
  <2> QED BY <1>9, <2>1 DEF LastFrontier
<1> QED BY <1>1, <1>3, <1>7, <1>8, <1>9, <1>10 DEF S, U, f, n

(* A prefix of the rings is rings.                                         *)
Prefix(r, n) == SubSeq(r, 1, n)

LEMMA ForwardPrefix ==
    ASSUME NEW m \in Machine, NEW r, ForwardRings(m, r), Growing(r),
           NEW n \in 1 .. Len(r), NEW q, q = Prefix(r, n)
    PROVE  /\ ForwardRings(m, q) /\ Growing(q) /\ q # << >>
           /\ Len(q) = n /\ \A i \in 1 .. n : q[i] = r[i]
<1>1. Len(r) \in Nat /\ r # << >>
  BY NonEmptyFacts DEF ForwardRings
<1>2. /\ q \in Seq(SUBSET m.invar) /\ q # << >> /\ Len(q) = n
      /\ \A i \in 1 .. n : q[i] = r[i]
  <2>1. r \in Seq(SUBSET m.invar)
    BY DEF ForwardRings
  <2> QED BY <2>1, PrefixFacts DEF Prefix
<1>3. \A i \in 1 .. n - 1 : i \in 1 .. n /\ i + 1 \in 1 .. n /\ i \in 1 .. Len(r) - 1
  BY <1>1
<1>4. \A i \in 1 .. n - 2 : i \in 1 .. n - 1 /\ i \in 1 .. Len(r) - 2
  BY <1>1
<1>5. \A i \in 1 .. n : i \in 1 .. Len(r)
  BY <1>1
<1>6. q[1] = r[1] /\ (n > 1 => Len(r) > 1)
  BY <1>1, <1>2
<1>7. ForwardRings(m, q)
  BY <1>1, <1>2, <1>3, <1>5, <1>6 DEF ForwardRings
<1>8. Growing(q)
  BY <1>2, <1>3, <1>4 DEF Growing
<1> QED BY <1>2, <1>7, <1>8

(* When the search is complete the last ring repeats the one before, and   *)
(* the others are kept.                                                    *)
LEMMA ForwardTruncated ==
    ASSUME NEW m \in Machine, NEW r, ForwardRings(m, r), Growing(r), r # << >>,
           LastFrontier(r) = {}, InitStates(m) # {},
           NEW q, q = Truncated(r)
    PROVE  /\ ForwardRings(m, q) /\ Growing(q) /\ q # << >>
           /\ Final(q) = Final(r)
           /\ Len(q) > 1 => LastFrontier(q) # {}
<1>1. /\ Len(r) \in Nat /\ Len(r) > 0
      /\ Len(r) = 1 => LastFrontier(r) = Final(r) /\ Final(r) = InitStates(m)
      /\ Len(r) > 1 => /\ r[Len(r) - 1] \subseteq Final(r)
                       /\ LastFrontier(r) = Final(r) \ r[Len(r) - 1]
  BY ForwardLast
<1> DEFINE n == Len(r) - 1
<1>2. Len(r) > 1
  BY <1>1, OneOrMore
<1>3. n \in 1 .. Len(r)
  BY <1>1, <1>2
<1>4. q = Prefix(r, n)
  BY DEF Truncated, Prefix
<1>5. Final(r) = r[n]
  BY <1>1, <1>2
<1> HIDE DEF n
<1>6. /\ ForwardRings(m, q) /\ Growing(q) /\ q # << >>
      /\ Len(q) = n /\ \A i \in 1 .. n : q[i] = r[i]
  BY <1>3, <1>4, ForwardPrefix
<1>7. n \in 1 .. n
  BY <1>1, <1>3
<1>8. Final(q) = Final(r)
  BY <1>5, <1>6, <1>7 DEF Final
<1>9. ASSUME Len(q) > 1
      PROVE  LastFrontier(q) # {}
  <2>1. n - 1 \in 1 .. Len(r) - 2 /\ n - 1 \in 1 .. n /\ (n - 1) + 1 = n
    BY <1>1, <1>6, <1>9 DEF n
  <2>2. q[n - 1] # Final(q)
    <3>1. r[n - 1] # r[(n - 1) + 1]
      BY <2>1 DEF Growing
    <3>2. r[n - 1] # r[n]
      BY <2>1, <3>1
    <3>3. q[n - 1] = r[n - 1] /\ Final(q) = r[n]
      BY <1>6, <1>7, <2>1 DEF Final
    <3> QED  BY <3>2, <3>3
  <2>3. /\ q[n - 1] \subseteq Final(q)
        /\ LastFrontier(q) = Final(q) \ q[n - 1]
    BY <1>6, <1>9, ForwardLast
  <2> QED BY <2>2, <2>3
<1> QED BY <1>6, <1>8, <1>9

-----------------------------------------------------------------------------
LEMMA BackwardStart ==
    ASSUME NEW m \in Machine, NEW b \in SUBSET m.invar
    PROVE  /\ BackwardRings(m, b, <<b>>)
           /\ LastFrontier(<<b>>) = b /\ Final(<<b>>) = b /\ Len(<<b>>) = 1
<1>1. <<b>> \in Seq(SUBSET m.invar) /\ <<b>> # << >> /\ Len(<<b>>) = 1 /\ <<b>>[1] = b
  BY SingletonFacts
<1>2. BackwardRings(m, b, <<b>>)
  BY <1>1 DEF BackwardRings
<1> QED BY <1>1, <1>2 DEF LastFrontier, Final

LEMMA BackwardLast ==
    ASSUME NEW m \in Machine, NEW b, NEW r, BackwardRings(m, b, r)
    PROVE  /\ Len(r) \in Nat /\ Len(r) > 0
           /\ Final(r) \in SUBSET m.invar
           /\ b \subseteq Final(r)
           /\ Reachable(m) \cap Final(r) # {} => Reachable(m) \cap b # {}
           /\ LastFrontier(r) \subseteq Final(r)
           /\ Final(r) \cup Preimage(m, LastFrontier(r)) = Final(r) \cup Preimage(m, Final(r))
           /\ Preimage(m, Final(r) \ LastFrontier(r)) \subseteq Final(r)
           /\ Len(r) > 1 => /\ r[Len(r) - 1] \subseteq Final(r)
                            /\ LastFrontier(r) = Final(r) \ r[Len(r) - 1]
                            /\ Final(r) = r[Len(r) - 1] \cup Preimage(m, r[Len(r) - 1])
           /\ Len(r) = 1 => LastFrontier(r) = Final(r) /\ Final(r) = b
<1>1. Len(r) \in Nat /\ Len(r) > 0
  BY NonEmptyFacts DEF BackwardRings
<1>2. Len(r) = 1 <=> ~ (Len(r) > 1)
  BY <1>1, OneOrMore
<1>3. /\ Final(r) \in SUBSET m.invar
      /\ b \subseteq Final(r)
      /\ Reachable(m) \cap Final(r) # {} => Reachable(m) \cap b # {}
  BY <1>1 DEF BackwardRings, Final
<1>4. CASE Len(r) > 1
  <2> DEFINE n == Len(r) - 1
  <2>1. n \in 1 .. Len(r) - 1 /\ n + 1 = Len(r)
    BY <1>1, <1>4
  <2>2. Final(r) = r[n] \cup Preimage(m, r[n])
    BY <2>1 DEF BackwardRings, Final
  <2>3. LastFrontier(r) = Final(r) \ r[n]
    BY <1>4 DEF LastFrontier
  <2>4. r[n] \subseteq Final(r) /\ Preimage(m, r[n]) \subseteq Final(r)
    BY <2>2
  <2>5. Final(r) \cup Preimage(m, Final(r) \ r[n]) = Final(r) \cup Preimage(m, Final(r))
    BY <2>4, BadFrontierIsEnough
  <2>6. LastFrontier(r) \subseteq Final(r) /\ Final(r) \ LastFrontier(r) = r[n]
    BY <2>3, <2>4
  <2> QED BY <1>1, <1>2, <1>3, <1>4, <2>2, <2>3, <2>4, <2>5, <2>6
<1>5. CASE Len(r) = 1
  <2>1. LastFrontier(r) = Final(r)
    BY <1>2, <1>5 DEF LastFrontier
  <2>2. Final(r) = b
    BY <1>5 DEF Final, BackwardRings
  <2>3. Final(r) \cup Preimage(m, LastFrontier(r)) = Final(r) \cup Preimage(m, Final(r))
    BY <2>1
  <2>4. LastFrontier(r) \subseteq Final(r)
    BY <2>1
  <2>5. Preimage(m, Final(r) \ LastFrontier(r)) \subseteq Final(r)
    BY <2>1 DEF Preimage
  <2> QED BY <1>1, <1>2, <1>3, <1>5, <2>1, <2>2, <2>3, <2>4, <2>5
<1> QED BY <1>2, <1>4, <1>5

LEMMA BackwardGrows ==
    ASSUME NEW m \in Machine, NEW b, NEW r, BackwardRings(m, b, r),
           NEW q, q = NextBackward(m, r)
    PROVE  /\ BackwardRings(m, b, q)
           /\ Len(q) = Len(r) + 1 /\ Len(q) > 1
           /\ q[Len(q) - 1] = Final(r)
           /\ Final(q) = Final(r) \cup Preimage(m, Final(r))
           /\ LastFrontier(q) = Preimage(m, LastFrontier(r)) \ Final(r)
<1> DEFINE S == Final(r)
           f == LastFrontier(r)
           U == S \cup Preimage(m, f)
           n == Len(r)
<1>1. /\ n \in Nat /\ n > 0
      /\ S \in SUBSET m.invar
      /\ b \subseteq S
      /\ Reachable(m) \cap S # {} => Reachable(m) \cap b # {}
      /\ f \subseteq S
      /\ U = S \cup Preimage(m, S)
  BY BackwardLast
<1>2. U \in SUBSET m.invar
  BY <1>1, ImageType
<1>3. /\ q \in Seq(SUBSET m.invar) /\ q # << >>
      /\ Len(q) = n + 1
      /\ \A i \in 1 .. n : q[i] = r[i]
      /\ q[n + 1] = U
  BY <1>2, AppendFacts DEF BackwardRings, NextBackward
<1>4. S = r[n]
  BY DEF Final
<1>5. Reachable(m) \cap U # {} => Reachable(m) \cap b # {}
  <2>1. Reachable(m) \cap Preimage(m, S) # {} => Image(m, Reachable(m)) \cap S # {}
    BY ImageMisses
  <2>2. Image(m, Reachable(m)) \subseteq Reachable(m)
    BY ReachableIsLeast
  <2> QED BY <1>1, <2>1, <2>2
<1> HIDE DEF S, U, f, n
<1>6. q[1] = b
  BY <1>1, <1>3 DEF BackwardRings, n
<1>7. \A i \in 1 .. Len(q) :
          b \subseteq q[i] /\ (Reachable(m) \cap q[i] # {} => Reachable(m) \cap b # {})
  <2>1. \A i \in 1 .. n :
            b \subseteq q[i] /\ (Reachable(m) \cap q[i] # {} => Reachable(m) \cap b # {})
    BY <1>3 DEF BackwardRings, n
  <2>2. b \subseteq U
    BY <1>1
  <2>3. \A i \in 1 .. Len(q) : i \in 1 .. n \/ i = n + 1
    BY <1>1, <1>3
  <2> QED BY <1>3, <1>5, <2>1, <2>2, <2>3
<1>8. \A i \in 1 .. Len(q) - 1 : q[i + 1] = q[i] \cup Preimage(m, q[i])
  <2>1. ASSUME NEW i \in 1 .. Len(q) - 1, i # n
        PROVE  q[i + 1] = q[i] \cup Preimage(m, q[i])
    <3>1. i \in 1 .. n - 1 /\ i \in 1 .. n /\ i + 1 \in 1 .. n
      BY <1>1, <1>3, <2>1
    <3> QED BY <1>3, <3>1 DEF BackwardRings, n
  <2>2. q[n + 1] = q[n] \cup Preimage(m, q[n])
    BY <1>1, <1>3, <1>4
  <2> QED BY <2>1, <2>2
<1>9. BackwardRings(m, b, q)
  BY <1>3, <1>6, <1>7, <1>8 DEF BackwardRings
<1>10. q[Len(q) - 1] = S /\ Final(q) = U /\ Len(q) > 1
  BY <1>1, <1>3, <1>4 DEF Final
<1>11. LastFrontier(q) = U \ S
  BY <1>10 DEF LastFrontier
<1> QED BY <1>1, <1>3, <1>9, <1>10, <1>11 DEF S, U, f, n

-----------------------------------------------------------------------------
(* The invariant holds at the prompt of a new session.                     *)
LEMMA InitInv ==
    ASSUME Init
    PROVE  Inv
<1> USE DEF Init
<1>1. TypeOK
  <2>1. computed \in BOOLEAN /\ limited \in BOOLEAN /\ cex \in BOOLEAN
    BY Zenon
  <2>2. /\ layers \in Seq(SUBSET State) /\ path \in Seq(State)
        /\ fwd \in Seq(SUBSET State) /\ bwd \in Seq(SUBSET State)
    BY EmptyFacts, Zenon
  <2>3. /\ lower \in Nat /\ upper \in Int /\ fleft \in Nat /\ bleft \in Nat
        /\ pc \in Stages /\ job \in Strategies \cup {"ag", "expand", "idle"}
        /\ status \in {"none", "true", "false", "unknown"}
    BY DEF Stages
  <2> QED BY <2>1, <2>2, <2>3 DEF TypeOK
<1>2. CacheInv
  <2>1. ForwardRings(fsm, << >>) /\ Growing(<< >>)
    BY ForwardStart
  <2> QED BY <2>1 DEF CacheInv
<1>3. JobInv
  BY DEF JobInv, Checking, Strategies
<1>4. RingsInv /\ StartInv /\ LayersInv /\ SearchInv /\ StoreInv
  BY DEF RingsInv, StartInv, LayersInv, SearchInv, StoreInv, Checking
<1>5. ExpandInv /\ TraceInv /\ AgInv /\ VerdictInv /\ PathInv /\ NeverStuck
  BY DEF ExpandInv, TraceInv, AgInv, VerdictInv, VerdictIsRight, PathInv,
         AgTraceIsChain, NeverStuck, Strategies
<1> QED BY <1>1, <1>2, <1>3, <1>4, <1>5 DEF Inv

(* Most steps leave the machine and the cache alone.                       *)
LEMMA CacheFrame ==
    ASSUME CacheInv, UNCHANGED <<fsm, layers, computed>>
    PROVE  CacheInv'
BY DEF CacheInv

(* The end of a command, or ^C.  (ForgetCommand)                           *)
LEMMA ForgetInv ==
    ASSUME Inv, ForgetCommand
    PROVE  Inv'
<1> USE DEF ForgetCommand, cache
<1>1. TypeOK'
  <2>1. computed' \in BOOLEAN /\ limited' \in BOOLEAN /\ cex' \in BOOLEAN
    BY Zenon DEF Inv, TypeOK
  <2>2. /\ layers' \in Seq(SUBSET State) /\ path' \in Seq(State)
        /\ fwd' \in Seq(SUBSET State) /\ bwd' \in Seq(SUBSET State)
    BY EmptyFacts, Zenon DEF Inv, TypeOK
  <2>3. /\ lower' \in Nat /\ upper' \in Int /\ fleft' \in Nat /\ bleft' \in Nat
        /\ pc' \in Stages /\ job' \in Strategies \cup {"ag", "expand", "idle"}
        /\ status' \in {"none", "true", "false", "unknown"}
    BY DEF Stages
  <2> QED BY <2>1, <2>2, <2>3 DEF Inv, TypeOK
<1>2. CacheInv'
  BY CacheFrame DEF Inv
<1>3. JobInv'
  BY DEF Inv, JobInv, Checking, Strategies
<1>4. RingsInv' /\ StartInv' /\ LayersInv' /\ SearchInv' /\ StoreInv'
  BY DEF RingsInv, StartInv, LayersInv, SearchInv, StoreInv, Checking
<1>5. ExpandInv' /\ TraceInv' /\ AgInv' /\ VerdictInv' /\ PathInv' /\ NeverStuck'
  BY DEF ExpandInv, TraceInv, AgInv, VerdictInv, VerdictIsRight, PathInv,
         AgTraceIsChain, NeverStuck, Strategies
<1> QED BY <1>1, <1>2, <1>3, <1>4, <1>5 DEF Inv

(* The bad states and the layers a check starts from.                      *)
LEMMA StartingFacts ==
    ASSUME Inv
    PROVE  /\ fsm \in Machine
           /\ ForwardRings(fsm, StartingLayers) /\ Growing(StartingLayers)
           /\ StartingLayers # << >>
           /\ Keeps(layers, StartingLayers)
           /\ Final(StartingLayers) \in SUBSET State
           /\ LastFrontier(StartingLayers) \in SUBSET State
<1>1. fsm \in Machine
  BY DEF Inv, TypeOK
<1>2. /\ ForwardRings(fsm, <<InitStates(fsm)>>) /\ Growing(<<InitStates(fsm)>>)
      /\ <<InitStates(fsm)>> # << >>
  BY <1>1, ForwardStart
<1>3. /\ ForwardRings(fsm, StartingLayers) /\ Growing(StartingLayers)
      /\ StartingLayers # << >>
  <2>1. CASE layers = << >>
    BY <1>2, <2>1 DEF StartingLayers
  <2>2. CASE layers # << >>
    BY <2>2 DEF StartingLayers, Inv, CacheInv
  <2> QED BY <2>1, <2>2
<1>4. /\ Final(StartingLayers) \in SUBSET fsm.invar
      /\ LastFrontier(StartingLayers) \subseteq Final(StartingLayers)
  BY <1>1, <1>3, ForwardLast
<1>5. Keeps(layers, StartingLayers)
  BY DEF Keeps, StartingLayers
<1>6. fsm.invar \subseteq State
  BY <1>1, MachineType
<1> QED BY <1>1, <1>3, <1>4, <1>5, <1>6

LEMMA CheckInvarInv ==
    ASSUME Inv, NEW st \in Strategy, NEW b \in SUBSET fsm.invar,
           NEW wantCex \in BOOLEAN, CheckInvar(st, b, wantCex)
    PROVE  Inv'
<1> USE DEF CheckInvar, cache, walk
<1>1. /\ fsm \in Machine /\ b \in SUBSET State /\ st \in Strategies
  BY MachineType, SearchAssumption DEF Inv, TypeOK
<1>2. StartingLayers' = StartingLayers
  BY DEF StartingLayers
<1>3. /\ ForwardRings(fsm, StartingLayers) /\ StartingLayers # << >>
      /\ StartingLayers \in Seq(SUBSET State)
      /\ Final(StartingLayers) \in SUBSET State
      /\ LastFrontier(StartingLayers) \in SUBSET State
  <2>1. ForwardRings(fsm, StartingLayers) => StartingLayers \in Seq(SUBSET State)
    <3>1. fsm.invar \subseteq State
      BY <1>1, MachineType
    <3> QED BY <3>1 DEF ForwardRings
  <2> QED BY <2>1, StartingFacts
<1>4. /\ BackwardRings(fsm, b, <<b>>) /\ LastFrontier(<<b>>) = b
      /\ <<b>> \in Seq(SUBSET State)
  BY <1>1, BackwardStart
<1> HIDE DEF StartingLayers
<1>5. TypeOK'
  BY <1>1, <1>3, <1>4 DEF Inv, TypeOK, Stages
<1>6. CacheInv'
  BY CacheFrame DEF Inv
<1>7. JobInv'
  BY <1>1 DEF Inv, JobInv, Checking, Strategies
<1>8. RingsInv' /\ StartInv'
  BY <1>2, <1>3, <1>4 DEF RingsInv, StartInv
<1>9. LayersInv' /\ SearchInv' /\ StoreInv' /\ ExpandInv' /\ TraceInv' /\ AgInv'
  BY DEF LayersInv, SearchInv, StoreInv, ExpandInv, TraceInv, AgInv
<1>10. VerdictInv' /\ PathInv' /\ NeverStuck'
  BY DEF Inv, JobInv, VerdictInv, VerdictIsRight, PathInv, AgTraceIsChain, NeverStuck
<1> QED BY <1>5, <1>6, <1>7, <1>8, <1>9, <1>10 DEF Inv

(* A bad initial state.                                                    *)
LEMMA BugInInitialStateInv ==
    ASSUME Inv, BugInInitialState
    PROVE  Inv'
<1> USE DEF BugInInitialState, cache, question, search
<1>1. /\ fsm \in Machine
      /\ InitStates(fsm) \subseteq State /\ InitStates(fsm) \subseteq Reachable(fsm)
      /\ bad \in SUBSET fsm.invar /\ job \in Strategies
  BY MachineType, ReachableIsLeast DEF Inv, TypeOK, JobInv, Checking
<1>2. PICK s \in InitStates(fsm) \cap bad : path' = IF cex THEN <<s>> ELSE << >>
  OBVIOUS
<1>3. s \in State /\ Reachable(fsm) \cap bad # {} /\ InitStates(fsm) # {}
  BY <1>1, <1>2
<1>4. /\ ForwardRings(fsm, <<InitStates(fsm)>>) /\ Growing(<<InitStates(fsm)>>)
      /\ <<InitStates(fsm)>> \in Seq(SUBSET State) /\ Len(<<InitStates(fsm)>>) = 1
  BY <1>1, ForwardStart, SingletonFacts
<1>5. /\ <<s>> \in Seq(State) /\ <<s>> # << >> /\ Len(<<s>>) = 1
      /\ <<s>>[1] = s
  BY <1>3, SingletonFacts
<1>6. path' \in Seq(State) /\ (cex => path' = <<s>>)
  BY <1>2, <1>5, EmptyFacts
<1> HIDE DEF InitStates
<1>7. TypeOK'
  BY <1>1, <1>4, <1>6 DEF Inv, TypeOK, Stages
<1>8. CacheInv'
  <2>1. CASE layers = << >>
    <3>1. layers' = <<InitStates(fsm)>> /\ ~ computed' /\ fsm' = fsm
      BY <2>1, Zenon
    <3>2. /\ ForwardRings(fsm', layers') /\ Growing(layers') /\ ~ (Len(layers') > 1)
      BY <1>4, <3>1
    <3>3. InitStates(fsm') # {}
      BY <1>3, <3>1
    <3> QED BY <3>1, <3>2, <3>3 DEF CacheInv
  <2>2. CASE layers # << >>
    BY <2>2, CacheFrame DEF Inv
  <2> QED BY <2>1, <2>2
<1>9. JobInv' /\ NeverStuck'
  BY <1>1 DEF Inv, JobInv, Checking, Strategies, NeverStuck
<1>10. RingsInv' /\ StartInv' /\ LayersInv' /\ SearchInv' /\ StoreInv' /\ ExpandInv'
  BY DEF RingsInv, Checking, StartInv, LayersInv, SearchInv, StoreInv, ExpandInv
<1>11. TraceInv' /\ AgInv' /\ VerdictInv'
  BY <1>3 DEF TraceInv, AgInv, VerdictInv, VerdictIsRight
<1>12. PathInv'
  <2>1. cex => IsCounterExample(fsm, path', bad)
    BY <1>2, <1>5, <1>6 DEF IsCounterExample, IsChain
  <2>2. job # "ag"
    BY <1>1 DEF Strategies
  <2> QED BY <2>1, <2>2 DEF PathInv, AgTraceIsChain
<1> QED BY <1>7, <1>8, <1>9, <1>10, <1>11, <1>12 DEF Inv

(* A bad state in a later cached layer.                                    *)
LEMMA BugInCachedLayersInv ==
    ASSUME Inv, BugInCachedLayers
    PROVE  Inv'
<1> USE DEF BugInCachedLayers, cache, question, walk
<1>1. /\ fsm \in Machine /\ bad \in SUBSET fsm.invar /\ job \in Strategies
      /\ fwd = StartingLayers /\ bwd = <<bad>>
      /\ target = bad \cap Final(fwd)
  BY DEF Inv, TypeOK, JobInv, StartInv, Checking
<1>2. layers # << >> /\ fwd = layers
  <2>1. Final(<<InitStates(fsm)>>) = InitStates(fsm)
    BY <1>1, ForwardStart
  <2> QED BY <1>1, <2>1 DEF StartingLayers
<1>3. /\ Len(layers) \in Nat /\ Len(layers) > 0
      /\ Final(layers) \subseteq Reachable(fsm)
      /\ Len(layers) = 1 => Final(layers) = InitStates(fsm)
  BY <1>1, <1>2, ForwardLast DEF Inv, CacheInv
<1>4. Reachable(fsm) \cap bad # {}
  BY <1>1, <1>2, <1>3
<1>5. layers[1] = InitStates(fsm)
  BY <1>2 DEF Inv, CacheInv, ForwardRings
<1>6. Len(layers) > 1
  BY <1>1, <1>2, <1>3, OneOrMore
<1>7. TypeOK'
  BY <1>3 DEF Inv, TypeOK, Stages
<1>8. CacheInv'
  BY CacheFrame DEF Inv
<1>9. JobInv' /\ NeverStuck'
  BY <1>1 DEF Inv, JobInv, Checking, Strategies, NeverStuck
<1>10. RingsInv'
  BY DEF Inv, RingsInv, Checking
<1>11. LayersInv'
  <2>1. ASSUME pc' = "layers"
        PROVE  /\ lower' = 0 /\ upper' = Len(layers) - 1
               /\ ~ Buggy(lower)' /\ Buggy(upper)'
    <3>1. /\ lower' = 0 /\ upper' = Len(layers) - 1
      BY <2>1
    <3>2. lower' + 1 = 1 /\ upper' + 1 = Len(layers)
      BY <1>3, <3>1
    <3> QED BY <1>1, <1>2, <1>5, <3>1, <3>2 DEF Buggy, Final
  <2>2. 0 \in 0 .. Len(layers) - 1 /\ Len(layers) - 1 \in 0 .. Len(layers) - 1
        /\ 0 < Len(layers) - 1
    BY <1>3, <1>6
  <2> QED BY <1>1, <1>2, <2>1, <2>2 DEF LayersInv
<1>12. StartInv' /\ SearchInv' /\ StoreInv' /\ ExpandInv' /\ TraceInv' /\ AgInv'
  BY DEF StartInv, SearchInv, StoreInv, ExpandInv, TraceInv, AgInv
<1>13. VerdictInv'
  BY <1>4 DEF Inv, JobInv, VerdictInv, VerdictIsRight
<1>14. PathInv'
  BY <1>1 DEF PathInv, AgTraceIsChain, Strategies
<1> QED BY <1>7, <1>8, <1>9, <1>10, <1>11, <1>12, <1>13, <1>14 DEF Inv

(* The cached layers are complete.                                         *)
LEMMA AlreadyCompleteInv ==
    ASSUME Inv, AlreadyComplete
    PROVE  Inv'
<1> USE DEF AlreadyComplete, cache, question, search, walk
<1>1. /\ fsm \in Machine /\ bad \in SUBSET fsm.invar /\ job \in Strategies
      /\ bad \cap Final(StartingLayers) = {}
  BY DEF Inv, TypeOK, JobInv, StartInv, Checking
<1>2. Reachable(fsm) \cap bad = {}
  <2>1. CASE layers = << >>
    BY <1>1, <2>1, NothingReachable DEF Inv, CacheInv
  <2>2. CASE layers # << >>
    <3>1. Reachable(fsm) = Final(layers)
      BY <1>1, <2>2, ForwardComplete DEF Inv, CacheInv
    <3> QED BY <1>1, <2>2, <3>1 DEF StartingLayers
  <2> QED BY <2>1, <2>2
<1>3. TypeOK'
  BY DEF Inv, TypeOK, Stages
<1>4. CacheInv'
  BY CacheFrame DEF Inv
<1>5. JobInv' /\ NeverStuck'
  BY <1>1 DEF Inv, JobInv, Checking, Strategies, NeverStuck
<1>6. RingsInv' /\ StartInv' /\ LayersInv' /\ SearchInv' /\ StoreInv' /\ ExpandInv'
  BY DEF RingsInv, Checking, StartInv, LayersInv, SearchInv, StoreInv, ExpandInv
<1>7. TraceInv' /\ AgInv' /\ VerdictInv' /\ PathInv'
  BY <1>2 DEF TraceInv, AgInv, VerdictInv, VerdictIsRight, PathInv, AgTraceIsChain
<1> QED BY <1>3, <1>4, <1>5, <1>6, <1>7 DEF Inv

LEMMA BeginSearchInv ==
    ASSUME Inv, BeginSearch
    PROVE  Inv'
<1> USE DEF BeginSearch, cache, question, search, walk
<1>1. /\ fsm \in Machine /\ bad \in SUBSET fsm.invar
      /\ fwd = StartingLayers /\ rfront = LastFrontier(fwd) /\ bwd = <<bad>>
      /\ bad \cap Final(fwd) = {}
  BY DEF Inv, TypeOK, JobInv, StartInv, Checking
<1>2. Final(bwd) = bad /\ Len(bwd) = 1
  BY <1>1, BackwardStart
<1>3. /\ Growing(fwd) /\ Keeps(layers, fwd)
      /\ Len(fwd) > 1 => fwd[Len(fwd) - 1] \subseteq Final(fwd)
  BY <1>1, StartingFacts, ForwardLast
<1>4. TypeOK'
  BY DEF Inv, TypeOK, Stages
<1>5. CacheInv'
  BY CacheFrame DEF Inv
<1>6. JobInv' /\ NeverStuck'
  BY DEF Inv, JobInv, Checking, NeverStuck
<1>7. RingsInv'
  BY DEF Inv, RingsInv, Checking
<1>8. SearchInv'
  <2>1. MeetOnlyLast(fwd, bwd)
    <3>1. Len(fwd) > 1 => fwd[Len(fwd) - 1] \cap Final(bwd) = {}
      BY <1>1, <1>2, <1>3
    <3> QED BY <1>2, <3>1 DEF MeetOnlyLast
  <2>2. target \subseteq Final(fwd) \cap Final(bwd) /\ Final(fwd) \cap Final(bwd) = {}
    BY <1>1, <1>2
  <2> QED BY <1>1, <1>3, <2>1, <2>2 DEF SearchInv
<1>9. StartInv' /\ LayersInv' /\ StoreInv' /\ ExpandInv' /\ TraceInv' /\ AgInv'
  BY DEF StartInv, LayersInv, StoreInv, ExpandInv, TraceInv, AgInv
<1>10. VerdictInv' /\ PathInv'
  BY DEF Inv, VerdictInv, VerdictIsRight, PathInv, AgTraceIsChain
<1> QED BY <1>4, <1>5, <1>6, <1>7, <1>8, <1>9, <1>10 DEF Inv

LEMMA Halving ==
    ASSUME NEW l \in Nat, NEW u \in Nat, 2 <= u - l
    PROVE  /\ (u + l) \div 2 \in Nat
           /\ l < (u + l) \div 2 /\ (u + l) \div 2 < u
OBVIOUS

(* The binary search keeps a clean layer below and a buggy one above, so it*)
(* ends at two neighbours.                                                 *)
LEMMA SearchLayersInv ==
    ASSUME Inv, SearchLayers
    PROVE  Inv'
<1> USE DEF SearchLayers, cache, question, walk
<1>1. /\ fsm \in Machine /\ bad \in SUBSET fsm.invar /\ job \in Strategies
      /\ layers # << >> /\ fwd = layers /\ bwd = <<bad>>
      /\ lower \in 0 .. Len(layers) - 1 /\ upper \in 0 .. Len(layers) - 1
      /\ lower < upper
      /\ ~ Buggy(lower) /\ Buggy(upper)
      /\ status = "none" /\ Reachable(fsm) \cap bad # {}
  BY DEF Inv, TypeOK, JobInv, LayersInv, VerdictInv, Checking
<1>2. /\ ForwardRings(fsm, layers) /\ Growing(layers)
      /\ Len(layers) \in Nat
  BY <1>1, ForwardLast DEF Inv, CacheInv
<1>3. /\ Middle \in Nat /\ lower < Middle /\ Middle <= upper
      /\ 2 <= upper - lower => Middle < upper
      /\ ~ (2 <= upper - lower) => Middle = upper /\ Middle - 1 = lower
  <2>1. lower \in Nat /\ upper \in Nat
    BY <1>1, <1>2
  <2>2. CASE 2 <= upper - lower
    <3>1. Middle = (upper + lower) \div 2
      BY <2>2 DEF Middle
    <3> QED BY <2>1, <2>2, <3>1, Halving
  <2>3. CASE ~ (2 <= upper - lower)
    <3>1. Middle = upper
      BY <2>3 DEF Middle
    <3> QED BY <1>1, <2>1, <2>3, <3>1
  <2> QED BY <2>2, <2>3
<1> HIDE DEF Middle
<1> DEFINE M == Middle
<1>4. /\ ~ (upper - lower < 1)
      /\ M + 1 \in 1 .. Len(layers) /\ M \in 1 .. Len(layers)
      /\ M \in 0 .. Len(layers) - 1 /\ M > 0
  BY <1>1, <1>2, <1>3
<1>5. /\ target' = layers[M + 1] \cap bad
      /\ upper' = (IF Buggy(M) THEN M ELSE upper)
      /\ lower' = (IF Buggy(M) THEN lower ELSE M)
      /\ UNCHANGED <<fsm, layers, computed, job, limited, cex, bad, status, bwd, rfront, bfront>>
  BY <1>4
<1>6. layers[M + 1] \in SUBSET State
  BY <1>1, <1>2, <1>4, MachineType DEF ForwardRings
<1>7. CacheInv' /\ VerdictInv'
  <2>1. CacheInv'
    BY <1>5, CacheFrame DEF Inv
  <2>2. VerdictInv'
    BY <1>1, <1>5 DEF VerdictInv, VerdictIsRight
  <2> QED BY <2>1, <2>2
<1>8. CASE FirstBuggy(M)
  <2>1. PICK s \in target' : path' = <<s>> /\ fleft' = M /\ bleft' = 0
    BY <1>4, <1>8 DEF StartPath
  <2>2. fwd' = Prefix(layers, M + 1) /\ pc' = "trace"
    BY <1>1, <1>4, <1>8 DEF Prefix
  <2>3. /\ ForwardRings(fsm, fwd') /\ fwd' # << >>
        /\ Len(fwd') = M + 1 /\ \A i \in 1 .. M + 1 : fwd'[i] = layers[i]
    BY <1>1, <1>2, <1>4, <2>2, ForwardPrefix
  <2>4. /\ s \in State /\ s \in bad
        /\ s \in fwd'[M + 1] /\ s \notin fwd'[M]
    <3>1. s \in layers[M + 1] /\ s \in bad
      BY <1>5, <2>1
    <3>2. layers[(M - 1) + 1] \cap bad = {}
      BY <1>8 DEF FirstBuggy, Buggy
    <3>3. (M - 1) + 1 = M /\ M \in 1 .. M + 1 /\ M + 1 \in 1 .. M + 1
      BY <1>4
    <3> QED BY <1>6, <2>3, <3>1, <3>2, <3>3
  <2>5. /\ path' \in Seq(State) /\ path' # << >> /\ Len(path') = 1 /\ path'[1] = s
    BY <2>1, <2>4, SingletonFacts
  <2>6. fwd' \in Seq(SUBSET State)
    BY <1>1, <2>3, MachineType DEF ForwardRings
  <2>7. TypeOK'
    <3>1. lower' \in Nat /\ upper' \in Int
      BY <1>1, <1>3, <1>5
    <3>2. fleft' \in Nat /\ bleft' \in Nat
      BY <1>3, <2>1
    <3>3. target' \in SUBSET State
      BY <1>5, <1>6
    <3> QED BY <1>5, <2>2, <2>5, <2>6, <3>1, <3>2, <3>3 DEF Inv, TypeOK, Stages
  <2>8. JobInv' /\ NeverStuck'
    BY <1>1, <1>5, <2>2 DEF Inv, JobInv, Checking, Strategies, NeverStuck
  <2>9. RingsInv'
    BY <1>5, <2>3 DEF Inv, RingsInv, Checking
  <2>10. StoreInv'
    <3>1. Len(fwd') - 1 <= Len(layers)
      BY <1>2, <1>4, <2>3
    <3> QED BY <1>2, <1>4, <1>5, <2>3, <3>1 DEF StoreInv, forwardStep
  <2>11. TraceInv'
    <3>1. fleft' \in 0 .. Len(fwd') - 1 /\ bleft' \in 0 .. Len(bwd') - 1
      <4>1. Len(bwd') = 1
        BY <1>1, <1>5, BackwardStart
      <4> QED BY <1>4, <2>1, <2>3, <4>1
    <3>2. IsChain(fsm', path') /\ Final(path') = s
      BY <2>5 DEF IsChain, Final
    <3>3. bwd'[bleft' + 1] = bad
      <4>1. bleft' + 1 = 1
        BY <2>1
      <4> QED BY <1>1, <1>5, <4>1
    <3>4. ~ (bleft' > 0)
      BY <2>1
    <3> QED BY <2>1, <2>4, <2>5, <3>1, <3>2, <3>3, <3>4 DEF TraceInv
  <2>12. StartInv' /\ LayersInv' /\ SearchInv' /\ ExpandInv' /\ AgInv'
    BY <2>2 DEF StartInv, LayersInv, SearchInv, ExpandInv, AgInv
  <2>13. PathInv'
    BY <2>2 DEF PathInv, AgTraceIsChain
  <2> QED BY <1>7, <2>7, <2>8, <2>9, <2>10, <2>11, <2>12, <2>13 DEF Inv
<1>9. CASE ~ FirstBuggy(M)
  <2>1. UNCHANGED <<fwd, pc, path, fleft, bleft>>
    BY <1>4, <1>9
  <2>2. TypeOK'
    <3>1. lower' \in Nat /\ upper' \in Int
      BY <1>1, <1>3, <1>5
    <3>2. target' \in SUBSET State
      BY <1>5, <1>6
    <3> QED BY <1>5, <2>1, <3>1, <3>2 DEF Inv, TypeOK
  <2>3. JobInv' /\ NeverStuck'
    BY <1>5, <2>1 DEF Inv, JobInv, NeverStuck
  <2>4. RingsInv'
    BY <1>5, <2>1 DEF Inv, RingsInv
  <2>5. LayersInv'
    <3>1. ~ Buggy(lower)' /\ Buggy(upper)'
      BY <1>1, <1>5, <2>1 DEF Buggy
    <3>2. lower' < upper'
      <4>1. CASE 2 <= upper - lower
        BY <1>1, <1>2, <1>3, <1>5, <4>1
      <4>2. CASE ~ (2 <= upper - lower)
        <5>1. FirstBuggy(M)
          BY <1>1, <1>3, <4>2 DEF FirstBuggy
        <5> QED BY <1>9, <5>1
      <4> QED BY <4>1, <4>2
    <3>3. lower' \in 0 .. Len(layers) - 1 /\ upper' \in 0 .. Len(layers) - 1
      BY <1>1, <1>4, <1>5
    <3> QED BY <1>1, <1>5, <2>1, <3>1, <3>2, <3>3 DEF LayersInv
  <2>6. StartInv' /\ SearchInv' /\ StoreInv' /\ ExpandInv' /\ TraceInv' /\ AgInv'
    BY <2>1 DEF StartInv, SearchInv, StoreInv, ExpandInv, TraceInv, AgInv
  <2>7. PathInv'
    BY <2>1 DEF PathInv, AgTraceIsChain
  <2> QED BY <1>7, <2>2, <2>3, <2>4, <2>5, <2>6, <2>7 DEF Inv
<1> QED BY <1>8, <1>9

-----------------------------------------------------------------------------
(* What holds while both searches go on.                                   *)
LEMMA SearchingFacts ==
    ASSUME Inv, pc = "search"
    PROVE  /\ fsm \in Machine /\ bad \in SUBSET fsm.invar /\ job \in Strategies
           /\ fsm.invar \subseteq State
           /\ ForwardRings(fsm, fwd) /\ fwd # << >> /\ Growing(fwd)
           /\ BackwardRings(fsm, bad, bwd)
           /\ rfront = LastFrontier(fwd) /\ bfront = LastFrontier(bwd)
           /\ Keeps(layers, fwd) /\ ~ computed /\ status = "none"
           /\ target \subseteq Final(fwd) \cap Final(bwd)
           /\ target = {} => Final(fwd) \cap Final(bwd) = {}
           /\ MeetOnlyLast(fwd, bwd)
BY MachineType DEF Inv, TypeOK, JobInv, RingsInv, SearchInv, Checking

LEMMA ForwardStepInv ==
    ASSUME Inv, ForwardStep
    PROVE  Inv'
<1> USE DEF ForwardStep, cache, question, walk
<1> DEFINE S == Final(fwd)
           B == Final(bwd)
           image == Image(fsm, rfront)
<1>1. pc = "search" /\ target = {} /\ rfront # {}
  BY DEF Searching
<1>2. /\ fsm \in Machine /\ fsm.invar \subseteq State
      /\ ForwardRings(fsm, fwd) /\ fwd # << >> /\ Growing(fwd)
      /\ BackwardRings(fsm, bad, bwd)
      /\ rfront = LastFrontier(fwd) /\ bfront = LastFrontier(bwd)
      /\ Keeps(layers, fwd) /\ ~ computed /\ job \in Strategies
      /\ S \cap B = {}
  BY <1>1, SearchingFacts
<1>3. /\ fwd' = Append(fwd, S \cup image)
      /\ rfront' = image \ S
      /\ target' = B \cap (image \ S)
  BY DEF Grow
<1>4. UNCHANGED <<fsm, layers, computed, pc, job, limited, cex, bad, status, bwd, bfront,
                  lower, upper, path, fleft, bleft>>
  OBVIOUS
<1>5. /\ ForwardRings(fsm, fwd') /\ Growing(fwd') /\ fwd' # << >>
      /\ Len(fwd') = Len(fwd) + 1 /\ Len(fwd) \in Nat
      /\ fwd'[Len(fwd') - 1] = S
      /\ Final(fwd') = S \cup Image(fsm, S)
      /\ Final(fwd') = S \cup image
      /\ LastFrontier(fwd') = image \ S
  <2>1. fwd' = NextForward(fsm, fwd)
    BY <1>2, <1>3 DEF NextForward
  <2>2. LastFrontier(fwd) # {}
    BY <1>1, <1>2
  <2> HIDE DEF ForwardStep, S, image
  <2>3. /\ ForwardRings(fsm, fwd') /\ Growing(fwd') /\ fwd' # << >>
        /\ Len(fwd') = Len(fwd) + 1 /\ Len(fwd) \in Nat
        /\ fwd'[Len(fwd') - 1] = Final(fwd)
        /\ Final(fwd') = Final(fwd) \cup Image(fsm, Final(fwd))
        /\ Final(fwd') = Final(fwd) \cup Image(fsm, LastFrontier(fwd))
        /\ LastFrontier(fwd') = Image(fsm, LastFrontier(fwd)) \ Final(fwd)
    BY <1>2, <2>1, <2>2, ForwardGrows
  <2> QED BY <1>2, <2>3 DEF S, image
<1>6. /\ fwd' \in Seq(SUBSET State) /\ image \subseteq State
  BY <1>2, <1>5, ImageType DEF ForwardRings
<1>7. Len(bwd) > 1 => B = bwd[Len(bwd) - 1] \cup Preimage(fsm, bwd[Len(bwd) - 1])
  BY <1>2, BackwardLast
<1> HIDE DEF S, B, image
<1>8. TypeOK'
  BY <1>3, <1>4, <1>6 DEF Inv, TypeOK
<1>9. CacheInv' /\ JobInv' /\ NeverStuck'
  BY <1>4, CacheFrame DEF Inv, JobInv, NeverStuck
<1>10. RingsInv'
  BY <1>2, <1>4, <1>5 DEF RingsInv
<1>11. SearchInv'
  <2>1. Keeps(layers, fwd')
    BY <1>2, <1>5 DEF Keeps, S
  <2>2. target' \subseteq Final(fwd') \cap B
    BY <1>3, <1>5
  <2>3. target' = {} => Final(fwd') \cap B = {}
    BY <1>2, <1>3, <1>5
  <2>4. Len(bwd) > 1 => Final(fwd') \cap bwd[Len(bwd) - 1] = {}
    <3>1. ASSUME Len(bwd) > 1
          PROVE  Image(fsm, S) \cap bwd[Len(bwd) - 1] = {}
      <4>1. S \cap Preimage(fsm, bwd[Len(bwd) - 1]) = {}
        BY <1>2, <1>7, <3>1
      <4> QED BY <4>1, ImageMisses
    <3> QED BY <1>2, <1>5, <1>7, <3>1
  <2>5. MeetOnlyLast(fwd', bwd)
    <3>1. fwd'[Len(fwd') - 1] \cap B = {}
      BY <1>2, <1>5
    <3> QED BY <2>4, <3>1 DEF MeetOnlyLast, B
  <2>6. rfront' = LastFrontier(fwd') /\ Growing(fwd') /\ bwd' = bwd
    BY <1>3, <1>4, <1>5
  <2> QED BY <1>2, <1>4, <2>1, <2>2, <2>3, <2>5, <2>6 DEF SearchInv, B
<1>12. StartInv' /\ LayersInv' /\ StoreInv' /\ ExpandInv' /\ TraceInv' /\ AgInv'
  BY <1>1, <1>4 DEF StartInv, LayersInv, StoreInv, ExpandInv, TraceInv, AgInv
<1>13. VerdictInv' /\ PathInv'
  BY <1>1, <1>4 DEF Inv, VerdictInv, VerdictIsRight, PathInv, AgTraceIsChain
<1> QED BY <1>8, <1>9, <1>10, <1>11, <1>12, <1>13 DEF Inv

LEMMA BackwardStepInv ==
    ASSUME Inv, BackwardStep
    PROVE  Inv'
<1> USE DEF BackwardStep, cache, question, walk
<1> DEFINE S == Final(fwd)
           B == Final(bwd)
           image == Preimage(fsm, bfront)
<1>1. pc = "search" /\ target = {}
  BY DEF Searching
<1>2. /\ fsm \in Machine /\ fsm.invar \subseteq State
      /\ ForwardRings(fsm, fwd) /\ fwd # << >> /\ Growing(fwd)
      /\ BackwardRings(fsm, bad, bwd)
      /\ rfront = LastFrontier(fwd) /\ bfront = LastFrontier(bwd)
      /\ Keeps(layers, fwd) /\ ~ computed /\ job \in Strategies
      /\ S \cap B = {}
  BY <1>1, SearchingFacts
<1>3. /\ bwd' = Append(bwd, B \cup image)
      /\ bfront' = image \ B
      /\ target' = (B \cup image) \cap S
  BY DEF Grow
<1>4. UNCHANGED <<fsm, layers, computed, pc, job, limited, cex, bad, status, fwd, rfront,
                  lower, upper, path, fleft, bleft>>
  OBVIOUS
<1>5. /\ BackwardRings(fsm, bad, bwd')
      /\ Len(bwd') = Len(bwd) + 1 /\ Len(bwd') > 1
      /\ bwd'[Len(bwd') - 1] = B
      /\ Final(bwd') = B \cup Preimage(fsm, B)
      /\ LastFrontier(bwd') = image \ B
  <2>1. bwd' = NextBackward(fsm, bwd)
    BY <1>2, <1>3 DEF NextBackward
  <2> HIDE DEF BackwardStep, B, image
  <2>2. /\ BackwardRings(fsm, bad, bwd')
        /\ Len(bwd') = Len(bwd) + 1 /\ Len(bwd') > 1
        /\ bwd'[Len(bwd') - 1] = Final(bwd)
        /\ Final(bwd') = Final(bwd) \cup Preimage(fsm, Final(bwd))
        /\ LastFrontier(bwd') = Preimage(fsm, LastFrontier(bwd)) \ Final(bwd)
    BY <1>2, <2>1, BackwardGrows
  <2> QED BY <1>2, <2>2 DEF B, image
<1>6. Final(bwd') = B \cup image
  BY <1>2, <1>5, BackwardLast
<1>7. /\ bwd' \in Seq(SUBSET State) /\ image \subseteq State
  BY <1>2, <1>5, ImageType DEF BackwardRings
<1>8. Len(fwd) > 1 => S = fwd[Len(fwd) - 1] \cup Image(fsm, fwd[Len(fwd) - 1])
  BY <1>2, ForwardLast
<1>9. S \in SUBSET State
  BY <1>2, ForwardLast
<1> HIDE DEF S, B, image
<1>10. TypeOK'
  BY <1>3, <1>4, <1>7, <1>9 DEF Inv, TypeOK
<1>11. CacheInv' /\ JobInv' /\ NeverStuck'
  BY <1>4, CacheFrame DEF Inv, JobInv, NeverStuck
<1>12. RingsInv'
  BY <1>2, <1>3, <1>4, <1>5 DEF RingsInv
<1>13. SearchInv'
  <2>1. target' \subseteq S \cap Final(bwd')
    BY <1>3, <1>6
  <2>2. target' = {} => S \cap Final(bwd') = {}
    BY <1>3, <1>6
  <2>3. Len(fwd) > 1 => fwd[Len(fwd) - 1] \cap Final(bwd') = {}
    <3>1. ASSUME Len(fwd) > 1
          PROVE  fwd[Len(fwd) - 1] \cap Preimage(fsm, B) = {}
      <4>1. Image(fsm, fwd[Len(fwd) - 1]) \cap B = {}
        BY <1>2, <1>8, <3>1
      <4> QED BY <4>1, ImageMisses
    <3> QED BY <1>2, <1>5, <1>8, <3>1
  <2>4. MeetOnlyLast(fwd, bwd')
    <3>1. S \cap bwd'[Len(bwd') - 1] = {}
      BY <1>2, <1>5
    <3> QED BY <2>3, <3>1 DEF MeetOnlyLast, S
  <2> QED BY <1>2, <1>3, <1>4, <1>5, <2>1, <2>2, <2>4 DEF SearchInv, S
<1>14. StartInv' /\ LayersInv' /\ StoreInv' /\ ExpandInv' /\ TraceInv' /\ AgInv'
  BY <1>1, <1>4 DEF StartInv, LayersInv, StoreInv, ExpandInv, TraceInv, AgInv
<1>15. VerdictInv' /\ PathInv'
  BY <1>1, <1>4 DEF Inv, VerdictInv, VerdictIsRight, PathInv, AgTraceIsChain
<1> QED BY <1>10, <1>11, <1>12, <1>13, <1>14, <1>15 DEF Inv

(* A search that ends leaves its rings to the trace and to the cache.      *)
LEMMA LeaveSearch ==
    ASSUME Inv, pc = "search", pc' \in {"trace", "store"},
           UNCHANGED <<fsm, layers, computed, job, limited, cex, bad, fwd, bwd,
                       rfront, bfront, target, lower, upper>>,
           path' \in Seq(State), fleft' \in Nat, bleft' \in Nat,
           status' \in {"true", "false", "unknown"},
           TraceInv', VerdictInv', PathInv'
    PROVE  Inv'
<1>1. /\ fsm \in Machine /\ bad \in SUBSET fsm.invar /\ job \in Strategies
      /\ ForwardRings(fsm, fwd) /\ fwd # << >> /\ Growing(fwd)
      /\ BackwardRings(fsm, bad, bwd)
      /\ rfront = LastFrontier(fwd) /\ bfront = LastFrontier(bwd)
      /\ Keeps(layers, fwd) /\ ~ computed
  BY SearchingFacts
<1>2. TypeOK'
  BY DEF Inv, TypeOK, Stages
<1>3. CacheInv'
  BY CacheFrame DEF Inv
<1>4. JobInv' /\ NeverStuck'
  BY <1>1 DEF Inv, JobInv, Checking, Strategies, NeverStuck
<1>5. RingsInv' /\ StoreInv'
  BY <1>1 DEF RingsInv, StoreInv
<1>6. StartInv' /\ LayersInv' /\ SearchInv' /\ ExpandInv' /\ AgInv'
  BY DEF StartInv, LayersInv, SearchInv, ExpandInv, AgInv
<1> QED BY <1>2, <1>3, <1>4, <1>5, <1>6 DEF Inv

(* The searches missed each other, and one of them is complete.            *)
LEMMA SearchesMiss ==
    ASSUME Inv, pc = "search", target = {}, rfront = {} \/ bfront = {}
    PROVE  Reachable(fsm) \cap bad = {}
<1>1. /\ fsm \in Machine
      /\ ForwardRings(fsm, fwd) /\ fwd # << >>
      /\ BackwardRings(fsm, bad, bwd)
      /\ rfront = LastFrontier(fwd) /\ bfront = LastFrontier(bwd)
      /\ Final(fwd) \cap Final(bwd) = {}
  BY SearchingFacts
<1>2. /\ InitStates(fsm) \subseteq Final(fwd)
      /\ bad \subseteq Final(bwd)
      /\ Final(bwd) \cup Preimage(fsm, bfront) = Final(bwd) \cup Preimage(fsm, Final(bwd))
  <2>1. InitStates(fsm) \subseteq Final(fwd)
    BY <1>1, ForwardLast
  <2>2. /\ bad \subseteq Final(bwd)
        /\ Final(bwd) \cup Preimage(fsm, LastFrontier(bwd))
               = Final(bwd) \cup Preimage(fsm, Final(bwd))
    BY <1>1, BackwardLast
  <2> QED BY <1>1, <2>1, <2>2
<1>3. CASE rfront = {}
  <2>1. Reachable(fsm) = Final(fwd)
    BY <1>1, <1>3, EmptyFrontier, ForwardComplete
  <2> QED BY <1>1, <1>2, <2>1
<1>4. CASE bfront = {}
  <2>1. Preimage(fsm, {}) = {}
    BY DEF Preimage
  <2>2. Preimage(fsm, Final(bwd)) \subseteq Final(bwd)
    BY <1>2, <1>4, <2>1
  <2>3. InitStates(fsm) \cap Final(bwd) = {}
    BY <1>1, <1>2
  <2>4. Reachable(fsm) \cap Final(bwd) = {}
    BY <1>1, <2>2, <2>3, BackwardClosed
  <2> QED BY <1>2, <2>4
<1> QED BY <1>3, <1>4

(* The searches met: a bad state can be reached.                           *)
LEMMA SearchesMeet ==
    ASSUME Inv, pc = "search", Final(fwd) \cap Final(bwd) # {}
    PROVE  Reachable(fsm) \cap bad # {}
<1>1. /\ fsm \in Machine
      /\ ForwardRings(fsm, fwd) /\ fwd # << >>
      /\ BackwardRings(fsm, bad, bwd)
  BY SearchingFacts
<1>2. Final(fwd) \subseteq Reachable(fsm)
  BY <1>1, ForwardLast
<1>3. Reachable(fsm) \cap Final(bwd) # {} => Reachable(fsm) \cap bad # {}
  BY <1>1, BackwardLast
<1> QED BY <1>2, <1>3

(* A path from a new state of the last forward ring to a new state of the  *)
(* last backward one can be walked along both lists.                       *)
LEMMA PathStarts ==
    ASSUME Inv, pc = "search", pc' = "trace",
           UNCHANGED <<fsm, bad, fwd, bwd>>,
           NEW p \in Seq(State), p # << >>, IsChain(fsm, p),
           p[1] \in Final(fwd), Len(fwd) > 1 => p[1] \notin fwd[Len(fwd) - 1],
           Final(p) \in Final(bwd), Len(bwd) > 1 => Final(p) \notin bwd[Len(bwd) - 1],
           StartPath(p, forwardStep, backwardStep)
    PROVE  TraceInv' /\ path' \in Seq(State) /\ fleft' \in Nat /\ bleft' \in Nat
<1>1. /\ path' = p /\ fleft' = Len(fwd) - 1 /\ bleft' = Len(bwd) - 1
  BY DEF StartPath, forwardStep, backwardStep
<1>2. /\ Len(fwd) \in Nat /\ Len(fwd) > 0 /\ Len(bwd) \in Nat /\ Len(bwd) > 0
  BY SearchingFacts, ForwardLast, BackwardLast
<1>3. /\ fleft' \in 0 .. Len(fwd) - 1 /\ bleft' \in 0 .. Len(bwd) - 1
      /\ fleft' \in Nat /\ bleft' \in Nat
      /\ fleft' + 1 = Len(fwd) /\ bleft' + 1 = Len(bwd)
      /\ fleft' > 0 => Len(fwd) > 1
      /\ bleft' > 0 => Len(bwd) > 1
  BY <1>1, <1>2
<1>4. /\ fwd'[fleft' + 1] = Final(fwd) /\ bwd'[bleft' + 1] = Final(bwd)
  BY <1>3 DEF Final
<1>5. /\ fleft' > 0 => p[1] \notin fwd'[fleft']
      /\ bleft' > 0 => Final(p) \notin bwd'[bleft']
  BY <1>1, <1>3
<1> QED BY <1>1, <1>3, <1>4, <1>5 DEF TraceInv

LEMMA EndSearchInv ==
    ASSUME Inv, EndSearch
    PROVE  Inv'
<1> USE DEF EndSearch
<1>1. /\ pc = "search"
      /\ UNCHANGED <<fsm, layers, computed, job, limited, cex, bad, fwd, bwd,
                     rfront, bfront, target, lower, upper>>
      /\ target = {} => rfront = {} \/ bfront = {}
  BY DEF Searching, cache, question, search
<1>2. /\ fsm \in Machine /\ fsm.invar \subseteq State /\ job \in Strategies
      /\ ForwardRings(fsm, fwd) /\ fwd # << >>
      /\ target \subseteq Final(fwd) \cap Final(bwd)
      /\ MeetOnlyLast(fwd, bwd)
      /\ path \in Seq(State) /\ fleft \in Nat /\ bleft \in Nat
  BY <1>1, SearchingFacts DEF Inv, TypeOK
<1>3. /\ status' = (IF target # {} THEN "false" ELSE "true")
      /\ status' = "true" => Reachable(fsm) \cap bad = {}
      /\ status' = "false" => Reachable(fsm) \cap bad # {}
  <2>1. target # {} => Reachable(fsm) \cap bad # {}
    BY <1>1, <1>2, SearchesMeet
  <2>2. target = {} => Reachable(fsm) \cap bad = {}
    BY <1>1, SearchesMiss
  <2> QED BY <2>1, <2>2
<1>4. job # "ag"
  BY <1>2 DEF Strategies
<1>5. CASE target # {} /\ cex
  <2>1. pc' = "trace"
    BY <1>5
  <2>2. PICK s \in target : StartPath(<<s>>, forwardStep, backwardStep)
    BY <1>5
  <2>3. s \in Final(fwd) /\ s \in Final(bwd) /\ s \in State
    BY <1>2, ForwardLast
  <2>4. /\ <<s>> \in Seq(State) /\ <<s>> # << >> /\ Len(<<s>>) = 1 /\ <<s>>[1] = s
    BY <2>3, SingletonFacts
  <2>5. IsChain(fsm, <<s>>) /\ Final(<<s>>) = s
    BY <2>4 DEF IsChain, Final
  <2>6. /\ Len(fwd) > 1 => s \notin fwd[Len(fwd) - 1]
        /\ Len(bwd) > 1 => s \notin bwd[Len(bwd) - 1]
    BY <1>2, <2>3 DEF MeetOnlyLast
  <2>7. TraceInv' /\ path' \in Seq(State) /\ fleft' \in Nat /\ bleft' \in Nat
    BY <1>1, <2>1, <2>2, <2>3, <2>4, <2>5, <2>6, PathStarts
  <2>8. status' = "false"
    BY <1>3, <1>5
  <2>9. VerdictInv' /\ PathInv'
    BY <1>1, <1>3, <2>1, <2>8 DEF VerdictInv, VerdictIsRight, PathInv, AgTraceIsChain
  <2>10. pc' \in {"trace", "store"} /\ status' \in {"true", "false", "unknown"}
    BY <2>1, <2>8
  <2> HIDE DEF EndSearch
  <2> QED BY <1>1, <2>7, <2>9, <2>10, LeaveSearch
<1>6. CASE ~ (target # {} /\ cex)
  <2>1. pc' = "store" /\ path' = path /\ fleft' = fleft /\ bleft' = bleft
    BY <1>6 DEF walk
  <2>2. TraceInv'
    BY <2>1 DEF TraceInv
  <2>3. VerdictInv'
    BY <1>1, <1>3, <2>1 DEF VerdictInv, VerdictIsRight
  <2>4. PathInv'
    BY <1>1, <1>3, <1>6, <2>1 DEF PathInv, AgTraceIsChain
  <2>5. status' \in {"true", "false", "unknown"}
    BY <1>3
  <2>6. path' \in Seq(State) /\ fleft' \in Nat /\ bleft' \in Nat
    BY <1>2, <2>1
  <2>7. pc' \in {"trace", "store"}
    BY <2>1
  <2> HIDE DEF EndSearch
  <2> QED BY <1>1, <2>2, <2>3, <2>4, <2>5, <2>6, <2>7, LeaveSearch
<1> QED BY <1>5, <1>6

-----------------------------------------------------------------------------
(* The hand-over to bounded model checking: no bad state is reachable if no*)
(* path crosses the gap, although the states that the searches have done   *)
(* with were taken out of the machine.                                     *)
LEMMA GapProvedIsRight ==
    ASSUME Inv, pc = "search", target = {}, GapProved
    PROVE  Reachable(fsm) \cap bad = {}
<1> DEFINE F == Final(fwd)
           B == Final(bwd)
           G == FinishedWith(fwd)
           P == FinishedWith(bwd)
<1>1. /\ fsm \in Machine
      /\ ForwardRings(fsm, fwd) /\ fwd # << >>
      /\ BackwardRings(fsm, bad, bwd)
      /\ rfront = LastFrontier(fwd) /\ bfront = LastFrontier(bwd)
      /\ F \cap B = {}
  BY SearchingFacts
<1>2. PICK S \in SUBSET Allowed :
          /\ rfront \cap Allowed \subseteq S
          /\ Image(fsm, S) \cap Allowed \subseteq S
          /\ S \cap bfront = {}
  BY DEF GapProved
<1>3. /\ F \in SUBSET fsm.invar
      /\ InitStates(fsm) \subseteq F
      /\ rfront \subseteq F
      /\ F \cup Image(fsm, rfront) = F \cup Image(fsm, F)
      /\ Len(fwd) > 1 => /\ fwd[Len(fwd) - 1] \subseteq F
                         /\ rfront = F \ fwd[Len(fwd) - 1]
      /\ Len(fwd) \in Nat
  BY <1>1, ForwardLast
<1>4. /\ bad \subseteq B
      /\ bfront \subseteq B
      /\ Preimage(fsm, B \ bfront) \subseteq B
      /\ Len(bwd) > 1 => /\ bwd[Len(bwd) - 1] \subseteq B
                         /\ bfront = B \ bwd[Len(bwd) - 1]
      /\ Len(bwd) \in Nat
  BY <1>1, BackwardLast
<1>5. /\ Len(fwd) > 2 => Len(fwd) > 1
      /\ Len(bwd) > 2 => Len(bwd) > 1
  BY <1>3, <1>4
<1> HIDE DEF F, B
<1>6. G \subseteq F /\ rfront \cap G = {}
  BY <1>3, <1>5 DEF FinishedWith
<1>7. P \subseteq B \ bfront
  BY <1>4, <1>5 DEF FinishedWith
<1>8. Allowed = fsm.invar \ (G \cup P)
  BY DEF Allowed
<1> HIDE DEF G, P
<1>9. rfront \subseteq S
  BY <1>1, <1>2, <1>3, <1>6, <1>7, <1>8
<1>10. S \subseteq fsm.invar /\ Image(fsm, S) \subseteq S \cup G \cup P
  BY <1>2, <1>8, ImageType
<1>11. Image(fsm, F) \subseteq F \cup Image(fsm, rfront)
  BY <1>3
<1>12. Reachable(fsm) \cap B = {}
  <2>1. ClosesGap(fsm, F, B, rfront, bfront, G, P, S)
    BY <1>1, <1>2, <1>3, <1>4, <1>6, <1>7, <1>9, <1>10, <1>11 DEF ClosesGap
  <2> QED BY <1>1, <2>1, GapIsClosed
<1> QED BY <1>4, <1>12

LEMMA BmcTrueInv ==
    ASSUME Inv, BmcTrue
    PROVE  Inv'
<1> USE DEF BmcTrue
<1>1. /\ pc = "search" /\ pc' = "store" /\ status' = "true" /\ GapProved /\ target = {}
      /\ UNCHANGED <<fsm, layers, computed, job, limited, cex, bad, fwd, bwd,
                     rfront, bfront, target, lower, upper>>
      /\ UNCHANGED <<path, fleft, bleft>>
  BY DEF Searching, SwitchToBmc, cache, question, search, walk
<1>2. Reachable(fsm) \cap bad = {} /\ job \in Strategies
  BY <1>1, GapProvedIsRight, SearchingFacts
<1>3. path' \in Seq(State) /\ fleft' \in Nat /\ bleft' \in Nat
  BY <1>1 DEF Inv, TypeOK
<1>4. TraceInv' /\ VerdictInv' /\ PathInv'
  BY <1>1, <1>2 DEF TraceInv, VerdictInv, VerdictIsRight, PathInv, AgTraceIsChain
<1>5. pc' \in {"trace", "store"} /\ status' \in {"true", "false", "unknown"}
  BY <1>1
<1> HIDE DEF BmcTrue
<1> QED BY <1>1, <1>3, <1>4, <1>5, LeaveSearch

LEMMA BmcUnknownInv ==
    ASSUME Inv, BmcUnknown
    PROVE  Inv'
<1> USE DEF BmcUnknown
<1>1. /\ pc = "search" /\ pc' = "store" /\ status' = "unknown"
      /\ UNCHANGED <<fsm, layers, computed, job, limited, cex, bad, fwd, bwd,
                     rfront, bfront, target, lower, upper>>
      /\ UNCHANGED <<path, fleft, bleft>>
  BY DEF Searching, SwitchToBmc, cache, question, search, walk
<1>2. path' \in Seq(State) /\ fleft' \in Nat /\ bleft' \in Nat
  BY <1>1 DEF Inv, TypeOK
<1>3. TraceInv' /\ VerdictInv' /\ PathInv'
  BY <1>1 DEF TraceInv, VerdictInv, VerdictIsRight, PathInv, AgTraceIsChain
<1>4. pc' \in {"trace", "store"} /\ status' \in {"true", "false", "unknown"}
  BY <1>1
<1> HIDE DEF BmcUnknown
<1> QED BY <1>1, <1>2, <1>3, <1>4, LeaveSearch

LEMMA GapPathFacts ==
    ASSUME Inv, pc = "search", NEW p \in GapPaths
    PROVE  /\ p \in Seq(State) /\ p # << >> /\ IsChain(fsm, p)
           /\ Len(p) \in 1 .. Len(p) /\ 1 \in 1 .. Len(p)
           /\ p[1] \in rfront /\ Final(p) \in bfront
<1>1. Allowed \subseteq State
  BY SearchingFacts DEF Allowed
<1>2. PICK n \in 1 .. MaxBmc + 1 : p \in [1 .. n -> Allowed]
  BY DEF GapPaths
<1>3. n \in Nat /\ n > 0
  BY <1>2, SearchAssumption
<1>4. p \in Seq(State) /\ Len(p) = n
  BY <1>1, <1>2, <1>3
<1>5. p # << >>
  BY <1>3, <1>4, NonEmptyFacts
<1> QED BY <1>3, <1>4, <1>5 DEF GapPaths, Final

(* A path across the gap starts at a reachable state and ends in one from  *)
(* which a bad state can be reached.                                       *)
LEMMA BmcFalseInv ==
    ASSUME Inv, BmcFalse
    PROVE  Inv'
<1> USE DEF BmcFalse
<1>1. /\ pc = "search" /\ status' = "false"
      /\ pc' = (IF cex THEN "trace" ELSE "store")
      /\ UNCHANGED <<fsm, layers, computed, job, limited, cex, bad, fwd, bwd,
                     rfront, bfront, target, lower, upper>>
  BY DEF Searching, SwitchToBmc, cache, question, search
<1>2. PICK p \in FirstGapPaths :
          IF cex THEN StartPath(p, forwardStep, backwardStep) ELSE UNCHANGED walk
  OBVIOUS
<1> HIDE DEF BmcFalse
<1>3. /\ p \in Seq(State) /\ p # << >> /\ IsChain(fsm, p)
      /\ Len(p) \in 1 .. Len(p) /\ 1 \in 1 .. Len(p)
      /\ p[1] \in rfront /\ Final(p) \in bfront
  <2>1. p \in GapPaths
    BY <1>2 DEF FirstGapPaths
  <2> QED BY <1>1, <2>1, GapPathFacts
<1>4. /\ fsm \in Machine /\ job \in Strategies
      /\ ForwardRings(fsm, fwd) /\ fwd # << >>
      /\ BackwardRings(fsm, bad, bwd)
      /\ rfront = LastFrontier(fwd) /\ bfront = LastFrontier(bwd)
  BY <1>1, SearchingFacts
<1>5. /\ rfront \subseteq Final(fwd) /\ Final(fwd) \subseteq Reachable(fsm)
      /\ Len(fwd) > 1 => rfront = Final(fwd) \ fwd[Len(fwd) - 1]
  BY <1>4, ForwardLast
<1>6. /\ bfront \subseteq Final(bwd)
      /\ Reachable(fsm) \cap Final(bwd) # {} => Reachable(fsm) \cap bad # {}
      /\ Len(bwd) > 1 => bfront = Final(bwd) \ bwd[Len(bwd) - 1]
  BY <1>4, BackwardLast
<1>7. Reachable(fsm) \cap bad # {}
  <2>1. p[1] \in Reachable(fsm)
    BY <1>3, <1>5
  <2>2. p[Len(p)] \in Reachable(fsm)
    BY <1>3, <1>4, <2>1, ChainStaysReachable
  <2> QED BY <1>3, <1>6, <2>2 DEF Final
<1>8. VerdictInv' /\ job # "ag"
  BY <1>1, <1>4, <1>7 DEF VerdictInv, VerdictIsRight, Strategies
<1>9. pc' \in {"trace", "store"} /\ status' \in {"true", "false", "unknown"}
  BY <1>1
<1>10. CASE cex
  <2>1. pc' = "trace" /\ StartPath(p, forwardStep, backwardStep)
    BY <1>1, <1>2, <1>10
  <2>2. /\ p[1] \in Final(fwd) /\ Final(p) \in Final(bwd)
        /\ Len(fwd) > 1 => p[1] \notin fwd[Len(fwd) - 1]
        /\ Len(bwd) > 1 => Final(p) \notin bwd[Len(bwd) - 1]
    BY <1>3, <1>5, <1>6
  <2>3. TraceInv' /\ path' \in Seq(State) /\ fleft' \in Nat /\ bleft' \in Nat
    BY <1>1, <1>3, <2>1, <2>2, PathStarts
  <2>4. PathInv'
    BY <2>1 DEF PathInv, AgTraceIsChain
  <2> QED BY <1>1, <1>8, <1>9, <2>3, <2>4, LeaveSearch
<1>11. CASE ~ cex
  <2>1. pc' = "store" /\ UNCHANGED <<path, fleft, bleft>>
    BY <1>1, <1>2, <1>11 DEF walk
  <2>2. path' \in Seq(State) /\ fleft' \in Nat /\ bleft' \in Nat
    BY <2>1 DEF Inv, TypeOK
  <2>3. TraceInv' /\ PathInv'
    BY <1>1, <1>11, <2>1 DEF TraceInv, PathInv, AgTraceIsChain
  <2> QED BY <1>1, <1>8, <1>9, <2>2, <2>3, LeaveSearch
<1> QED BY <1>10, <1>11

-----------------------------------------------------------------------------
(* Walking the lists.                                                      *)
LEMMA ChainAppend ==
    ASSUME NEW m, NEW p \in Seq(State), p # << >>, IsChain(m, p), NEW s \in State,
           s \in Image(m, {Final(p)})
    PROVE  /\ Append(p, s) \in Seq(State) /\ Append(p, s) # << >>
           /\ IsChain(m, Append(p, s))
           /\ Append(p, s)[1] = p[1] /\ Final(Append(p, s)) = s
<1> DEFINE q == Append(p, s)
           n == Len(p)
<1>1. /\ q \in Seq(State) /\ q # << >> /\ Len(q) = n + 1 /\ n \in Nat /\ n > 0
      /\ \A i \in 1 .. n : q[i] = p[i]
      /\ q[n + 1] = s
  BY AppendFacts, NonEmptyFacts
<1>2. Final(p) = p[n]
  BY DEF Final
<1> HIDE DEF q, n
<1>3. ASSUME NEW i \in 1 .. Len(q) - 1
      PROVE  q[i + 1] \in Image(m, {q[i]})
  <2>1. CASE i \in 1 .. n - 1
    <3>1. i \in 1 .. n /\ i + 1 \in 1 .. n
      BY <1>1, <2>1
    <3> QED BY <1>1, <2>1, <3>1 DEF IsChain, n
  <2>2. CASE i = n
    <3>1. i \in 1 .. n
      BY <1>1, <2>2
    <3> QED BY <1>1, <1>2, <2>2, <3>1
  <2> QED BY <1>1, <1>3, <2>1, <2>2
<1>4. IsChain(m, q)
  BY <1>3 DEF IsChain
<1>5. q[1] = p[1] /\ Final(q) = s
  BY <1>1 DEF Final
<1> QED BY <1>1, <1>4, <1>5 DEF q

LEMMA ChainCons ==
    ASSUME NEW m, NEW p \in Seq(State), p # << >>, IsChain(m, p), NEW s \in State,
           s \in Preimage(m, {p[1]})
    PROVE  /\ <<s>> \o p \in Seq(State) /\ <<s>> \o p # << >>
           /\ IsChain(m, <<s>> \o p)
           /\ (<<s>> \o p)[1] = s /\ Final(<<s>> \o p) = Final(p)
<1> DEFINE q == <<s>> \o p
           n == Len(p)
<1>1. /\ q \in Seq(State) /\ q # << >> /\ Len(q) = n + 1 /\ n \in Nat /\ n > 0
      /\ q[1] = s
      /\ \A i \in 1 .. n : q[i + 1] = p[i]
  BY ConsFacts, NonEmptyFacts
<1>2. p[1] \in Image(m, {s})
  BY ImageIsConverse
<1> HIDE DEF q, n
<1>3. ASSUME NEW i \in 1 .. Len(q) - 1
      PROVE  q[i + 1] \in Image(m, {q[i]})
  <2>1. CASE i = 1
    <3>1. 1 \in 1 .. n
      BY <1>1
    <3> QED BY <1>1, <1>2, <2>1, <3>1
  <2>2. CASE i # 1
    <3>1. i - 1 \in 1 .. n - 1 /\ i - 1 \in 1 .. n /\ i \in 1 .. n /\ (i - 1) + 1 = i
      BY <1>1, <2>2
    <3>2. q[i + 1] = p[i] /\ q[i] = p[i - 1]
      BY <1>1, <3>1
    <3>3. p[i] \in Image(m, {p[i - 1]})
      BY <3>1 DEF IsChain, n
    <3> QED BY <3>2, <3>3
  <2> QED BY <2>1, <2>2
<1>4. IsChain(m, q)
  BY <1>3 DEF IsChain
<1>5. Final(q) = Final(p)
  <2>1. n \in 1 .. n
    BY <1>1
  <2> QED BY <1>1, <2>1 DEF Final, n
<1> QED BY <1>1, <1>4, <1>5 DEF q

LEMMA TraceFacts ==
    ASSUME Inv, pc = "trace"
    PROVE  /\ fsm \in Machine /\ bad \in SUBSET fsm.invar /\ job \in Strategies
           /\ fsm.invar \subseteq State
           /\ ForwardRings(fsm, fwd) /\ fwd # << >> /\ BackwardRings(fsm, bad, bwd)
           /\ Len(fwd) \in Nat /\ Len(bwd) \in Nat
           /\ bfront = LastFrontier(bwd)
           /\ Reachable(fsm) \cap bad # {}
           /\ path \in Seq(State) /\ path # << >> /\ IsChain(fsm, path)
           /\ fleft \in Nat /\ bleft \in Nat
           /\ fleft \in 0 .. Len(fwd) - 1 /\ bleft \in 0 .. Len(bwd) - 1
           /\ path[1] \in fwd[fleft + 1] /\ (fleft > 0 => path[1] \notin fwd[fleft])
           /\ Final(path) \in bwd[bleft + 1] /\ (bleft > 0 => Final(path) \notin bwd[bleft])
BY MachineType, ForwardLast, BackwardLast
   DEF Inv, TypeOK, JobInv, RingsInv, TraceInv, VerdictInv, Checking

(* A turn of the walk keeps the rest of the invariant.                     *)
LEMMA WalkFrame ==
    ASSUME Inv, pc = "trace", pc' = "trace",
           UNCHANGED <<fsm, layers, computed, job, limited, cex, bad, status, fwd, bwd,
                       rfront, bfront, target, lower, upper>>,
           path' \in Seq(State), fleft' \in Nat, bleft' \in Nat, TraceInv'
    PROVE  Inv'
<1>1. TypeOK'
  BY DEF Inv, TypeOK
<1>2. CacheInv' /\ JobInv' /\ NeverStuck'
  BY CacheFrame DEF Inv, JobInv, NeverStuck
<1>3. RingsInv' /\ StoreInv'
  BY DEF Inv, RingsInv, StoreInv, forwardStep
<1>4. StartInv' /\ LayersInv' /\ SearchInv' /\ ExpandInv' /\ AgInv'
  BY DEF StartInv, LayersInv, SearchInv, ExpandInv, AgInv
<1>5. VerdictInv' /\ PathInv'
  BY DEF Inv, VerdictInv, VerdictIsRight, PathInv, AgTraceIsChain
<1> QED BY <1>1, <1>2, <1>3, <1>4, <1>5 DEF Inv

(* The last state of the path is new in its ring, so it has a successor in *)
(* the ring before, and one that is new there.                             *)
LEMMA FollowBackwardListInv ==
    ASSUME Inv, FollowBackwardList
    PROVE  Inv'
<1> USE DEF FollowBackwardList
<1>1. /\ pc = "trace" /\ bleft > 0
      /\ UNCHANGED <<fsm, layers, computed, job, limited, cex, bad, status, fwd, bwd,
                     rfront, bfront, target, lower, upper>>
  BY DEF cache, question, search
<1> DEFINE next == Image(fsm, {Final(path)}) \cap bwd[bleft]
<1>2. /\ next = {} => pc' = "error"
      /\ next # {} => /\ pc' = pc
                      /\ \E s \in next : StartPath(Append(path, s), fleft, bleft - 1)
  OBVIOUS
<1> HIDE DEF FollowBackwardList
<1>3. /\ bleft \in 1 .. Len(bwd) - 1 /\ bleft - 1 \in 0 .. Len(bwd) - 1
      /\ bleft - 1 \in Nat /\ (bleft - 1) + 1 = bleft
      /\ bleft - 1 > 0 => bleft - 1 \in 1 .. Len(bwd) - 1
  <2>1. Len(bwd) \in Nat /\ bleft \in 1 .. Len(bwd) - 1
    BY <1>1, TraceFacts
  <2> QED  BY <2>1
<1>4. /\ bwd[bleft + 1] = bwd[bleft] \cup Preimage(fsm, bwd[bleft])
      /\ bleft - 1 > 0 => bwd[bleft] = bwd[bleft - 1] \cup Preimage(fsm, bwd[bleft - 1])
  BY <1>1, <1>3, TraceFacts DEF BackwardRings
<1>5. Final(path) \in Preimage(fsm, bwd[bleft])
  BY <1>1, <1>4, TraceFacts
<1>6. next # {}
  <2>1. PICK t \in bwd[bleft] : Final(path) \in Preimage(fsm, {t})
    BY <1>5, ImageOfState
  <2>2. t \in Image(fsm, {Final(path)})
    BY <2>1, ImageIsConverse
  <2> QED BY <2>1, <2>2
<1>7. PICK s \in next : StartPath(Append(path, s), fleft, bleft - 1)
  BY <1>2, <1>6
<1>8. /\ s \in Image(fsm, {Final(path)}) /\ s \in bwd[bleft] /\ s \in State
  BY <1>1, <1>7, ImageType, TraceFacts
<1>9. bleft - 1 > 0 => s \notin bwd[bleft - 1]
  <2>1. ASSUME bleft - 1 > 0, s \in bwd[bleft - 1]
        PROVE  FALSE
    <3>1. Final(path) \in Preimage(fsm, {s})
      BY <1>8, ImageIsConverse
    <3>2. Final(path) \in Preimage(fsm, bwd[bleft - 1])
      BY <2>1, <3>1, ImageOfState
    <3>3. Final(path) \in bwd[bleft]
      BY <1>4, <2>1, <3>2
    <3> QED BY <1>1, <3>3, TraceFacts
  <2> QED BY <2>1
<1>10. /\ path' = Append(path, s) /\ fleft' = fleft /\ bleft' = bleft - 1
       /\ pc' = "trace"
  BY <1>1, <1>2, <1>6, <1>7 DEF StartPath
<1>11. /\ path' \in Seq(State) /\ path' # << >> /\ IsChain(fsm, path')
       /\ path'[1] = path[1] /\ Final(path') = s
  <2>1. path \in Seq(State) /\ path # << >> /\ IsChain(fsm, path)
    BY <1>1, TraceFacts
  <2> QED BY <1>8, <1>10, <2>1, ChainAppend
<1> HIDE DEF next
<1>12. TraceInv'
  <2>1. /\ fleft \in 0 .. Len(fwd) - 1
        /\ path[1] \in fwd[fleft + 1] /\ (fleft > 0 => path[1] \notin fwd[fleft])
    BY <1>1, TraceFacts
  <2> QED BY <1>1, <1>3, <1>8, <1>9, <1>10, <1>11, <2>1 DEF TraceInv
<1>13. fleft' \in Nat /\ bleft' \in Nat
  BY <1>1, <1>3, <1>10, TraceFacts
<1> QED BY <1>1, <1>10, <1>11, <1>12, <1>13, WalkFrame

(* And its first state has a predecessor in the ring before.               *)
LEMMA FollowForwardListInv ==
    ASSUME Inv, FollowForwardList
    PROVE  Inv'
<1> USE DEF FollowForwardList
<1>1. /\ pc = "trace" /\ fleft > 0 /\ bleft = 0
      /\ UNCHANGED <<fsm, layers, computed, job, limited, cex, bad, status, fwd, bwd,
                     rfront, bfront, target, lower, upper>>
  BY DEF cache, question, search
<1> DEFINE previous == Preimage(fsm, {path[1]}) \cap fwd[fleft]
<1>2. /\ previous = {} => pc' = "error"
      /\ previous # {} => /\ pc' = pc
                          /\ \E s \in previous : StartPath(<<s>> \o path, fleft - 1, 0)
  OBVIOUS
<1> HIDE DEF FollowForwardList
<1>3. /\ fleft \in 1 .. Len(fwd) - 1 /\ fleft - 1 \in 0 .. Len(fwd) - 1
      /\ fleft - 1 \in Nat /\ (fleft - 1) + 1 = fleft
      /\ fleft - 1 > 0 => fleft - 1 \in 1 .. Len(fwd) - 1
  BY <1>1, TraceFacts
<1>4. /\ fwd[fleft + 1] = fwd[fleft] \cup Image(fsm, fwd[fleft])
      /\ fleft - 1 > 0 => fwd[fleft] = fwd[fleft - 1] \cup Image(fsm, fwd[fleft - 1])
  BY <1>1, <1>3, TraceFacts DEF ForwardRings
<1>5. path[1] \in Image(fsm, fwd[fleft])
  BY <1>1, <1>4, TraceFacts
<1>6. previous # {}
  <2>1. PICK t \in fwd[fleft] : path[1] \in Image(fsm, {t})
    BY <1>5, ImageOfState
  <2>2. t \in Preimage(fsm, {path[1]})
    BY <2>1, ImageIsConverse
  <2> QED BY <2>1, <2>2
<1>7. PICK s \in previous : StartPath(<<s>> \o path, fleft - 1, 0)
  BY <1>2, <1>6
<1>8. /\ s \in Preimage(fsm, {path[1]}) /\ s \in fwd[fleft] /\ s \in State
  BY <1>1, <1>7, ImageType, TraceFacts
<1>9. fleft - 1 > 0 => s \notin fwd[fleft - 1]
  <2>1. ASSUME fleft - 1 > 0, s \in fwd[fleft - 1]
        PROVE  FALSE
    <3>1. path[1] \in Image(fsm, {s})
      BY <1>8, ImageIsConverse
    <3>2. path[1] \in Image(fsm, fwd[fleft - 1])
      BY <2>1, <3>1, ImageOfState
    <3>3. path[1] \in fwd[fleft]
      BY <1>4, <2>1, <3>2
    <3> QED BY <1>1, <3>3, TraceFacts
  <2> QED BY <2>1
<1>10. /\ path' = <<s>> \o path /\ fleft' = fleft - 1 /\ bleft' = 0
       /\ pc' = "trace"
  BY <1>1, <1>2, <1>6, <1>7 DEF StartPath
<1>11. /\ path' \in Seq(State) /\ path' # << >> /\ IsChain(fsm, path')
       /\ path'[1] = s /\ Final(path') = Final(path)
  <2>1. path \in Seq(State) /\ path # << >> /\ IsChain(fsm, path)
    BY <1>1, TraceFacts
  <2> QED BY <1>8, <1>10, <2>1, ChainCons
<1> HIDE DEF previous
<1>12. TraceInv'
  <2>1. /\ bleft \in 0 .. Len(bwd) - 1
        /\ Final(path) \in bwd[bleft + 1]
        /\ bleft' = bleft /\ ~ (bleft > 0)
    BY <1>1, <1>10, TraceFacts
  <2> QED BY <1>1, <1>3, <1>8, <1>9, <1>10, <1>11, <2>1 DEF TraceInv
<1>13. fleft' \in Nat /\ bleft' \in Nat
  BY <1>1, <1>3, <1>10, TraceFacts
<1> QED BY <1>1, <1>10, <1>11, <1>12, <1>13, WalkFrame

(* The finished path is a run from an initial to a bad state.              *)
LEMMA EndTraceInv ==
    ASSUME Inv, EndTrace
    PROVE  Inv'
<1> USE DEF EndTrace
<1>1. /\ pc = "trace" /\ pc' = "store" /\ status' = "false" /\ fleft = 0 /\ bleft = 0
      /\ UNCHANGED <<fsm, layers, computed, job, limited, cex, bad, fwd, bwd,
                     rfront, bfront, target, lower, upper, path, fleft, bleft>>
  BY DEF cache, question, search, walk
<1> HIDE DEF EndTrace
<1>2. /\ fsm \in Machine /\ job \in Strategies
      /\ ForwardRings(fsm, fwd) /\ fwd # << >> /\ BackwardRings(fsm, bad, bwd)
      /\ Reachable(fsm) \cap bad # {}
      /\ path # << >> /\ IsChain(fsm, path)
      /\ path[1] \in fwd[fleft + 1] /\ Final(path) \in bwd[bleft + 1]
  BY <1>1, TraceFacts
<1>3. IsCounterExample(fsm, path, bad)
  <2>1. fleft + 1 = 1 /\ bleft + 1 = 1
    BY <1>1
  <2>2. fwd[1] = InitStates(fsm) /\ bwd[1] = bad
    BY <1>2 DEF ForwardRings, BackwardRings
  <2> QED BY <1>2, <2>1, <2>2 DEF IsCounterExample, Final
<1>4. TypeOK'
  BY <1>1 DEF Inv, TypeOK, Stages
<1>5. CacheInv' /\ JobInv' /\ NeverStuck'
  BY <1>1, <1>2, CacheFrame DEF Inv, JobInv, NeverStuck, Checking, Strategies
<1>6. RingsInv' /\ StoreInv'
  BY <1>1 DEF Inv, RingsInv, StoreInv, forwardStep, Checking
<1>7. StartInv' /\ LayersInv' /\ SearchInv' /\ ExpandInv' /\ TraceInv' /\ AgInv'
  BY <1>1 DEF StartInv, LayersInv, SearchInv, ExpandInv, TraceInv, AgInv
<1>8. VerdictInv' /\ PathInv'
  BY <1>1, <1>2, <1>3 DEF VerdictInv, VerdictIsRight, PathInv, AgTraceIsChain
<1> QED BY <1>4, <1>5, <1>6, <1>7, <1>8 DEF Inv

(* The cache gets the rings if they are more, and they count as complete   *)
(* only if the frontier is empty.                                          *)
LEMMA StoreLayersInv ==
    ASSUME Inv, StoreLayers
    PROVE  Inv'
<1> USE DEF StoreLayers
<1>1. /\ pc = "store" /\ pc' = "return"
      /\ UNCHANGED <<fsm, job, limited, cex, bad, status, fwd, bwd,
                     rfront, bfront, target, lower, upper, path, fleft, bleft>>
  BY DEF question, search, walk
<1>2. \/ forwardStep > Len(layers) /\ layers' = fwd /\ computed' = (rfront = {})
      \/ UNCHANGED <<layers, computed>>
  BY DEF cache
<1> HIDE DEF StoreLayers
<1>3. /\ fsm \in Machine /\ fsm.invar \subseteq State /\ job \in Strategies
      /\ ForwardRings(fsm, fwd) /\ fwd # << >>
      /\ Len(fwd) \in Nat /\ Len(layers) \in Nat
  BY <1>1, MachineType, ForwardLast, NonEmptyFacts
     DEF Inv, TypeOK, JobInv, RingsInv, Checking
<1>4. CacheInv' /\ layers' \in Seq(SUBSET State) /\ computed' \in BOOLEAN
  <2>1. CASE UNCHANGED <<layers, computed>>
    BY <1>1, <2>1, CacheFrame DEF Inv, TypeOK
  <2>2. CASE forwardStep > Len(layers) /\ layers' = fwd /\ computed' = (rfront = {})
    <3>1. rfront = LastFrontier(fwd) /\ Growing(fwd)
      BY <1>1, <2>2 DEF Inv, StoreInv
    <3>2. Len(fwd) > 1
      BY <1>3, <2>2 DEF forwardStep
    <3>3. InitStates(fsm) # {}
      BY <1>3, <3>2 DEF ForwardRings
    <3>4. rfront = {} => Image(fsm, Final(fwd)) \subseteq Final(fwd)
      BY <1>3, <3>1, EmptyFrontier
    <3>5. layers' = fwd /\ fsm' = fsm /\ (computed' <=> rfront = {}) /\ computed' \in BOOLEAN
      BY <1>1, <2>2
    <3>6. CacheInv'
      BY <1>3, <3>1, <3>3, <3>4, <3>5 DEF CacheInv
    <3>7. fwd \in Seq(SUBSET State)
      BY <1>3 DEF ForwardRings
    <3> QED BY <3>5, <3>6, <3>7
  <2> QED BY <1>2, <2>1, <2>2
<1>5. TypeOK'
  BY <1>1, <1>4 DEF Inv, TypeOK, Stages
<1>6. JobInv' /\ NeverStuck'
  BY <1>1, <1>3 DEF Inv, JobInv, NeverStuck, Checking, Strategies
<1>7. RingsInv' /\ StoreInv' /\ StartInv' /\ LayersInv' /\ SearchInv' /\ ExpandInv'
  BY <1>1 DEF RingsInv, StoreInv, StartInv, LayersInv, SearchInv, ExpandInv, Checking
<1>8. TraceInv' /\ AgInv'
  BY <1>1 DEF TraceInv, AgInv
<1>9. VerdictInv' /\ PathInv'
  <2>1. job # "ag"
    BY <1>3 DEF Strategies
  <2> QED BY <1>1, <2>1 DEF Inv, VerdictInv, VerdictIsRight, PathInv, AgTraceIsChain
<1> QED BY <1>4, <1>5, <1>6, <1>7, <1>8, <1>9 DEF Inv

-----------------------------------------------------------------------------
(* What the expansion of the cache starts from.                            *)
LEMMA ExpandStart ==
    ASSUME Inv, BeginExpand
    PROVE  /\ ForwardRings(fsm, fwd') /\ Growing(fwd') /\ Keeps(layers, fwd')
           /\ IF fwd' = << >> THEN rfront' = {} /\ InitStates(fsm) = {}
                              ELSE rfront' = LastFrontier(fwd') /\ InitStates(fsm) # {}
           /\ fwd' \in Seq(SUBSET State) /\ rfront' \in SUBSET State
<1>1. fsm \in Machine /\ fsm.invar \subseteq State
  BY MachineType DEF Inv, TypeOK
<1>2. /\ ForwardRings(fsm, << >>) /\ Growing(<< >>)
      /\ ForwardRings(fsm, <<InitStates(fsm)>>) /\ Growing(<<InitStates(fsm)>>)
      /\ LastFrontier(<<InitStates(fsm)>>) = InitStates(fsm)
      /\ <<InitStates(fsm)>> # << >>
  BY <1>1, ForwardStart
<1>3. /\ ForwardRings(fsm, fwd') /\ Growing(fwd') /\ Keeps(layers, fwd')
      /\ IF fwd' = << >> THEN rfront' = {} /\ InitStates(fsm) = {}
                         ELSE rfront' = LastFrontier(fwd') /\ InitStates(fsm) # {}
  <2>1. CASE layers # << >>
    BY <2>1 DEF BeginExpand, Inv, CacheInv, Keeps
  <2>2. CASE layers = << >> /\ InitStates(fsm) = {}
    BY <1>2, <2>2 DEF BeginExpand, Keeps
  <2>3. CASE layers = << >> /\ InitStates(fsm) # {}
    <3>1. fwd' = <<InitStates(fsm)>> /\ rfront' = InitStates(fsm)
      BY <2>3 DEF BeginExpand
    <3>2. rfront' = LastFrontier(fwd') /\ fwd' # << >>
      BY <1>2, <3>1
    <3>3. ForwardRings(fsm, fwd') /\ Growing(fwd') /\ Keeps(layers, fwd')
      BY <1>2, <2>3, <3>1 DEF Keeps
    <3> QED BY <2>3, <3>2, <3>3
  <2> QED BY <2>1, <2>2, <2>3
<1>4. fwd' \in Seq(SUBSET State)
  BY <1>1, <1>3 DEF ForwardRings
<1>5. rfront' \in SUBSET State
  <2>1. CASE fwd' = << >>
    BY <1>3, <2>1
  <2>2. CASE fwd' # << >>
    <3>1. /\ Final(fwd') \in SUBSET fsm.invar
          /\ LastFrontier(fwd') \subseteq Final(fwd')
      BY <1>1, <1>3, <2>2, ForwardLast
    <3> QED BY <1>1, <1>3, <2>2, <3>1
  <2> QED BY <2>1, <2>2
<1> QED BY <1>3, <1>4, <1>5

LEMMA ComputeReachableInv ==
    ASSUME Inv, NEW hasLimit \in BOOLEAN, ComputeReachable(hasLimit)
    PROVE  Inv'
<1> USE DEF ComputeReachable
<1>1. /\ pc = "prompt" /\ job' = "expand" /\ limited' = hasLimit
      /\ UNCHANGED <<fsm, layers, computed, cex, bad, status, bwd, bfront, target,
                     lower, upper, path, fleft, bleft>>
  BY DEF cache, walk
<1>2. \/ Complete /\ pc' = "return" /\ UNCHANGED <<fwd, rfront>>
      \/ ~ Complete /\ pc' = "expand" /\ BeginExpand
  OBVIOUS
<1> HIDE DEF ComputeReachable
<1>3. pc' = "expand" =>
          /\ ForwardRings(fsm, fwd') /\ Growing(fwd') /\ Keeps(layers, fwd')
          /\ IF fwd' = << >> THEN rfront' = {} /\ InitStates(fsm) = {}
                             ELSE rfront' = LastFrontier(fwd') /\ InitStates(fsm) # {}
          /\ fwd' \in Seq(SUBSET State) /\ rfront' \in SUBSET State
  BY <1>2, ExpandStart
<1>4. pc' \in {"expand", "return"} /\ (pc' = "expand" => (layers # << >> => ~ computed))
  BY <1>2 DEF Complete
<1>5. fwd' \in Seq(SUBSET State) /\ rfront' \in SUBSET State
  BY <1>2, <1>3 DEF Inv, TypeOK
<1>6. TypeOK'
  BY <1>1, <1>4, <1>5 DEF Inv, TypeOK, Stages
<1>7. CacheInv'
  BY <1>1, CacheFrame DEF Inv
<1>8. JobInv' /\ NeverStuck'
  BY <1>1, <1>4 DEF Inv, JobInv, NeverStuck, Checking
<1>9. ExpandInv'
  BY <1>1, <1>3, <1>4 DEF ExpandInv
<1>10. RingsInv' /\ StoreInv' /\ StartInv' /\ LayersInv' /\ SearchInv'
  BY <1>4 DEF RingsInv, StoreInv, StartInv, LayersInv, SearchInv, Checking
<1>11. TraceInv' /\ AgInv'
  BY <1>4 DEF TraceInv, AgInv
<1>12. VerdictInv' /\ PathInv'
  BY <1>1, <1>4 DEF Inv, VerdictInv, VerdictIsRight, PathInv, AgTraceIsChain, Strategies
<1> QED BY <1>6, <1>7, <1>8, <1>9, <1>10, <1>11, <1>12 DEF Inv

LEMMA CheckAGInv ==
    ASSUME Inv, NEW b \in SUBSET fsm.invar, NEW wantCex \in BOOLEAN, CheckAG(b, wantCex)
    PROVE  Inv'
<1> USE DEF CheckAG
<1>1. /\ pc = "prompt" /\ job' = "ag" /\ bad' = b /\ cex' = wantCex
      /\ UNCHANGED <<fsm, layers, computed, limited, status, bwd, bfront, target,
                     lower, upper, path, fleft, bleft>>
  BY DEF cache, walk
<1>2. \/ computed /\ pc' = "ag" /\ UNCHANGED <<fwd, rfront>>
      \/ ~ computed /\ pc' = "expand" /\ BeginExpand
  OBVIOUS
<1> HIDE DEF CheckAG
<1>3. pc' = "expand" =>
          /\ ForwardRings(fsm, fwd') /\ Growing(fwd') /\ Keeps(layers, fwd')
          /\ IF fwd' = << >> THEN rfront' = {} /\ InitStates(fsm) = {}
                             ELSE rfront' = LastFrontier(fwd') /\ InitStates(fsm) # {}
          /\ fwd' \in Seq(SUBSET State) /\ rfront' \in SUBSET State
  BY <1>2, ExpandStart
<1>4. pc' \in {"expand", "ag"} /\ (pc' = "expand" => ~ computed) /\ (pc' = "ag" => computed)
  BY <1>2
<1>5. /\ fwd' \in Seq(SUBSET State) /\ rfront' \in SUBSET State /\ b \in SUBSET State
  BY <1>2, <1>3, MachineType DEF Inv, TypeOK
<1>6. TypeOK'
  BY <1>1, <1>4, <1>5 DEF Inv, TypeOK, Stages
<1>7. CacheInv'
  BY <1>1, CacheFrame DEF Inv
<1>8. JobInv' /\ NeverStuck'
  BY <1>1, <1>4 DEF Inv, JobInv, NeverStuck, Checking
<1>9. ExpandInv'
  BY <1>1, <1>3, <1>4 DEF ExpandInv
<1>10. RingsInv' /\ StoreInv' /\ StartInv' /\ LayersInv' /\ SearchInv'
  BY <1>4 DEF RingsInv, StoreInv, StartInv, LayersInv, SearchInv, Checking
<1>11. TraceInv' /\ AgInv'
  BY <1>1, <1>4 DEF TraceInv, AgInv
<1>12. VerdictInv' /\ PathInv'
  BY <1>1, <1>4 DEF Inv, JobInv, VerdictInv, VerdictIsRight, PathInv, AgTraceIsChain
<1> QED BY <1>6, <1>7, <1>8, <1>9, <1>10, <1>11, <1>12 DEF Inv

LEMMA ExpandFacts ==
    ASSUME Inv, pc = "expand"
    PROVE  /\ fsm \in Machine /\ fsm.invar \subseteq State
           /\ ForwardRings(fsm, fwd) /\ Growing(fwd) /\ Keeps(layers, fwd)
           /\ IF fwd = << >> THEN rfront = {} /\ InitStates(fsm) = {}
                             ELSE rfront = LastFrontier(fwd) /\ InitStates(fsm) # {}
           /\ layers # << >> => ~ computed
           /\ job \in {"expand", "ag"} /\ (job = "ag" => ~ limited) /\ status = "none"
BY MachineType DEF Inv, TypeOK, JobInv, ExpandInv

LEMMA ExpandStepInv ==
    ASSUME Inv, ExpandStep
    PROVE  Inv'
<1> USE DEF ExpandStep
<1>1. /\ pc = "expand" /\ rfront # {}
      /\ fwd' = Append(fwd, Final(fwd) \cup Image(fsm, rfront))
      /\ rfront' = Image(fsm, rfront) \ Final(fwd)
      /\ UNCHANGED <<fsm, layers, computed, pc, job, limited, cex, bad, status, bwd, bfront,
                     target, lower, upper, path, fleft, bleft>>
  BY DEF Grow, cache, question, walk
<1> HIDE DEF ExpandStep
<1>2. /\ fsm \in Machine /\ fsm.invar \subseteq State
      /\ ForwardRings(fsm, fwd) /\ Growing(fwd) /\ Keeps(layers, fwd)
      /\ fwd # << >> /\ rfront = LastFrontier(fwd) /\ InitStates(fsm) # {}
      /\ layers # << >> => ~ computed
  BY <1>1, ExpandFacts
<1>3. /\ ForwardRings(fsm, fwd') /\ Growing(fwd') /\ fwd' # << >>
      /\ Final(fwd) \subseteq Final(fwd')
      /\ LastFrontier(fwd') = rfront'
  <2>1. fwd' = NextForward(fsm, fwd)
    BY <1>1, <1>2 DEF NextForward
  <2>2. LastFrontier(fwd) # {}
    BY <1>1, <1>2
  <2>3. /\ ForwardRings(fsm, fwd') /\ Growing(fwd') /\ fwd' # << >>
        /\ Final(fwd') = Final(fwd) \cup Image(fsm, Final(fwd))
        /\ LastFrontier(fwd') = Image(fsm, LastFrontier(fwd)) \ Final(fwd)
    BY <1>2, <2>1, <2>2, ForwardGrows
  <2> QED BY <1>1, <1>2, <2>3
<1>4. fwd' \in Seq(SUBSET State) /\ rfront' \in SUBSET State
  BY <1>1, <1>2, <1>3, ImageType DEF ForwardRings
<1>5. TypeOK'
  BY <1>1, <1>4 DEF Inv, TypeOK
<1>6. CacheInv' /\ JobInv' /\ NeverStuck'
  BY <1>1, CacheFrame DEF Inv, JobInv, NeverStuck
<1>7. ExpandInv'
  <2>1. Keeps(layers, fwd')
    BY <1>2, <1>3 DEF Keeps
  <2> QED BY <1>1, <1>2, <1>3, <2>1 DEF ExpandInv
<1>8. RingsInv' /\ StoreInv' /\ StartInv' /\ LayersInv' /\ SearchInv'
  BY <1>1 DEF RingsInv, StoreInv, StartInv, LayersInv, SearchInv, Checking
<1>9. TraceInv' /\ AgInv'
  BY <1>1 DEF TraceInv, AgInv
<1>10. VerdictInv' /\ PathInv'
  BY <1>1 DEF Inv, VerdictInv, VerdictIsRight, PathInv, AgTraceIsChain
<1> QED BY <1>5, <1>6, <1>7, <1>8, <1>9, <1>10 DEF Inv

(* What the expansion leaves in the cache: the rings, without the last if  *)
(* it repeats the one before.                                              *)
LEMMA ExpandResult ==
    ASSUME Inv, ExpandEnd
    PROVE  /\ CacheInv' /\ computed' \in BOOLEAN /\ layers' \in Seq(SUBSET State)
           /\ (computed' <=> rfront = {})
           /\ Keeps(layers, layers') /\ (layers # << >> => ~ computed)
<1> USE DEF ExpandEnd
<1>1. /\ pc = "expand" /\ fsm' = fsm
      /\ computed' = (rfront = {})
      /\ layers' = (IF rfront = {} /\ fwd # << >> THEN Truncated(fwd) ELSE fwd)
  OBVIOUS
<1> HIDE DEF ExpandEnd
<1>2. computed' \in BOOLEAN /\ (computed' <=> rfront = {})
  BY <1>1
<1>3. /\ fsm \in Machine /\ fsm.invar \subseteq State
      /\ ForwardRings(fsm, fwd) /\ Growing(fwd) /\ Keeps(layers, fwd)
      /\ IF fwd = << >> THEN rfront = {} /\ InitStates(fsm) = {}
                        ELSE rfront = LastFrontier(fwd) /\ InitStates(fsm) # {}
      /\ layers # << >> => ~ computed
  BY <1>1, ExpandFacts
<1>4. CASE fwd = << >>
  <2>1. layers' = << >> /\ InitStates(fsm) = {} /\ computed'
    BY <1>1, <1>2, <1>3, <1>4
  <2>2. Len(<< >>) = 0 /\ << >> \in Seq(SUBSET State)
    OBVIOUS
  <2>3. /\ ForwardRings(fsm', layers') /\ Growing(layers') /\ InitStates(fsm') = {}
        /\ layers' = << >> /\ computed'
    BY <1>1, <1>3, <1>4, <2>1
  <2>4. CacheInv'
    BY <2>3 DEF CacheInv
  <2>5. layers = << >>
    BY <1>3, <1>4 DEF Keeps
  <2> QED BY <1>2, <1>3, <2>1, <2>2, <2>4, <2>5 DEF Keeps
<1>5. CASE fwd # << >> /\ rfront # {}
  <2>1. layers' = fwd /\ ~ computed' /\ LastFrontier(fwd) # {} /\ InitStates(fsm) # {}
    BY <1>1, <1>2, <1>3, <1>5
  <2>2. CacheInv'
    BY <1>1, <1>3, <1>5, <2>1 DEF CacheInv
  <2>3. layers' \in Seq(SUBSET State)
    BY <1>3, <2>1 DEF ForwardRings
  <2> QED BY <1>2, <1>3, <2>1, <2>2, <2>3
<1>6. CASE fwd # << >> /\ rfront = {}
  <2>1. layers' = Truncated(fwd) /\ computed' /\ LastFrontier(fwd) = {} /\ InitStates(fsm) # {}
    BY <1>1, <1>2, <1>3, <1>6
  <2>2. /\ ForwardRings(fsm, layers') /\ Growing(layers') /\ layers' # << >>
        /\ Final(layers') = Final(fwd)
    BY <1>3, <1>6, <2>1, ForwardTruncated
  <2>3. Image(fsm, Final(layers')) \subseteq Final(layers')
    <3>1. Image(fsm, Final(fwd)) \subseteq Final(fwd)
      BY <1>3, <1>6, <2>1, EmptyFrontier
    <3> QED BY <2>2, <3>1
  <2>4. CacheInv'
    BY <1>1, <2>1, <2>2, <2>3 DEF CacheInv
  <2>5. layers' \in Seq(SUBSET State)
    BY <1>3, <2>2 DEF ForwardRings
  <2>6. Keeps(layers, layers')
    BY <1>3, <2>2 DEF Keeps
  <2> QED BY <1>2, <1>3, <2>4, <2>5, <2>6
<1> QED BY <1>4, <1>5, <1>6

LEMMA ExpandEndInv ==
    ASSUME Inv, ExpandEnd
    PROVE  Inv'
<1>1. /\ pc = "expand" /\ (rfront = {} \/ limited)
      /\ pc' = (IF job = "ag" THEN "ag" ELSE "return")
      /\ UNCHANGED <<fsm, job, limited, cex, bad, status, fwd, bwd, rfront, bfront,
                     target, lower, upper, path, fleft, bleft>>
  BY DEF ExpandEnd, question, search, walk
<1>2. /\ CacheInv' /\ computed' \in BOOLEAN /\ layers' \in Seq(SUBSET State)
      /\ (computed' <=> rfront = {})
  BY ExpandResult
<1>3. job \in {"expand", "ag"} /\ (job = "ag" => ~ limited) /\ status = "none"
  BY <1>1, ExpandFacts
<1>4. TypeOK'
  BY <1>1, <1>2 DEF Inv, TypeOK, Stages
<1>5. JobInv' /\ NeverStuck'
  BY <1>1, <1>3 DEF Inv, JobInv, NeverStuck, Checking
<1>6. RingsInv' /\ StoreInv' /\ StartInv' /\ LayersInv' /\ SearchInv' /\ ExpandInv'
  BY <1>1 DEF RingsInv, StoreInv, StartInv, LayersInv, SearchInv, ExpandInv, Checking
<1>7. TraceInv' /\ AgInv'
  BY <1>1, <1>2, <1>3 DEF TraceInv, AgInv
<1>8. VerdictInv' /\ PathInv'
  BY <1>1, <1>3 DEF VerdictInv, VerdictIsRight, PathInv, AgTraceIsChain
<1> QED BY <1>2, <1>4, <1>5, <1>6, <1>7, <1>8 DEF Inv

-----------------------------------------------------------------------------
LEMMA AgFacts ==
    ASSUME Inv, pc \in {"ag", "agtrace"}
    PROVE  /\ fsm \in Machine /\ fsm.invar \subseteq State /\ bad \in SUBSET fsm.invar
           /\ job = "ag" /\ status = "none" /\ computed
           /\ ForwardRings(fsm, layers) /\ Len(layers) \in Nat
           /\ Reachable(fsm) = ReachableStates
<1>1. /\ fsm \in Machine /\ fsm.invar \subseteq State /\ bad \in SUBSET fsm.invar
      /\ job = "ag" /\ status = "none" /\ computed
      /\ ForwardRings(fsm, layers)
  BY MachineType DEF Inv, TypeOK, JobInv, AgInv, CacheInv
<1>2. Len(layers) \in Nat
  BY NonEmptyFacts DEF Inv, TypeOK
<1>3. CASE layers = << >>
  BY <1>1, <1>2, <1>3, NothingReachable DEF Inv, CacheInv, ReachableStates
<1>4. CASE layers # << >>
  BY <1>1, <1>2, <1>4, ForwardComplete DEF Inv, CacheInv, ReachableStates
<1> QED BY <1>3, <1>4

(* The stages that only decide or finish the AG-only check.                *)
LEMMA AgFrame ==
    ASSUME Inv, pc \in {"ag", "agtrace"}, pc' \in {"agtrace", "return"},
           UNCHANGED <<fsm, layers, computed, job, limited, cex, bad, fwd, bwd,
                       rfront, bfront, target, lower, upper>>,
           status' \in {"none", "true", "false"}, pc' = "agtrace" => status' = "none",
           path' \in Seq(State), fleft' \in Nat, bleft' \in Nat,
           AgInv', VerdictInv', PathInv'
    PROVE  Inv'
<1>1. job = "ag"
  BY AgFacts
<1>2. TypeOK'
  BY DEF Inv, TypeOK, Stages
<1>3. CacheInv' /\ JobInv' /\ NeverStuck'
  BY <1>1, CacheFrame DEF Inv, JobInv, NeverStuck, Checking
<1>4. RingsInv' /\ StoreInv' /\ StartInv' /\ LayersInv' /\ SearchInv' /\ ExpandInv' /\ TraceInv'
  BY DEF RingsInv, StoreInv, StartInv, LayersInv, SearchInv, ExpandInv, TraceInv, Checking
<1> QED BY <1>2, <1>3, <1>4 DEF Inv

LEMMA AgTrueInv ==
    ASSUME Inv, AgTrue
    PROVE  Inv'
<1> USE DEF AgTrue
<1>1. /\ pc = "ag" /\ pc' = "return" /\ status' = "true" /\ ReachableStates \cap bad = {}
      /\ UNCHANGED <<fsm, layers, computed, job, limited, cex, bad, fwd, bwd,
                     rfront, bfront, target, lower, upper>>
      /\ UNCHANGED <<path, fleft, bleft>>
  BY DEF cache, question, search, walk
<1> HIDE DEF AgTrue
<1>2. Reachable(fsm) \cap bad = {} /\ job = "ag"
  BY <1>1, AgFacts
<1>3. path' \in Seq(State) /\ fleft' \in Nat /\ bleft' \in Nat
  BY <1>1 DEF Inv, TypeOK
<1>4. AgInv' /\ VerdictInv' /\ PathInv'
  BY <1>1, <1>2 DEF AgInv, VerdictInv, VerdictIsRight, PathInv, AgTraceIsChain
<1> QED BY <1>1, <1>3, <1>4, AgFrame

LEMMA AgFalseInv ==
    ASSUME Inv, AgFalse
    PROVE  Inv'
<1> USE DEF AgFalse
<1>1. /\ pc = "ag" /\ ReachableStates \cap bad # {}
      /\ UNCHANGED <<fsm, layers, computed, job, limited, cex, bad, fwd, bwd,
                     rfront, bfront, target, lower, upper>>
  BY DEF cache, question, search
<1>2. \/ /\ pc' = "agtrace" /\ status' = status /\ cex
         /\ \E d \in 0 .. Len(layers) - 1 :
                /\ IsMinimumDistance(d, bad)
                /\ \E s \in AtDistance(d) \cap bad : StartPath(<<s>>, LayersBelow(d), 0)
      \/ ~ cex /\ pc' = "return" /\ status' = "false" /\ UNCHANGED <<path, fleft, bleft>>
  BY DEF walk
<1> HIDE DEF AgFalse
<1>3. /\ fsm \in Machine /\ fsm.invar \subseteq State /\ job = "ag" /\ status = "none"
      /\ ForwardRings(fsm, layers) /\ computed /\ Len(layers) \in Nat
      /\ Reachable(fsm) \cap bad # {}
  BY <1>1, AgFacts
<1>4. CASE pc' = "return"
  <2>1. ~ cex /\ status' = "false" /\ UNCHANGED <<path, fleft, bleft>>
    BY <1>2, <1>4
  <2>2. path' \in Seq(State) /\ fleft' \in Nat /\ bleft' \in Nat
    BY <2>1 DEF Inv, TypeOK
  <2>3. AgInv' /\ VerdictInv' /\ PathInv'
    BY <1>1, <1>3, <1>4, <2>1
       DEF AgInv, VerdictInv, VerdictIsRight, PathInv, AgTraceIsChain, Strategies
  <2> QED BY <1>1, <1>4, <2>1, <2>2, <2>3, AgFrame
<1>5. CASE pc' = "agtrace"
  <2>1. status' = "none"
    BY <1>2, <1>3, <1>5
  <2>2. PICK d \in 0 .. Len(layers) - 1 :
            \E s \in AtDistance(d) \cap bad : StartPath(<<s>>, LayersBelow(d), 0)
    BY <1>2, <1>5
  <2>3. PICK s \in AtDistance(d) \cap bad : StartPath(<<s>>, LayersBelow(d), 0)
    BY <2>2
  <2>4. path' = <<s>> /\ fleft' = LayersBelow(d) /\ bleft' = 0 /\ s \in bad
    BY <2>3 DEF StartPath
  <2>5. s \in State
    BY <1>1, <2>4, AgFacts
  <2>6. path' \in Seq(State) /\ path' # << >> /\ Len(path') = 1 /\ path'[1] = s
    BY <2>4, <2>5, SingletonFacts
  <2>7. IsChain(fsm, path') /\ Final(path') = s
    BY <2>6 DEF IsChain, Final
  <2>8. fleft' \in Nat /\ bleft' \in Nat
    BY <1>3, <2>2, <2>4 DEF LayersBelow
  <2>9. fleft' > 0 => /\ fleft' + 2 \in 1 .. Len(layers)
                      /\ path'[1] \in layers[fleft' + 2] \ layers[fleft' + 1]
    <3>1. ASSUME fleft' > 0
          PROVE  d > 1 /\ fleft' + 2 = d + 1 /\ fleft' + 1 = d /\ d + 1 \in 1 .. Len(layers)
      BY <1>3, <2>2, <2>4, <3>1 DEF LayersBelow
    <3>2. ASSUME fleft' > 0
          PROVE  s \in layers[d + 1] \ layers[d]
      <4>1. d # 0
        BY <3>1, <3>2
      <4> QED BY <2>3, <4>1 DEF AtDistance
    <3> QED BY <2>6, <3>1, <3>2
  <2>10. AgInv'
    BY <1>1, <1>3, <1>5, <2>4, <2>6, <2>7, <2>9 DEF AgInv
  <2>11. VerdictInv' /\ PathInv'
    BY <1>1, <1>3, <1>5, <2>1 DEF VerdictInv, VerdictIsRight, PathInv, AgTraceIsChain
  <2> QED BY <1>1, <1>5, <2>1, <2>6, <2>8, <2>10, <2>11, AgFrame
<1> QED BY <1>2, <1>4, <1>5

LEMMA AgTraceFacts ==
    ASSUME Inv, pc = "agtrace"
    PROVE  /\ path \in Seq(State) /\ path # << >> /\ IsChain(fsm, path) /\ Final(path) \in bad
           /\ Reachable(fsm) \cap bad # {}
           /\ fleft > 0 => /\ fleft + 2 \in 1 .. Len(layers)
                           /\ path[1] \in layers[fleft + 2] \ layers[fleft + 1]
           /\ fleft \in Nat /\ bleft \in Nat
BY DEF Inv, TypeOK, AgInv, VerdictInv

(* A state at distance d + 1 has a predecessor at distance d: the assertion*)
(* of make_AG_counterexample holds.                                        *)
LEMMA AgTraceStepInv ==
    ASSUME Inv, AgTraceStep
    PROVE  Inv'
<1> USE DEF AgTraceStep
<1>1. /\ pc = "agtrace" /\ fleft > 0
      /\ UNCHANGED <<fsm, layers, computed, job, limited, cex, bad, status, fwd, bwd,
                     rfront, bfront, target, lower, upper>>
  BY DEF cache, question, search
<1> DEFINE previous == Preimage(fsm, {path[1]}) \cap AtDistance(fleft)
<1>2. previous # {} => /\ pc' = pc
                       /\ \E s \in previous : StartPath(<<s>> \o path, fleft - 1, 0)
  OBVIOUS
<1> HIDE DEF AgTraceStep
<1>3. /\ fsm \in Machine /\ fsm.invar \subseteq State /\ status = "none" /\ computed
      /\ ForwardRings(fsm, layers) /\ Len(layers) \in Nat
  BY <1>1, AgFacts
<1>4. /\ path \in Seq(State) /\ path # << >> /\ IsChain(fsm, path) /\ Final(path) \in bad
      /\ Reachable(fsm) \cap bad # {}
      /\ fleft + 2 \in 1 .. Len(layers)
      /\ path[1] \in layers[fleft + 2] /\ path[1] \notin layers[fleft + 1]
      /\ fleft \in Nat
  BY <1>1, AgTraceFacts
<1>5. /\ layers[fleft + 2] = layers[fleft + 1] \cup Image(fsm, layers[fleft + 1])
      /\ layers[fleft + 1] = layers[fleft] \cup Image(fsm, layers[fleft])
  <2>1. /\ fleft + 1 \in 1 .. Len(layers) - 1 /\ (fleft + 1) + 1 = fleft + 2
        /\ fleft \in 1 .. Len(layers) - 1
    BY <1>1, <1>3, <1>4
  <2> QED BY <1>3, <2>1 DEF ForwardRings
<1>6. PICK t \in layers[fleft + 1] : path[1] \in Image(fsm, {t})
  <2>1. path[1] \in Image(fsm, layers[fleft + 1])
    BY <1>4, <1>5
  <2> QED BY <2>1, ImageOfState
<1>7. t \notin layers[fleft]
  <2>1. t \in layers[fleft] => path[1] \in Image(fsm, layers[fleft])
    BY <1>6, ImageOfState
  <2> QED BY <1>4, <1>5, <2>1
<1>8. previous # {}
  <2>1. t \in AtDistance(fleft)
    BY <1>1, <1>6, <1>7 DEF AtDistance
  <2>2. t \in Preimage(fsm, {path[1]})
    BY <1>6, ImageIsConverse
  <2> QED BY <2>1, <2>2
<1>9. PICK s \in previous : StartPath(<<s>> \o path, fleft - 1, 0)
  BY <1>2, <1>8
<1>10. /\ path' = <<s>> \o path /\ fleft' = fleft - 1 /\ bleft' = 0 /\ pc' = "agtrace"
       /\ s \in Preimage(fsm, {path[1]}) /\ s \in AtDistance(fleft) /\ s \in State
  BY <1>1, <1>2, <1>3, <1>8, <1>9, ImageType DEF StartPath
<1> HIDE DEF previous
<1>11. /\ path' \in Seq(State) /\ path' # << >> /\ IsChain(fsm, path')
       /\ path'[1] = s /\ Final(path') = Final(path)
  BY <1>4, <1>10, ChainCons
<1>12. fleft' \in Nat /\ bleft' \in Nat
  BY <1>1, <1>4, <1>10
<1>13. fleft' > 0 => /\ fleft' + 2 \in 1 .. Len(layers)
                     /\ path'[1] \in layers[fleft' + 2] \ layers[fleft' + 1]
  <2>1. /\ fleft' + 2 = fleft + 1 /\ fleft' + 1 = fleft /\ fleft + 1 \in 1 .. Len(layers)
        /\ fleft # 0
    BY <1>1, <1>3, <1>4, <1>10
  <2>2. s \in layers[fleft + 1] \ layers[fleft]
    BY <1>10, <2>1 DEF AtDistance
  <2> QED BY <1>11, <2>1, <2>2
<1>14. AgInv'
  BY <1>1, <1>3, <1>4, <1>10, <1>11, <1>13 DEF AgInv
<1>15. VerdictInv' /\ PathInv'
  BY <1>1, <1>3, <1>4, <1>10 DEF VerdictInv, VerdictIsRight, PathInv, AgTraceIsChain
<1>16. pc \in {"ag", "agtrace"} /\ pc' \in {"agtrace", "return"} /\ status' = "none"
  BY <1>1, <1>3, <1>10
<1> QED BY <1>1, <1>11, <1>12, <1>14, <1>15, <1>16, AgFrame

LEMMA AgTraceEndInv ==
    ASSUME Inv, AgTraceEnd
    PROVE  Inv'
<1> USE DEF AgTraceEnd
<1>1. /\ pc = "agtrace" /\ pc' = "return" /\ status' = "false"
      /\ UNCHANGED <<fsm, layers, computed, job, limited, cex, bad, fwd, bwd,
                     rfront, bfront, target, lower, upper>>
      /\ UNCHANGED <<path, fleft, bleft>>
  BY DEF cache, question, search, walk
<1> HIDE DEF AgTraceEnd
<1>2. /\ path # << >> /\ IsChain(fsm, path) /\ Final(path) \in bad
      /\ Reachable(fsm) \cap bad # {} /\ job = "ag"
  BY <1>1, AgTraceFacts, AgFacts
<1>3. path' \in Seq(State) /\ fleft' \in Nat /\ bleft' \in Nat
  BY <1>1 DEF Inv, TypeOK
<1>4. AgInv' /\ VerdictInv' /\ PathInv'
  BY <1>1, <1>2 DEF AgInv, VerdictInv, VerdictIsRight, PathInv, AgTraceIsChain, Strategies
<1> QED BY <1>1, <1>3, <1>4, AgFrame

-----------------------------------------------------------------------------
LEMMA StutterInv ==
    ASSUME Inv, UNCHANGED vars
    PROVE  Inv'
<1> USE DEF vars, cache, question, search, walk
<1>1. TypeOK' /\ CacheInv' /\ JobInv' /\ NeverStuck'
  BY CacheFrame DEF Inv, TypeOK, JobInv, NeverStuck
<1>2. RingsInv' /\ StartInv' /\ LayersInv' /\ SearchInv'
  BY DEF Inv, RingsInv, StartInv, StartingLayers, LayersInv, Buggy, SearchInv
<1>3. StoreInv' /\ ExpandInv' /\ TraceInv' /\ AgInv'
  BY DEF Inv, StoreInv, forwardStep, ExpandInv, TraceInv, AgInv
<1>4. VerdictInv' /\ PathInv'
  BY DEF Inv, VerdictInv, VerdictIsRight, PathInv, AgTraceIsChain
<1> QED BY <1>1, <1>2, <1>3, <1>4 DEF Inv

LEMMA NextInv ==
    ASSUME Inv, [Next]_vars
    PROVE  Inv'
<1>1. CASE Command
  <2>1. CASE \E b \in SUBSET fsm.invar, wantCex \in BOOLEAN :
                 \E st \in Strategy : CheckInvar(st, b, wantCex)
    BY <2>1, CheckInvarInv
  <2>2. CASE \E b \in SUBSET fsm.invar, wantCex \in BOOLEAN : CheckAG(b, wantCex)
    BY <2>2, CheckAGInv
  <2>3. CASE \E hasLimit \in BOOLEAN : ComputeReachable(hasLimit)
    BY <2>3, ComputeReachableInv
  <2> QED BY <1>1, <2>1, <2>2, <2>3 DEF Command
<1>2. CASE Work
  BY <1>2, BugInInitialStateInv, BugInCachedLayersInv, SearchLayersInv, AlreadyCompleteInv,
     BeginSearchInv, ForwardStepInv, BackwardStepInv, EndSearchInv, BmcTrueInv,
     BmcUnknownInv, BmcFalseInv, FollowBackwardListInv, FollowForwardListInv, EndTraceInv,
     StoreLayersInv, ExpandStepInv, ExpandEndInv, AgTrueInv, AgFalseInv, AgTraceStepInv,
     AgTraceEndInv, ForgetInv
     DEF Work, Return
<1>3. CASE Interrupt
  BY <1>3, ForgetInv DEF Interrupt
<1>4. CASE UNCHANGED vars
  BY <1>4, StutterInv
<1> QED BY <1>1, <1>2, <1>3, <1>4 DEF Next

(* Every stage of every command keeps the rings as the invariant has them. *)
THEOREM InvariantHolds == Spec => []Inv
<1>1. Init => Inv
  BY InitInv
<1>2. Inv /\ [Next]_vars => Inv'
  BY NextInv
<1> QED BY <1>1, <1>2, PTL DEF Spec

-----------------------------------------------------------------------------
(* The variables keep their types.  (TypeOK)                               *)
THEOREM TypesHold == Spec => []TypeOK
<1>1. Inv => TypeOK
  BY DEF Inv
<1> QED BY <1>1, InvariantHolds, PTL

(* The cache that the commands share holds exactly the states within 0, 1, *)
(* 2... steps, and counts as computed only if those are all.               *)
THEOREM CacheAlwaysExact == Spec => []CacheIsExact
<1>1. Inv => CacheIsExact
  BY DEF Inv, CacheInv, CacheIsExact, ForwardRings, Closed
<1> QED BY <1>1, InvariantHolds, PTL

(* Only the last layer of a complete cache may repeat the one before it.   *)
THEOREM LayersAlwaysGrow == Spec => []LayersGrow
<1>1. ASSUME Inv
      PROVE  LayersGrow
  <2>1. /\ fsm \in Machine /\ ForwardRings(fsm, layers) /\ Growing(layers)
        /\ ~ computed /\ Len(layers) > 1 => LastFrontier(layers) # {}
        /\ Len(layers) \in Nat
    BY <1>1, NonEmptyFacts DEF Inv, TypeOK, CacheInv
  <2>2. SUFFICES ASSUME NEW i \in 1 .. Len(layers) - 1, layers[i] = layers[i + 1]
                 PROVE  computed /\ i + 1 = Len(layers)
    BY DEF LayersGrow
  <2>3. i = Len(layers) - 1 /\ Len(layers) > 1
    <3>1. i \notin 1 .. Len(layers) - 2
      BY <2>1, <2>2 DEF Growing
    <3> QED BY <2>1, <2>2, <3>1
  <2>4. i + 1 = Len(layers)
    BY <2>1, <2>3
  <2>5. LastFrontier(layers) = {}
    <3>1. LastFrontier(layers) = Final(layers) \ layers[Len(layers) - 1]
      BY <2>3 DEF LastFrontier
    <3> QED BY <2>2, <2>3, <2>4, <3>1 DEF Final
  <2> QED BY <2>1, <2>3, <2>4, <2>5
<1> QED BY <1>1, InvariantHolds, PTL

(* Every verdict is right, whatever the strategy and whatever the commands *)
(* before it left in the cache.                                            *)
THEOREM VerdictAlwaysRight == Spec => []VerdictIsRight
<1>1. Inv => VerdictIsRight
  BY DEF Inv, VerdictInv
<1> QED BY <1>1, InvariantHolds, PTL

(* The walks along the rings find a state in each.                         *)
THEOREM WalksNeverStuck == Spec => []NeverStuck
<1>1. Inv => NeverStuck
  BY DEF Inv
<1> QED BY <1>1, InvariantHolds, PTL

(* The trace of the AG-only check is a chain to a bad state.               *)
THEOREM AgTraceAlwaysChain == Spec => []AgTraceIsChain
<1>1. Inv => AgTraceIsChain
  BY DEF Inv, PathInv
<1> QED BY <1>1, InvariantHolds, PTL

-----------------------------------------------------------------------------
(* No trace of check_invar is longer than necessary.  The rings, again: the*)
(* i-th forward one holds what i steps reach.                              *)
LEMMA ForwardIsWithin ==
    ASSUME NEW m \in Machine, NEW r, ForwardRings(m, r), r # << >>
    PROVE  \A i \in 0 .. Len(r) - 1 : r[i + 1] = Within(m)[i]
<1> DEFINE T == {i \in Nat : i <= Len(r) - 1 => r[i + 1] = Within(m)[i]}
<1>1. Len(r) \in Nat /\ Len(r) > 0
  BY ForwardLast
<1>2. 0 \in T
  BY WithinStep DEF ForwardRings
<1>3. ASSUME NEW n \in Nat, n \in T
      PROVE  n + 1 \in T
  <2> SUFFICES ASSUME n + 1 <= Len(r) - 1
               PROVE  r[(n + 1) + 1] = Within(m)[n + 1]
    OBVIOUS
  <2>1. n + 1 \in 1 .. Len(r) - 1 /\ n <= Len(r) - 1
    BY <1>1
  <2>2. r[n + 1] = Within(m)[n]
    BY <1>3, <2>1
  <2>3. r[(n + 1) + 1] = r[n + 1] \cup Image(m, r[n + 1])
    BY <2>1 DEF ForwardRings
  <2>4. Within(m)[n + 1] = Within(m)[n] \cup Image(m, Within(m)[n])
    BY WithinStep
  <2> QED BY <2>2, <2>3, <2>4
<1>4. \A n \in Nat : n \in T => n + 1 \in T
  BY <1>3
<1> HIDE DEF T
<1>5. Nat \subseteq T
  BY <1>2, <1>4, SetInduction
<1> QED BY <1>1, <1>5 DEF T

(* i steps that miss the j-th backward ring: no bad state within i + j.    *)
LEMMA MissedRing ==
    ASSUME NEW m \in Machine, NEW b, NEW r, BackwardRings(m, b, r),
           NEW i \in Nat, NEW j \in 0 .. Len(r) - 1,
           Within(m)[i] \cap r[j + 1] = {}
    PROVE  Within(m)[i + j] \cap b = {}
<1> DEFINE T == {n \in Nat : n <= j => Within(m)[i + n] \cap r[(j - n) + 1] = {}}
<1>1. Len(r) \in Nat /\ j \in Nat
  BY BackwardLast
<1>2. 0 \in T
  <2>1. i + 0 = i /\ (j - 0) + 1 = j + 1
    BY <1>1
  <2> QED BY <2>1
<1>3. ASSUME NEW n \in Nat, n \in T
      PROVE  n + 1 \in T
  <2> SUFFICES ASSUME n + 1 <= j, NEW s \in Within(m)[i + (n + 1)],
                      s \in r[(j - (n + 1)) + 1]
               PROVE  FALSE
    OBVIOUS
  <2>1. /\ i + n \in Nat /\ i + (n + 1) = (i + n) + 1 /\ n <= j
        /\ (j - (n + 1)) + 1 = j - n
    BY <1>1
  <2>2. Within(m)[i + n] \cap r[(j - n) + 1] = {}
    BY <1>3, <2>1
  <2>3. r[(j - n) + 1] = r[j - n] \cup Preimage(m, r[j - n])
    <3>1. j - n \in 1 .. Len(r) - 1
      BY <1>1
    <3> QED BY <3>1 DEF BackwardRings
  <2>4. s \in Within(m)[i + n] \cup Image(m, Within(m)[i + n])
    BY <2>1, WithinStep
  <2>5. CASE s \in Within(m)[i + n]
    BY <2>1, <2>2, <2>3, <2>5
  <2>6. CASE s \in Image(m, Within(m)[i + n])
    <3> DEFINE W == Within(m)[i + n]
    <3>0. s \in Image(m, W)
      BY <2>6
    <3> HIDE DEF W
    <3>1. PICK t \in W : s \in Image(m, {t})
      BY <3>0 DEF Image
    <3>2. t \in Preimage(m, {s})
      BY <3>1, ImageIsConverse
    <3>3. t \in Preimage(m, r[j - n])
      BY <2>1, <3>2, ImageOfState
    <3> QED BY <2>2, <2>3, <3>1, <3>3 DEF W
  <2> QED BY <2>4, <2>5, <2>6
<1>4. \A n \in Nat : n \in T => n + 1 \in T
  BY <1>3
<1> HIDE DEF T
<1>5. j \in T
  BY <1>1, <1>2, <1>4, SetInduction
<1>6. Within(m)[i + j] \cap r[(j - j) + 1] = {}
  BY <1>1, <1>5 DEF T
<1>7. (j - j) + 1 = 1
  BY <1>1
<1> QED BY <1>6, <1>7 DEF BackwardRings

(* And i steps that meet it: there is one.                                 *)
LEMMA MetRing ==
    ASSUME NEW m \in Machine, NEW b, NEW r, BackwardRings(m, b, r),
           NEW i \in Nat, NEW j \in 0 .. Len(r) - 1,
           Within(m)[i] \cap r[j + 1] # {}
    PROVE  Within(m)[i + j] \cap b # {}
<1> DEFINE T == {n \in Nat : n <= j => Within(m)[i + n] \cap r[(j - n) + 1] # {}}
<1>1. Len(r) \in Nat /\ j \in Nat
  BY BackwardLast
<1>2. 0 \in T
  <2>1. i + 0 = i /\ (j - 0) + 1 = j + 1
    BY <1>1
  <2> QED BY <2>1
<1>3. ASSUME NEW n \in Nat, n \in T
      PROVE  n + 1 \in T
  <2> SUFFICES ASSUME n + 1 <= j
               PROVE  Within(m)[i + (n + 1)] \cap r[(j - (n + 1)) + 1] # {}
    OBVIOUS
  <2>1. /\ i + n \in Nat /\ i + (n + 1) = (i + n) + 1 /\ n <= j
        /\ (j - (n + 1)) + 1 = j - n
    BY <1>1
  <2>2. PICK t \in Within(m)[i + n] : t \in r[(j - n) + 1]
    BY <1>3, <2>1
  <2>3. r[(j - n) + 1] = r[j - n] \cup Preimage(m, r[j - n])
    <3>1. j - n \in 1 .. Len(r) - 1
      BY <1>1
    <3> QED BY <3>1 DEF BackwardRings
  <2>4. Within(m)[i + (n + 1)] = Within(m)[i + n] \cup Image(m, Within(m)[i + n])
    BY <2>1, WithinStep
  <2>5. \E s \in r[j - n] : s \in Within(m)[i + (n + 1)]
    <3>1. CASE t \in r[j - n]
      BY <2>2, <2>4, <3>1
    <3>2. CASE t \in Preimage(m, r[j - n])
      <4>1. PICK s \in r[j - n] : t \in Preimage(m, {s})
        BY <3>2, ImageOfState
      <4>2. s \in Image(m, {t})
        BY <4>1, ImageIsConverse
      <4>3. s \in Image(m, Within(m)[i + n])
        BY <2>2, <4>2, ImageOfState
      <4> QED BY <2>4, <4>3
    <3> QED BY <2>2, <2>3, <3>1, <3>2
  <2> QED BY <2>1, <2>5
<1>4. \A n \in Nat : n \in T => n + 1 \in T
  BY <1>3
<1> HIDE DEF T
<1>5. j \in T
  BY <1>1, <1>2, <1>4, SetInduction
<1>6. Within(m)[i + j] \cap r[(j - j) + 1] # {}
  BY <1>1, <1>5 DEF T
<1>7. (j - j) + 1 = 1
  BY <1>1
<1> QED BY <1>6, <1>7 DEF BackwardRings

(* A trace of n states is not longer than necessary.                       *)
Unbeaten(m, b, n) == n > 1 => Within(m)[n - 2] \cap b = {}

(* Where the searches meet the distances add up.                           *)
LEMMA MeetingIsUnbeaten ==
    ASSUME NEW m \in Machine, NEW b, NEW f, f # << >>, ForwardRings(m, f),
           NEW r, BackwardRings(m, b, r), MeetOnlyLast(f, r)
    PROVE  Unbeaten(m, b, 1 + (Len(f) - 1) + (Len(r) - 1))
<1>1. Len(f) \in Nat /\ Len(f) > 0 /\ Len(r) \in Nat /\ Len(r) > 0
  BY ForwardLast, BackwardLast
<1>2. CASE Len(f) > 1
  <2> DEFINE i == Len(f) - 2
             j == Len(r) - 1
  <2>1. /\ i \in 0 .. Len(f) - 1 /\ i \in Nat /\ i + 1 = Len(f) - 1
        /\ j \in 0 .. Len(r) - 1 /\ j + 1 = Len(r)
        /\ i + j = (1 + (Len(f) - 1) + (Len(r) - 1)) - 2
    BY <1>1, <1>2
  <2>2. f[i + 1] = Within(m)[i] /\ r[j + 1] = Final(r)
    BY <2>1, ForwardIsWithin DEF Final
  <2>3. Within(m)[i] \cap r[j + 1] = {}
    BY <1>2, <2>1, <2>2 DEF MeetOnlyLast
  <2> HIDE DEF i, j
  <2>4. Within(m)[i + j] \cap b = {}
    BY <2>1, <2>3, MissedRing
  <2> QED BY <2>1, <2>4 DEF Unbeaten
<1>3. CASE ~ (Len(f) > 1) /\ Len(r) > 1
  <2> DEFINE i == Len(f) - 1
             j == Len(r) - 2
  <2>1. /\ i \in 0 .. Len(f) - 1 /\ i \in Nat /\ i + 1 = Len(f)
        /\ j \in 0 .. Len(r) - 1 /\ j + 1 = Len(r) - 1
        /\ i + j = (1 + (Len(f) - 1) + (Len(r) - 1)) - 2
    BY <1>1, <1>3
  <2>2. f[i + 1] = Within(m)[i] /\ f[i + 1] = Final(f)
    BY <2>1, ForwardIsWithin DEF Final
  <2>3. Within(m)[i] \cap r[j + 1] = {}
    BY <1>3, <2>1, <2>2 DEF MeetOnlyLast
  <2> HIDE DEF i, j
  <2>4. Within(m)[i + j] \cap b = {}
    BY <2>1, <2>3, MissedRing
  <2> QED BY <2>1, <2>4 DEF Unbeaten
<1>4. CASE ~ (Len(f) > 1) /\ ~ (Len(r) > 1)
  BY <1>1, <1>4 DEF Unbeaten
<1> QED BY <1>2, <1>3, <1>4

(* A run to a bad state gets from each backward ring into the one before.  *)
LEMMA WayMeetsRings ==
    ASSUME NEW m \in Machine, NEW b, NEW r, BackwardRings(m, b, r),
           NEW e \in Nat, NEW w, w[e] \in b,
           \A t \in 0 .. e - 1 : w[t + 1] \in Image(m, {w[t]})
    PROVE  \A n \in 0 .. Len(r) - 1 : n <= e => w[e - n] \in r[n + 1]
<1> DEFINE T == {n \in Nat : n <= Len(r) - 1 /\ n <= e => w[e - n] \in r[n + 1]}
<1>1. Len(r) \in Nat
  BY BackwardLast
<1>2. 0 \in T
  <2>1. e - 0 = e /\ 0 + 1 = 1
    OBVIOUS
  <2> QED BY <2>1 DEF BackwardRings
<1>3. ASSUME NEW n \in Nat, n \in T
      PROVE  n + 1 \in T
  <2> SUFFICES ASSUME n + 1 <= Len(r) - 1, n + 1 <= e
               PROVE  w[e - (n + 1)] \in r[(n + 1) + 1]
    OBVIOUS
  <2>1. /\ n + 1 \in 1 .. Len(r) - 1 /\ n <= Len(r) - 1 /\ n <= e
        /\ e - (n + 1) \in 0 .. e - 1 /\ (e - (n + 1)) + 1 = e - n
    BY <1>1
  <2>2. w[e - n] \in r[n + 1]
    BY <1>3, <2>1
  <2>3. w[e - n] \in Image(m, {w[e - (n + 1)]})
    BY <2>1
  <2>4. w[e - (n + 1)] \in Preimage(m, {w[e - n]})
    BY <2>3, ImageIsConverse
  <2>5. w[e - (n + 1)] \in Preimage(m, r[n + 1])
    BY <2>2, <2>4, ImageOfState
  <2>6. r[(n + 1) + 1] = r[n + 1] \cup Preimage(m, r[n + 1])
    BY <2>1 DEF BackwardRings
  <2> QED BY <2>5, <2>6
<1>4. \A n \in Nat : n \in T => n + 1 \in T
  BY <1>3
<1> HIDE DEF T
<1>5. Nat \subseteq T
  BY <1>2, <1>4, SetInduction
<1> QED BY <1>1, <1>5 DEF T

(* Bounded model checking finds a shortest way across the gap: a shorter   *)
(* run to a bad state would be one that it was asked about before.         *)
LEMMA GapIsUnbeaten ==
    ASSUME Inv, SwitchToBmc, NEW p \in FirstGapPaths
    PROVE  Unbeaten(fsm, bad, Len(p) + forwardStep + backwardStep)
<1> DEFINE i == forwardStep
           j == backwardStep
           N == Len(p) + i + j
           W == Within(fsm)
<1>1. /\ fsm \in Machine /\ fsm.invar \subseteq State
      /\ fwd # << >> /\ ForwardRings(fsm, fwd) /\ BackwardRings(fsm, bad, bwd)
      /\ rfront = LastFrontier(fwd) /\ bfront = LastFrontier(bwd)
      /\ Final(fwd) \cap Final(bwd) = {} /\ pc = "search"
  BY SearchingFacts DEF SwitchToBmc, Searching
<1>2. /\ Len(fwd) \in Nat /\ Len(bwd) \in Nat
      /\ i \in Nat /\ j \in Nat /\ Len(fwd) = i + 1 /\ Len(bwd) = j + 1
      /\ i \in 0 .. Len(fwd) - 1 /\ j \in 0 .. Len(bwd) - 1
  <2>1. /\ Len(fwd) \in Nat /\ Len(fwd) > 0
        /\ Len(bwd) \in Nat /\ Len(bwd) > 0
    BY <1>1, ForwardLast, BackwardLast
  <2> QED BY <2>1 DEF forwardStep, backwardStep
<1>3. /\ \A l \in 0 .. i : fwd[l + 1] = W[l]
      /\ Final(fwd) = W[i] /\ Final(bwd) = bwd[j + 1]
  BY <1>1, <1>2, ForwardIsWithin DEF Final
<1>4. /\ p \in Seq(State) /\ Len(p) \in Nat /\ Len(p) > 0 /\ Len(p) <= MaxBmc + 1
      /\ \A q \in GapPaths : Len(p) <= Len(q)
  <2>1. p \in GapPaths
    BY DEF FirstGapPaths
  <2>2. PICK n \in 1 .. MaxBmc + 1 : p \in [1 .. n -> Allowed]
    BY <2>1 DEF GapPaths
  <2>3. n \in Nat /\ n > 0 /\ n <= MaxBmc + 1
    BY <2>2, SearchAssumption
  <2>4. p \in Seq(Allowed) /\ Len(p) = n
    BY <2>2, <2>3
  <2> QED BY <1>1, <2>1, <2>3, <2>4, GapPathFacts DEF FirstGapPaths
<1> HIDE DEF i, j, N
<1> SUFFICES ASSUME N > 1, W[N - 2] \cap bad # {}
             PROVE  FALSE
  BY DEF Unbeaten, N, i, j
<1>5. N - 2 \in Nat /\ N = Len(p) + i + j
  BY <1>2, <1>4 DEF N
<1>6. W[i + j] \cap bad = {}
  BY <1>1, <1>2, <1>3, MissedRing
<1>7. Reachable(fsm) \cap bad # {}
  BY <1>1, <1>5, ReachableIsWithin
<1>8. PICK e \in Nat : CleanBelow(fsm, bad, e) /\ \E w : Shortest(fsm, e, w) /\ w[e] \in bad
  BY <1>1, <1>7, ShortestToBad
<1>9. PICK w : Shortest(fsm, e, w) /\ w[e] \in bad
  BY <1>8
<1>10. /\ w \in [0 .. e -> State]
       /\ \A t \in 0 .. e : w[t] \in Layer(fsm, t) /\ w[t] \in W[t]
       /\ \A t \in 0 .. e - 1 : w[t + 1] \in Image(fsm, {w[t]})
  BY <1>9 DEF Shortest, Layer
<1>11. e <= N - 2
  <2>1. N - 2 \notin 0 .. e - 1
    BY <1>8 DEF CleanBelow
  <2> QED BY <1>5, <2>1
<1>12. i + j < e
  <2>1. e <= i + j => W[e] \subseteq W[i + j]
    BY <1>1, <1>2, WithinGrows
  <2>2. w[e] \in W[e]
    BY <1>10
  <2> QED BY <1>2, <1>6, <1>9, <2>1, <2>2
(* No state before w[e - j] is in a backward ring but the last.            *)
<1>13. ASSUME NEW t \in 0 .. e - j, j > 0
       PROVE  w[t] \notin bwd[j]
  <2> SUFFICES ASSUME w[t] \in bwd[j] PROVE FALSE
    OBVIOUS
  <2>1. /\ j - 1 \in 0 .. Len(bwd) - 1 /\ (j - 1) + 1 = j /\ t \in Nat /\ t \in 0 .. e
        /\ t + (j - 1) \in 0 .. e - 1
    BY <1>2, <1>12, <1>13
  <2>2. w[t] \in W[t]
    BY <1>10, <2>1
  <2>3. W[t] \cap bwd[(j - 1) + 1] # {}
    BY <2>1, <2>2
  <2>4. W[t + (j - 1)] \cap bad # {}
    BY <1>1, <2>1, <2>3, MetRing
  <2> QED BY <1>8, <2>1, <2>4 DEF CleanBelow
<1>14. w[e - j] \in bwd[j + 1]
  <2>1. j <= e
    BY <1>2, <1>12
  <2> QED BY <1>1, <1>2, <1>9, <1>10, <2>1, WayMeetsRings
<1>15. ASSUME NEW t \in i .. e - j, i > 0
       PROVE  w[t] \notin fwd[i]
  <2>1. t \in 0 .. e /\ i - 1 \in 0 .. t - 1 /\ i - 1 \in 0 .. i /\ (i - 1) + 1 = i
    BY <1>2, <1>12, <1>15
  <2>2. w[t] \in Layer(fsm, t)
    BY <1>10, <2>1
  <2>3. w[t] \notin W[i - 1]
    BY <2>1, <2>2 DEF Layer
  <2> QED BY <1>3, <2>1, <2>3
<1>16. \A t \in i .. e - j : w[t] \in Allowed
  <2> SUFFICES ASSUME NEW t \in i .. e - j PROVE w[t] \in Allowed
    OBVIOUS
  <2>1. t \in 0 .. e /\ t \in Nat /\ t \in 0 .. e - j
    BY <1>2, <1>12
  <2>2. w[t] \in fsm.invar
    BY <1>1, <1>10, <2>1, WithinType
  <2>3. w[t] \notin FinishedWith(fwd)
    <3>1. Len(fwd) > 2 => i > 0 /\ Len(fwd) - 1 = i
      BY <1>2
    <3> QED BY <1>15, <3>1 DEF FinishedWith
  <2>4. w[t] \notin FinishedWith(bwd)
    <3>1. Len(bwd) > 2 => j > 0 /\ Len(bwd) - 1 = j
      BY <1>2
    <3> QED BY <1>13, <2>1, <3>1 DEF FinishedWith
  <2> QED BY <2>2, <2>3, <2>4 DEF Allowed
<1>17. w[i] \in rfront
  <2>1. i \in 0 .. e /\ i \in i .. e - j
    BY <1>2, <1>12
  <2>2. w[i] \in Final(fwd)
    BY <1>3, <1>10, <2>1
  <2>3. Len(fwd) > 1 => i > 0 /\ Len(fwd) - 1 = i
    BY <1>2
  <2> QED BY <1>1, <1>15, <2>1, <2>2, <2>3 DEF LastFrontier
<1>18. w[e - j] \in bfront
  <2>1. e - j \in 0 .. e - j
    BY <1>2, <1>12
  <2>2. Len(bwd) > 1 => j > 0 /\ Len(bwd) - 1 = j
    BY <1>2
  <2> QED BY <1>1, <1>3, <1>13, <1>14, <2>1, <2>2 DEF LastFrontier
<1> DEFINE n == ((e - j) - i) + 1
           q == [l \in 1 .. n |-> w[(i + l) - 1]]
<1>19. /\ n \in Nat /\ n > 0 /\ n < Len(p) /\ n \in 1 .. MaxBmc + 1
       /\ \A l \in 1 .. n : (i + l) - 1 \in i .. e - j
       /\ (i + 1) - 1 = i /\ (i + n) - 1 = e - j
  BY <1>2, <1>4, <1>5, <1>11, <1>12, SearchAssumption
<1>20. q \in [1 .. n -> Allowed] /\ \A l \in 1 .. n : q[l] = w[(i + l) - 1]
  BY <1>16, <1>19
<1> HIDE DEF q, n
<1>21. Len(q) = n
  <2>1. q \in Seq(Allowed) /\ Len(q) = n
    BY <1>19, <1>20
  <2> QED BY <2>1
<1>22. q[1] \in rfront /\ q[Len(q)] \in bfront
  <2>1. 1 \in 1 .. n /\ n \in 1 .. n
    BY <1>19
  <2> QED BY <1>17, <1>18, <1>19, <1>20, <1>21, <2>1
<1>23. IsChain(fsm, q)
  <2> SUFFICES ASSUME NEW l \in 1 .. n - 1
               PROVE  q[l + 1] \in Image(fsm, {q[l]})
    BY <1>21 DEF IsChain
  <2>1. /\ l \in 1 .. n /\ l + 1 \in 1 .. n
        /\ (i + (l + 1)) - 1 = ((i + l) - 1) + 1
        /\ (i + l) - 1 \in 0 .. e - 1
    BY <1>2, <1>12, <1>19 DEF n
  <2>2. q[l] = w[(i + l) - 1] /\ q[l + 1] = w[((i + l) - 1) + 1]
    BY <1>20, <2>1
  <2>3. w[((i + l) - 1) + 1] \in Image(fsm, {w[(i + l) - 1]})
    BY <1>10, <2>1
  <2> QED BY <2>2, <2>3, Zenon
<1>24. q \in GapPaths
  BY <1>19, <1>20, <1>22, <1>23 DEF GapPaths
<1> QED BY <1>4, <1>19, <1>21, <1>24

(* The states a trace of check_invar has, or will have: each turn of the   *)
(* walk adds the one it counts off.                                        *)
Shown ==
    \/ pc = "trace"
    \/ pc \in {"store", "return"} /\ job \in Strategies /\ status = "false" /\ cex

StatesShown == Len(path) + (IF pc = "trace" THEN fleft + bleft ELSE 0)

ShortInv == Shown => Unbeaten(fsm, bad, StatesShown)

LEMMA UnbeatenPrime ==
    ASSUME UNCHANGED <<fsm, bad>>, NEW n
    PROVE  Unbeaten(fsm, bad, n)' <=> Unbeaten(fsm, bad, n)
BY DEF Unbeaten

(* The three ways a trace begins.                                          *)
LEMMA LayersShort ==
    ASSUME Inv, SearchLayers
    PROVE  ShortInv'
<1>1. /\ fsm \in Machine /\ layers # << >>
      /\ lower \in 0 .. Len(layers) - 1 /\ upper \in 0 .. Len(layers) - 1
      /\ lower < upper
  BY DEF Inv, TypeOK, LayersInv, SearchLayers
<1>2. ForwardRings(fsm, layers) /\ Len(layers) \in Nat
  BY <1>1, ForwardLast DEF Inv, CacheInv
<1>3. Middle \in Nat /\ lower < Middle /\ Middle <= upper /\ lower \in Nat /\ upper \in Nat
  <2>1. lower \in Nat /\ upper \in Nat
    BY <1>1, <1>2
  <2>2. CASE 2 <= upper - lower
    <3>1. Middle = (upper + lower) \div 2
      BY <2>2 DEF Middle
    <3> QED BY <2>1, <2>2, <3>1, Halving
  <2>3. CASE ~ (2 <= upper - lower)
    <3>1. Middle = upper
      BY <2>3 DEF Middle
    <3> QED BY <1>1, <2>1, <2>3, <3>1
  <2> QED BY <2>2, <2>3
<1>4. UNCHANGED <<fsm, bad>>
  BY DEF SearchLayers, question
<1>5. CASE FirstBuggy(Middle)
  <2>1. /\ ~ (upper - lower < 1)
        /\ Middle > 0 /\ Middle - 1 \in 0 .. Len(layers) - 1 /\ (Middle - 1) + 1 = Middle
    BY <1>1, <1>2, <1>3
  <2>2. pc' = "trace" /\ \E s : path' = <<s>> /\ fleft' = Middle /\ bleft' = 0
    BY <1>5, <2>1 DEF SearchLayers, StartPath
  <2>3. (StatesShown)' = Middle + 1
    <3>1. Len(path') = 1
      BY <2>2
    <3> QED BY <1>3, <2>2, <3>1 DEF StatesShown
  <2>4. Within(fsm)[Middle - 1] \cap bad = {}
    <3>1. layers[Middle] = Within(fsm)[Middle - 1]
      BY <1>1, <1>2, <2>1, ForwardIsWithin
    <3>2. ~ Buggy(Middle - 1)
      BY <1>5 DEF FirstBuggy
    <3> QED BY <2>1, <3>1, <3>2 DEF Buggy
  <2>5. (Middle + 1) - 2 = Middle - 1
    BY <1>3
  <2>6. Unbeaten(fsm, bad, Middle + 1)
    BY <2>4, <2>5 DEF Unbeaten
  <2> QED BY <1>4, <2>3, <2>6 DEF ShortInv, Unbeaten
<1>6. CASE ~ FirstBuggy(Middle)
  <2>1. pc' \in {"layers", "assertion"}
    BY <1>6 DEF SearchLayers
  <2> QED BY <2>1 DEF ShortInv, Shown
<1> QED BY <1>5, <1>6

LEMMA EndSearchShort ==
    ASSUME Inv, EndSearch
    PROVE  ShortInv'
<1>1. UNCHANGED <<fsm, bad>> /\ UNCHANGED cex /\ pc = "search"
  BY DEF EndSearch, question
<1>2. CASE target # {} /\ cex
  <2>1. /\ fsm \in Machine /\ fwd # << >> /\ ForwardRings(fsm, fwd)
        /\ BackwardRings(fsm, bad, bwd) /\ MeetOnlyLast(fwd, bwd)
    BY <1>1, SearchingFacts
  <2>2. Unbeaten(fsm, bad, 1 + forwardStep + backwardStep)
    BY <2>1, MeetingIsUnbeaten DEF forwardStep, backwardStep
  <2>3. /\ pc' = "trace"
        /\ \E s : path' = <<s>> /\ fleft' = forwardStep /\ bleft' = backwardStep
    BY <1>2 DEF EndSearch, StartPath
  <2>4. (StatesShown)' = 1 + forwardStep + backwardStep
    <3>1. Len(path') = 1
      BY <2>3
    <3>2. forwardStep \in Int /\ backwardStep \in Int
      BY <2>1, ForwardLast, BackwardLast DEF forwardStep, backwardStep
    <3> QED BY <2>3, <3>1, <3>2 DEF StatesShown
  <2> QED BY <1>1, <2>2, <2>4 DEF ShortInv, Unbeaten
<1>3. CASE ~ (target # {} /\ cex)
  <2>1. pc' = "store" /\ status' = (IF target # {} THEN "false" ELSE "true")
    BY <1>3 DEF EndSearch
  <2> QED BY <1>1, <1>3, <2>1 DEF ShortInv, Shown
<1> QED BY <1>2, <1>3

LEMMA BmcFalseShort ==
    ASSUME Inv, BmcFalse
    PROVE  ShortInv'
<1>1. UNCHANGED <<fsm, bad>> /\ UNCHANGED cex /\ pc = "search" /\ SwitchToBmc
  BY DEF BmcFalse, question, SwitchToBmc, Searching
<1>2. CASE cex
  <2>1. PICK p \in FirstGapPaths :
            path' = p /\ fleft' = forwardStep /\ bleft' = backwardStep
    BY <1>2 DEF BmcFalse, StartPath
  <2>2. pc' = "trace"
    BY <1>2 DEF BmcFalse
  <2>3. Unbeaten(fsm, bad, Len(p) + forwardStep + backwardStep)
    BY <1>1, GapIsUnbeaten
  <2>4. (StatesShown)' = Len(p) + forwardStep + backwardStep
    <3>1. Len(p) \in Nat
      BY <1>1, GapPathFacts DEF FirstGapPaths
    <3>2. forwardStep \in Int /\ backwardStep \in Int
      BY <1>1, SearchingFacts, ForwardLast, BackwardLast DEF forwardStep, backwardStep
    <3> QED BY <2>1, <2>2, <3>1, <3>2 DEF StatesShown
  <2> QED BY <1>1, <2>3, <2>4 DEF ShortInv, Unbeaten
<1>3. CASE ~ cex
  BY <1>1, <1>3 DEF BmcFalse, ShortInv, Shown
<1> QED BY <1>2, <1>3

(* A turn of the walk.                                                     *)
LEMMA WalkShort ==
    ASSUME Inv, ShortInv, FollowBackwardList \/ FollowForwardList
    PROVE  ShortInv'
<1>1. pc = "trace" /\ UNCHANGED <<fsm, bad>>
  BY DEF FollowBackwardList, FollowForwardList, question
<1>2. path \in Seq(State) /\ Len(path) \in Nat /\ fleft \in Nat /\ bleft \in Nat
  BY <1>1, TraceFacts
<1>3. CASE pc' # "trace"
  <2>1. pc' = "error"
    BY <1>1, <1>3 DEF FollowBackwardList, FollowForwardList
  <2> QED BY <2>1 DEF ShortInv, Shown
<1>4. CASE pc' = "trace"
  <2>1. Len(path') + (fleft' + bleft') = Len(path) + (fleft + bleft)
    <3>1. CASE FollowBackwardList
      <4>1. PICK s : path' = Append(path, s) /\ fleft' = fleft /\ bleft' = bleft - 1
        BY <1>4, <3>1 DEF FollowBackwardList, StartPath
      <4>2. Len(path') = Len(path) + 1
        BY <1>2, <4>1
      <4> QED BY <1>2, <4>1, <4>2
    <3>2. CASE FollowForwardList
      <4>1. PICK s \in Preimage(fsm, {path[1]}) :
                path' = <<s>> \o path /\ fleft' = fleft - 1 /\ bleft' = 0 /\ bleft = 0
        BY <1>4, <3>2 DEF FollowForwardList, StartPath
      <4>2. s \in State
        BY <1>1, ImageType, TraceFacts
      <4>3. Len(path') = Len(path) + 1
        BY <1>2, <4>1, <4>2, ConsFacts
      <4> QED BY <1>2, <4>1, <4>3
    <3> QED BY <3>1, <3>2
  <2>2. (StatesShown)' = StatesShown
    BY <1>1, <1>4, <2>1 DEF StatesShown
  <2>3. Unbeaten(fsm, bad, StatesShown)
    BY <1>1 DEF ShortInv, Shown
  <2> QED BY <1>1, <2>2, <2>3 DEF ShortInv, Unbeaten
<1> QED BY <1>3, <1>4

LEMMA EndShort ==
    ASSUME Inv, ShortInv, EndTrace \/ StoreLayers \/ UNCHANGED vars
    PROVE  ShortInv'
<1>1. UNCHANGED <<fsm, bad, job, cex, path, fleft, bleft>>
  BY DEF EndTrace, StoreLayers, vars, question, walk
<1>2. /\ Shown' => Shown
      /\ Shown => (StatesShown)' = StatesShown
  <2>1. CASE EndTrace
    <3>1. /\ pc = "trace" /\ pc' = "store" /\ fleft = 0 /\ bleft = 0
          /\ Len(path) \in Nat
      BY <2>1, TraceFacts DEF EndTrace
    <3> QED BY <1>1, <3>1 DEF Shown, StatesShown
  <2>2. CASE StoreLayers
    BY <1>1, <2>2 DEF StoreLayers, Shown, StatesShown
  <2>3. CASE UNCHANGED vars
    BY <2>3 DEF vars, question, walk, Shown, StatesShown
  <2> QED BY <2>1, <2>2, <2>3
<1> QED BY <1>1, <1>2 DEF ShortInv, Unbeaten

(* A bad initial state is a trace of its own.                              *)
LEMMA InitialShort ==
    ASSUME Inv, BugInInitialState
    PROVE  ShortInv'
<1>1. /\ pc' = "return" /\ cex' = cex
      /\ \E s : path' = IF cex THEN <<s>> ELSE << >>
  BY DEF BugInInitialState, question
<1>2. cex => (StatesShown)' = 1
  BY <1>1 DEF StatesShown
<1> QED BY <1>1, <1>2 DEF ShortInv, Shown, Unbeaten

(* The other steps show nothing.                                           *)
LEMMA NothingShown ==
    ASSUME Inv,
           \/ Command \/ Interrupt \/ Return
           \/ BugInCachedLayers \/ AlreadyComplete \/ BeginSearch
           \/ ForwardStep \/ BackwardStep \/ BmcTrue \/ BmcUnknown
           \/ ExpandStep \/ ExpandEnd
           \/ AgTrue \/ AgFalse \/ AgTraceStep \/ AgTraceEnd
    PROVE  ShortInv'
<1>1. ASSUME Command \/ Interrupt \/ Return
      PROVE  ~ Shown'
  <2>1. \/ pc' \in {"prompt", "start", "expand", "ag"}
        \/ pc' = "return" /\ job' = "expand"
    BY <1>1 DEF Command, CheckInvar, CheckAG, ComputeReachable, Interrupt, Return,
                ForgetCommand
  <2> QED BY <2>1 DEF Shown, Strategies
<1>2. ASSUME \/ BugInCachedLayers \/ AlreadyComplete \/ BeginSearch
             \/ ForwardStep \/ BackwardStep \/ BmcTrue \/ BmcUnknown
      PROVE  ~ Shown'
  <2>1. \/ pc' \in {"layers", "search"}
        \/ ~ cex'
        \/ pc' \in {"return", "store"} /\ status' \in {"true", "unknown"}
    BY <1>2 DEF BugInCachedLayers, AlreadyComplete, BeginSearch, ForwardStep,
                BackwardStep, BmcTrue, BmcUnknown, Searching, SwitchToBmc, question
  <2>2. pc' # "trace"
    BY <1>2 DEF BugInCachedLayers, AlreadyComplete, BeginSearch, ForwardStep,
                BackwardStep, BmcTrue, BmcUnknown, Searching, SwitchToBmc
  <2> QED BY <2>1, <2>2 DEF Shown
<1>3. ASSUME \/ ExpandStep \/ ExpandEnd
             \/ AgTrue \/ AgFalse \/ AgTraceStep \/ AgTraceEnd
      PROVE  ~ Shown'
  <2>1. job' = job /\ pc \in {"expand", "ag", "agtrace"}
        /\ pc' \in {"expand", "ag", "agtrace", "return", "assertion"}
    BY <1>3 DEF ExpandStep, ExpandEnd, AgTrue, AgFalse, AgTraceStep, AgTraceEnd, question
  <2>2. job \in {"expand", "ag"}
    BY <2>1 DEF Inv, JobInv
  <2> QED BY <2>1, <2>2 DEF Shown, Strategies
<1> QED BY <1>1, <1>2, <1>3 DEF ShortInv

LEMMA ShortKept ==
    ASSUME Inv, ShortInv, [Next]_vars
    PROVE  ShortInv'
BY LayersShort, EndSearchShort, BmcFalseShort, WalkShort, EndShort, InitialShort,
   NothingShown DEF Next, Work

(* The trace check_invar shows is a run from an initial to a bad state, and*)
(* none is shorter, whatever the strategy and the cache.  (TraceIsShortest)*)
THEOREM TraceAlwaysShortest == Spec => []TraceIsShortest
<1>1. Init => ShortInv
  BY DEF Init, ShortInv, Shown
<1>2. Inv /\ ShortInv /\ [Next]_vars => ShortInv'
  BY ShortKept
<1>3. Inv /\ ShortInv => TraceIsShortest
  BY DEF Inv, PathInv, ShortInv, Shown, StatesShown, Unbeaten, TraceIsShortest
<1> QED BY <1>1, <1>2, <1>3, InvariantHolds, PTL DEF Spec

-----------------------------------------------------------------------------
(* No step loses what is cached.                                           *)
Remembers ==
    layers # << >> => /\ layers' # << >>
                      /\ Final(layers) \subseteq Final(layers')
                      /\ computed => computed'

LEMMA StoreRemembers ==
    ASSUME Inv, StoreLayers
    PROVE  Remembers
<1>1. \/ forwardStep > Len(layers) /\ layers' = fwd
      \/ UNCHANGED <<layers, computed>>
  BY DEF StoreLayers, cache
<1>2. pc = "store"
  BY DEF StoreLayers
<1>3. CASE forwardStep > Len(layers) /\ layers' = fwd
  BY <1>2, <1>3 DEF Inv, StoreInv, Keeps, Remembers
<1>4. CASE UNCHANGED <<layers, computed>>
  BY <1>4 DEF Remembers
<1> QED BY <1>1, <1>3, <1>4

LEMMA StepRemembers ==
    ASSUME Inv, [Next]_vars
    PROVE  Remembers
<1>1. CASE UNCHANGED <<layers, computed>>
  BY <1>1 DEF Remembers
<1>2. CASE BugInInitialState
  BY <1>2 DEF BugInInitialState, cache, Remembers
<1>3. CASE StoreLayers
  BY <1>3, StoreRemembers
<1>4. CASE ExpandEnd
  BY <1>4, ExpandResult DEF Keeps, Remembers
<1>5. \/ UNCHANGED <<layers, computed>>
      \/ BugInInitialState \/ StoreLayers \/ ExpandEnd
  <2>1. Command => UNCHANGED <<layers, computed>>
    BY DEF Command, CheckInvar, CheckAG, ComputeReachable, cache
  <2>2. Interrupt \/ Return \/ UNCHANGED vars => UNCHANGED <<layers, computed>>
    BY DEF Interrupt, Return, ForgetCommand, vars, cache
  <2>3. \/ BugInCachedLayers \/ SearchLayers \/ AlreadyComplete \/ BeginSearch
        \/ ForwardStep \/ BackwardStep \/ EndSearch
        \/ BmcTrue \/ BmcUnknown \/ BmcFalse
        => UNCHANGED <<layers, computed>>
    BY DEF BugInCachedLayers, SearchLayers, AlreadyComplete, BeginSearch, ForwardStep,
           BackwardStep, EndSearch, BmcTrue, BmcUnknown, BmcFalse, cache
  <2>4. \/ FollowBackwardList \/ FollowForwardList \/ EndTrace \/ ExpandStep
        \/ AgTrue \/ AgFalse \/ AgTraceStep \/ AgTraceEnd
        => UNCHANGED <<layers, computed>>
    BY DEF FollowBackwardList, FollowForwardList, EndTrace, ExpandStep, AgTrue, AgFalse,
           AgTraceStep, AgTraceEnd, cache
  <2> QED BY <2>1, <2>2, <2>3, <2>4 DEF Next, Work
<1> QED BY <1>1, <1>2, <1>3, <1>4, <1>5

(* No command and no interrupt loses reachable states that are cached.     *)
THEOREM CacheNeverForgotten == Spec => NeverForgets
<1>1. Inv /\ [Next]_vars => Remembers
  BY StepRemembers
<1>2. Inv /\ [Next]_vars =>
          [layers # << >> => /\ layers' # << >>
                             /\ Final(layers) \subseteq Final(layers')
                             /\ computed => computed']_vars
  BY <1>1 DEF Remembers
<1> QED BY <1>2, InvariantHolds, PTL DEF Spec, NeverForgets

-----------------------------------------------------------------------------
(* InvarCheck answers like InvarOracle: the safety half of the refinement. *)
LEMMA SameReachable == \A m : Oracle!Reachable(m) = Reachable(m)
BY DEF Oracle!Reachable, Oracle!InitStates, Oracle!Closed, Oracle!Image,
       Reachable, InitStates, Closed, Image

Asking == job \in Strategies \cup {"ag"}

(* A walk along the rings is not begun with an open answer.                *)
WalkIsSure == pc = "trace" => status # "unknown"

(* What a step may do to the verdict of the question it works on.          *)
Answers ==
    \/ status' = status
    \/ /\ status = "none" /\ Asking
       /\ status' \in {"true", "false"} \/ (job = "bdd-bmc" /\ status' = "unknown")

OracleStep == [Oracle!Next]_(Oracle!vars)

LEMMA AnswerStep ==
    ASSUME Inv, Inv', UNCHANGED <<fsm, job, bad>>, Answers
    PROVE  OracleStep
<1>1. CASE status' = status
  BY <1>1 DEF OracleStep, Oracle!vars
<1>2. CASE /\ status = "none" /\ Asking
           /\ status' \in {"true", "false"} \/ (job = "bdd-bmc" /\ status' = "unknown")
  <2>1. /\ status' = "true" => Reachable(fsm) \cap bad = {}
        /\ status' = "false" => Reachable(fsm) \cap bad # {}
    BY DEF Inv, VerdictInv, VerdictIsRight
  <2>2. /\ status' = "true" => Oracle!Reachable(fsm) \cap bad = {}
        /\ status' = "false" => Oracle!Reachable(fsm) \cap bad # {}
    BY <2>1, SameReachable
  <2>3. Oracle!Answer
    BY <1>2, <2>2 DEF Oracle!Answer, Oracle!RightAnswers, Asking
  <2> QED BY <2>3 DEF OracleStep, Oracle!Next
<1> QED BY <1>1, <1>2 DEF Answers

LEMMA WalkStaysSure ==
    ASSUME Inv, WalkIsSure, [Next]_vars
    PROVE  WalkIsSure'
<1>1. CASE UNCHANGED <<pc, status>> \/ pc' # "trace"
  BY <1>1 DEF WalkIsSure
<1>2. Command \/ Interrupt \/ Return => pc' # "trace"
  BY DEF Command, CheckInvar, CheckAG, ComputeReachable, Interrupt, Return, ForgetCommand
<1>3. /\ BugInInitialState \/ BugInCachedLayers \/ AlreadyComplete \/ BeginSearch
            => pc' # "trace"
      /\ BmcTrue \/ BmcUnknown \/ EndTrace \/ StoreLayers \/ ExpandEnd => pc' # "trace"
      /\ AgTrue \/ AgFalse \/ AgTraceEnd => pc' # "trace"
  BY DEF BugInInitialState, BugInCachedLayers, AlreadyComplete, BeginSearch, BmcTrue,
         BmcUnknown, EndTrace, StoreLayers, ExpandEnd, AgTrue, AgFalse, AgTraceEnd
<1>4. /\ ForwardStep \/ BackwardStep \/ ExpandStep => UNCHANGED <<pc, status>>
      /\ FollowBackwardList \/ FollowForwardList \/ AgTraceStep
            => UNCHANGED <<pc, status>> \/ pc' # "trace"
  BY DEF ForwardStep, BackwardStep, ExpandStep, FollowBackwardList, FollowForwardList,
         AgTraceStep, question
<1>5. SearchLayers => status' = "none"
  BY DEF SearchLayers, Inv, JobInv
<1>6. EndSearch => pc' # "trace" \/ status' = "false"
  BY DEF EndSearch
<1>7. BmcFalse => status' = "false"
  BY DEF BmcFalse
<1>8. CASE SearchLayers \/ EndSearch \/ BmcFalse
  BY <1>5, <1>6, <1>7, <1>8 DEF WalkIsSure
<1>9. UNCHANGED vars => UNCHANGED <<pc, status>>
  BY DEF vars
<1> QED BY <1>1, <1>2, <1>3, <1>4, <1>8, <1>9 DEF Next, Work

LEMMA CommandStep ==
    ASSUME Inv, Command
    PROVE  OracleStep
<1>1. pc = "prompt" => job = "idle" /\ status = "none"
  BY DEF Inv, JobInv
<1>2. ASSUME NEW b \in SUBSET fsm.invar, NEW wantCex, NEW st \in Strategy,
             CheckInvar(st, b, wantCex)
      PROVE  Oracle!Ask
  <2>1. job = "idle" /\ job' = st /\ bad' = b /\ UNCHANGED <<fsm, status>> /\ st \in Strategies
    BY <1>1, <1>2, SearchAssumption DEF CheckInvar
  <2> QED BY <2>1 DEF Oracle!Ask, Strategies
<1>3. ASSUME NEW b \in SUBSET fsm.invar, NEW wantCex, CheckAG(b, wantCex)
      PROVE  Oracle!Ask
  <2>1. job = "idle" /\ job' = "ag" /\ bad' = b /\ UNCHANGED <<fsm, status>>
    BY <1>1, <1>3 DEF CheckAG
  <2> QED BY <2>1 DEF Oracle!Ask, Strategies
<1>4. ASSUME NEW hasLimit, ComputeReachable(hasLimit)
      PROVE  UNCHANGED Oracle!vars
  <2>1. job = "idle" /\ job' = "expand" /\ UNCHANGED <<fsm, status, bad>>
    BY <1>1, <1>4 DEF ComputeReachable
  <2> QED BY <2>1 DEF Oracle!vars, Strategies
<1> QED BY <1>2, <1>3, <1>4 DEF Command, OracleStep, Oracle!Next

LEMMA ForgetStep ==
    ASSUME Inv, Return \/ Interrupt
    PROVE  OracleStep
<1>1. job' = "idle" /\ status' = "none" /\ UNCHANGED fsm
  BY DEF Return, Interrupt, ForgetCommand
<1>2. pc \in Stages \ {"prompt", "error", "assertion"}
  BY DEF Inv, TypeOK, Return, Interrupt, Stages
<1>3. job \in Strategies \cup {"ag"} \/ (job = "expand" /\ status = "none")
  BY <1>2 DEF Inv, TypeOK, JobInv, Checking, Stages
<1>4. CASE job \in Strategies \cup {"ag"}
  BY <1>1, <1>4 DEF OracleStep, Oracle!Next, Oracle!Forget, Strategies
<1>5. CASE job = "expand" /\ status = "none"
  BY <1>1, <1>5 DEF OracleStep, Oracle!vars, Strategies
<1> QED BY <1>3, <1>4, <1>5

(* The other steps work on a question, and may answer it.                  *)
LEMMA WorkAnswers ==
    ASSUME Inv, WalkIsSure, Work, ~ Return
    PROVE  UNCHANGED <<fsm, job, bad>> /\ Answers
<1>1. /\ UNCHANGED <<fsm, job, bad>>
  <2>1. \/ BugInInitialState \/ BugInCachedLayers \/ SearchLayers \/ AlreadyComplete
        \/ BeginSearch \/ ForwardStep \/ BackwardStep \/ EndSearch
        => UNCHANGED <<fsm, job, bad>>
    BY DEF BugInInitialState, BugInCachedLayers, SearchLayers, AlreadyComplete, BeginSearch,
           ForwardStep, BackwardStep, EndSearch, question
  <2>2. \/ BmcTrue \/ BmcUnknown \/ BmcFalse
        \/ FollowBackwardList \/ FollowForwardList \/ EndTrace \/ StoreLayers
        => UNCHANGED <<fsm, job, bad>>
    BY DEF BmcTrue, BmcUnknown, BmcFalse, FollowBackwardList, FollowForwardList, EndTrace,
           StoreLayers, question
  <2>3. ExpandStep \/ ExpandEnd \/ AgTrue \/ AgFalse \/ AgTraceStep \/ AgTraceEnd
        => UNCHANGED <<fsm, job, bad>>
    BY DEF ExpandStep, ExpandEnd, AgTrue, AgFalse, AgTraceStep, AgTraceEnd, question
  <2> QED BY <2>1, <2>2, <2>3 DEF Work
<1>2. /\ pc \in {"start", "search"} => status = "none" /\ job \in Strategies
      /\ pc \in {"ag", "agtrace"} => status = "none" /\ job = "ag"
      /\ pc = "trace" => job \in Strategies /\ status \in {"none", "false"}
  <2>1. pc = "trace" => status \in {"none", "false"}
    BY DEF Inv, TypeOK, VerdictInv, VerdictIsRight, WalkIsSure
  <2> QED BY <2>1 DEF Inv, JobInv, Checking
<1>3. BugInInitialState \/ BugInCachedLayers \/ AlreadyComplete
        => pc = "start" /\ (status' \in {"true", "false"} \/ status' = status)
  BY DEF BugInInitialState, BugInCachedLayers, AlreadyComplete
<1>4. EndSearch \/ BmcTrue \/ BmcFalse => pc = "search" /\ status' \in {"true", "false"}
  BY DEF EndSearch, BmcTrue, BmcFalse, SwitchToBmc, Searching
<1>5. BmcUnknown => pc = "search" /\ job = "bdd-bmc" /\ status' = "unknown"
  BY DEF BmcUnknown, SwitchToBmc, Searching
<1>6. EndTrace => pc = "trace" /\ status' = "false"
  BY DEF EndTrace
<1>7. AgTrue \/ AgFalse \/ AgTraceEnd
        => pc \in {"ag", "agtrace"} /\ (status' \in {"true", "false"} \/ status' = status)
  BY DEF AgTrue, AgFalse, AgTraceEnd
<1>8. \/ SearchLayers \/ BeginSearch \/ ForwardStep \/ BackwardStep
      \/ FollowBackwardList \/ FollowForwardList \/ StoreLayers
      \/ ExpandStep \/ ExpandEnd \/ AgTraceStep
      => status' = status
  BY DEF SearchLayers, BeginSearch, ForwardStep, BackwardStep, FollowBackwardList,
         FollowForwardList, StoreLayers, ExpandStep, ExpandEnd, AgTraceStep
<1>9. Answers
  BY <1>2, <1>3, <1>4, <1>5, <1>6, <1>7, <1>8 DEF Work, Answers, Asking
<1> QED BY <1>1, <1>9

(* Every behaviour of the checks is one of the oracle, but for its         *)
(* liveness: whatever the cache holds, a question is answered at most once,*)
(* with the answer it would get from a fresh program.                      *)
THEOREM ImplementsOracle == Spec => Oracle!OInit /\ [][Oracle!Next]_(Oracle!vars)
<1>1. Init => WalkIsSure /\ Oracle!OInit
  BY DEF Init, WalkIsSure, Oracle!OInit, Strategies
<1>2. Inv /\ WalkIsSure /\ [Next]_vars => WalkIsSure'
  BY WalkStaysSure
<1>3. ASSUME Inv, Inv', WalkIsSure, [Next]_vars
      PROVE  OracleStep
  <2>1. CASE Command
    BY <1>3, <2>1, CommandStep
  <2>2. CASE Return \/ Interrupt
    BY <1>3, <2>2, ForgetStep
  <2>3. CASE Work /\ ~ Return
    BY <1>3, <2>3, WorkAnswers, AnswerStep
  <2>4. CASE UNCHANGED vars
    BY <2>4 DEF OracleStep, vars, question, Oracle!vars
  <2> QED BY <1>3, <2>1, <2>2, <2>3, <2>4 DEF Next
<1> QED BY <1>1, <1>2, <1>3, InvariantHolds, PTL DEF Spec, OracleStep
=============================================================================
