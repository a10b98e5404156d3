---------------------------- MODULE NextCE_proofs ----------------------------
(***************************************************************************)
(* What holds of every session, whatever the model, the number of          *)
(* properties, the classes used and the moments of the interrupts:         *)
(*   - its types, and what the trace of a property is;                     *)
(*   - "No more counterexamples" is never said too early, and under which  *)
(*     conditions no session dies or fails;                                *)
(*   - no counter-example is shown twice, and the session implements       *)
(*     CeEnumeration for every property, if the user is careful and the    *)
(*     classes suit the model (CarefulUser and SelfExcluding below; the    *)
(*     run NextCE_two_initial shows what happens without).                 *)
(***************************************************************************)
EXTENDS NextCE, FiPath_proofs

-----------------------------------------------------------------------------
(* The inductive invariant behind TypeOK and AnchorIsCex.  A disjunct is a *)
(* path only if the trace it is built from violates the invariant, so the  *)
(* types depend on AnchorIsCex; and that depends on the trace which a      *)
(* command in execution is about to hand to its property.                  *)
NewTraceIsCex ==
    newTrace # 0 => newTrace <= Len(traces) /\ Violates(Inv[cur], traces[newTrace])

IdleIsClean == cmd = "idle" => newTrace = 0 /\ stage = "prepare"

SessionInv == TypeOK /\ AnchorIsCex /\ NewTraceIsCex /\ IdleIsClean

-----------------------------------------------------------------------------
(* Every trace stored is a path, so a sequence of states.                  *)
LEMMA StoredTraceType ==
    ASSUME TypeOK, NEW i \in 1 .. Len(traces)
    PROVE  traces[i] \in Seq(State)
<1>1. traces[i] \in Cex \cup OtherTrace
  BY DEF TypeOK
<1> QED  BY <1>1, SessionAssumption DEF IsPath

(* generate_disjunc is given a trace from which create_fipath makes a path.*)
LEMMA NewDisjunctType ==
    ASSUME TypeOK, AnchorIsCex,
           NEW p \in Prop, ptrace[p] # 0, eqClass \in EqClass
    PROVE  NewDisjunct(p) \in DisjunctType
<1>1. ptrace[p] \in 1 .. Len(traces)
  <2>1. ptrace[p] \in 0 .. Len(traces)
    BY DEF TypeOK, Indices
  <2>2. Len(traces) \in Nat
    BY DEF TypeOK
  <2> HIDE DEF TypeOK
  <2> QED  BY <2>1, <2>2
<1>2. AnchorOf(p) \in Seq(State) /\ Violates(Inv[p], AnchorOf(p))
  BY <1>1, StoredTraceType DEF AnchorOf, AnchorIsCex
<1>3. Fipath(Inv[p], AnchorOf(p)) \in Seq(State)
  BY <1>2, FipathProperties
<1> QED  BY <1>3 DEF NewDisjunct, Disjunct, DisjunctType

-----------------------------------------------------------------------------
LEMMA FirstProp == NProps \in Nat /\ NProps >= 1 /\ 0 \in Prop /\ NProps - 1 \in Prop
BY SessionAssumption DEF Prop

(* The type of the variables that say where a command is.                  *)
ControlOK ==
    /\ cmd \in Commands \cup {"idle", "dead"}
    /\ cur \in Prop /\ last \in Prop /\ cur <= last
    /\ stage \in Stages
    /\ target \in [self : BOOLEAN, disjuncts : Seq(DisjunctType)]
    /\ result \in {"Unchecked", "True", "False"}
    /\ failed \in BOOLEAN

(* The type of the data.                                                   *)
DataOK ==
    /\ status \in [Prop -> {"Unchecked", "True", "False"}]
    /\ ptrace \in [Prop -> Indices]
    /\ nextce \in [Prop -> [status : NextCEStatus, disjuncts : Seq(DisjunctType)]]
    /\ traces \in Seq(Cex \cup OtherTrace)
    /\ eqClass \in 1 .. 5
    /\ cexOn \in BOOLEAN
    /\ newTrace \in Indices
    /\ shown \in [Prop -> Seq(Cex)]

LEMMA TypeOKParts == TypeOK <=> ControlOK /\ DataOK
BY DEF TypeOK, ControlOK, DataOK

LEMMA NoTargetType == NoTarget \in [self : BOOLEAN, disjuncts : Seq(DisjunctType)]
BY DEF NoTarget

LEMMA ToPromptType ==
    ASSUME ToPrompt, failed' \in BOOLEAN
    PROVE  ControlOK' /\ newTrace' = 0 /\ stage' = "prepare" /\ cmd' = "idle"
BY FirstProp, NoTargetType DEF ToPrompt, ControlOK, Stages, Commands

LEMMA AdvanceType ==
    ASSUME ControlOK, Advance, Busy
    PROVE  ControlOK' /\ newTrace' = 0 /\ stage' = "prepare"
<1>1. CASE AtLast /\ ToPrompt
  BY <1>1, ToPromptType DEF Advance, ControlOK
<1>2. CASE ~ AtLast
  <2>1. cur \in Int /\ last \in 0 .. NProps - 1 /\ cur <= last /\ cur # last /\ cur >= 0
    BY <1>2, FirstProp DEF ControlOK, AtLast, Prop
  <2>2. cur' \in Prop /\ last' \in Prop /\ cur' <= last'
    BY <1>2, <2>1, FirstProp DEF Advance, NextProp, Prop
  <2> QED  BY <1>2, <2>2, NoTargetType DEF Advance, ControlOK, Stages
<1> QED  BY <1>1, <1>2 DEF Advance

(* Whichever way an action ends, the traces a property and a command refer *)
(* to are left where they were.                                            *)
LEMMA SameTraces ==
    ASSUME SessionInv, UNCHANGED <<ptrace, traces>>,
           newTrace' = 0 \/ UNCHANGED <<newTrace, cur>>
    PROVE  AnchorIsCex' /\ NewTraceIsCex' /\ newTrace' \in Indices'
BY DEF SessionInv, AnchorIsCex, NewTraceIsCex, Indices, TypeOK

(* Storing one more trace does not disturb the others.                     *)
LEMMA MoreTraces ==
    ASSUME SessionInv, NEW t \in Cex \cup OtherTrace, traces' = Append(traces, t),
           UNCHANGED <<ptrace, cur>>,
           newTrace' = newTrace \/ (newTrace' = Len(traces) + 1 /\ Violates(Inv[cur], t))
    PROVE  /\ traces' \in Seq(Cex \cup OtherTrace)
           /\ ptrace' \in [Prop -> Indices'] /\ newTrace' \in Indices'
           /\ AnchorIsCex' /\ NewTraceIsCex'
<1>1. traces \in Seq(Cex \cup OtherTrace) /\ Len(traces) \in Nat
  BY DEF SessionInv, TypeOK
<1>2. /\ traces' \in Seq(Cex \cup OtherTrace)
      /\ Len(traces') = Len(traces) + 1
      /\ traces'[Len(traces) + 1] = t
      /\ \A i \in 1 .. Len(traces) : traces'[i] = traces[i]
  BY <1>1
<1>3. Indices \subseteq Indices' /\ Len(traces) + 1 \in Indices'
  BY <1>1, <1>2 DEF Indices
<1>4. ptrace' \in [Prop -> Indices'] /\ newTrace' \in Indices'
  BY <1>3 DEF SessionInv, TypeOK
<1>5. AnchorIsCex'
  <2>1. ptrace \in [Prop -> 0 .. Len(traces)] /\ AnchorIsCex
    BY DEF SessionInv, TypeOK, Indices
  <2>2. \A i \in 0 .. Len(traces) : i # 0 => i \in 1 .. Len(traces) /\ traces'[i] = traces[i]
    BY <1>1, <1>2
  <2> QED  BY <1>1, <2>1, <2>2 DEF AnchorIsCex
<1>6. NewTraceIsCex'
  <2>1. newTrace \in 0 .. Len(traces) /\ NewTraceIsCex
    BY DEF SessionInv, TypeOK, Indices
  <2>2. CASE newTrace' = newTrace
    <3>1. newTrace # 0 => newTrace \in 1 .. Len(traces) /\ traces'[newTrace] = traces[newTrace]
      BY <1>1, <1>2, <2>1
    <3> QED  BY <1>1, <1>2, <2>1, <2>2, <3>1 DEF NewTraceIsCex
  <2>3. CASE newTrace' = Len(traces) + 1 /\ Violates(Inv[cur], t)
    BY <1>1, <1>2, <2>3 DEF NewTraceIsCex
  <2> QED  BY <2>2, <2>3
<1> QED  BY <1>2, <1>4, <1>5, <1>6

(* The traces stored stay where they are.                                  *)
TracesKept == \A i \in 1 .. Len(traces) : traces'[i] = traces[i]

LEMMA KeptIfUnchanged == traces' = traces => TracesKept
BY DEF TracesKept

LEMMA KeptIfAppended ==
    ASSUME TypeOK, NEW t, t \in Cex \cup OtherTrace, traces' = Append(traces, t)
    PROVE  TracesKept
BY DEF TypeOK, TracesKept

LEMMA AdvancePrepares == Advance => stage' = "prepare"
BY DEF Advance, ToPrompt

-----------------------------------------------------------------------------
LEMMA InitSession == Init => SessionInv
<1> SUFFICES ASSUME Init PROVE SessionInv
  OBVIOUS
<1>1. traces \in Seq(Cex \cup OtherTrace) /\ Len(traces) = 0
  BY DEF Init
<1>2. ControlOK
  <2>1. cur = 0 /\ last = 0 /\ cur <= last
    BY DEF Init
  <2>2. cmd = "idle" /\ stage \in Stages /\ target = NoTarget
    BY DEF Init, Stages
  <2>3. result \in {"Unchecked", "True", "False"} /\ failed \in BOOLEAN
    BY DEF Init
  <2> QED  BY <2>1, <2>2, <2>3, FirstProp, NoTargetType DEF ControlOK
<1>3. DataOK
  <2>1. NoNextCE \in [status : NextCEStatus, disjuncts : Seq(DisjunctType)]
    BY DEF NoNextCE, NextCEStatus
  <2>2. eqClass \in 1 .. 5
    BY SessionAssumption DEF Init
  <2>3. ptrace \in [Prop -> Indices] /\ newTrace \in Indices
    BY <1>1 DEF Init, Indices
  <2>4. shown \in [Prop -> Seq(Cex)]
    BY DEF Init
  <2>5. nextce \in [Prop -> [status : NextCEStatus, disjuncts : Seq(DisjunctType)]]
    BY <2>1 DEF Init
  <2>6. status \in [Prop -> {"Unchecked", "True", "False"}] /\ cexOn \in BOOLEAN
    BY DEF Init
  <2> QED  BY <1>1, <2>2, <2>3, <2>4, <2>5, <2>6 DEF DataOK
<1>4. AnchorIsCex /\ NewTraceIsCex /\ IdleIsClean
  BY DEF Init, AnchorIsCex, NewTraceIsCex, IdleIsClean
<1> QED  BY <1>2, <1>3, <1>4, TypeOKParts DEF SessionInv

-----------------------------------------------------------------------------
(* The user's commands.                                                    *)
LEMMA UserSession ==
    ASSUME SessionInv, User
    PROVE  SessionInv'
<1> USE DEF SessionInv
<1>1. ControlOK /\ DataOK
  BY TypeOKParts
<1>2. SUFFICES ControlOK' /\ DataOK' /\ AnchorIsCex' /\ NewTraceIsCex' /\ IdleIsClean'
  BY TypeOKParts DEF TypeOK, ControlOK, DataOK
<1>3. ASSUME NEW c \in Commands, NEW first \in Prop, NEW end \in Prop,
             StartCommand(c, first, end)
      PROVE  ControlOK' /\ DataOK' /\ AnchorIsCex' /\ NewTraceIsCex' /\ IdleIsClean'
  <2>1. first <= end
    BY <1>3, FirstProp DEF StartCommand, Addressed, Prop
  <2>2. ControlOK'
    BY <1>1, <1>3, <2>1 DEF StartCommand, ControlOK
  <2>3. DataOK'
    BY <1>1, <1>3 DEF StartCommand, DataOK, data, options, Indices
  <2>4. newTrace' = 0
    BY <1>3 DEF StartCommand, IdleIsClean
  <2>5. AnchorIsCex' /\ NewTraceIsCex'
    BY <1>3, <2>4, SameTraces DEF StartCommand, data
  <2>6. IdleIsClean'
    BY <1>3 DEF StartCommand, IdleIsClean, Commands
  <2> QED  BY <2>2, <2>3, <2>5, <2>6
<1>4. ASSUME UNCHANGED <<status, ptrace, traces, cexOn, control>>,
             nextce' \in [Prop -> [status : NextCEStatus, disjuncts : Seq(DisjunctType)]],
             shown' \in [Prop -> Seq(Cex)],
             eqClass' \in 1 .. 5
      PROVE  ControlOK' /\ DataOK' /\ AnchorIsCex' /\ NewTraceIsCex' /\ IdleIsClean'
  <2>1. UNCHANGED <<cmd, cur, last, stage, target, result, newTrace, failed>>
    BY <1>4 DEF control
  <2>2. ControlOK' /\ IdleIsClean'
    BY <1>1, <2>1 DEF ControlOK, IdleIsClean
  <2>3. DataOK'
    BY <1>1, <1>4, <2>1 DEF DataOK, Indices
  <2>4. AnchorIsCex' /\ NewTraceIsCex'
    BY <1>4, <2>1, SameTraces
  <2> QED  BY <2>2, <2>3, <2>4
<1>5. ASSUME NEW p \in Prop
      PROVE  ResetOf(nextce[p]) \in [status : NextCEStatus,
                                    disjuncts : Seq(DisjunctType)]
  <2>1. nextce[p] \in [status : NextCEStatus, disjuncts : Seq(DisjunctType)]
    BY <1>1 DEF DataOK
  <2>2. "Reset" \in NextCEStatus /\ << >> \in Seq(DisjunctType)
    BY DEF NextCEStatus
  <2> QED  BY <2>1, <2>2 DEF ResetOf
<1>6. ASSUME NEW first \in Prop, NEW end \in Prop, ResetCE(first, end)
      PROVE  ControlOK' /\ DataOK' /\ AnchorIsCex' /\ NewTraceIsCex' /\ IdleIsClean'
  <2>1. nextce' \in [Prop -> [status : NextCEStatus, disjuncts : Seq(DisjunctType)]]
    BY <1>1, <1>5, <1>6 DEF ResetCE, DataOK
  <2>2. shown' \in [Prop -> Seq(Cex)]
    BY <1>1, <1>6 DEF ResetCE, DataOK
  <2> QED  BY <1>1, <1>4, <1>6, <2>1, <2>2 DEF ResetCE, DataOK, options
<1>7. ASSUME NEW c \in Class, SetEquivalence(c)
      PROVE  ControlOK' /\ DataOK' /\ AnchorIsCex' /\ NewTraceIsCex' /\ IdleIsClean'
  <2>1. nextce' \in [Prop -> [status : NextCEStatus, disjuncts : Seq(DisjunctType)]]
    BY <1>5, <1>7 DEF SetEquivalence
  <2>2. shown' \in [Prop -> Seq(Cex)]
    BY <1>7 DEF SetEquivalence
  <2>3. eqClass' \in 1 .. 5
    BY <1>7, SessionAssumption DEF SetEquivalence
  <2> QED  BY <1>4, <1>7, <2>1, <2>2, <2>3 DEF SetEquivalence
<1>8. ASSUME NEW b \in BOOLEAN, SetCounterExamples(b)
      PROVE  ControlOK' /\ DataOK' /\ AnchorIsCex' /\ NewTraceIsCex' /\ IdleIsClean'
  <2>1. UNCHANGED <<cmd, cur, last, stage, target, result, newTrace, failed>>
    BY <1>8 DEF SetCounterExamples, control
  <2>2. ControlOK' /\ IdleIsClean'
    BY <1>1, <2>1 DEF ControlOK, IdleIsClean
  <2>3. DataOK'
    BY <1>1, <1>8, <2>1 DEF SetCounterExamples, DataOK, Indices, data
  <2>4. AnchorIsCex' /\ NewTraceIsCex'
    BY <1>8, <2>1, SameTraces DEF SetCounterExamples, data
  <2> QED  BY <2>2, <2>3, <2>4
<1>9. ASSUME NEW t \in OtherTrace, RegisterOtherTrace(t)
      PROVE  ControlOK' /\ DataOK' /\ AnchorIsCex' /\ NewTraceIsCex' /\ IdleIsClean'
  <2>1. UNCHANGED <<cmd, cur, last, stage, target, result, newTrace, failed>>
    BY <1>9 DEF RegisterOtherTrace, control
  <2>2. ControlOK' /\ IdleIsClean'
    BY <1>1, <2>1 DEF ControlOK, IdleIsClean
  <2>3. /\ traces' \in Seq(Cex \cup OtherTrace)
        /\ ptrace' \in [Prop -> Indices'] /\ newTrace' \in Indices'
        /\ AnchorIsCex' /\ NewTraceIsCex'
    <3>1. traces' = Append(traces, t) /\ UNCHANGED <<ptrace, cur>> /\ newTrace' = newTrace
      BY <1>9, <2>1 DEF RegisterOtherTrace
    <3>2. t \in Cex \cup OtherTrace
      OBVIOUS
    <3> QED  BY <3>1, <3>2, MoreTraces
  <2>4. DataOK'
    BY <1>1, <1>9, <2>3 DEF RegisterOtherTrace, DataOK, options
  <2> QED  BY <2>2, <2>3, <2>4
<1>10. ASSUME Interrupt
       PROVE  ControlOK' /\ DataOK' /\ AnchorIsCex' /\ NewTraceIsCex' /\ IdleIsClean'
  <2>1. ControlOK' /\ newTrace' = 0 /\ stage' = "prepare"
    BY <1>1, <1>10, ToPromptType DEF Interrupt, ControlOK
  <2>2. AnchorIsCex' /\ NewTraceIsCex' /\ newTrace' \in Indices'
    BY <1>10, <2>1, SameTraces DEF Interrupt, data
  <2>3. DataOK'
    BY <1>1, <1>10, <2>2 DEF Interrupt, DataOK, data, options, Indices
  <2>4. IdleIsClean'
    BY <2>1 DEF IdleIsClean
  <2> QED  BY <2>1, <2>2, <2>3, <2>4
<1> QED  BY <1>3, <1>6, <1>7, <1>8, <1>9, <1>10 DEF User

-----------------------------------------------------------------------------
(* The steps of a command.                                                 *)
LEMMA VerifyType ==
    ASSUME SessionInv, Busy,
           NEW self \in BOOLEAN, NEW ds \in Seq(DisjunctType), Verify(self, ds)
    PROVE  /\ ControlOK' /\ IdleIsClean'
           /\ newTrace' \in Indices
           /\ newTrace' # 0 => /\ newTrace' <= Len(traces)
                              /\ Violates(Inv[cur'], traces[newTrace'])
<1>1. ControlOK /\ DataOK
  BY TypeOKParts DEF SessionInv
<1>2. target' \in [self : BOOLEAN, disjuncts : Seq(DisjunctType)]
  BY DEF Verify
<1>3. ControlOK'
  BY <1>1, <1>2 DEF Verify, ControlOK, Stages
<1>4. IdleIsClean'
  BY DEF Verify, IdleIsClean, Busy, Commands
<1>5. newTrace' \in Indices
  BY <1>1 DEF Verify, ControlOK, DataOK, Indices
<1>6. newTrace' # 0 => newTrace' = ptrace[cur] /\ cur' = cur /\ cur \in Prop
  BY <1>1 DEF Verify, ControlOK
<1> QED  BY <1>3, <1>4, <1>5, <1>6 DEF SessionInv, AnchorIsCex

LEMMA StepSession ==
    ASSUME SessionInv, Step
    PROVE  SessionInv'
<1>1. TypeOK /\ AnchorIsCex /\ NewTraceIsCex /\ IdleIsClean /\ ControlOK /\ DataOK
  BY TypeOKParts DEF SessionInv
<1>2. cur \in Prop /\ nextce[cur] \in [status : NextCEStatus, disjuncts : Seq(DisjunctType)]
  BY <1>1 DEF ControlOK, DataOK
<1>3. << >> \in Seq(DisjunctType)
  OBVIOUS
<1> DEFINE Goal == ControlOK' /\ DataOK' /\ AnchorIsCex' /\ NewTraceIsCex' /\ IdleIsClean'
<1>4. SUFFICES Goal
  <2>1. (ControlOK /\ DataOK <=> TypeOK)'
    BY DEF TypeOK, ControlOK, DataOK, Indices, Stages, Commands, NextCEStatus
  <2> QED  BY <2>1 DEF SessionInv
(* Nothing but the state of the command changes.                           *)
<1>5. ASSUME ControlOK', IdleIsClean', UNCHANGED <<data, options, shown>>,
             newTrace' = 0 \/ UNCHANGED <<newTrace, cur>>
      PROVE  Goal
  <2>1. AnchorIsCex' /\ NewTraceIsCex' /\ newTrace' \in Indices'
    BY <1>5, SameTraces DEF data
  <2>2. DataOK'
    BY <1>1, <1>5, <2>1 DEF DataOK, data, options, Indices
  <2> QED  BY <1>5, <2>1, <2>2
<1>6. ASSUME Advance, Busy, UNCHANGED <<data, options, shown>> PROVE Goal
  <2>1. ControlOK' /\ newTrace' = 0 /\ stage' = "prepare"
    BY <1>1, <1>6, AdvanceType
  <2> QED  BY <1>5, <1>6, <2>1 DEF IdleIsClean
<1>7. ASSUME NEW self \in BOOLEAN, Verify(self, << >>), Busy,
             UNCHANGED <<data, options, shown>>
      PROVE  Goal
  <2>1. /\ ControlOK' /\ IdleIsClean'
        /\ newTrace' \in Indices
        /\ newTrace' # 0 => /\ newTrace' <= Len(traces)
                           /\ Violates(Inv[cur'], traces[newTrace'])
    BY <1>3, <1>7, VerifyType
  <2>2. AnchorIsCex' /\ NewTraceIsCex'
    BY <1>1, <1>7, <2>1 DEF AnchorIsCex, NewTraceIsCex, data
  <2>3. DataOK'
    BY <1>1, <1>7, <2>1 DEF DataOK, data, options, Indices
  <2> QED  BY <2>1, <2>2, <2>3
<1>8. Displaying => Busy
  BY DEF Displaying, Busy, Commands
<1>9. CASE CheckProperty
  BY <1>6, <1>7, <1>9 DEF CheckProperty, Busy, Commands
<1>10. CASE VerifyClone
  BY <1>7, <1>8, <1>10 DEF VerifyClone, Preparing
<1>11. CASE VerifyItself
  BY <1>7, <1>8, <1>11 DEF VerifyItself, Preparing
<1>12. CASE NoMoreCE
  BY <1>6, <1>8, <1>12 DEF NoMoreCE, Preparing
<1>13. CASE AddDisjunct
  <2> DEFINE n == WithDisjunct(nextce[cur], NewDisjunct(cur))
  <2>1. NewDisjunct(cur) \in DisjunctType
    BY <1>1, <1>2, <1>13, NewDisjunctType DEF AddDisjunct
  <2>2. CreateIfMissing(nextce[cur]) \in [status : NextCEStatus, disjuncts : Seq(DisjunctType)]
    <3>1. "Unknown" \in NextCEStatus
      BY DEF NextCEStatus
    <3> QED  BY <1>2, <3>1 DEF CreateIfMissing
  <2>3. n \in [status : NextCEStatus, disjuncts : Seq(DisjunctType)]
    BY <2>1, <2>2 DEF WithDisjunct
  <2>4. nextce' = [nextce EXCEPT ![cur] = n] /\ Verify(FALSE, n.disjuncts)
    BY <1>13 DEF AddDisjunct
  <2> HIDE DEF n
  <2>5. n.disjuncts \in Seq(DisjunctType)
    BY <2>3
  <2>6. Busy
    BY <1>8, <1>13 DEF AddDisjunct, Extending, Preparing
  <2>7. /\ ControlOK' /\ IdleIsClean'
        /\ newTrace' \in Indices
        /\ newTrace' # 0 => /\ newTrace' <= Len(traces)
                           /\ Violates(Inv[cur'], traces[newTrace'])
    BY <2>4, <2>5, <2>6, VerifyType
  <2>8. UNCHANGED <<status, ptrace, traces, options, shown>>
    BY <1>13 DEF AddDisjunct
  <2>9. AnchorIsCex' /\ NewTraceIsCex'
    BY <1>1, <2>7, <2>8 DEF AnchorIsCex, NewTraceIsCex
  <2>10. DataOK'
    BY <1>1, <2>3, <2>4, <2>7, <2>8 DEF DataOK, options, Indices
  <2> QED  BY <2>7, <2>9, <2>10
<1>14. CASE NoStateBeforeLast
  <2>1. ControlOK' /\ newTrace' = 0 /\ stage' = "prepare" /\ cmd' = "idle"
    BY <1>14, ToPromptType DEF NoStateBeforeLast
  <2> QED  BY <1>5, <1>14, <2>1 DEF NoStateBeforeLast, IdleIsClean
<1>15. CASE Die
  <2>1. ControlOK' /\ IdleIsClean'
    BY <1>1, <1>15 DEF Die, ControlOK, IdleIsClean
  <2> QED  BY <1>5, <1>15, <2>1 DEF Die
<1>16. ASSUME NEW v \in {"True", "False"}, Busy, StatusOfTarget(v), result' = v,
              stage' \in Stages,
              UNCHANGED <<ptrace, nextce, traces, options, cmd, cur, last, target,
                          newTrace, failed, shown>>
       PROVE  Goal
  <2>1. ControlOK'
    BY <1>1, <1>16 DEF ControlOK
  <2>2. IdleIsClean'
    BY <1>16 DEF IdleIsClean, Busy, Commands
  <2>3. AnchorIsCex' /\ NewTraceIsCex' /\ newTrace' \in Indices'
    BY <1>16, SameTraces
  <2>4. status' \in [Prop -> {"Unchecked", "True", "False"}]
    BY <1>1, <1>2, <1>16 DEF StatusOfTarget, DataOK
  <2>5. DataOK'
    BY <1>1, <1>16, <2>3, <2>4 DEF DataOK, options, Indices
  <2> QED  BY <2>1, <2>2, <2>3, <2>5
<1>17. CASE VerdictTrue
  BY <1>16, <1>17 DEF VerdictTrue, Stages
<1>18. CASE VerdictFalse
  BY <1>16, <1>18 DEF VerdictFalse, Stages
<1>19. ASSUME NEW t \in Cex, Explain(t) PROVE Goal
  <2>1. /\ traces' = Append(traces, t) /\ newTrace' = Len(traces) + 1
        /\ UNCHANGED <<ptrace, cur>> /\ Violates(Inv[cur], t) /\ Busy
    BY <1>19 DEF Explain, NewIndex, Refutes
  <2>2. /\ traces' \in Seq(Cex \cup OtherTrace)
        /\ ptrace' \in [Prop -> Indices'] /\ newTrace' \in Indices'
        /\ AnchorIsCex' /\ NewTraceIsCex'
    BY <2>1, MoreTraces
  <2>3. ControlOK' /\ IdleIsClean'
    BY <1>1, <1>19 DEF Explain, ControlOK, Stages, IdleIsClean, Busy, Commands
  <2>4. shown' \in [Prop -> Seq(Cex)]
    <3>1. shown[cur] \in Seq(Cex)
      BY <1>1, <1>2 DEF DataOK
    <3>2. Append(shown[cur], t) \in Seq(Cex)
      BY <3>1
    <3> QED  BY <1>1, <1>19, <3>2 DEF Explain, DataOK
  <2>5. DataOK'
    BY <1>1, <1>19, <2>2, <2>4 DEF Explain, DataOK, options
  <2> QED  BY <2>2, <2>3, <2>5
(* The commit of a verdict, which may hand newTrace to the property.       *)
<1>20. ASSUME Busy, ControlOK', IdleIsClean', newTrace' = 0,
              ptrace' = ptrace \/ ptrace' = [ptrace EXCEPT ![cur] = newTrace],
              nextce' \in [Prop -> [status : NextCEStatus, disjuncts : Seq(DisjunctType)]],
              UNCHANGED <<status, traces, options, shown>>
       PROVE  Goal
  <2>1. ptrace' \in [Prop -> Indices'] /\ newTrace' \in Indices'
    <3>1. Indices' = Indices /\ 0 \in Indices
      BY <1>1, <1>20 DEF DataOK, Indices
    <3> QED  BY <1>1, <1>2, <1>20, <3>1 DEF DataOK
  <2>2. AnchorIsCex'
    BY <1>1, <1>2, <1>20 DEF AnchorIsCex, NewTraceIsCex, DataOK
  <2>3. NewTraceIsCex'
    BY <1>20 DEF NewTraceIsCex
  <2>4. DataOK'
    BY <1>1, <1>20, <2>1 DEF DataOK, options
  <2> QED  BY <1>20, <2>2, <2>3, <2>4
<1>21. ASSUME NEW v \in {"True", "False"}, Record(v)
       PROVE  nextce' \in [Prop -> [status : NextCEStatus, disjuncts : Seq(DisjunctType)]]
  <2>1. v \in NextCEStatus /\ "Unknown" \in NextCEStatus
    BY DEF NextCEStatus
  <2>2. CreateIfMissing(nextce[cur]) \in [status : NextCEStatus, disjuncts : Seq(DisjunctType)]
    BY <1>2, <2>1 DEF CreateIfMissing
  <2>3. [CreateIfMissing(nextce[cur]) EXCEPT !.status = v]
          \in [status : NextCEStatus, disjuncts : Seq(DisjunctType)]
    BY <2>1, <2>2
  <2> QED  BY <1>1, <1>21, <2>3 DEF Record, DataOK
<1>22. ASSUME Busy, Advance PROVE ControlOK' /\ IdleIsClean' /\ newTrace' = 0
  BY <1>1, <1>22, AdvanceType DEF IdleIsClean
<1>23. CASE CommitCheck
  <2>1. Busy
    BY <1>23 DEF CommitCheck, Busy, Commands
  <2> QED  BY <1>1, <1>20, <1>22, <1>23, <2>1 DEF CommitCheck, DataOK
<1>24. CASE CommitTrue
  <2>1. nextce' \in [Prop -> [status : NextCEStatus, disjuncts : Seq(DisjunctType)]]
    BY <1>21, <1>24 DEF CommitTrue
  <2> QED  BY <1>8, <1>20, <1>22, <1>24, <2>1 DEF CommitTrue
<1>25. CASE CommitFalse
  <2>1. nextce' \in [Prop -> [status : NextCEStatus, disjuncts : Seq(DisjunctType)]]
    BY <1>21, <1>25 DEF CommitFalse
  <2>2. Busy
    BY <1>8, <1>25 DEF CommitFalse
  <2>3. ControlOK' /\ IdleIsClean' /\ newTrace' = 0
    <3>1. CASE Advance
      BY <1>22, <2>2, <3>1
    <3>2. CASE /\ cmd = "compute_all"
               /\ stage' = "prepare" /\ target' = NoTarget
               /\ result' = "Unchecked" /\ newTrace' = 0
               /\ UNCHANGED <<cmd, cur, last, failed>>
      BY <1>1, <3>2, NoTargetType DEF ControlOK, IdleIsClean, Stages, Commands
    <3> QED  BY <1>25, <3>1, <3>2 DEF CommitFalse
  <2> QED  BY <1>20, <1>25, <2>1, <2>2, <2>3 DEF CommitFalse
<1> QED
  BY <1>9, <1>10, <1>11, <1>12, <1>13, <1>14, <1>15, <1>17, <1>18, <1>19,
     <1>23, <1>24, <1>25 DEF Step

-----------------------------------------------------------------------------
LEMMA StutterSession == SessionInv /\ UNCHANGED vars => SessionInv'
<1> SUFFICES ASSUME SessionInv, UNCHANGED vars PROVE SessionInv'
  OBVIOUS
<1>1. TypeOK'
  BY DEF SessionInv, TypeOK, Indices, vars
<1>2. AnchorIsCex' /\ NewTraceIsCex' /\ IdleIsClean'
  BY DEF SessionInv, AnchorIsCex, NewTraceIsCex, IdleIsClean, vars
<1> QED  BY <1>1, <1>2 DEF SessionInv

THEOREM SessionInvariant == Spec => []SessionInv
<1>1. SessionInv /\ [Next]_vars => SessionInv'
  BY UserSession, StepSession, StutterSession DEF Next
<1> QED  BY <1>1, InitSession, PTL DEF Spec

(* The types of the session.                                               *)
THEOREM SessionTypes == Spec => []TypeOK
<1>1. SessionInv => TypeOK
  BY DEF SessionInv
<1> QED  BY <1>1, SessionInvariant, PTL

(* get_ce always hands create_fipath a counter-example of the property,    *)
(* whatever other commands register and wherever ^C strikes.               *)
THEOREM AnchorIsAlwaysCex == Spec => []AnchorIsCex
<1>1. SessionInv => AnchorIsCex
  BY DEF SessionInv
<1> QED  BY <1>1, SessionInvariant, PTL
-----------------------------------------------------------------------------
(*          "No more counterexamples" is never said too early              *)

Shown(p, t) == \E i \in 1 .. Len(shown[p]) : shown[p][i] = t

NoCex(p) == \A t \in Cex : ~ Violates(Inv[p], t)

(* The inductive invariant: the list of a property holds disjuncts of      *)
(* counter-examples shown in this enumeration only.  The trace from which  *)
(* the next disjunct is generated is one of those, unless the enumeration  *)
(* has just been reset, or the property has no counter-example.            *)
DisjunctsAreShown ==
    \A p \in Prop : \A j \in 1 .. Len(nextce[p].disjuncts) :
        \E i \in 1 .. Len(shown[p]) :
            nextce[p].disjuncts[j] = Disjunct(eqClass, Inv[p], shown[p][i])

AnchorIsShown ==
    \A p \in Prop : ptrace[p] # 0 /\ nextce[p].status # "Reset" =>
        \/ Shown(p, traces[ptrace[p]])
        \/ nextce[p].status = "True" /\ NoCex(p)

NewTraceIsShown ==
    stage # "prepare" /\ newTrace # 0 =>
        \/ Shown(cur, traces[newTrace])
        \/ nextce[cur].status = "True" /\ NoCex(cur)
        \/ nextce[cur].status = "Reset" /\ cmd = "check_ltlspec"

(* What is verified is the property, alone after a reset.                  *)
TargetIsKnown ==
    stage # "prepare" =>
        \/ target.disjuncts = << >>
        \/ nextce[cur].status # "Reset" /\ target.disjuncts = nextce[cur].disjuncts

VerdictIsRight ==
    /\ stage = "explain" => result = "False" /\ ~ NoCex(cur)
    /\ stage = "commit" /\ result = "False" => ~ NoCex(cur)
    /\ stage = "commit" /\ result = "True" => Candidates = {}

DoneInv ==
    /\ DisjunctsAreShown /\ AnchorIsShown /\ NewTraceIsShown
    /\ TargetIsKnown /\ VerdictIsRight
    /\ NoMoreMeansCovered

-----------------------------------------------------------------------------
LEMMA InitDone == Init => DoneInv
<1> SUFFICES ASSUME Init PROVE DoneInv
  OBVIOUS
<1>1. \A p \in Prop : ptrace[p] = 0 /\ nextce[p] = NoNextCE
  BY DEF Init
<1>2. NoNextCE.status = "None" /\ NoNextCE.disjuncts = << >>
  BY DEF NoNextCE
<1>3. stage = "prepare"
  BY DEF Init
<1>4. DisjunctsAreShown /\ AnchorIsShown /\ NoMoreMeansCovered
  BY <1>1, <1>2 DEF DisjunctsAreShown, AnchorIsShown, NoMoreMeansCovered
<1>5. NewTraceIsShown /\ TargetIsKnown /\ VerdictIsRight
  BY <1>3 DEF NewTraceIsShown, TargetIsKnown, VerdictIsRight
<1> QED  BY <1>4, <1>5 DEF DoneInv

(* The parts that relate a property to its enumeration survive a step that *)
(* leaves both alone.                                                      *)
LEMMA SameEnumeration ==
    ASSUME SessionInv, DoneInv, UNCHANGED <<ptrace, nextce, eqClass, shown>>, TracesKept
    PROVE  DisjunctsAreShown' /\ AnchorIsShown' /\ NoMoreMeansCovered'
<1>1. DisjunctsAreShown' /\ NoMoreMeansCovered'
  BY DEF DoneInv, DisjunctsAreShown, NoMoreMeansCovered
<1>2. AnchorIsShown'
  <2> SUFFICES ASSUME NEW p \in Prop, ptrace[p] # 0, nextce[p].status # "Reset"
               PROVE  \/ \E i \in 1 .. Len(shown[p]) : shown[p][i] = traces'[ptrace[p]]
                      \/ nextce[p].status = "True" /\ NoCex(p)
    BY DEF AnchorIsShown, Shown, NoCex
  <2>1. ptrace[p] \in 1 .. Len(traces)
    BY DEF SessionInv, TypeOK, Indices
  <2>2. traces'[ptrace[p]] = traces[ptrace[p]]
    BY <2>1 DEF TracesKept
  <2> QED  BY <2>2 DEF DoneInv, AnchorIsShown, Shown
<1> QED  BY <1>1, <1>2

LEMMA QuietDone ==
    ASSUME SessionInv, DoneInv, UNCHANGED <<ptrace, nextce, eqClass, shown>>, TracesKept,
           stage' = "prepare"
    PROVE  DoneInv'
<1>1. DisjunctsAreShown' /\ AnchorIsShown' /\ NoMoreMeansCovered'
  BY SameEnumeration
<1>2. NewTraceIsShown' /\ TargetIsKnown' /\ VerdictIsRight'
  BY DEF NewTraceIsShown, TargetIsKnown, VerdictIsRight
<1> QED  BY <1>1, <1>2 DEF DoneInv

(* The reset of the properties of a set S.                                 *)
LEMMA ResetDone ==
    ASSUME SessionInv, DoneInv, stage' = "prepare",
           NEW S, UNCHANGED <<ptrace, traces>>,
           \A p \in Prop : p \in S => nextce'[p] = ResetOf(nextce[p]),
           \A p \in Prop : p \notin S => /\ nextce'[p] = nextce[p]
                                       /\ shown'[p] = shown[p]
                                       /\ eqClass' = eqClass
    PROVE  DoneInv'
<1>1. ASSUME NEW p \in Prop, p \in S
      PROVE  nextce'[p].status = "Reset" /\ nextce'[p].disjuncts = << >>
  <2>1. nextce[p] \in [status : NextCEStatus, disjuncts : Seq(DisjunctType)]
    BY DEF SessionInv, TypeOK
  <2>2. ResetOf(nextce[p]).status = "Reset" /\ ResetOf(nextce[p]).disjuncts = << >>
    BY <2>1 DEF ResetOf
  <2> QED  BY <1>1, <2>2
<1>2. DisjunctsAreShown'
  <2> SUFFICES ASSUME NEW p \in Prop, NEW j \in 1 .. Len(nextce'[p].disjuncts)
               PROVE  \E i \in 1 .. Len(shown'[p]) :
                        nextce'[p].disjuncts[j] = Disjunct(eqClass', Inv[p], shown'[p][i])
    BY DEF DisjunctsAreShown
  <2>1. p \notin S
    BY <1>1
  <2>2. /\ nextce'[p] = nextce[p] /\ shown'[p] = shown[p] /\ eqClass' = eqClass
    BY <2>1
  <2>3. \E i \in 1 .. Len(shown[p]) :
            nextce[p].disjuncts[j] = Disjunct(eqClass, Inv[p], shown[p][i])
    BY <2>2 DEF DoneInv, DisjunctsAreShown
  <2> QED  BY <2>2, <2>3
<1>3. AnchorIsShown'
  BY <1>1 DEF DoneInv, AnchorIsShown, Shown, NoCex
<1>4. NoMoreMeansCovered'
  BY <1>1 DEF DoneInv, NoMoreMeansCovered
<1>5. NewTraceIsShown' /\ TargetIsKnown' /\ VerdictIsRight'
  BY DEF NewTraceIsShown, TargetIsKnown, VerdictIsRight
<1> QED  BY <1>2, <1>3, <1>4, <1>5 DEF DoneInv

LEMMA UserDone ==
    ASSUME SessionInv, DoneInv, User
    PROVE  DoneInv'
<1>1. cmd = "idle" => stage = "prepare"
  BY DEF SessionInv, IdleIsClean
<1>2. ASSUME NEW c \in Commands, NEW first \in Prop, NEW end \in Prop,
             StartCommand(c, first, end)
      PROVE  DoneInv'
  BY <1>1, <1>2, QuietDone, KeptIfUnchanged DEF StartCommand, data, options
<1>3. ASSUME NEW first \in Prop, NEW end \in Prop, ResetCE(first, end)
      PROVE  DoneInv'
  <2> DEFINE S == first .. end
  <2>1. stage' = "prepare" /\ UNCHANGED <<ptrace, traces>>
    BY <1>1, <1>3 DEF ResetCE, control
  <2>2. \A p \in Prop : p \in S => nextce'[p] = ResetOf(nextce[p])
    BY <1>3 DEF ResetCE, Selected
  <2>3. \A p \in Prop : p \notin S => /\ nextce'[p] = nextce[p]
                                    /\ shown'[p] = shown[p]
                                    /\ eqClass' = eqClass
    BY <1>3 DEF ResetCE, Selected, options
  <2> HIDE DEF S
  <2> QED  BY <2>1, <2>2, <2>3, ResetDone
<1>4. ASSUME NEW c \in Class, SetEquivalence(c) PROVE DoneInv'
  <2>1. stage' = "prepare" /\ UNCHANGED <<ptrace, traces>>
    BY <1>1, <1>4 DEF SetEquivalence, control
  <2>2. \A p \in Prop : p \in Prop => nextce'[p] = ResetOf(nextce[p])
    BY <1>4 DEF SetEquivalence
  <2>3. \A p \in Prop : p \notin Prop => /\ nextce'[p] = nextce[p]
                                       /\ shown'[p] = shown[p]
                                       /\ eqClass' = eqClass
    OBVIOUS
  <2> QED  BY <2>1, <2>2, <2>3, ResetDone
<1>5. ASSUME NEW b \in BOOLEAN, SetCounterExamples(b) PROVE DoneInv'
  BY <1>1, <1>5, QuietDone, KeptIfUnchanged DEF SetCounterExamples, data, control
<1>6. ASSUME NEW t \in OtherTrace, RegisterOtherTrace(t) PROVE DoneInv'
  <2>1. TracesKept
    BY <1>6, KeptIfAppended DEF RegisterOtherTrace, SessionInv
  <2> QED  BY <1>1, <1>6, <2>1, QuietDone DEF RegisterOtherTrace, options, control
<1>7. ASSUME Interrupt PROVE DoneInv'
  BY <1>7, QuietDone, KeptIfUnchanged DEF Interrupt, ToPrompt, data, options
<1> QED  BY <1>2, <1>3, <1>4, <1>5, <1>6, <1>7 DEF User

-----------------------------------------------------------------------------
(* A property goes to the checker on its own: itself, which keeps its      *)
(* trace if the checker builds none, or a clone.                           *)
LEMMA AloneDone ==
    ASSUME SessionInv, DoneInv, UNCHANGED <<ptrace, traces, nextce, eqClass, shown>>,
           NEW self \in BOOLEAN, Verify(self, << >>),
           self = TRUE => cmd = "check_ltlspec" \/ nextce[cur].status # "Reset"
    PROVE  DoneInv'
<1>1. /\ stage' = "check" /\ UNCHANGED <<cur, cmd>>
      /\ target'.disjuncts = << >>
      /\ newTrace' # 0 => self = TRUE /\ newTrace' = ptrace[cur]
  BY DEF Verify
<1>2. DisjunctsAreShown' /\ AnchorIsShown' /\ NoMoreMeansCovered'
  BY SameEnumeration, KeptIfUnchanged
<1>3. cur \in Prop
  BY DEF SessionInv, TypeOK
<1>4. NewTraceIsShown'
  BY <1>1, <1>3 DEF DoneInv, AnchorIsShown, NewTraceIsShown, Shown, NoCex
<1>5. TargetIsKnown' /\ VerdictIsRight'
  BY <1>1 DEF TargetIsKnown, VerdictIsRight
<1> QED  BY <1>2, <1>4, <1>5 DEF DoneInv

(* The new disjunct is that of a counter-example shown.                    *)
LEMMA AddDisjunctDone ==
    ASSUME SessionInv, DoneInv, AddDisjunct
    PROVE  DoneInv'
<1> DEFINE ds == nextce[cur].disjuncts
           n == WithDisjunct(nextce[cur], NewDisjunct(cur))
<1>1. /\ cur \in Prop /\ ds \in Seq(DisjunctType)
      /\ nextce[cur] \in [status : NextCEStatus, disjuncts : Seq(DisjunctType)]
      /\ nextce \in [Prop -> [status : NextCEStatus, disjuncts : Seq(DisjunctType)]]
  BY DEF SessionInv, TypeOK
<1>2. nextce[cur].status \notin {"Reset", "True"} /\ ptrace[cur] # 0
  BY DEF AddDisjunct, Extending
<1>3. n.disjuncts = Append(ds, NewDisjunct(cur)) /\ n.status \notin {"Reset", "True"}
  <2>1. /\ CreateIfMissing(nextce[cur]).disjuncts = ds
        /\ CreateIfMissing(nextce[cur]).status \notin {"Reset", "True"}
        /\ CreateIfMissing(nextce[cur])
              \in [status : NextCEStatus, disjuncts : Seq(DisjunctType)]
    BY <1>1, <1>2 DEF CreateIfMissing, NextCEStatus
  <2> QED  BY <2>1 DEF WithDisjunct
<1>4. /\ nextce'[cur] = n
      /\ \A p \in Prop : p # cur => nextce'[p] = nextce[p]
      /\ UNCHANGED <<ptrace, traces, eqClass, shown, cur>>
      /\ stage' = "check" /\ newTrace' = 0
      /\ target' = [self |-> FALSE, disjuncts |-> n.disjuncts]
  BY <1>1 DEF AddDisjunct, Verify, options
<1> HIDE DEF n
<1>5. PICK s \in 1 .. Len(shown[cur]) : shown[cur][s] = AnchorOf(cur)
  BY <1>1, <1>2 DEF DoneInv, AnchorIsShown, Shown, AnchorOf
<1>6. DisjunctsAreShown'
  <2> SUFFICES ASSUME NEW p \in Prop, NEW j \in 1 .. Len(nextce'[p].disjuncts)
               PROVE  \E i \in 1 .. Len(shown[p]) :
                        nextce'[p].disjuncts[j] = Disjunct(eqClass, Inv[p], shown[p][i])
    BY <1>4 DEF DisjunctsAreShown
  <2>1. CASE p # cur
    BY <1>4, <2>1 DEF DoneInv, DisjunctsAreShown
  <2>2. CASE p = cur /\ j \in 1 .. Len(ds)
    <3>1. nextce'[cur].disjuncts[j] = ds[j]
      <4>1. Append(ds, NewDisjunct(cur))[j] = ds[j]
        <5> HIDE DEF ds
        <5> QED  BY <1>1, <2>2
      <4> QED  BY <1>3, <1>4, <4>1
    <3> QED  BY <2>2, <3>1 DEF DoneInv, DisjunctsAreShown
  <2>3. CASE p = cur /\ j = Len(ds) + 1
    <3>1. nextce'[cur].disjuncts[j] = Disjunct(eqClass, Inv[cur], shown[cur][s])
      BY <1>1, <1>3, <1>4, <1>5, <2>3 DEF NewDisjunct
    <3> QED  BY <2>3, <3>1
  <2>4. p = cur => j \in 1 .. Len(ds) \/ j = Len(ds) + 1
    <3>1. ASSUME p = cur PROVE j \in 1 .. Len(Append(ds, NewDisjunct(cur)))
      BY <1>3, <1>4, <3>1
    <3> QED  BY <1>1, <3>1
  <2> QED  BY <2>1, <2>2, <2>3, <2>4
<1>7. AnchorIsShown'
  <2> SUFFICES ASSUME NEW p \in Prop, ptrace[p] # 0, nextce'[p].status # "Reset"
               PROVE  \/ Shown(p, traces[ptrace[p]])
                      \/ nextce'[p].status = "True" /\ NoCex(p)
    BY <1>4 DEF AnchorIsShown, Shown, NoCex
  <2>1. CASE p = cur
    BY <1>5, <2>1 DEF Shown, AnchorOf
  <2>2. CASE p # cur
    BY <1>4, <2>2 DEF DoneInv, AnchorIsShown
  <2> QED  BY <2>1, <2>2
<1>8. NoMoreMeansCovered'
  BY <1>3, <1>4 DEF DoneInv, NoMoreMeansCovered
<1>9. NewTraceIsShown' /\ TargetIsKnown' /\ VerdictIsRight'
  BY <1>3, <1>4 DEF NewTraceIsShown, TargetIsKnown, VerdictIsRight
<1> QED  BY <1>6, <1>7, <1>8, <1>9 DEF DoneInv

LEMMA VerdictDone ==
    ASSUME SessionInv, DoneInv, VerdictTrue \/ VerdictFalse
    PROVE  DoneInv'
<1>1. /\ stage = "check" /\ stage' \in {"explain", "commit"}
      /\ UNCHANGED <<ptrace, traces, nextce, eqClass, shown, cur, cmd, target, newTrace>>
  BY DEF VerdictTrue, VerdictFalse, options
<1>2. DisjunctsAreShown' /\ AnchorIsShown' /\ NoMoreMeansCovered'
  BY <1>1, SameEnumeration, KeptIfUnchanged
<1>3. NewTraceIsShown' /\ TargetIsKnown'
  BY <1>1 DEF DoneInv, NewTraceIsShown, TargetIsKnown, Shown, NoCex
<1>4. VerdictIsRight'
  <2>1. CASE VerdictTrue
    BY <2>1 DEF VerdictTrue, VerdictIsRight, Candidates
  <2>2. CASE VerdictFalse
    <3>1. ~ NoCex(cur)
      BY <2>2 DEF VerdictFalse, Candidates, Refutes, NoCex
    <3>2. result' = "False" /\ cur' = cur
      BY <2>2 DEF VerdictFalse
    <3> QED  BY <3>1, <3>2 DEF VerdictIsRight, NoCex
  <2> QED  BY <2>1, <2>2
<1> QED  BY <1>2, <1>3, <1>4 DEF DoneInv

(* One counter-example more is shown: what was covered still is.           *)
LEMMA ExplainDone ==
    ASSUME SessionInv, DoneInv, NEW t \in Cex, Explain(t)
    PROVE  DoneInv'
<1>1. /\ cur \in Prop /\ shown \in [Prop -> Seq(Cex)]
      /\ traces \in Seq(Cex \cup OtherTrace) /\ ptrace \in [Prop -> 0 .. Len(traces)]
  BY DEF SessionInv, TypeOK, Indices
<1>2. /\ stage = "explain" /\ stage' = "commit"
      /\ traces' = Append(traces, t) /\ newTrace' = Len(traces) + 1
      /\ shown' = [shown EXCEPT ![cur] = Append(@, t)]
      /\ UNCHANGED <<ptrace, nextce, eqClass, cmd, cur, target, result>>
  BY DEF Explain, NewIndex, options
<1>3. \A p \in Prop : \A i \in 1 .. Len(shown[p]) :
        i \in 1 .. Len(shown'[p]) /\ shown'[p][i] = shown[p][i]
  <2> TAKE p \in Prop
  <2>1. CASE p = cur
    <3>1. shown'[p] = Append(shown[p], t) /\ shown[p] \in Seq(Cex)
      BY <1>1, <1>2, <2>1
    <3> QED  BY <3>1
  <2>2. CASE p # cur
    BY <1>1, <1>2, <2>2
  <2> QED  BY <2>1, <2>2
<1>4. /\ Len(shown[cur]) + 1 \in 1 .. Len(shown'[cur])
      /\ shown'[cur][Len(shown[cur]) + 1] = t
  BY <1>1, <1>2
<1>5. /\ traces'[Len(traces) + 1] = t
      /\ \A i \in 1 .. Len(traces) : traces'[i] = traces[i]
  BY <1>1, <1>2
<1>6. DisjunctsAreShown'
  <2> SUFFICES ASSUME NEW p \in Prop, NEW j \in 1 .. Len(nextce[p].disjuncts)
               PROVE  \E i \in 1 .. Len(shown'[p]) :
                        nextce[p].disjuncts[j] = Disjunct(eqClass, Inv[p], shown'[p][i])
    BY <1>2 DEF DisjunctsAreShown
  <2>1. PICK i \in 1 .. Len(shown[p]) :
          nextce[p].disjuncts[j] = Disjunct(eqClass, Inv[p], shown[p][i])
    BY DEF DoneInv, DisjunctsAreShown
  <2> QED  BY <1>3, <2>1
<1>7. AnchorIsShown'
  <2> SUFFICES ASSUME NEW p \in Prop, ptrace[p] # 0, nextce[p].status # "Reset"
               PROVE  \/ \E i \in 1 .. Len(shown'[p]) : shown'[p][i] = traces'[ptrace[p]]
                      \/ nextce[p].status = "True" /\ NoCex(p)
    BY <1>2 DEF AnchorIsShown, Shown, NoCex
  <2>1. ptrace[p] \in 1 .. Len(traces)
    BY <1>1
  <2>2. \/ \E i \in 1 .. Len(shown[p]) : shown[p][i] = traces[ptrace[p]]
        \/ nextce[p].status = "True" /\ NoCex(p)
    BY DEF DoneInv, AnchorIsShown, Shown
  <2> QED  BY <1>3, <1>5, <2>1, <2>2
<1>8. NoMoreMeansCovered'
  <2> SUFFICES ASSUME NEW p \in Prop, nextce[p].status = "True",
                      NEW u \in Cex, Violates(Inv[p], u)
               PROVE  \E i \in 1 .. Len(shown'[p]) :
                        Equivalent(eqClass, Inv[p], shown'[p][i], u)
    BY <1>2 DEF NoMoreMeansCovered
  <2>1. PICK i \in 1 .. Len(shown[p]) : Equivalent(eqClass, Inv[p], shown[p][i], u)
    BY DEF DoneInv, NoMoreMeansCovered
  <2> QED  BY <1>3, <2>1
<1>9. NewTraceIsShown'
  <2>1. Shown(cur, traces[newTrace])'
    BY <1>2, <1>4, <1>5 DEF Shown
  <2> QED  BY <2>1 DEF NewTraceIsShown
<1>10. TargetIsKnown' /\ VerdictIsRight'
  BY <1>2 DEF DoneInv, TargetIsKnown, VerdictIsRight, NoCex
<1> QED  BY <1>6, <1>7, <1>8, <1>9, <1>10 DEF DoneInv

-----------------------------------------------------------------------------
(* Recording the verdict keeps the disjuncts and the other properties.     *)
LEMMA RecordKeeps ==
    ASSUME SessionInv, NEW s \in {"True", "False"}, Record(s)
    PROVE  /\ \A p \in Prop : p # cur => nextce'[p] = nextce[p]
           /\ nextce'[cur].disjuncts = nextce[cur].disjuncts
           /\ nextce'[cur].status = s
<1>1. /\ nextce \in [Prop -> [status : NextCEStatus, disjuncts : Seq(DisjunctType)]]
      /\ cur \in Prop
  BY DEF SessionInv, TypeOK
<1> DEFINE n == CreateIfMissing(nextce[cur])
<1>2. /\ n \in [status : NextCEStatus, disjuncts : Seq(DisjunctType)]
      /\ n.disjuncts = nextce[cur].disjuncts
  BY <1>1 DEF CreateIfMissing, NextCEStatus
<1>3. /\ \A p \in Prop : p # cur => nextce'[p] = nextce[p]
      /\ nextce'[cur] = [n EXCEPT !.status = s]
  BY <1>1 DEF Record
<1> QED  BY <1>2, <1>3

(* The bookkeeping after Prop_verify, once the parts that concern the      *)
(* property the command is at are known to hold.                           *)
LEMMA CommitDone ==
    ASSUME SessionInv, DoneInv, stage' = "prepare",
           UNCHANGED <<traces, eqClass, shown>>,
           \A p \in Prop : p # cur => nextce'[p] = nextce[p] /\ ptrace'[p] = ptrace[p],
           nextce'[cur].disjuncts = nextce[cur].disjuncts,
           ptrace'[cur] # 0 /\ nextce'[cur].status # "Reset" =>
               \/ Shown(cur, traces[ptrace'[cur]])
               \/ nextce'[cur].status = "True" /\ NoCex(cur),
           nextce'[cur].status = "True" =>
               \A t \in Cex : Violates(Inv[cur], t) =>
                   \E i \in 1 .. Len(shown[cur]) :
                       Equivalent(eqClass, Inv[cur], shown[cur][i], t)
    PROVE  DoneInv'
<1>1. DisjunctsAreShown'
  <2> SUFFICES ASSUME NEW p \in Prop, NEW j \in 1 .. Len(nextce'[p].disjuncts)
               PROVE  \E i \in 1 .. Len(shown[p]) :
                        nextce'[p].disjuncts[j] = Disjunct(eqClass, Inv[p], shown[p][i])
    BY DEF DisjunctsAreShown
  <2>1. nextce'[p].disjuncts = nextce[p].disjuncts
    OBVIOUS
  <2> QED  BY <2>1 DEF DoneInv, DisjunctsAreShown
<1>2. AnchorIsShown'
  <2> SUFFICES ASSUME NEW p \in Prop, ptrace'[p] # 0, nextce'[p].status # "Reset"
               PROVE  \/ Shown(p, traces[ptrace'[p]])
                      \/ nextce'[p].status = "True" /\ NoCex(p)
    BY DEF AnchorIsShown, Shown, NoCex
  <2>1. CASE p = cur
    BY <2>1
  <2>2. CASE p # cur
    BY <2>2 DEF DoneInv, AnchorIsShown
  <2> QED  BY <2>1, <2>2
<1>3. NoMoreMeansCovered'
  <2> SUFFICES ASSUME NEW p \in Prop, nextce'[p].status = "True",
                      NEW t \in Cex, Violates(Inv[p], t)
               PROVE  \E i \in 1 .. Len(shown[p]) :
                        Equivalent(eqClass, Inv[p], shown[p][i], t)
    BY DEF NoMoreMeansCovered
  <2>1. CASE p = cur
    BY <2>1
  <2>2. CASE p # cur
    BY <2>2 DEF DoneInv, NoMoreMeansCovered
  <2> QED  BY <2>1, <2>2
<1>4. NewTraceIsShown' /\ TargetIsKnown' /\ VerdictIsRight'
  BY DEF NewTraceIsShown, TargetIsKnown, VerdictIsRight
<1> QED  BY <1>1, <1>2, <1>3, <1>4 DEF DoneInv

LEMMA CommitCheckDone ==
    ASSUME SessionInv, DoneInv, CommitCheck
    PROVE  DoneInv'
<1>1. cur \in Prop /\ ptrace \in [Prop -> Indices]
  BY DEF SessionInv, TypeOK
<1>2. /\ stage = "commit" /\ stage' = "prepare" /\ nextce' = nextce
      /\ ptrace'[cur] = newTrace
      /\ \A p \in Prop : p # cur => ptrace'[p] = ptrace[p]
      /\ UNCHANGED <<traces, eqClass, shown>>
  BY <1>1, AdvancePrepares DEF CommitCheck, options
<1>3. ptrace'[cur] # 0 /\ nextce'[cur].status # "Reset" =>
        \/ Shown(cur, traces[ptrace'[cur]])
        \/ nextce'[cur].status = "True" /\ NoCex(cur)
  BY <1>2 DEF DoneInv, NewTraceIsShown
<1>4. nextce'[cur].status = "True" =>
        \A t \in Cex : Violates(Inv[cur], t) =>
          \E i \in 1 .. Len(shown[cur]) : Equivalent(eqClass, Inv[cur], shown[cur][i], t)
  BY <1>1, <1>2 DEF DoneInv, NoMoreMeansCovered
<1> QED  BY <1>2, <1>3, <1>4, CommitDone

(* The verdict true: every counter-example satisfies a disjunct, so it is  *)
(* equivalent to one that was shown.                                       *)
LEMMA CommitTrueDone ==
    ASSUME SessionInv, DoneInv, CommitTrue
    PROVE  DoneInv'
<1>1. cur \in Prop /\ target.disjuncts \in Seq(DisjunctType)
  BY DEF SessionInv, TypeOK
<1>2. /\ stage = "commit" /\ stage' = "prepare" /\ result = "True"
      /\ UNCHANGED <<ptrace, traces, eqClass, shown>>
  BY AdvancePrepares DEF CommitTrue, options
<1>3. /\ \A p \in Prop : p # cur => nextce'[p] = nextce[p]
      /\ nextce'[cur].disjuncts = nextce[cur].disjuncts
      /\ nextce'[cur].status = "True"
  BY RecordKeeps DEF CommitTrue
<1>4. ASSUME NEW t \in Cex, Violates(Inv[cur], t)
      PROVE  \E j \in 1 .. Len(target.disjuncts) : Holds(target.disjuncts[j], Inv[cur], t)
  <2>1. Candidates = {}
    BY <1>2 DEF DoneInv, VerdictIsRight
  <2>2. DOMAIN target.disjuncts = 1 .. Len(target.disjuncts)
    BY <1>1
  <2> QED  BY <1>4, <2>1, <2>2 DEF Candidates, Refutes
<1>5. \/ target.disjuncts = << >>
      \/ nextce[cur].status # "Reset" /\ target.disjuncts = nextce[cur].disjuncts
  BY <1>2 DEF DoneInv, TargetIsKnown
<1>6. target.disjuncts = << >> => NoCex(cur)
  BY <1>4 DEF NoCex
<1>7. ptrace'[cur] # 0 /\ nextce'[cur].status # "Reset" =>
        \/ Shown(cur, traces[ptrace'[cur]])
        \/ nextce'[cur].status = "True" /\ NoCex(cur)
  BY <1>1, <1>2, <1>3, <1>5, <1>6 DEF DoneInv, AnchorIsShown
<1>8. ASSUME NEW t \in Cex, Violates(Inv[cur], t)
      PROVE  \E i \in 1 .. Len(shown[cur]) : Equivalent(eqClass, Inv[cur], shown[cur][i], t)
  <2>1. PICK j \in 1 .. Len(target.disjuncts) : Holds(target.disjuncts[j], Inv[cur], t)
    BY <1>4, <1>8
  <2>2. target.disjuncts = nextce[cur].disjuncts
    BY <1>5, <2>1
  <2>3. PICK i \in 1 .. Len(shown[cur]) :
          nextce[cur].disjuncts[j] = Disjunct(eqClass, Inv[cur], shown[cur][i])
    BY <1>1, <2>1, <2>2 DEF DoneInv, DisjunctsAreShown
  <2> QED  BY <2>1, <2>2, <2>3 DEF Equivalent
<1> QED  BY <1>2, <1>3, <1>7, <1>8, CommitDone

LEMMA CommitFalseDone ==
    ASSUME SessionInv, DoneInv, CommitFalse
    PROVE  DoneInv'
<1>1. cur \in Prop /\ ptrace \in [Prop -> Indices]
  BY DEF SessionInv, TypeOK
<1>2. /\ stage = "commit" /\ stage' = "prepare" /\ result = "False"
      /\ cmd # "check_ltlspec"
      /\ ptrace'[cur] = newTrace
      /\ \A p \in Prop : p # cur => ptrace'[p] = ptrace[p]
      /\ UNCHANGED <<traces, eqClass, shown>>
  BY <1>1, AdvancePrepares DEF CommitFalse, Displaying, options
<1>3. /\ \A p \in Prop : p # cur => nextce'[p] = nextce[p]
      /\ nextce'[cur].disjuncts = nextce[cur].disjuncts
      /\ nextce'[cur].status = "False"
  BY RecordKeeps DEF CommitFalse
<1>4. ~ NoCex(cur)
  BY <1>2 DEF DoneInv, VerdictIsRight
<1>5. ptrace'[cur] # 0 => Shown(cur, traces[ptrace'[cur]])
  BY <1>2, <1>4 DEF DoneInv, NewTraceIsShown
<1> QED  BY <1>2, <1>3, <1>5, CommitDone

LEMMA StepDone ==
    ASSUME SessionInv, DoneInv, Step
    PROVE  DoneInv'
<1>1. CASE CheckProperty
  <2>1. CASE status[cur] = "Unchecked"
    BY <1>1, <2>1, AloneDone DEF CheckProperty, data, options
  <2>2. CASE status[cur] # "Unchecked"
    BY <1>1, <2>2, AdvancePrepares, QuietDone, KeptIfUnchanged
       DEF CheckProperty, data, options
  <2> QED  BY <2>1, <2>2
<1>2. CASE VerifyClone
  BY <1>2, AloneDone DEF VerifyClone, data, options
<1>3. CASE VerifyItself
  BY <1>3, AloneDone DEF VerifyItself, data, options
<1>4. CASE NoMoreCE
  BY <1>4, AdvancePrepares, QuietDone, KeptIfUnchanged DEF NoMoreCE, data, options
<1>5. CASE AddDisjunct
  BY <1>5, AddDisjunctDone
<1>6. CASE NoStateBeforeLast
  BY <1>6, QuietDone, KeptIfUnchanged DEF NoStateBeforeLast, ToPrompt, data, options
<1>7. CASE Die
  BY <1>7, QuietDone, KeptIfUnchanged DEF Die, Extending, Preparing, data, options
<1>8. CASE VerdictTrue \/ VerdictFalse
  BY <1>8, VerdictDone
<1>9. CASE \E t \in Cex : Explain(t)
  BY <1>9, ExplainDone
<1>10. CASE CommitCheck
  BY <1>10, CommitCheckDone
<1>11. CASE CommitTrue
  BY <1>11, CommitTrueDone
<1>12. CASE CommitFalse
  BY <1>12, CommitFalseDone
<1> QED  BY <1>1, <1>2, <1>3, <1>4, <1>5, <1>6, <1>7, <1>8, <1>9, <1>10, <1>11, <1>12 DEF Step

LEMMA StutterDone ==
    ASSUME DoneInv, UNCHANGED vars
    PROVE  DoneInv'
BY DEF vars, DoneInv, DisjunctsAreShown, AnchorIsShown, NewTraceIsShown, TargetIsKnown,
       VerdictIsRight, NoMoreMeansCovered, Shown, NoCex, Candidates

-----------------------------------------------------------------------------
(* "No more counterexamples" is said of a property only when each of its   *)
(* counter-examples is equivalent to one shown in the same enumeration.    *)
THEOREM NoMoreAlwaysMeansCovered == Spec => []NoMoreMeansCovered
<1>1. Init => DoneInv
  BY InitDone
<1>2. SessionInv /\ DoneInv /\ [Next]_vars => DoneInv'
  BY UserDone, StepDone, StutterDone DEF Next
<1>3. DoneInv => NoMoreMeansCovered
  BY DEF DoneInv
<1> QED  BY <1>1, <1>2, <1>3, SessionInvariant, PTL DEF Spec
-----------------------------------------------------------------------------
(* The process survives, and no command ends in an internal error, in any  *)
(* session where                                                           *)
(*   - counter_examples stays set and the class is one of the four,        *)
(*   - ^C does not strike between the verdict and the bookkeeping,         *)
(*   - every property has a counter-example, and                           *)
(*   - class 2 is used only where no first state is bad (for NeverFails).  *)
PlainUse ==
    /\ CexOff = FALSE
    /\ Class \subseteq EqClass
    /\ InterruptAt \cap {"explain", "commit"} = {}
    /\ \A p \in Prop : ~ NoCex(p)

GoodFirstStates ==
    2 \in Class => \A p \in Prop, t \in Cex \cup OtherTrace :
                       Violates(Inv[p], t) => t[1] \in Inv[p]

(* The inductive invariant: a property that was checked has a trace, but   *)
(* for the one whose verdict is known and whose trace is under way.        *)
UnderWay(p) == Busy /\ p = cur /\ target.self /\ stage \in {"explain", "commit"}

CheckedHasTrace ==
    \A p \in Prop : status[p] # "Unchecked" /\ ptrace[p] = 0 => UnderWay(p)

TraceIsComing ==
    /\ target.self => target.disjuncts = << >>
    /\ cmd = "check_ltlspec" /\ stage # "prepare" => target.self
    /\ stage = "explain" => result = "False"
    /\ stage = "commit" => IF result = "True" THEN ~ target.self ELSE newTrace # 0

SurviveInv ==
    /\ CheckedHasTrace /\ TraceIsComing
    /\ cexOn = TRUE /\ eqClass \in Class
    /\ cmd # "dead"

LEMMA PreparedSurvives ==
    ASSUME SessionInv, SurviveInv, stage' = "prepare", cmd' # "dead",
           cexOn' = cexOn, eqClass' \in Class, target' = NoTarget,
           status' = status,
           \A p \in Prop : status[p] # "Unchecked" => ptrace'[p] # 0
    PROVE  SurviveInv'
<1>1. CheckedHasTrace'
  BY DEF CheckedHasTrace
<1>2. TraceIsComing'
  BY DEF TraceIsComing, NoTarget
<1> QED  BY <1>1, <1>2 DEF SurviveInv

(* A step that leaves the properties alone, at the prompt or back to it.   *)
LEMMA QuietSurvives ==
    ASSUME SessionInv, SurviveInv, stage \notin {"explain", "commit"},
           stage' = "prepare", cmd' # "dead", target' = NoTarget \/ target' = target,
           cexOn' = cexOn, eqClass' \in Class,
           UNCHANGED <<status, ptrace>>
    PROVE  SurviveInv'
<1>1. CheckedHasTrace'
  BY DEF SurviveInv, CheckedHasTrace, UnderWay
<1>2. TraceIsComing'
  BY DEF SurviveInv, TraceIsComing, NoTarget
<1> QED  BY <1>1, <1>2 DEF SurviveInv

LEMMA AdvanceFacts ==
    ASSUME Advance, cmd # "dead"
    PROVE  stage' = "prepare" /\ cmd' # "dead" /\ target' = NoTarget /\ UNCHANGED failed
BY DEF Advance, ToPrompt

LEMMA UserSurvives ==
    ASSUME PlainUse, SessionInv, SurviveInv, User
    PROVE  SurviveInv'
<1>1. cmd = "idle" => stage = "prepare"
  BY DEF SessionInv, IdleIsClean
<1>2. ASSUME NEW c \in Commands, NEW first \in Prop, NEW end \in Prop,
             StartCommand(c, first, end)
      PROVE  SurviveInv'
  <2>1. c # "dead" /\ cexOn' = cexOn /\ eqClass' \in Class
    BY <1>2 DEF Commands, StartCommand, options, SurviveInv
  <2> QED  BY <1>1, <1>2, <2>1, QuietSurvives DEF StartCommand, data
<1>3. ASSUME NEW first \in Prop, NEW end \in Prop, ResetCE(first, end)
      PROVE  SurviveInv'
  BY <1>1, <1>3, QuietSurvives DEF ResetCE, options, control, SurviveInv
<1>4. ASSUME NEW c \in Class, SetEquivalence(c) PROVE SurviveInv'
  BY <1>1, <1>4, QuietSurvives DEF SetEquivalence, control
<1>5. ~ \E b \in BOOLEAN : SetCounterExamples(b)
  BY DEF SetCounterExamples, PlainUse
<1>6. ASSUME NEW t \in OtherTrace, RegisterOtherTrace(t) PROVE SurviveInv'
  BY <1>1, <1>6, QuietSurvives DEF RegisterOtherTrace, options, control, SurviveInv
<1>7. CASE Interrupt
  <2>1. stage \notin {"explain", "commit"}
    BY <1>7 DEF Interrupt, PlainUse
  <2> QED  BY <1>7, <2>1, QuietSurvives DEF Interrupt, ToPrompt, data, options, SurviveInv
<1> QED  BY <1>2, <1>3, <1>4, <1>5, <1>6, <1>7 DEF User

LEMMA VerifySurvives ==
    ASSUME SessionInv, SurviveInv, stage = "prepare", NEW self \in BOOLEAN, NEW ds,
           Verify(self, ds), self = TRUE => ds = << >>,
           cmd = "check_ltlspec" => self = TRUE,
           UNCHANGED <<status, ptrace, cexOn, eqClass>>
    PROVE  SurviveInv'
<1>1. /\ stage' = "check" /\ cmd' = cmd
      /\ target'.self = self /\ target'.disjuncts = ds
  BY DEF Verify
<1>2. CheckedHasTrace'
  BY <1>1 DEF SurviveInv, CheckedHasTrace, UnderWay
<1>3. TraceIsComing'
  BY <1>1 DEF TraceIsComing
<1> QED  BY <1>1, <1>2, <1>3 DEF SurviveInv

(* The next disjunct is made of a trace that exists.                       *)
LEMMA ExtendingSurvives ==
    ASSUME PlainUse, SessionInv, SurviveInv, Extending
    PROVE  ptrace[cur] # 0 /\ eqClass \in EqClass
<1>1. cur \in Prop
  BY DEF SessionInv, TypeOK
<1>2. status[cur] # "Unchecked" /\ stage = "prepare"
  BY DEF Extending, Preparing
<1>3. ptrace[cur] # 0
  BY <1>1, <1>2 DEF SurviveInv, CheckedHasTrace, UnderWay
<1>4. eqClass \in EqClass
  BY DEF SurviveInv, PlainUse
<1> QED  BY <1>3, <1>4

LEMMA VerdictSurvives ==
    ASSUME PlainUse, SessionInv, SurviveInv, VerdictTrue \/ VerdictFalse
    PROVE  SurviveInv'
<1>1. /\ stage = "check" /\ Busy /\ cur \in Prop
      /\ UNCHANGED <<ptrace, cexOn, eqClass, cmd, cur, target>>
  BY DEF VerdictTrue, VerdictFalse, options, SessionInv, TypeOK
<1>2. \A p \in Prop : p # cur \/ ~ target.self => status'[p] = status[p]
  <2>1. status \in [Prop -> {"Unchecked", "True", "False"}]
    BY DEF SessionInv, TypeOK
  <2> QED  BY <1>1, <2>1 DEF VerdictTrue, VerdictFalse, StatusOfTarget
<1>3. CASE VerdictTrue
  <2>1. stage' = "commit" /\ result' = "True" /\ Candidates = {}
    BY <1>3 DEF VerdictTrue
  <2>2. ~ target.self
    <3>1. SUFFICES ASSUME target.self PROVE FALSE
      OBVIOUS
    <3>2. target.disjuncts = << >>
      BY <3>1 DEF SurviveInv, TraceIsComing
    <3>3. PICK t \in Cex : Violates(Inv[cur], t)
      BY <1>1 DEF PlainUse, NoCex
    <3>4. Refutes(Inv[cur], target.disjuncts, t)
      BY <3>2, <3>3 DEF Refutes
    <3> QED  BY <2>1, <3>4 DEF Candidates
  <2>3. CheckedHasTrace'
    BY <1>1, <1>2, <2>2 DEF SurviveInv, CheckedHasTrace, UnderWay
  <2>4. TraceIsComing'
    BY <1>1, <2>1, <2>2 DEF SurviveInv, TraceIsComing
  <2> QED  BY <1>1, <2>3, <2>4 DEF SurviveInv
<1>4. CASE VerdictFalse
  <2>1. stage' = "explain" /\ result' = "False"
    BY <1>4 DEF VerdictFalse, SurviveInv
  <2>2. CheckedHasTrace'
    BY <1>1, <1>2, <2>1 DEF SurviveInv, CheckedHasTrace, UnderWay, Busy
  <2>3. TraceIsComing'
    BY <1>1, <2>1 DEF SurviveInv, TraceIsComing
  <2> QED  BY <1>1, <2>2, <2>3 DEF SurviveInv
<1> QED  BY <1>3, <1>4

LEMMA ExplainSurvives ==
    ASSUME SessionInv, SurviveInv, NEW t \in Cex, Explain(t)
    PROVE  SurviveInv'
<1>1. /\ stage = "explain" /\ stage' = "commit"
      /\ UNCHANGED <<status, ptrace, cexOn, eqClass, cmd, cur, target, result>>
      /\ newTrace' = Len(traces) + 1
  BY DEF Explain, options, NewIndex
<1>2. newTrace' # 0
  BY <1>1 DEF SessionInv, TypeOK
<1>3. CheckedHasTrace'
  BY <1>1 DEF SurviveInv, CheckedHasTrace, UnderWay, Busy
<1>4. TraceIsComing'
  BY <1>1, <1>2 DEF SurviveInv, TraceIsComing
<1> QED  BY <1>1, <1>3, <1>4 DEF SurviveInv

LEMMA CommitSurvives ==
    ASSUME SessionInv, SurviveInv, CommitCheck \/ CommitTrue \/ CommitFalse
    PROVE  SurviveInv'
<1>1. /\ stage = "commit" /\ UNCHANGED <<status, cexOn, eqClass>>
      /\ cur \in Prop /\ ptrace \in [Prop -> Indices]
      /\ stage' = "prepare" /\ cmd' # "dead" /\ target' = NoTarget
  BY AdvanceFacts DEF CommitCheck, CommitTrue, CommitFalse, options, SessionInv, TypeOK, SurviveInv
<1>2. \A p \in Prop : p # cur /\ status[p] # "Unchecked" => ptrace[p] # 0
  BY DEF SurviveInv, CheckedHasTrace, UnderWay
<1>3. \A p \in Prop : status[p] # "Unchecked" => ptrace'[p] # 0
  <2>1. CASE CommitTrue
    <3>1. UNCHANGED ptrace /\ ~ target.self
      BY <1>1, <2>1 DEF CommitTrue, SurviveInv, TraceIsComing
    <3> QED  BY <1>2, <3>1 DEF SurviveInv, CheckedHasTrace, UnderWay
  <2>2. CASE CommitCheck \/ CommitFalse
    <3>1. ptrace' = [ptrace EXCEPT ![cur] = newTrace]
      BY <2>2 DEF CommitCheck, CommitFalse
    <3>2. newTrace # 0
      BY <1>1, <2>2 DEF CommitCheck, CommitFalse, SurviveInv, TraceIsComing
    <3> QED  BY <1>1, <1>2, <3>1, <3>2
  <2> QED  BY <2>1, <2>2
<1> QED  BY <1>1, <1>3, PreparedSurvives DEF SurviveInv

LEMMA StepSurvives ==
    ASSUME PlainUse, SessionInv, SurviveInv, Step
    PROVE  SurviveInv'
<1>1. CASE CheckProperty
  <2>1. CASE status[cur] = "Unchecked" /\ Verify(TRUE, << >>)
    BY <1>1, <2>1, VerifySurvives DEF CheckProperty, data, options
  <2>2. CASE Advance
    <3>1. cmd # "dead"
      BY DEF SurviveInv
    <3> QED  BY <1>1, <2>2, <3>1, AdvanceFacts, QuietSurvives
             DEF CheckProperty, data, options, SurviveInv
  <2> QED  BY <1>1, <2>1, <2>2 DEF CheckProperty
<1>2. CASE VerifyClone
  BY <1>2, VerifySurvives DEF VerifyClone, Preparing, Displaying, data, options
<1>3. CASE VerifyItself
  BY <1>3, VerifySurvives DEF VerifyItself, Preparing, data, options
<1>4. CASE NoMoreCE
  BY <1>4, AdvanceFacts, QuietSurvives
     DEF NoMoreCE, Preparing, data, options, SurviveInv
<1>5. CASE AddDisjunct
  BY <1>5, VerifySurvives DEF AddDisjunct, Extending, Preparing, Displaying, options
<1>6. CASE NoStateBeforeLast
  BY <1>6, QuietSurvives
     DEF NoStateBeforeLast, Extending, Preparing, ToPrompt, data, options, SurviveInv
<1>7. ~ Die
  BY ExtendingSurvives DEF Die
<1>8. CASE VerdictTrue \/ VerdictFalse
  BY <1>8, VerdictSurvives
<1>9. CASE \E t \in Cex : Explain(t)
  BY <1>9, ExplainSurvives
<1>10. CASE CommitCheck \/ CommitTrue \/ CommitFalse
  BY <1>10, CommitSurvives
<1> QED  BY <1>1, <1>2, <1>3, <1>4, <1>5, <1>6, <1>7, <1>8, <1>9, <1>10 DEF Step

(* No assertion kills the process.  (TraceManager_get_trace_at_index is    *)
(* never asked for index -1, Expr_or never given NULL.)                    *)
THEOREM NeverEverDies == PlainUse /\ Spec => []NeverDies
<1> SUFFICES ASSUME PlainUse PROVE Spec => []NeverDies
  OBVIOUS
<1>1. Init => SurviveInv
  BY DEF Init, SurviveInv, CheckedHasTrace, TraceIsComing, NoTarget
<1>2. SurviveInv /\ UNCHANGED vars => SurviveInv'
  BY DEF vars, SurviveInv, CheckedHasTrace, TraceIsComing, UnderWay, Busy
<1>3. SessionInv /\ SurviveInv /\ [Next]_vars => SurviveInv'
  BY <1>2, UserSurvives, StepSurvives DEF Next
<1>4. SurviveInv => NeverDies
  BY DEF SurviveInv, NeverDies
<1> QED  BY <1>1, <1>3, <1>4, SessionInvariant, PTL DEF Spec

-----------------------------------------------------------------------------
(* Class 2 finds the state before the last in every FIPATH.                *)
LEMMA StateBeforeLast ==
    ASSUME GoodFirstStates, SessionInv, eqClass \in Class
    PROVE  ~ NoStateBeforeLast
<1> SUFFICES ASSUME NoStateBeforeLast PROVE FALSE
  OBVIOUS
<1> DEFINE t == AnchorOf(cur)
<1>1. /\ eqClass = 2 /\ ptrace[cur] # 0 /\ cur \in Prop
      /\ Len(Fipath(Inv[cur], t)) = 1
  BY DEF NoStateBeforeLast, SessionInv, TypeOK
<1>2. ptrace[cur] \in 1 .. Len(traces)
  BY <1>1 DEF SessionInv, TypeOK, Indices
<1>3. /\ t \in Seq(State) /\ t \in Cex \cup OtherTrace /\ Violates(Inv[cur], t)
  BY <1>1, <1>2, StoredTraceType DEF SessionInv, TypeOK, AnchorOf, AnchorIsCex
<1>4. t[1] \in Inv[cur]
  BY <1>1, <1>3 DEF GoodFirstStates
<1> HIDE DEF t
<1>5. TruncStep(Inv[cur], t) \in 1 .. Len(t) /\ t[TruncStep(Inv[cur], t)] \notin Inv[cur]
  BY <1>3, TruncStepIsFirst
<1>6. TruncStep(Inv[cur], t) > 1 /\ Len(t) \in Nat
  BY <1>3, <1>4, <1>5
<1>7. Len(Fipath(Inv[cur], t)) > 1
  BY <1>3, <1>6, FipathProperties
<1> QED  BY <1>1, <1>7

(* No command ends in an internal error.  (generate_disjunc_2)             *)
THEOREM NeverEverFails == GoodFirstStates /\ Spec => []NeverFails
<1> SUFFICES ASSUME GoodFirstStates PROVE Spec => []NeverFails
  OBVIOUS
<1> DEFINE I == NeverFails /\ eqClass \in Class
<1>1. Init => I
  BY DEF Init, NeverFails
<1>2. ASSUME SessionInv, I, [Next]_vars
      PROVE  I'
  <2>1. (eqClass \in Class)'
    <3>1. User => eqClass' \in Class
      BY <1>2 DEF User, StartCommand, ResetCE, SetEquivalence, SetCounterExamples,
                  RegisterOtherTrace, Interrupt, options
    <3>2. Step => eqClass' = eqClass
      BY DEF Step, CheckProperty, VerifyClone, VerifyItself, NoMoreCE, AddDisjunct,
             NoStateBeforeLast, Die, VerdictTrue, VerdictFalse, Explain, CommitCheck,
             CommitTrue, CommitFalse, options
    <3> QED  BY <1>2, <3>1, <3>2 DEF Next, vars
  <2>2. User => failed' = failed \/ failed' = FALSE
    BY DEF User, StartCommand, ResetCE, SetEquivalence, SetCounterExamples,
           RegisterOtherTrace, Interrupt, control
  <2>3. Step => failed' = failed \/ NoStateBeforeLast
    <3>1. \/ CheckProperty \/ VerifyClone \/ VerifyItself \/ NoMoreCE \/ AddDisjunct
          => failed' = failed
      BY DEF CheckProperty, VerifyClone, VerifyItself, NoMoreCE, AddDisjunct, Verify, Advance
    <3>2. Die \/ VerdictTrue \/ VerdictFalse \/ (\E t \in Cex : Explain(t))
          => failed' = failed
      BY DEF Die, VerdictTrue, VerdictFalse, Explain
    <3>3. CommitCheck \/ CommitTrue \/ CommitFalse => failed' = failed
      BY DEF CommitCheck, CommitTrue, CommitFalse, Advance
    <3> QED  BY <3>1, <3>2, <3>3 DEF Step
  <2>4. ~ NoStateBeforeLast
    BY <1>2, StateBeforeLast
  <2>5. failed' = failed \/ failed' = FALSE
    BY <1>2, <2>2, <2>3, <2>4 DEF Next, vars
  <2> QED  BY <1>2, <2>1, <2>5 DEF NeverFails
<1>3. I => NeverFails
  OBVIOUS
<1> HIDE DEF I
<1> QED  BY <1>1, <1>2, <1>3, SessionInvariant, PTL DEF Spec
-----------------------------------------------------------------------------
(*                 No counter-example is shown twice                       *)

CarefulUser == ResetUnchecked = FALSE /\ "commit" \notin InterruptAt

SelfExcluding ==
    \A p \in Prop, t \in Cex : Violates(Inv[p], t) =>
        /\ 2 \in Class => t[1] \in Inv[p]
        /\ {1, 3} \cap Class # {} => KeepsFirst(Inv[p], t)

-----------------------------------------------------------------------------
(* The inductive invariant: every counter-example shown since the last     *)
(* reset has its disjunct in the list, but for the one the property refers *)
(* to, whose disjunct is generated by the next command; from the verdict   *)
(* until the commit, the one that the clone refers to takes its place.     *)
Committing(p) == stage = "commit" /\ p = cur

Excluded(p, i, ds) ==
    \E j \in 1 .. Len(ds) : ds[j] = Disjunct(eqClass, Inv[p], shown[p][i])

UncheckedIsFresh ==
    \A p \in Prop : status[p] = "Unchecked" => nextce[p] = NoNextCE /\ shown[p] = << >>

ResetIsEmpty ==
    \A p \in Prop : nextce[p].status = "Reset" =>
        /\ nextce[p].disjuncts = << >>
        /\ shown[p] = << >> \/ Committing(p)

ShownIsExcluded ==
    \A p \in Prop : ~ Committing(p) => \A i \in 1 .. Len(shown[p]) :
        \/ Excluded(p, i, nextce[p].disjuncts)
        \/ ptrace[p] # 0 /\ shown[p][i] = traces[ptrace[p]]

TargetExcludes ==
    stage \in {"check", "explain"} =>
        /\ target.disjuncts = nextce[cur].disjuncts
        /\ \A i \in 1 .. Len(shown[cur]) : Excluded(cur, i, nextce[cur].disjuncts)

ResultIsExcluded ==
    stage = "commit" => \A i \in 1 .. Len(shown[cur]) :
        \/ Excluded(cur, i, nextce[cur].disjuncts)
        \/ result = "False" /\ newTrace # 0 /\ shown[cur][i] = traces[newTrace]

CheckComesFirst ==
    cmd = "check_ltlspec" /\ stage # "prepare" => nextce[cur] = NoNextCE

VerdictIsKnown ==
    /\ stage = "check" => target.self \/ status[cur] # "Unchecked"
    /\ stage \in {"explain", "commit"} => status[cur] # "Unchecked"
    /\ stage = "explain" => result = "False"

ShownIsCex ==
    \A p \in Prop : \A i \in 1 .. Len(shown[p]) : Violates(Inv[p], shown[p][i])

EnumInv ==
    /\ UncheckedIsFresh /\ ResetIsEmpty /\ ShownIsExcluded
    /\ TargetExcludes /\ ResultIsExcluded /\ CheckComesFirst /\ VerdictIsKnown
    /\ ShownIsCex /\ eqClass \in Class
    /\ NextIsNew

-----------------------------------------------------------------------------
LEMMA InitEnum == Init => EnumInv
<1> SUFFICES ASSUME Init PROVE EnumInv
  OBVIOUS
<1>1. \A p \in Prop : shown[p] = << >> /\ nextce[p] = NoNextCE
  BY DEF Init
<1>2. stage = "prepare" /\ eqClass \in Class
  BY DEF Init
<1>3. NoNextCE.status # "Reset"
  BY DEF NoNextCE
<1>4. UncheckedIsFresh /\ ResetIsEmpty
  BY <1>1, <1>3 DEF UncheckedIsFresh, ResetIsEmpty
<1>5. ShownIsExcluded /\ ShownIsCex /\ NextIsNew
  BY <1>1 DEF ShownIsExcluded, ShownIsCex, NextIsNew
<1>6. TargetExcludes /\ ResultIsExcluded /\ CheckComesFirst /\ VerdictIsKnown
  BY <1>2 DEF TargetExcludes, ResultIsExcluded, CheckComesFirst, VerdictIsKnown
<1> QED  BY <1>2, <1>4, <1>5, <1>6 DEF EnumInv

-----------------------------------------------------------------------------
(* Steps that only move the control.                                       *)

(* Every part that does not mention the stage survives a step that leaves  *)
(* the enumerations alone.                                                 *)
LEMMA QuietShown ==
    ASSUME SessionInv, EnumInv, UNCHANGED <<status, nextce, eqClass, shown>>
    PROVE  /\ UncheckedIsFresh' /\ ShownIsCex' /\ (eqClass \in Class)' /\ NextIsNew'
BY DEF EnumInv, UncheckedIsFresh, ShownIsCex, NextIsNew

LEMMA QuietStep ==
    ASSUME SessionInv, EnumInv,
           UNCHANGED <<status, ptrace, nextce, eqClass, shown>>, TracesKept,
           stage # "commit", stage' = "prepare"
    PROVE  EnumInv'
<1>1. UncheckedIsFresh' /\ ShownIsCex' /\ (eqClass \in Class)' /\ NextIsNew'
  BY QuietShown
<1>2. ResetIsEmpty'
  BY DEF EnumInv, ResetIsEmpty, Committing
<1>3. TargetExcludes' /\ ResultIsExcluded' /\ CheckComesFirst' /\ VerdictIsKnown'
  BY DEF TargetExcludes, ResultIsExcluded, CheckComesFirst, VerdictIsKnown
<1>4. ShownIsExcluded'
  <2> SUFFICES ASSUME NEW p \in Prop, NEW i \in 1 .. Len(shown[p])
               PROVE  \/ Excluded(p, i, nextce[p].disjuncts)'
                      \/ ptrace[p] # 0 /\ shown[p][i] = traces'[ptrace[p]]
    BY DEF ShownIsExcluded
  <2>1. \/ Excluded(p, i, nextce[p].disjuncts)
        \/ ptrace[p] # 0 /\ shown[p][i] = traces[ptrace[p]]
    BY DEF EnumInv, ShownIsExcluded, Committing
  <2>2. ptrace[p] \in 0 .. Len(traces)
    BY DEF SessionInv, TypeOK, Indices
  <2> QED  BY <2>1, <2>2 DEF Excluded, TracesKept
<1> QED  BY <1>1, <1>2, <1>3, <1>4 DEF EnumInv

(* The reset of the properties of a set S.                                 *)
LEMMA ResetStep ==
    ASSUME SessionInv, EnumInv, CarefulUser, stage = "prepare", stage' = "prepare",
           NEW S, UNCHANGED <<status, ptrace, traces>>,
           \A p \in Prop : p \in S => /\ status[p] # "Unchecked"
                                    /\ nextce'[p] = ResetOf(nextce[p])
                                    /\ shown'[p] = << >>,
           \A p \in Prop : p \notin S => /\ nextce'[p] = nextce[p]
                                       /\ shown'[p] = shown[p]
                                       /\ eqClass' = eqClass,
           eqClass' \in Class
    PROVE  EnumInv'
<1>1. UncheckedIsFresh'
  BY DEF EnumInv, UncheckedIsFresh
<1>2. ResetIsEmpty'
  <2> SUFFICES ASSUME NEW p \in Prop, nextce'[p].status = "Reset"
               PROVE  nextce'[p].disjuncts = << >> /\ shown'[p] = << >>
    BY DEF ResetIsEmpty
  <2>1. CASE p \in S
    <3>1. nextce[p] \in [status : NextCEStatus, disjuncts : Seq(DisjunctType)]
      BY DEF SessionInv, TypeOK
    <3>2. ResetOf(nextce[p]).disjuncts = << >>
      BY <3>1 DEF ResetOf
    <3> QED  BY <2>1, <3>2
  <2>2. CASE p \notin S
    BY <2>2 DEF EnumInv, ResetIsEmpty, Committing
  <2> QED  BY <2>1, <2>2
<1>3. ShownIsExcluded'
  <2> SUFFICES ASSUME NEW p \in Prop, NEW i \in 1 .. Len(shown'[p])
               PROVE  \/ Excluded(p, i, nextce[p].disjuncts)'
                      \/ ptrace[p] # 0 /\ shown'[p][i] = traces[ptrace[p]]
    BY DEF ShownIsExcluded
  <2>1. p \notin S
    OBVIOUS
  <2>2. nextce'[p] = nextce[p] /\ shown'[p] = shown[p] /\ eqClass' = eqClass
    BY <2>1
  <2>3. \/ Excluded(p, i, nextce[p].disjuncts)
        \/ ptrace[p] # 0 /\ shown[p][i] = traces[ptrace[p]]
    BY <2>2 DEF EnumInv, ShownIsExcluded, Committing
  <2>4. Excluded(p, i, nextce[p].disjuncts) => Excluded(p, i, nextce[p].disjuncts)'
    BY <2>2 DEF Excluded
  <2> QED  BY <2>2, <2>3, <2>4
<1>4. TargetExcludes' /\ ResultIsExcluded' /\ CheckComesFirst' /\ VerdictIsKnown'
  BY DEF TargetExcludes, ResultIsExcluded, CheckComesFirst, VerdictIsKnown
<1>5. ShownIsCex'
  BY DEF EnumInv, ShownIsCex
<1>6. NextIsNew'
  <2> SUFFICES ASSUME NEW p \in Prop, NEW j \in 1 .. Len(shown'[p]), NEW i \in 1 .. j - 1
               PROVE  ~ Equivalent(eqClass', Inv[p], shown'[p][i], shown'[p][j])
    BY DEF NextIsNew
  <2>1. p \notin S
    OBVIOUS
  <2> QED  BY <2>1 DEF EnumInv, NextIsNew
<1> QED  BY <1>1, <1>2, <1>3, <1>4, <1>5, <1>6 DEF EnumInv

LEMMA UserEnum ==
    ASSUME SessionInv, EnumInv, CarefulUser, User
    PROVE  EnumInv'
<1>1. cmd = "idle" => stage = "prepare"
  BY DEF SessionInv, IdleIsClean
<1>2. ASSUME NEW c \in Commands, NEW first \in Prop, NEW end \in Prop,
             StartCommand(c, first, end)
      PROVE  EnumInv'
  BY <1>1, <1>2, QuietStep, KeptIfUnchanged DEF StartCommand, data, options
<1>3. ASSUME NEW first \in Prop, NEW end \in Prop, ResetCE(first, end)
      PROVE  EnumInv'
  <2> DEFINE S == first .. end
  <2>1. stage = "prepare" /\ stage' = "prepare" /\ UNCHANGED <<status, ptrace, traces>>
    BY <1>1, <1>3 DEF ResetCE, control
  <2>2. \A p \in Prop : p \in S => /\ status[p] # "Unchecked"
                                 /\ nextce'[p] = ResetOf(nextce[p])
                                 /\ shown'[p] = << >>
    BY <1>3 DEF ResetCE, Selected, CarefulUser
  <2>3. \A p \in Prop : p \notin S => /\ nextce'[p] = nextce[p]
                                    /\ shown'[p] = shown[p]
                                    /\ eqClass' = eqClass
    BY <1>3 DEF ResetCE, Selected, options
  <2>4. eqClass' \in Class
    BY <1>3 DEF ResetCE, options, EnumInv
  <2> HIDE DEF S
  <2> QED  BY <2>1, <2>2, <2>3, <2>4, ResetStep
<1>4. ASSUME NEW c \in Class, SetEquivalence(c) PROVE EnumInv'
  <2>1. stage = "prepare" /\ stage' = "prepare" /\ UNCHANGED <<status, ptrace, traces>>
    BY <1>1, <1>4 DEF SetEquivalence, control
  <2>2. \A p \in Prop : /\ status[p] # "Unchecked"
                       /\ nextce'[p] = ResetOf(nextce[p])
                       /\ shown'[p] = << >>
    BY <1>4 DEF SetEquivalence, CarefulUser
  <2>3. eqClass' \in Class
    BY <1>4 DEF SetEquivalence
  <2>4. \A p \in Prop : p \notin Prop => /\ nextce'[p] = nextce[p]
                                       /\ shown'[p] = shown[p]
                                       /\ eqClass' = eqClass
    OBVIOUS
  <2> QED  BY <2>1, <2>2, <2>3, <2>4, ResetStep
<1>5. ASSUME NEW b \in BOOLEAN, SetCounterExamples(b) PROVE EnumInv'
  BY <1>1, <1>5, QuietStep, KeptIfUnchanged DEF SetCounterExamples, data, control
<1>6. ASSUME NEW t \in OtherTrace, RegisterOtherTrace(t) PROVE EnumInv'
  <2>1. TracesKept
    BY <1>6, KeptIfAppended DEF RegisterOtherTrace, SessionInv
  <2> QED  BY <1>1, <1>6, <2>1, QuietStep DEF RegisterOtherTrace, options, control
<1>7. ASSUME Interrupt PROVE EnumInv'
  <2>1. stage # "commit" /\ stage' = "prepare"
    BY <1>7 DEF Interrupt, CarefulUser, ToPrompt
  <2> QED  BY <1>7, <2>1, QuietStep, KeptIfUnchanged DEF Interrupt, data, options
<1> QED  BY <1>2, <1>3, <1>4, <1>5, <1>6, <1>7 DEF User

-----------------------------------------------------------------------------
(* The steps of a command.                                                 *)

(* A property that has shown nothing goes to the checker.                  *)
LEMMA FreshVerify ==
    ASSUME SessionInv, EnumInv, stage = "prepare", NEW self \in BOOLEAN, Verify(self, << >>),
           UNCHANGED <<status, ptrace, traces, nextce, eqClass, shown>>,
           nextce[cur].disjuncts = << >>, shown[cur] = << >>,
           self = TRUE \/ status[cur] # "Unchecked",
           cmd = "check_ltlspec" => nextce[cur] = NoNextCE
    PROVE  EnumInv'
<1>1. /\ stage' = "check" /\ cur' = cur /\ cmd' = cmd
      /\ target' = [self |-> self, disjuncts |-> << >>]
  BY DEF Verify
<1>2. UncheckedIsFresh' /\ ShownIsCex' /\ (eqClass \in Class)' /\ NextIsNew'
  BY QuietShown
<1>3. ResetIsEmpty' /\ ShownIsExcluded'
  BY DEF EnumInv, ResetIsEmpty, ShownIsExcluded, Excluded, Committing
<1>4. TargetExcludes'
  BY <1>1 DEF TargetExcludes
<1>5. ResultIsExcluded' /\ CheckComesFirst' /\ VerdictIsKnown'
  BY <1>1 DEF ResultIsExcluded, CheckComesFirst, VerdictIsKnown
<1> QED  BY <1>2, <1>3, <1>4, <1>5 DEF EnumInv

LEMMA UncheckedVerify ==
    ASSUME SessionInv, EnumInv, stage = "prepare", Verify(TRUE, << >>),
           status[cur] = "Unchecked",
           UNCHANGED <<status, ptrace, traces, nextce, eqClass, shown>>
    PROVE  EnumInv'
<1>1. nextce[cur] = NoNextCE /\ shown[cur] = << >>
  BY DEF EnumInv, UncheckedIsFresh, SessionInv, TypeOK
<1>2. NoNextCE.disjuncts = << >>
  BY DEF NoNextCE
<1> QED  BY <1>1, <1>2, FreshVerify

(* The disjunct of the last counter-example shown joins the others.        *)
LEMMA AddDisjunctEnum ==
    ASSUME SessionInv, EnumInv, AddDisjunct
    PROVE  EnumInv'
<1> DEFINE ds == nextce[cur].disjuncts
           n == WithDisjunct(nextce[cur], NewDisjunct(cur))
<1>1. /\ cur \in Prop /\ ds \in Seq(DisjunctType)
      /\ nextce[cur] \in [status : NextCEStatus, disjuncts : Seq(DisjunctType)]
      /\ nextce \in [Prop -> [status : NextCEStatus, disjuncts : Seq(DisjunctType)]]
  BY DEF SessionInv, TypeOK
<1>2. /\ stage = "prepare" /\ Displaying
      /\ status[cur] # "Unchecked" /\ nextce[cur].status # "Reset"
  BY DEF AddDisjunct, Extending, Preparing
<1>3. n.disjuncts = Append(ds, NewDisjunct(cur)) /\ n.status # "Reset"
  <2>1. /\ CreateIfMissing(nextce[cur]).disjuncts = ds
        /\ CreateIfMissing(nextce[cur]).status # "Reset"
        /\ CreateIfMissing(nextce[cur])
              \in [status : NextCEStatus, disjuncts : Seq(DisjunctType)]
    BY <1>1, <1>2 DEF CreateIfMissing, NextCEStatus
  <2> QED  BY <2>1 DEF WithDisjunct
<1>4. /\ nextce'[cur] = n
      /\ \A p \in Prop : p # cur => nextce'[p] = nextce[p]
      /\ UNCHANGED <<status, ptrace, traces, eqClass, shown, cmd, cur>>
      /\ stage' = "check"
      /\ target' = [self |-> FALSE, disjuncts |-> n.disjuncts]
  BY <1>1 DEF AddDisjunct, Verify, options
<1> HIDE DEF n
<1>5. ASSUME NEW i \in 1 .. Len(shown[cur])
      PROVE  Excluded(cur, i, nextce[cur].disjuncts)'
  <2>1. \/ Excluded(cur, i, ds)
        \/ shown[cur][i] = AnchorOf(cur)
    BY <1>1, <1>2 DEF EnumInv, ShownIsExcluded, Committing, AnchorOf
  <2>2. CASE Excluded(cur, i, ds)
    <3>1. PICK j \in 1 .. Len(ds) : ds[j] = Disjunct(eqClass, Inv[cur], shown[cur][i])
      BY <2>2 DEF Excluded
    <3>2. j \in 1 .. Len(n.disjuncts) /\ n.disjuncts[j] = ds[j]
      BY <1>1, <1>3
    <3> QED  BY <1>4, <3>1, <3>2 DEF Excluded
  <2>3. CASE shown[cur][i] = AnchorOf(cur)
    <3>1. /\ Len(ds) + 1 \in 1 .. Len(n.disjuncts)
          /\ n.disjuncts[Len(ds) + 1] = NewDisjunct(cur)
      BY <1>1, <1>3
    <3> QED  BY <1>4, <2>3, <3>1 DEF Excluded, NewDisjunct
  <2> QED  BY <2>1, <2>2, <2>3
<1>6. UncheckedIsFresh' /\ ResetIsEmpty'
  BY <1>2, <1>3, <1>4 DEF EnumInv, UncheckedIsFresh, ResetIsEmpty, Committing
<1>7. ShownIsExcluded'
  <2> SUFFICES ASSUME NEW p \in Prop, NEW i \in 1 .. Len(shown[p])
               PROVE  \/ Excluded(p, i, nextce[p].disjuncts)'
                      \/ ptrace[p] # 0 /\ shown[p][i] = traces[ptrace[p]]
    BY <1>4 DEF ShownIsExcluded, Committing, Excluded
  <2>1. CASE p = cur
    BY <1>4, <1>5, <2>1
  <2>2. CASE p # cur
    BY <1>2, <1>4, <2>2 DEF EnumInv, ShownIsExcluded, Excluded, Committing
  <2> QED  BY <2>1, <2>2
<1>8. TargetExcludes'
  BY <1>4, <1>5 DEF TargetExcludes
<1>9. ResultIsExcluded' /\ CheckComesFirst' /\ VerdictIsKnown'
  BY <1>2, <1>4 DEF ResultIsExcluded, CheckComesFirst, VerdictIsKnown, Displaying
<1>10. ShownIsCex' /\ (eqClass \in Class)' /\ NextIsNew'
  BY <1>4 DEF EnumInv, ShownIsCex, NextIsNew
<1> QED  BY <1>6, <1>7, <1>8, <1>9, <1>10 DEF EnumInv

(* The verdict.                                                            *)
LEMMA VerdictEnum ==
    ASSUME SessionInv, EnumInv, stage = "check",
           NEW v \in {"True", "False"}, StatusOfTarget(v), result' = v,
           stage' = "commit" \/ (stage' = "explain" /\ v = "False"),
           UNCHANGED <<ptrace, nextce, traces, eqClass, cmd, cur, target, shown>>
    PROVE  EnumInv'
<1>1. cur \in Prop /\ status \in [Prop -> {"Unchecked", "True", "False"}]
  BY DEF SessionInv, TypeOK
<1>2. /\ status'[cur] # "Unchecked"
      /\ \A p \in Prop : status'[p] = "Unchecked" => status[p] = "Unchecked"
  BY <1>1 DEF StatusOfTarget, EnumInv, VerdictIsKnown
<1>3. UncheckedIsFresh'
  BY <1>2 DEF EnumInv, UncheckedIsFresh
<1>4. ResetIsEmpty' /\ ShownIsExcluded'
  BY DEF EnumInv, ResetIsEmpty, ShownIsExcluded, Excluded, Committing
<1>5. TargetExcludes' /\ ResultIsExcluded'
  BY DEF EnumInv, TargetExcludes, ResultIsExcluded, Excluded
<1>6. CheckComesFirst' /\ VerdictIsKnown'
  BY <1>2 DEF EnumInv, CheckComesFirst, VerdictIsKnown
<1>7. ShownIsCex' /\ (eqClass \in Class)' /\ NextIsNew'
  BY DEF EnumInv, ShownIsCex, NextIsNew
<1> QED  BY <1>3, <1>4, <1>5, <1>6, <1>7 DEF EnumInv

(* A path that makes the disjunct of s false is not equivalent to s.       *)
LEMMA RefutedIsNew ==
    ASSUME SelfExcluding, eqClass \in Class, NEW p \in Prop,
           NEW s \in Cex, Violates(Inv[p], s), NEW t \in Cex, Violates(Inv[p], t),
           eqClass \in EqClass,
           ~ Holds(Disjunct(eqClass, Inv[p], s), Inv[p], t)
    PROVE  ~ Equivalent(eqClass, Inv[p], s, t)
<1>1. s \in Seq(State) /\ t \in Seq(State)
  BY SessionAssumption DEF IsPath
<1>2. Holds(Disjunct(eqClass, Inv[p], s), Inv[p], s)
  BY <1>1, ExcludesItself DEF SelfExcluding
<1>3. BadPrefix(Inv[p], s) # BadPrefix(Inv[p], t)
  BY <1>1, <1>2, HoldsByPrefix
<1> QED  BY <1>3 DEF Equivalent

(* The witness is printed.                                                 *)
LEMMA ExplainEnum ==
    ASSUME SessionInv, EnumInv, SelfExcluding, NEW t \in Cex, Explain(t)
    PROVE  EnumInv'
<1>1. /\ cur \in Prop /\ shown \in [Prop -> Seq(Cex)]
      /\ traces \in Seq(Cex \cup OtherTrace) /\ ptrace \in [Prop -> 0 .. Len(traces)]
      /\ nextce[cur].disjuncts \in Seq(DisjunctType)
  BY DEF SessionInv, TypeOK, Indices
<1>2. /\ stage = "explain" /\ stage' = "commit"
      /\ traces' = Append(traces, t) /\ newTrace' = Len(traces) + 1
      /\ shown'[cur] = Append(shown[cur], t)
      /\ \A p \in Prop : p # cur => shown'[p] = shown[p]
      /\ UNCHANGED <<status, ptrace, nextce, eqClass, cmd, cur, target, result>>
  BY <1>1 DEF Explain, NewIndex, options
<1>3. status[cur] # "Unchecked" /\ result = "False"
  BY <1>2 DEF EnumInv, VerdictIsKnown
<1>4. /\ target.disjuncts = nextce[cur].disjuncts
      /\ \A i \in 1 .. Len(shown[cur]) : Excluded(cur, i, nextce[cur].disjuncts)
  BY <1>2 DEF EnumInv, TargetExcludes
<1>5. /\ Violates(Inv[cur], t)
      /\ \A j \in 1 .. Len(nextce[cur].disjuncts) :
            ~ Holds(nextce[cur].disjuncts[j], Inv[cur], t)
  BY <1>1, <1>4 DEF Explain, Refutes
<1>6. /\ Len(shown'[cur]) = Len(shown[cur]) + 1
      /\ \A i \in 1 .. Len(shown[cur]) : shown'[cur][i] = shown[cur][i]
      /\ shown'[cur][Len(shown[cur]) + 1] = t
      /\ Len(shown[cur]) \in Nat
      /\ \A i \in 1 .. Len(shown[cur]) : shown[cur][i] \in Cex
  BY <1>1, <1>2
<1>7. /\ traces'[Len(traces) + 1] = t /\ Len(traces) \in Nat
      /\ \A i \in 1 .. Len(traces) : traces'[i] = traces[i]
  BY <1>1, <1>2
<1>8. UncheckedIsFresh'
  BY <1>2, <1>3 DEF EnumInv, UncheckedIsFresh
<1>9. ResetIsEmpty'
  BY <1>2 DEF EnumInv, ResetIsEmpty, Committing
<1>10. ShownIsExcluded'
  <2>1. ASSUME NEW p \in Prop, ~ Committing(p)', NEW i \in 1 .. Len(shown'[p])
        PROVE  \/ Excluded(p, i, nextce[p].disjuncts)'
               \/ ptrace'[p] # 0 /\ shown'[p][i] = traces'[ptrace'[p]]
    <3>1. p # cur
      BY <1>2, <2>1 DEF Committing
    <3>2. /\ shown'[p] = shown[p] /\ ptrace' = ptrace
          /\ nextce' = nextce /\ eqClass' = eqClass
      BY <1>2, <3>1
    <3>3. ShownIsExcluded /\ ~ Committing(p) /\ i \in 1 .. Len(shown[p])
      BY <1>2, <2>1, <3>2 DEF EnumInv, Committing
    <3>4. \/ Excluded(p, i, nextce[p].disjuncts)
          \/ ptrace[p] # 0 /\ shown[p][i] = traces[ptrace[p]]
      BY <3>3 DEF ShownIsExcluded
    <3>5. ptrace[p] \in 0 .. Len(traces)
      BY <1>1
    <3> QED  BY <1>7, <3>2, <3>4, <3>5 DEF Excluded
  <2> QED  BY <2>1 DEF ShownIsExcluded
<1>11. TargetExcludes' /\ CheckComesFirst' /\ VerdictIsKnown'
  BY <1>2, <1>3 DEF EnumInv, TargetExcludes, CheckComesFirst, VerdictIsKnown
<1>12. ResultIsExcluded'
  <2> SUFFICES ASSUME NEW i \in 1 .. Len(shown'[cur])
               PROVE  \/ Excluded(cur, i, nextce[cur].disjuncts)'
                      \/ shown'[cur][i] = t
    <3>1. result' = "False" /\ newTrace' # 0 /\ traces'[newTrace'] = t /\ cur' = cur
      BY <1>2, <1>3, <1>7
    <3> QED  BY <3>1 DEF ResultIsExcluded, Excluded
  <2>1. CASE i \in 1 .. Len(shown[cur])
    BY <1>2, <1>4, <1>6, <2>1 DEF Excluded
  <2>2. CASE i = Len(shown[cur]) + 1
    BY <1>6, <2>2
  <2> QED  BY <1>6, <2>1, <2>2
<1>13. ShownIsCex'
  <2> SUFFICES ASSUME NEW p \in Prop, NEW i \in 1 .. Len(shown'[p])
               PROVE  Violates(Inv[p], shown'[p][i])
    BY DEF ShownIsCex
  <2>1. CASE p # cur
    BY <1>2, <2>1 DEF EnumInv, ShownIsCex
  <2>2. CASE p = cur /\ i \in 1 .. Len(shown[cur])
    BY <1>1, <1>6, <2>2 DEF EnumInv, ShownIsCex
  <2>3. CASE p = cur /\ i = Len(shown[cur]) + 1
    BY <1>5, <1>6, <2>3
  <2> QED  BY <1>6, <2>1, <2>2, <2>3
<1>14. NextIsNew'
  <2> SUFFICES ASSUME NEW p \in Prop, NEW j \in 1 .. Len(shown'[p]), NEW i \in 1 .. j - 1
               PROVE  ~ Equivalent(eqClass, Inv[p], shown'[p][i], shown'[p][j])
    BY <1>2 DEF NextIsNew
  <2>1. CASE p # cur
    BY <1>2, <2>1 DEF EnumInv, NextIsNew
  <2>2. CASE p = cur /\ j \in 1 .. Len(shown[cur])
    <3>1. i \in 1 .. Len(shown[cur])
      BY <1>6, <2>2
    <3> QED  BY <1>1, <1>6, <2>2, <3>1 DEF EnumInv, NextIsNew
  <2>3. CASE p = cur /\ j = Len(shown[cur]) + 1
    <3>1. i \in 1 .. Len(shown[cur])
      BY <1>6, <2>3
    <3> DEFINE s == shown[cur][i]
    <3>2. PICK l \in 1 .. Len(nextce[cur].disjuncts) :
            nextce[cur].disjuncts[l] = Disjunct(eqClass, Inv[cur], s)
      BY <1>4, <3>1 DEF Excluded
    <3>3. Disjunct(eqClass, Inv[cur], s) \in DisjunctType
      BY <1>1, <3>2
    <3>4. eqClass \in EqClass
      BY <3>3 DEF Disjunct, DisjunctType
    <3>5. ~ Holds(Disjunct(eqClass, Inv[cur], s), Inv[cur], t)
      BY <1>5, <3>2
    <3>6. s \in Cex /\ Violates(Inv[cur], s)
      BY <1>1, <1>6, <3>1 DEF EnumInv, ShownIsCex
    <3>7. ~ Equivalent(eqClass, Inv[cur], s, t)
      BY <1>1, <1>5, <3>4, <3>5, <3>6, RefutedIsNew DEF EnumInv
    <3> QED  BY <1>6, <2>3, <3>1, <3>7
  <2> QED  BY <1>6, <2>1, <2>2, <2>3
<1> QED  BY <1>2, <1>8, <1>9, <1>10, <1>11, <1>12, <1>13, <1>14 DEF EnumInv

(* The bookkeeping after Prop_verify.                                      *)
LEMMA CommitStep ==
    ASSUME SessionInv, EnumInv, stage = "commit", stage' = "prepare",
           UNCHANGED <<status, traces, eqClass, shown>>,
           \A p \in Prop : p # cur => nextce'[p] = nextce[p] /\ ptrace'[p] = ptrace[p],
           nextce'[cur].disjuncts = nextce[cur].disjuncts,
           nextce'[cur].status # "Reset",
           \A i \in 1 .. Len(shown[cur]) :
               \/ Excluded(cur, i, nextce[cur].disjuncts)
               \/ ptrace'[cur] # 0 /\ shown[cur][i] = traces[ptrace'[cur]]
    PROVE  EnumInv'
<1>1. status[cur] # "Unchecked"
  BY DEF EnumInv, VerdictIsKnown
<1>2. UncheckedIsFresh'
  BY <1>1 DEF EnumInv, UncheckedIsFresh
<1>3. ResetIsEmpty'
  BY DEF EnumInv, ResetIsEmpty, Committing
<1>4. ShownIsExcluded'
  <2> SUFFICES ASSUME NEW p \in Prop, NEW i \in 1 .. Len(shown[p])
               PROVE  \/ Excluded(p, i, nextce'[p].disjuncts)
                      \/ ptrace'[p] # 0 /\ shown[p][i] = traces[ptrace'[p]]
    BY DEF ShownIsExcluded, Excluded
  <2>1. CASE p = cur
    BY <2>1
  <2>2. CASE p # cur
    BY <2>2 DEF EnumInv, ShownIsExcluded, Committing
  <2> QED  BY <2>1, <2>2
<1>5. TargetExcludes' /\ ResultIsExcluded' /\ CheckComesFirst' /\ VerdictIsKnown'
  BY DEF TargetExcludes, ResultIsExcluded, CheckComesFirst, VerdictIsKnown
<1>6. ShownIsCex' /\ (eqClass \in Class)' /\ NextIsNew'
  BY DEF EnumInv, ShownIsCex, NextIsNew
<1> QED  BY <1>2, <1>3, <1>4, <1>5, <1>6 DEF EnumInv

LEMMA CommitEnum ==
    ASSUME SessionInv, EnumInv, CommitCheck \/ CommitTrue \/ CommitFalse
    PROVE  EnumInv'
<1>1. cur \in Prop /\ ptrace \in [Prop -> Indices]
  BY DEF SessionInv, TypeOK
<1>2. stage = "commit" => \A i \in 1 .. Len(shown[cur]) :
        \/ Excluded(cur, i, nextce[cur].disjuncts)
        \/ result = "False" /\ newTrace # 0 /\ shown[cur][i] = traces[newTrace]
  BY DEF EnumInv, ResultIsExcluded
<1>3. CASE CommitCheck
  <2>1. /\ stage = "commit" /\ stage' = "prepare" /\ nextce' = nextce
        /\ ptrace'[cur] = newTrace
        /\ \A p \in Prop : p # cur => ptrace'[p] = ptrace[p]
        /\ UNCHANGED <<status, traces, eqClass, shown>>
    BY <1>1, <1>3, AdvancePrepares DEF CommitCheck, options
  <2>2. nextce[cur] = NoNextCE
    BY <1>3 DEF CommitCheck, EnumInv, CheckComesFirst
  <2>3. nextce[cur].status # "Reset"
    BY <2>2 DEF NoNextCE
  <2> QED  BY <1>2, <2>1, <2>3, CommitStep
<1>4. CASE CommitTrue
  <2>1. /\ stage = "commit" /\ stage' = "prepare" /\ result = "True"
        /\ UNCHANGED <<status, ptrace, traces, eqClass, shown>>
    BY <1>4, AdvancePrepares DEF CommitTrue, options
  <2>2. /\ \A p \in Prop : p # cur => nextce'[p] = nextce[p]
        /\ nextce'[cur].disjuncts = nextce[cur].disjuncts
        /\ nextce'[cur].status # "Reset"
    BY <1>4, RecordKeeps DEF CommitTrue
  <2>3. \A i \in 1 .. Len(shown[cur]) : Excluded(cur, i, nextce[cur].disjuncts)
    BY <1>2, <2>1
  <2> QED  BY <2>1, <2>2, <2>3, CommitStep
<1>5. CASE CommitFalse
  <2>1. /\ stage = "commit" /\ stage' = "prepare"
        /\ ptrace'[cur] = newTrace
        /\ \A p \in Prop : p # cur => ptrace'[p] = ptrace[p]
        /\ UNCHANGED <<status, traces, eqClass, shown>>
    BY <1>1, <1>5, AdvancePrepares DEF CommitFalse, options
  <2>2. /\ \A p \in Prop : p # cur => nextce'[p] = nextce[p]
        /\ nextce'[cur].disjuncts = nextce[cur].disjuncts
        /\ nextce'[cur].status # "Reset"
    BY <1>5, RecordKeeps DEF CommitFalse
  <2> QED  BY <1>2, <2>1, <2>2, CommitStep
<1> QED  BY <1>3, <1>4, <1>5

LEMMA StepEnum ==
    ASSUME SessionInv, EnumInv, SelfExcluding, Step
    PROVE  EnumInv'
<1>1. CASE CheckProperty
  <2>1. CASE status[cur] = "Unchecked"
    BY <1>1, <2>1, UncheckedVerify DEF CheckProperty, data, options
  <2>2. CASE status[cur] # "Unchecked"
    BY <1>1, <2>2, AdvancePrepares, QuietStep, KeptIfUnchanged
       DEF CheckProperty, data, options
  <2> QED  BY <2>1, <2>2
<1>2. CASE VerifyClone
  <2>1. /\ stage = "prepare" /\ nextce[cur].status = "Reset" /\ cur \in Prop
        /\ Verify(FALSE, << >>) /\ cmd # "check_ltlspec"
        /\ UNCHANGED <<status, ptrace, traces, nextce, eqClass, shown>>
    BY <1>2 DEF VerifyClone, Preparing, Displaying, data, options, SessionInv, TypeOK
  <2>2. nextce[cur].disjuncts = << >> /\ shown[cur] = << >>
    BY <2>1 DEF EnumInv, ResetIsEmpty, Committing
  <2>3. status[cur] # "Unchecked"
    BY <2>1 DEF EnumInv, UncheckedIsFresh, NoNextCE
  <2> QED  BY <2>1, <2>2, <2>3, FreshVerify
<1>3. CASE VerifyItself
  BY <1>3, UncheckedVerify DEF VerifyItself, Preparing, data, options
<1>4. CASE NoMoreCE
  BY <1>4, AdvancePrepares, QuietStep, KeptIfUnchanged
     DEF NoMoreCE, Preparing, data, options
<1>5. CASE AddDisjunct
  BY <1>5, AddDisjunctEnum
<1>6. CASE NoStateBeforeLast
  BY <1>6, QuietStep, KeptIfUnchanged
     DEF NoStateBeforeLast, Extending, Preparing, ToPrompt, data, options
<1>7. CASE Die
  BY <1>7, QuietStep, KeptIfUnchanged DEF Die, Extending, Preparing, data, options
<1>8. CASE VerdictTrue
  BY <1>8, VerdictEnum DEF VerdictTrue, options
<1>9. CASE VerdictFalse
  BY <1>9, VerdictEnum DEF VerdictFalse, options
<1>10. CASE \E t \in Cex : Explain(t)
  BY <1>10, ExplainEnum
<1>11. CASE CommitCheck \/ CommitTrue \/ CommitFalse
  BY <1>11, CommitEnum
<1> QED  BY <1>1, <1>2, <1>3, <1>4, <1>5, <1>6, <1>7, <1>8, <1>9, <1>10, <1>11 DEF Step

LEMMA StutterEnum ==
    ASSUME EnumInv, UNCHANGED vars
    PROVE  EnumInv'
BY DEF vars, EnumInv, UncheckedIsFresh, ResetIsEmpty, ShownIsExcluded, TargetExcludes,
       ResultIsExcluded, CheckComesFirst, VerdictIsKnown, ShownIsCex, NextIsNew,
       Excluded, Committing

-----------------------------------------------------------------------------
(* next_ce and compute_all never show a counter-example twice within an    *)
(* enumeration, not even up to the class in force.                         *)
THEOREM NextIsAlwaysNew == CarefulUser /\ SelfExcluding /\ Spec => []NextIsNew
<1> SUFFICES ASSUME CarefulUser, SelfExcluding PROVE Spec => []NextIsNew
  OBVIOUS
<1>1. Init => EnumInv
  BY InitEnum
<1>2. SessionInv /\ EnumInv /\ [Next]_vars => EnumInv'
  BY UserEnum, StepEnum, StutterEnum DEF Next
<1>3. EnumInv => NextIsNew
  BY DEF EnumInv
<1> QED  BY <1>1, <1>2, <1>3, SessionInvariant, PTL DEF Spec
-----------------------------------------------------------------------------
(* Seen from one property, the session is the enumeration CeEnumeration    *)
(* promises.  Its operators are those of FiPath.                           *)
LEMMA SameTrimming ==
    /\ \A p, inv, t : Enumeration(p)!TruncStep(inv, t) = TruncStep(inv, t)
    /\ \A p, t, until : Enumeration(p)!InitStep(t, until) = InitStep(t, until)
BY DEF Enumeration!TruncStep, TruncStep, Enumeration!InitStep, InitStep

LEMMA SameDisjuncts ==
    \A p, c, inv, t : Enumeration(p)!Disjunct(c, inv, t) = Disjunct(c, inv, t)
<1>1. \A p, inv, t : Enumeration(p)!Fipath(inv, t) = Fipath(inv, t)
  BY SameTrimming DEF Enumeration!Fipath, Fipath
<1> QED  BY <1>1 DEF Enumeration!Disjunct, Disjunct

LEMMA SameHolds ==
    \A p, d, inv, t : Enumeration(p)!Holds(d, inv, t) <=> Holds(d, inv, t)
<1>1. \A p, c, t, k : Enumeration(p)!Embeds(c, t, k) <=> Embeds(c, t, k)
  BY DEF Enumeration!Embeds, Embeds
<1>2. \A p, c, t, k :
          /\ Enumeration(p)!SameLastEdge(c, t, k) <=> SameLastEdge(c, t, k)
          /\ Enumeration(p)!SameEnds(c, t, k) <=> SameEnds(c, t, k)
          /\ Enumeration(p)!SameLast(c, t, k) <=> SameLast(c, t, k)
  BY DEF Enumeration!SameLastEdge, SameLastEdge, Enumeration!SameEnds, SameEnds,
         Enumeration!SameLast, SameLast
<1> QED  BY <1>1, <1>2, SameTrimming DEF Enumeration!Holds, Holds

LEMMA SameNew ==
    ASSUME NEW p, NEW t
    PROVE  Enumeration(p)!New(t) <=>
               /\ Violates(Inv[p], t)
               /\ \A i \in DOMAIN shown[p] : ~ Equivalent(eqClass, Inv[p], shown[p][i], t)
<1>1. \A inv : Enumeration(p)!Violates(inv, t) <=> Violates(inv, t)
  BY DEF Enumeration!Violates, Violates
<1>2. \A inv, s : Enumeration(p)!BadPrefix(inv, s) = BadPrefix(inv, s)
  BY SameTrimming DEF Enumeration!BadPrefix, BadPrefix
<1>3. \A c, inv, s : Enumeration(p)!Equivalent(c, inv, s, t) <=> Equivalent(c, inv, s, t)
  BY <1>2, SameDisjuncts, SameHolds DEF Enumeration!Equivalent, Equivalent
<1> QED  BY <1>1, <1>3 DEF Enumeration!New

(* No property is verified again once its enumeration is done.             *)
DoneIsQuiet == stage # "prepare" => nextce[cur].status # "True"

EnumerationStep(p) ==
    [Enumeration(p)!Next]_<<eqClass, shown[p], nextce[p].status = "True">>

LEMMA SilentStep ==
    ASSUME NEW p \in Prop, eqClass' = eqClass, shown'[p] = shown[p],
           nextce'[p].status = "True" <=> nextce[p].status = "True"
    PROVE  EnumerationStep(p)
BY Zenon DEF EnumerationStep

LEMMA RestartStep ==
    ASSUME NEW p \in Prop, eqClass' \in 1 .. 5, shown'[p] = << >>,
           nextce'[p].status = "Reset"
    PROVE  EnumerationStep(p)
<1>1. (nextce'[p].status = "True") = FALSE
  OBVIOUS
<1>2. Enumeration(p)!Restart
  BY <1>1 DEF Enumeration!Restart
<1> QED  BY <1>2 DEF EnumerationStep, Enumeration!Next

LEMMA ResetStatus ==
    ASSUME SessionInv, NEW p \in Prop
    PROVE  ResetOf(nextce[p]).status = "Reset"
<1>1. nextce[p] \in [status : NextCEStatus, disjuncts : Seq(DisjunctType)]
  BY DEF SessionInv, TypeOK
<1> QED  BY <1>1 DEF ResetOf

LEMMA UserEnumerates ==
    ASSUME SessionInv, User
    PROVE  \A p \in Prop : EnumerationStep(p)
<1> SUFFICES ASSUME NEW p \in Prop PROVE EnumerationStep(p)
  OBVIOUS
<1>1. eqClass \in 1 .. 5 /\ Class \subseteq 1 .. 5
  BY SessionAssumption DEF SessionInv, TypeOK
<1>2. ASSUME NEW first \in Prop, NEW end \in Prop, ResetCE(first, end)
      PROVE  EnumerationStep(p)
  <2>1. /\ eqClass' = eqClass
        /\ nextce'[p] = IF p \in first .. end THEN ResetOf(nextce[p]) ELSE nextce[p]
        /\ shown'[p] = IF p \in first .. end THEN << >> ELSE shown[p]
    BY <1>2 DEF ResetCE, Selected, options
  <2>2. CASE p \in first .. end
    <3>1. eqClass' \in 1 .. 5 /\ shown'[p] = << >> /\ nextce'[p].status = "Reset"
      BY <1>1, <2>1, <2>2, ResetStatus
    <3> QED  BY <3>1, RestartStep
  <2>3. CASE p \notin first .. end
    <3>1. nextce'[p] = nextce[p] /\ shown'[p] = shown[p]
      BY <2>1, <2>3
    <3> QED  BY <2>1, <3>1, SilentStep
  <2> QED  BY <2>2, <2>3
<1>3. ASSUME NEW c \in Class, SetEquivalence(c) PROVE EnumerationStep(p)
  <2>1. eqClass' \in 1 .. 5 /\ shown'[p] = << >> /\ nextce'[p].status = "Reset"
    BY <1>1, <1>3, ResetStatus DEF SetEquivalence
  <2> QED  BY <2>1, RestartStep
<1>4. ASSUME UNCHANGED <<nextce, eqClass, shown>> PROVE EnumerationStep(p)
  BY <1>4, SilentStep
<1>5. ASSUME NEW c \in Commands, NEW first \in Prop, NEW end \in Prop,
             StartCommand(c, first, end)
      PROVE  EnumerationStep(p)
  BY <1>4, <1>5 DEF StartCommand, data, options
<1>6. ASSUME NEW b \in BOOLEAN, SetCounterExamples(b) PROVE EnumerationStep(p)
  BY <1>4, <1>6 DEF SetCounterExamples, data
<1>7. ASSUME NEW t \in OtherTrace, RegisterOtherTrace(t) PROVE EnumerationStep(p)
  BY <1>4, <1>7 DEF RegisterOtherTrace, options
<1>8. CASE Interrupt
  BY <1>4, <1>8 DEF Interrupt, data, options
<1> QED  BY <1>2, <1>3, <1>5, <1>6, <1>7, <1>8 DEF User

(* A counter-example printed is one more of the enumeration.               *)
LEMMA ExplainShows ==
    ASSUME SessionInv, DoneIsQuiet, NextIsNew', NEW t \in Cex, Explain(t)
    PROVE  \A p \in Prop : EnumerationStep(p)
<1> SUFFICES ASSUME NEW p \in Prop PROVE EnumerationStep(p)
  OBVIOUS
<1>1. /\ cur \in Prop /\ shown \in [Prop -> Seq(Cex)]
      /\ UNCHANGED <<nextce, eqClass>>
      /\ shown' = [shown EXCEPT ![cur] = Append(@, t)]
      /\ nextce[cur].status # "True"
      /\ Violates(Inv[cur], t)
  BY DEF Explain, options, SessionInv, TypeOK, DoneIsQuiet, Refutes
<1>2. CASE p # cur
  <2>1. shown'[p] = shown[p]
    BY <1>1, <1>2
  <2> QED  BY <1>1, <2>1, SilentStep
<1>3. CASE p = cur
  <2> DEFINE s == shown[p]
             n == Len(s)
  <2>1. s \in Seq(Cex) /\ n \in Nat /\ shown'[p] = Append(s, t)
    BY <1>1, <1>3
  <2>2. /\ Len(shown'[p]) = n + 1 /\ shown'[p][n + 1] = t
        /\ \A i \in 1 .. n : shown'[p][i] = s[i]
    BY <2>1
  <2>3. \A i \in 1 .. n : ~ Equivalent(eqClass, Inv[p], s[i], t)
    <3>1. \A i \in 1 .. (n + 1) - 1 :
              ~ Equivalent(eqClass, Inv[p], shown'[p][i], shown'[p][n + 1])
      BY <1>1, <2>1, <2>2 DEF NextIsNew
    <3>2. (n + 1) - 1 = n
      BY <2>1
    <3> QED  BY <2>2, <3>1, <3>2
  <2>4. DOMAIN s = 1 .. n
    BY <2>1
  <2>5. Enumeration(p)!New(t)
    BY <1>1, <1>3, <2>3, <2>4, SameNew
  <2>6. /\ ~ (nextce[p].status = "True")
        /\ (nextce'[p].status = "True") = (nextce[p].status = "True")
    BY <1>1, <1>3
  <2> HIDE DEF s, n
  <2>7. shown'[p] = Append(shown[p], t)
    BY <2>1 DEF s
  <2>8. Enumeration(p)!Show(t)
    BY <1>1, <2>5, <2>6, <2>7, Zenon DEF Enumeration!Show
  <2> QED  BY <2>8 DEF EnumerationStep, Enumeration!Next
<1> QED  BY <1>2, <1>3

(* "No more counterexamples" ends the enumeration: none is left.           *)
LEMMA CommitFinishes ==
    ASSUME SessionInv, NoMoreMeansCovered', CommitTrue
    PROVE  \A p \in Prop : EnumerationStep(p)
<1> SUFFICES ASSUME NEW p \in Prop PROVE EnumerationStep(p)
  OBVIOUS
<1>1. /\ cur \in Prop /\ shown \in [Prop -> Seq(Cex)]
      /\ UNCHANGED <<shown, eqClass>>
      /\ \A q \in Prop : q # cur => nextce'[q] = nextce[q]
      /\ nextce'[cur].status = "True"
  BY RecordKeeps DEF CommitTrue, options, SessionInv, TypeOK
<1>2. CASE p # cur
  <2>1. nextce'[p] = nextce[p] /\ shown'[p] = shown[p] /\ eqClass' = eqClass
    BY <1>1, <1>2
  <2> QED  BY <2>1, SilentStep
<1>3. CASE p = cur
  <2>1. DOMAIN shown[p] = 1 .. Len(shown[p])
    BY <1>1
  <2>2. ASSUME NEW t \in Cex PROVE ~ Enumeration(p)!New(t)
    <3>1. Violates(Inv[p], t) => \E i \in 1 .. Len(shown[p]) :
                                     Equivalent(eqClass, Inv[p], shown[p][i], t)
      BY <1>1, <1>3 DEF NoMoreMeansCovered
    <3> QED  BY <2>1, <3>1, SameNew
  <2>3. (nextce'[p].status = "True") = TRUE /\ shown'[p] = shown[p] /\ eqClass' = eqClass
    BY <1>1, <1>3
  <2>4. Enumeration(p)!Finish
    BY <2>2, <2>3 DEF Enumeration!Finish
  <2> QED  BY <2>4 DEF EnumerationStep, Enumeration!Next
<1> QED  BY <1>2, <1>3

LEMMA StepEnumerates ==
    ASSUME SessionInv, DoneIsQuiet, NextIsNew', NoMoreMeansCovered', Step
    PROVE  \A p \in Prop : EnumerationStep(p)
<1> SUFFICES ASSUME NEW p \in Prop PROVE EnumerationStep(p)
  OBVIOUS
<1>0. cur \in Prop /\ nextce \in [Prop -> [status : NextCEStatus, disjuncts : Seq(DisjunctType)]]
  BY DEF SessionInv, TypeOK
<1>1. ASSUME UNCHANGED <<nextce, eqClass, shown>> PROVE EnumerationStep(p)
  BY <1>1, SilentStep
<1>2. \/ CheckProperty \/ VerifyClone \/ VerifyItself \/ NoMoreCE \/ NoStateBeforeLast
      \/ Die \/ VerdictTrue \/ VerdictFalse \/ CommitCheck
      => UNCHANGED <<nextce, eqClass, shown>>
  BY DEF CheckProperty, VerifyClone, VerifyItself, NoMoreCE, NoStateBeforeLast, Die,
         VerdictTrue, VerdictFalse, CommitCheck, data, options
<1>3. CASE AddDisjunct
  <2>1. /\ UNCHANGED <<eqClass, shown>>
        /\ nextce' = [nextce EXCEPT ![cur] = WithDisjunct(nextce[cur], NewDisjunct(cur))]
    BY <1>3 DEF AddDisjunct, options
  <2>2. WithDisjunct(nextce[cur], NewDisjunct(cur)).status = "True"
            <=> nextce[cur].status = "True"
    BY <1>0 DEF WithDisjunct, CreateIfMissing, NoNextCE
  <2>3. nextce'[p].status = "True" <=> nextce[p].status = "True"
    BY <1>0, <2>1, <2>2
  <2> QED  BY <2>1, <2>3, SilentStep
<1>4. CASE \E t \in Cex : Explain(t)
  BY <1>4, ExplainShows
<1>5. CASE CommitTrue
  BY <1>5, CommitFinishes
<1>6. CASE CommitFalse
  <2>1. /\ UNCHANGED <<eqClass, shown>>
        /\ \A q \in Prop : q # cur => nextce'[q] = nextce[q]
        /\ nextce'[cur].status = "False" /\ nextce[cur].status # "True"
    BY <1>6, RecordKeeps DEF CommitFalse, options, DoneIsQuiet
  <2>2. nextce'[p].status = "True" <=> nextce[p].status = "True"
    BY <2>1
  <2> QED  BY <2>1, <2>2, SilentStep
<1> QED  BY <1>1, <1>2, <1>3, <1>4, <1>5, <1>6 DEF Step

LEMMA DoneStaysQuiet ==
    ASSUME SessionInv, EnumInv, DoneIsQuiet, [Next]_vars
    PROVE  DoneIsQuiet'
<1>0. cur \in Prop /\ nextce \in [Prop -> [status : NextCEStatus, disjuncts : Seq(DisjunctType)]]
  BY DEF SessionInv, TypeOK
<1>1. CASE User
  <2>1. cmd = "idle" => stage = "prepare"
    BY DEF SessionInv, IdleIsClean
  <2>2. stage' = "prepare"
    BY <1>1, <2>1 DEF User, StartCommand, ResetCE, SetEquivalence, SetCounterExamples,
                      RegisterOtherTrace, Interrupt, ToPrompt, control
  <2> QED  BY <2>2 DEF DoneIsQuiet
<1>2. CASE UNCHANGED <<stage, nextce, cur>> \/ stage' = "prepare"
  BY <1>2 DEF DoneIsQuiet
<1>3. ASSUME Verify(TRUE, << >>), UNCHANGED nextce, status[cur] = "Unchecked"
      PROVE  DoneIsQuiet'
  BY <1>0, <1>3 DEF Verify, DoneIsQuiet, EnumInv, UncheckedIsFresh, NoNextCE
<1>4. CASE CheckProperty
  BY <1>2, <1>3, <1>4, AdvancePrepares DEF CheckProperty, data
<1>5. CASE VerifyItself
  BY <1>3, <1>5 DEF VerifyItself, data
<1>6. CASE VerifyClone
  BY <1>6 DEF VerifyClone, Verify, data, DoneIsQuiet
<1>7. CASE AddDisjunct
  <2>1. /\ cur' = cur
        /\ nextce' = [nextce EXCEPT ![cur] = WithDisjunct(nextce[cur], NewDisjunct(cur))]
        /\ nextce[cur].status # "True"
    BY <1>7 DEF AddDisjunct, Extending, Verify
  <2>2. WithDisjunct(nextce[cur], NewDisjunct(cur)).status # "True"
    BY <1>0, <2>1 DEF WithDisjunct, CreateIfMissing, NoNextCE
  <2> QED  BY <1>0, <2>1, <2>2 DEF DoneIsQuiet
<1>8. NoMoreCE \/ NoStateBeforeLast \/ Die \/ CommitCheck \/ CommitTrue \/ CommitFalse
      => UNCHANGED <<stage, nextce, cur>> \/ stage' = "prepare"
  BY AdvancePrepares DEF NoMoreCE, NoStateBeforeLast, ToPrompt, Die, CommitCheck, CommitTrue,
                         CommitFalse, data
<1>9. CASE VerdictTrue \/ VerdictFalse \/ \E t \in Cex : Explain(t)
  <2>1. stage # "prepare" /\ UNCHANGED <<nextce, cur>>
    BY <1>9 DEF VerdictTrue, VerdictFalse, Explain
  <2> QED  BY <2>1 DEF DoneIsQuiet
<1>10. CASE UNCHANGED vars
  BY <1>2, <1>10 DEF vars
<1> QED  BY <1>1, <1>2, <1>4, <1>5, <1>6, <1>7, <1>8, <1>9, <1>10 DEF Next, Step

(* Every step of the session is, for every property, a step of its         *)
(* enumeration or none.                                                    *)
THEOREM SessionEnumerates == CarefulUser /\ SelfExcluding /\ Spec => Enumerates
<1> SUFFICES ASSUME CarefulUser, SelfExcluding PROVE Spec => Enumerates
  OBVIOUS
<1>1. Init => EnumInv /\ DoneIsQuiet /\ \A p \in Prop : Enumeration(p)!Init
  <2> SUFFICES ASSUME Init PROVE EnumInv /\ DoneIsQuiet /\ \A p \in Prop : Enumeration(p)!Init
    OBVIOUS
  <2>1. /\ eqClass \in 1 .. 5 /\ \A p \in Prop : shown[p] = << >>
        /\ \A p \in Prop : (nextce[p].status = "True") = FALSE
        /\ stage = "prepare"
    BY SessionAssumption DEF Init, NoNextCE
  <2> QED  BY <2>1, InitEnum DEF DoneIsQuiet, Enumeration!Init
<1>2. SessionInv /\ EnumInv /\ [Next]_vars => EnumInv'
  BY UserEnum, StepEnum, StutterEnum DEF Next
<1>3. SessionInv /\ EnumInv /\ DoneIsQuiet /\ [Next]_vars => DoneIsQuiet'
  BY DoneStaysQuiet
<1>4. ASSUME SessionInv, DoneIsQuiet, EnumInv', NoMoreMeansCovered', [Next]_vars
      PROVE  \A p \in Prop : EnumerationStep(p)
  <2>1. CASE User
    BY <1>4, <2>1, UserEnumerates
  <2>2. CASE Step
    BY <1>4, <2>2, StepEnumerates DEF EnumInv
  <2>3. CASE UNCHANGED vars
    BY <2>3, SilentStep DEF vars
  <2> QED  BY <1>4, <2>1, <2>2, <2>3 DEF Next
<1>5. ASSUME SessionInv, DoneIsQuiet, EnumInv', NoMoreMeansCovered', [Next]_vars
      PROVE  [\A p \in Prop : [Enumeration(p)!Next]_<<eqClass, shown[p],
                                      nextce[p].status = "True">>]_vars
  BY <1>4, <1>5 DEF EnumerationStep
<1> QED  BY <1>1, <1>2, <1>3, <1>5, SessionInvariant, NoMoreAlwaysMeansCovered, PTL
         DEF Spec, Enumerates
=============================================================================
