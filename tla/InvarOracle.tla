---------------------------- MODULE InvarOracle ----------------------------
(***************************************************************************)
(* What a user of the invariant checks may rely on.  A question is a set   *)
(* of bad states; it is answered, once and without regard to the questions *)
(* asked before, unless the user interrupts.  The answer is right; only a  *)
(* strategy with bounded model checking may leave it open.                 *)
(***************************************************************************)
EXTENDS Fsm

VARIABLES
    fsm,        \* the machine
    asked,      \* the question being answered: <<its bad states>>, or << >>
    mayGiveUp,  \* does the strategy have a bound?
    answer      \* "none" as long as there is no answer

vars == <<fsm, asked, mayGiveUp, answer>>

OInit == /\ fsm \in Machine
         /\ asked = << >>
         /\ mayGiveUp = FALSE
         /\ answer = "none"

Ask == /\ asked = << >>
       /\ \E bad \in SUBSET fsm.invar : asked' = <<bad>>
       /\ mayGiveUp' \in BOOLEAN
       /\ UNCHANGED <<fsm, answer>>

RightAnswers == (IF Reachable(fsm) \cap asked[1] = {} THEN {"true"} ELSE {"false"})
                    \cup (IF mayGiveUp THEN {"unknown"} ELSE {})

Answer == /\ asked # << >>
          /\ answer = "none"
          /\ answer' \in RightAnswers
          /\ UNCHANGED <<fsm, asked, mayGiveUp>>

(* The prompt is back: after the answer or after an interrupt.             *)
Forget == /\ asked # << >>
          /\ asked' = << >>
          /\ mayGiveUp' = FALSE
          /\ answer' = "none"
          /\ UNCHANGED fsm

Next == Ask \/ Answer \/ Forget

Spec == OInit /\ [][Next]_vars /\ WF_vars(Answer) /\ WF_vars(Forget)
=============================================================================
