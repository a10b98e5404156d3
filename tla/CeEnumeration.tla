--------------------------- MODULE CeEnumeration ---------------------------
(***************************************************************************)
(* What next_ce and compute_all promise for one property G(inv): to        *)
(* enumerate its counter-examples up to the equivalence class in force.    *)
(* Every counter-example shown is new, and "No more counterexamples" is    *)
(* said only once every counter-example is equivalent to one shown.        *)
(***************************************************************************)
EXTENDS FiPath

CONSTANTS
    Cex,    \* the traces the checker may build
    inv     \* the states where the invariant holds

VARIABLES
    class,  \* the equivalence class in force
    shown,  \* the counter-examples shown, in order
    done    \* "No more counterexamples" has been said

vars == <<class, shown, done>>

New(t) ==
    /\ Violates(inv, t)
    /\ \A i \in DOMAIN shown : ~ Equivalent(class, inv, shown[i], t)

Init == class \in 1 .. 5 /\ shown = << >> /\ done = FALSE

Show(t) ==
    /\ ~ done
    /\ New(t)
    /\ shown' = Append(shown, t)
    /\ UNCHANGED <<class, done>>

Finish ==
    /\ \A t \in Cex : ~ New(t)
    /\ done' = TRUE
    /\ UNCHANGED <<class, shown>>

Restart ==
    /\ shown' = << >>
    /\ done' = FALSE
    /\ class' \in 1 .. 5

Next == (\E t \in Cex : Show(t)) \/ Finish \/ Restart

Spec == Init /\ [][Next]_vars
=============================================================================
