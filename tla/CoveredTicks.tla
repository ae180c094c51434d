---------------------------- MODULE CoveredTicks ----------------------------
(***************************************************************************)
(* What the coverage index promises to the workers that report to it: a    *)
(* set of covered ticks that only grows, and only by what was reported.  A *)
(* report is merged piece by piece; a call is answered when nothing of its *)
(* report is owed any more, and until then it may be given up.             *)
(***************************************************************************)
CONSTANTS Reporter, Tick

VARIABLES
    covered,   \* the ticks of the index
    owed       \* per caller: the ticks of its report that are not merged yet

Init == covered = {} /\ owed = [t \in Reporter |-> {}]

OthersOwe(t) == \A o \in Reporter \ {t} : owed'[o] = owed[o]

Report(t) == owed[t] = {} /\ owed'[t] \subseteq Tick /\ UNCHANGED covered

\* Whatever is not owed any more is covered.
Merge(t) ==
    /\ covered \subseteq covered'
    /\ covered' \ covered \subseteq owed[t]
    /\ owed'[t] \subseteq owed[t]
    /\ owed[t] \subseteq owed'[t] \cup covered'

GiveUp(t) == owed'[t] = {} /\ UNCHANGED covered

Next ==
    /\ DOMAIN owed' = Reporter
    /\ \E t \in Reporter : OthersOwe(t) /\ (Report(t) \/ Merge(t) \/ GiveUp(t))

Spec == Init /\ [][Next]_<<covered, owed>>
=============================================================================
