---------------------------- MODULE ArrivalAlert ----------------------------
(***************************************************************************)
(* What the "Alert me" button of the estimate panel promises, whatever the *)
(* page does to keep it: an alert can be armed for the bus the panel is    *)
(* about and for no other, it rings at most once for each time it is       *)
(* armed, and it does not outlive the panel it was armed in.               *)
(***************************************************************************)
CONSTANTS Bus, None

VARIABLES
    tracked,    \* the bus the estimate panel is about, or None
    armed,      \* the bus an alert is armed for, or None
    rang        \* whether the alert armed last has rung

avars == <<tracked, armed, rang>>

Init == tracked = None /\ armed = None /\ rang = FALSE

\* The panel opens for another bus, opens anew for the same, or closes.
Turn(b) == tracked' = b /\ armed' = None /\ rang' = FALSE

Arm ==
    /\ tracked # None /\ armed # tracked
    /\ armed' = tracked /\ rang' = FALSE
    /\ UNCHANGED tracked

Cancel ==
    /\ armed # None
    /\ armed' = None /\ rang' = FALSE
    /\ UNCHANGED tracked

Ring ==
    /\ armed # None /\ armed = tracked
    /\ armed' = None /\ rang' = TRUE
    /\ UNCHANGED tracked

Next == (\E b \in Bus \union {None} : Turn(b)) \/ Arm \/ Cancel \/ Ring

Spec == Init /\ [][Next]_avars
=============================================================================
