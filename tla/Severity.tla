------------------------------ MODULE Severity ------------------------------
(***************************************************************************)
(* severity.py: the four ordered Severity_Levels, the sentinel an alert    *)
(* gets when its severity could not be determined, and the comparison that *)
(* both ingestion paths gate alerts with.                                  *)
(*                                                                         *)
(* A level is its position in SEVERITY_ORDER.  The two sentinels of the    *)
(* source, SEVERITY_UNKNOWN (of an alert) and MIN_SEVERITY_NO_FILTER (of a *)
(* setting), never meet in one variable, so both are 0.                    *)
(***************************************************************************)
EXTENDS Naturals

SEVERITY_UNKNOWN == 0
MIN_SEVERITY_NO_FILTER == 0

SEVERITY_ORDER == 1 .. 4
MIN_SEVERITY_ORDER == {MIN_SEVERITY_NO_FILTER} \union SEVERITY_ORDER
AlertSeverity == {SEVERITY_UNKNOWN} \union SEVERITY_ORDER

meets_minimum(severity, minimum) ==
    \/ minimum = MIN_SEVERITY_NO_FILTER
    \/ severity = SEVERITY_UNKNOWN
    \/ severity >= minimum

\* `settings` is the stored min_severity map: it may lack the category (or be
\* empty), and a hand-edited entry may hold a value outside MIN_SEVERITY_ORDER.
get_effective_min_severity(settings, category) ==
    IF category \in DOMAIN settings /\ settings[category] \in MIN_SEVERITY_ORDER
    THEN settings[category]
    ELSE MIN_SEVERITY_NO_FILTER
=============================================================================
