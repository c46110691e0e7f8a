--------------------------- MODULE ProactiveRules ---------------------------
(***************************************************************************)
(* The rules of the proactive analysis (analytics/proactive_rules.py) on    *)
(* the history of one series: one KPI code with its dimensions.             *)
(*                                                                         *)
(* A month is year * 12 + month - 1, so _shift_month is an addition.  A     *)
(* reading is the value of the observation of a month, Missing when it is   *)
(* NO_DISPONIBLE and Absent when the month has no observation.  The rules   *)
(* look at two months (KPI-RC-03, KPI-CN-02) or at three (KPI-LI-01,        *)
(* KPI-LI-05, KPI-CN-03).                                                   *)
(***************************************************************************)
EXTENDS Integers, FiniteSets

CONSTANTS
    Months,             \* months that can have an observation
    Values,             \* values of an available observation
    Missing, Absent

Kinds == {"TWO", "THREE"}

ASSUME RulesConstants ==
    /\ Months \subseteq Nat /\ Values \subseteq Nat
    /\ Missing \notin Values /\ Absent \notin Values /\ Missing # Absent

VARIABLES kind, history

vars == <<kind, history>>

Reading == Values \cup {Missing, Absent}

-----------------------------------------------------------------------------
(* The series: every operator reads it at or before the month c.            *)

Observed(h) == {m \in Months : h[m] # Absent}

(* The current month is the last with an observation, available or not.     *)
IsCurrent(h, c) == c \in Observed(h) /\ \A m \in Observed(h) : m <= c

Available(h, m) == m \in Months /\ h[m] \in Values

(* Definitions marked "faulty" are slips that a property must notice.       *)
OneMonthLess(k) == IF k = "TWO" THEN 4 ELSE 5           \* faulty: closure too short
Depth(k) == IF k = "TWO" THEN 5 ELSE 6

WindowStart(k, c) == IF k = "TWO" THEN c - 4 ELSE c - 5

ThreeMonths(c) == (c - 2)..c                            \* faulty: range(3)
LastMonths(c) == (c - 3)..c

(* select_snapshot_closure                                                  *)
Snapshot(k, h, c) ==
    [m \in Months |-> IF c - Depth(k) < m /\ m <= c THEN h[m] ELSE Absent]

(* run_metadata, for a series with a signal rule                            *)
Window(k, c) == WindowStart(k, c)..c

Required(k, m) == IF k = "TWO" THEN {m, m - 1} ELSE {m, m - 1, m - 2}

(* _signal, on readings that are available                                  *)
Signal(k, h, m) ==
    IF k = "TWO" THEN (h[m] > 0 /\ h[m - 1] = 0) \/ h[m] > h[m - 1]
    ELSE h[m - 2] < h[m - 1] /\ h[m - 1] < h[m]

(* _terminal_signal                                                         *)
TerminalSignal(k, h, m) ==
    (\A r \in Required(k, m) : Available(h, r)) /\ Signal(k, h, m)

Recurrence(k, h, c) == Cardinality({m \in LastMonths(c) : TerminalSignal(k, h, m)})

(* _trend                                                                   *)
Trend(h, c) ==
    IF ~Available(h, c - 2) THEN "NONE"
    ELSE IF h[c - 2] < h[c - 1] /\ h[c - 1] < h[c] THEN "INCREASING"
    ELSE IF h[c - 2] > h[c - 1] /\ h[c - 1] > h[c] THEN "DECREASING"
    ELSE "NONE"

(* _evaluate_series                                                         *)
Evaluated(k, h, c) == \A r \in Required(k, c) : Available(h, r)

Evaluation(k, h, c) ==
    IF Evaluated(k, h, c)
    THEN [outcome |-> "EVALUATED", period |-> c,
          signal |-> Signal(k, h, c), trend |-> Trend(h, c),
          recurrence |-> Recurrence(k, h, c),
          current |-> h[c], reference |-> h[c - 1], variation |-> h[c] - h[c - 1]]
    ELSE [outcome |-> "INSUFFICIENT_HISTORY", period |-> c,
          signal |-> FALSE, trend |-> "NONE", recurrence |-> 0,
          current |-> IF Available(h, c) THEN h[c] ELSE Absent,
          reference |-> IF Available(h, c - 1) THEN h[c - 1] ELSE Absent,
          variation |-> 0]

(* build_finding: the months it tells of and whether the pattern recurs.    *)
Finding(k, e) ==
    [start |-> IF k = "TWO" THEN e.period - 1 ELSE e.period - 2, end |-> e.period,
     recurrent |-> e.recurrence >= 3]

-----------------------------------------------------------------------------
Init ==
    /\ kind \in Kinds
    /\ history = [m \in Months |-> Absent]

(* upsert_observation: any month is written, and written again.             *)
Recalculate(m, reading) ==
    /\ history' = [history EXCEPT ![m] = reading]
    /\ UNCHANGED kind

Next == \E m \in Months, reading \in Values \cup {Missing} : Recalculate(m, reading)

Spec == Init /\ [][Next]_vars

-----------------------------------------------------------------------------
TypeOK == kind \in Kinds /\ history \in [Months -> Reading]

(* The closure that a run freezes is enough: whatever the older months hold,*)
(* it is evaluated like the whole history, recurrence of four months        *)
(* included.                                                                *)
ClosureSuffices ==
    \A c \in Months : IsCurrent(history, c) =>
        Evaluation(kind, Snapshot(kind, history, c), c) = Evaluation(kind, history, c)

(* The recurrence counts the analyses that would have signalled: those of   *)
(* the last four months, each on what the series held up to it.             *)
UpTo(h, c) == [m \in Months |-> IF m <= c THEN h[m] ELSE Absent]

WouldSignal(c) ==
    {m \in Months : /\ c - 4 < m /\ m <= c /\ IsCurrent(UpTo(history, m), m)
                    /\ Evaluation(kind, UpTo(history, m), m).signal}

RecurrenceIsCounted ==
    \A c \in Months : IsCurrent(history, c) /\ Evaluated(kind, history, c) =>
        Evaluation(kind, history, c).recurrence = Cardinality(WouldSignal(c))

(* A finding tells of months that its run declares and that it froze: no    *)
(* reader of the window misses an input.                                    *)
WindowCoversInput ==
    \A c \in Months : IsCurrent(history, c) =>
        /\ Observed(Snapshot(kind, history, c)) \subseteq Window(kind, c)
        /\ LET e == Evaluation(kind, history, c) IN
              e.signal => Finding(kind, e).start..Finding(kind, e).end
                              \subseteq Observed(Snapshot(kind, history, c))

(* The frozen input is all that an analysis depends on and all it tells of.*)
FrozenInputSuffices == ClosureSuffices /\ WindowCoversInput

=============================================================================
