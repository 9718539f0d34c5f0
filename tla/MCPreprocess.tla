----------------------------- MODULE MCPreprocess -----------------------------
(* Instances of Preprocess: short scans for the times, one longer line (and a  *)
(* short one) for the features.                                                *)
EXTENDS Preprocess

Types == {"AVIA", "VELO16", "OUST64", "L515", "XT32", "PANDAR128"}
Point(l, t, n, f) == [line |-> l, time |-> t, near |-> n, flat |-> f, good |-> TRUE]

\* Up to three points of a configured line and of one beyond, near or not, or
\* four that are not, with gaps around 1 ms; Livox times do not go back.
Beyond == {0, N_SCANS}
TimedPoints(T, n) ==
  [1 .. n -> {Point(l, t, r, FALSE) : l \in Beyond, t \in T,
                                      r \in IF n < 4 THEN BOOLEAN ELSE {FALSE}}]
TimeScans(type) ==
  LET T == IF type = "AVIA" THEN {0, 1, 2, 3, 4, 5, 6, 9} ELSE {0, 1, 4, 8, 12}
  IN  {[points |-> p, timed |-> d] :
        p \in {q \in UNION {TimedPoints(T, n) : n \in 1 .. 4} :
                 type \in {"AVIA", "VELO16"} => InOrder(q)},
        d \in IF type = "AVIA" THEN {TRUE} ELSE BOOLEAN}

\* One line of LineLength points of which at most three are flat, and two points
\* of another line.
LineLength == 8
LongLine(type, flat) ==
  LET extra == IF type = "AVIA" THEN 1 ELSE 2
  IN  [k \in 1 .. LineLength + extra |->
         IF k <= extra THEN Point(1, k - 1, FALSE, FALSE)
         ELSE Point(0, k - 1, FALSE, k - extra \in flat)]
FeatureScans(type) ==
  {[points |-> LongLine(type, flat), timed |-> d] :
     flat \in {f \in SUBSET (1 .. LineLength) : Cardinality(f) <= 3}, d \in {TRUE, type = "AVIA"}}

SomeScans(type, features) ==
  IF features /\ type \notin {"L515", "PANDAR128"} THEN FeatureScans(type) ELSE TimeScans(type)
=============================================================================
