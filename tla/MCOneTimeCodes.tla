---------------------------- MODULE MCOneTimeCodes ----------------------------
(* Model checking of OneTimeCodes with overlapping calls.                      *)
EXTENDS OneTimeCodes, TLC

CONSTANTS w1, w2, w3

TwoWorkers   == {w1, w2}
ThreeWorkers == {w1, w2, w3}

\* Workers are interchangeable, and no property here is a liveness property.
Symmetry == Permutations(Workers)
=============================================================================
