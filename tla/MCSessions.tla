------------------------------ MODULE MCSessions ------------------------------
(* Model checking of Sessions with two requests at a time.                     *)
EXTENDS Sessions, TLC

CONSTANTS w1, w2

TwoWorkers == {w1, w2}

\* Workers are interchangeable, and no property here is a liveness property.
Symmetry == Permutations(Workers)
=============================================================================
