--------------------------- MODULE MCAvatarStorage ---------------------------
(* Model checking of AvatarStorage with two requests at a time.               *)
EXTENDS AvatarStorage, TLC

CONSTANTS w1, w2

TwoWorkers == {w1, w2}

\* Workers are interchangeable, and no property here is a liveness property.
Symmetry == Permutations(Workers)
=============================================================================
