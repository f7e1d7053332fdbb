--------------------------------- MODULE MCSeed ---------------------------------
(* Model checking of Seed with Registration: two requests at a time beside the     *)
(* seed script, on the super admin's e-mail.                                       *)
EXTENDS Seed, TLC

CONSTANTS w1, w2, s1, s2

TwoWorkers == {w1, w2}
TwoSeeders == {s1, s2}

\* Two spellings of the admin's e-mail.
Spellings == {"admin@", "Admin@"}
ToLower   == [a \in Spellings |-> "admin@"]
Stored    == {"admin@"}

Rows        == {"ARS", "AR"}
CurrencyOf  == [c \in {"AR"} |-> "ARS"]

Symmetry == Permutations(TwoWorkers) \cup Permutations(TwoSeeders)
=================================================================================
