--------------------- MODULE MCAccountBalancesConcurrent ---------------------
(* Model checking of AccountBalancesConcurrent with two overlapping requests.  *)
EXTENDS AccountBalancesConcurrent

CONSTANTS w1, w2

TwoWorkers == {w1, w2}

FreshAccount        == {NoDate}
MaterializedAccount == {MaxDate}
EitherAccount       == FreshAccount \cup MaterializedAccount

\* No transactions but an outflow on the last day.
LastDayOutflow == [d \in Dates |-> IF d = MaxDate THEN -3 ELSE 0]
NoTransactions == [d \in Dates |-> 0]
=============================================================================
