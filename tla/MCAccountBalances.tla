--------------------------- MODULE MCAccountBalances ---------------------------
(* Model checking of AccountBalances, and of the summaries answered beside it, *)
(* on a small calendar.                                                        *)
EXTENDS BalanceSummaries

\* Days without transactions, with an inflow and an outflow.
DailyFlows == {NoFlow, [inflow |-> 2, outflow |-> 3]}
=============================================================================
