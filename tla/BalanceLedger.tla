----------------------------- MODULE BalanceLedger -----------------------------
(***************************************************************************)
(* What an account's ledger promises, without snapshots and recomputes:    *)
(* the balance is the replay, from the initial balance and day by day, of  *)
(* the transactions counted so far and of the newest reconciliation of     *)
(* each day.  An edit dated d counts every transaction dated d or later.   *)
(***************************************************************************)
EXTENDS FiniteSetsExt

CONSTANTS MaxDate, MaxReconciliations, Targets, Flows, InitialBalance

VARIABLES reconciliations, transactions, counted, balance

vars == <<reconciliations, transactions, counted, balance>>

Dates == 1..MaxDate

\* The balance after the last day.
Replay(R, C) ==
  LET on(d) == {i \in DOMAIN R : R[i].date = d}
      after[d \in 0..MaxDate] ==
        IF d = 0 THEN InitialBalance
        ELSE IF on(d) # {} THEN R[Max(on(d))].target
        ELSE after[d - 1] + C[d].inflow - C[d].outflow
  IN  after[MaxDate]

Init ==
  /\ reconciliations = [id \in {} |-> id]
  /\ transactions \in [Dates -> Flows]
  /\ counted = [d \in Dates |-> [inflow |-> 0, outflow |-> 0]]
  /\ balance = InitialBalance

\* The effect of an edit of the reconciliations that concerns days from d on.
Settle(d) ==
  /\ counted' \in [Dates -> Flows]
  /\ \A e \in Dates :
       counted'[e] \in {transactions[e]} \cup (IF e < d THEN {counted[e]} ELSE {})
  /\ balance' = Replay(reconciliations', counted')
  /\ UNCHANGED transactions

Record(id, d, t) ==
  /\ \A i \in DOMAIN reconciliations : i < id
  /\ reconciliations' = [i \in DOMAIN reconciliations \cup {id} |->
                           IF i = id THEN [date |-> d, target |-> t] ELSE reconciliations[i]]
  /\ Settle(d)

Correct(id, d, t) ==
  /\ id \in DOMAIN reconciliations
  /\ reconciliations' = [reconciliations EXCEPT ![id] = [date |-> d, target |-> t]]
  /\ Settle(Min({d, reconciliations[id].date}))

Remove(id) ==
  /\ id \in DOMAIN reconciliations
  /\ reconciliations' = Restrict(reconciliations, DOMAIN reconciliations \ {id})
  /\ Settle(reconciliations[id].date)

\* New transactions weigh on the balance only from the next edit that covers them.
LedgerMoves ==
  /\ transactions' \in [Dates -> Flows]
  /\ UNCHANGED <<reconciliations, counted, balance>>

Next ==
  \/ \E id \in 1..MaxReconciliations :
       \/ \E d \in Dates, t \in Targets : Record(id, d, t) \/ Correct(id, d, t)
       \/ Remove(id)
  \/ LedgerMoves

Spec == Init /\ [][Next]_vars
=============================================================================
