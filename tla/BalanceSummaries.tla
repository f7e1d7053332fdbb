--------------------------- MODULE BalanceSummaries ---------------------------
(***************************************************************************)
(* GET balance-summary beside the requests of AccountBalances.  It reads   *)
(* the account, then the latest snapshot, in two statements and no         *)
(* transaction: whatever commits in between is seen by the second only.    *)
(***************************************************************************)
EXTENDS AccountBalances

VARIABLE call  \* the summary under way: the balance it has read, if any

summaryVars == <<vars, call>>

\* beside: a request of the account has committed since the first statement.
NoCall == [pc |-> "idle", current |-> 0, beside |-> FALSE]

SummaryInit == Init /\ call = NoCall

FindAccount ==
  /\ call.pc = "idle"
  /\ call' = [NoCall EXCEPT !.pc = "snapshot", !.current = currentBalanceCached]
  /\ UNCHANGED vars

\* Faulty variant: the earliest snapshot.
EarliestDailyBalance == snapshots[Min(DOMAIN snapshots)]

LatestDailyBalance == snapshots[Max(DOMAIN snapshots)]

\* The balance is the account's, all the rest the snapshot's, if there is one.
Answer ==
  IF DOMAIN snapshots = {}
  THEN [current |-> call.current, calculated |-> call.current, reconciled |-> call.current, difference |-> 0]
  ELSE LET row == LatestDailyBalance
       IN  [current |-> call.current, calculated |-> row.opening + row.inflow - row.outflow,
            reconciled |-> row.closing, difference |-> row.adjustment]

\* Answer is given.
FindLatestDailyBalance ==
  /\ call.pc = "snapshot"
  /\ call' = NoCall
  /\ UNCHANGED vars

\* The other requests, and what they do beside a summary half read.
Beside ==
  /\ Next
  /\ call' = [call EXCEPT !.beside = @ \/
       (call.pc = "snapshot" /\ <<snapshots, currentBalanceCached>>' # <<snapshots, currentBalanceCached>>)]

SummaryNext == FindAccount \/ FindLatestDailyBalance \/ Beside

SummarySpec == SummaryInit /\ [][SummaryNext]_summaryVars
-----------------------------------------------------------------------------
(* Properties.                                                             *)

\* What a summary shows, whenever its second statement comes: the difference always explains
\* the reconciled balance, and an account's balance that is another one is answered only when
\* a request has committed in between, after any sequence of edits, rollbacks and loaded
\* transactions.
SummaryTornOnlyBeside ==
  call.pc = "snapshot" =>
    /\ Answer.calculated + Answer.difference = Answer.reconciled
    /\ Answer.current # Answer.reconciled => call.beside
=============================================================================
