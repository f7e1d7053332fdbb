--------------------------- MODULE BalanceCalendar ---------------------------
(***************************************************************************)
(* The tables of an account's balance ledger and how they are read: shared *)
(* by the serial and by the concurrent model of the requests that write    *)
(* them.  Days are counted from 1; ids are handed out in createdAt order.  *)
(***************************************************************************)
EXTENDS FiniteSetsExt

CONSTANTS
  MaxDate,             \* last calendar day
  Targets,             \* observed balances a user may type in
  InitialBalance       \* Account.initialBalance, immutable after creation

Dates  == 1..MaxDate
NoDate == 0

Reconciliation == [date : Dates, target : Targets]

EmptyTable == [key \in {} |-> key]

OnDay(R, d)      == {i \in DOMAIN R : R[i].date = d}
Reconciled(R, d) == OnDay(R, d) # {}

\* Faulty variant: the first reconciliation of a day wins.
OldestOnDay(R, d) == Min(OnDay(R, d))

\* The newest reconciliation of a day wins: createdAt desc, id desc.
Effective(R, d) == Max(OnDay(R, d))

ReconciledDays(R) == {R[i].date : i \in DOMAIN R}
From(days, d)     == {e \in days : e >= d}
Before(days, d)   == {e \in days : e < d}

\* Closing balance carried into day d: the latest earlier row, or the initial balance.
CarriedInto(rows, d) ==
  IF Before(DOMAIN rows, d) = {}
  THEN InitialBalance
  ELSE rows[Max(Before(DOMAIN rows, d))].closing
=============================================================================
