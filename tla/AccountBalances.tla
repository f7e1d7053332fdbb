--------------------------- MODULE AccountBalances ---------------------------
(***************************************************************************)
(* The balance ledger of one account: its reconciliations, the daily       *)
(* snapshots derived from them, and the balance cached on the account row. *)
(*                                                                         *)
(* Requests run one after the other here; AccountBalancesConcurrent        *)
(* interleaves them statement by statement.  A request is one database     *)
(* transaction: it writes the reconciliation and reads what the recompute  *)
(* needs (Create, Update or Delete), goes round the loop over days         *)
(* (MaterializeDay), and publishes everything at once (Commit) or nothing  *)
(* (Abort).  Accounts share no row of these tables, so one is enough.      *)
(***************************************************************************)
EXTENDS BalanceCalendar

CONSTANTS
  MaxReconciliations,  \* bound on the reconciliations ever created
  MaxLedgerChanges,    \* bound on out-of-band changes of the transactions
  Flows                \* daily totals of the transactions table, by direction

Ids == 1..MaxReconciliations

NoFlow == [inflow |-> 0, outflow |-> 0]

ASSUME ConstantsAssumption ==
  /\ MaxDate \in Nat
  /\ MaxReconciliations \in Nat
  /\ MaxLedgerChanges \in Nat
  /\ Targets \subseteq Int
  /\ NoFlow \in Flows /\ Flows \subseteq [inflow : Nat, outflow : Nat]
  /\ InitialBalance \in Int

Row  == [opening : Int, inflow : Nat, outflow : Nat,
         adjustment : Int, closing : Int]

VARIABLES
  reconciliations,  \* account_reconciliations: id -> date and target; ids in createdAt order
  lastId,           \* the newest id handed out (ids are not reused)
  transactions,     \* active transactions, summed by day and direction
  stale,            \* days whose transactions changed since a recompute that owes them:
                    \* one that starts at the day or before it, or the account's first
  snapshots,        \* account_daily_balances: day -> row
  currentBalanceCached,
  tx,               \* the open database transaction, or NoTx
  ledgerChanges     \* bounds ChangeTransactions

vars == <<reconciliations, lastId, transactions, stale, snapshots,
          currentBalanceCached, tx, ledgerChanges>>

NoTx == [open |-> FALSE, reconciliations |-> EmptyTable, snapshots |-> EmptyTable,
         lastId |-> 0, affected |-> NoDate, start |-> NoDate,
         cursor |-> NoDate, through |-> NoDate, opening |-> 0]

-----------------------------------------------------------------------------
(* Reading the tables.                                                     *)

TransactionDays == {d \in Dates : transactions[d] # NoFlow}

\* One iteration of the recompute loop: the row of day d, opened at balance b.
DayRow(R, d, b) ==
  LET calculated == b + transactions[d].inflow - transactions[d].outflow
      adjustment == IF Reconciled(R, d)
                    THEN R[Effective(R, d)].target - calculated
                    ELSE 0
  IN  [opening |-> b, inflow |-> transactions[d].inflow,
       outflow |-> transactions[d].outflow, adjustment |-> adjustment,
       closing |-> calculated + adjustment]

\* Faulty variant: forgets the snapshots already materialised on later days.
ThroughDateOfSources(R, affected) ==
  LET known == From(TransactionDays \cup ReconciledDays(R), affected)
  IN  IF known = {} THEN NoDate ELSE Max(known)

\* Last day to materialise: nothing dated on or after the affected day survives beyond it.
ThroughDate(R, affected) ==
  LET known == From(DOMAIN snapshots \cup TransactionDays \cup ReconciledDays(R), affected)
  IN  IF known = {} THEN NoDate ELSE Max(known)

\* Faulty variants: never look before the affected day; always restart at the first source.
StartAtAffected(R, affected, through) == affected
StartAtFirstSource(R, affected, through) ==
  Min({e \in TransactionDays \cup ReconciledDays(R) : e <= through} \cup {affected})

\* Without an earlier snapshot the chain restarts at the earliest source.
StartDate(R, affected, through) ==
  LET sources == {e \in TransactionDays \cup ReconciledDays(R) : e <= through}
  IN  IF Before(DOMAIN snapshots, affected) = {} /\ sources # {}
      THEN Min(sources \cup {affected})
      ELSE affected

-----------------------------------------------------------------------------
Init ==
  /\ reconciliations = EmptyTable
  /\ lastId = 0
  /\ transactions \in [Dates -> Flows]
  /\ stale = TransactionDays
  /\ snapshots = EmptyTable
  /\ currentBalanceCached = InitialBalance
  /\ tx = NoTx
  /\ ledgerChanges = 0

database == <<reconciliations, lastId, snapshots, currentBalanceCached, stale>>
environment == <<transactions, ledgerChanges>>

\* recomputeFromDate up to its loop: reads, deleteMany from the start day, opening balance.
BeginRecompute(R, id, affected) ==
  LET through == ThroughDate(R, affected)
      start   == StartDate(R, affected, through)
  IN  tx' = [open |-> TRUE, reconciliations |-> R, lastId |-> id,
             snapshots |-> Restrict(snapshots, Before(DOMAIN snapshots, start)),
             affected |-> affected, start |-> start, cursor |-> start,
             through |-> through, opening |-> CarriedInto(snapshots, affected)]

CreateReconciliation(d, t) ==
  /\ ~tx.open
  /\ lastId < MaxReconciliations
  /\ LET id == lastId + 1
         R  == [i \in DOMAIN reconciliations \cup {id} |->
                  IF i = id THEN [date |-> d, target |-> t] ELSE reconciliations[i]]
     IN  BeginRecompute(R, id, d)
  /\ UNCHANGED <<database, environment>>

\* Faulty variant: recomputes from the new day only.
UpdateFromNewDay(id, d, t) ==
  /\ ~tx.open
  /\ id \in DOMAIN reconciliations
  /\ BeginRecompute([reconciliations EXCEPT ![id] = [date |-> d, target |-> t]], lastId, d)
  /\ UNCHANGED <<database, environment>>

\* Both the old and the new day are covered by starting at the earlier one.
UpdateReconciliation(id, d, t) ==
  /\ ~tx.open
  /\ id \in DOMAIN reconciliations
  /\ BeginRecompute([reconciliations EXCEPT ![id] = [date |-> d, target |-> t]],
                    lastId, Min({reconciliations[id].date, d}))
  /\ UNCHANGED <<database, environment>>

DeleteReconciliation(id) ==
  /\ ~tx.open
  /\ id \in DOMAIN reconciliations
  /\ BeginRecompute(Restrict(reconciliations, DOMAIN reconciliations \ {id}),
                    lastId, reconciliations[id].date)
  /\ UNCHANGED <<database, environment>>

\* Faulty variant: every row opens at the balance the loop started with.
MaterializeDayWithoutCarry ==
  /\ tx.open
  /\ tx.cursor <= tx.through
  /\ LET row == DayRow(tx.reconciliations, tx.cursor, tx.opening)
     IN  tx' = [tx EXCEPT
                  !.snapshots = [d \in DOMAIN tx.snapshots \cup {tx.cursor} |->
                                   IF d = tx.cursor THEN row ELSE tx.snapshots[d]],
                  !.cursor = tx.cursor + 1]
  /\ UNCHANGED <<database, environment>>

MaterializeDay ==
  /\ tx.open
  /\ tx.cursor <= tx.through
  /\ LET row == DayRow(tx.reconciliations, tx.cursor, tx.opening)
     IN  tx' = [tx EXCEPT
                  !.snapshots = [d \in DOMAIN tx.snapshots \cup {tx.cursor} |->
                                   IF d = tx.cursor THEN row ELSE tx.snapshots[d]],
                  !.opening = row.closing,
                  !.cursor = tx.cursor + 1]
  /\ UNCHANGED <<database, environment>>

\* Faulty variant: the affected day's closing, not the last day's.
FirstClosing == tx.snapshots[tx.start].closing

\* The closing of the last row, or the carried balance when no row was built.
NewCachedBalance ==
  IF tx.cursor > tx.start THEN tx.snapshots[tx.cursor - 1].closing ELSE tx.opening

\* createMany and updateAccountCurrentBalance, then COMMIT.
Commit ==
  /\ tx.open
  /\ tx.cursor > tx.through
  /\ reconciliations' = tx.reconciliations
  /\ lastId' = tx.lastId
  /\ snapshots' = tx.snapshots
  /\ currentBalanceCached' = NewCachedBalance
  /\ stale' = IF Before(DOMAIN snapshots, tx.affected) = {} THEN {} ELSE Before(stale, tx.affected)
  /\ tx' = NoTx
  /\ UNCHANGED environment

\* A failed statement, a lost connection or a crash: the transaction is rolled back.
\* (runWithRetry then repeats the request or reports the error; both start from here.)
Abort ==
  /\ tx.open
  /\ tx' = NoTx
  /\ UNCHANGED <<database, environment>>

\* Transactions are loaded and voided outside the application.
ChangeTransactions(d, f) ==
  /\ ~tx.open
  /\ ledgerChanges < MaxLedgerChanges
  /\ transactions[d] # f
  /\ transactions' = [transactions EXCEPT ![d] = f]
  /\ stale' = stale \cup {d}
  /\ ledgerChanges' = ledgerChanges + 1
  /\ UNCHANGED <<reconciliations, lastId, snapshots, currentBalanceCached, tx>>

Next ==
  \/ \E d \in Dates, t \in Targets : CreateReconciliation(d, t)
  \/ \E id \in Ids, d \in Dates, t \in Targets : UpdateReconciliation(id, d, t)
  \/ \E id \in Ids : DeleteReconciliation(id)
  \/ MaterializeDay
  \/ Commit
  \/ Abort
  \/ \E d \in Dates, f \in Flows : ChangeTransactions(d, f)

Spec == Init /\ [][Next]_vars
-----------------------------------------------------------------------------
(* Properties.                                                             *)

ReconciliationTable(R) ==
  /\ DOMAIN R \subseteq Ids
  /\ R \in [DOMAIN R -> Reconciliation]

SnapshotTable(rows) ==
  /\ DOMAIN rows \subseteq Dates
  /\ rows \in [DOMAIN rows -> Row]

OpenTx(t) ==
  /\ t = [open |-> TRUE, reconciliations |-> t.reconciliations, snapshots |-> t.snapshots,
          lastId |-> t.lastId, affected |-> t.affected, start |-> t.start,
          cursor |-> t.cursor, through |-> t.through, opening |-> t.opening]
  /\ t.lastId \in 0..MaxReconciliations
  /\ t.affected \in Dates
  /\ t.start \in Dates
  /\ t.cursor \in Dates \cup {MaxDate + 1}
  /\ t.through \in Dates \cup {NoDate}
  /\ t.opening \in Int
  /\ ReconciliationTable(t.reconciliations)
  /\ \A i \in DOMAIN t.reconciliations : i <= t.lastId
  /\ SnapshotTable(t.snapshots)

\* The tables and the open transaction hold values of the declared columns, and
\* no id is used twice.
TypeOK ==
  /\ ReconciliationTable(reconciliations)
  /\ \A i \in DOMAIN reconciliations : i <= lastId
  /\ lastId \in 0..MaxReconciliations
  /\ transactions \in [Dates -> Flows]
  /\ stale \subseteq Dates
  /\ SnapshotTable(snapshots)
  /\ currentBalanceCached \in Int
  /\ ledgerChanges \in 0..MaxLedgerChanges
  /\ tx = NoTx \/ OpenTx(tx)

\* The cached balance tells the same story as the snapshots: it is the closing
\* of the latest one, or the initial balance when there is none.
CacheAligned == currentBalanceCached = CarriedInto(snapshots, MaxDate + 1)

\* Every row opens at the closing of the row before it, and adds up.
AddsUp(row)   == row.closing = row.opening + row.inflow - row.outflow + row.adjustment
Chained(rows) == \A d \in DOMAIN rows : rows[d].opening = CarriedInto(rows, d) /\ AddsUp(rows[d])

\* Every day opens where the previous materialised day closed and accounts for
\* its own closing, across every insertion, move and removal of a reconciliation.
SnapshotsChain == Chained(snapshots)

\* A reconciled day is materialised and closes at the target of the newest
\* reconciliation of that day.
ReconciledDaysCloseAtTarget ==
  \A i \in DOMAIN reconciliations :
    LET d == reconciliations[i].date
    IN  /\ d \in DOMAIN snapshots
        /\ (\A j \in OnDay(reconciliations, d) : j <= i)
             => snapshots[d].closing = reconciliations[i].target

\* No adjustment outlives its reconciliation: a day that lost it (deleted, or
\* moved to another day) closes at its calculated balance again.
AdjustmentsOnlyWhereReconciled ==
  \A d \in DOMAIN snapshots :
    snapshots[d].adjustment # 0 => \E i \in DOMAIN reconciliations : reconciliations[i].date = d

\* The transactions of a day that the snapshots account for.
Counted == [d \in Dates |->
              IF d \in DOMAIN snapshots
              THEN [inflow |-> snapshots[d].inflow, outflow |-> snapshots[d].outflow]
              ELSE NoFlow]

\* No transaction a recompute had to range over is missing from the snapshots: those
\* dated on the affected day or later, and, on the account's first recompute, all.
TransactionsCounted == \A d \in Dates \ stale : Counted[d] = transactions[d]

\* A recompute always has a day to materialise: the branch of recomputeFromDate
\* for an account without sources is never taken.
RecomputeReachesADay == tx.open => tx.through >= tx.affected

\* The rows below the loop's cursor are final: the timeline that Commit will
\* publish is chained, closes reconciled days at their targets, adjusts no other
\* day, and counts the transactions of every day the loop went over.
LoopInvariant ==
  tx.open =>
    /\ tx.start <= tx.affected /\ tx.start <= tx.cursor /\ tx.cursor <= tx.through + 1
    /\ \/ tx.start = tx.affected /\ Before(DOMAIN snapshots, tx.affected) # {}
       \/ Before(DOMAIN snapshots, tx.affected) = {} /\ \A d \in Dates : d < tx.start => transactions[d] = NoFlow
    /\ DOMAIN tx.snapshots = Before(DOMAIN snapshots, tx.start) \cup (tx.start .. (tx.cursor - 1))
    /\ \A d \in Before(DOMAIN snapshots, tx.start) : tx.snapshots[d] = snapshots[d]
    /\ Chained(tx.snapshots)
    /\ tx.opening = CarriedInto(tx.snapshots, tx.cursor)
    /\ \A i \in DOMAIN tx.reconciliations :
         LET d == tx.reconciliations[i].date
         IN  /\ d <= tx.through
             /\ d < tx.start => d \in DOMAIN snapshots
             /\ d < tx.cursor =>
                  ((\A j \in OnDay(tx.reconciliations, d) : j <= i)
                     => tx.snapshots[d].closing = tx.reconciliations[i].target)
    /\ \A d \in DOMAIN tx.snapshots :
         tx.snapshots[d].adjustment # 0 => Reconciled(tx.reconciliations, d)
    /\ \A d \in tx.start .. (tx.cursor - 1) :
         /\ tx.snapshots[d].inflow = transactions[d].inflow
         /\ tx.snapshots[d].outflow = transactions[d].outflow
    /\ \A d \in Dates : d > tx.through => d \notin DOMAIN snapshots /\ transactions[d] = NoFlow

\* A day once on the timeline stays on it.
SnapshotsNeverVanish == [][DOMAIN snapshots \subseteq DOMAIN snapshots']_vars

\* A request dated d rewrites no day before d.
PastUntouched ==
  [][\A d \in DOMAIN snapshots :
       tx.open /\ d < tx.affected => d \in DOMAIN snapshots' /\ snapshots'[d] = snapshots[d]]_vars

\* The abstract balance is the cached one; a day counts what its snapshot says.
Ledger == INSTANCE BalanceLedger WITH
            counted <- Counted, balance <- currentBalanceCached

\* Every committed request, and every rollback, is a step the ledger allows:
\* the cached balance is at all times the replay of the reconciliations.
RefinesLedger == Ledger!Spec
=============================================================================
