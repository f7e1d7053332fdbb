------------------------ MODULE AccountBalancesProofs ------------------------
(***************************************************************************)
(* Proofs about AccountBalances, for every calendar, every set of targets  *)
(* and of daily flows, and every initial balance.                          *)
(***************************************************************************)
EXTENDS BalanceSummaries, WellFoundedInduction, TLAPS

-----------------------------------------------------------------------------
(* Least and greatest members of sets of naturals.                         *)

Earlier == {p \in Nat \X Nat : p[1] < p[2]}

LEMMA EarlierWellFounded == IsWellFoundedOn(Earlier, Nat)
  BY NatLessThanWellFounded DEF OpToRel, Earlier

\* Min of a non-empty set of naturals is its least element.
LEMMA MinOfNaturals ==
  ASSUME NEW S, S \subseteq Nat, S # {}
  PROVE  Min(S) \in S /\ \A y \in S : Min(S) <= y
<1>1. PICK x \in S : \A y \in S : ~(<<y, x>> \in Earlier)
  BY EarlierWellFounded, WFMin, Zenon
<1>2. ASSUME NEW y \in S PROVE x <= y
  <2>1. y < x => <<y, x>> \in Earlier
    BY DEF Earlier
  <2>2. ~(<<y, x>> \in Earlier)
    BY <1>1
  <2>3. x \in Nat /\ y \in Nat
    OBVIOUS
  <2>4. QED BY <2>1, <2>2, <2>3
<1>3. QED BY <1>2 DEF Min

\* Max of a non-empty set of naturals up to N is its greatest element.
LEMMA MaxOfInterval ==
  ASSUME NEW N \in Nat, NEW S, S \subseteq 0..N, S # {}
  PROVE  Max(S) \in S /\ \A y \in S : Max(S) >= y
<1> DEFINE T == {N - y : y \in S}
<1>1. T \subseteq Nat /\ T # {}
  <2>1. ASSUME NEW y \in S PROVE N - y \in Nat
    <3>1. y \in Int /\ 0 <= y /\ y <= N
      OBVIOUS
    <3>2. QED BY <3>1
  <2>2. PICK y \in S : TRUE
    OBVIOUS
  <2>3. QED BY <2>1, <2>2
<1>2. Min(T) \in T /\ \A t \in T : Min(T) <= t
  BY <1>1, MinOfNaturals
<1>3. PICK x \in S : Min(T) = N - x
  BY <1>2
<1>4. \A y \in S : x >= y
  <2>1. SUFFICES ASSUME NEW y \in S PROVE x >= y
    OBVIOUS
  <2>2. N - y \in T
    OBVIOUS
  <2>3. N - x <= N - y
    BY <1>2, <1>3, <2>2
  <2>4. QED BY <2>3
<1>5. QED BY <1>4 DEF Max

-----------------------------------------------------------------------------
(* The balance carried into a day.                                         *)

\* It is the closing of some earlier row that no other earlier row follows,
\* or the initial balance when there is no earlier row.
LEMMA CarriedCases ==
  ASSUME ConstantsAssumption, NEW rows, DOMAIN rows \subseteq Dates, NEW d \in Nat
  PROVE  \/ /\ Before(DOMAIN rows, d) = {}
            /\ CarriedInto(rows, d) = InitialBalance
         \/ \E e \in DOMAIN rows :
              /\ e < d
              /\ \A f \in DOMAIN rows : f < d => f <= e
              /\ CarriedInto(rows, d) = rows[e].closing
<1>1. CASE Before(DOMAIN rows, d) = {}
  BY <1>1 DEF CarriedInto
<1>2. CASE Before(DOMAIN rows, d) # {}
  <2>1. Before(DOMAIN rows, d) \subseteq 0..MaxDate /\ MaxDate \in Nat
    BY DEF Before, Dates, ConstantsAssumption
  <2>2. /\ Max(Before(DOMAIN rows, d)) \in Before(DOMAIN rows, d)
        /\ \A f \in Before(DOMAIN rows, d) : Max(Before(DOMAIN rows, d)) >= f
    BY <1>2, <2>1, MaxOfInterval
  <2>3. QED BY <1>2, <2>1, <2>2 DEF CarriedInto, Before
<1>3. QED BY <1>1, <1>2

\* It is an amount.
LEMMA CarriedType ==
  ASSUME ConstantsAssumption, NEW rows, SnapshotTable(rows), NEW d \in Nat
  PROVE  CarriedInto(rows, d) \in Int
<1>1. \A e \in DOMAIN rows : rows[e].closing \in Int
  BY DEF SnapshotTable, Row
<1>2. QED BY <1>1, CarriedCases DEF SnapshotTable, ConstantsAssumption

\* It depends only on the rows before that day.
LEMMA CarriedFromPast ==
  ASSUME ConstantsAssumption, NEW rows, NEW other, NEW d \in Nat,
         DOMAIN rows \subseteq Dates, DOMAIN other \subseteq Dates,
         Before(DOMAIN rows, d) = Before(DOMAIN other, d),
         \A e \in Before(DOMAIN rows, d) : rows[e] = other[e]
  PROVE  CarriedInto(rows, d) = CarriedInto(other, d)
<1>1. CASE Before(DOMAIN rows, d) = {}
  BY <1>1 DEF CarriedInto
<1>2. CASE Before(DOMAIN rows, d) # {}
  <2>1. Before(DOMAIN rows, d) \subseteq 0..MaxDate /\ MaxDate \in Nat
    BY DEF Before, Dates, ConstantsAssumption
  <2>2. Max(Before(DOMAIN rows, d)) \in Before(DOMAIN rows, d)
    BY <1>2, <2>1, MaxOfInterval
  <2>3. QED BY <1>2, <2>2 DEF CarriedInto
<1>3. QED BY <1>1, <1>2

\* The day after a row, it is that row's closing.
LEMMA CarriedAfterRow ==
  ASSUME ConstantsAssumption, NEW rows, DOMAIN rows \subseteq Dates,
         NEW d \in DOMAIN rows, NEW n \in Nat, d < n,
         \A e \in DOMAIN rows : e < n => e <= d
  PROVE  CarriedInto(rows, n) = rows[d].closing
<1>1. Before(DOMAIN rows, n) # {} /\ d \in Nat
  BY DEF Before, Dates
<1>2. PICK e \in DOMAIN rows : /\ e < n
                               /\ \A f \in DOMAIN rows : f < n => f <= e
                               /\ CarriedInto(rows, n) = rows[e].closing
  BY <1>1, CarriedCases
<1>3. e = d
  BY <1>2 DEF Dates
<1>4. QED BY <1>2, <1>3

-----------------------------------------------------------------------------
(* Type correctness.                                                       *)

\* The days a recompute ranges over, once something is known from the affected day on.
LEMMA ThroughDateBounds ==
  ASSUME ConstantsAssumption, TypeOK, NEW R, ReconciliationTable(R), NEW affected \in Dates
  PROVE  /\ ThroughDate(R, affected) \in Dates \cup {NoDate}
         /\ \A d \in DOMAIN snapshots \cup TransactionDays \cup ReconciledDays(R) :
              d >= affected => d <= ThroughDate(R, affected) /\ affected <= ThroughDate(R, affected)
<1> DEFINE known == From(DOMAIN snapshots \cup TransactionDays \cup ReconciledDays(R), affected)
<1>1. known \subseteq Dates
  BY DEF From, TransactionDays, ReconciledDays, TypeOK, SnapshotTable, ReconciliationTable,
         Reconciliation
<1>2. CASE known = {}
  BY <1>2 DEF ThroughDate, From
<1>3. CASE known # {}
  <2>1. known \subseteq 0..MaxDate /\ MaxDate \in Nat
    BY <1>1 DEF Dates, ConstantsAssumption
  <2>2. Max(known) \in known /\ \A d \in known : Max(known) >= d
    BY <1>3, <2>1, MaxOfInterval
  <2>3. ThroughDate(R, affected) = Max(known)
    BY <1>3 DEF ThroughDate
  <2>4. Max(known) \in Dates
    BY <1>1, <2>2
  <2>5. affected <= Max(known)
    BY <2>2 DEF From, Dates
  <2>6. \A d \in DOMAIN snapshots \cup TransactionDays \cup ReconciledDays(R) :
          d >= affected => d <= Max(known)
    <3>1. SUFFICES ASSUME NEW d \in DOMAIN snapshots \cup TransactionDays \cup ReconciledDays(R),
                          d >= affected
                   PROVE  d <= Max(known)
      OBVIOUS
    <3>2. d \in known
      BY <3>1 DEF From
    <3>3. QED BY <1>1, <2>2, <2>4, <3>2 DEF Dates
  <2>7. QED BY <2>3, <2>4, <2>5, <2>6
<1>4. QED BY <1>2, <1>3

\* The first recomputed day is a day, never after the affected one, and before
\* it only when no snapshot precedes the affected day.
LEMMA StartDateBounds ==
  ASSUME ConstantsAssumption, TypeOK, NEW R, ReconciliationTable(R), NEW affected \in Dates,
         NEW through
  PROVE  /\ StartDate(R, affected, through) \in Dates
         /\ StartDate(R, affected, through) <= affected
         /\ \/ StartDate(R, affected, through) = affected
            \/ Before(DOMAIN snapshots, affected) = {}
<1> DEFINE sources == {e \in TransactionDays \cup ReconciledDays(R) : e <= through}
<1>1. sources \cup {affected} \subseteq Dates
  BY DEF TransactionDays, ReconciledDays, ReconciliationTable, Reconciliation
<1>2. sources \cup {affected} \subseteq Nat
  BY <1>1 DEF Dates
<1>3. /\ Min(sources \cup {affected}) \in sources \cup {affected}
      /\ \A y \in sources \cup {affected} : Min(sources \cup {affected}) <= y
  BY <1>2, MinOfNaturals
<1>4. CASE Before(DOMAIN snapshots, affected) = {} /\ sources # {}
  <2>1. StartDate(R, affected, through) = Min(sources \cup {affected})
    BY <1>4 DEF StartDate
  <2>2. QED BY <1>1, <1>3, <1>4, <2>1
<1>5. CASE ~(Before(DOMAIN snapshots, affected) = {} /\ sources # {})
  <2>1. StartDate(R, affected, through) = affected
    BY <1>5 DEF StartDate
  <2>2. affected <= affected
    BY DEF Dates
  <2>3. QED BY <2>1, <2>2
<1>6. QED BY <1>4, <1>5

\* Nothing is dated before the first recomputed day but what an earlier snapshot
\* already counts.
LEMMA StartCoversTransactions ==
  ASSUME ConstantsAssumption, TypeOK, NEW R, ReconciliationTable(R), NEW affected \in Dates,
         NEW through \in Dates \cup {NoDate}, affected <= through
  PROVE  \/ /\ StartDate(R, affected, through) = affected
            /\ Before(DOMAIN snapshots, affected) # {}
         \/ /\ Before(DOMAIN snapshots, affected) = {}
            /\ \A d \in Dates : d < StartDate(R, affected, through) => transactions[d] = NoFlow
<1> DEFINE sources == {e \in TransactionDays \cup ReconciledDays(R) : e <= through}
<1>1. CASE Before(DOMAIN snapshots, affected) # {}
  BY <1>1 DEF StartDate
<1>2. ASSUME Before(DOMAIN snapshots, affected) = {}, NEW d \in Dates,
             d < StartDate(R, affected, through), transactions[d] # NoFlow
      PROVE  FALSE
  <2>1. StartDate(R, affected, through) <= affected /\ StartDate(R, affected, through) \in Dates
    BY StartDateBounds
  <2>2. d <= through /\ d \in TransactionDays
    BY <1>2, <2>1 DEF Dates, NoDate, TransactionDays
  <2>3. d \in sources
    BY <2>2
  <2>4. StartDate(R, affected, through) = Min(sources \cup {affected})
    BY <1>2, <2>3 DEF StartDate
  <2>5. sources \cup {affected} \subseteq Nat
    BY DEF TransactionDays, ReconciledDays, ReconciliationTable, Reconciliation, Dates
  <2>6. Min(sources \cup {affected}) <= d
    BY <2>3, <2>5, MinOfNaturals
  <2>7. QED BY <1>2, <2>1, <2>4, <2>6 DEF Dates
<1>3. QED BY <1>1, <1>2

\* Opening a transaction gives it a well-typed work area.
LEMMA BeginTyped ==
  ASSUME ConstantsAssumption, TypeOK, NEW R, ReconciliationTable(R),
         NEW id \in 0..MaxReconciliations, \A i \in DOMAIN R : i <= id, NEW affected \in Dates,
         BeginRecompute(R, id, affected)
  PROVE  OpenTx(tx')
<1> DEFINE through == ThroughDate(R, affected)
           start   == StartDate(R, affected, through)
<1>1. through \in Dates \cup {NoDate}
  BY ThroughDateBounds
<1>2. start \in Dates
  BY StartDateBounds
<1>3. CarriedInto(snapshots, affected) \in Int
  BY CarriedType DEF TypeOK, Dates
<1>4. SnapshotTable(Restrict(snapshots, Before(DOMAIN snapshots, start)))
  BY DEF SnapshotTable, TypeOK, Restrict, Before
<1>5. tx' = [open |-> TRUE, reconciliations |-> R, lastId |-> id,
             snapshots |-> Restrict(snapshots, Before(DOMAIN snapshots, start)),
             affected |-> affected, start |-> start, cursor |-> start,
             through |-> through, opening |-> CarriedInto(snapshots, affected)]
  BY DEF BeginRecompute
<1> HIDE DEF through, start
<1>6. QED BY <1>1, <1>2, <1>3, <1>4, <1>5 DEF OpenTx

\* The effective reconciliation of a reconciled day is its newest one.
LEMMA EffectiveIsNewest ==
  ASSUME ConstantsAssumption, NEW R, ReconciliationTable(R), NEW d, Reconciled(R, d)
  PROVE  Effective(R, d) \in OnDay(R, d) /\ \A j \in OnDay(R, d) : j <= Effective(R, d)
<1>1. OnDay(R, d) \subseteq 0..MaxReconciliations /\ OnDay(R, d) # {}
      /\ MaxReconciliations \in Nat
  BY DEF OnDay, Reconciled, ReconciliationTable, Ids, ConstantsAssumption
<1>2. /\ Max(OnDay(R, d)) \in OnDay(R, d)
      /\ \A j \in OnDay(R, d) : Max(OnDay(R, d)) >= j
  BY <1>1, MaxOfInterval
<1>3. QED BY <1>1, <1>2 DEF Effective

\* A materialised row holds amounts.
LEMMA DayRowType ==
  ASSUME ConstantsAssumption, TypeOK, NEW R, ReconciliationTable(R), NEW d \in Dates, NEW b \in Int
  PROVE  DayRow(R, d, b) \in Row
<1>1. transactions[d].inflow \in Nat /\ transactions[d].outflow \in Nat
  BY DEF TypeOK, ConstantsAssumption
<1>2. CASE Reconciled(R, d)
  <2>1. Effective(R, d) \in DOMAIN R
    BY <1>2, EffectiveIsNewest DEF OnDay
  <2>2. R[Effective(R, d)].target \in Int
    BY <2>1 DEF ReconciliationTable, Reconciliation, ConstantsAssumption
  <2>3. QED BY <1>1, <1>2, <2>2 DEF DayRow, Row
<1>3. CASE ~Reconciled(R, d)
  BY <1>1, <1>3 DEF DayRow, Row
<1>4. QED BY <1>2, <1>3

\* Every step keeps the tables and the open transaction well typed.
LEMMA TypeStep ==
  ASSUME ConstantsAssumption, TypeOK, LoopInvariant, [Next]_vars
  PROVE  TypeOK'
<1>1. ASSUME NEW d \in Dates, NEW t \in Targets, CreateReconciliation(d, t)
      PROVE  TypeOK'
  <2> DEFINE id == lastId + 1
             R  == [i \in DOMAIN reconciliations \cup {id} |->
                      IF i = id THEN [date |-> d, target |-> t] ELSE reconciliations[i]]
  <2>1. id \in Ids /\ id \in 0..MaxReconciliations
    BY <1>1 DEF CreateReconciliation, TypeOK, Ids, ConstantsAssumption
  <2>2. ReconciliationTable(R) /\ \A i \in DOMAIN R : i <= id
    BY <2>1 DEF ReconciliationTable, TypeOK, Reconciliation, Ids
  <2>3. BeginRecompute(R, id, d)
    BY <1>1 DEF CreateReconciliation
  <2> HIDE DEF id, R
  <2>4. OpenTx(tx')
    BY <2>1, <2>2, <2>3, BeginTyped
  <2>5. QED BY <1>1, <2>4 DEF CreateReconciliation, TypeOK, database, environment
<1>2. ASSUME NEW id \in Ids, NEW d \in Dates, NEW t \in Targets, UpdateReconciliation(id, d, t)
      PROVE  TypeOK'
  <2> DEFINE R == [reconciliations EXCEPT ![id] = [date |-> d, target |-> t]]
             affected == Min({reconciliations[id].date, d})
  <2>1. ReconciliationTable(R) /\ \A i \in DOMAIN R : i <= lastId
    BY <1>2 DEF UpdateReconciliation, ReconciliationTable, TypeOK, Reconciliation
  <2>2. affected \in Dates
    <3>1. reconciliations[id].date \in Dates
      BY <1>2 DEF UpdateReconciliation, ReconciliationTable, TypeOK, Reconciliation
    <3>2. {reconciliations[id].date, d} \subseteq Nat
      BY <3>1 DEF Dates
    <3>3. QED BY <3>1, <3>2, MinOfNaturals
  <2>3. BeginRecompute(R, lastId, affected) /\ lastId \in 0..MaxReconciliations
    BY <1>2 DEF UpdateReconciliation, TypeOK
  <2> HIDE DEF R, affected
  <2>4. OpenTx(tx')
    BY <2>1, <2>2, <2>3, BeginTyped
  <2>5. QED BY <1>2, <2>4 DEF UpdateReconciliation, TypeOK, database, environment
<1>3. ASSUME NEW id \in Ids, DeleteReconciliation(id)
      PROVE  TypeOK'
  <2> DEFINE R == Restrict(reconciliations, DOMAIN reconciliations \ {id})
             affected == reconciliations[id].date
  <2>1. ReconciliationTable(R) /\ affected \in Dates /\ \A i \in DOMAIN R : i <= lastId
    BY <1>3 DEF DeleteReconciliation, ReconciliationTable, TypeOK, Reconciliation, Restrict
  <2>2. BeginRecompute(R, lastId, affected) /\ lastId \in 0..MaxReconciliations
    BY <1>3 DEF DeleteReconciliation, TypeOK
  <2> HIDE DEF R, affected
  <2>3. OpenTx(tx')
    BY <2>1, <2>2, BeginTyped
  <2>4. QED BY <1>3, <2>3 DEF DeleteReconciliation, TypeOK, database, environment
<1>4. CASE MaterializeDay
  <2>1. OpenTx(tx) /\ tx.open /\ tx.cursor <= tx.through
    BY <1>4 DEF MaterializeDay, TypeOK, NoTx
  <2>2. tx.cursor \in Dates /\ tx.cursor + 1 \in Dates \cup {MaxDate + 1}
    BY <2>1 DEF OpenTx, Dates, NoDate, ConstantsAssumption
  <2> DEFINE row == DayRow(tx.reconciliations, tx.cursor, tx.opening)
  <2>3. row \in Row
    BY <2>1, <2>2, DayRowType DEF OpenTx
  <2>4. row.closing \in Int
    BY <2>3 DEF Row
  <2> DEFINE rows == [d \in DOMAIN tx.snapshots \cup {tx.cursor} |->
                        IF d = tx.cursor THEN row ELSE tx.snapshots[d]]
  <2>5. SnapshotTable(rows)
    BY <2>1, <2>2, <2>3 DEF OpenTx, SnapshotTable
  <2>6. tx' = [tx EXCEPT !.snapshots = rows, !.opening = row.closing, !.cursor = tx.cursor + 1]
    BY <1>4 DEF MaterializeDay
  <2> HIDE DEF row, rows
  <2>7. tx' = [open |-> TRUE, reconciliations |-> tx.reconciliations, snapshots |-> rows,
               lastId |-> tx.lastId, affected |-> tx.affected, start |-> tx.start,
               cursor |-> tx.cursor + 1, through |-> tx.through, opening |-> row.closing]
    BY <2>1, <2>6 DEF OpenTx
  <2>8. OpenTx(tx')
    BY <2>1, <2>2, <2>4, <2>5, <2>7 DEF OpenTx
  <2>9. QED BY <1>4, <2>8 DEF MaterializeDay, TypeOK, database, environment
<1>5. CASE Commit
  <2>1. OpenTx(tx) /\ tx.open
    BY <1>5 DEF Commit, TypeOK, NoTx
  <2>2. NewCachedBalance \in Int
    <3>1. tx.start \in Dates /\ tx.cursor \in Int /\ tx.opening \in Int
      BY <2>1 DEF OpenTx, Dates, ConstantsAssumption
    <3>2. CASE tx.cursor > tx.start
      <4>1. tx.cursor - 1 \in DOMAIN tx.snapshots
        BY <2>1, <3>1, <3>2 DEF LoopInvariant, Dates
      <4>2. QED BY <2>1, <3>2, <4>1 DEF NewCachedBalance, OpenTx, SnapshotTable, Row
    <3>3. CASE ~(tx.cursor > tx.start)
      BY <3>1, <3>3 DEF NewCachedBalance
    <3>4. QED BY <3>2, <3>3
  <2>3. stale' \subseteq Dates
    BY <1>5 DEF Commit, TypeOK, Before
  <2>4. /\ reconciliations' = tx.reconciliations /\ lastId' = tx.lastId
        /\ snapshots' = tx.snapshots /\ currentBalanceCached' \in Int
        /\ tx' = NoTx /\ UNCHANGED environment
    BY <1>5, <2>2 DEF Commit
  <2>5. QED BY <2>1, <2>3, <2>4 DEF TypeOK, OpenTx, environment
<1>6. CASE Abort
  BY <1>6 DEF Abort, TypeOK, database, environment
<1>7. ASSUME NEW d \in Dates, NEW f \in Flows, ChangeTransactions(d, f)
      PROVE  TypeOK'
  <2>1. tx = NoTx
    BY <1>7 DEF ChangeTransactions, TypeOK, OpenTx
  <2>2. QED BY <1>7, <2>1 DEF ChangeTransactions, TypeOK, ConstantsAssumption
<1>8. CASE UNCHANGED vars
  BY <1>8 DEF vars, TypeOK, OpenTx, NoTx
<1>9. QED BY <1>1, <1>2, <1>3, <1>4, <1>5, <1>6, <1>7, <1>8 DEF Next

-----------------------------------------------------------------------------
(* The published ledger, and the inductive invariant.                      *)

\* What holds of the tables between two requests.
LedgerInv ==
  /\ CacheAligned
  /\ SnapshotsChain
  /\ ReconciledDaysCloseAtTarget
  /\ AdjustmentsOnlyWhereReconciled
  /\ TransactionsCounted

IInv == TypeOK /\ LedgerInv /\ LoopInvariant /\ RecomputeReachesADay

\* R differs from the committed reconciliations only on days from d on.
SameBefore(R, d) ==
  /\ \A i \in DOMAIN R :
       R[i].date < d => i \in DOMAIN reconciliations /\ reconciliations[i] = R[i]
  /\ \A i \in DOMAIN reconciliations :
       reconciliations[i].date < d => i \in DOMAIN R /\ R[i] = reconciliations[i]

\* An edit that concerns days from the affected one on, where some day from the
\* affected one on is known, opens the loop with its invariant.
LEMMA BeginLoop ==
  ASSUME ConstantsAssumption, TypeOK, LedgerInv,
         NEW R, ReconciliationTable(R), NEW id, NEW affected \in Dates,
         SameBefore(R, affected),
         \E d \in DOMAIN snapshots \cup ReconciledDays(R) : d >= affected,
         BeginRecompute(R, id, affected), UNCHANGED <<snapshots, transactions>>
  PROVE  LoopInvariant' /\ RecomputeReachesADay'
<1> DEFINE through == ThroughDate(R, affected)
           start   == StartDate(R, affected, through)
           kept    == Restrict(snapshots, Before(DOMAIN snapshots, start))
<1>1. /\ through \in Dates \cup {NoDate}
      /\ \A d \in DOMAIN snapshots \cup TransactionDays \cup ReconciledDays(R) :
           d >= affected => d <= through /\ affected <= through
  BY ThroughDateBounds
<1>2. /\ start \in Dates
      /\ start <= affected
      /\ start = affected \/ Before(DOMAIN snapshots, affected) = {}
  BY StartDateBounds
<1>3. tx' = [open |-> TRUE, reconciliations |-> R, lastId |-> id, snapshots |-> kept,
             affected |-> affected, start |-> start, cursor |-> start,
             through |-> through, opening |-> CarriedInto(snapshots, affected)]
  BY DEF BeginRecompute
<1>4. /\ DOMAIN kept = Before(DOMAIN snapshots, start)
      /\ \A d \in Before(DOMAIN snapshots, start) : kept[d] = snapshots[d]
  BY DEF Restrict
<1>5. /\ DOMAIN snapshots \subseteq Dates
      /\ \A i \in DOMAIN R : R[i].date \in Dates
  BY DEF TypeOK, SnapshotTable, ReconciliationTable, Reconciliation
<1>6. affected <= through
  BY <1>1
<1>s. \/ start = affected /\ Before(DOMAIN snapshots, affected) # {}
      \/ /\ Before(DOMAIN snapshots, affected) = {}
         /\ \A d \in Dates : d < start => transactions[d] = NoFlow
  BY <1>1, <1>6, StartCoversTransactions
<1> HIDE DEF through, start, kept
<1>7. DOMAIN kept = Before(DOMAIN snapshots, start) \cup (start .. (start - 1))
  BY <1>2, <1>4 DEF Dates
<1>8. \A d \in DOMAIN kept : d \in Dates /\ d < start /\ d < affected /\ d \in DOMAIN snapshots
  BY <1>2, <1>4, <1>5 DEF Before, Dates
<1>9. Chained(kept)
  <2>1. SUFFICES ASSUME NEW d \in DOMAIN kept
                 PROVE  kept[d].opening = CarriedInto(kept, d) /\ AddsUp(kept[d])
    BY DEF Chained
  <2>2. d \in Nat /\ d < start /\ start \in Nat
    BY <1>2, <1>8 DEF Dates
  <2>3. Before(DOMAIN kept, d) = Before(DOMAIN snapshots, d)
    BY <1>2, <1>4, <1>5, <2>2 DEF Before, Dates
  <2>4. DOMAIN kept \subseteq Dates
    BY <1>8
  <2>5. \A e \in Before(DOMAIN kept, d) : kept[e] = snapshots[e]
    BY <1>4 DEF Before
  <2>6. CarriedInto(kept, d) = CarriedInto(snapshots, d)
    BY <1>5, <2>2, <2>3, <2>4, <2>5, CarriedFromPast
  <2>7. QED BY <1>4, <1>8, <2>6 DEF LedgerInv, SnapshotsChain, Chained
<1>10. CarriedInto(snapshots, affected) = CarriedInto(kept, start)
  <2>1. CASE start = affected
    <3>1. Before(DOMAIN kept, start) = Before(DOMAIN snapshots, start)
      BY <1>4 DEF Before
    <3>2. start \in Nat /\ DOMAIN kept \subseteq Dates
      BY <1>2, <1>8 DEF Dates
    <3>3. \A e \in Before(DOMAIN kept, start) : kept[e] = snapshots[e]
      BY <1>4 DEF Before
    <3>4. QED BY <1>5, <2>1, <3>1, <3>2, <3>3, CarriedFromPast
  <2>2. CASE Before(DOMAIN snapshots, affected) = {}
    <3>1. Before(DOMAIN kept, start) = {}
      BY <1>8, <2>2 DEF Before
    <3>2. QED BY <2>2, <3>1 DEF CarriedInto
  <2>3. QED BY <1>2, <2>1, <2>2
<1>11. ASSUME NEW i \in DOMAIN R
       PROVE  /\ R[i].date <= through
              /\ R[i].date < start => R[i].date \in DOMAIN snapshots
              /\ R[i].date < start =>
                   ((\A j \in OnDay(R, R[i].date) : j <= i) => kept[R[i].date].closing = R[i].target)
  <2> DEFINE d == R[i].date
  <2>1. d \in Dates /\ d \in ReconciledDays(R)
    BY <1>5 DEF ReconciledDays
  <2>2. d <= through
    BY <1>1, <1>6, <2>1 DEF Dates, NoDate
  <2>3. ASSUME d < start
        PROVE  /\ d \in DOMAIN snapshots
               /\ (\A j \in OnDay(R, d) : j <= i) => kept[d].closing = R[i].target
    <3>1. d < affected
      BY <1>2, <2>1, <2>3 DEF Dates
    <3>2. i \in DOMAIN reconciliations /\ reconciliations[i] = R[i]
      BY <3>1 DEF SameBefore
    <3>3. \A j : j \in OnDay(reconciliations, d) <=> j \in OnDay(R, d)
      BY <3>1 DEF SameBefore, OnDay
    <3>4. /\ d \in DOMAIN snapshots
          /\ (\A j \in OnDay(reconciliations, d) : j <= i) => snapshots[d].closing = R[i].target
      BY <3>2 DEF LedgerInv, ReconciledDaysCloseAtTarget
    <3>5. kept[d] = snapshots[d]
      BY <1>4, <2>3, <3>4 DEF Before
    <3>6. QED BY <3>3, <3>4, <3>5
  <2>4. QED BY <2>2, <2>3
<1>12. ASSUME NEW d \in DOMAIN kept, kept[d].adjustment # 0
       PROVE  Reconciled(R, d)
  <2>1. d \in DOMAIN snapshots /\ d < affected /\ snapshots[d].adjustment # 0
    BY <1>4, <1>8, <1>12
  <2>2. PICK i \in DOMAIN reconciliations : reconciliations[i].date = d
    BY <2>1 DEF LedgerInv, AdjustmentsOnlyWhereReconciled
  <2>3. i \in DOMAIN R /\ R[i].date = d
    BY <2>1, <2>2 DEF SameBefore
  <2>4. QED BY <2>3 DEF Reconciled, OnDay
<1>13. ASSUME NEW d \in Dates, d > through
       PROVE  d \notin DOMAIN snapshots /\ transactions[d] = NoFlow
  <2>1. d >= affected /\ ~(d <= through)
    BY <1>1, <1>6, <1>13 DEF Dates, NoDate
  <2>2. d \notin DOMAIN snapshots \cup TransactionDays
    BY <1>1, <2>1
  <2>3. QED BY <2>2 DEF TransactionDays
<1>14. start <= start /\ start <= through + 1 /\ start .. (start - 1) = {}
  BY <1>1, <1>2, <1>6 DEF Dates, NoDate
<1>15. LoopInvariant'
  BY <1>2, <1>3, <1>s, <1>4, <1>7, <1>9, <1>10, <1>11, <1>12, <1>13, <1>14
     DEF LoopInvariant
<1>16. RecomputeReachesADay'
  BY <1>1, <1>2, <1>3, <1>6 DEF RecomputeReachesADay, Dates, NoDate
<1>17. QED BY <1>15, <1>16

\* One iteration of the loop keeps the loop's invariant.
LEMMA MaterializeLoop ==
  ASSUME ConstantsAssumption, TypeOK, LoopInvariant, MaterializeDay
  PROVE  LoopInvariant'
<1> DEFINE c    == tx.cursor
           R    == tx.reconciliations
           row  == DayRow(R, c, tx.opening)
           rows == [d \in DOMAIN tx.snapshots \cup {c} |->
                      IF d = c THEN row ELSE tx.snapshots[d]]
<1>1. tx.open /\ OpenTx(tx) /\ c <= tx.through
  BY DEF MaterializeDay, TypeOK, NoTx
<1>2. tx' = [open |-> TRUE, reconciliations |-> R, snapshots |-> rows,
             lastId |-> tx.lastId, affected |-> tx.affected, start |-> tx.start,
             cursor |-> c + 1, through |-> tx.through, opening |-> row.closing]
  <2>1. tx' = [tx EXCEPT !.snapshots = rows, !.opening = row.closing, !.cursor = c + 1]
    BY DEF MaterializeDay
  <2> HIDE DEF rows, row, c, R
  <2>2. QED BY <1>1, <2>1 DEF OpenTx, R
<1>3. UNCHANGED <<snapshots, transactions>>
  BY DEF MaterializeDay, database, environment
<1>4. /\ tx.start \in Dates /\ c \in Dates /\ tx.through \in Dates
      /\ tx.start <= tx.affected /\ tx.start <= c
      /\ DOMAIN snapshots \subseteq Dates
      /\ DOMAIN tx.snapshots \subseteq Dates
  <2>1. c \in Dates /\ tx.through \in Dates /\ tx.start \in Dates
    BY <1>1 DEF OpenTx, Dates, NoDate, ConstantsAssumption
  <2>2. DOMAIN snapshots \subseteq Dates /\ DOMAIN tx.snapshots \subseteq Dates
    BY <1>1 DEF OpenTx, TypeOK, SnapshotTable
  <2>3. tx.start <= tx.affected /\ tx.start <= c
    BY <1>1 DEF LoopInvariant
  <2>4. QED BY <2>1, <2>2, <2>3
<1>5. DOMAIN tx.snapshots = Before(DOMAIN snapshots, tx.start) \cup (tx.start .. (c - 1))
  BY <1>1 DEF LoopInvariant
<1>6. \A d \in DOMAIN tx.snapshots : d < c
  BY <1>4, <1>5 DEF Before, Dates
<1>7. /\ DOMAIN rows = DOMAIN tx.snapshots \cup {c}
      /\ \A d \in DOMAIN tx.snapshots : rows[d] = tx.snapshots[d]
      /\ rows[c] = row
  BY <1>4, <1>6 DEF Dates
<1>8. /\ row.opening = tx.opening
      /\ row.inflow = transactions[c].inflow
      /\ row.outflow = transactions[c].outflow
      /\ row.adjustment # 0 => Reconciled(R, c)
      /\ Reconciled(R, c) => row.closing = R[Effective(R, c)].target
      /\ AddsUp(row)
  <2>1. R[Effective(R, c)].target \in Int \/ ~Reconciled(R, c)
    <3>1. ASSUME Reconciled(R, c) PROVE R[Effective(R, c)].target \in Int
      BY <1>1, <3>1, EffectiveIsNewest DEF OpenTx, ReconciliationTable, Reconciliation,
         ConstantsAssumption, OnDay
    <3>2. QED BY <3>1
  <2>2. transactions[c].inflow \in Int /\ transactions[c].outflow \in Int /\ tx.opening \in Int
    BY <1>1, <1>4 DEF TypeOK, ConstantsAssumption, OpenTx
  <2>3. QED BY <2>1, <2>2 DEF DayRow, AddsUp
<1> HIDE DEF rows, row
<1>9. DOMAIN rows = Before(DOMAIN snapshots, tx.start) \cup (tx.start .. ((c + 1) - 1))
  BY <1>4, <1>5, <1>7 DEF Dates
<1>10. \A d \in Before(DOMAIN snapshots, tx.start) : rows[d] = snapshots[d]
  BY <1>1, <1>5, <1>7 DEF LoopInvariant
<1>11. \A d \in Nat : d <= c => CarriedInto(rows, d) = CarriedInto(tx.snapshots, d)
  <2>1. SUFFICES ASSUME NEW d \in Nat, d <= c
                 PROVE  CarriedInto(rows, d) = CarriedInto(tx.snapshots, d)
    OBVIOUS
  <2>2. Before(DOMAIN rows, d) = Before(DOMAIN tx.snapshots, d)
    BY <1>4, <1>7, <2>1 DEF Before, Dates
  <2>3. DOMAIN rows \subseteq Dates
    BY <1>4, <1>7
  <2>4. \A e \in Before(DOMAIN rows, d) : rows[e] = tx.snapshots[e]
    BY <1>7, <2>2 DEF Before
  <2>5. QED BY <1>4, <2>2, <2>3, <2>4, CarriedFromPast
<1>12. Chained(rows)
  <2>1. SUFFICES ASSUME NEW d \in DOMAIN rows
                 PROVE  rows[d].opening = CarriedInto(rows, d) /\ AddsUp(rows[d])
    BY DEF Chained
  <2>2. CASE d = c
    BY <1>1, <1>4, <1>7, <1>8, <1>11, <2>2 DEF LoopInvariant, Dates
  <2>3. CASE d \in DOMAIN tx.snapshots
    <3>1. tx.snapshots[d].opening = CarriedInto(tx.snapshots, d) /\ AddsUp(tx.snapshots[d])
      BY <1>1, <2>3 DEF LoopInvariant, Chained
    <3>2. d \in Nat /\ d <= c
      BY <1>4, <1>6, <2>3 DEF Dates
    <3>3. QED BY <1>7, <1>11, <2>3, <3>1, <3>2
  <2>4. QED BY <1>7, <2>2, <2>3
<1>13. row.closing = CarriedInto(rows, c + 1)
  <2>1. /\ DOMAIN rows \subseteq Dates /\ c \in DOMAIN rows /\ c + 1 \in Nat /\ c < c + 1
        /\ \A e \in DOMAIN rows : e < c + 1 => e <= c
    BY <1>4, <1>7 DEF Dates
  <2>2. QED BY <1>7, <2>1, CarriedAfterRow
<1>14. ASSUME NEW i \in DOMAIN R
       PROVE  /\ R[i].date <= tx.through
              /\ R[i].date < tx.start => R[i].date \in DOMAIN snapshots
              /\ R[i].date < c + 1 =>
                   ((\A j \in OnDay(R, R[i].date) : j <= i) => rows[R[i].date].closing = R[i].target)
  <2> DEFINE d == R[i].date
  <2>1. d \in Dates /\ i \in OnDay(R, d) /\ Reconciled(R, d) /\ i \in Int
    BY <1>1 DEF OpenTx, ReconciliationTable, Reconciliation, OnDay, Reconciled, Ids
  <2>2. /\ d <= tx.through
        /\ d < tx.start => d \in DOMAIN snapshots
        /\ d < c => ((\A j \in OnDay(R, d) : j <= i) => tx.snapshots[d].closing = R[i].target)
    BY <1>1 DEF LoopInvariant
  <2>3. ASSUME d < c
        PROVE  d \in DOMAIN tx.snapshots
    BY <1>4, <1>5, <2>1, <2>2, <2>3 DEF Before, Dates
  <2>4. ASSUME d = c, \A j \in OnDay(R, d) : j <= i
        PROVE  row.closing = R[i].target
    <3>1. Effective(R, c) \in OnDay(R, c) /\ \A j \in OnDay(R, c) : j <= Effective(R, c)
      BY <1>1, <2>1, <2>4, EffectiveIsNewest DEF OpenTx
    <3>2. Effective(R, c) = i
      <4>1. Effective(R, c) <= i /\ i <= Effective(R, c)
        BY <2>1, <2>4, <3>1
      <4>2. Effective(R, c) \in Int
        BY <1>1, <3>1 DEF OpenTx, ReconciliationTable, OnDay, Ids
      <4>3. QED BY <2>1, <4>1, <4>2
    <3>3. QED BY <1>8, <2>1, <2>4, <3>2
  <2>5. d < c + 1 => d < c \/ d = c
    BY <1>4, <2>1 DEF Dates
  <2>6. QED BY <1>7, <2>2, <2>3, <2>4, <2>5
<1>15. \A d \in DOMAIN rows : rows[d].adjustment # 0 => Reconciled(R, d)
  BY <1>1, <1>7, <1>8 DEF LoopInvariant
<1>16. \A d \in tx.start .. ((c + 1) - 1) :
         rows[d].inflow = transactions[d].inflow /\ rows[d].outflow = transactions[d].outflow
  <2>1. SUFFICES ASSUME NEW d \in tx.start .. ((c + 1) - 1)
                 PROVE  /\ rows[d].inflow = transactions[d].inflow
                        /\ rows[d].outflow = transactions[d].outflow
    OBVIOUS
  <2>2. CASE d = c
    BY <1>7, <1>8, <2>2
  <2>3. CASE d # c
    <3>1. d \in tx.start .. (c - 1) /\ d \in DOMAIN tx.snapshots
      BY <1>4, <1>5, <2>3 DEF Dates
    <3>2. QED BY <1>1, <1>7, <3>1 DEF LoopInvariant
  <2>4. QED BY <2>2, <2>3
<1>17. tx.start <= c + 1 /\ c + 1 <= tx.through + 1
  BY <1>1, <1>4 DEF Dates
<1>18. /\ \/ tx.start = tx.affected /\ Before(DOMAIN snapshots, tx.affected) # {}
          \/ /\ Before(DOMAIN snapshots, tx.affected) = {}
             /\ \A d \in Dates : d < tx.start => transactions[d] = NoFlow
       /\ \A d \in Dates : d > tx.through => d \notin DOMAIN snapshots /\ transactions[d] = NoFlow
  BY <1>1 DEF LoopInvariant
<1> HIDE DEF c, R
<1>19. QED
  BY <1>2, <1>3, <1>4, <1>9, <1>10, <1>12, <1>13, <1>14, <1>15, <1>16, <1>17, <1>18
     DEF LoopInvariant

\* What a commit publishes: a chained timeline that reaches the last day.
LEMMA CommitLedger ==
  ASSUME ConstantsAssumption, TypeOK, LedgerInv, LoopInvariant, Commit
  PROVE  LedgerInv'
<1> DEFINE R    == tx.reconciliations
           rows == tx.snapshots
<1>1. tx.open /\ OpenTx(tx) /\ tx.cursor > tx.through
  BY DEF Commit, TypeOK, NoTx
<1>2. /\ reconciliations' = R /\ snapshots' = rows /\ transactions' = transactions
      /\ currentBalanceCached' = NewCachedBalance
      /\ stale' = IF Before(DOMAIN snapshots, tx.affected) = {}
                  THEN {} ELSE Before(stale, tx.affected)
  BY DEF Commit, environment
<1>3. /\ tx.start \in Dates /\ tx.through \in Dates \cup {NoDate} /\ tx.affected \in Dates
      /\ tx.start <= tx.affected /\ tx.start <= tx.cursor /\ tx.cursor <= tx.through + 1
      /\ tx.cursor \in Int
  BY <1>1 DEF OpenTx, LoopInvariant, Dates, ConstantsAssumption
<1>4. tx.cursor = tx.through + 1
  BY <1>1, <1>3 DEF Dates, NoDate
<1>5. /\ DOMAIN rows \subseteq Dates
      /\ \A i \in DOMAIN R : R[i].date \in Dates
      /\ DOMAIN snapshots \subseteq Dates
  BY <1>1 DEF OpenTx, TypeOK, SnapshotTable, ReconciliationTable, Reconciliation
<1>6. DOMAIN rows = Before(DOMAIN snapshots, tx.start) \cup (tx.start .. tx.through)
  BY <1>1, <1>3, <1>4 DEF LoopInvariant, Dates, NoDate
<1>7. CacheAligned'
  <2>1. CASE tx.start <= tx.through
    <3>1. tx.cursor > tx.start /\ tx.cursor - 1 = tx.through /\ tx.through \in Dates
      <4>1. tx.start \in Int /\ tx.start >= 1 /\ tx.through \in Int /\ (tx.through = 0 \/ tx.through \in Dates)
        BY <1>3 DEF Dates, NoDate, ConstantsAssumption
      <4>2. tx.through # 0
        BY <2>1, <4>1
      <4>3. tx.through + 1 > tx.start /\ (tx.through + 1) - 1 = tx.through
        BY <2>1, <4>1
      <4>4. QED BY <1>4, <4>1, <4>2, <4>3
    <3>2. tx.through \in DOMAIN rows
      BY <1>3, <1>6, <2>1, <3>1 DEF Dates
    <3>3. \A e \in DOMAIN rows : e < MaxDate + 1 => e <= tx.through
      BY <1>3, <1>5, <1>6, <2>1, <3>1 DEF Before, Dates
    <3>4. MaxDate + 1 \in Nat /\ tx.through < MaxDate + 1
      BY <3>1 DEF Dates, ConstantsAssumption
    <3>5. CarriedInto(rows, MaxDate + 1) = rows[tx.through].closing
      BY <1>5, <3>2, <3>3, <3>4, CarriedAfterRow
    <3>6. NewCachedBalance = rows[tx.through].closing
      BY <3>1 DEF NewCachedBalance
    <3> HIDE DEF rows
    <3>7. CarriedInto(snapshots, MaxDate + 1)' = CarriedInto(rows, MaxDate + 1)
      BY <1>2 DEF CarriedInto, Before
    <3>8. QED BY <1>2, <3>5, <3>6, <3>7 DEF CacheAligned
  <2>2. CASE ~(tx.start <= tx.through)
    <3>1. tx.cursor = tx.start
      BY <1>3, <1>4, <2>2 DEF Dates, NoDate
    <3>2. NewCachedBalance = CarriedInto(rows, tx.start)
      BY <1>1, <1>3, <3>1 DEF NewCachedBalance, LoopInvariant, Dates
    <3>3. \A d \in DOMAIN rows : d < tx.start
      BY <1>3, <1>6, <2>2 DEF Before, Dates, NoDate
    <3>4. Before(DOMAIN rows, MaxDate + 1) = Before(DOMAIN rows, tx.start)
      BY <1>5, <3>3 DEF Before, Dates, ConstantsAssumption
    <3>5. CarriedInto(rows, MaxDate + 1) = CarriedInto(rows, tx.start)
      BY <3>4 DEF CarriedInto
    <3> HIDE DEF rows
    <3>6. CarriedInto(snapshots, MaxDate + 1)' = CarriedInto(rows, MaxDate + 1)
      BY <1>2 DEF CarriedInto, Before
    <3>7. QED BY <1>2, <3>2, <3>5, <3>6 DEF CacheAligned
  <2>3. QED BY <2>1, <2>2
<1>8. SnapshotsChain'
  BY <1>1, <1>2 DEF LoopInvariant, SnapshotsChain, Chained, CarriedInto, Before
<1>9. ReconciledDaysCloseAtTarget'
  <2>1. ASSUME NEW i \in DOMAIN R
        PROVE  /\ R[i].date \in DOMAIN rows
               /\ (\A j \in OnDay(R, R[i].date) : j <= i) => rows[R[i].date].closing = R[i].target
    <3> DEFINE d == R[i].date
    <3>1. /\ d <= tx.through
          /\ d < tx.start => d \in DOMAIN snapshots
          /\ d < tx.cursor =>
               ((\A j \in OnDay(R, d) : j <= i) => rows[d].closing = R[i].target)
      BY <1>1 DEF LoopInvariant
    <3>2. d \in Dates
      BY <1>5
    <3>3. d < tx.cursor
      BY <1>3, <1>4, <3>1, <3>2 DEF Dates, NoDate
    <3>4. d \in DOMAIN rows
      BY <1>3, <1>6, <3>1, <3>2 DEF Before, Dates, NoDate
    <3>5. QED BY <3>1, <3>3, <3>4
  <2> HIDE DEF R, rows
  <2>2. QED BY <1>2, <2>1 DEF ReconciledDaysCloseAtTarget, OnDay
<1>10. AdjustmentsOnlyWhereReconciled'
  <2>1. \A d \in DOMAIN rows : rows[d].adjustment # 0 => \E i \in DOMAIN R : R[i].date = d
    BY <1>1 DEF LoopInvariant, Reconciled, OnDay
  <2> HIDE DEF R, rows
  <2>2. QED BY <1>2, <2>1 DEF AdjustmentsOnlyWhereReconciled
<1>11. TransactionsCounted'
  <2>1. ASSUME NEW d \in Dates, d \notin stale'
        PROVE  IF d \in DOMAIN rows
               THEN [inflow |-> rows[d].inflow, outflow |-> rows[d].outflow] = transactions[d]
               ELSE NoFlow = transactions[d]
    <3>1. transactions[d] = [inflow |-> transactions[d].inflow, outflow |-> transactions[d].outflow]
      BY DEF TypeOK, ConstantsAssumption
    <3>2. CASE d \in tx.start .. tx.through
      <4>1. /\ rows[d].inflow = transactions[d].inflow
            /\ rows[d].outflow = transactions[d].outflow
        BY <1>1, <1>3, <1>4, <3>2 DEF LoopInvariant, Dates, NoDate
      <4>2. QED BY <1>6, <3>1, <3>2, <4>1
    <3>3. CASE d < tx.start /\ Before(DOMAIN snapshots, tx.affected) = {}
      <4>1. transactions[d] = NoFlow
        BY <1>1, <3>3 DEF LoopInvariant
      <4>2. d \notin DOMAIN rows
        BY <1>3, <1>6, <3>3 DEF Before, Dates
      <4>3. QED BY <4>1, <4>2
    <3>6. CASE d < tx.start /\ Before(DOMAIN snapshots, tx.affected) # {}
      <4>1. d \notin stale
        <5>1. tx.start = tx.affected
          BY <1>1, <3>6 DEF LoopInvariant
        <5>2. QED BY <1>2, <2>1, <3>6, <5>1 DEF Before
      <4>2. Counted[d] = transactions[d]
        BY <4>1 DEF LedgerInv, TransactionsCounted
      <4>3. d \in DOMAIN rows <=> d \in DOMAIN snapshots
        BY <1>3, <1>6, <3>6 DEF Before, Dates
      <4>4. d \in DOMAIN snapshots => rows[d] = snapshots[d]
        BY <1>1, <3>6 DEF LoopInvariant, Before
      <4>5. QED BY <4>2, <4>3, <4>4 DEF Counted
    <3>4. CASE d \notin tx.start .. tx.through /\ ~(d < tx.start)
      <4>1. d > tx.through
        BY <1>3, <3>4 DEF Dates, NoDate
      <4>2. d \notin DOMAIN snapshots /\ transactions[d] = NoFlow
        BY <1>1, <4>1 DEF LoopInvariant
      <4>3. d \notin DOMAIN rows
        BY <1>6, <3>4, <4>2 DEF Before
      <4>4. QED BY <4>2, <4>3
    <3>5. QED BY <3>2, <3>3, <3>4, <3>6
  <2> HIDE DEF rows
  <2>2. QED BY <1>2, <2>1 DEF TransactionsCounted, Counted
<1>12. QED BY <1>7, <1>8, <1>9, <1>10, <1>11 DEF LedgerInv

\* The initial tables.
LEMMA InitInv == ASSUME ConstantsAssumption, Init PROVE IInv
<1>1. TypeOK
  BY DEF Init, TypeOK, EmptyTable, ReconciliationTable, SnapshotTable, TransactionDays,
         ConstantsAssumption
<1>2. LoopInvariant
  BY DEF Init, LoopInvariant, NoTx
<1>3. CacheAligned /\ SnapshotsChain /\ ReconciledDaysCloseAtTarget
      /\ AdjustmentsOnlyWhereReconciled
  BY DEF Init, CacheAligned, SnapshotsChain, Chained, ReconciledDaysCloseAtTarget,
         AdjustmentsOnlyWhereReconciled, EmptyTable, CarriedInto, Before
<1>4. TransactionsCounted
  BY DEF Init, TransactionsCounted, Counted, TransactionDays, EmptyTable
<1>5. RecomputeReachesADay
  BY DEF Init, RecomputeReachesADay, NoTx
<1>6. QED BY <1>1, <1>2, <1>3, <1>4, <1>5 DEF IInv, LedgerInv

\* The tables are as they were: what held of them still does.
LEMMA LedgerUnchanged ==
  ASSUME LedgerInv, UNCHANGED <<reconciliations, transactions, snapshots, currentBalanceCached>>,
         stale \subseteq stale'
  PROVE  LedgerInv'
<1>1. CarriedInto(snapshots, MaxDate + 1)' = CarriedInto(snapshots, MaxDate + 1)
  BY DEF CarriedInto, Before
<1>2. CacheAligned'
  BY <1>1 DEF LedgerInv, CacheAligned
<1>3. SnapshotsChain'
  BY DEF LedgerInv, SnapshotsChain, Chained, CarriedInto, Before
<1>4. ReconciledDaysCloseAtTarget'
  BY DEF LedgerInv, ReconciledDaysCloseAtTarget, OnDay
<1>5. AdjustmentsOnlyWhereReconciled'
  BY DEF LedgerInv, AdjustmentsOnlyWhereReconciled
<1>6. TransactionsCounted'
  BY DEF LedgerInv, TransactionsCounted, Counted
<1>7. QED BY <1>2, <1>3, <1>4, <1>5, <1>6 DEF LedgerInv

\* Every step keeps the inductive invariant.
LEMMA InvStep ==
  ASSUME ConstantsAssumption, IInv, [Next]_vars
  PROVE  IInv'
<1>0. TypeOK /\ LedgerInv /\ LoopInvariant /\ RecomputeReachesADay
  BY DEF IInv
<1>t. TypeOK'
  BY <1>0, TypeStep
<1>r. ReconciliationTable(reconciliations) /\ DOMAIN reconciliations \subseteq Ids
      /\ \A i \in DOMAIN reconciliations : reconciliations[i].date \in Dates
  BY <1>0 DEF TypeOK, ReconciliationTable, Reconciliation
<1>1. ASSUME NEW d \in Dates, NEW t \in Targets, CreateReconciliation(d, t)
      PROVE  IInv'
  <2> DEFINE id == lastId + 1
             R  == [i \in DOMAIN reconciliations \cup {id} |->
                      IF i = id THEN [date |-> d, target |-> t] ELSE reconciliations[i]]
  <2>1. BeginRecompute(R, id, d)
    BY <1>1 DEF CreateReconciliation
  <2>2. UNCHANGED <<reconciliations, transactions, snapshots, currentBalanceCached, stale>>
    BY <1>1 DEF CreateReconciliation, database, environment
  <2>3. ReconciliationTable(R)
    <3>1. id \in Ids
      BY <1>0, <1>1 DEF CreateReconciliation, TypeOK, Ids, ConstantsAssumption
    <3>2. QED BY <1>r, <3>1 DEF ReconciliationTable, Reconciliation
  <2>4. SameBefore(R, d)
    <3>1. id \notin DOMAIN reconciliations
      BY <1>0, <1>r DEF TypeOK, Ids
    <3>2. QED BY <1>r, <3>1 DEF SameBefore, Dates
  <2>5. d \in ReconciledDays(R) /\ d >= d
    BY DEF ReconciledDays, Dates
  <2> HIDE DEF id, R
  <2>6. LoopInvariant' /\ RecomputeReachesADay'
    BY <1>0, <2>1, <2>2, <2>3, <2>4, <2>5, BeginLoop
  <2>7. LedgerInv'
    BY <1>0, <2>2, LedgerUnchanged
  <2>8. QED BY <1>t, <2>6, <2>7 DEF IInv
<1>2. ASSUME NEW id \in Ids, NEW d \in Dates, NEW t \in Targets, UpdateReconciliation(id, d, t)
      PROVE  IInv'
  <2> DEFINE R        == [reconciliations EXCEPT ![id] = [date |-> d, target |-> t]]
             old      == reconciliations[id].date
             affected == Min({old, d})
  <2>1. BeginRecompute(R, lastId, affected) /\ id \in DOMAIN reconciliations
    BY <1>2 DEF UpdateReconciliation
  <2>2. UNCHANGED <<reconciliations, transactions, snapshots, currentBalanceCached, stale>>
    BY <1>2 DEF UpdateReconciliation, database, environment
  <2>3. ReconciliationTable(R)
    BY <1>r, <2>1 DEF ReconciliationTable, Reconciliation
  <2>4. old \in Dates /\ affected \in Dates /\ affected <= old /\ affected <= d
    <3>1. old \in Dates
      BY <1>r, <2>1
    <3>2. {old, d} \subseteq Nat /\ {old, d} # {}
      BY <3>1 DEF Dates
    <3>3. Min({old, d}) \in {old, d} /\ \A y \in {old, d} : Min({old, d}) <= y
      BY <3>2, MinOfNaturals
    <3>4. QED BY <3>1, <3>3
  <2>5. DOMAIN R = DOMAIN reconciliations /\ R[id].date = d
        /\ \A i \in DOMAIN R : i # id => R[i] = reconciliations[i]
    BY <2>1
  <2> HIDE DEF R, affected
  <2>6. SameBefore(R, affected)
    BY <1>r, <2>1, <2>4, <2>5 DEF SameBefore, Dates
  <2>7. d \in ReconciledDays(R) /\ d >= affected
    BY <2>1, <2>4, <2>5 DEF ReconciledDays, Dates
  <2>8. LoopInvariant' /\ RecomputeReachesADay'
    BY <1>0, <2>1, <2>2, <2>3, <2>4, <2>6, <2>7, BeginLoop
  <2>9. LedgerInv'
    BY <1>0, <2>2, LedgerUnchanged
  <2>10. QED BY <1>t, <2>8, <2>9 DEF IInv
<1>3. ASSUME NEW id \in Ids, DeleteReconciliation(id)
      PROVE  IInv'
  <2> DEFINE R        == Restrict(reconciliations, DOMAIN reconciliations \ {id})
             affected == reconciliations[id].date
  <2>1. BeginRecompute(R, lastId, affected) /\ id \in DOMAIN reconciliations
    BY <1>3 DEF DeleteReconciliation
  <2>2. UNCHANGED <<reconciliations, transactions, snapshots, currentBalanceCached, stale>>
    BY <1>3 DEF DeleteReconciliation, database, environment
  <2>3. DOMAIN R = DOMAIN reconciliations \ {id}
        /\ \A i \in DOMAIN R : R[i] = reconciliations[i]
    BY DEF Restrict
  <2>4. ReconciliationTable(R)
    BY <1>r DEF ReconciliationTable, Reconciliation, Restrict
  <2>5. affected \in Dates
    BY <1>r, <2>1
  <2>6. affected \in DOMAIN snapshots /\ affected >= affected
    BY <1>0, <2>1, <2>5 DEF LedgerInv, ReconciledDaysCloseAtTarget, Dates
  <2>7. SameBefore(R, affected)
    BY <2>1, <2>3, <2>5 DEF SameBefore, Dates
  <2> HIDE DEF R, affected
  <2>8. LoopInvariant' /\ RecomputeReachesADay'
    BY <1>0, <2>1, <2>2, <2>4, <2>5, <2>6, <2>7, BeginLoop
  <2>9. LedgerInv'
    BY <1>0, <2>2, LedgerUnchanged
  <2>10. QED BY <1>t, <2>8, <2>9 DEF IInv
<1>4. CASE MaterializeDay
  <2>1. UNCHANGED <<reconciliations, transactions, snapshots, currentBalanceCached, stale>>
    BY <1>4 DEF MaterializeDay, database, environment
  <2>2. LedgerInv'
    BY <1>0, <2>1, LedgerUnchanged
  <2>3. LoopInvariant'
    BY <1>0, <1>4, MaterializeLoop
  <2>4. tx'.open = tx.open /\ tx'.through = tx.through /\ tx'.affected = tx.affected
    <3>1. OpenTx(tx)
      BY <1>0, <1>4 DEF MaterializeDay, TypeOK, NoTx
    <3>2. QED BY <1>4, <3>1 DEF MaterializeDay, OpenTx
  <2>5. RecomputeReachesADay'
    BY <1>0, <2>4 DEF RecomputeReachesADay
  <2>6. QED BY <1>t, <2>2, <2>3, <2>5 DEF IInv
<1>5. CASE Commit
  <2>1. LedgerInv'
    BY <1>0, <1>5, CommitLedger
  <2>2. ~tx'.open
    BY <1>5 DEF Commit, NoTx
  <2>3. QED BY <1>t, <2>1, <2>2 DEF IInv, LoopInvariant, RecomputeReachesADay
<1>6. CASE Abort
  <2>1. UNCHANGED <<reconciliations, transactions, snapshots, currentBalanceCached, stale>>
    BY <1>6 DEF Abort, database, environment
  <2>2. LedgerInv'
    BY <1>0, <2>1, LedgerUnchanged
  <2>3. ~tx'.open
    BY <1>6 DEF Abort, NoTx
  <2>4. QED BY <1>t, <2>2, <2>3 DEF IInv, LoopInvariant, RecomputeReachesADay
<1>7. ASSUME NEW d \in Dates, NEW f \in Flows, ChangeTransactions(d, f)
      PROVE  IInv'
  <2>1. /\ UNCHANGED <<reconciliations, snapshots, currentBalanceCached>>
        /\ stale' = stale \cup {d}
        /\ \A e \in Dates \ {d} : transactions'[e] = transactions[e]
        /\ ~tx'.open
    BY <1>0, <1>7 DEF ChangeTransactions, TypeOK
  <2>2. CarriedInto(snapshots, MaxDate + 1)' = CarriedInto(snapshots, MaxDate + 1)
    BY <2>1 DEF CarriedInto, Before
  <2>3. CacheAligned'
    BY <1>0, <2>1, <2>2 DEF LedgerInv, CacheAligned
  <2>4. SnapshotsChain'
    BY <1>0, <2>1 DEF LedgerInv, SnapshotsChain, Chained, CarriedInto, Before
  <2>5. ReconciledDaysCloseAtTarget'
    BY <1>0, <2>1 DEF LedgerInv, ReconciledDaysCloseAtTarget, OnDay
  <2>6. AdjustmentsOnlyWhereReconciled'
    BY <1>0, <2>1 DEF LedgerInv, AdjustmentsOnlyWhereReconciled
  <2>7. TransactionsCounted'
    BY <1>0, <2>1 DEF LedgerInv, TransactionsCounted, Counted
  <2>8. QED
    BY <1>t, <2>1, <2>3, <2>4, <2>5, <2>6, <2>7
       DEF IInv, LedgerInv, LoopInvariant, RecomputeReachesADay
<1>8. CASE UNCHANGED vars
  <2>1. UNCHANGED <<reconciliations, transactions, snapshots, currentBalanceCached, stale, tx>>
    BY <1>8 DEF vars
  <2>2. LedgerInv'
    BY <1>0, <2>1, LedgerUnchanged
  <2>3. LoopInvariant'
    <3>1. CASE tx.open
      BY <1>0, <2>1, <3>1 DEF LoopInvariant
    <3>2. CASE ~tx.open
      BY <2>1, <3>2 DEF LoopInvariant
    <3>3. QED BY <3>1, <3>2
  <2>4. QED BY <1>0, <1>t, <2>1, <2>2, <2>3 DEF IInv, RecomputeReachesADay
<1>9. QED BY <1>1, <1>2, <1>3, <1>4, <1>5, <1>6, <1>7, <1>8 DEF Next

-----------------------------------------------------------------------------
(* The theorems.                                                           *)

\* The inductive invariant holds in every reachable state.
THEOREM InductiveInvariant == Spec => []IInv
<1>1. Init => IInv
  BY ConstantsAssumption, InitInv
<1>2. IInv /\ [Next]_vars => IInv'
  BY ConstantsAssumption, InvStep
<1>3. QED BY <1>1, <1>2, PTL DEF Spec

\* The tables and the open transaction are well typed, whatever the requests.
THEOREM TypeCorrect == Spec => []TypeOK
<1>1. IInv => TypeOK
  BY DEF IInv
<1>2. QED BY <1>1, InductiveInvariant, PTL

\* The balance cached on the account is the closing of its latest snapshot (or
\* the initial balance), across every create, move, delete and rollback.
THEOREM CacheAlignment == Spec => []CacheAligned
<1>1. IInv => CacheAligned
  BY DEF IInv, LedgerInv
<1>2. QED BY <1>1, InductiveInvariant, PTL

\* Every snapshot opens where the previous one closed.
THEOREM ChainOfSnapshots == Spec => []SnapshotsChain
<1>1. IInv => SnapshotsChain
  BY DEF IInv, LedgerInv
<1>2. QED BY <1>1, InductiveInvariant, PTL

\* A reconciled day is materialised and closes at the target of its newest
\* reconciliation.
THEOREM TargetsMet == Spec => []ReconciledDaysCloseAtTarget
<1>1. IInv => ReconciledDaysCloseAtTarget
  BY DEF IInv, LedgerInv
<1>2. QED BY <1>1, InductiveInvariant, PTL

\* A day that lost its reconciliation keeps no adjustment.
THEOREM NoOrphanAdjustment == Spec => []AdjustmentsOnlyWhereReconciled
<1>1. IInv => AdjustmentsOnlyWhereReconciled
  BY DEF IInv, LedgerInv
<1>2. QED BY <1>1, InductiveInvariant, PTL

\* No transaction that a recompute ranged over is missing from the snapshots.
THEOREM EveryTransactionCounted == Spec => []TransactionsCounted
<1>1. IInv => TransactionsCounted
  BY DEF IInv, LedgerInv
<1>2. QED BY <1>1, InductiveInvariant, PTL

\* The branch of recomputeFromDate for an account without sources is dead code.
THEOREM SomeDayToMaterialize == Spec => []RecomputeReachesADay
<1>1. IInv => RecomputeReachesADay
  BY DEF IInv
<1>2. QED BY <1>1, InductiveInvariant, PTL

\* The loop builds a timeline fit to be published.
THEOREM LoopCorrect == Spec => []LoopInvariant
<1>1. IInv => LoopInvariant
  BY DEF IInv
<1>2. QED BY <1>1, InductiveInvariant, PTL

\* Only a commit changes the snapshots.
LEMMA SnapshotsOnlyByCommit ==
  ASSUME [Next]_vars, ~Commit
  PROVE  snapshots' = snapshots
  BY DEF Next, vars, CreateReconciliation, UpdateReconciliation, DeleteReconciliation,
         MaterializeDay, Abort, ChangeTransactions, database

\* What a commit does to the timeline, on either side of the first recomputed day.
LEMMA CommittedTimeline ==
  ASSUME ConstantsAssumption, IInv, Commit, NEW d \in DOMAIN snapshots
  PROVE  /\ d \in DOMAIN snapshots'
         /\ d < tx.affected => snapshots'[d] = snapshots[d]
<1>1. TypeOK /\ LoopInvariant /\ RecomputeReachesADay /\ tx.open /\ snapshots' = tx.snapshots
  BY DEF IInv, Commit
<1>2. OpenTx(tx) /\ d \in Dates
  BY <1>1 DEF TypeOK, NoTx, SnapshotTable
<1>3. /\ tx.start \in Dates /\ tx.affected \in Dates /\ tx.cursor \in Nat /\ tx.through \in Nat
      /\ d \in Nat /\ tx.cursor > tx.through
  BY <1>2 DEF OpenTx, Dates, NoDate, Commit, ConstantsAssumption
<1>4. /\ DOMAIN tx.snapshots = Before(DOMAIN snapshots, tx.start) \cup (tx.start .. (tx.cursor - 1))
      /\ \A e \in Before(DOMAIN snapshots, tx.start) : tx.snapshots[e] = snapshots[e]
      /\ tx.start = tx.affected \/ Before(DOMAIN snapshots, tx.affected) = {}
  BY <1>1 DEF LoopInvariant
<1>5. d <= tx.through
  BY <1>1, <1>2, <1>3 DEF LoopInvariant
<1>6. CASE d < tx.start
  BY <1>1, <1>4, <1>6 DEF Before
<1>7. CASE ~(d < tx.start)
  <2>1. d \in tx.start .. (tx.cursor - 1)
    BY <1>3, <1>5, <1>7 DEF Dates
  <2>2. ~(d < tx.affected)
    BY <1>3, <1>4, <1>7 DEF Before, Dates
  <2>3. QED BY <1>1, <1>4, <2>1, <2>2
<1>8. QED BY <1>6, <1>7

\* A materialised day never leaves the timeline.
THEOREM DaysStay == Spec => SnapshotsNeverVanish
<1>1. IInv /\ [Next]_vars => [DOMAIN snapshots \subseteq DOMAIN snapshots']_vars
  <2>1. SUFFICES ASSUME IInv, [Next]_vars
                 PROVE  DOMAIN snapshots \subseteq DOMAIN snapshots'
    OBVIOUS
  <2>2. CASE Commit
    BY <2>1, <2>2, ConstantsAssumption, CommittedTimeline
  <2>3. CASE ~Commit
    BY <2>1, <2>3, SnapshotsOnlyByCommit
  <2>4. QED BY <2>2, <2>3
<1>2. QED BY <1>1, InductiveInvariant, PTL DEF Spec, SnapshotsNeverVanish

\* A request dated d leaves every earlier day as it was.
THEOREM PastStays == Spec => PastUntouched
<1> DEFINE Untouched ==
      \A d \in DOMAIN snapshots :
        tx.open /\ d < tx.affected => d \in DOMAIN snapshots' /\ snapshots'[d] = snapshots[d]
<1>1. IInv /\ [Next]_vars => [Untouched]_vars
  <2>1. SUFFICES ASSUME IInv, [Next]_vars
                 PROVE  Untouched
    OBVIOUS
  <2>2. CASE Commit
    BY <2>1, <2>2, ConstantsAssumption, CommittedTimeline
  <2>3. CASE ~Commit
    BY <2>1, <2>3, SnapshotsOnlyByCommit
  <2>4. QED BY <2>2, <2>3
<1>2. QED BY <1>1, InductiveInvariant, PTL DEF Spec, PastUntouched

-----------------------------------------------------------------------------
(* The summary, read in two statements.                                    *)

\* Between its statements, unless somebody has committed, the summary holds the balance
\* that is still on the account.
SummaryInv ==
  /\ call \in [pc : {"idle", "snapshot"}, current : Int, beside : BOOLEAN]
  /\ call.pc = "snapshot" /\ ~call.beside => call.current = currentBalanceCached

\* The latest snapshot adds up and closes at the balance cached on the account.
LEMMA LatestCloses ==
  ASSUME ConstantsAssumption, IInv, DOMAIN snapshots # {}
  PROVE  /\ LatestDailyBalance \in Row
         /\ AddsUp(LatestDailyBalance)
         /\ LatestDailyBalance.closing = currentBalanceCached
<1> DEFINE last == Max(DOMAIN snapshots)
<1>1. TypeOK /\ CacheAligned /\ SnapshotsChain
  BY DEF IInv, LedgerInv
<1>2. last \in DOMAIN snapshots /\ \A e \in DOMAIN snapshots : last >= e
  <2>1. DOMAIN snapshots \subseteq 0..MaxDate /\ MaxDate \in Nat
    BY <1>1 DEF TypeOK, SnapshotTable, Dates, ConstantsAssumption
  <2>2. QED BY <2>1, MaxOfInterval
<1> HIDE DEF last
<1>3. CarriedInto(snapshots, MaxDate + 1) = snapshots[last].closing
  <2>1. /\ DOMAIN snapshots \subseteq Dates /\ MaxDate + 1 \in Nat /\ last < MaxDate + 1
        /\ \A e \in DOMAIN snapshots : e < MaxDate + 1 => e <= last
    <3>1. MaxDate \in Nat /\ DOMAIN snapshots \subseteq 1..MaxDate
      BY <1>1, ConstantsAssumption DEF TypeOK, SnapshotTable, Dates, ConstantsAssumption
    <3>2. last \in 1..MaxDate
      BY <1>2, <3>1
    <3>3. QED BY <1>2, <3>1, <3>2 DEF Dates
  <2>2. QED BY <1>2, <2>1, CarriedAfterRow
<1>4. snapshots[last] \in Row /\ AddsUp(snapshots[last])
  BY <1>1, <1>2 DEF TypeOK, SnapshotTable, SnapshotsChain, Chained
<1>5. QED BY <1>1, <1>3, <1>4 DEF LatestDailyBalance, last, CacheAligned

\* What the second statement adds is the latest snapshot's.
LEMMA AnswerExplained ==
  ASSUME ConstantsAssumption, IInv, SummaryInv
  PROVE  SummaryTornOnlyBeside
<1>1. call.current \in Int /\ (call.pc = "snapshot" /\ ~call.beside => call.current = currentBalanceCached)
  BY DEF SummaryInv
<1>2. CASE DOMAIN snapshots = {}
  <2>1. /\ Answer.current = call.current /\ Answer.calculated = call.current
        /\ Answer.reconciled = call.current /\ Answer.difference = 0
    BY <1>2 DEF Answer
  <2>2. QED BY <1>1, <2>1 DEF SummaryTornOnlyBeside
<1>3. CASE DOMAIN snapshots # {}
  <2> DEFINE row == LatestDailyBalance
  <2>1. row \in Row /\ AddsUp(row) /\ row.closing = currentBalanceCached
    BY <1>3, LatestCloses
  <2>2. /\ Answer.current = call.current /\ Answer.reconciled = row.closing
        /\ Answer.calculated = row.opening + row.inflow - row.outflow
        /\ Answer.difference = row.adjustment
    BY <1>3 DEF Answer
  <2> HIDE DEF row
  <2>3. Answer.calculated + Answer.difference = Answer.reconciled
    BY <2>1, <2>2 DEF AddsUp, Row
  <2>4. QED BY <1>1, <2>1, <2>2, <2>3 DEF SummaryTornOnlyBeside
<1>4. QED BY <1>2, <1>3

LEMMA SummaryStep ==
  ASSUME IInv, SummaryInv, [SummaryNext]_summaryVars
  PROVE  SummaryInv'
<1>1. CASE FindAccount
  <2>1. currentBalanceCached \in Int
    BY DEF IInv, TypeOK
  <2>2. call' = [pc |-> "snapshot", current |-> currentBalanceCached, beside |-> FALSE]
        /\ currentBalanceCached' = currentBalanceCached
    BY <1>1 DEF FindAccount, NoCall, vars
  <2>3. QED BY <2>1, <2>2 DEF SummaryInv
<1>2. CASE FindLatestDailyBalance
  BY <1>2 DEF FindLatestDailyBalance, NoCall, SummaryInv
<1>3. CASE Beside
  <2> DEFINE committed == <<snapshots, currentBalanceCached>>' # <<snapshots, currentBalanceCached>>
             beside == call.beside \/ (call.pc = "snapshot" /\ committed)
  <2>1. call' = [call EXCEPT !.beside = beside] /\ beside \in BOOLEAN
    BY <1>3 DEF Beside, SummaryInv
  <2>2. call.pc = "snapshot" /\ ~beside => ~call.beside /\ currentBalanceCached' = currentBalanceCached
    OBVIOUS
  <2> HIDE DEF beside
  <2>3. QED BY <2>1, <2>2 DEF SummaryInv
<1>4. CASE UNCHANGED summaryVars
  BY <1>4 DEF summaryVars, vars, SummaryInv
<1>5. QED BY <1>1, <1>2, <1>3, <1>4 DEF SummaryNext

\* A summary's difference explains its reconciled balance, and its balance is the reconciled one
\* unless somebody committed between its two statements, whatever edits, aborts and loads there are.
THEOREM SummaryConsistent == SummarySpec => []SummaryTornOnlyBeside
<1>1. SummaryInit => Init /\ SummaryInv
  BY DEF SummaryInit, SummaryInv, NoCall
<1>2. [SummaryNext]_summaryVars => [Next]_vars
  BY DEF SummaryNext, FindAccount, FindLatestDailyBalance, Beside, summaryVars
<1>3. IInv /\ SummaryInv /\ [SummaryNext]_summaryVars => SummaryInv'
  BY SummaryStep
<1>4. SummarySpec => Spec
  BY <1>1, <1>2, PTL DEF SummarySpec, Spec
<1>5. IInv /\ SummaryInv => SummaryTornOnlyBeside
  BY ConstantsAssumption, AnswerExplained
<1>6. QED BY <1>1, <1>3, <1>4, <1>5, InductiveInvariant, PTL DEF SummarySpec

-----------------------------------------------------------------------------
(* The account implements the ledger.                                      *)

\* What the ledger's replay of a day makes of the balances of all days.
Replayed(R, C, d, b) ==
  IF d = 0 THEN InitialBalance
  ELSE IF {i \in DOMAIN R : R[i].date = d} # {}
       THEN R[Max({i \in DOMAIN R : R[i].date = d})].target
       ELSE b[d - 1] + C[d].inflow - C[d].outflow

\* Balances that follow the ledger's rule day by day are the replay: two that do
\* could first differ on some day, but not on day 0, nor on a day whose eve agrees.
LEMMA ReplayUnique ==
  ASSUME ConstantsAssumption, NEW R, NEW C, NEW b,
         b = [d \in 0..MaxDate |-> Replayed(R, C, d, b)]
  PROVE  Ledger!Replay(R, C) = b[MaxDate]
<1> DEFINE on(d) == {i \in DOMAIN R : R[i].date = d}
           after[d \in 0..MaxDate] ==
             IF d = 0 THEN InitialBalance
             ELSE IF on(d) # {} THEN R[Max(on(d))].target
             ELSE after[d - 1] + C[d].inflow - C[d].outflow
<1>1. Ledger!Replay(R, C) = after[MaxDate]
  BY DEF Ledger!Replay, Ledger!Max, Max
<1>2. b = [d \in 0..MaxDate |-> IF d = 0 THEN InitialBalance
             ELSE IF on(d) # {} THEN R[Max(on(d))].target
             ELSE b[d - 1] + C[d].inflow - C[d].outflow]
  BY Zenon DEF Replayed
<1>3. after = [d \in 0..MaxDate |-> IF d = 0 THEN InitialBalance
             ELSE IF on(d) # {} THEN R[Max(on(d))].target
             ELSE after[d - 1] + C[d].inflow - C[d].outflow]
  BY <1>2, Zenon
<1> HIDE DEF after
<1> DEFINE D == {d \in 0..MaxDate : after[d] # b[d]}
<1>4. D = {}
  <2>1. SUFFICES ASSUME D # {} PROVE FALSE
    OBVIOUS
  <2>2. D \subseteq Nat /\ MaxDate \in Nat
    BY DEF ConstantsAssumption
  <2>3. Min(D) \in D /\ \A d \in D : Min(D) <= d
    BY <2>1, <2>2, MinOfNaturals
  <2>4. PICK d \in D : \A e \in D : d <= e
    BY <2>3
  <2>5. d \in 0..MaxDate /\ after[d] # b[d]
    BY <2>4
  <2>6. d # 0
    BY <1>2, <1>3, <2>2, <2>5
  <2>7. d - 1 \in 0..MaxDate /\ d - 1 \notin D
    BY <2>2, <2>4, <2>5, <2>6
  <2>8. after[d - 1] = b[d - 1]
    BY <2>7
  <2>9. /\ b[d] = IF on(d) # {} THEN R[Max(on(d))].target
                 ELSE b[d - 1] + C[d].inflow - C[d].outflow
        /\ after[d] = IF on(d) # {} THEN R[Max(on(d))].target
                     ELSE after[d - 1] + C[d].inflow - C[d].outflow
    <3>1. b[d] = IF on(d) # {} THEN R[Max(on(d))].target
                 ELSE b[d - 1] + C[d].inflow - C[d].outflow
      BY <1>2, <2>5, <2>6, Zenon
    <3>2. after[d] = IF on(d) # {} THEN R[Max(on(d))].target
                     ELSE after[d - 1] + C[d].inflow - C[d].outflow
      BY <1>3, <2>5, <2>6, Zenon
    <3>3. QED BY <3>1, <3>2
  <2>10. QED BY <2>5, <2>8, <2>9, Zenon
<1>5. MaxDate \in 0..MaxDate
  BY DEF ConstantsAssumption
<1>6. QED BY <1>1, <1>4, <1>5

\* The balance after each day, as the snapshots tell it.
BalanceAfter == [d \in 0..MaxDate |-> CarriedInto(snapshots, d + 1)]

\* The snapshots follow the ledger's rule on every day.
LEMMA TimelineFollowsRule ==
  ASSUME ConstantsAssumption, TypeOK, LedgerInv, NEW d \in 0..MaxDate
  PROVE  CarriedInto(snapshots, d + 1) = Replayed(reconciliations, Counted, d, BalanceAfter)
<1> DEFINE on == {i \in DOMAIN reconciliations : reconciliations[i].date = d}
<1>1. /\ MaxDate \in Nat /\ d \in Nat /\ DOMAIN snapshots \subseteq Dates
      /\ \A e \in DOMAIN snapshots : e \in Nat
  BY DEF ConstantsAssumption, TypeOK, SnapshotTable, Dates
<1>2. CASE d = 0
  <2>1. Before(DOMAIN snapshots, 1) = {}
    BY <1>1 DEF Before, Dates
  <2>2. CarriedInto(snapshots, 1) = InitialBalance
    BY <2>1 DEF CarriedInto
  <2>3. QED BY <1>2, <2>2 DEF Replayed
<1>3. CASE d # 0
  <2>1. d \in Dates /\ d - 1 \in 0..MaxDate /\ d + 1 \in Nat /\ d < d + 1
    BY <1>1, <1>3 DEF Dates
  <2>2. BalanceAfter[d - 1] = CarriedInto(snapshots, d)
    <3>1. BalanceAfter[d - 1] = CarriedInto(snapshots, (d - 1) + 1)
      BY <2>1, Zenon DEF BalanceAfter
    <3>2. (d - 1) + 1 = d
      BY <1>1
    <3>3. QED BY <3>1, <3>2
  <2>3. d \in DOMAIN snapshots => CarriedInto(snapshots, d + 1) = snapshots[d].closing
    <3>1. \A e \in DOMAIN snapshots : e < d + 1 => e <= d
      BY <1>1
    <3>2. QED BY <1>1, <2>1, <3>1, CarriedAfterRow
  <2>4. Replayed(reconciliations, Counted, d, BalanceAfter)
          = IF on # {} THEN reconciliations[Max(on)].target
            ELSE CarriedInto(snapshots, d) + Counted[d].inflow - Counted[d].outflow
    BY <1>3, <2>2, Zenon DEF Replayed
  <2>5. CASE on # {}
    <3>1. Max(on) \in on /\ \A j \in on : Max(on) >= j
      <4>1. on \subseteq 0..MaxReconciliations /\ MaxReconciliations \in Nat
        BY DEF TypeOK, ReconciliationTable, Ids, ConstantsAssumption
      <4>2. QED BY <2>5, <4>1, MaxOfInterval
    <3> DEFINE i == Max(on)
    <3> HIDE DEF i
    <3>2. /\ i \in DOMAIN reconciliations /\ reconciliations[i].date = d
          /\ \A j \in OnDay(reconciliations, d) : j <= i
      <4>1. i \in on /\ \A j \in on : i >= j
        BY <3>1 DEF i
      <4>2. \A j \in DOMAIN reconciliations : j \in Nat
        BY DEF TypeOK, ReconciliationTable, Ids
      <4>3. QED BY <4>1, <4>2 DEF OnDay
    <3>3. d \in DOMAIN snapshots /\ snapshots[d].closing = reconciliations[i].target
      BY <3>2 DEF LedgerInv, ReconciledDaysCloseAtTarget
    <3>4. QED BY <2>3, <2>4, <2>5, <3>3 DEF i
  <2>6. CASE on = {} /\ d \in DOMAIN snapshots
    <3>1. snapshots[d].adjustment = 0
      BY <2>6 DEF LedgerInv, AdjustmentsOnlyWhereReconciled
    <3>2. snapshots[d].opening = CarriedInto(snapshots, d) /\ AddsUp(snapshots[d])
      BY <2>6 DEF LedgerInv, SnapshotsChain, Chained
    <3>3. snapshots[d] \in Row
      BY <2>6 DEF TypeOK, SnapshotTable
    <3>4. Counted[d] = [inflow |-> snapshots[d].inflow, outflow |-> snapshots[d].outflow]
      BY <2>1, <2>6 DEF Counted
    <3>5. snapshots[d].closing = snapshots[d].opening + snapshots[d].inflow - snapshots[d].outflow
      BY <3>1, <3>2, <3>3 DEF AddsUp, Row
    <3>6. QED BY <2>3, <2>4, <2>6, <3>2, <3>4, <3>5
  <2>7. CASE on = {} /\ d \notin DOMAIN snapshots
    <3>1. Before(DOMAIN snapshots, d + 1) = Before(DOMAIN snapshots, d)
      BY <1>1, <2>7 DEF Before
    <3>2. CarriedInto(snapshots, d + 1) = CarriedInto(snapshots, d)
      BY <3>1, Zenon DEF CarriedInto
    <3>3. Counted[d] = NoFlow
      BY <2>1, <2>7 DEF Counted
    <3>4. CarriedInto(snapshots, d) \in Int
      BY <1>1, CarriedType DEF TypeOK
    <3>5. QED BY <2>4, <2>7, <3>2, <3>3, <3>4 DEF NoFlow
  <2>8. QED BY <2>5, <2>6, <2>7
<1>4. QED BY <1>2, <1>3

CachedIsReplay == currentBalanceCached = Ledger!Replay(reconciliations, Counted)

\* The cached balance is the replay of the reconciliations and of what is counted.
LEMMA CachedIsReplayed ==
  ASSUME ConstantsAssumption, TypeOK, LedgerInv
  PROVE  CachedIsReplay
<1>1. BalanceAfter = [d \in 0..MaxDate |-> Replayed(reconciliations, Counted, d, BalanceAfter)]
  <2> DEFINE rule == [d \in 0..MaxDate |-> Replayed(reconciliations, Counted, d, BalanceAfter)]
  <2>1. \A d \in 0..MaxDate : CarriedInto(snapshots, d + 1)
                                = Replayed(reconciliations, Counted, d, BalanceAfter)
    BY TimelineFollowsRule
  <2>2. [d \in 0..MaxDate |-> CarriedInto(snapshots, d + 1)] = rule
    BY <2>1, Zenon
  <2>3. QED BY <2>2, Zenon DEF BalanceAfter
<1>2. BalanceAfter[MaxDate] = CarriedInto(snapshots, MaxDate + 1)
  BY DEF BalanceAfter, ConstantsAssumption
<1>3. Ledger!Replay(reconciliations, Counted) = BalanceAfter[MaxDate]
  BY <1>1, ReplayUnique
<1>4. QED BY <1>2, <1>3 DEF LedgerInv, CacheAligned, CachedIsReplay

\* What an open transaction will commit: one edit of the reconciliations, and the
\* day from which it recomputes.
Edited(R, id, d, t) ==
  [i \in DOMAIN R \cup {id} |-> IF i = id THEN [date |-> d, target |-> t] ELSE R[i]]

\* S is R with one reconciliation created after the newest, changed or deleted, and d is
\* the earliest day that concerns.
EditOf(R, newest, S, d) ==
  \/ \E t \in Targets :
       d \in Dates /\ newest < MaxReconciliations /\ S = Edited(R, newest + 1, d, t)
  \/ \E id \in DOMAIN R, e \in Dates, t \in Targets :
       d = Min({R[id].date, e}) /\ S = [R EXCEPT ![id] = [date |-> e, target |-> t]]
  \/ \E id \in DOMAIN R :
       d = R[id].date /\ S = Restrict(R, DOMAIN R \ {id})

TxOrigin == tx.open => EditOf(reconciliations, lastId, tx.reconciliations, tx.affected)

CountedInv == Counted \in [Dates -> Flows]

RefinementInv == IInv /\ TxOrigin /\ CountedInv

\* A commit counts the transactions of every day from the affected one on, and of
\* an earlier day all or what was counted before.
LEMMA CommitCounts ==
  ASSUME ConstantsAssumption, IInv, CountedInv, Commit
  PROVE  /\ Counted' \in [Dates -> Flows]
         /\ \A e \in Dates :
              Counted'[e] \in {transactions[e]} \cup (IF e < tx.affected THEN {Counted[e]} ELSE {})
<1>1. TypeOK /\ LoopInvariant /\ tx.open /\ snapshots' = tx.snapshots /\ tx.cursor > tx.through
  BY DEF IInv, Commit
<1>2. OpenTx(tx)
  BY <1>1 DEF TypeOK, NoTx
<1>3. /\ tx.start \in Nat /\ tx.affected \in Nat /\ tx.cursor \in Nat /\ tx.through \in Nat
      /\ tx.start <= tx.affected /\ tx.cursor = tx.through + 1 /\ tx.start > 0
  BY <1>1, <1>2 DEF OpenTx, Dates, NoDate, LoopInvariant, ConstantsAssumption
<1>4. /\ DOMAIN tx.snapshots = Before(DOMAIN snapshots, tx.start) \cup (tx.start .. (tx.cursor - 1))
      /\ \A d \in Before(DOMAIN snapshots, tx.start) : tx.snapshots[d] = snapshots[d]
      /\ \A d \in tx.start .. (tx.cursor - 1) :
           tx.snapshots[d].inflow = transactions[d].inflow /\ tx.snapshots[d].outflow = transactions[d].outflow
      /\ \/ tx.start = tx.affected
         \/ Before(DOMAIN snapshots, tx.affected) = {} /\ \A d \in Dates : d < tx.start => transactions[d] = NoFlow
      /\ \A d \in Dates : d > tx.through => d \notin DOMAIN snapshots /\ transactions[d] = NoFlow
  BY <1>1 DEF LoopInvariant
<1>5. Counted' = [d \in Dates |->
                    IF d \in DOMAIN tx.snapshots
                    THEN [inflow |-> tx.snapshots[d].inflow, outflow |-> tx.snapshots[d].outflow]
                    ELSE NoFlow]
  BY <1>1 DEF Counted
<1>6. ASSUME NEW e \in Dates
      PROVE  /\ transactions[e] \in Flows /\ Counted[e] \in Flows
             /\ Counted'[e] \in {transactions[e]} \cup (IF e < tx.affected THEN {Counted[e]} ELSE {})
  <2>1. transactions[e] \in Flows /\ Counted[e] \in Flows /\ e \in Nat /\ e > 0
    BY <1>1 DEF TypeOK, CountedInv, Dates
  <2>2. transactions[e] = [inflow |-> transactions[e].inflow, outflow |-> transactions[e].outflow]
    BY <2>1 DEF ConstantsAssumption
  <2>3. CASE e \in tx.start .. (tx.cursor - 1)
    <3>1. Counted'[e] = [inflow |-> tx.snapshots[e].inflow, outflow |-> tx.snapshots[e].outflow]
      BY <1>4, <1>5, <2>3
    <3>2. Counted'[e] = transactions[e]
      BY <1>4, <2>2, <2>3, <3>1
    <3>3. QED BY <2>1, <3>2
  <2>4. CASE e > tx.through /\ e >= tx.start
    <3>1. e \notin Before(DOMAIN snapshots, tx.start) /\ e \notin tx.start .. (tx.cursor - 1)
      BY <1>3, <2>1, <2>4 DEF Before
    <3>2. Counted'[e] = NoFlow
      BY <1>4, <1>5, <3>1
    <3>3. QED BY <1>4, <2>1, <2>4, <3>2
  <2>5. CASE e < tx.start /\ tx.start = tx.affected
    <3>1. e \in DOMAIN tx.snapshots <=> e \in DOMAIN snapshots
      BY <1>3, <1>4, <2>1, <2>5 DEF Before
    <3>2. e \in DOMAIN snapshots => tx.snapshots[e] = snapshots[e]
      BY <1>4, <2>5 DEF Before
    <3>3. Counted'[e] = Counted[e]
      BY <1>5, <3>1, <3>2 DEF Counted
    <3>4. QED BY <2>1, <2>5, <3>3
  <2>6. CASE e < tx.start /\ Before(DOMAIN snapshots, tx.affected) = {}
                          /\ \A d \in Dates : d < tx.start => transactions[d] = NoFlow
    <3>1. e \notin DOMAIN tx.snapshots
      BY <1>3, <1>4, <2>1, <2>6 DEF Before
    <3>2. Counted'[e] = NoFlow
      BY <1>5, <3>1
    <3>3. QED BY <2>1, <2>6, <3>2
  <2>7. QED BY <1>3, <1>4, <2>1, <2>3, <2>4, <2>5, <2>6
<1>7. \A e \in Dates : Counted'[e] \in Flows
  BY <1>6
<1>8. Counted' \in [Dates -> Flows]
  <2>1. Counted' = [d \in Dates |-> Counted'[d]]
    BY <1>5
  <2>2. QED BY <1>7, <2>1
<1>9. QED BY <1>6, <1>8

\* The open transaction keeps its origin: nothing else writes meanwhile.
LEMMA OriginStep ==
  ASSUME ConstantsAssumption, TypeOK, TxOrigin, [Next]_vars
  PROVE  TxOrigin'
<1>1. CASE UNCHANGED vars
  BY <1>1 DEF TxOrigin, vars
<1> DEFINE S == tx'.reconciliations
           a == tx'.affected
<1>2. ASSUME NEW d \in Dates, NEW t \in Targets, CreateReconciliation(d, t)
      PROVE  TxOrigin'
  <2>1. /\ lastId < MaxReconciliations /\ a = d /\ S = Edited(reconciliations, lastId + 1, d, t)
        /\ lastId' = lastId /\ reconciliations' = reconciliations
    BY <1>2 DEF CreateReconciliation, BeginRecompute, database, Edited
  <2>2. EditOf(reconciliations, lastId, S, a)
    BY <2>1 DEF EditOf
  <2>3. QED BY <2>1, <2>2 DEF TxOrigin
<1>3. ASSUME NEW id \in Ids, NEW d \in Dates, NEW t \in Targets, UpdateReconciliation(id, d, t)
      PROVE  TxOrigin'
  <2>1. /\ id \in DOMAIN reconciliations /\ a = Min({reconciliations[id].date, d})
        /\ S = [reconciliations EXCEPT ![id] = [date |-> d, target |-> t]]
        /\ lastId' = lastId /\ reconciliations' = reconciliations
    BY <1>3 DEF UpdateReconciliation, BeginRecompute, database
  <2>2. EditOf(reconciliations, lastId, S, a)
    <3> HIDE DEF S, a
    <3>1. QED BY <2>1 DEF EditOf
  <2>3. QED BY <2>1, <2>2 DEF TxOrigin
<1>4. ASSUME NEW id \in Ids, DeleteReconciliation(id)
      PROVE  TxOrigin'
  <2>1. /\ id \in DOMAIN reconciliations /\ a = reconciliations[id].date
        /\ S = Restrict(reconciliations, DOMAIN reconciliations \ {id})
        /\ lastId' = lastId /\ reconciliations' = reconciliations
    BY <1>4 DEF DeleteReconciliation, BeginRecompute, database
  <2>2. EditOf(reconciliations, lastId, S, a)
    BY <2>1 DEF EditOf
  <2>3. QED BY <2>1, <2>2 DEF TxOrigin
<1>5. CASE MaterializeDay
  <2>1. OpenTx(tx)
    BY <1>5 DEF MaterializeDay, TypeOK, NoTx
  <2>2. /\ tx.open /\ a = tx.affected /\ S = tx.reconciliations
        /\ reconciliations' = reconciliations /\ lastId' = lastId
    BY <1>5, <2>1 DEF MaterializeDay, OpenTx, database
  <2>3. QED BY <2>2 DEF TxOrigin
<1>6. CASE Commit \/ Abort
  BY <1>6 DEF Commit, Abort, TxOrigin, NoTx
<1>7. CASE \E d \in Dates, f \in Flows : ChangeTransactions(d, f)
  BY <1>7 DEF ChangeTransactions, TxOrigin
<1>8. QED BY <1>1, <1>2, <1>3, <1>4, <1>5, <1>6, <1>7 DEF Next

\* The strengthened invariant is inductive.
LEMMA RefinementStep ==
  ASSUME ConstantsAssumption, RefinementInv, [Next]_vars
  PROVE  RefinementInv'
<1>1. IInv'
  BY InvStep DEF RefinementInv
<1>2. TxOrigin'
  BY OriginStep DEF RefinementInv, IInv
<1>3. CountedInv'
  <2>1. CASE Commit
    BY <2>1, CommitCounts DEF RefinementInv, CountedInv
  <2>2. CASE ~Commit
    <3>1. snapshots' = snapshots
      BY <2>2, SnapshotsOnlyByCommit
    <3>2. QED BY <3>1 DEF RefinementInv, CountedInv, Counted
  <2>3. QED BY <2>1, <2>2
<1>4. QED BY <1>1, <1>2, <1>3 DEF RefinementInv

LEMMA RefinementInit == ASSUME ConstantsAssumption, Init PROVE RefinementInv
<1>1. IInv
  BY InitInv
<1>2. TxOrigin
  BY DEF Init, NoTx, TxOrigin
<1>3. CountedInv
  <2>1. Counted = [d \in Dates |-> NoFlow]
    BY DEF Init, Counted, EmptyTable
  <2>2. QED BY <2>1 DEF CountedInv, ConstantsAssumption
<1>4. QED BY <1>1, <1>2, <1>3 DEF RefinementInv

\* A committed request is the ledger's step for its edit.
LEMMA CommitRefines ==
  ASSUME ConstantsAssumption, RefinementInv, CachedIsReplay', Commit
  PROVE  Ledger!Next
<1>1. /\ TypeOK /\ tx.open /\ reconciliations' = tx.reconciliations
      /\ transactions' = transactions
  BY DEF RefinementInv, IInv, Commit, environment
<1>2. OpenTx(tx) /\ Ledger!Dates = Dates
  BY <1>1 DEF TypeOK, NoTx, Ledger!Dates, Dates
<1>3. Ledger!Settle(tx.affected)
  <2>1. /\ Counted' \in [Dates -> Flows]
        /\ \A e \in Dates :
             Counted'[e] \in {transactions[e]} \cup (IF e < tx.affected THEN {Counted[e]} ELSE {})
    BY CommitCounts DEF RefinementInv
  <2>2. currentBalanceCached' = Ledger!Replay(reconciliations', Counted')
    BY DEF CachedIsReplay
  <2>3. QED BY <1>1, <1>2, <2>1, <2>2 DEF Ledger!Settle
<1>4. CASE \E t \in Targets :
             /\ tx.affected \in Dates /\ lastId < MaxReconciliations
             /\ tx.reconciliations = Edited(reconciliations, lastId + 1, tx.affected, t)
  <2>1. PICK t \in Targets :
             /\ tx.affected \in Dates /\ lastId < MaxReconciliations
             /\ tx.reconciliations = Edited(reconciliations, lastId + 1, tx.affected, t)
    BY <1>4
  <2>2. lastId + 1 \in 1..MaxReconciliations /\ \A i \in DOMAIN reconciliations : i < lastId + 1
    BY <1>1, <2>1 DEF TypeOK, ReconciliationTable, Ids, ConstantsAssumption
  <2>3. Ledger!Record(lastId + 1, tx.affected, t)
    BY <1>1, <1>3, <2>1, <2>2 DEF Ledger!Record, Edited
  <2>4. QED BY <1>2, <2>1, <2>2, <2>3 DEF Ledger!Next
<1>5. CASE \E id \in DOMAIN reconciliations, e \in Dates, t \in Targets :
             /\ tx.affected = Min({reconciliations[id].date, e})
             /\ tx.reconciliations = [reconciliations EXCEPT ![id] = [date |-> e, target |-> t]]
  <2>1. PICK id \in DOMAIN reconciliations, e \in Dates, t \in Targets :
             /\ tx.affected = Min({reconciliations[id].date, e})
             /\ tx.reconciliations = [reconciliations EXCEPT ![id] = [date |-> e, target |-> t]]
    BY <1>5
  <2>2. id \in 1..MaxReconciliations
    BY <1>1 DEF TypeOK, ReconciliationTable, Ids
  <2>3. {reconciliations[id].date, e} = {e, reconciliations[id].date}
    OBVIOUS
  <2>4. Ledger!Min({e, reconciliations[id].date}) = tx.affected
    BY <2>1, <2>3, Zenon DEF Ledger!Min, Min
  <2>5. Ledger!Correct(id, e, t)
    BY <1>1, <1>3, <2>1, <2>4 DEF Ledger!Correct
  <2>6. QED BY <1>2, <2>2, <2>5 DEF Ledger!Next
<1>6. CASE \E id \in DOMAIN reconciliations :
             /\ tx.affected = reconciliations[id].date
             /\ tx.reconciliations = Restrict(reconciliations, DOMAIN reconciliations \ {id})
  <2>1. PICK id \in DOMAIN reconciliations :
             /\ tx.affected = reconciliations[id].date
             /\ tx.reconciliations = Restrict(reconciliations, DOMAIN reconciliations \ {id})
    BY <1>6
  <2>2. id \in 1..MaxReconciliations
    BY <1>1 DEF TypeOK, ReconciliationTable, Ids
  <2>3. Ledger!Remove(id)
    BY <1>1, <1>3, <2>1 DEF Ledger!Remove, Ledger!Restrict, Restrict
  <2>4. QED BY <2>2, <2>3 DEF Ledger!Next
<1>7. QED
  <2>1. EditOf(reconciliations, lastId, tx.reconciliations, tx.affected)
    BY <1>1 DEF RefinementInv, TxOrigin
  <2>2. QED BY <1>4, <1>5, <1>6, <2>1 DEF EditOf

\* Every step is a step of the ledger or leaves it alone.
LEMMA StepRefines ==
  ASSUME ConstantsAssumption, RefinementInv, CachedIsReplay', [Next]_vars
  PROVE  [Ledger!Next]_(Ledger!vars)
<1>1. CASE Commit
  BY <1>1, CommitRefines
<1>2. CASE \E d \in Dates, f \in Flows : ChangeTransactions(d, f)
  <2>1. PICK d \in Dates, f \in Flows : ChangeTransactions(d, f)
    BY <1>2
  <2>2. /\ transactions' \in [Dates -> Flows]
        /\ UNCHANGED <<reconciliations, Counted, currentBalanceCached>>
    BY <2>1 DEF ChangeTransactions, RefinementInv, IInv, TypeOK, Counted
  <2>3. Ledger!LedgerMoves
    BY <2>2 DEF Ledger!LedgerMoves, Ledger!Dates, Dates
  <2>4. QED BY <2>3 DEF Ledger!Next
<1>3. CASE ~Commit /\ ~\E d \in Dates, f \in Flows : ChangeTransactions(d, f)
  <2>1. UNCHANGED <<reconciliations, transactions, snapshots, currentBalanceCached>>
    BY <1>3 DEF Next, vars, CreateReconciliation, UpdateReconciliation, DeleteReconciliation,
                MaterializeDay, Abort, database, environment
  <2>2. UNCHANGED Counted
    BY <2>1 DEF Counted
  <2>3. QED BY <2>1, <2>2 DEF Ledger!vars
<1>4. QED BY <1>1, <1>2, <1>3

\* The cached balance is at all times the replay of the reconciliations and of the
\* transactions counted so far.
THEOREM CachedBalanceReplays == Spec => []CachedIsReplay
<1>1. IInv => CachedIsReplay
  BY ConstantsAssumption, CachedIsReplayed DEF IInv
<1>2. QED BY <1>1, InductiveInvariant, PTL

\* The snapshots, their recomputes and their rollbacks implement the ledger: every
\* commit is one of its edits, everything else leaves it alone.
THEOREM LedgerImplemented == Spec => RefinesLedger
<1>1. Init => Ledger!Init
  <2>1. SUFFICES ASSUME Init PROVE Ledger!Init
    OBVIOUS
  <2>2. Counted = [d \in Dates |-> NoFlow]
    BY <2>1 DEF Init, Counted, EmptyTable
  <2>3. QED BY <2>1, <2>2 DEF Init, Ledger!Init, EmptyTable, Ledger!Dates, Dates, NoFlow
<1>2. Init => RefinementInv
  BY ConstantsAssumption, RefinementInit
<1>3. RefinementInv /\ [Next]_vars => RefinementInv'
  BY ConstantsAssumption, RefinementStep
<1>4. RefinementInv /\ CachedIsReplay' /\ [Next]_vars => [Ledger!Next]_(Ledger!vars)
  BY ConstantsAssumption, StepRefines
<1>5. QED
  BY <1>1, <1>2, <1>3, <1>4, CachedBalanceReplays, PTL DEF Spec, RefinesLedger, Ledger!Spec
=============================================================================
