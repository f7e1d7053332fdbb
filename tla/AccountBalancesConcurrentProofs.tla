------------------- MODULE AccountBalancesConcurrentProofs -------------------
(***************************************************************************)
(* Proofs about AccountBalancesConcurrent, for every number of workers,    *)
(* calendar, set of targets and layout of transactions.                    *)
(***************************************************************************)
EXTENDS AccountBalancesConcurrent, WellFoundedInduction, TLAPS

-----------------------------------------------------------------------------
(* Least and greatest days.                                                *)

Earlier == {p \in Nat \X Nat : p[1] < p[2]}

LEMMA EarlierWellFounded == IsWellFoundedOn(Earlier, Nat)
  BY NatLessThanWellFounded DEF OpToRel, Earlier

\* Min of a non-empty set of naturals is its least element.
LEMMA MinOfNaturals ==
  ASSUME NEW S, S \subseteq Nat, S # {}
  PROVE  Min(S) \in S /\ \A y \in S : Min(S) <= y
<1>1. PICK x \in S : \A y \in S : ~(<<y, x>> \in Earlier)
  BY EarlierWellFounded, WFMin, Zenon
<1>2. ASSUME NEW y \in S PROVE x <= y
  <2>1. y < x => <<y, x>> \in Earlier
    BY DEF Earlier
  <2>2. ~(<<y, x>> \in Earlier)
    BY <1>1
  <2>3. x \in Nat /\ y \in Nat
    OBVIOUS
  <2>4. QED BY <2>1, <2>2, <2>3
<1>3. QED BY <1>2 DEF Min

\* Max of a non-empty set of naturals up to N is its greatest element.
LEMMA MaxOfInterval ==
  ASSUME NEW N \in Nat, NEW S, S \subseteq 0..N, S # {}
  PROVE  Max(S) \in S /\ \A y \in S : Max(S) >= y
<1> DEFINE T == {N - y : y \in S}
<1>1. T \subseteq Nat /\ T # {}
  <2>1. ASSUME NEW y \in S PROVE N - y \in Nat
    <3>1. y \in Int /\ 0 <= y /\ y <= N
      OBVIOUS
    <3>2. QED BY <3>1
  <2>2. PICK y \in S : TRUE
    OBVIOUS
  <2>3. QED BY <2>1, <2>2
<1>2. Min(T) \in T /\ \A t \in T : Min(T) <= t
  BY <1>1, MinOfNaturals
<1>3. PICK x \in S : Min(T) = N - x
  BY <1>2
<1>4. \A y \in S : x >= y
  <2>1. SUFFICES ASSUME NEW y \in S PROVE x >= y
    OBVIOUS
  <2>2. N - y \in T
    OBVIOUS
  <2>3. N - x <= N - y
    BY <1>2, <1>3, <2>2
  <2>4. QED BY <2>3
<1>5. QED BY <1>4 DEF Max

-----------------------------------------------------------------------------
(* The balance carried into a day.                                         *)

\* It is the closing of some earlier row that no other earlier row follows,
\* or the initial balance when there is no earlier row.
LEMMA CarriedCases ==
  ASSUME ConcurrentAssumption, NEW rows, DOMAIN rows \subseteq Dates, NEW d \in Nat
  PROVE  \/ /\ Before(DOMAIN rows, d) = {}
            /\ CarriedInto(rows, d) = InitialBalance
         \/ \E e \in DOMAIN rows :
              /\ e < d
              /\ \A f \in DOMAIN rows : f < d => f <= e
              /\ CarriedInto(rows, d) = rows[e].closing
<1>1. CASE Before(DOMAIN rows, d) = {}
  BY <1>1 DEF CarriedInto
<1>2. CASE Before(DOMAIN rows, d) # {}
  <2>1. Before(DOMAIN rows, d) \subseteq 0..MaxDate /\ MaxDate \in Nat
    BY DEF Before, Dates, ConcurrentAssumption
  <2>2. /\ Max(Before(DOMAIN rows, d)) \in Before(DOMAIN rows, d)
        /\ \A f \in Before(DOMAIN rows, d) : Max(Before(DOMAIN rows, d)) >= f
    BY <1>2, <2>1, MaxOfInterval
  <2>3. QED BY <1>2, <2>1, <2>2 DEF CarriedInto, Before
<1>3. QED BY <1>1, <1>2

\* The day after a row, it is that row's closing.
LEMMA CarriedAfterRow ==
  ASSUME ConcurrentAssumption, NEW rows, DOMAIN rows \subseteq Dates,
         NEW d \in DOMAIN rows, NEW n \in Nat, d < n,
         \A e \in DOMAIN rows : e < n => e <= d
  PROVE  CarriedInto(rows, n) = rows[d].closing
<1>1. Before(DOMAIN rows, n) # {} /\ d \in Nat
  BY DEF Before, Dates
<1>2. PICK e \in DOMAIN rows : /\ e < n
                               /\ \A f \in DOMAIN rows : f < n => f <= e
                               /\ CarriedInto(rows, n) = rows[e].closing
  BY <1>1, CarriedCases
<1>3. e = d
  BY <1>2 DEF Dates
<1>4. QED BY <1>2, <1>3

-----------------------------------------------------------------------------
(* The inductive invariant.                                                *)

\* Where a handler that has written its reconciliation may be.
Inserting  == {"insert", "commit"}
Deleted    == {"sources"} \cup Inserting
Started    == {"delete", "deleting"} \cup Deleted
Merged     == {"earliest"} \cup Started
Ranged     == {"latest reconciliation"} \cup Merged
Opened     == {"latest day"} \cup Ranged
Recompute  == {"previous"} \cup Opened
Statements == {"start", "write"} \cup Recompute

\* What a handler knows at each statement, whatever the others do.
HandlerInv(r) ==
  /\ DOMAIN r = DOMAIN NoRequest
  /\ r.pc \in {"idle"} \cup Statements
  /\ r.op = "create" => r.date \in Dates /\ r.target \in Targets
  /\ r.pc = "write" => r.found \in Dates
  /\ r.pc \in Recompute => r.affected \in Dates
  /\ r.opening \in Int
  /\ r.pc \in Ranged => r.through = NoDate \/ r.affected <= r.through
  /\ r.pc \in Started => r.start \in Dates /\ r.start <= r.affected
  /\ r.pc \notin Started => r.seen = {} /\ r.deleted = {}
  /\ \A d \in r.seen \cup r.deleted : r.start <= d

\* The rows built so far: consecutive days from the start, the last one closing at
\* the balance the next one will open with.
RowsInv(r) ==
  /\ r.pc \notin Inserting => DOMAIN r.rows = {} /\ r.cursor = NoDate
  /\ r.pc \in Inserting =>
       /\ r.cursor \in Nat /\ r.cursor <= r.through + 1
       /\ DOMAIN r.rows = r.start .. (r.cursor - 1)
       /\ DOMAIN r.rows # {} => r.rows[r.cursor - 1].closing = r.opening
  /\ r.pc \in {"sources", "insert"} => r.through # NoDate
  /\ r.pc = "insert" => r.start <= r.cursor
  /\ r.pc = "commit" => DOMAIN r.rows = r.start .. r.through

\* On an account materialised through its last day every recompute ranges over that day.
RangesOverLastDay(r) ==
  LastDayMaterialized /\ r.pc \in Ranged => r.through = MaxDate

\* What a request that is alone has read is what is committed.
ReadsAreCurrent(r) ==
  LET S == Seen(r)
  IN  /\ r.pc \in Ranged =>
           \A d \in DOMAIN snapshots : d >= r.affected => d <= r.through
      /\ r.pc \in Merged =>
           \A d \in ReconciledDays(S) : d >= r.affected => d <= r.through
      /\ r.pc \in Opened \ Inserting =>
           /\ r.opening = CarriedInto(snapshots, r.affected)
           /\ r.previous = (Before(DOMAIN snapshots, r.affected) # {})
      /\ r.pc \in Started =>
           \/ r.start = r.affected
           \/ r.through # NoDate /\ Before(DOMAIN snapshots, r.affected) = {}
      /\ r.pc = "deleting" => r.seen = From(DOMAIN snapshots, r.start)
      /\ r.pc \in Deleted => r.deleted = From(DOMAIN snapshots, r.start)
      /\ r.pc = "insert" =>
           r.sources = Restrict(S, {i \in DOMAIN S : S[i].date \in r.start .. r.through})

\* The rows it has built continue the committed timeline, at the targets of the
\* reconciliations as it will leave them.
RowsAreCurrent(r) ==
  LET S == Seen(r)
  IN  r.pc \in Inserting =>
        /\ DOMAIN r.rows = {} => r.opening = CarriedInto(snapshots, r.start)
        /\ \A d \in DOMAIN r.rows :
             /\ r.rows[d].opening =
                  IF d = r.start THEN CarriedInto(snapshots, r.start) ELSE r.rows[d - 1].closing
             /\ Reconciled(S, d) => r.rows[d].closing = S[Effective(S, d)].target

AloneInv(w) ==
  request[w].alone =>
    /\ \A u \in Others(w) : Idle(u)
    /\ ReadsAreCurrent(request[w])
    /\ RowsAreCurrent(request[w])

WorkerInv(w) ==
  /\ RequestOK(request[w])
  /\ HandlerInv(request[w])
  /\ RowsInv(request[w])
  /\ RangesOverLastDay(request[w])
  /\ AloneInv(w)

\* An account materialised through its last day stays so.
LastDayInv == LastDayMaterialized => MaxDate \in DOMAIN snapshots /\ CacheAligned

IInv ==
  /\ TypeOK
  /\ request = [w \in Workers |-> request[w]]
  /\ LastDayInv
  /\ \A w \in Workers : WorkerInv(w)

-----------------------------------------------------------------------------
(* What the statements read.                                               *)

LEMMA SnapshotDays ==
  ASSUME TypeOK
  PROVE  DOMAIN snapshots \subseteq Dates /\ DOMAIN reconciliations \subseteq Nat
  BY DEF TypeOK, TableOf

LEMMA DaysAreNumbers ==
  ASSUME ConcurrentAssumption
  PROVE  /\ MaxDate \in Nat
         /\ \A d \in Dates : d > 0
         /\ \A d \in Dates \cup {NoDate} : d \in Nat /\ d <= MaxDate
  BY DEF ConcurrentAssumption, Dates, NoDate

\* A carried balance is an amount.
LEMMA CarriedType ==
  ASSUME ConcurrentAssumption, TypeOK, NEW d \in Nat
  PROVE  CarriedInto(snapshots, d) \in Int
<1>1. \A e \in DOMAIN snapshots : snapshots[e].closing \in Int
  BY DEF TypeOK, TableOf, TimelineRow
<1>2. QED BY <1>1, CarriedCases, SnapshotDays DEF ConcurrentAssumption

\* The latest of some days from d on, when there is any.
LEMMA LatestBounds ==
  ASSUME ConcurrentAssumption, NEW days, days \subseteq Dates, NEW d \in Dates
  PROVE  /\ Latest(From(days, d)) \in Dates \cup {NoDate}
         /\ Latest(From(days, d)) = NoDate \/ d <= Latest(From(days, d))
         /\ \A e \in days : e >= d => e <= Latest(From(days, d))
<1>1. CASE From(days, d) = {}
  BY <1>1 DEF Latest, From
<1>2. CASE From(days, d) # {}
  <2>0. MaxDate \in Nat
    BY DEF ConcurrentAssumption
  <2>1. From(days, d) \subseteq 0..MaxDate
    <3>1. Dates \subseteq 0..MaxDate
      BY <2>0 DEF Dates
    <3>2. From(days, d) \subseteq days
      BY DEF From
    <3>3. QED BY <3>1, <3>2
  <2> DEFINE l == Max(From(days, d))
  <2>2. l \in From(days, d) /\ \A e \in From(days, d) : l >= e
    BY <1>2, <2>0, <2>1, MaxOfInterval
  <2>3. Latest(From(days, d)) = l
    BY <1>2 DEF Latest
  <2> HIDE DEF l
  <2>4. l \in Dates /\ d <= l
    BY <2>2 DEF From, Dates
  <2>5. \A e \in days : e >= d => e <= l
    BY <2>2, <2>4 DEF From, Dates
  <2>6. QED BY <2>3, <2>4, <2>5
<1>3. QED BY <1>1, <1>2

\* A transaction sees a well-typed table, and so will everyone once it commits.
LEMMA WrittenTyped ==
  ASSUME TypeOK, NEW r, RequestOK(r)
  PROVE  TableOf(Written(r), 1..lastId, Reconciliation)
  BY DEF TypeOK, RequestOK, TableOf, Written

LEMMA SeenDays ==
  ASSUME TypeOK, NEW r, RequestOK(r)
  PROVE  ReconciledDays(Seen(r)) \subseteq Dates
  BY WrittenTyped DEF Seen, ReconciledDays, TableOf, Reconciliation

\* The effective reconciliation of a reconciled day is one of that day.
LEMMA EffectiveOnDay ==
  ASSUME NEW n \in Nat, NEW R, TableOf(R, 1..n, Reconciliation), NEW d, Reconciled(R, d)
  PROVE  Effective(R, d) \in OnDay(R, d)
<1>1. OnDay(R, d) \subseteq 0..n /\ OnDay(R, d) # {}
  BY DEF OnDay, Reconciled, TableOf
<1>2. QED BY <1>1, MaxOfInterval DEF Effective

\* A day closes at an amount.
LEMMA ClosingType ==
  ASSUME ConcurrentAssumption, NEW n \in Nat, NEW R, TableOf(R, 1..n, Reconciliation),
         NEW d \in Dates, NEW b \in Int
  PROVE  Closing(R, d, b) \in Int
<1>1. CASE Reconciled(R, d)
  <2>1. Effective(R, d) \in DOMAIN R
    BY <1>1, EffectiveOnDay DEF OnDay
  <2>2. R[Effective(R, d)].target \in Int
    BY <2>1 DEF TableOf, Reconciliation, ConcurrentAssumption
  <2>3. QED BY <1>1, <2>2 DEF Closing
<1>2. CASE ~Reconciled(R, d)
  BY <1>2 DEF Closing, ConcurrentAssumption
<1>3. QED BY <1>1, <1>2

\* What a transaction sees depends on the committed rows and on what it wrote.
LEMMA SeenSame ==
  ASSUME NEW w \in Workers, reconciliations' = reconciliations,
         request'[w].own = request[w].own, request'[w].removed = request[w].removed
  PROVE  Seen(request[w])' = Seen(request[w])
  BY DEF Seen, Written

-----------------------------------------------------------------------------
(* Each step of a worker keeps what the invariant says of it.              *)

\* After the end of a request nothing is left of it.
LEMMA EndedRequest ==
  ASSUME ConcurrentAssumption, TypeOK, NEW w \in Workers, request'[w] = NoRequest, lastId' = lastId
  PROVE  WorkerInv(w)'
<1>1. DOMAIN EmptyTable = {} /\ EmptyTable \in [DOMAIN EmptyTable -> {}]
  BY DEF EmptyTable
<1>2. RequestOK(request[w])'
  BY <1>1 DEF RequestOK, TypeOK, NoRequest, TableOf, ConcurrentAssumption, Dates
<1>3. HandlerInv(request[w])' /\ RowsInv(request[w])'
  BY <1>1 DEF HandlerInv, RowsInv, NoRequest, ConcurrentAssumption, Statements, Recompute,
              Opened, Ranged, Merged, Started, Deleted, Inserting
<1>4. RangesOverLastDay(request[w])' /\ AloneInv(w)'
  BY DEF RangesOverLastDay, AloneInv, NoRequest, Ranged, Merged, Started, Deleted, Inserting
<1>5. QED BY <1>2, <1>3, <1>4 DEF WorkerInv

\* A request that is about to run its first statement.
LEMMA NewRequest ==
  ASSUME ConcurrentAssumption, TypeOK, NEW w \in Workers, lastId' = lastId,
         DOMAIN request'[w] = DOMAIN NoRequest, request'[w].pc = "start",
         request'[w].id \in 0..lastId, request'[w].attempt \in 0..RetryLimit,
         request'[w].date \in Dates \cup {NoDate}, request'[w].target \in Targets \cup {NoTarget},
         request'[w].op = "create" => request'[w].date \in Dates /\ request'[w].target \in Targets,
         request'[w].alone => \A u \in Others(w) : Idle(u)',
         \A f \in DOMAIN NoRequest :
           f \notin {"pc", "op", "id", "date", "target", "attempt", "alone"}
             => request'[w][f] = NoRequest[f]
  PROVE  WorkerInv(w)'
<1> DEFINE r == request[w]
<1>1. DOMAIN EmptyTable = {} /\ EmptyTable \in [DOMAIN EmptyTable -> {}]
  BY DEF EmptyTable
<1>2. /\ r'.found = NoDate /\ r'.own = EmptyTable /\ r'.affected = NoDate
      /\ r'.opening = InitialBalance /\ r'.through = NoDate /\ r'.start = NoDate
      /\ r'.seen = {} /\ r'.deleted = {} /\ r'.sources = EmptyTable /\ r'.rows = EmptyTable
      /\ r'.cursor = NoDate
  BY DEF NoRequest
<1>3. /\ DOMAIN r' = DOMAIN NoRequest /\ r'.pc = "start" /\ r'.id \in 0..lastId'
      /\ r'.attempt \in 0..RetryLimit
      /\ r'.date \in Dates \cup {NoDate} /\ r'.target \in Targets \cup {NoTarget}
      /\ r'.op = "create" => r'.date \in Dates /\ r'.target \in Targets
  OBVIOUS
<1> HIDE DEF r
<1>4. RequestOK(r)'
  BY <1>1, <1>2, <1>3 DEF RequestOK, TableOf
<1>5. HandlerInv(r)' /\ RowsInv(r)' /\ RangesOverLastDay(r)'
  BY <1>1, <1>2, <1>3 DEF HandlerInv, RowsInv, RangesOverLastDay, ConcurrentAssumption, Statements,
       Recompute, Opened, Ranged, Merged, Started, Deleted, Inserting
<1>6. ReadsAreCurrent(r)' /\ RowsAreCurrent(r)'
  BY <1>3 DEF ReadsAreCurrent, RowsAreCurrent, Opened, Ranged, Merged, Started, Deleted, Inserting
<1>7. AloneInv(w)'
  BY <1>6 DEF AloneInv, r
<1>8. QED BY <1>4, <1>5, <1>7 DEF WorkerInv, r

\* A statement that leaves the tables alone and changes its own request only keeps
\* what is known of the other workers: none of them is alone.
LEMMA OtherWorker ==
  ASSUME IInv, NEW w \in Workers, ~Idle(w), NEW v \in Others(w), request'[v] = request[v],
         lastId' \in Nat, lastId <= lastId', materializedThrough' = materializedThrough
  PROVE  WorkerInv(v)'
<1> DEFINE r == request[v]
<1>1. v \in Workers /\ w \in Others(v) /\ WorkerInv(v) /\ lastId \in Nat
  BY DEF IInv, TypeOK, Others
<1>2. ~r.alone
  BY <1>1 DEF WorkerInv, AloneInv
<1>3. RequestOK(r) /\ HandlerInv(r) /\ RowsInv(r) /\ RangesOverLastDay(r)
  BY <1>1 DEF WorkerInv
<1>4. r' = r
  OBVIOUS
<1>5. AloneInv(v)'
  BY <1>2 DEF AloneInv
<1> HIDE DEF r
<1>6. RequestOK(r)'
  <2>1. r.id \in 0..lastId' /\ 1..lastId \subseteq 1..lastId'
    BY <1>1, <1>3 DEF RequestOK
  <2>2. TableOf(r.own, 1..lastId', Reconciliation) /\ TableOf(r.sources, 1..lastId', Reconciliation)
    BY <1>3, <2>1 DEF RequestOK, TableOf
  <2>3. QED BY <1>3, <1>4, <2>1, <2>2 DEF RequestOK
<1>7. HandlerInv(r)' /\ RowsInv(r)' /\ RangesOverLastDay(r)'
  BY <1>3, <1>4 DEF HandlerInv, RowsInv, RangesOverLastDay, LastDayMaterialized
<1>8. QED BY <1>5, <1>6, <1>7 DEF WorkerInv, r

\* What Advance does to the requests.
LEMMA Advanced ==
  ASSUME IInv, NEW w \in Workers, NEW r, Advance(w, r)
  PROVE  /\ request' = [v \in Workers |-> request'[v]]
         /\ request'[w] = r
         /\ \A v \in Others(w) : request'[v] = request[v]
  BY DEF IInv, Advance, Others

\* The others of a worker that is alone stay idle while it advances.
LEMMA StillAlone ==
  ASSUME NEW w \in Workers, AloneInv(w), request[w].alone, 
         \A v \in Others(w) : request'[v] = request[v]
  PROVE  \A u \in Others(w) : Idle(u)'
  BY DEF AloneInv, Idle

\* A statement that finds nothing and writes no reconciliation.
LEMMA RequestKept ==
  ASSUME NEW w \in Workers, RequestOK(request[w]), lastId' = lastId,
         DOMAIN request'[w] = DOMAIN NoRequest,
         \A f \in {"id", "attempt", "date", "target", "found", "own"} :
           request'[w][f] = request[w][f],
         request'[w].affected \in Dates \cup {NoDate}, request'[w].through \in Dates \cup {NoDate},
         request'[w].start \in Dates \cup {NoDate},
         request'[w].seen \subseteq Dates, request'[w].deleted \subseteq Dates,
         TableOf(request'[w].sources, 1..lastId, Reconciliation),
         TableOf(request'[w].rows, request'[w].start .. request'[w].through, TimelineRow)
  PROVE  RequestOK(request[w])'
<1> DEFINE r == request[w]
<1>1. r'.id = r.id /\ r'.attempt = r.attempt /\ r'.date = r.date /\ r'.target = r.target
      /\ r'.found = r.found /\ r'.own = r.own
  OBVIOUS
<1>2. /\ RequestOK(r) /\ lastId' = lastId
      /\ r'.affected \in Dates \cup {NoDate} /\ r'.through \in Dates \cup {NoDate}
      /\ r'.start \in Dates \cup {NoDate} /\ r'.seen \subseteq Dates /\ r'.deleted \subseteq Dates
      /\ TableOf(r'.sources, 1..lastId, Reconciliation)
      /\ TableOf(r'.rows, r'.start .. r'.through, TimelineRow)
  OBVIOUS
<1> HIDE DEF r
<1>3. RequestOK(r)'
  BY <1>1, <1>2 DEF RequestOK
<1>4. QED BY <1>3 DEF r

LEMMA InsertStep ==
  ASSUME ConcurrentAssumption, IInv, NEW w \in Workers, Insert(w)
  PROVE  WorkerInv(w)'
<1> DEFINE r == request[w]
           row == [date |-> r.date, target |-> r.target]
<1>1. /\ TypeOK /\ RequestOK(r) /\ HandlerInv(r) /\ RowsInv(r) /\ AloneInv(w)
      /\ lastId \in Nat
  BY DEF IInv, TypeOK, WorkerInv
<1>2. /\ r' = [r EXCEPT !.pc = "previous", !.id = lastId + 1, !.affected = r.date,
                        !.own = [i \in {lastId + 1} |-> row]]
      /\ \A v \in Others(w) : request'[v] = request[v]
      /\ r.pc = "start" /\ r.op = "create" /\ lastId' = lastId + 1
      /\ UNCHANGED <<tables, received>>
  BY Advanced DEF Insert, At
<1>3. r.alone => \A u \in Others(w) : Idle(u)'
  BY <1>1, <1>2, StillAlone
<1> HIDE DEF r
<1>4. /\ DOMAIN r' = DOMAIN NoRequest /\ r'.pc = "previous" /\ r'.id = lastId + 1
      /\ r'.affected = r.date /\ r'.own = [i \in {lastId + 1} |-> row]
      /\ \A f \in DOMAIN NoRequest : f \notin {"pc", "id", "affected", "own"} => r'[f] = r[f]
  BY <1>1, <1>2 DEF HandlerInv, NoRequest
<1>5. r.date \in Dates /\ r.target \in Targets
  BY <1>1, <1>2 DEF HandlerInv
<1>6. RequestOK(r)'
  <2>1. row \in Reconciliation
    BY <1>5 DEF Reconciliation
  <2>2. TableOf(r'.own, 1..lastId', Reconciliation)
    BY <1>1, <1>2, <1>4, <2>1 DEF TableOf
  <2>3. TableOf(r.sources, 1..lastId', Reconciliation) /\ r'.id \in 0..lastId'
    BY <1>1, <1>2, <1>4 DEF TableOf, RequestOK
  <2>4. /\ r'.sources = r.sources /\ r'.rows = r.rows /\ r'.start = r.start /\ r'.through = r.through
        /\ r'.found = r.found /\ r'.date = r.date /\ r'.target = r.target /\ r'.attempt = r.attempt
        /\ r'.seen = r.seen /\ r'.deleted = r.deleted
    BY <1>4 DEF NoRequest
  <2>5. QED BY <1>1, <1>4, <1>5, <2>2, <2>3, <2>4 DEF RequestOK
<1>7. HandlerInv(r)' /\ RowsInv(r)' /\ RangesOverLastDay(r)'
  BY <1>1, <1>2, <1>4, <1>5 DEF HandlerInv, RowsInv, RangesOverLastDay, NoRequest, Statements,
       Recompute, Opened, Ranged, Merged, Started, Deleted, Inserting
<1>8. ReadsAreCurrent(r)' /\ RowsAreCurrent(r)'
  BY <1>4 DEF ReadsAreCurrent, RowsAreCurrent, Opened, Ranged, Merged, Started, Deleted, Inserting
<1>9. r'.alone => r.alone
  BY <1>4 DEF NoRequest
<1>10. QED BY <1>3, <1>6, <1>7, <1>8, <1>9 DEF WorkerInv, AloneInv, r

LEMMA FindStep ==
  ASSUME ConcurrentAssumption, IInv, NEW w \in Workers, Find(w)
  PROVE  WorkerInv(w)'
<1> DEFINE r == request[w]
<1>1. /\ TypeOK /\ RequestOK(r) /\ HandlerInv(r) /\ RowsInv(r) /\ AloneInv(w)
  BY DEF IInv, WorkerInv
<1>2. CASE request'[w] = NoRequest
  BY <1>1, <1>2, EndedRequest DEF Find
<1>3. CASE request'[w] # NoRequest
  <2>1. /\ r' = [r EXCEPT !.pc = "write", !.found = reconciliations[r.id].date]
        /\ \A v \in Others(w) : request'[v] = request[v]
        /\ r.id \in DOMAIN reconciliations /\ r.pc = "start"
        /\ UNCHANGED <<tables, lastId, received>>
    BY <1>3, Advanced DEF Find, At
  <2>2. r.alone => \A u \in Others(w) : Idle(u)'
    BY <1>1, <2>1, StillAlone
  <2> HIDE DEF r
  <2>3. /\ DOMAIN r' = DOMAIN NoRequest /\ r'.pc = "write"
        /\ r'.found = reconciliations[r.id].date
        /\ \A f \in DOMAIN NoRequest : f \notin {"pc", "found"} => r'[f] = r[f]
    BY <1>1, <2>1 DEF HandlerInv, NoRequest
  <2>4. reconciliations[r.id].date \in Dates
    BY <1>1, <2>1 DEF TypeOK, TableOf, Reconciliation
  <2>5. RequestOK(r)'
    BY <1>1, <2>1, <2>3, <2>4 DEF RequestOK, NoRequest
  <2>6. HandlerInv(r)' /\ RowsInv(r)' /\ RangesOverLastDay(r)'
    BY <1>1, <2>1, <2>3, <2>4 DEF HandlerInv, RowsInv, RangesOverLastDay, NoRequest, Statements,
         Recompute, Opened, Ranged, Merged, Started, Deleted, Inserting
  <2>7. ReadsAreCurrent(r)' /\ RowsAreCurrent(r)'
    BY <2>3 DEF ReadsAreCurrent, RowsAreCurrent, Opened, Ranged, Merged, Started, Deleted, Inserting
  <2>8. r'.alone => r.alone
    BY <2>3 DEF NoRequest
  <2>9. QED BY <2>2, <2>5, <2>6, <2>7, <2>8 DEF WorkerInv, AloneInv, r
<1>4. QED BY <1>2, <1>3

LEMMA MinOfDays ==
  ASSUME NEW d \in Dates, NEW e \in Dates
  PROVE  Min({d, e}) \in Dates
<1>1. {d, e} \subseteq Nat
  BY DEF Dates
<1>2. QED BY <1>1, MinOfNaturals

LEMMA WriteStep ==
  ASSUME ConcurrentAssumption, IInv, NEW w \in Workers, Write(w)
  PROVE  WorkerInv(w)'
<1> DEFINE r == request[w]
           row == [date |-> IF r.date = NoDate THEN reconciliations[r.id].date ELSE r.date,
                   target |-> IF r.target = NoTarget THEN reconciliations[r.id].target ELSE r.target]
           affected == IF r.op = "update" /\ r.date # NoDate THEN Min({r.found, r.date}) ELSE r.found
<1>1. /\ TypeOK /\ RequestOK(r) /\ HandlerInv(r) /\ RowsInv(r) /\ AloneInv(w)
      /\ r.pc = "write" /\ UNCHANGED <<tables, lastId, received>>
  BY DEF IInv, WorkerInv, Write, At
<1>2. CASE request'[w] = NoRequest
  BY <1>1, <1>2, EndedRequest
<1>3. CASE request'[w] # NoRequest
  <2>1. /\ \/ r' = [r EXCEPT !.pc = "previous", !.own = [i \in {r.id} |-> row], !.affected = affected]
           \/ r' = [r EXCEPT !.pc = "previous", !.removed = {r.id}, !.affected = affected]
        /\ \A v \in Others(w) : request'[v] = request[v]
        /\ r.id \in DOMAIN reconciliations
    BY <1>3, Advanced DEF Write, At
  <2>2. r.alone => \A u \in Others(w) : Idle(u)'
    BY <1>1, <2>1, StillAlone
  <2> HIDE DEF r, affected
  <2>3. /\ DOMAIN r' = DOMAIN NoRequest /\ r'.pc = "previous" /\ r'.affected = affected
        /\ r'.own = r.own \/ r'.own = [i \in {r.id} |-> row]
        /\ \A f \in DOMAIN NoRequest : f \notin {"pc", "own", "removed", "affected"} => r'[f] = r[f]
    BY <1>1, <2>1 DEF HandlerInv, NoRequest
  <2>4. row \in Reconciliation /\ r.id \in 1..lastId
    BY <1>1, <2>1 DEF TypeOK, TableOf, Reconciliation, RequestOK
  <2>5. affected \in Dates
    BY <1>1, MinOfDays DEF affected, HandlerInv, RequestOK
  <2> HIDE DEF row
  <2>6. TableOf(r'.own, 1..lastId, Reconciliation)
    BY <1>1, <2>3, <2>4 DEF TableOf, RequestOK
  <2>7. RequestOK(r)'
    <3>1. /\ r'.sources = r.sources /\ r'.rows = r.rows /\ r'.start = r.start
          /\ r'.through = r.through /\ r'.found = r.found /\ r'.date = r.date
          /\ r'.target = r.target /\ r'.attempt = r.attempt /\ r'.id = r.id
          /\ r'.seen = r.seen /\ r'.deleted = r.deleted
      BY <2>3 DEF NoRequest
    <3>2. QED BY <1>1, <2>3, <2>5, <2>6, <3>1 DEF RequestOK
  <2>8. HandlerInv(r)' /\ RowsInv(r)' /\ RangesOverLastDay(r)'
    BY <1>1, <2>1, <2>3, <2>5 DEF HandlerInv, RowsInv, RangesOverLastDay, NoRequest, Statements,
         Recompute, Opened, Ranged, Merged, Started, Deleted, Inserting
  <2>9. ReadsAreCurrent(r)' /\ RowsAreCurrent(r)'
    BY <2>3 DEF ReadsAreCurrent, RowsAreCurrent, Opened, Ranged, Merged, Started, Deleted, Inserting
  <2>10. r'.alone => r.alone
    BY <2>3 DEF NoRequest
  <2>11. QED BY <2>2, <2>7, <2>8, <2>9, <2>10 DEF WorkerInv, AloneInv, r
<1>4. QED BY <1>2, <1>3

\* The statements that read: what they find is current as long as nobody else commits.
LEMMA ReadPreviousStep ==
  ASSUME ConcurrentAssumption, IInv, NEW w \in Workers, ReadPrevious(w)
  PROVE  WorkerInv(w)'
<1> DEFINE r == request[w]
<1>1. /\ TypeOK /\ RequestOK(r) /\ HandlerInv(r) /\ RowsInv(r) /\ AloneInv(w)
      /\ r.pc = "previous" /\ UNCHANGED <<tables, lastId, received>>
      /\ \A v \in Others(w) : request'[v] = request[v]
      /\ r' = [r EXCEPT !.pc = "latest day", !.opening = CarriedInto(snapshots, r.affected),
                        !.previous = Before(DOMAIN snapshots, r.affected) # {}]
  BY Advanced DEF IInv, WorkerInv, ReadPrevious, At
<1>2. r.alone => \A u \in Others(w) : Idle(u)'
  BY <1>1, StillAlone
<1> HIDE DEF r
<1>3. /\ DOMAIN r' = DOMAIN NoRequest /\ r'.pc = "latest day"
      /\ r'.opening = CarriedInto(snapshots, r.affected)
      /\ r'.previous = (Before(DOMAIN snapshots, r.affected) # {})
      /\ \A f \in DOMAIN NoRequest : f \notin {"pc", "opening", "previous"} => r'[f] = r[f]
  BY <1>1 DEF HandlerInv, NoRequest
<1>4. CarriedInto(snapshots, r.affected) \in Int
  BY <1>1, CarriedType DEF HandlerInv, Recompute, Dates
<1>5. RequestOK(r)'
  BY <1>1, <1>3 DEF RequestOK, NoRequest
<1>6. HandlerInv(r)' /\ RowsInv(r)' /\ RangesOverLastDay(r)'
  BY <1>1, <1>3, <1>4 DEF HandlerInv, RowsInv, RangesOverLastDay, NoRequest, Statements,
       Recompute, Opened, Ranged, Merged, Started, Deleted, Inserting
<1>7. ReadsAreCurrent(r)' /\ RowsAreCurrent(r)'
  <2>1. snapshots' = snapshots /\ r'.affected = r.affected
    BY <1>1, <1>3 DEF tables, NoRequest
  <2>2. QED BY <1>3, <2>1 DEF ReadsAreCurrent, RowsAreCurrent, Opened, Ranged, Merged, Started,
              Deleted, Inserting
<1>8. r'.alone => r.alone
  BY <1>3 DEF NoRequest
<1>9. QED BY <1>2, <1>5, <1>6, <1>7, <1>8 DEF WorkerInv, AloneInv, r

LEMMA ReadLatestDayStep ==
  ASSUME ConcurrentAssumption, IInv, NEW w \in Workers, ReadLatestDay(w)
  PROVE  WorkerInv(w)'
<1> DEFINE r == request[w]
           days == DOMAIN snapshots \cup TransactionDays
           latest == Latest(From(days, r.affected))
<1>1. /\ TypeOK /\ RequestOK(r) /\ HandlerInv(r) /\ RowsInv(r) /\ AloneInv(w) /\ LastDayInv
      /\ r.pc = "latest day" /\ UNCHANGED <<tables, lastId, received>>
      /\ \A v \in Others(w) : request'[v] = request[v]
      /\ r' = [r EXCEPT !.pc = "latest reconciliation", !.through = latest]
  BY Advanced DEF IInv, WorkerInv, ReadLatestDay, At
<1>2. r.alone => ReadsAreCurrent(r) /\ \A u \in Others(w) : Idle(u)'
  BY <1>1, StillAlone DEF AloneInv
<1> HIDE DEF r
<1>3. /\ DOMAIN r' = DOMAIN NoRequest /\ r'.pc = "latest reconciliation" /\ r'.through = latest
      /\ \A f \in DOMAIN NoRequest : f \notin {"pc", "through"} => r'[f] = r[f]
  BY <1>1 DEF HandlerInv, NoRequest
<1>4. r.affected \in Dates /\ MaxDate \in Nat
  BY <1>1 DEF HandlerInv, Recompute, Opened, ConcurrentAssumption
<1>5. days \subseteq Dates
  BY <1>1, SnapshotDays DEF TransactionDays
<1>6. /\ latest \in Dates \cup {NoDate} /\ (latest = NoDate \/ r.affected <= latest)
      /\ \A d \in DOMAIN snapshots : d >= r.affected => d <= latest
  BY <1>4, <1>5, LatestBounds
<1> HIDE DEF latest
<1>7. RequestOK(r)'
  <2>1. TableOf(r.rows, r.start .. latest, TimelineRow)
    BY <1>1 DEF RequestOK, RowsInv, TableOf, Inserting
  <2>2. /\ r'.rows = r.rows /\ r'.sources = r.sources /\ r'.start = r.start
        /\ r'.affected = r.affected /\ r'.seen = r.seen /\ r'.deleted = r.deleted
        /\ \A f \in {"id", "attempt", "date", "target", "found", "own"} : r'[f] = r[f]
    BY <1>3 DEF NoRequest
  <2>3. /\ r.affected \in Dates \cup {NoDate} /\ r.start \in Dates \cup {NoDate}
        /\ r.seen \subseteq Dates /\ r.deleted \subseteq Dates
        /\ TableOf(r.sources, 1..lastId, Reconciliation)
    BY <1>1 DEF RequestOK
  <2>4. QED BY <1>1, <1>3, <1>6, <2>1, <2>2, <2>3, RequestKept DEF r
<1>8. HandlerInv(r)' /\ RowsInv(r)'
  BY <1>1, <1>3, <1>6 DEF HandlerInv, RowsInv, NoRequest, Statements, Recompute, Opened, Ranged,
       Merged, Started, Deleted, Inserting
<1>9. RangesOverLastDay(r)'
  <2>1. SUFFICES ASSUME LastDayMaterialized PROVE latest = MaxDate
    BY <1>1, <1>3 DEF RangesOverLastDay, LastDayMaterialized, tables
  <2>2. MaxDate \in DOMAIN snapshots
    BY <1>1, <2>1 DEF LastDayInv
  <2>3. MaxDate <= latest
    BY <1>4, <1>6, <2>2 DEF Dates
  <2>4. QED BY <1>4, <1>6, <2>3, DaysAreNumbers
<1>10. r.alone => ReadsAreCurrent(r)' /\ RowsAreCurrent(r)'
  <2>1. snapshots' = snapshots /\ r'.affected = r.affected /\ r'.opening = r.opening
        /\ r'.previous = r.previous
    BY <1>1, <1>3 DEF tables, NoRequest
  <2>2. QED BY <1>1, <1>2, <1>3, <1>6, <2>1 DEF ReadsAreCurrent, RowsAreCurrent, Opened, Ranged, Merged,
              Started, Deleted, Inserting
<1>11. r'.alone => r.alone
  BY <1>3 DEF NoRequest
<1>12. QED BY <1>2, <1>7, <1>8, <1>9, <1>10, <1>11 DEF WorkerInv, AloneInv, r

LEMMA MaxOfPair ==
  ASSUME ConcurrentAssumption, NEW d \in Dates \cup {NoDate}, NEW e \in Dates \cup {NoDate}
  PROVE  Max({d, e}) \in {d, e} /\ d <= Max({d, e}) /\ e <= Max({d, e})
<1>1. {d, e} \subseteq 0..MaxDate /\ MaxDate \in Nat
  BY DEF Dates, NoDate, ConcurrentAssumption
<1>2. Max({d, e}) \in {d, e} /\ \A y \in {d, e} : Max({d, e}) >= y
  BY <1>1, MaxOfInterval
<1> DEFINE m == Max({d, e})
<1> HIDE DEF m
<1>3. m \in {d, e} /\ m >= d /\ m >= e
  BY <1>2 DEF m
<1>4. QED BY <1>1, <1>3 DEF m

LEMMA ReadLatestReconciliationStep ==
  ASSUME ConcurrentAssumption, IInv, NEW w \in Workers, ReadLatestReconciliation(w)
  PROVE  WorkerInv(w)'
<1> DEFINE r == request[w]
           latest == Latest(From(ReconciledDays(Seen(r)), r.affected))
           through == Max({r.through, latest})
<1>1. /\ TypeOK /\ RequestOK(r) /\ HandlerInv(r) /\ RowsInv(r) /\ AloneInv(w) /\ RangesOverLastDay(r)
      /\ r.pc = "latest reconciliation" /\ UNCHANGED <<tables, lastId, received>>
      /\ \A v \in Others(w) : request'[v] = request[v]
      /\ r' = [r EXCEPT !.pc = "earliest", !.through = through]
  BY Advanced DEF IInv, WorkerInv, ReadLatestReconciliation, At
<1>2. r.alone => ReadsAreCurrent(r) /\ \A u \in Others(w) : Idle(u)'
  BY <1>1, StillAlone DEF AloneInv
<1> HIDE DEF r
<1>3. /\ DOMAIN r' = DOMAIN NoRequest /\ r'.pc = "earliest" /\ r'.through = through
      /\ \A f \in DOMAIN NoRequest : f \notin {"pc", "through"} => r'[f] = r[f]
  BY <1>1 DEF HandlerInv, NoRequest
<1>4. r.affected \in Dates /\ MaxDate \in Nat
  BY <1>1 DEF HandlerInv, Recompute, Opened, Ranged, ConcurrentAssumption
<1>5. ReconciledDays(Seen(r)) \subseteq Dates
  BY <1>1, SeenDays
<1>6. /\ latest \in Dates \cup {NoDate} /\ (latest = NoDate \/ r.affected <= latest)
      /\ \A d \in ReconciledDays(Seen(r)) : d >= r.affected => d <= latest
  BY <1>4, <1>5, LatestBounds
<1>7. r.through \in Dates \cup {NoDate} /\ (r.through = NoDate \/ r.affected <= r.through)
  BY <1>1 DEF RequestOK, HandlerInv, Ranged
<1> HIDE DEF latest
<1>8. through \in {r.through, latest} /\ r.through <= through /\ latest <= through
  <2>1. r.through \in Dates \cup {NoDate} /\ latest \in Dates \cup {NoDate}
    BY <1>6, <1>7
  <2>2. QED BY <2>1, MaxOfPair
<1> HIDE DEF through
<1>9. /\ through \in Dates \cup {NoDate} /\ (through = NoDate \/ r.affected <= through)
      /\ through \in Nat /\ through <= MaxDate /\ latest \in Nat /\ r.through \in Nat
  BY <1>6, <1>7, <1>8, DaysAreNumbers
<1>10. RequestOK(r)'
  <2>1. TableOf(r.rows, r.start .. through, TimelineRow)
    BY <1>1 DEF RequestOK, RowsInv, TableOf, Inserting
  <2>2. /\ r'.rows = r.rows /\ r'.sources = r.sources /\ r'.start = r.start
        /\ r'.affected = r.affected /\ r'.seen = r.seen /\ r'.deleted = r.deleted
        /\ \A f \in {"id", "attempt", "date", "target", "found", "own"} : r'[f] = r[f]
    BY <1>3 DEF NoRequest
  <2>3. /\ r.affected \in Dates \cup {NoDate} /\ r.start \in Dates \cup {NoDate}
        /\ r.seen \subseteq Dates /\ r.deleted \subseteq Dates
        /\ TableOf(r.sources, 1..lastId, Reconciliation)
    BY <1>1 DEF RequestOK
  <2>4. QED BY <1>1, <1>3, <1>9, <2>1, <2>2, <2>3, RequestKept DEF r
<1>11. HandlerInv(r)' /\ RowsInv(r)'
  BY <1>1, <1>3, <1>9 DEF HandlerInv, RowsInv, NoRequest, Statements, Recompute, Opened, Ranged,
       Merged, Started, Deleted, Inserting
<1>12. RangesOverLastDay(r)'
  <2>1. SUFFICES ASSUME LastDayMaterialized PROVE through = MaxDate
    BY <1>1, <1>3 DEF RangesOverLastDay, LastDayMaterialized, tables
  <2>2. r.through = MaxDate
    BY <1>1, <2>1 DEF RangesOverLastDay, Ranged
  <2>3. QED BY <1>4, <1>8, <1>9, <2>2
<1>13. r.alone => ReadsAreCurrent(r)' /\ RowsAreCurrent(r)'
  <2>1. snapshots' = snapshots /\ r'.affected = r.affected /\ r'.opening = r.opening
        /\ r'.previous = r.previous /\ r'.own = r.own /\ r'.removed = r.removed
    BY <1>1, <1>3 DEF tables, NoRequest
  <2>2. Seen(r)' = Seen(r)
    BY <1>1, <2>1, SeenSame DEF tables, r
  <2>3. SUFFICES ASSUME r.alone PROVE ReadsAreCurrent(r)' /\ RowsAreCurrent(r)'
    OBVIOUS
  <2>4. \A d \in DOMAIN snapshots : d >= r.affected => d <= through
    <3>1. \A d \in DOMAIN snapshots : d >= r.affected => d <= r.through
      BY <1>1, <1>2, <2>3 DEF ReadsAreCurrent, Ranged
    <3>2. DOMAIN snapshots \subseteq Dates
      BY <1>1, SnapshotDays
    <3>3. SUFFICES ASSUME NEW d \in DOMAIN snapshots, d >= r.affected PROVE d <= through
      OBVIOUS
    <3>4. d \in Nat /\ d <= r.through
      BY <3>1, <3>2, <3>3, DaysAreNumbers
    <3>5. QED BY <1>8, <1>9, <3>4
  <2>5. \A d \in ReconciledDays(Seen(r)) : d >= r.affected => d <= through
    <3>1. SUFFICES ASSUME NEW d \in ReconciledDays(Seen(r)), d >= r.affected PROVE d <= through
      OBVIOUS
    <3>2. d \in Nat /\ d <= latest
      BY <1>5, <1>6, <3>1, DaysAreNumbers
    <3>3. QED BY <1>8, <1>9, <3>2
  <2>6. r.opening = CarriedInto(snapshots, r.affected)
        /\ r.previous = (Before(DOMAIN snapshots, r.affected) # {})
    BY <1>1, <1>2, <2>3 DEF ReadsAreCurrent, Opened, Ranged, Merged, Started, Deleted, Inserting
  <2>7. QED BY <1>3, <2>1, <2>2, <2>4, <2>5, <2>6
              DEF ReadsAreCurrent, RowsAreCurrent, Opened, Ranged, Merged, Started, Deleted, Inserting
<1>14. r'.alone => r.alone
  BY <1>3 DEF NoRequest
<1>15. QED BY <1>2, <1>10, <1>11, <1>12, <1>13, <1>14 DEF WorkerInv, AloneInv, r

LEMMA ReadEarliestStep ==
  ASSUME ConcurrentAssumption, IInv, NEW w \in Workers, ReadEarliest(w)
  PROVE  WorkerInv(w)'
<1> DEFINE r == request[w]
           sources == {d \in TransactionDays \cup ReconciledDays(Seen(r)) : d <= r.through}
           start == IF r.previous \/ sources = {} THEN r.affected ELSE Min(sources \cup {r.affected})
<1>1. /\ TypeOK /\ RequestOK(r) /\ HandlerInv(r) /\ RowsInv(r) /\ AloneInv(w) /\ RangesOverLastDay(r)
      /\ r.pc = "earliest" /\ UNCHANGED <<tables, lastId, received>>
      /\ \A v \in Others(w) : request'[v] = request[v]
      /\ r' = [r EXCEPT !.pc = "delete", !.start = start]
  BY Advanced DEF IInv, WorkerInv, ReadEarliest, At
<1>2. r.alone => ReadsAreCurrent(r) /\ \A u \in Others(w) : Idle(u)'
  BY <1>1, StillAlone DEF AloneInv
<1> HIDE DEF r
<1>3. /\ DOMAIN r' = DOMAIN NoRequest /\ r'.pc = "delete" /\ r'.start = start
      /\ \A f \in DOMAIN NoRequest : f \notin {"pc", "start"} => r'[f] = r[f]
  BY <1>1 DEF HandlerInv, NoRequest
<1>4. r.affected \in Dates /\ r.affected \in Nat /\ r.through \in Nat
  BY <1>1, DaysAreNumbers DEF HandlerInv, RequestOK, Recompute, Opened, Ranged, Merged
<1>5. sources \subseteq Dates
  BY <1>1, SeenDays DEF TransactionDays
<1>6. start \in Dates /\ start <= r.affected
  <2>1. CASE r.previous \/ sources = {}
    BY <1>4, <2>1
  <2>2. CASE ~(r.previous \/ sources = {})
    <3>1. sources \cup {r.affected} \subseteq Nat
      BY <1>4, <1>5, DaysAreNumbers
    <3>2. /\ Min(sources \cup {r.affected}) \in sources \cup {r.affected}
          /\ \A y \in sources \cup {r.affected} : Min(sources \cup {r.affected}) <= y
      BY <3>1, MinOfNaturals
    <3>3. start = Min(sources \cup {r.affected})
      BY <2>2
    <3> HIDE DEF start, sources
    <3>4. QED BY <1>4, <1>5, <3>2, <3>3
  <2>3. QED BY <2>1, <2>2
<1>7. start = r.affected \/ (r.through # NoDate /\ ~r.previous)
  <2>1. SUFFICES ASSUME start # r.affected PROVE r.through # NoDate /\ ~r.previous
    OBVIOUS
  <2>2. ~r.previous /\ sources # {}
    BY <2>1
  <2>3. PICK d \in sources : TRUE
    BY <2>2
  <2>4. d \in Dates /\ d <= r.through
    BY <1>5
  <2>5. QED BY <1>4, <2>2, <2>4 DEF Dates, NoDate
<1> HIDE DEF start, sources
<1>8. RequestOK(r)'
  <2>1. TableOf(r.rows, start .. r.through, TimelineRow)
    BY <1>1 DEF RequestOK, RowsInv, TableOf, Inserting
  <2>2. /\ r'.rows = r.rows /\ r'.sources = r.sources /\ r'.through = r.through
        /\ r'.affected = r.affected /\ r'.seen = r.seen /\ r'.deleted = r.deleted
        /\ \A f \in {"id", "attempt", "date", "target", "found", "own"} : r'[f] = r[f]
    BY <1>3 DEF NoRequest
  <2>3. /\ r.affected \in Dates \cup {NoDate} /\ r.through \in Dates \cup {NoDate}
        /\ r.seen \subseteq Dates /\ r.deleted \subseteq Dates
        /\ TableOf(r.sources, 1..lastId, Reconciliation)
    BY <1>1 DEF RequestOK
  <2>4. QED BY <1>1, <1>3, <1>6, <2>1, <2>2, <2>3, RequestKept DEF r
<1>9. HandlerInv(r)' /\ RowsInv(r)'
  BY <1>1, <1>3, <1>6 DEF HandlerInv, RowsInv, NoRequest, Statements, Recompute, Opened, Ranged,
       Merged, Started, Deleted, Inserting
<1>10. RangesOverLastDay(r)'
  BY <1>1, <1>3 DEF RangesOverLastDay, LastDayMaterialized, tables, NoRequest, Ranged, Merged, Started
<1>11. r.alone => ReadsAreCurrent(r)' /\ RowsAreCurrent(r)'
  <2>1. snapshots' = snapshots /\ r'.affected = r.affected /\ r'.opening = r.opening
        /\ r'.previous = r.previous /\ r'.own = r.own /\ r'.removed = r.removed
        /\ r'.through = r.through
    BY <1>1, <1>3 DEF tables, NoRequest
  <2>2. Seen(r)' = Seen(r)
    BY <1>1, <2>1, SeenSame DEF tables, r
  <2>3. SUFFICES ASSUME r.alone PROVE ReadsAreCurrent(r)' /\ RowsAreCurrent(r)'
    OBVIOUS
  <2>4. /\ \A d \in DOMAIN snapshots : d >= r.affected => d <= r.through
        /\ \A d \in ReconciledDays(Seen(r)) : d >= r.affected => d <= r.through
        /\ r.opening = CarriedInto(snapshots, r.affected)
        /\ r.previous = (Before(DOMAIN snapshots, r.affected) # {})
    BY <1>1, <1>2, <2>3 DEF ReadsAreCurrent, Opened, Ranged, Merged, Started, Deleted, Inserting
  <2>5. QED BY <1>3, <1>7, <2>1, <2>2, <2>4
              DEF ReadsAreCurrent, RowsAreCurrent, Opened, Ranged, Merged, Started, Deleted, Inserting
<1>12. r'.alone => r.alone
  BY <1>3 DEF NoRequest
<1>13. QED BY <1>2, <1>8, <1>9, <1>10, <1>11, <1>12 DEF WorkerInv, AloneInv, r

LEMMA SelectRowsStep ==
  ASSUME ConcurrentAssumption, IInv, NEW w \in Workers, SelectRows(w)
  PROVE  WorkerInv(w)'
<1> DEFINE r == request[w]
<1>1. /\ TypeOK /\ RequestOK(r) /\ HandlerInv(r) /\ RowsInv(r) /\ AloneInv(w) /\ RangesOverLastDay(r)
      /\ r.pc = "delete" /\ UNCHANGED <<tables, lastId, received>>
      /\ \A v \in Others(w) : request'[v] = request[v]
      /\ r' = [r EXCEPT !.pc = "deleting", !.seen = From(DOMAIN snapshots, r.start)]
  BY Advanced DEF IInv, WorkerInv, SelectRows, At
<1>2. r.alone => ReadsAreCurrent(r) /\ \A u \in Others(w) : Idle(u)'
  BY <1>1, StillAlone DEF AloneInv
<1> HIDE DEF r
<1>3. /\ DOMAIN r' = DOMAIN NoRequest /\ r'.pc = "deleting"
      /\ r'.seen = From(DOMAIN snapshots, r.start)
      /\ \A f \in DOMAIN NoRequest : f \notin {"pc", "seen"} => r'[f] = r[f]
  BY <1>1 DEF HandlerInv, NoRequest
<1>4. From(DOMAIN snapshots, r.start) \subseteq Dates
  BY <1>1, SnapshotDays DEF From
<1>5. \A d \in From(DOMAIN snapshots, r.start) : r.start <= d
  <2>1. r.start \in Dates
    BY <1>1 DEF HandlerInv, Started
  <2>2. QED BY <1>4, <2>1 DEF From, Dates
<1>6. RequestOK(r)'
  <2>2. /\ r'.rows = r.rows /\ r'.sources = r.sources /\ r'.through = r.through /\ r'.start = r.start
        /\ r'.affected = r.affected /\ r'.deleted = r.deleted
        /\ \A f \in {"id", "attempt", "date", "target", "found", "own"} : r'[f] = r[f]
    BY <1>3 DEF NoRequest
  <2>3. /\ r.affected \in Dates \cup {NoDate} /\ r.through \in Dates \cup {NoDate}
        /\ r.start \in Dates \cup {NoDate} /\ r.deleted \subseteq Dates
        /\ TableOf(r.sources, 1..lastId, Reconciliation)
        /\ TableOf(r.rows, r.start .. r.through, TimelineRow)
    BY <1>1 DEF RequestOK
  <2>4. QED BY <1>1, <1>3, <1>4, <2>2, <2>3, RequestKept DEF r
<1>7. HandlerInv(r)' /\ RowsInv(r)'
  BY <1>1, <1>3, <1>5 DEF HandlerInv, RowsInv, NoRequest, Statements, Recompute, Opened, Ranged,
       Merged, Started, Deleted, Inserting
<1>8. RangesOverLastDay(r)'
  BY <1>1, <1>3 DEF RangesOverLastDay, LastDayMaterialized, tables, NoRequest, Ranged, Merged, Started
<1>9. r.alone => ReadsAreCurrent(r)' /\ RowsAreCurrent(r)'
  <2>1. snapshots' = snapshots /\ r'.affected = r.affected /\ r'.opening = r.opening
        /\ r'.previous = r.previous /\ r'.own = r.own /\ r'.removed = r.removed
        /\ r'.through = r.through /\ r'.start = r.start
    BY <1>1, <1>3 DEF tables, NoRequest
  <2>2. Seen(r)' = Seen(r)
    BY <1>1, <2>1, SeenSame DEF tables, r
  <2>3. QED BY <1>1, <1>2, <1>3, <2>1, <2>2
              DEF ReadsAreCurrent, RowsAreCurrent, Opened, Ranged, Merged, Started, Deleted, Inserting
<1>10. r'.alone => r.alone
  BY <1>3 DEF NoRequest
<1>11. QED BY <1>2, <1>6, <1>7, <1>8, <1>9, <1>10 DEF WorkerInv, AloneInv, r

LEMMA DeleteRowsStep ==
  ASSUME ConcurrentAssumption, IInv, NEW w \in Workers, DeleteRows(w)
  PROVE  WorkerInv(w)'
<1> DEFINE r == request[w]
           next == IF r.through = NoDate THEN "commit" ELSE "sources"
<1>1. /\ TypeOK /\ RequestOK(r) /\ HandlerInv(r) /\ RowsInv(r) /\ AloneInv(w) /\ RangesOverLastDay(r)
      /\ r.pc = "deleting" /\ UNCHANGED <<tables, lastId, received>>
      /\ \A v \in Others(w) : request'[v] = request[v]
      /\ r' = [r EXCEPT !.pc = next, !.deleted = r.seen, !.seen = {}]
  BY Advanced DEF IInv, WorkerInv, DeleteRows, At
<1>2. r.alone => ReadsAreCurrent(r) /\ \A u \in Others(w) : Idle(u)'
  BY <1>1, StillAlone DEF AloneInv
<1> HIDE DEF r
<1>3. /\ DOMAIN r' = DOMAIN NoRequest /\ r'.pc = next /\ r'.deleted = r.seen /\ r'.seen = {}
      /\ \A f \in DOMAIN NoRequest : f \notin {"pc", "deleted", "seen"} => r'[f] = r[f]
  BY <1>1 DEF HandlerInv, NoRequest
<1>4. /\ r'.rows = r.rows /\ r'.sources = r.sources /\ r'.through = r.through /\ r'.start = r.start
      /\ r'.affected = r.affected /\ r'.cursor = r.cursor /\ r'.opening = r.opening
      /\ r'.previous = r.previous /\ r'.own = r.own /\ r'.removed = r.removed
      /\ \A f \in {"id", "attempt", "date", "target", "found", "own"} : r'[f] = r[f]
  BY <1>3 DEF NoRequest
<1>5. RequestOK(r)'
  <2>1. /\ r.affected \in Dates \cup {NoDate} /\ r.through \in Dates \cup {NoDate}
        /\ r.start \in Dates \cup {NoDate} /\ r.seen \subseteq Dates
        /\ TableOf(r.sources, 1..lastId, Reconciliation)
        /\ TableOf(r.rows, r.start .. r.through, TimelineRow)
    BY <1>1 DEF RequestOK
  <2>2. QED BY <1>1, <1>3, <1>4, <2>1, RequestKept DEF r
<1>6. HandlerInv(r)'
  BY <1>1, <1>3, <1>4 DEF HandlerInv, Statements, Recompute, Opened, Ranged, Merged, Started,
       Deleted, Inserting
<1>7. RowsInv(r)'
  <2>1. DOMAIN r.rows = {} /\ r.cursor = NoDate
    BY <1>1 DEF RowsInv, Inserting
  <2>2. CASE r.through # NoDate
    BY <1>3, <1>4, <2>1, <2>2 DEF RowsInv, Inserting
  <2>3. CASE r.through = NoDate
    <3>1. r.start \in Nat /\ r.start > 0
      BY <1>1 DEF HandlerInv, Started, Dates
    <3>2. QED BY <1>3, <1>4, <2>1, <2>3, <3>1 DEF RowsInv, Inserting, NoDate
  <2>4. QED BY <2>2, <2>3
<1>8. RangesOverLastDay(r)'
  BY <1>1, <1>3, <1>4
     DEF RangesOverLastDay, LastDayMaterialized, tables, Ranged, Merged, Started
<1>9. r.alone => ReadsAreCurrent(r)' /\ RowsAreCurrent(r)'
  <2>1. SUFFICES ASSUME r.alone PROVE ReadsAreCurrent(r)' /\ RowsAreCurrent(r)'
    OBVIOUS
  <2>2. Seen(r)' = Seen(r) /\ snapshots' = snapshots
    BY <1>1, <1>4, SeenSame DEF tables, r
  <2>3. /\ ReadsAreCurrent(r) /\ r.seen = From(DOMAIN snapshots, r.start)
        /\ \A d \in DOMAIN snapshots : d >= r.affected => d <= r.through
        /\ \A d \in ReconciledDays(Seen(r)) : d >= r.affected => d <= r.through
        /\ r.opening = CarriedInto(snapshots, r.affected)
        /\ r.previous = (Before(DOMAIN snapshots, r.affected) # {})
        /\ \/ r.start = r.affected
           \/ r.through # NoDate /\ Before(DOMAIN snapshots, r.affected) = {}
    BY <1>1, <1>2, <2>1 DEF ReadsAreCurrent, Opened, Ranged, Merged, Started, Deleted, Inserting
  <2>4. ReadsAreCurrent(r)'
    BY <1>3, <1>4, <2>2, <2>3
       DEF ReadsAreCurrent, Opened, Ranged, Merged, Started, Deleted, Inserting
  <2>5. RowsAreCurrent(r)'
    <3>1. DOMAIN r.rows = {}
      BY <1>1 DEF RowsInv, Inserting
    <3>2. r'.pc \in Inserting => r.start = r.affected
      BY <1>3, <2>3 DEF Inserting
    <3>3. QED BY <1>4, <2>2, <2>3, <3>1, <3>2 DEF RowsAreCurrent
  <2>6. QED BY <2>4, <2>5
<1>10. r'.alone => r.alone
  BY <1>3 DEF NoRequest
<1>11. QED BY <1>2, <1>5, <1>6, <1>7, <1>8, <1>9, <1>10 DEF WorkerInv, AloneInv, r

LEMMA ReadSourcesStep ==
  ASSUME ConcurrentAssumption, IInv, NEW w \in Workers, ReadSources(w)
  PROVE  WorkerInv(w)'
<1> DEFINE r == request[w]
           S == Seen(r)
           sources == Restrict(S, {i \in DOMAIN S : S[i].date \in r.start .. r.through})
<1>1. /\ TypeOK /\ RequestOK(r) /\ HandlerInv(r) /\ RowsInv(r) /\ AloneInv(w) /\ RangesOverLastDay(r)
      /\ r.pc = "sources" /\ UNCHANGED <<tables, lastId, received>>
      /\ \A v \in Others(w) : request'[v] = request[v]
      /\ r' = [r EXCEPT !.pc = "insert", !.cursor = r.start, !.sources = sources]
  BY Advanced DEF IInv, WorkerInv, ReadSources, At
<1>2. r.alone => ReadsAreCurrent(r) /\ \A u \in Others(w) : Idle(u)'
  BY <1>1, StillAlone DEF AloneInv
<1>3. TableOf(sources, 1..lastId, Reconciliation)
  <2>1. TableOf(S, 1..lastId, Reconciliation)
    BY <1>1, WrittenTyped DEF Seen
  <2> HIDE DEF S
  <2>2. QED BY <2>1 DEF TableOf, Restrict
<1> HIDE DEF r, sources
<1>4. /\ DOMAIN r' = DOMAIN NoRequest /\ r'.pc = "insert" /\ r'.cursor = r.start /\ r'.sources = sources
      /\ \A f \in DOMAIN NoRequest : f \notin {"pc", "cursor", "sources"} => r'[f] = r[f]
  BY <1>1 DEF HandlerInv, NoRequest
<1>5. /\ r'.rows = r.rows /\ r'.through = r.through /\ r'.start = r.start /\ r'.opening = r.opening
      /\ r'.affected = r.affected /\ r'.seen = r.seen /\ r'.deleted = r.deleted
      /\ r'.previous = r.previous /\ r'.own = r.own /\ r'.removed = r.removed
      /\ \A f \in {"id", "attempt", "date", "target", "found", "own"} : r'[f] = r[f]
  BY <1>4 DEF NoRequest
<1>6. RequestOK(r)'
  <2>1. /\ r.affected \in Dates \cup {NoDate} /\ r.through \in Dates \cup {NoDate}
        /\ r.start \in Dates \cup {NoDate} /\ r.seen \subseteq Dates /\ r.deleted \subseteq Dates
        /\ TableOf(r.rows, r.start .. r.through, TimelineRow)
    BY <1>1 DEF RequestOK
  <2>2. QED BY <1>1, <1>3, <1>4, <1>5, <2>1, RequestKept DEF r
<1>7. HandlerInv(r)'
  BY <1>1, <1>4, <1>5 DEF HandlerInv, Statements, Recompute, Opened, Ranged, Merged, Started,
       Deleted, Inserting
<1>8. RowsInv(r)'
  <2>1. /\ DOMAIN r.rows = {} /\ r.through # NoDate
        /\ r.start \in Nat /\ r.affected \in Nat /\ r.through \in Nat
        /\ r.start <= r.affected /\ r.affected <= r.through
    BY <1>1, DaysAreNumbers DEF RowsInv, HandlerInv, RequestOK, Inserting, Deleted, Started, Merged, Ranged,
         Opened, Recompute
  <2>2. r.start .. (r.start - 1) = {}
    BY <2>1
  <2>3. QED BY <1>4, <1>5, <2>1, <2>2 DEF RowsInv, Inserting
<1>9. RangesOverLastDay(r)'
  BY <1>1, <1>4, <1>5
     DEF RangesOverLastDay, LastDayMaterialized, tables, Ranged, Merged, Started, Deleted, Inserting
<1>10. r.alone => ReadsAreCurrent(r)' /\ RowsAreCurrent(r)'
  <2>1. SUFFICES ASSUME r.alone PROVE ReadsAreCurrent(r)' /\ RowsAreCurrent(r)'
    OBVIOUS
  <2>2. Seen(r)' = Seen(r) /\ snapshots' = snapshots
    BY <1>1, <1>5, SeenSame DEF tables, r
  <2>3. /\ r.deleted = From(DOMAIN snapshots, r.start)
        /\ \A d \in DOMAIN snapshots : d >= r.affected => d <= r.through
        /\ \A d \in ReconciledDays(Seen(r)) : d >= r.affected => d <= r.through
        /\ r.opening = CarriedInto(snapshots, r.affected)
        /\ \/ r.start = r.affected
           \/ r.through # NoDate /\ Before(DOMAIN snapshots, r.affected) = {}
    BY <1>1, <1>2, <2>1 DEF ReadsAreCurrent, Opened, Ranged, Merged, Started, Deleted, Inserting
  <2>4. ReadsAreCurrent(r)'
    BY <1>4, <1>5, <2>2, <2>3
       DEF ReadsAreCurrent, Opened, Ranged, Merged, Started, Deleted, Inserting, sources, S
  <2>5. RowsAreCurrent(r)'
    <3>1. DOMAIN r.rows = {}
      BY <1>1 DEF RowsInv, Inserting
    <3>2. CarriedInto(snapshots, r.affected) = CarriedInto(snapshots, r.start)
      <4>1. CASE r.start = r.affected
        BY <4>1
      <4>2. CASE Before(DOMAIN snapshots, r.affected) = {}
        <5>1. r.start \in Nat /\ r.affected \in Nat /\ r.start <= r.affected
              /\ DOMAIN snapshots \subseteq Nat
          BY <1>1, DaysAreNumbers, SnapshotDays DEF HandlerInv, RequestOK, Deleted, Started
        <5>2. Before(DOMAIN snapshots, r.start) = {}
          BY <4>2, <5>1 DEF Before
        <5>3. QED BY <4>2, <5>2 DEF CarriedInto
      <4>3. QED BY <2>3, <4>1, <4>2
    <3>3. QED BY <1>5, <2>2, <2>3, <3>1, <3>2 DEF RowsAreCurrent
  <2>6. QED BY <2>4, <2>5
<1>11. r'.alone => r.alone
  BY <1>4 DEF NoRequest
<1>12. QED BY <1>2, <1>6, <1>7, <1>8, <1>9, <1>10, <1>11 DEF WorkerInv, AloneInv, r

LEMMA RowsInsertedStep ==
  ASSUME ConcurrentAssumption, IInv, NEW w \in Workers, RowsInserted(w)
  PROVE  WorkerInv(w)'
<1> DEFINE r == request[w]
<1>1. /\ TypeOK /\ RequestOK(r) /\ HandlerInv(r) /\ RowsInv(r) /\ AloneInv(w) /\ RangesOverLastDay(r)
      /\ r.pc = "insert" /\ r.cursor > r.through /\ UNCHANGED <<tables, lastId, received>>
      /\ \A v \in Others(w) : request'[v] = request[v]
      /\ r' = [r EXCEPT !.pc = "commit"]
  BY Advanced DEF IInv, WorkerInv, RowsInserted, At
<1>2. r.alone => ReadsAreCurrent(r) /\ RowsAreCurrent(r) /\ \A u \in Others(w) : Idle(u)'
  BY <1>1, StillAlone DEF AloneInv
<1> HIDE DEF r
<1>3. /\ DOMAIN r' = DOMAIN NoRequest /\ r'.pc = "commit"
      /\ \A f \in DOMAIN NoRequest : f # "pc" => r'[f] = r[f]
  BY <1>1 DEF HandlerInv, NoRequest
<1>4. /\ r'.rows = r.rows /\ r'.through = r.through /\ r'.start = r.start /\ r'.opening = r.opening
      /\ r'.affected = r.affected /\ r'.seen = r.seen /\ r'.deleted = r.deleted
      /\ r'.previous = r.previous /\ r'.own = r.own /\ r'.removed = r.removed
      /\ r'.cursor = r.cursor /\ r'.sources = r.sources
      /\ \A f \in {"id", "attempt", "date", "target", "found", "own"} : r'[f] = r[f]
  BY <1>3 DEF NoRequest
<1>5. RequestOK(r)'
  <2>1. /\ r.affected \in Dates \cup {NoDate} /\ r.through \in Dates \cup {NoDate}
        /\ r.start \in Dates \cup {NoDate} /\ r.seen \subseteq Dates /\ r.deleted \subseteq Dates
        /\ TableOf(r.rows, r.start .. r.through, TimelineRow)
        /\ TableOf(r.sources, 1..lastId, Reconciliation)
    BY <1>1 DEF RequestOK
  <2>2. QED BY <1>1, <1>3, <1>4, <2>1, RequestKept DEF r
<1>6. HandlerInv(r)'
  BY <1>1, <1>3, <1>4 DEF HandlerInv, Statements, Recompute, Opened, Ranged, Merged, Started,
       Deleted, Inserting
<1>7. RowsInv(r)'
  <2>1. r.cursor \in Nat /\ r.through \in Nat
    BY <1>1, DaysAreNumbers DEF RowsInv, RequestOK, Inserting
  <2>2. r.cursor <= r.through + 1 /\ DOMAIN r.rows = r.start .. (r.cursor - 1)
        /\ (DOMAIN r.rows # {} => r.rows[r.cursor - 1].closing = r.opening)
    BY <1>1 DEF RowsInv, Inserting
  <2>3. r.cursor - 1 = r.through
    BY <1>1, <2>1, <2>2
  <2>4. QED BY <1>3, <1>4, <2>1, <2>2, <2>3 DEF RowsInv, Inserting
<1>8. RangesOverLastDay(r)'
  BY <1>1, <1>3, <1>4
     DEF RangesOverLastDay, LastDayMaterialized, tables, Ranged, Merged, Started, Deleted, Inserting
<1>9. r.alone => ReadsAreCurrent(r)' /\ RowsAreCurrent(r)'
  <2>1. Seen(r)' = Seen(r) /\ snapshots' = snapshots
    BY <1>1, <1>4, SeenSame DEF tables, r
  <2>2. r.alone => ReadsAreCurrent(r)'
    BY <1>1, <1>2, <1>3, <1>4, <2>1
       DEF ReadsAreCurrent, Opened, Ranged, Merged, Started, Deleted, Inserting
  <2>3. r.alone => RowsAreCurrent(r)'
    BY <1>1, <1>2, <1>3, <1>4, <2>1 DEF RowsAreCurrent, Inserting
  <2>4. QED BY <2>2, <2>3
<1>10. r'.alone => r.alone
  BY <1>3 DEF NoRequest
<1>11. QED BY <1>2, <1>5, <1>6, <1>7, <1>8, <1>9, <1>10 DEF WorkerInv, AloneInv, r

\* The reconciliations of the recomputed days are all those of each such day.
LEMMA ClosingOfSources ==
  ASSUME NEW n \in Nat, NEW S, TableOf(S, 1..n, Reconciliation), NEW from, NEW to,
         NEW d \in from .. to, Reconciled(S, d), NEW b
  PROVE  Closing(Restrict(S, {i \in DOMAIN S : S[i].date \in from .. to}), d, b)
           = S[Effective(S, d)].target
<1> DEFINE T == Restrict(S, {i \in DOMAIN S : S[i].date \in from .. to})
<1>1. /\ DOMAIN T = {i \in DOMAIN S : S[i].date \in from .. to}
      /\ \A i \in DOMAIN T : T[i] = S[i]
  BY DEF Restrict
<1> HIDE DEF T
<1>2. OnDay(T, d) = OnDay(S, d)
  BY <1>1 DEF OnDay
<1>3. Reconciled(T, d) /\ Effective(T, d) = Effective(S, d)
  BY <1>2 DEF Reconciled, Effective
<1>4. Effective(S, d) \in DOMAIN T
  BY <1>2, EffectiveOnDay DEF OnDay
<1>5. Closing(T, d, b) = S[Effective(S, d)].target
  BY <1>1, <1>3, <1>4 DEF Closing
<1>6. QED BY <1>5 DEF T

LEMMA InsertRowStep ==
  ASSUME ConcurrentAssumption, IInv, NEW w \in Workers, InsertRow(w)
  PROVE  WorkerInv(w)'
<1> DEFINE r == request[w]
           d == r.cursor
           row == [opening |-> r.opening, closing |-> Closing(r.sources, d, r.opening)]
           rows == [e \in DOMAIN r.rows \cup {d} |-> IF e = d THEN row ELSE r.rows[e]]
<1>1. /\ TypeOK /\ RequestOK(r) /\ HandlerInv(r) /\ RowsInv(r) /\ AloneInv(w) /\ RangesOverLastDay(r)
      /\ r.pc = "insert" /\ d <= r.through /\ UNCHANGED <<tables, lastId, received>>
      /\ \A v \in Others(w) : request'[v] = request[v]
      /\ r' = [r EXCEPT !.opening = row.closing, !.cursor = d + 1, !.rows = rows]
  BY Advanced DEF IInv, WorkerInv, InsertRow, At
<1>2. r.alone => ReadsAreCurrent(r) /\ RowsAreCurrent(r) /\ \A u \in Others(w) : Idle(u)'
  BY <1>1, StillAlone DEF AloneInv
<1> HIDE DEF r
<1>3. /\ DOMAIN r' = DOMAIN NoRequest /\ r'.opening = row.closing /\ r'.cursor = d + 1 /\ r'.rows = rows
      /\ \A f \in DOMAIN NoRequest : f \notin {"opening", "cursor", "rows"} => r'[f] = r[f]
  BY <1>1 DEF HandlerInv, NoRequest
<1>4. /\ d \in Nat /\ r.start \in Nat /\ r.start > 0 /\ r.through \in Nat /\ r.through <= MaxDate
      /\ MaxDate \in Nat /\ r.start <= d /\ DOMAIN r.rows = r.start .. (d - 1)
  BY <1>1, DaysAreNumbers DEF RowsInv, HandlerInv, RequestOK, Inserting, Deleted, Started, Dates,
       ConcurrentAssumption
<1>5. d \in Dates /\ r.opening \in Int /\ lastId \in Nat
  BY <1>1, <1>4 DEF Dates, HandlerInv, TypeOK
<1>6. row.closing \in Int /\ row.opening = r.opening /\ row \in TimelineRow
  BY <1>1, <1>5, ClosingType DEF RequestOK, TimelineRow
<1>7. /\ DOMAIN rows = r.start .. d
      /\ rows[d] = row
      /\ \A e \in r.start .. (d - 1) : rows[e] = r.rows[e]
  <2>1. (r.start .. (d - 1)) \cup {d} = r.start .. d
    BY <1>4
  <2>2. QED BY <1>4, <2>1
<1>8. row.closing = Closing(r.sources, d, r.opening)
  OBVIOUS
<1> HIDE DEF d, row, rows
<1>9. /\ r'.through = r.through /\ r'.start = r.start /\ r'.pc = "insert"
      /\ r'.affected = r.affected /\ r'.seen = r.seen /\ r'.deleted = r.deleted
      /\ r'.previous = r.previous /\ r'.own = r.own /\ r'.removed = r.removed
      /\ r'.sources = r.sources /\ r'.op = r.op /\ r'.date = r.date /\ r'.target = r.target
      /\ \A f \in {"id", "attempt", "date", "target", "found", "own"} : r'[f] = r[f]
  BY <1>1, <1>3 DEF NoRequest
<1>10. RequestOK(r)'
  <2>1. /\ r.affected \in Dates \cup {NoDate} /\ r.through \in Dates \cup {NoDate}
        /\ r.start \in Dates \cup {NoDate} /\ r.seen \subseteq Dates /\ r.deleted \subseteq Dates
        /\ TableOf(r.sources, 1..lastId, Reconciliation)
        /\ TableOf(r.rows, r.start .. r.through, TimelineRow)
    BY <1>1 DEF RequestOK
  <2>2. TableOf(rows, r.start .. r.through, TimelineRow)
    <3>1. \A e \in DOMAIN rows : rows[e] \in TimelineRow
      <4>1. SUFFICES ASSUME NEW e \in r.start .. d PROVE rows[e] \in TimelineRow
        BY <1>7
      <4>2. e = d \/ e \in r.start .. (d - 1)
        BY <1>4
      <4>3. QED BY <1>4, <1>6, <1>7, <2>1, <4>2 DEF TableOf
    <3>2. DOMAIN rows \subseteq r.start .. r.through
      BY <1>1, <1>4, <1>7
    <3>3. rows = [e \in DOMAIN rows |-> rows[e]]
      BY DEF rows
    <3>4. QED BY <3>1, <3>2, <3>3 DEF TableOf
  <2>3. QED BY <1>1, <1>3, <1>9, <2>1, <2>2, RequestKept DEF r
<1>11. HandlerInv(r)'
  BY <1>1, <1>3, <1>9, <1>6 DEF HandlerInv, Statements, Recompute, Opened, Ranged, Merged, Started,
       Deleted, Inserting
<1>12. RowsInv(r)'
  <2>1. r.through # NoDate
    BY <1>1 DEF RowsInv
  <2>2. /\ d + 1 \in Nat /\ d + 1 <= r.through + 1 /\ r.start <= d + 1 /\ (d + 1) - 1 = d
    BY <1>1, <1>4
  <2>3. QED BY <1>3, <1>9, <1>7, <2>1, <2>2 DEF RowsInv, Inserting
<1>13. RangesOverLastDay(r)'
  BY <1>1, <1>9
     DEF RangesOverLastDay, LastDayMaterialized, tables, Ranged, Merged, Started, Deleted, Inserting
<1>14. r.alone => ReadsAreCurrent(r)' /\ RowsAreCurrent(r)'
  <2>1. SUFFICES ASSUME r.alone PROVE ReadsAreCurrent(r)' /\ RowsAreCurrent(r)'
    OBVIOUS
  <2>2. Seen(r)' = Seen(r) /\ snapshots' = snapshots
    BY <1>1, <1>9, SeenSame DEF tables, r
  <2>3. ReadsAreCurrent(r)'
    BY <1>1, <1>2, <1>9, <2>1, <2>2
       DEF ReadsAreCurrent, Opened, Ranged, Merged, Started, Deleted, Inserting
  <2>4. /\ DOMAIN r.rows = {} => r.opening = CarriedInto(snapshots, r.start)
        /\ \A e \in DOMAIN r.rows :
             /\ r.rows[e].opening =
                  IF e = r.start THEN CarriedInto(snapshots, r.start) ELSE r.rows[e - 1].closing
             /\ Reconciled(Seen(r), e) => r.rows[e].closing = Seen(r)[Effective(Seen(r), e)].target
    BY <1>1, <1>2, <2>1 DEF RowsAreCurrent, Inserting
  <2>5. DOMAIN rows # {}
    BY <1>4, <1>7
  <2>6. ASSUME NEW e \in DOMAIN rows
        PROVE  /\ rows[e].opening =
                    IF e = r.start THEN CarriedInto(snapshots, r.start) ELSE rows[e - 1].closing
               /\ Reconciled(Seen(r), e) => rows[e].closing = Seen(r)[Effective(Seen(r), e)].target
    <3>1. CASE e = d
      <4>1. rows[e].opening =
              IF e = r.start THEN CarriedInto(snapshots, r.start) ELSE rows[e - 1].closing
        <5>1. CASE d = r.start
          <6>1. DOMAIN r.rows = {}
            BY <1>4, <5>1
          <6>2. QED BY <1>6, <1>7, <2>4, <3>1, <5>1, <6>1
        <5>2. CASE d # r.start
          <6>1. d - 1 \in r.start .. (d - 1)
            BY <1>4, <5>2
          <6>2. r.rows[d - 1].closing = r.opening
            BY <1>1, <1>4, <6>1 DEF RowsInv, Inserting, d
          <6>3. QED BY <1>6, <1>7, <3>1, <5>2, <6>1, <6>2
        <5>3. QED BY <5>1, <5>2
      <4>2. ASSUME Reconciled(Seen(r), e)
            PROVE  rows[e].closing = Seen(r)[Effective(Seen(r), e)].target
        <5>1. TableOf(Seen(r), 1..lastId, Reconciliation)
          BY <1>1, WrittenTyped DEF Seen
        <5>2. r.sources = Restrict(Seen(r), {i \in DOMAIN Seen(r) : Seen(r)[i].date \in r.start .. r.through})
          BY <1>1, <1>2, <2>1 DEF ReadsAreCurrent
        <5>3. d \in r.start .. r.through
          BY <1>1, <1>4
        <5>4. Closing(r.sources, d, r.opening) = Seen(r)[Effective(Seen(r), d)].target
          BY <1>5, <3>1, <4>2, <5>1, <5>2, <5>3, ClosingOfSources
        <5>5. QED BY <1>7, <1>8, <3>1, <5>4
      <4>3. QED BY <4>1, <4>2
    <3>2. CASE e # d
      <4>1. e \in r.start .. (d - 1) /\ (e # r.start => e - 1 \in r.start .. (d - 1))
        BY <1>4, <1>7, <3>2
      <4>2. QED BY <1>4, <1>7, <2>4, <4>1
    <3>3. QED BY <3>1, <3>2
  <2>7. RowsAreCurrent(r)'
    BY <1>3, <1>9, <2>2, <2>5, <2>6 DEF RowsAreCurrent
  <2>8. QED BY <2>3, <2>7
<1>15. r'.alone => r.alone
  BY <1>3 DEF NoRequest
<1>16. QED BY <1>2, <1>10, <1>11, <1>12, <1>13, <1>14, <1>15 DEF WorkerInv, AloneInv, r

\* Receiving a request, and starting over as the victim of a deadlock.
LEMMA ReceiveStep ==
  ASSUME ConcurrentAssumption, IInv, NEW w \in Workers, NEW asked, Receive(w, asked),
         DOMAIN asked = DOMAIN NoRequest, asked.pc = "start",
         asked.id \in 0..lastId, asked.attempt \in 0..RetryLimit,
         asked.date \in Dates \cup {NoDate}, asked.target \in Targets \cup {NoTarget},
         asked.op = "create" => asked.date \in Dates /\ asked.target \in Targets,
         \A f \in DOMAIN NoRequest :
           f \notin {"pc", "op", "id", "date", "target", "attempt", "alone"} => asked[f] = NoRequest[f]
  PROVE  IInv'
<1>1. /\ TypeOK /\ LastDayInv /\ UNCHANGED <<tables, lastId>> /\ Idle(w)
      /\ received \in Nat /\ received' = received + 1 /\ received' \in 0..MaxRequests
      /\ \A v \in Workers : WorkerInv(v)
  BY DEF IInv, Receive, TypeOK, ConcurrentAssumption
<1> DEFINE alone == \A u \in Others(w) : Idle(u)
<1>2. /\ request' = [v \in Workers |-> request'[v]]
      /\ request'[w] = [asked EXCEPT !.alone = alone]
      /\ \A v \in Others(w) : request'[v] = [request[v] EXCEPT !.alone = FALSE]
  BY DEF Receive, Others
<1>3. WorkerInv(w)'
  <2>1. \A u \in Others(w) : Idle(u) => Idle(u)'
    <3>1. SUFFICES ASSUME NEW u \in Others(w), Idle(u) PROVE Idle(u)'
      OBVIOUS
    <3>2. DOMAIN request[u] = DOMAIN NoRequest
      BY <1>1 DEF Others, WorkerInv, HandlerInv
    <3>3. request'[u] = [request[u] EXCEPT !.alone = FALSE]
      BY <1>2
    <3>4. request'[u].pc = request[u].pc
      BY <3>2, <3>3 DEF NoRequest
    <3>5. QED BY <3>1, <3>4 DEF Idle
  <2> DEFINE r == request'[w]
  <2>2. /\ DOMAIN r = DOMAIN NoRequest /\ r.pc = "start" /\ r.id = asked.id
        /\ r.attempt = asked.attempt /\ r.date = asked.date /\ r.target = asked.target
        /\ r.op = asked.op /\ r.alone = alone
        /\ \A f \in DOMAIN NoRequest : f # "alone" => r[f] = asked[f]
    BY <1>2 DEF NoRequest
  <2> HIDE DEF r, alone
  <2>3. /\ r.id \in 0..lastId /\ r.attempt \in 0..RetryLimit
        /\ r.date \in Dates \cup {NoDate} /\ r.target \in Targets \cup {NoTarget}
        /\ r.op = "create" => r.date \in Dates /\ r.target \in Targets
        /\ \A f \in DOMAIN NoRequest :
             f \notin {"pc", "op", "id", "date", "target", "attempt", "alone"} => r[f] = NoRequest[f]
    BY <2>2
  <2>4. r.alone => \A u \in Others(w) : Idle(u)'
    BY <2>1, <2>2 DEF alone
  <2>5. lastId' = lastId
    BY <1>1
  <2>6. QED BY <1>1, <2>2, <2>3, <2>4, <2>5, NewRequest DEF r
<1>4. ASSUME NEW v \in Others(w) PROVE WorkerInv(v)'
  <2> DEFINE r == request[v]
  <2>1. v \in Workers /\ WorkerInv(v) /\ HandlerInv(r) /\ RequestOK(r) /\ RowsInv(r) /\ RangesOverLastDay(r)
    BY <1>1 DEF Others, WorkerInv
  <2>2. r' = [r EXCEPT !.alone = FALSE]
    BY <1>2
  <2> HIDE DEF r
  <2>3. /\ DOMAIN r' = DOMAIN NoRequest /\ ~r'.alone
        /\ \A f \in DOMAIN NoRequest : f # "alone" => r'[f] = r[f]
    BY <2>1, <2>2 DEF HandlerInv, NoRequest
  <2>4. /\ r'.pc = r.pc /\ r'.op = r.op /\ r'.rows = r.rows /\ r'.through = r.through
        /\ r'.start = r.start /\ r'.opening = r.opening /\ r'.cursor = r.cursor
        /\ r'.affected = r.affected /\ r'.seen = r.seen /\ r'.deleted = r.deleted
        /\ r'.sources = r.sources /\ r'.date = r.date /\ r'.target = r.target /\ r'.found = r.found
        /\ \A f \in {"id", "attempt", "date", "target", "found", "own"} : r'[f] = r[f]
    BY <2>3 DEF NoRequest
  <2>5. RequestOK(r)'
    <3>1. /\ r.affected \in Dates \cup {NoDate} /\ r.through \in Dates \cup {NoDate}
          /\ r.start \in Dates \cup {NoDate} /\ r.seen \subseteq Dates /\ r.deleted \subseteq Dates
          /\ TableOf(r.rows, r.start .. r.through, TimelineRow)
          /\ TableOf(r.sources, 1..lastId, Reconciliation)
      BY <2>1 DEF RequestOK
    <3>2. QED BY <1>1, <2>1, <2>3, <2>4, <3>1, RequestKept DEF r
  <2>6. HandlerInv(r)' /\ RowsInv(r)' /\ RangesOverLastDay(r)'
    BY <1>1, <2>1, <2>3, <2>4 DEF HandlerInv, RowsInv, RangesOverLastDay, LastDayMaterialized, tables
  <2>7. QED BY <2>3, <2>5, <2>6 DEF WorkerInv, AloneInv, r
<1>5. \A v \in Workers : WorkerInv(v)'
  BY <1>3, <1>4 DEF Others
<1>6. TypeOK'
  BY <1>1, <1>5 DEF TypeOK, WorkerInv, tables
<1>7. LastDayInv'
  BY <1>1 DEF LastDayInv, LastDayMaterialized, CacheAligned, CarriedInto, Before, tables
<1>8. QED BY <1>2, <1>5, <1>6, <1>7 DEF IInv

LEMMA ReceivedRequestsStep ==
  ASSUME ConcurrentAssumption, IInv, NEW w \in Workers,
         \/ \E d \in Dates, t \in Targets : ReceiveCreate(w, d, t)
         \/ \E id \in DOMAIN reconciliations, d \in Dates \cup {NoDate}, t \in Targets \cup {NoTarget} :
              ReceiveUpdate(w, id, d, t)
         \/ \E id \in DOMAIN reconciliations : ReceiveDelete(w, id)
  PROVE  IInv'
<1>0. /\ DOMAIN reconciliations \subseteq 0..lastId /\ lastId \in Nat /\ 0 \in 0..lastId
      /\ 0 \in 0..RetryLimit
  BY DEF IInv, TypeOK, TableOf, ConcurrentAssumption
<1>1. ASSUME NEW d \in Dates, NEW t \in Targets, ReceiveCreate(w, d, t) PROVE IInv'
  <2> DEFINE asked == [NoRequest EXCEPT !.pc = "start", !.op = "create", !.date = d, !.target = t]
  <2>1. /\ DOMAIN asked = DOMAIN NoRequest /\ asked.pc = "start" /\ asked.id = 0 /\ asked.attempt = 0
        /\ asked.date = d /\ asked.target = t
        /\ \A f \in DOMAIN NoRequest :
             f \notin {"pc", "op", "id", "date", "target", "attempt", "alone"} => asked[f] = NoRequest[f]
    BY DEF NoRequest
  <2>2. Receive(w, asked)
    BY <1>1 DEF ReceiveCreate
  <2> HIDE DEF asked
  <2>3. QED BY <1>0, <2>1, <2>2, ReceiveStep
<1>2. ASSUME NEW id \in DOMAIN reconciliations, NEW d \in Dates \cup {NoDate},
             NEW t \in Targets \cup {NoTarget}, ReceiveUpdate(w, id, d, t)
      PROVE  IInv'
  <2> DEFINE asked == [NoRequest EXCEPT !.pc = "start", !.op = "update", !.id = id, !.date = d,
                                        !.target = t]
  <2>1. /\ DOMAIN asked = DOMAIN NoRequest /\ asked.pc = "start" /\ asked.id = id /\ asked.attempt = 0
        /\ asked.date = d /\ asked.target = t /\ asked.op = "update"
        /\ \A f \in DOMAIN NoRequest :
             f \notin {"pc", "op", "id", "date", "target", "attempt", "alone"} => asked[f] = NoRequest[f]
    BY DEF NoRequest
  <2>2. Receive(w, asked)
    BY <1>2 DEF ReceiveUpdate
  <2> HIDE DEF asked
  <2>3. QED BY <1>0, <2>1, <2>2, ReceiveStep
<1>3. ASSUME NEW id \in DOMAIN reconciliations, ReceiveDelete(w, id) PROVE IInv'
  <2> DEFINE asked == [NoRequest EXCEPT !.pc = "start", !.op = "delete", !.id = id]
  <2>1. /\ DOMAIN asked = DOMAIN NoRequest /\ asked.pc = "start" /\ asked.id = id /\ asked.attempt = 0
        /\ asked.date = NoDate /\ asked.target = NoTarget /\ asked.op = "delete"
        /\ \A f \in DOMAIN NoRequest :
             f \notin {"pc", "op", "id", "date", "target", "attempt", "alone"} => asked[f] = NoRequest[f]
    BY DEF NoRequest
  <2>2. Receive(w, asked)
    BY <1>3 DEF ReceiveDelete
  <2> HIDE DEF asked
  <2>3. QED BY <1>0, <2>1, <2>2, ReceiveStep
<1>4. QED BY <1>1, <1>2, <1>3

\* A transaction in a cycle is waiting for a lock.
LEMMA VictimWaits ==
  ASSUME NEW w \in Workers, WaitCycle(w)
  PROVE  ~Idle(w)
<1>1. PICK v \in Others(w) : WaitsFor(w, v)
  BY DEF WaitCycle
<1>2. QED BY <1>1 DEF WaitsFor, At, Idle

LEMMA DeadlockVictimStep ==
  ASSUME ConcurrentAssumption, IInv, NEW w \in Workers, DeadlockVictim(w)
  PROVE  WorkerInv(w)'
<1> DEFINE r == request[w]
           again == [NoRequest EXCEPT !.pc = "start", !.op = r.op, !.date = r.date, !.target = r.target,
                       !.id = IF r.op = "create" THEN 0 ELSE r.id, !.attempt = r.attempt + 1]
<1>1. /\ TypeOK /\ RequestOK(r) /\ HandlerInv(r) /\ lastId' = lastId /\ lastId \in Nat
      /\ Advance(w, IF r.attempt < RetryLimit THEN again ELSE NoRequest)
  BY DEF IInv, WorkerInv, TypeOK, DeadlockVictim
<1>2. CASE r.attempt < RetryLimit
  <2>1. request'[w] = again
    BY <1>1, <1>2, Advanced
  <2>2. /\ DOMAIN again = DOMAIN NoRequest /\ again.pc = "start"
        /\ again.id \in {0, r.id} /\ again.attempt = r.attempt + 1 /\ again.op = r.op
        /\ again.date = r.date /\ again.target = r.target /\ ~again.alone
        /\ \A f \in DOMAIN NoRequest :
             f \notin {"pc", "op", "id", "date", "target", "attempt", "alone"} => again[f] = NoRequest[f]
    BY DEF NoRequest
  <2> HIDE DEF again
  <2>3. /\ again.id \in 0..lastId /\ again.attempt \in 0..RetryLimit
        /\ again.date \in Dates \cup {NoDate} /\ again.target \in Targets \cup {NoTarget}
    BY <1>1, <1>2, <2>2 DEF RequestOK, ConcurrentAssumption
  <2>4. again.op = "create" => again.date \in Dates /\ again.target \in Targets
    BY <1>1, <2>2 DEF HandlerInv
  <2>5. QED BY <1>1, <2>1, <2>2, <2>3, <2>4, NewRequest
<1>3. CASE ~(r.attempt < RetryLimit)
  BY <1>1, <1>3, Advanced, EndedRequest
<1>4. QED BY <1>2, <1>3

-----------------------------------------------------------------------------
(* Commit.                                                                 *)

\* What a transaction publishes: its rows, one per day of its range.
LEMMA RowsPublished ==
  ASSUME ConcurrentAssumption, IInv, NEW w \in Workers, At(w, "commit")
  PROVE  LET r == request[w]
         IN  /\ r.start \in Dates /\ r.start <= r.affected /\ r.affected \in Dates
             /\ r.through \in Dates \cup {NoDate} /\ (r.through = NoDate \/ r.affected <= r.through)
             /\ r.opening \in Int
             /\ DOMAIN r.rows = r.start .. r.through
             /\ \A d \in DOMAIN r.rows : r.rows[d] \in TimelineRow
             /\ r.through # NoDate => r.through \in DOMAIN r.rows
                                      /\ r.rows[r.through].closing = r.opening
             /\ \A d \in r.deleted : d \in Dates /\ r.start <= d
<1> DEFINE r == request[w]
<1>1. RequestOK(r) /\ HandlerInv(r) /\ RowsInv(r) /\ r.pc = "commit"
  BY DEF IInv, WorkerInv, At
<1> HIDE DEF r
<1>2. /\ r.start \in Dates /\ r.start <= r.affected /\ r.affected \in Dates
      /\ r.through \in Dates \cup {NoDate} /\ (r.through = NoDate \/ r.affected <= r.through)
      /\ r.opening \in Int
      /\ DOMAIN r.rows = r.start .. r.through
      /\ \A d \in r.deleted : d \in Dates /\ r.start <= d
  BY <1>1 DEF RequestOK, HandlerInv, RowsInv, Recompute, Opened, Ranged, Merged, Started, Deleted, Inserting
<1>3. \A d \in DOMAIN r.rows : r.rows[d] \in TimelineRow
  BY <1>1 DEF RequestOK, TableOf
<1>4. ASSUME r.through # NoDate
      PROVE  r.through \in DOMAIN r.rows /\ r.rows[r.through].closing = r.opening
  <2>1. /\ r.start \in Nat /\ r.affected \in Nat /\ r.through \in Nat
        /\ r.start <= r.affected /\ r.affected <= r.through
    BY <1>2, <1>4, DaysAreNumbers
  <2>2. r.through \in DOMAIN r.rows
    BY <1>2, <2>1
  <2>3. /\ r.cursor \in Nat /\ DOMAIN r.rows = r.start .. (r.cursor - 1)
        /\ r.rows[r.cursor - 1].closing = r.opening /\ r.cursor <= r.through + 1
    BY <1>1, <2>2 DEF RowsInv, Inserting
  <2>4. r.cursor - 1 = r.through
    <3>1. r.through \in r.start .. (r.cursor - 1)
      BY <2>2, <2>3
    <3>2. QED BY <2>1, <2>3, <3>1
  <2>5. QED BY <2>2, <2>3, <2>4
<1>5. QED BY <1>2, <1>3, <1>4 DEF r

\* What another worker knows survives a commit: it only forgets rows to delete.
LEMMA CommitOther ==
  ASSUME ConcurrentAssumption, IInv, NEW w \in Workers, Commit(w), NEW v \in Others(w)
  PROVE  WorkerInv(v)'
<1> DEFINE r == request[v]
           gone == request[w].deleted
<1>1. /\ v \in Workers /\ w \in Others(v) /\ WorkerInv(v) /\ ~Idle(w)
      /\ lastId' = lastId /\ materializedThrough' = materializedThrough
      /\ r' = [r EXCEPT !.seen = r.seen \ gone]
  BY DEF IInv, Others, Commit, At, Idle
<1>2. ~r.alone
  BY <1>1 DEF WorkerInv, AloneInv
<1>3. RequestOK(r) /\ HandlerInv(r) /\ RowsInv(r) /\ RangesOverLastDay(r)
  BY <1>1 DEF WorkerInv
<1> HIDE DEF r, gone
<1>4. /\ DOMAIN r' = DOMAIN NoRequest /\ r'.seen = r.seen \ gone
      /\ \A f \in DOMAIN NoRequest : f # "seen" => r'[f] = r[f]
  BY <1>1, <1>3 DEF HandlerInv, NoRequest
<1>5. /\ r'.pc = r.pc /\ r'.op = r.op /\ r'.rows = r.rows /\ r'.through = r.through
      /\ r'.start = r.start /\ r'.opening = r.opening /\ r'.cursor = r.cursor
      /\ r'.affected = r.affected /\ r'.deleted = r.deleted /\ r'.alone = r.alone
      /\ r'.sources = r.sources /\ r'.date = r.date /\ r'.target = r.target /\ r'.found = r.found
      /\ \A f \in {"id", "attempt", "date", "target", "found", "own"} : r'[f] = r[f]
  BY <1>4 DEF NoRequest
<1>6. RequestOK(r)'
  <2>1. /\ r.affected \in Dates \cup {NoDate} /\ r.through \in Dates \cup {NoDate}
        /\ r.start \in Dates \cup {NoDate} /\ r'.seen \subseteq Dates /\ r.deleted \subseteq Dates
        /\ TableOf(r.rows, r.start .. r.through, TimelineRow)
        /\ TableOf(r.sources, 1..lastId, Reconciliation)
    BY <1>3, <1>4 DEF RequestOK
  <2>2. QED BY <1>1, <1>3, <1>4, <1>5, <2>1, RequestKept DEF r
<1>7. HandlerInv(r)'
  BY <1>3, <1>4, <1>5 DEF HandlerInv
<1>8. RowsInv(r)' /\ RangesOverLastDay(r)'
  BY <1>1, <1>3, <1>5 DEF RowsInv, RangesOverLastDay, LastDayMaterialized
<1>9. AloneInv(v)'
  BY <1>2, <1>5 DEF AloneInv, r
<1>10. QED BY <1>6, <1>7, <1>8, <1>9 DEF WorkerInv, r

\* The committed tables stay well typed.
LEMMA CommittedTables ==
  ASSUME ConcurrentAssumption, IInv, NEW w \in Workers, Commit(w)
  PROVE  /\ TableOf(reconciliations', 1..lastId, Reconciliation)
         /\ TableOf(snapshots', Dates, TimelineRow)
         /\ currentBalanceCached' \in Int
         /\ DOMAIN snapshots' = (DOMAIN snapshots \ request[w].deleted) \cup DOMAIN request[w].rows
         /\ \A d \in DOMAIN request[w].rows : snapshots'[d] = request[w].rows[d]
         /\ \A d \in DOMAIN snapshots' : d \notin DOMAIN request[w].rows => snapshots'[d] = snapshots[d]
<1> DEFINE r == request[w]
<1>1. /\ TypeOK /\ RequestOK(r) /\ reconciliations' = Written(r)
      /\ snapshots' = [d \in (DOMAIN snapshots \ r.deleted) \cup DOMAIN r.rows |->
                         IF d \in DOMAIN r.rows THEN r.rows[d] ELSE snapshots[d]]
      /\ currentBalanceCached' = r.opening
  BY DEF IInv, WorkerInv, Commit, NewCachedBalance
<1>2. /\ r.start \in Dates /\ r.opening \in Int /\ r.through \in Dates \cup {NoDate}
      /\ DOMAIN r.rows = r.start .. r.through
      /\ \A d \in DOMAIN r.rows : r.rows[d] \in TimelineRow
  BY RowsPublished DEF Commit
<1> HIDE DEF r
<1>3. DOMAIN r.rows \subseteq Dates
  <2>1. r.start \in Nat /\ r.start > 0 /\ r.through \in Nat /\ r.through <= MaxDate /\ MaxDate \in Nat
    BY <1>2, DaysAreNumbers
  <2>2. r.start .. r.through \subseteq 1 .. MaxDate
    BY <2>1
  <2>3. QED BY <1>2, <2>2 DEF Dates
<1>4. TableOf(snapshots', Dates, TimelineRow)
  BY <1>1, <1>2, <1>3 DEF TypeOK, TableOf
<1>5. TableOf(reconciliations', 1..lastId, Reconciliation)
  BY <1>1, WrittenTyped
<1>6. QED BY <1>1, <1>2, <1>4, <1>5 DEF r

\* On an account materialised through its last day, every commit rewrites that day
\* and caches its closing.
LEMMA CommitLastDay ==
  ASSUME ConcurrentAssumption, IInv, NEW w \in Workers, Commit(w), LastDayMaterialized
  PROVE  /\ MaxDate \in DOMAIN snapshots' /\ CacheAligned'
         /\ DOMAIN snapshots \subseteq DOMAIN snapshots'
<1> DEFINE r == request[w]
<1>1. /\ TypeOK /\ RangesOverLastDay(r) /\ At(w, "commit") /\ currentBalanceCached' = r.opening
      /\ materializedThrough \in Starts /\ MaxDate \in Nat
      /\ UNCHANGED materializedThrough
  BY DEF IInv, TypeOK, WorkerInv, Commit, NewCachedBalance, ConcurrentAssumption
<1>2. /\ r.start \in Dates /\ r.start <= r.affected /\ r.affected \in Dates
      /\ (r.through = NoDate \/ r.affected <= r.through)
      /\ DOMAIN r.rows = r.start .. r.through
      /\ r.through # NoDate => r.through \in DOMAIN r.rows
                               /\ r.rows[r.through].closing = r.opening
      /\ \A d \in r.deleted : d \in Dates /\ r.start <= d
  BY <1>1, RowsPublished
<1>3. r.through = MaxDate
  BY <1>1 DEF RangesOverLastDay, At, Ranged, Merged, Started, Deleted, Inserting
<1> HIDE DEF r
<1>4. MaxDate # NoDate
  BY <1>1, <1>2 DEF Dates, NoDate
<1>5. MaxDate \in DOMAIN r.rows /\ r.rows[MaxDate].closing = r.opening
  BY <1>2, <1>3, <1>4
<1>6. /\ DOMAIN snapshots' \subseteq Dates
      /\ DOMAIN snapshots' = (DOMAIN snapshots \ r.deleted) \cup DOMAIN r.rows
      /\ snapshots'[MaxDate] = r.rows[MaxDate]
  BY <1>5, CommittedTables DEF TableOf, r
<1>7. r.deleted \subseteq DOMAIN r.rows
  <2>1. SUFFICES ASSUME NEW d \in r.deleted PROVE d \in DOMAIN r.rows
    OBVIOUS
  <2>2. d \in Dates /\ r.start <= d
    BY <1>2
  <2>3. QED BY <1>1, <1>2, <1>3, <2>2 DEF Dates
<1>8. MaxDate \in DOMAIN snapshots' /\ DOMAIN snapshots \subseteq DOMAIN snapshots'
  BY <1>5, <1>6, <1>7
<1>9. CarriedInto(snapshots', MaxDate + 1) = snapshots'[MaxDate].closing
  <2>1. MaxDate + 1 \in Nat /\ MaxDate < MaxDate + 1
        /\ \A e \in DOMAIN snapshots' : e < MaxDate + 1 => e <= MaxDate
    BY <1>1, <1>6 DEF Dates
  <2>2. QED BY <1>6, <1>8, <2>1, CarriedAfterRow
<1>10. CacheAligned'
  <2>1. CarriedInto(snapshots, MaxDate + 1)' = CarriedInto(snapshots', MaxDate + 1)
    BY DEF CarriedInto, Before
  <2>2. QED BY <1>1, <1>5, <1>6, <1>9, <2>1 DEF CacheAligned
<1>11. QED BY <1>8, <1>10

LEMMA CommitStep ==
  ASSUME ConcurrentAssumption, IInv, NEW w \in Workers, Commit(w)
  PROVE  IInv'
<1>1. /\ TypeOK /\ lastId' = lastId /\ received' = received
      /\ materializedThrough' = materializedThrough
      /\ request' = [v \in Workers |-> request'[v]] /\ request'[w] = NoRequest
  BY DEF IInv, Commit
<1>2. WorkerInv(w)'
  BY <1>1, EndedRequest
<1>3. \A v \in Workers : WorkerInv(v)'
  BY <1>2, CommitOther DEF Others
<1>4. /\ TableOf(reconciliations', 1..lastId, Reconciliation)
      /\ TableOf(snapshots', Dates, TimelineRow) /\ currentBalanceCached' \in Int
  BY CommittedTables
<1>5. TypeOK'
  BY <1>1, <1>3, <1>4 DEF TypeOK, WorkerInv
<1>6. LastDayInv'
  BY <1>1, CommitLastDay DEF LastDayInv, LastDayMaterialized
<1>7. QED BY <1>1, <1>3, <1>5, <1>6 DEF IInv

-----------------------------------------------------------------------------
(* The initial states.                                                     *)

\* The timeline of a fresh account after one create request covers consecutive days
\* up to the last one.
LEMMA FirstTimelineTyped ==
  ASSUME ConcurrentAssumption, NEW n \in Nat, NEW R, TableOf(R, 1..n, Reconciliation),
         NEW last \in Dates
  PROVE  TableOf(FirstTimeline(R, last), Dates, TimelineRow) /\ last \in DOMAIN FirstTimeline(R, last)
<1> DEFINE first == Min({d \in TransactionDays : d <= last} \cup {last})
<1>1. first \in Dates /\ first \in Nat /\ last \in Nat /\ first <= last
  <2> DEFINE days == {d \in TransactionDays : d <= last} \cup {last}
  <2>1. days \subseteq Dates /\ last \in days
    BY DEF TransactionDays
  <2>2. days \subseteq Nat
    BY <2>1, DaysAreNumbers
  <2> HIDE DEF days
  <2>3. Min(days) \in days /\ Min(days) <= last
    BY <2>1, <2>2, MinOfNaturals
  <2>4. first = Min(days)
    BY DEF days
  <2>5. QED BY <2>1, <2>2, <2>3, <2>4
<1> HIDE DEF first
<1> DEFINE Chain(g, m) ==
             g = [d \in first..m |->
                    [opening |-> IF d = first THEN InitialBalance ELSE g[d - 1].closing,
                     closing |-> Closing(R, d, IF d = first THEN InitialBalance ELSE g[d - 1].closing)]]
           row[d \in first..last] ==
             LET b == IF d = first THEN InitialBalance ELSE row[d - 1].closing
             IN  [opening |-> b, closing |-> Closing(R, d, b)]
           Unchained == {m \in Nat : first <= m /\ ~ \E g : Chain(g, m)}
<1>2. Unchained = {}
  <2>1. SUFFICES ASSUME Unchained # {} PROVE FALSE
    OBVIOUS
  <2>2. PICK k \in Unchained : \A m \in Unchained : k <= m
    BY <2>1, MinOfNaturals
  <2>3. k \in Nat /\ first <= k /\ ~ \E g : Chain(g, k)
    BY <2>2
  <2>4. CASE k = first
    <3> DEFINE g == [d \in first..first |-> [opening |-> InitialBalance,
                                             closing |-> Closing(R, d, InitialBalance)]]
    <3>1. \A d \in first..first : d = first
      BY <1>1
    <3>2. Chain(g, first)
      BY <3>1
    <3>3. QED BY <2>3, <2>4, <3>2
  <2>5. CASE k # first
    <3>1. k - 1 \in Nat /\ first <= k - 1 /\ ~(k <= k - 1)
      BY <1>1, <2>3, <2>5
    <3>2. PICK g : Chain(g, k - 1)
      BY <2>2, <3>1
    <3> DEFINE h == [d \in first..k |->
                       [opening |-> IF d = first THEN InitialBalance ELSE g[d - 1].closing,
                        closing |-> Closing(R, d, IF d = first THEN InitialBalance ELSE g[d - 1].closing)]]
    <3>3. ASSUME NEW d \in first..k, d # first
          PROVE  h[d - 1] = g[d - 1]
      <4>1. d - 1 \in first..(k - 1) /\ d - 1 \in first..k
        BY <1>1, <2>3, <3>3
      <4>2. QED BY <3>2, <4>1
    <3>4. Chain(h, k)
      BY <3>3
    <3> HIDE DEF Chain
    <3>5. QED BY <2>3, <3>4
  <2>6. QED BY <2>4, <2>5
<1>3. PICK g : Chain(g, last)
  BY <1>1, <1>2
<1>4. row = [d \in first..last |->
               LET b == IF d = first THEN InitialBalance ELSE row[d - 1].closing
               IN  [opening |-> b, closing |-> Closing(R, d, b)]]
  BY <1>3, Zenon
<1>5. FirstTimeline(R, last) = [d \in first..last |-> row[d]]
  BY DEF FirstTimeline, first
<1> HIDE DEF row
<1> DEFINE Untyped == {d \in first..last : row[d] \notin TimelineRow}
<1>6. Untyped = {}
  <2>1. SUFFICES ASSUME Untyped # {} PROVE FALSE
    OBVIOUS
  <2>2. Untyped \subseteq Nat
    BY <1>1
  <2>3. PICK k \in Untyped : \A m \in Untyped : k <= m
    BY <2>1, <2>2, MinOfNaturals
  <2> DEFINE b == IF k = first THEN InitialBalance ELSE row[k - 1].closing
  <2>4. k \in first..last /\ row[k] \notin TimelineRow
        /\ row[k] = [opening |-> b, closing |-> Closing(R, k, b)]
    BY <1>4, <2>3
  <2>5. b \in Int
    <3>1. CASE k = first
      BY <3>1 DEF ConcurrentAssumption
    <3>2. CASE k # first
      <4>1. k - 1 \in first..last /\ ~(k <= k - 1)
        BY <1>1, <2>4, <3>2
      <4>2. row[k - 1] \in TimelineRow
        BY <2>3, <4>1
      <4>3. QED BY <3>2, <4>2 DEF TimelineRow
    <3>3. QED BY <3>1, <3>2
  <2> HIDE DEF b
  <2>6. k \in Dates
    BY <1>1, <2>4 DEF Dates
  <2>7. QED BY <2>4, <2>5, <2>6, ClosingType DEF TimelineRow
<1>7. first..last \subseteq Dates /\ last \in first..last
  BY <1>1 DEF Dates
<1>8. QED BY <1>5, <1>6, <1>7 DEF TableOf

LEMMA InitInv ==
  ASSUME ConcurrentAssumption, Init
  PROVE  IInv
<1>1. DOMAIN EmptyTable = {} /\ EmptyTable \in [DOMAIN EmptyTable -> {}]
  BY DEF EmptyTable
<1>2. /\ lastId \in Nat /\ received \in 0..MaxRequests
      /\ TableOf(reconciliations, 1..lastId, Reconciliation)
      /\ TableOf(snapshots, Dates, TimelineRow)
      /\ LastDayMaterialized => MaxDate \in DOMAIN snapshots
  <2>1. CASE materializedThrough = NoDate
    <3>1. lastId = 0 /\ received = 0 /\ reconciliations = EmptyTable /\ snapshots = EmptyTable
      BY <2>1 DEF Init
    <3>2. ~LastDayMaterialized
      BY <2>1 DEF LastDayMaterialized, NoDate, ConcurrentAssumption
    <3>3. QED BY <1>1, <3>1, <3>2 DEF TableOf, ConcurrentAssumption
  <2>2. CASE materializedThrough # NoDate
    <3> DEFINE last == Max(TransactionDays \cup {materializedThrough})
    <3>1. lastId = 1 /\ received = 1 /\ snapshots = FirstTimeline(reconciliations, last)
      BY <2>2 DEF Init
    <3>2. materializedThrough \in Dates
      BY <2>2 DEF Init, ConcurrentAssumption
    <3>3. TableOf(reconciliations, 1..lastId, Reconciliation)
      <4>1. PICK t \in Targets :
              reconciliations = [i \in {1} |-> [date |-> materializedThrough, target |-> t]]
        BY <2>2 DEF Init
      <4>2. QED BY <3>1, <3>2, <4>1 DEF TableOf, Reconciliation
    <3>4. TransactionDays \cup {materializedThrough} \subseteq 0..MaxDate /\ MaxDate \in Nat
      BY <3>2 DEF TransactionDays, Dates, ConcurrentAssumption
    <3>5. /\ last \in TransactionDays \cup {materializedThrough}
          /\ \A d \in TransactionDays \cup {materializedThrough} : last >= d
      BY <3>4, MaxOfInterval
    <3> HIDE DEF last
    <3>6. last \in Dates /\ (LastDayMaterialized => last = MaxDate)
      BY <3>2, <3>4, <3>5 DEF TransactionDays, LastDayMaterialized, Dates
    <3>7. TableOf(snapshots, Dates, TimelineRow) /\ last \in DOMAIN snapshots
      BY <3>1, <3>3, <3>6, FirstTimelineTyped
    <3>8. QED BY <3>1, <3>3, <3>6, <3>7 DEF ConcurrentAssumption
  <2>3. QED BY <2>1, <2>2
<1>3. currentBalanceCached = CarriedInto(snapshots, MaxDate + 1)
      /\ request = [w \in Workers |-> NoRequest] /\ materializedThrough \in Starts
  BY DEF Init
<1>4. CarriedInto(snapshots, MaxDate + 1) \in Int
  <2>1. \A e \in DOMAIN snapshots : snapshots[e].closing \in Int
    BY <1>2 DEF TableOf, TimelineRow
  <2>2. DOMAIN snapshots \subseteq Dates /\ MaxDate + 1 \in Nat
    BY <1>2 DEF TableOf, ConcurrentAssumption
  <2>3. QED BY <2>1, <2>2, CarriedCases DEF ConcurrentAssumption
<1>5. LastDayInv
  BY <1>2, <1>3 DEF LastDayInv, CacheAligned
<1>6. RequestOK(NoRequest)
  BY <1>1, <1>2 DEF RequestOK, NoRequest, TableOf, ConcurrentAssumption
<1>7. HandlerInv(NoRequest) /\ RowsInv(NoRequest)
  BY <1>1 DEF HandlerInv, RowsInv, NoRequest, ConcurrentAssumption, Statements, Recompute,
              Opened, Ranged, Merged, Started, Deleted, Inserting
<1>8. RangesOverLastDay(NoRequest) /\ ~NoRequest.alone
  BY DEF RangesOverLastDay, NoRequest, Ranged, Merged, Started, Deleted, Inserting
<1>9. ASSUME NEW w \in Workers PROVE WorkerInv(w)
  <2>1. request[w] = NoRequest
    BY <1>3
  <2>2. QED BY <1>6, <1>7, <1>8, <2>1 DEF WorkerInv, AloneInv
<1>10. TypeOK
  BY <1>2, <1>3, <1>4, <1>9 DEF TypeOK, WorkerInv
<1>11. request = [w \in Workers |-> request[w]]
  BY <1>3
<1>12. QED BY <1>5, <1>9, <1>10, <1>11 DEF IInv

-----------------------------------------------------------------------------
(* Every step keeps the invariant.                                         *)

\* A statement that changes no table, and a request that ends without committing.
LEMMA UncommittedStep ==
  ASSUME ConcurrentAssumption, IInv, NEW w \in Workers, NEW r, Advance(w, r), ~Idle(w),
         UNCHANGED <<tables, received>>, lastId' \in Nat, lastId <= lastId', WorkerInv(w)'
  PROVE  IInv'
<1>1. /\ request' = [v \in Workers |-> request'[v]]
      /\ \A v \in Others(w) : request'[v] = request[v]
  BY Advanced
<1>2. /\ TypeOK /\ LastDayInv /\ UNCHANGED <<materializedThrough, reconciliations, snapshots, currentBalanceCached>>
  BY DEF IInv, tables
<1>3. \A v \in Others(w) : WorkerInv(v)'
  BY <1>1, <1>2, OtherWorker
<1>4. \A v \in Workers : WorkerInv(v)'
  BY <1>3 DEF Others
<1>5. TypeOK'
  <2>1. TableOf(reconciliations, 1..lastId', Reconciliation)
    <3>1. 1..lastId \subseteq 1..lastId'
      BY <1>2 DEF TypeOK
    <3>2. QED BY <1>2, <3>1 DEF TypeOK, TableOf
  <2>2. QED BY <1>2, <1>4, <2>1 DEF TypeOK, WorkerInv
<1>6. LastDayInv'
  BY <1>2 DEF LastDayInv, LastDayMaterialized, CacheAligned, CarriedInto, Before
<1>7. QED BY <1>1, <1>4, <1>5, <1>6 DEF IInv

LEMMA StatementStep ==
  ASSUME ConcurrentAssumption, IInv, NEW w \in Workers,
         Statement(w) \/ DeadlockVictim(w) \/ Rollback(w)
  PROVE  IInv'
<1>0. lastId \in Nat /\ TypeOK
  BY DEF IInv, TypeOK
<1>1. CASE Insert(w)
  <2>1. WorkerInv(w)'
    BY <1>1, InsertStep
  <2>2. ~Idle(w) /\ UNCHANGED <<tables, received>> /\ lastId' = lastId + 1
    BY <1>1 DEF Insert, At, Idle
  <2>3. PICK r : Advance(w, r)
    BY <1>1, Zenon DEF Insert
  <2>4. QED BY <1>0, <2>1, <2>2, <2>3, UncommittedStep
<1>2. CASE Find(w)
  <2>1. WorkerInv(w)'
    BY <1>2, FindStep
  <2>2. ~Idle(w) /\ UNCHANGED <<tables, received>> /\ lastId' = lastId
    BY <1>2 DEF Find, At, Idle
  <2>3. PICK r : Advance(w, r)
    BY <1>2, Zenon DEF Find
  <2>4. QED BY <1>0, <2>1, <2>2, <2>3, UncommittedStep
<1>3. CASE Write(w)
  <2>1. WorkerInv(w)'
    BY <1>3, WriteStep
  <2>2. ~Idle(w) /\ UNCHANGED <<tables, received>> /\ lastId' = lastId
    BY <1>3 DEF Write, At, Idle
  <2>3. PICK r : Advance(w, r)
    BY <1>3, Zenon DEF Write
  <2>4. QED BY <1>0, <2>1, <2>2, <2>3, UncommittedStep
<1>4. CASE ReadPrevious(w)
  <2>1. WorkerInv(w)'
    BY <1>4, ReadPreviousStep
  <2>2. ~Idle(w) /\ UNCHANGED <<tables, received>> /\ lastId' = lastId
    BY <1>4 DEF ReadPrevious, At, Idle
  <2>3. PICK r : Advance(w, r)
    BY <1>4, Zenon DEF ReadPrevious
  <2>4. QED BY <1>0, <2>1, <2>2, <2>3, UncommittedStep
<1>5. CASE ReadLatestDay(w)
  <2>1. WorkerInv(w)'
    BY <1>5, ReadLatestDayStep
  <2>2. ~Idle(w) /\ UNCHANGED <<tables, received>> /\ lastId' = lastId
    BY <1>5 DEF ReadLatestDay, At, Idle
  <2>3. PICK r : Advance(w, r)
    BY <1>5, Zenon DEF ReadLatestDay
  <2>4. QED BY <1>0, <2>1, <2>2, <2>3, UncommittedStep
<1>6. CASE ReadLatestReconciliation(w)
  <2>1. WorkerInv(w)'
    BY <1>6, ReadLatestReconciliationStep
  <2>2. ~Idle(w) /\ UNCHANGED <<tables, received>> /\ lastId' = lastId
    BY <1>6 DEF ReadLatestReconciliation, At, Idle
  <2>3. PICK r : Advance(w, r)
    BY <1>6, Zenon DEF ReadLatestReconciliation
  <2>4. QED BY <1>0, <2>1, <2>2, <2>3, UncommittedStep
<1>7. CASE ReadEarliest(w)
  <2>1. WorkerInv(w)'
    BY <1>7, ReadEarliestStep
  <2>2. ~Idle(w) /\ UNCHANGED <<tables, received>> /\ lastId' = lastId
    BY <1>7 DEF ReadEarliest, At, Idle
  <2>3. PICK r : Advance(w, r)
    BY <1>7, Zenon DEF ReadEarliest
  <2>4. QED BY <1>0, <2>1, <2>2, <2>3, UncommittedStep
<1>8. CASE SelectRows(w)
  <2>1. WorkerInv(w)'
    BY <1>8, SelectRowsStep
  <2>2. ~Idle(w) /\ UNCHANGED <<tables, received>> /\ lastId' = lastId
    BY <1>8 DEF SelectRows, At, Idle
  <2>3. PICK r : Advance(w, r)
    BY <1>8, Zenon DEF SelectRows
  <2>4. QED BY <1>0, <2>1, <2>2, <2>3, UncommittedStep
<1>9. CASE DeleteRows(w)
  <2>1. WorkerInv(w)'
    BY <1>9, DeleteRowsStep
  <2>2. ~Idle(w) /\ UNCHANGED <<tables, received>> /\ lastId' = lastId
    BY <1>9 DEF DeleteRows, At, Idle
  <2>3. PICK r : Advance(w, r)
    BY <1>9, Zenon DEF DeleteRows
  <2>4. QED BY <1>0, <2>1, <2>2, <2>3, UncommittedStep
<1>10. CASE ReadSources(w)
  <2>1. WorkerInv(w)'
    BY <1>10, ReadSourcesStep
  <2>2. ~Idle(w) /\ UNCHANGED <<tables, received>> /\ lastId' = lastId
    BY <1>10 DEF ReadSources, At, Idle
  <2>3. PICK r : Advance(w, r)
    BY <1>10, Zenon DEF ReadSources
  <2>4. QED BY <1>0, <2>1, <2>2, <2>3, UncommittedStep
<1>11. CASE InsertRow(w)
  <2>1. WorkerInv(w)'
    BY <1>11, InsertRowStep
  <2>2. ~Idle(w) /\ UNCHANGED <<tables, received>> /\ lastId' = lastId
    BY <1>11 DEF InsertRow, At, Idle
  <2>3. PICK r : Advance(w, r)
    BY <1>11, Zenon DEF InsertRow
  <2>4. QED BY <1>0, <2>1, <2>2, <2>3, UncommittedStep
<1>12. CASE UniqueViolation(w)
  <2>1. /\ ~Idle(w) /\ UNCHANGED <<tables, received>> /\ lastId' = lastId
        /\ Advance(w, NoRequest)
    BY <1>12 DEF UniqueViolation, At, Idle
  <2>2. WorkerInv(w)'
    BY <1>0, <2>1, Advanced, EndedRequest
  <2>3. QED BY <1>0, <2>1, <2>2, UncommittedStep
<1>13. CASE RowsInserted(w)
  <2>1. WorkerInv(w)'
    BY <1>13, RowsInsertedStep
  <2>2. ~Idle(w) /\ UNCHANGED <<tables, received>> /\ lastId' = lastId
    BY <1>13 DEF RowsInserted, At, Idle
  <2>3. PICK r : Advance(w, r)
    BY <1>13, Zenon DEF RowsInserted
  <2>4. QED BY <1>0, <2>1, <2>2, <2>3, UncommittedStep
<1>14. CASE Commit(w)
  BY <1>14, CommitStep
<1>15. CASE DeadlockVictim(w)
  <2>1. WorkerInv(w)' /\ ~Idle(w)
    BY <1>15, DeadlockVictimStep, VictimWaits DEF DeadlockVictim
  <2>2. UNCHANGED <<tables, received>> /\ lastId' = lastId
    BY <1>15 DEF DeadlockVictim
  <2>3. PICK r : Advance(w, r)
    BY <1>15, Zenon DEF DeadlockVictim
  <2>4. QED BY <1>0, <2>1, <2>2, <2>3, UncommittedStep
<1>16. CASE Rollback(w)
  <2>1. /\ ~Idle(w) /\ UNCHANGED <<tables, received>> /\ lastId' = lastId
        /\ Advance(w, NoRequest)
    BY <1>16 DEF Rollback
  <2>2. WorkerInv(w)'
    BY <1>0, <2>1, Advanced, EndedRequest
  <2>3. QED BY <1>0, <2>1, <2>2, UncommittedStep
<1>17. QED
  BY <1>1, <1>2, <1>3, <1>4, <1>5, <1>6, <1>7, <1>8, <1>9, <1>10, <1>11, <1>12, <1>13, <1>14, <1>15, <1>16 DEF Statement

\* Nothing changes when nothing happens.
LEMMA StutterStep ==
  ASSUME IInv, UNCHANGED vars
  PROVE  IInv'
<1>1. /\ UNCHANGED <<materializedThrough, reconciliations, snapshots, currentBalanceCached>>
      /\ UNCHANGED <<lastId, received, request>>
  BY DEF vars, tables
<1>2. TypeOK'
  BY <1>1 DEF IInv, TypeOK, RequestOK
<1>3. LastDayInv'
  BY <1>1 DEF IInv, LastDayInv, LastDayMaterialized, CacheAligned, CarriedInto, Before
<1>4. ASSUME NEW w \in Workers PROVE WorkerInv(w)'
  <2>1. WorkerInv(w)
    BY DEF IInv
  <2>2. RequestOK(request[w])' /\ HandlerInv(request[w])' /\ RowsInv(request[w])'
    BY <1>1, <2>1 DEF WorkerInv, RequestOK, HandlerInv, RowsInv
  <2>3. RangesOverLastDay(request[w])'
    BY <1>1, <2>1 DEF WorkerInv, RangesOverLastDay, LastDayMaterialized
  <2>4. AloneInv(w)'
    <3>1. Seen(request[w])' = Seen(request[w])
      BY <1>1, SeenSame
    <3>2. CarriedInto(snapshots, request[w].affected)' = CarriedInto(snapshots, request[w].affected)
          /\ CarriedInto(snapshots, request[w].start)' = CarriedInto(snapshots, request[w].start)
      BY <1>1 DEF CarriedInto, Before
    <3>3. ReadsAreCurrent(request[w]) => ReadsAreCurrent(request[w])'
      BY <1>1, <3>1, <3>2 DEF ReadsAreCurrent
    <3>4. RowsAreCurrent(request[w]) => RowsAreCurrent(request[w])'
      BY <1>1, <3>1, <3>2 DEF RowsAreCurrent
    <3>5. QED BY <1>1, <2>1, <3>3, <3>4 DEF WorkerInv, AloneInv, Idle
  <2>5. QED BY <2>2, <2>3, <2>4 DEF WorkerInv
<1>5. QED BY <1>1, <1>2, <1>3, <1>4 DEF IInv

LEMMA InvStep ==
  ASSUME ConcurrentAssumption, IInv, [Next]_vars
  PROVE  IInv'
<1>1. CASE UNCHANGED vars
  BY <1>1, StutterStep
<1>2. CASE Next
  <2>1. PICK w \in Workers :
          \/ \E d \in Dates, t \in Targets : ReceiveCreate(w, d, t)
          \/ \E id \in DOMAIN reconciliations, d \in Dates \cup {NoDate}, t \in Targets \cup {NoTarget} :
               ReceiveUpdate(w, id, d, t)
          \/ \E id \in DOMAIN reconciliations : ReceiveDelete(w, id)
          \/ Statement(w)
          \/ DeadlockVictim(w)
          \/ Rollback(w)
    BY <1>2 DEF Next
  <2>2. CASE Statement(w) \/ DeadlockVictim(w) \/ Rollback(w)
    BY <2>2, StatementStep
  <2>3. CASE ~(Statement(w) \/ DeadlockVictim(w) \/ Rollback(w))
    BY <2>1, <2>3, ReceivedRequestsStep
  <2>4. QED BY <2>2, <2>3
<1>3. QED BY <1>1, <1>2

-----------------------------------------------------------------------------
(* A request that is alone repairs the timeline.                           *)

\* Two timelines with the same past carry the same balance.
LEMMA SamePastCarried ==
  ASSUME ConcurrentAssumption, NEW rows, NEW other, NEW d, NEW e,
         DOMAIN rows \subseteq Dates, Before(DOMAIN rows, d) = Before(DOMAIN other, e),
         \A f \in Before(DOMAIN rows, d) : rows[f] = other[f]
  PROVE  CarriedInto(rows, d) = CarriedInto(other, e)
<1>1. CASE Before(DOMAIN rows, d) = {}
  BY <1>1 DEF CarriedInto
<1>2. CASE Before(DOMAIN rows, d) # {}
  <2>1. Before(DOMAIN rows, d) \subseteq 0..MaxDate /\ MaxDate \in Nat
    BY DaysAreNumbers DEF Before, Dates
  <2>2. Max(Before(DOMAIN rows, d)) \in Before(DOMAIN rows, d)
    BY <1>2, <2>1, MaxOfInterval
  <2>3. QED BY <1>2, <2>2 DEF CarriedInto
<1>3. QED BY <1>1, <1>2

LEMMA AloneCommit ==
  ASSUME ConcurrentAssumption, IInv, NEW w \in Workers, request[w].alone, Commit(w)
  PROVE  /\ CacheAligned'
         /\ \A d \in DOMAIN snapshots' :
              d >= request[w].start => snapshots'[d].opening = CarriedInto(snapshots', d)
         /\ \A d \in ReconciledDays(reconciliations') :
              d >= request[w].start =>
                /\ d \in DOMAIN snapshots'
                /\ snapshots'[d].closing = reconciliations'[Effective(reconciliations', d)].target
<1> DEFINE r == request[w]
           S == Seen(r)
<1>1. /\ TypeOK /\ RequestOK(r) /\ ReadsAreCurrent(r) /\ RowsAreCurrent(r) /\ r.pc = "commit"
      /\ reconciliations' = S /\ currentBalanceCached' = r.opening
  BY DEF IInv, WorkerInv, AloneInv, Commit, At, Seen, NewCachedBalance
<1>2. /\ r.start \in Dates /\ r.start <= r.affected /\ r.affected \in Dates
      /\ r.through \in Dates \cup {NoDate} /\ (r.through = NoDate \/ r.affected <= r.through)
      /\ DOMAIN r.rows = r.start .. r.through
      /\ r.through # NoDate => r.through \in DOMAIN r.rows
                               /\ r.rows[r.through].closing = r.opening
  BY RowsPublished DEF Commit
<1>3. /\ DOMAIN snapshots' = (DOMAIN snapshots \ r.deleted) \cup DOMAIN r.rows
      /\ DOMAIN snapshots' \subseteq Dates /\ DOMAIN snapshots \subseteq Dates
      /\ \A d \in DOMAIN r.rows : snapshots'[d] = r.rows[d]
      /\ \A d \in DOMAIN snapshots' : d \notin DOMAIN r.rows => snapshots'[d] = snapshots[d]
  BY <1>1, CommittedTables, SnapshotDays DEF TableOf
<1> HIDE DEF r, S
<1>4. /\ r.deleted = From(DOMAIN snapshots, r.start)
      /\ \A d \in DOMAIN snapshots : d >= r.affected => d <= r.through
      /\ \A d \in ReconciledDays(S) : d >= r.affected => d <= r.through
      /\ r.start = r.affected \/ (r.through # NoDate /\ Before(DOMAIN snapshots, r.affected) = {})
  BY <1>1 DEF ReadsAreCurrent, Ranged, Merged, Started, Deleted, Inserting, S
<1>5. /\ DOMAIN r.rows = {} => r.opening = CarriedInto(snapshots, r.start)
      /\ \A d \in DOMAIN r.rows :
           /\ r.rows[d].opening =
                IF d = r.start THEN CarriedInto(snapshots, r.start) ELSE r.rows[d - 1].closing
           /\ Reconciled(S, d) => r.rows[d].closing = S[Effective(S, d)].target
  BY <1>1 DEF RowsAreCurrent, Inserting, S
<1>6. /\ r.start \in Nat /\ r.affected \in Nat /\ r.through \in Nat /\ r.start > 0 /\ MaxDate \in Nat
      /\ r.through <= MaxDate
  BY <1>2, DaysAreNumbers
<1>7. DOMAIN snapshots' = Before(DOMAIN snapshots, r.start) \cup (r.start .. r.through)
  <2>1. DOMAIN snapshots \ r.deleted = Before(DOMAIN snapshots, r.start)
    <3>1. \A d \in DOMAIN snapshots : d \in Nat
      BY <1>3, DaysAreNumbers
    <3>2. QED BY <1>4, <1>6, <3>1 DEF From, Before
  <2>2. QED BY <1>2, <1>3, <2>1
<1>8. /\ Before(DOMAIN snapshots', r.start) = Before(DOMAIN snapshots, r.start)
      /\ \A d \in Before(DOMAIN snapshots', r.start) : snapshots'[d] = snapshots[d]
  <2>1. \A d \in DOMAIN snapshots : d \in Nat
    BY <1>3, DaysAreNumbers
  <2>2. Before(DOMAIN snapshots', r.start) = Before(DOMAIN snapshots, r.start)
    BY <1>6, <1>7, <2>1 DEF Before
  <2>3. \A d \in Before(DOMAIN snapshots', r.start) : d \in DOMAIN snapshots' /\ d \notin r.start .. r.through
    <3>1. \A d \in DOMAIN snapshots' : d \in Nat
      BY <1>3, DaysAreNumbers
    <3>2. QED BY <1>6, <3>1 DEF Before
  <2>4. QED BY <1>2, <1>3, <2>2, <2>3
<1>9. CarriedInto(snapshots', r.start) = CarriedInto(snapshots, r.start)
  <2> DEFINE new == snapshots'
             start == r.start
  <2>1. /\ DOMAIN new \subseteq Dates
        /\ Before(DOMAIN new, start) = Before(DOMAIN snapshots, start)
        /\ \A d \in Before(DOMAIN new, start) : new[d] = snapshots[d]
    BY <1>3, <1>8
  <2>2. CarriedInto(new, start) = CarriedInto(snapshots, start)
    <3> HIDE DEF new, start
    <3>1. QED BY <2>1, SamePastCarried
  <2>3. QED BY <2>2
<1>10. CacheAligned'
  <2>1. CarriedInto(snapshots, MaxDate + 1)' = CarriedInto(snapshots', MaxDate + 1)
    BY DEF CarriedInto, Before
  <2>2. CASE r.through = NoDate
    <3>1. r.start .. r.through = {}
      BY <1>6, <2>2 DEF NoDate
    <3>2. Before(DOMAIN snapshots', MaxDate + 1) = Before(DOMAIN snapshots, r.start)
      <4>1. \A d \in DOMAIN snapshots' : d \in Nat /\ d <= MaxDate
        BY <1>3, DaysAreNumbers
      <4>2. Before(DOMAIN snapshots', MaxDate + 1) = DOMAIN snapshots'
        BY <1>6, <4>1 DEF Before
      <4>3. QED BY <1>7, <3>1, <4>2
    <3>3. CarriedInto(snapshots', MaxDate + 1) = CarriedInto(snapshots, r.start)
      BY <1>3, <1>8, <3>2, SamePastCarried
    <3>4. QED BY <1>1, <1>2, <1>5, <2>1, <3>1, <3>3 DEF CacheAligned
  <2>3. CASE r.through # NoDate
    <3>1. r.through \in DOMAIN snapshots' /\ snapshots'[r.through].closing = r.opening
      BY <1>2, <1>3, <2>3
    <3>2. \A e \in DOMAIN snapshots' : e <= r.through
      <4>1. \A e \in DOMAIN snapshots : e \in Nat
        BY <1>3, DaysAreNumbers
      <4>2. r.start <= r.through
        BY <1>2, <1>6, <2>3
      <4>3. QED BY <1>6, <1>7, <4>1, <4>2 DEF Before
    <3>3. MaxDate + 1 \in Nat /\ r.through < MaxDate + 1
      BY <1>6
    <3>4. CarriedInto(snapshots', MaxDate + 1) = snapshots'[r.through].closing
      BY <1>3, <3>1, <3>2, <3>3, CarriedAfterRow
    <3>5. QED BY <1>1, <2>1, <3>1, <3>4 DEF CacheAligned
  <2>4. QED BY <2>2, <2>3
<1>11. ASSUME NEW d \in DOMAIN snapshots', d >= r.start
       PROVE  snapshots'[d].opening = CarriedInto(snapshots', d)
  <2>1. d \in r.start .. r.through /\ d \in Nat
    <3>1. d \in Nat
      BY <1>3, DaysAreNumbers
    <3>2. d \notin Before(DOMAIN snapshots, r.start)
      BY <1>6, <1>11, <3>1 DEF Before
    <3>3. QED BY <1>7, <3>1, <3>2
  <2>2. CASE d = r.start
    BY <1>2, <1>3, <1>5, <1>9, <2>1, <2>2
  <2>3. CASE d # r.start
    <3>1. d - 1 \in r.start .. r.through /\ d - 1 \in Nat /\ d - 1 < d
      BY <1>6, <2>1, <2>3
    <3>2. d - 1 \in DOMAIN snapshots' /\ \A e \in DOMAIN snapshots' : e < d => e <= d - 1
      <4>1. \A e \in DOMAIN snapshots' : e \in Nat
        BY <1>3, DaysAreNumbers
      <4>2. QED BY <1>7, <2>1, <3>1, <4>1
    <3>3. CarriedInto(snapshots', d) = snapshots'[d - 1].closing
      BY <1>3, <2>1, <3>1, <3>2, CarriedAfterRow
    <3>4. QED BY <1>2, <1>3, <1>5, <2>1, <2>3, <3>1, <3>3
  <2>4. QED BY <2>2, <2>3
<1>12. ASSUME NEW d \in ReconciledDays(S), d >= r.start
       PROVE  d \in DOMAIN snapshots' /\ snapshots'[d].closing = S[Effective(S, d)].target
  <2>1. d \in Dates /\ d \in Nat
    BY <1>1, SeenDays, DaysAreNumbers DEF S
  <2>2. d <= r.through
    <3>1. CASE d >= r.affected
      BY <1>4, <3>1
    <3>2. CASE d < r.affected
      BY <1>2, <1>4, <1>6, <1>12, <2>1, <3>2
    <3>3. QED BY <1>6, <2>1, <3>1, <3>2
  <2>3. d \in r.start .. r.through
    BY <1>6, <1>12, <2>1, <2>2
  <2>4. Reconciled(S, d)
    BY DEF Reconciled, OnDay, ReconciledDays
  <2>5. QED BY <1>2, <1>3, <1>5, <1>7, <2>3, <2>4
<1>13. QED BY <1>1, <1>10, <1>11, <1>12 DEF r

-----------------------------------------------------------------------------
(* The theorems.                                                           *)

\* The inductive invariant holds in every reachable state.
THEOREM InductiveInvariant == Spec => []IInv
<1>1. Init => IInv
  BY ConcurrentAssumption, InitInv
<1>2. IInv /\ [Next]_vars => IInv'
  BY ConcurrentAssumption, InvStep
<1>3. QED BY <1>1, <1>2, PTL DEF Spec

\* The tables, and what every open transaction has read and written, stay well typed.
THEOREM TypeCorrect == Spec => []TypeOK
<1>1. IInv => TypeOK
  BY DEF IInv
<1>2. QED BY <1>1, InductiveInvariant, PTL

\* Once an account is materialised through its last day, currentBalanceCached is the
\* closing of its latest snapshot whatever requests overlap.
THEOREM LastDayAlignsCache == Spec => []CacheAlignedBehindLastDay
<1>1. IInv => CacheAlignedBehindLastDay
  BY DEF IInv, LastDayInv, CacheAlignedBehindLastDay
<1>2. QED BY <1>1, InductiveInvariant, PTL

\* There no materialised day is lost either.
THEOREM LastDayKeepsDays == Spec => SnapshotsNeverVanish
<1>1. IInv /\ [Next]_vars =>
        [LastDayMaterialized => DOMAIN snapshots \subseteq DOMAIN snapshots']_vars
  <2>1. SUFFICES ASSUME IInv, Next, LastDayMaterialized
                 PROVE  DOMAIN snapshots \subseteq DOMAIN snapshots'
    OBVIOUS
  <2>2. CASE \E w \in Workers : Commit(w)
    BY <2>1, <2>2, ConcurrentAssumption, CommitLastDay
  <2>3. CASE ~ \E w \in Workers : Commit(w)
    <3>1. snapshots' = snapshots
      BY <2>1, <2>3 DEF Next, Statement, ReceiveCreate, ReceiveUpdate, ReceiveDelete, Receive, Insert,
           Find, Write, ReadPrevious, ReadLatestDay, ReadLatestReconciliation, ReadEarliest, SelectRows,
           DeleteRows, ReadSources, InsertRow, UniqueViolation, RowsInserted, DeadlockVictim, Rollback,
           tables
    <3>2. QED BY <3>1
  <2>4. QED BY <2>2, <2>3
<1>2. QED BY <1>1, InductiveInvariant, PTL DEF Spec, SnapshotsNeverVanish

\* A request that overlaps no other one leaves a chained timeline that meets its
\* targets from its first recomputed day on, and its last closing in the cache, on
\* whatever tables the requests before it left.
THEOREM AloneRepairs == Spec => AloneRealigns
<1> DEFINE Repairs ==
      \A w \in Workers : request[w].alone /\ Commit(w) =>
        LET start == request[w].start
        IN  /\ CacheAligned'
            /\ \A d \in DOMAIN snapshots' :
                 d >= start => snapshots'[d].opening = CarriedInto(snapshots', d)
            /\ \A d \in ReconciledDays(reconciliations') :
                 d >= start =>
                   /\ d \in DOMAIN snapshots'
                   /\ snapshots'[d].closing = reconciliations'[Effective(reconciliations', d)].target
<1>1. IInv => [Repairs]_vars
  BY ConcurrentAssumption, AloneCommit
<1>2. QED BY <1>1, InductiveInvariant, PTL DEF AloneRealigns
=============================================================================
