---------------------- MODULE AccountBalancesConcurrent ----------------------
(***************************************************************************)
(* The same requests as AccountBalances, interleaved: each worker runs one *)
(* at a time, in a PostgreSQL transaction at the default READ COMMITTED    *)
(* level, one SQL statement per step.  A statement sees what is committed  *)
(* when it starts plus the worker's own writes; a row written by an open   *)
(* transaction makes other writers of that row wait for its end.           *)
(***************************************************************************)
EXTENDS BalanceCalendar, Relation

CONSTANTS
  Workers,            \* request handlers running at the same time
  NoTarget,           \* a target balance left out of a PATCH body
  NetFlow,            \* day -> net amount of its transactions, which do not change here
  Starts,             \* last days that may be materialised at the start, or NoDate
  MaxRequests,        \* bound on the requests ever received
  RetryLimit          \* TRANSACTION_RETRY_LIMIT

ASSUME ConcurrentAssumption ==
  /\ MaxDate \in Nat \ {0}
  /\ Targets \subseteq Int /\ NoTarget \notin Targets
  /\ InitialBalance \in Int
  /\ NetFlow \in [Dates -> Int]
  /\ Starts \subseteq Dates \cup {NoDate}
  /\ MaxRequests \in Nat \ {0}
  /\ RetryLimit \in Nat

VARIABLES
  materializedThrough,   \* last day materialised at the start, or NoDate; it never changes
  reconciliations,       \* committed rows, as in AccountBalances
  snapshots,             \* committed rows: day -> opening and closing
  currentBalanceCached,
  lastId,
  received,              \* requests received so far
  request                \* worker -> the request it is running

tables == <<materializedThrough, reconciliations, snapshots, currentBalanceCached>>
vars == <<tables, lastId, received, request>>

\* A request: what was asked, where the handler is, and what its transaction has
\* read, written and locked.
NoRequest ==
  [pc |-> "idle", op |-> "none", id |-> 0, date |-> NoDate, target |-> NoTarget,
   attempt |-> 0, alone |-> FALSE,
   found |-> NoDate, own |-> EmptyTable, removed |-> {},
   affected |-> NoDate, opening |-> InitialBalance, previous |-> FALSE,
   through |-> NoDate, start |-> NoDate, seen |-> {}, deleted |-> {},
   sources |-> EmptyTable, cursor |-> NoDate, rows |-> EmptyTable]

TransactionDays == {d \in Dates : NetFlow[d] # 0}

\* The reconciliations once the request's own writes are applied.
Written(r) ==
  [i \in (DOMAIN reconciliations \ r.removed) \cup DOMAIN r.own |->
     IF i \in DOMAIN r.own THEN r.own[i] ELSE reconciliations[i]]

\* Faulty variant: a query that is not given the transaction's client.
SeenOutside(r) == reconciliations

\* The reconciliations as a statement of the transaction sees them.
Seen(r) == Written(r)

Closing(R, d, b) == IF Reconciled(R, d) THEN R[Effective(R, d)].target ELSE b + NetFlow[d]

\* The timeline one create request leaves on a fresh account.
FirstTimeline(R, last) ==
  LET first == Min({d \in TransactionDays : d <= last} \cup {last})
      row[d \in first..last] ==
        LET b == IF d = first THEN InitialBalance ELSE row[d - 1].closing
        IN  [opening |-> b, closing |-> Closing(R, d, b)]
  IN  [d \in first..last |-> row[d]]

Init ==
  /\ materializedThrough \in Starts
  /\ IF materializedThrough = NoDate
     THEN /\ reconciliations = EmptyTable
          /\ snapshots = EmptyTable
          /\ lastId = 0
     ELSE /\ \E t \in Targets :
               reconciliations = [i \in {1} |-> [date |-> materializedThrough, target |-> t]]
          /\ snapshots = FirstTimeline(reconciliations, Max(TransactionDays \cup {materializedThrough}))
          /\ lastId = 1
  /\ currentBalanceCached = CarriedInto(snapshots, MaxDate + 1)
  /\ received = lastId     \* the request that materialised it counts
  /\ request = [w \in Workers |-> NoRequest]
-----------------------------------------------------------------------------
(* Receiving a request.                                                    *)

Others(w) == Workers \ {w}
Idle(w)   == request[w].pc = "idle"

\* alone: no other request runs between this one's first statement and its end.
Receive(w, asked) ==
  /\ Idle(w)
  /\ received < MaxRequests
  /\ received' = received + 1
  /\ request' = [v \in Workers |->
       IF v = w THEN [asked EXCEPT !.alone = \A u \in Others(w) : Idle(u)]
       ELSE [request[v] EXCEPT !.alone = FALSE]]
  /\ UNCHANGED <<tables, lastId>>

ReceiveCreate(w, d, t) ==
  Receive(w, [NoRequest EXCEPT !.pc = "start", !.op = "create", !.date = d, !.target = t])

\* A field left out of the PATCH body keeps its stored value.
ReceiveUpdate(w, id, d, t) ==
  Receive(w, [NoRequest EXCEPT !.pc = "start", !.op = "update", !.id = id, !.date = d, !.target = t])

ReceiveDelete(w, id) ==
  Receive(w, [NoRequest EXCEPT !.pc = "start", !.op = "delete", !.id = id])

-----------------------------------------------------------------------------
(* The handler's first statements: find the reconciliation and write it.   *)

At(w, pc)   == request[w].pc = pc
Advance(w, r) == request' = [request EXCEPT ![w] = r]

Insert(w) ==
  /\ At(w, "start") /\ request[w].op = "create"
  /\ lastId' = lastId + 1
  /\ Advance(w, [request[w] EXCEPT
       !.pc = "previous", !.id = lastId + 1, !.affected = request[w].date,
       !.own = [i \in {lastId + 1} |-> [date |-> request[w].date, target |-> request[w].target]]])
  /\ UNCHANGED <<tables, received>>

\* findReconciliationOrThrow: a missing row ends the request with a 404.
Find(w) ==
  /\ At(w, "start") /\ request[w].op # "create"
  /\ IF request[w].id \in DOMAIN reconciliations
     THEN Advance(w, [request[w] EXCEPT !.pc = "write",
                        !.found = reconciliations[request[w].id].date])
     ELSE Advance(w, NoRequest)
  /\ UNCHANGED <<tables, lastId, received>>

LocksReconciliation(v, id) == id \in DOMAIN request[v].own \cup request[v].removed

\* The write waits for the row's lock, then applies to the row as committed by then;
\* if it is gone the statement fails.
Write(w) ==
  LET r   == request[w]
      id  == r.id
      row == [date |-> IF r.date = NoDate THEN reconciliations[id].date ELSE r.date,
              target |-> IF r.target = NoTarget THEN reconciliations[id].target ELSE r.target]
  IN  /\ At(w, "write")
      /\ \A v \in Others(w) : ~LocksReconciliation(v, id)
      /\ \/ /\ id \notin DOMAIN reconciliations
            /\ Advance(w, NoRequest)
         \/ /\ id \in DOMAIN reconciliations
            /\ r.op = "update"
            /\ Advance(w, [r EXCEPT !.pc = "previous", !.own = [i \in {id} |-> row],
                 !.affected = IF r.date = NoDate THEN r.found ELSE Min({r.found, r.date})])
         \/ /\ id \in DOMAIN reconciliations
            /\ r.op = "delete"
            /\ Advance(w, [r EXCEPT !.pc = "previous", !.removed = {id}, !.affected = r.found])
      /\ UNCHANGED <<tables, lastId, received>>

-----------------------------------------------------------------------------
(* recomputeFromDate, statement by statement.                              *)

ReadPrevious(w) ==
  /\ At(w, "previous")
  /\ Advance(w, [request[w] EXCEPT !.pc = "latest day",
       !.opening = CarriedInto(snapshots, request[w].affected),
       !.previous = Before(DOMAIN snapshots, request[w].affected) # {}])
  /\ UNCHANGED <<tables, lastId, received>>

\* Faulty variant: the end of the range is taken as exclusive.
DayAfter(days) == IF days = {} THEN NoDate ELSE Max(days) + 1

Latest(days) == IF days = {} THEN NoDate ELSE Max(days)

\* The latest snapshot and the latest transaction from the affected day on.
ReadLatestDay(w) ==
  /\ At(w, "latest day")
  /\ Advance(w, [request[w] EXCEPT !.pc = "latest reconciliation",
       !.through = Latest(From(DOMAIN snapshots \cup TransactionDays, request[w].affected))])
  /\ UNCHANGED <<tables, lastId, received>>

\* Faulty variant: the latest reconciliation replaces the latest day instead of extending it.
ReadLatestReconciliationOnly(w) ==
  /\ At(w, "latest reconciliation")
  /\ Advance(w, [request[w] EXCEPT !.pc = "earliest",
       !.through = Latest(From(ReconciledDays(Seen(request[w])), request[w].affected))])
  /\ UNCHANGED <<tables, lastId, received>>

ReadLatestReconciliation(w) ==
  /\ At(w, "latest reconciliation")
  /\ Advance(w, [request[w] EXCEPT !.pc = "earliest",
       !.through = Max({@, Latest(From(ReconciledDays(Seen(request[w])), request[w].affected))})])
  /\ UNCHANGED <<tables, lastId, received>>

ReadEarliest(w) ==
  LET r == request[w]
      sources == {d \in TransactionDays \cup ReconciledDays(Seen(r)) : d <= r.through}
  IN  /\ At(w, "earliest")
      /\ Advance(w, [r EXCEPT !.pc = "delete",
           !.start = IF r.previous \/ sources = {} THEN r.affected
                     ELSE Min(sources \cup {r.affected})])
      /\ UNCHANGED <<tables, lastId, received>>

\* deleteMany picks its rows when it starts; a row inserted later is not among them.
SelectRows(w) ==
  /\ At(w, "delete")
  /\ Advance(w, [request[w] EXCEPT !.pc = "deleting",
       !.seen = From(DOMAIN snapshots, request[w].start)])
  /\ UNCHANGED <<tables, lastId, received>>

\* It waits for the rows that others are deleting, and skips those that are gone.
DeleteRows(w) ==
  /\ At(w, "deleting")
  /\ \A v \in Others(w) : request[v].deleted \cap request[w].seen = {}
  /\ Advance(w, [request[w] EXCEPT
       !.pc = IF request[w].through = NoDate THEN "commit" ELSE "sources",
       !.deleted = request[w].seen, !.seen = {}])
  /\ UNCHANGED <<tables, lastId, received>>

ReadSources(w) ==
  LET r == request[w]
      R == Seen(r)
  IN  /\ At(w, "sources")
      /\ Advance(w, [r EXCEPT !.pc = "insert", !.cursor = r.start,
           !.sources = Restrict(R, {i \in DOMAIN R : R[i].date \in r.start .. r.through})])
      /\ UNCHANGED <<tables, lastId, received>>

\* A unique (accountId, date) entry held by an open transaction, deleted or inserted.
HeldByOther(w, d) == {v \in Others(w) : d \in request[v].deleted \cup DOMAIN request[v].rows}

Taken(w, d) == d \in DOMAIN snapshots \ request[w].deleted

\* createMany, row by row, each row opening at the closing of the one before it.
InsertRow(w) ==
  LET r == request[w]
      d == r.cursor
      row == [opening |-> r.opening, closing |-> Closing(r.sources, d, r.opening)]
  IN  /\ At(w, "insert")
      /\ d <= r.through
      /\ HeldByOther(w, d) = {}
      /\ ~Taken(w, d)
      /\ Advance(w, [r EXCEPT !.opening = row.closing, !.cursor = d + 1,
           !.rows = [e \in DOMAIN r.rows \cup {d} |-> IF e = d THEN row ELSE r.rows[e]]])
      /\ UNCHANGED <<tables, lastId, received>>

\* A second row for the day: P2002, which runWithRetry does not retry.
UniqueViolation(w) ==
  /\ At(w, "insert")
  /\ request[w].cursor <= request[w].through
  /\ HeldByOther(w, request[w].cursor) = {}
  /\ Taken(w, request[w].cursor)
  /\ Advance(w, NoRequest)
  /\ UNCHANGED <<tables, lastId, received>>

RowsInserted(w) ==
  /\ At(w, "insert")
  /\ request[w].cursor > request[w].through
  /\ Advance(w, [request[w] EXCEPT !.pc = "commit"])
  /\ UNCHANGED <<tables, lastId, received>>

\* Faulty variant: the balance before the last day's movements.
OpeningOfLastDay(r) == IF DOMAIN r.rows = {} THEN r.opening ELSE r.rows[r.through].opening

\* The closing of the last row, or the carried balance when no row was built.
NewCachedBalance(r) == r.opening

\* updateAccountCurrentBalance (the last writer wins) and COMMIT.  The rows deleted
\* here are gone for the deleteMany statements that wait for them.
Commit(w) ==
  LET r == request[w]
      kept == DOMAIN snapshots \ r.deleted
  IN  /\ At(w, "commit")
      /\ reconciliations' = Written(r)
      /\ snapshots' = [d \in kept \cup DOMAIN r.rows |->
                         IF d \in DOMAIN r.rows THEN r.rows[d] ELSE snapshots[d]]
      /\ currentBalanceCached' = NewCachedBalance(r)
      /\ request' = [v \in Workers |->
           IF v = w THEN NoRequest ELSE [request[v] EXCEPT !.seen = @ \ r.deleted]]
      /\ UNCHANGED <<materializedThrough, lastId, received>>

\* A lost connection, the transaction timeout or a crash rolls the transaction back.
Rollback(w) ==
  /\ ~Idle(w)
  /\ Advance(w, NoRequest)
  /\ UNCHANGED <<tables, lastId, received>>

-----------------------------------------------------------------------------
(* Waiting, and the database's deadlock detector.                          *)

WaitsFor(w, v) ==
  /\ v # w
  /\ \/ At(w, "write") /\ LocksReconciliation(v, request[w].id)
     \/ At(w, "deleting") /\ request[v].deleted \cap request[w].seen # {}
     \/ At(w, "insert") /\ request[w].cursor <= request[w].through
          /\ v \in HeldByOther(w, request[w].cursor)

\* A transaction that w waits for waits, itself or through others, for w.
WaitCycle(w) ==
  LET waits == TransitiveClosure([p \in Workers \X Workers |-> WaitsFor(p[1], p[2])], Workers)
  IN  \E v \in Others(w) : WaitsFor(w, v) /\ waits[<<v, w>>]

\* Faulty variant: nobody breaks a cycle of waiting transactions.
NoDeadlockDetector(w) == FALSE /\ UNCHANGED vars

\* The victim fails with P2034: runWithRetry repeats the request, RetryLimit times.
\* (A failure reported under another code ends the request: Rollback.)
DeadlockVictim(w) ==
  LET r == request[w]
      again == [NoRequest EXCEPT !.pc = "start", !.op = r.op, !.date = r.date, !.target = r.target,
                  !.id = IF r.op = "create" THEN 0 ELSE r.id, !.attempt = r.attempt + 1]
  IN  /\ WaitCycle(w)
      /\ Advance(w, IF r.attempt < RetryLimit THEN again ELSE NoRequest)
      /\ UNCHANGED <<tables, lastId, received>>

Statement(w) ==
  \/ Insert(w) \/ Find(w) \/ Write(w)
  \/ ReadPrevious(w) \/ ReadLatestDay(w) \/ ReadLatestReconciliation(w) \/ ReadEarliest(w)
  \/ SelectRows(w) \/ DeleteRows(w) \/ ReadSources(w)
  \/ InsertRow(w) \/ UniqueViolation(w) \/ RowsInserted(w) \/ Commit(w)

Next ==
  \E w \in Workers :
    \/ \E d \in Dates, t \in Targets : ReceiveCreate(w, d, t)
    \/ \E id \in DOMAIN reconciliations, d \in Dates \cup {NoDate}, t \in Targets \cup {NoTarget} :
         ReceiveUpdate(w, id, d, t)
    \/ \E id \in DOMAIN reconciliations : ReceiveDelete(w, id)
    \/ Statement(w)
    \/ DeadlockVictim(w)
    \/ Rollback(w)

\* The database runs every statement that is not waiting, and breaks every cycle
\* of waiting transactions.  New requests and failures are not forced.
Fairness == \A w \in Workers : WF_vars(Statement(w)) /\ WF_vars(DeadlockVictim(w))

Spec == Init /\ [][Next]_vars /\ Fairness
-----------------------------------------------------------------------------
(* Properties.                                                             *)

TimelineRow == [opening : Int, closing : Int]

TableOf(f, Keys, Values) == DOMAIN f \subseteq Keys /\ f \in [DOMAIN f -> Values]

RequestOK(r) ==
  /\ r.id \in 0..lastId /\ r.attempt \in 0..RetryLimit
  /\ {r.date, r.found, r.affected, r.through, r.start} \subseteq Dates \cup {NoDate}
  /\ r.target \in Targets \cup {NoTarget}
  /\ r.seen \cup r.deleted \subseteq Dates
  /\ TableOf(r.own, 1..lastId, Reconciliation) /\ TableOf(r.sources, 1..lastId, Reconciliation)
  /\ TableOf(r.rows, r.start .. r.through, TimelineRow)

\* The tables hold values of their columns; so does what a request has read and written.
TypeOK ==
  /\ materializedThrough \in Starts
  /\ lastId \in Nat
  /\ TableOf(reconciliations, 1..lastId, Reconciliation)
  /\ TableOf(snapshots, Dates, TimelineRow)
  /\ currentBalanceCached \in Int
  /\ received \in 0..MaxRequests
  /\ \A w \in Workers : RequestOK(request[w])

\* The cached balance is the closing of the latest committed snapshot.
CacheAligned == currentBalanceCached = CarriedInto(snapshots, MaxDate + 1)

\* A reconciled day is materialised and closes at the target of the newest
\* reconciliation of that day.
ReconciledDaysCloseAtTarget ==
  \A d \in ReconciledDays(reconciliations) :
    d \in DOMAIN snapshots /\ snapshots[d].closing = reconciliations[Effective(reconciliations, d)].target

\* An account materialised through its last day: every recompute deletes that day's
\* row, so the deletions serialise the recomputes.
LastDayMaterialized == materializedThrough = MaxDate

\* There the cached balance stays the closing of the latest committed snapshot,
\* whatever requests overlap.
CacheAlignedBehindLastDay == LastDayMaterialized => CacheAligned

\* There a materialised day stays materialised, whatever requests overlap.
SnapshotsNeverVanish ==
  [][LastDayMaterialized => DOMAIN snapshots \subseteq DOMAIN snapshots']_vars

\* A request that overlaps no other one repairs what overlapping requests left
\* behind, from its first recomputed day on: the rows are chained, reconciled days
\* close at their targets and the cached balance is the last closing again.
AloneRealigns ==
  [][\A w \in Workers : request[w].alone /\ Commit(w) =>
       LET start == request[w].start
       IN  /\ CacheAligned'
           /\ \A d \in DOMAIN snapshots' :
                d >= start => snapshots'[d].opening = CarriedInto(snapshots', d)
           /\ \A d \in ReconciledDays(reconciliations') :
                d >= start =>
                  /\ d \in DOMAIN snapshots'
                  /\ snapshots'[d].closing = reconciliations'[Effective(reconciliations', d)].target]_vars

\* No request waits for ever on the locks of the others.
RequestsEnd == \A w \in Workers : ~Idle(w) ~> Idle(w)
=============================================================================
