------------------------ MODULE WorkspaceFilesProofs ------------------------
(***************************************************************************)
(* Proofs about WorkspaceFiles, for any number of workers, jobs, files and *)
(* any size of the batch.  The safety properties are not inductive: that   *)
(* the job takes only what is deleted depends on deletedAt never becoming  *)
(* null again while a file is in a batch, and that a row outlives its      *)
(* object on no upload bringing the object back between the job's steps.   *)
(***************************************************************************)
EXTENDS WorkspaceFiles, FiniteSetsExt, FiniteSetTheorems, WellFoundedInduction, TLAPS

-----------------------------------------------------------------------------
(* Least and greatest members of sets of naturals.                         *)

Earlier == {p \in Nat \X Nat : p[1] < p[2]}

LEMMA EarlierWellFounded == IsWellFoundedOn(Earlier, Nat)
  BY NatLessThanWellFounded DEF OpToRel, Earlier

\* Min of a non-empty set of naturals is its least element.
LEMMA MinOfNaturals ==
  ASSUME NEW S, S \subseteq Nat, S # {}
  PROVE  Min(S) \in S /\ \A y \in S : Min(S) <= y
<1>1. PICK x \in S : \A y \in S : ~(<<y, x>> \in Earlier)
  BY EarlierWellFounded, WFMin, Zenon
<1>2. ASSUME NEW y \in S PROVE x <= y
  <2>1. y < x => <<y, x>> \in Earlier
    BY DEF Earlier
  <2>2. ~(<<y, x>> \in Earlier)
    BY <1>1
  <2>3. x \in Nat /\ y \in Nat
    OBVIOUS
  <2>4. QED BY <2>1, <2>2, <2>3
<1>3. QED BY <1>2 DEF Min

\* Max of a non-empty set of naturals up to N is its greatest element.
LEMMA MaxOfInterval ==
  ASSUME NEW N \in Nat, NEW S, S \subseteq 0..N, S # {}
  PROVE  Max(S) \in S /\ \A y \in S : Max(S) >= y
<1> DEFINE T == {N - y : y \in S}
<1>1. T \subseteq Nat /\ T # {}
  <2>1. ASSUME NEW y \in S PROVE N - y \in Nat
    <3>1. y \in Int /\ 0 <= y /\ y <= N
      OBVIOUS
    <3>2. QED BY <3>1
  <2>2. PICK y \in S : TRUE
    OBVIOUS
  <2>3. QED BY <2>1, <2>2
<1>2. Min(T) \in T /\ \A t \in T : Min(T) <= t
  BY <1>1, MinOfNaturals
<1>3. PICK x \in S : Min(T) = N - x
  BY <1>2
<1>4. \A y \in S : x >= y
  <2>1. SUFFICES ASSUME NEW y \in S PROVE x >= y
    OBVIOUS
  <2>2. N - y \in T
    OBVIOUS
  <2>3. N - x <= N - y
    BY <1>2, <1>3, <2>2
  <2>4. QED BY <2>3
<1>5. QED BY <1>4 DEF Max

-----------------------------------------------------------------------------
(* The inductive invariants.                                               *)

Uploading(w) == At(w, "put") \/ At(w, "create") \/ At(w, "rollback")

\* A file being uploaded is nobody else's upload, has no row and no deletion yet (or, when
\* its creation failed, a row in doubt), and its object once it is stored.
UploadsInv ==
  \A w \in Workers :
    /\ Uploading(w) => \A v \in Workers \ {w} : Uploading(v) => request[v].file # request[w].file
    /\ At(w, "put") \/ At(w, "create") =>
         request[w].file \notin rows /\ deletedAt[request[w].file] = Never
    /\ At(w, "create") => request[w].file \in objects
    /\ At(w, "rollback") /\ request[w].file \in rows => request[w].file \in doubtful

\* What has ever been deleted was uploaded.
DeletedInv == \A f \in Files : deletedAt[f] # Never => f <= uploads

\* A file in a batch is past its retention, and stays so: no deletion of it is under way.
BatchesInv ==
  /\ \A j \in Jobs : \A r \in job[j].batch : deletedAt[r.file] \in 1..cutoff
  /\ \A w \in Workers : At(w, "mark") => deletedAt[request[w].file] \notin 1..cutoff

\* Before its row goes the object has gone, and has not come back.
RowsInv == \A j \in Jobs : Working(j, "row") => Current(j) \notin objects

\* An object without a row belongs to an upload under way, or to a failed one.
OrphansInv == objects \ rows \subseteq leftover \cup {request[w].file : w \in {v \in Workers : Uploading(v)}}

BatchesFinite == \A j \in Jobs : IsFiniteSet(job[j].batch)

IInv ==
  /\ TypeOK /\ BatchesFinite
  /\ UploadsInv /\ DeletedInv /\ BatchesInv /\ RowsInv /\ OrphansInv
  /\ ActiveFilesExist

-----------------------------------------------------------------------------
(* The batch.                                                              *)

LEMMA RowsAreFiles == ASSUME FilesAssumption, TypeOK PROVE rows \subseteq Files /\ Due \subseteq Files
<1>1. uploads \in Nat /\ MaxFiles \in Nat /\ uploads <= MaxFiles /\ rows \subseteq 1..uploads
  BY DEF FilesAssumption, TypeOK
<1>2. 1..uploads \subseteq Files /\ Due \subseteq rows
  BY <1>1 DEF Due, Files
<1>3. QED BY <1>1, <1>2

LEMMA DueFinite == ASSUME FilesAssumption, TypeOK PROVE IsFiniteSet(Due)
<1>1. Due \in SUBSET (1..MaxFiles)
  BY RowsAreFiles DEF Files
<1>2. IsFiniteSet(1..MaxFiles)
  BY FS_Interval DEF FilesAssumption
<1>3. QED BY <1>1, <1>2, FS_Subset, Zenon

\* Of the files with fewer than BatchSize older ones there are at most BatchSize: all
\* but the youngest of them are older than it.
LEMMA FewOldest ==
  ASSUME FilesAssumption, TypeOK
  PROVE  LET S == {g \in Due : Cardinality(Older(g)) < BatchSize}
         IN  IsFiniteSet(S) /\ Cardinality(S) <= BatchSize
<1> DEFINE S == {g \in Due : Cardinality(Older(g)) < BatchSize}
           places == {deletedAt[f] : f \in S}
<1> USE DEF FilesAssumption
<1>1. IsFiniteSet(S)
  BY DueFinite, FS_Subset
<1>2. CASE S = {}
  BY <1>1, <1>2, FS_EmptySet
<1>3. CASE S # {}
  <2>1. places \subseteq 0..marks /\ places # {} /\ marks \in Nat
    <3>1. ASSUME NEW f \in S PROVE deletedAt[f] \in 0..marks
      BY RowsAreFiles DEF TypeOK
    <3>2. QED BY <1>3, <3>1 DEF TypeOK
  <2>2. Max(places) \in places /\ \A p \in places : Max(places) >= p
    BY <2>1, MaxOfInterval
  <2>3. PICK m \in S : deletedAt[m] = Max(places)
    BY <2>2
  <2>4. S \ {m} \subseteq Older(m)
    <3>1. SUFFICES ASSUME NEW f \in S, f # m PROVE f \in Due /\ deletedAt[f] < deletedAt[m]
      BY DEF Older
    <3>2. f \in Files /\ m \in Files /\ deletedAt[f] # Never /\ f \in Due
      BY RowsAreFiles DEF Due
    <3>3. deletedAt[f] \in 0..marks /\ deletedAt[m] \in 0..marks /\ marks \in Nat
      BY <3>2 DEF TypeOK
    <3>4. deletedAt[f] # deletedAt[m]
      BY <3>1, <3>2 DEF TypeOK
    <3>5. deletedAt[m] >= deletedAt[f]
      BY <2>2, <2>3
    <3>6. QED BY <3>2, <3>3, <3>4, <3>5
  <2>5. IsFiniteSet(Older(m))
    BY DueFinite, FS_Subset DEF Older
  <2>6. Cardinality(S \ {m}) <= Cardinality(Older(m))
    BY <2>4, <2>5, FS_Subset
  <2>7. Cardinality(S \ {m}) = Cardinality(S) - 1
    BY <1>1, FS_RemoveElement
  <2>8. Cardinality(S) \in Nat /\ Cardinality(Older(m)) \in Nat
    BY <1>1, <2>5, FS_CardinalityType
  <2>9. Cardinality(Older(m)) < BatchSize
    OBVIOUS
  <2>10. QED BY <1>1, <2>6, <2>7, <2>8, <2>9
<1>4. QED BY <1>2, <1>3

LEMMA BatchBounded ==
  ASSUME FilesAssumption, TypeOK
  PROVE  /\ IsFiniteSet(FindPendingCleanup)
         /\ Cardinality(FindPendingCleanup) <= BatchSize
<1> DEFINE S == {g \in Due : Cardinality(Older(g)) < BatchSize}
           read == [f \in S |-> Read(f)]
<1>1. IsFiniteSet(S) /\ Cardinality(S) <= BatchSize
  BY FewOldest
<1>2. read \in Surjection(S, FindPendingCleanup)
  BY DEF Surjection, FindPendingCleanup
<1>3. IsFiniteSet(FindPendingCleanup) /\ Cardinality(FindPendingCleanup) <= Cardinality(S)
  BY <1>1, <1>2, FS_Surjection
<1>4. Cardinality(FindPendingCleanup) \in Nat /\ Cardinality(S) \in Nat /\ BatchSize \in Nat
  BY <1>1, <1>3, FS_CardinalityType DEF FilesAssumption
<1>5. QED BY <1>1, <1>3, <1>4

\* What a run reads is due.
LEMMA BatchDue ==
  ASSUME FilesAssumption, TypeOK
  PROVE  /\ FindPendingCleanup \in SUBSET [file : Files, place : 1..marks]
         /\ \A r \in FindPendingCleanup : r.place = deletedAt[r.file] /\ r.file \in Due
<1>1. SUFFICES ASSUME NEW f \in Due
               PROVE  /\ Read(f) \in [file : Files, place : 1..marks]
                      /\ Read(f).place = deletedAt[Read(f).file] /\ Read(f).file \in Due
  BY DEF FindPendingCleanup
<1>2. f \in Files /\ deletedAt[f] # Never
  BY RowsAreFiles DEF Due
<1>3. deletedAt[f] \in 1..marks
  BY <1>2 DEF TypeOK, Never
<1>4. QED BY <1>2, <1>3 DEF Read

\* A batch that is not empty has an oldest row.
LEMMA OldestInBatch ==
  ASSUME TypeOK, NEW j \in Jobs, ~Working(j, "idle")
  PROVE  Oldest(job[j].batch) \in job[j].batch
<1> DEFINE places == {r.place : r \in job[j].batch}
<1>1. job[j].batch # {} /\ job[j].batch \in SUBSET [file : Files, place : 1..marks]
  BY DEF TypeOK
<1>2. places \subseteq Nat /\ places # {}
  BY <1>1
<1>3. Min(places) \in places /\ \A p \in places : Min(places) <= p
  BY <1>2, MinOfNaturals
<1>4. PICK r \in job[j].batch : r.place = Min(places)
  BY <1>3
<1>5. \A s \in job[j].batch : r.place <= s.place
  BY <1>3, <1>4
<1>6. QED BY <1>5 DEF Oldest

-----------------------------------------------------------------------------
(* Types.                                                                  *)

RequestStep(w) ==
  \/ BeginUpload(w) \/ PutObject(w) \/ PutFails(w) \/ CreateRow(w) \/ CreateRowFails(w)
  \/ RollbackUploadedFile(w) \/ (\E f \in Files : FindActive(w, f)) \/ MarkDeleted(w) \/ Crash(w)

JobStep(j) ==
  StartCleanup(j) \/ DeleteObject(j) \/ CleanupFails(j) \/ HardDelete(j) \/ CrashJob(j)

LEMMA Steps ==
  ASSUME [Next]_vars
  PROVE  \/ UNCHANGED vars
         \/ \E w \in Workers : RequestStep(w)
         \/ \E j \in Jobs : JobStep(j)
         \/ RetentionPasses
  BY DEF Next, RequestStep, JobStep, Cleanup

\* A deletion takes the next place in the order.
LEMMA NextPlace ==
  ASSUME NEW n \in Nat, NEW places \in [Files -> 0..n], NEW f
  PROVE  [places EXCEPT ![f] = n + 1] \in [Files -> 0..(n + 1)]
<1>1. 0..n \subseteq 0..(n + 1) /\ n + 1 \in 0..(n + 1)
  OBVIOUS
<1>2. QED BY <1>1

\* Requests leave the jobs alone; what they hand out keeps its type.
LEMMA RequestTypes ==
  ASSUME FilesAssumption, TypeOK, NEW w \in Workers, RequestStep(w)
  PROVE  TypeOK' /\ UNCHANGED job
<1> USE DEF TypeOK, FilesAssumption, At, Step, End, NoFile, Never, Failing, store, ghosts, Working
<1>1. uploads \in Nat /\ marks \in Nat /\ cutoff \in Nat /\ MaxFiles \in Nat
  OBVIOUS
<1> DEFINE f == request[w].file
<1>a. ~At(w, "idle") => f \in 1..uploads
  BY <1>1
<1>b. request[w] \in [pc : {"idle", "put", "create", "rollback", "mark"}, file : 0..uploads]
  OBVIOUS
<1>2. CASE BeginUpload(w)
  BY <1>1, <1>2 DEF BeginUpload, Files
<1>3. CASE PutObject(w)
  BY <1>1, <1>a, <1>b, <1>3 DEF PutObject
<1>3a. CASE PutFails(w)
  BY <1>1, <1>a, <1>b, <1>3a DEF PutFails
<1>4. CASE CreateRow(w)
  BY <1>1, <1>a, <1>b, <1>4 DEF CreateRow
<1>4a. CASE CreateRowFails(w)
  BY <1>1, <1>a, <1>b, <1>4a DEF CreateRowFails
<1>5. CASE RollbackUploadedFile(w)
  BY <1>1, <1>5 DEF RollbackUploadedFile
<1>5a. CASE Crash(w)
  BY <1>1, <1>a, <1>5a DEF Crash
<1>6. CASE \E g \in Files : FindActive(w, g)
  BY <1>1, <1>6 DEF FindActive
<1>7. CASE MarkDeleted(w)
  <2>1. CASE f \notin rows
    BY <1>1, <1>7, <2>1 DEF MarkDeleted
  <2>2. CASE f \in rows
    <3>1. marks' = marks + 1 /\ deletedAt' = [deletedAt EXCEPT ![f] = marks + 1] /\ marks' \in Nat
      BY <1>1, <1>7, <2>2 DEF MarkDeleted
    <3>2. f \in Files
      BY <2>2, RowsAreFiles
    <3>a. deletedAt \in [Files -> 0..marks]
      OBVIOUS
    <3>3. deletedAt' \in [Files -> 0..marks']
      <4> HIDE DEF TypeOK, FilesAssumption, f
      <4>1. QED BY <1>1, <3>1, <3>a, NextPlace
    <3>4. \A g, h \in Files : deletedAt'[g] = deletedAt'[h] /\ g # h => deletedAt'[g] = Never
      BY <1>1, <3>1, <3>2
    <3>5. UNCHANGED <<uploads, objects, rows, cutoff, job, doubtful, leftover>>
      BY <1>7 DEF MarkDeleted
    <3>6. /\ request' \in [Workers -> [pc : {"idle", "put", "create", "rollback", "mark"}, file : 0..uploads]]
          /\ \A v \in Workers : request'[v].file = NoFile <=> request'[v].pc = "idle"
      BY <1>1, <1>7 DEF MarkDeleted
    <3>7. 1..marks \subseteq 1..marks' /\ cutoff \in 0..marks'
      BY <1>1, <3>1
    <3>8. job' \in [Jobs -> [pc : {"idle", "object", "row"}, batch : SUBSET [file : Files, place : 1..marks']]]
      BY <3>5, <3>7
    <3>9. /\ objects' \cup rows' \cup doubtful' \cup leftover' \subseteq 1..uploads'
          /\ uploads' \in 0..MaxFiles
          /\ \A j \in Jobs :
               /\ Cardinality(job'[j].batch) <= BatchSize
               /\ job'[j].pc = "idle" <=> job'[j].batch = {}
               /\ \A r, s \in job'[j].batch : r.place = s.place => r.file = s.file
      BY <3>5
    <3>10. QED BY <3>1, <3>3, <3>4, <3>5, <3>6, <3>7, <3>8, <3>9
  <2>3. QED BY <2>1, <2>2
<1>8. QED BY <1>2, <1>3, <1>3a, <1>4, <1>4a, <1>5, <1>5a, <1>6, <1>7 DEF RequestStep

\* A job goes on with a batch it has read, or with a part of what it had.
LEMMA BatchTypes ==
  ASSUME FilesAssumption, TypeOK, BatchesFinite,
         NEW j \in Jobs, NEW pc \in {"object", "row"}, NEW batch, Continue(j, pc, batch),
         IsFiniteSet(batch), Cardinality(batch) <= BatchSize,
         batch \in SUBSET [file : Files, place : 1..marks],
         \A r, s \in batch : r.place = s.place => r.file = s.file
  PROVE  /\ job' \in [Jobs -> [pc : {"idle", "object", "row"},
                              batch : SUBSET [file : Files, place : 1..marks]]]
         /\ BatchesFinite'
         /\ \A i \in Jobs :
              /\ Cardinality(job'[i].batch) <= BatchSize
              /\ job'[i].pc = "idle" <=> job'[i].batch = {}
              /\ \A r, s \in job'[i].batch : r.place = s.place => r.file = s.file
<1> DEFINE Job == [pc : {"idle", "object", "row"}, batch : SUBSET [file : Files, place : 1..marks]]
<1>1. job \in [Jobs -> Job] /\ (\A i \in Jobs : Working(i, "idle") <=> job[i].batch = {})
  BY DEF TypeOK
<1>2. NoJob \in Job /\ NoJob.pc = "idle" /\ NoJob.batch = {}
  BY DEF NoJob
<1>3. PICK new \in Job : /\ job' = [job EXCEPT ![j] = new]
                         /\ new.pc = "idle" <=> new.batch = {}
                         /\ new.batch = batch
  <2>1. CASE batch = {}
    BY <1>2, <2>1 DEF Continue
  <2>2. CASE batch # {}
    <3>1. [pc |-> pc, batch |-> batch] \in Job
      OBVIOUS
    <3>2. QED BY <2>2, <3>1 DEF Continue
  <2>3. QED BY <2>1, <2>2
<1>4. job' \in [Jobs -> Job]
  BY <1>1, <1>3
<1>5. \A i \in Jobs : job'[i] = IF i = j THEN new ELSE job[i]
  BY <1>1, <1>3
<1>6. BatchesFinite'
  BY <1>3, <1>5 DEF BatchesFinite
<1>7. ASSUME NEW i \in Jobs
      PROVE  /\ Cardinality(job'[i].batch) <= BatchSize
             /\ job'[i].pc = "idle" <=> job'[i].batch = {}
             /\ \A r, s \in job'[i].batch : r.place = s.place => r.file = s.file
  <2>1. CASE i = j
    BY <1>3, <1>5, <2>1
  <2>2. CASE i # j
    BY <1>1, <1>5, <2>2 DEF TypeOK, Working
  <2>3. QED BY <2>1, <2>2
<1>8. QED BY <1>4, <1>6, <1>7

\* The batch without its oldest row.
LEMMA NextFileTypes ==
  ASSUME FilesAssumption, TypeOK, BatchesFinite, NEW j \in Jobs, ~Working(j, "idle")
  PROVE  LET rest == job[j].batch \ {Oldest(job[j].batch)}
         IN  /\ IsFiniteSet(rest) /\ Cardinality(rest) <= BatchSize
             /\ rest \in SUBSET [file : Files, place : 1..marks]
             /\ \A r, s \in rest : r.place = s.place => r.file = s.file
<1>1. /\ IsFiniteSet(job[j].batch) /\ Cardinality(job[j].batch) <= BatchSize
      /\ job[j].batch \in SUBSET [file : Files, place : 1..marks]
      /\ \A r, s \in job[j].batch : r.place = s.place => r.file = s.file
  BY DEF TypeOK, BatchesFinite
<1>2. Oldest(job[j].batch) \in job[j].batch
  BY OldestInBatch
<1>3. BatchSize \in Nat
  BY DEF FilesAssumption
<1> DEFINE batch == job[j].batch
           rest  == batch \ {Oldest(batch)}
<1>4. IsFiniteSet(rest) /\ Cardinality(rest) = Cardinality(batch) - 1 /\ Cardinality(batch) \in Nat
  BY <1>1, <1>2, FS_RemoveElement, FS_CardinalityType
<1>5. QED BY <1>1, <1>3, <1>4

LEMMA JobTypes ==
  ASSUME FilesAssumption, TypeOK, BatchesFinite, NEW j \in Jobs, JobStep(j)
  PROVE  TypeOK' /\ BatchesFinite'
<1> DEFINE JobsTyped ==
             /\ job' \in [Jobs -> [pc : {"idle", "object", "row"},
                                   batch : SUBSET [file : Files, place : 1..marks]]]
             /\ \A i \in Jobs :
                  /\ Cardinality(job'[i].batch) <= BatchSize
                  /\ job'[i].pc = "idle" <=> job'[i].batch = {}
                  /\ \A r, s \in job'[i].batch : r.place = s.place => r.file = s.file
<1>1. /\ UNCHANGED <<uploads, deletedAt, marks, cutoff, request, ghosts>>
      /\ objects' \subseteq objects /\ rows' \subseteq rows
  BY DEF JobStep, StartCleanup, DeleteObject, CleanupFails, HardDelete, CrashJob, store
<1>2. ASSUME JobsTyped PROVE TypeOK'
  <2>1. objects' \cup rows' \cup doubtful' \cup leftover' \subseteq 1..uploads'
    BY <1>1 DEF TypeOK, ghosts
  <2>2. QED BY <1>1, <1>2, <2>1 DEF TypeOK, Working, At
<1>3. CASE StartCleanup(j)
  <2>1. \A r, s \in FindPendingCleanup : r.place = s.place => r.file = s.file
    <3>1. SUFFICES ASSUME NEW r \in FindPendingCleanup, NEW s \in FindPendingCleanup,
                          r.place = s.place
                   PROVE  r.file = s.file
      OBVIOUS
    <3>2. /\ r.file \in Due /\ s.file \in Due
          /\ deletedAt[r.file] = deletedAt[s.file]
      BY <3>1, BatchDue
    <3>3. r.file \in Files /\ s.file \in Files /\ deletedAt[r.file] # Never
      BY <3>2, RowsAreFiles DEF Due
    <3>4. QED BY <3>2, <3>3 DEF TypeOK
  <2>2. JobsTyped /\ BatchesFinite'
    BY <1>3, <2>1, BatchBounded, BatchDue, BatchTypes DEF StartCleanup
  <2>3. QED BY <1>2, <2>2
<1>4. CASE DeleteObject(j)
  <2>1. /\ IsFiniteSet(job[j].batch) /\ Cardinality(job[j].batch) <= BatchSize
        /\ job[j].batch \in SUBSET [file : Files, place : 1..marks]
        /\ \A r, s \in job[j].batch : r.place = s.place => r.file = s.file
    BY DEF TypeOK, BatchesFinite
  <2>2. JobsTyped /\ BatchesFinite'
    BY <1>4, <2>1, BatchTypes DEF DeleteObject
  <2>3. QED BY <1>2, <2>2
<1>5. CASE NextFile(j) /\ ~Working(j, "idle")
  <2>1. JobsTyped /\ BatchesFinite'
    BY <1>5, NextFileTypes, BatchTypes DEF NextFile
  <2>2. QED BY <1>2, <2>1
<1>6. CASE CrashJob(j)
  <2>1. Continue(j, "object", {})
    BY <1>6 DEF CrashJob, Continue
  <2>2. IsFiniteSet({}) /\ Cardinality({}) = 0 /\ 0 <= BatchSize
    BY FS_EmptySet DEF FilesAssumption
  <2>3. JobsTyped /\ BatchesFinite'
    BY <2>1, <2>2, BatchTypes
  <2>4. QED BY <1>2, <2>3
<1>7. QED BY <1>3, <1>4, <1>5, <1>6 DEF JobStep, CleanupFails, SkipFile, HardDelete, Working

LEMMA TimeTypes ==
  ASSUME FilesAssumption, TypeOK, BatchesFinite, RetentionPasses
  PROVE  TypeOK' /\ BatchesFinite'
<1>1. cutoff' \in 0..marks
  BY DEF TypeOK, RetentionPasses
<1>2. UNCHANGED <<uploads, objects, rows, deletedAt, marks, request, job, doubtful, leftover>>
  BY DEF RetentionPasses, store, ghosts
<1>3. QED BY <1>1, <1>2 DEF TypeOK, BatchesFinite, At, Working

LEMMA Types ==
  ASSUME FilesAssumption, TypeOK, BatchesFinite, [Next]_vars
  PROVE  TypeOK' /\ BatchesFinite'
<1>1. CASE UNCHANGED vars
  BY <1>1 DEF TypeOK, BatchesFinite, vars, store, ghosts, At, Working
<1>2. CASE \E w \in Workers : RequestStep(w)
  BY <1>2, RequestTypes DEF BatchesFinite
<1>3. CASE \E j \in Jobs : JobStep(j)
  BY <1>3, JobTypes
<1>4. CASE RetentionPasses
  BY <1>4, TimeTypes
<1>5. QED BY <1>1, <1>2, <1>3, <1>4, Steps

-----------------------------------------------------------------------------
(* Requests.                                                               *)

\* What the proofs about requests need of the types.
LEMMA RequestFacts ==
  ASSUME FilesAssumption, TypeOK
  PROVE  /\ uploads \in Nat /\ rows \subseteq 1..uploads
         /\ DOMAIN request = Workers
         /\ \A w \in Workers : ~At(w, "idle") => request[w].file \in Files /\ request[w].file <= uploads
<1>1. uploads \in Nat /\ MaxFiles \in Nat /\ uploads <= MaxFiles /\ rows \subseteq 1..uploads
  BY DEF FilesAssumption, TypeOK
<1>2. ASSUME NEW w \in Workers, ~At(w, "idle")
      PROVE  request[w].file \in Files /\ request[w].file <= uploads
  <2>1. request[w].file \in 0..uploads /\ request[w].file # NoFile
    BY <1>2 DEF TypeOK
  <2>2. QED BY <1>1, <2>1 DEF Files, NoFile
<1>3. QED BY <1>1, <1>2 DEF TypeOK

LEMMA UploadsKept ==
  ASSUME FilesAssumption, TypeOK, UploadsInv, DeletedInv, NEW w \in Workers, RequestStep(w)
  PROVE  UploadsInv' /\ DeletedInv'
<1>1. /\ uploads \in Nat /\ rows \subseteq 1..uploads /\ DOMAIN request = Workers
      /\ \A v \in Workers : ~At(v, "idle") => request[v].file \in Files /\ request[v].file <= uploads
  BY RequestFacts
<1>2. CASE BeginUpload(w)
  <2>1. /\ uploads' = uploads + 1 /\ UNCHANGED <<objects, rows, deletedAt, doubtful>>
        /\ request' = [request EXCEPT ![w] = [pc |-> "put", file |-> uploads + 1]]
        /\ uploads + 1 \in Files
    BY <1>1, <1>2 DEF BeginUpload, Step, store, ghosts, Files, FilesAssumption
  <2>2. \A v \in Workers : request'[v] = IF v = w THEN [pc |-> "put", file |-> uploads + 1] ELSE request[v]
    BY <1>1, <2>1
  <2>3. uploads + 1 \notin rows /\ deletedAt[uploads + 1] = Never
    BY <1>1, <2>1 DEF DeletedInv
  <2>4. \A v \in Workers \ {w} : Uploading(v) => request[v].file # uploads + 1
    BY <1>1 DEF Uploading, At
  <2>5. UploadsInv'
    BY <2>1, <2>2, <2>3, <2>4 DEF UploadsInv, Uploading, At
  <2>6. DeletedInv'
    BY <1>1, <2>1 DEF DeletedInv, Files, FilesAssumption
  <2>7. QED BY <2>5, <2>6
<1>3. CASE PutObject(w)
  BY <1>1, <1>3 DEF PutObject, Step, UploadsInv, DeletedInv, Uploading, At, ghosts
<1>4. CASE PutFails(w)
  BY <1>1, <1>4 DEF PutFails, End, Step, UploadsInv, DeletedInv, Uploading, At
<1>5. CASE CreateRow(w)
  BY <1>1, <1>5 DEF CreateRow, End, Step, UploadsInv, DeletedInv, Uploading, At, ghosts
<1>6. CASE CreateRowFails(w)
  BY <1>1, <1>6 DEF CreateRowFails, Step, UploadsInv, DeletedInv, Uploading, At
<1>7. CASE RollbackUploadedFile(w)
  BY <1>1, <1>7 DEF RollbackUploadedFile, End, Step, UploadsInv, DeletedInv, Uploading, At, ghosts
<1>8. CASE \E f \in Files : FindActive(w, f)
  BY <1>1, <1>8 DEF FindActive, Step, UploadsInv, DeletedInv, Uploading, At, store, ghosts
<1>9. CASE MarkDeleted(w)
  <2>1. UNCHANGED <<uploads, objects, rows, doubtful>>
    BY <1>9 DEF MarkDeleted, ghosts
  <2>2. \A v \in Workers : request'[v] = IF v = w THEN [pc |-> "idle", file |-> NoFile] ELSE request[v]
    BY <1>1, <1>9 DEF MarkDeleted, End, Step
  <2>3. \A f \in Files : deletedAt'[f] = deletedAt[f] \/ (f = request[w].file /\ f \in rows)
    BY <1>9 DEF MarkDeleted, TypeOK
  <2>4. UploadsInv'
    BY <1>1, <2>1, <2>2, <2>3 DEF UploadsInv, Uploading, At
  <2>5. ASSUME NEW f \in Files, deletedAt'[f] # Never PROVE f <= uploads
    <3>1. CASE deletedAt[f] # Never
      BY <3>1 DEF DeletedInv
    <3>2. CASE f \in rows
      <4>1. f \in 1..uploads
        BY <1>1, <3>2
      <4>2. QED BY <1>1, <4>1
    <3>3. QED BY <2>3, <2>5, <3>1, <3>2
  <2>6. DeletedInv'
    BY <2>1, <2>5 DEF DeletedInv
  <2>7. QED BY <2>4, <2>6
<1>10. CASE Crash(w)
  BY <1>1, <1>10 DEF Crash, End, Step, UploadsInv, DeletedInv, Uploading, At, store
<1>11. QED BY <1>2, <1>3, <1>4, <1>5, <1>6, <1>7, <1>8, <1>9, <1>10 DEF RequestStep

LEMMA RestOfRequests ==
  ASSUME FilesAssumption, TypeOK, BatchesFinite,
         UploadsInv, BatchesInv, RowsInv, OrphansInv, ActiveFilesExist,
         NEW w \in Workers, RequestStep(w)
  PROVE  BatchesInv' /\ RowsInv' /\ OrphansInv' /\ ActiveFilesExist'
<1> DEFINE f == request[w].file
<1>1. /\ uploads \in Nat /\ rows \subseteq 1..uploads /\ DOMAIN request = Workers
      /\ \A v \in Workers : ~At(v, "idle") => request[v].file \in Files /\ request[v].file <= uploads
  BY RequestFacts
<1>2. UNCHANGED <<job, cutoff>>
  BY DEF RequestStep, BeginUpload, PutObject, PutFails, CreateRow, CreateRowFails,
         RollbackUploadedFile, FindActive, MarkDeleted, Crash
<1>3. \A j \in Jobs : Working(j, "row") => Current(j) \in {r.file : r \in job[j].batch}
  BY OldestInBatch DEF Current, Working
<1>4. cutoff \in Nat /\ marks \in Nat /\ cutoff <= marks
  BY DEF TypeOK
<1>5. BatchesInv'
  <2>1. CASE MarkDeleted(w) /\ f \in rows
    <3>1. deletedAt' = [deletedAt EXCEPT ![f] = marks + 1]
      BY <2>1 DEF MarkDeleted
    <3>2. DOMAIN deletedAt = Files /\ marks + 1 \notin 1..cutoff
      BY <1>4 DEF TypeOK
    <3>3. deletedAt[f] \notin 1..cutoff
      BY <2>1 DEF BatchesInv, MarkDeleted
    <3>4. ASSUME NEW j \in Jobs, NEW r \in job[j].batch
          PROVE  deletedAt'[r.file] \in 1..cutoff
      <4>1. deletedAt[r.file] \in 1..cutoff
        BY DEF BatchesInv
      <4>2. QED BY <3>1, <3>3, <4>1
    <3>5. ASSUME NEW v \in Workers, request'[v].pc = "mark"
          PROVE  deletedAt'[request'[v].file] \notin 1..cutoff
      <4>1. request'[v] = request[v] /\ At(v, "mark")
        BY <1>1, <2>1, <3>5 DEF MarkDeleted, End, Step, At
      <4>2. deletedAt[request[v].file] \notin 1..cutoff /\ request[v].file \in Files
        BY <1>1, <4>1 DEF BatchesInv, At
      <4>3. QED BY <3>1, <3>2, <4>1, <4>2
    <3>6. QED BY <1>2, <3>4, <3>5 DEF BatchesInv, At
  <2>2. CASE \E g \in Files : FindActive(w, g)
    BY <1>1, <1>2, <2>2 DEF FindActive, Step, BatchesInv, At, store, Never
  <2>3. CASE UNCHANGED deletedAt /\ \A v \in Workers : request'[v] = request[v] \/ request'[v].pc # "mark"
    BY <1>2, <2>3 DEF BatchesInv, At
  <2>4. QED
    BY <1>1, <2>1, <2>2, <2>3
    DEF RequestStep, BeginUpload, PutObject, PutFails, CreateRow, CreateRowFails,
        RollbackUploadedFile, MarkDeleted, Crash, End, Step, store
<1>6. RowsInv'
  <2>1. \A j \in Jobs : Current(j)' = Current(j) /\ (Working(j, "row")' <=> Working(j, "row"))
    BY <1>2 DEF Current, Working
  <2>2. CASE objects' \subseteq objects
    BY <2>1, <2>2 DEF RowsInv
  <2>3. CASE At(w, "put") /\ objects' = objects \cup {f}
    <3>1. \A j \in Jobs : Working(j, "row") => Current(j) # f
      <4>1. deletedAt[f] = Never /\ Never \notin 1..cutoff
        BY <1>4, <2>3 DEF UploadsInv, Never
      <4>2. QED BY <1>3, <4>1 DEF BatchesInv
    <3>2. QED BY <2>1, <2>3, <3>1 DEF RowsInv
  <2>4. QED
    BY <2>2, <2>3
    DEF RequestStep, BeginUpload, PutObject, PutFails, CreateRow, CreateRowFails,
        RollbackUploadedFile, FindActive, MarkDeleted, Crash, store
<1>7. OrphansInv'
  <2>1. CASE PutObject(w)
    BY <1>1, <2>1 DEF PutObject, Step, OrphansInv, Uploading, At, ghosts
  <2>2. CASE PutFails(w)
    BY <1>1, <2>2 DEF PutFails, End, Step, OrphansInv, Uploading, At
  <2>3. CASE CreateRow(w)
    BY <1>1, <2>3 DEF CreateRow, End, Step, OrphansInv, Uploading, At, ghosts
  <2>4. CASE CreateRowFails(w)
    BY <1>1, <2>4 DEF CreateRowFails, Step, OrphansInv, Uploading, At
  <2>5. CASE RollbackUploadedFile(w)
    BY <1>1, <2>5 DEF RollbackUploadedFile, End, Step, OrphansInv, Uploading, At, ghosts
  <2>6. CASE Crash(w)
    BY <1>1, <2>6 DEF Crash, End, Step, OrphansInv, Uploading, At, store
  <2>7. CASE BeginUpload(w) \/ (\E g \in Files : FindActive(w, g)) \/ MarkDeleted(w)
    <3>1. UNCHANGED <<objects, rows, leftover>> /\ ~Uploading(w)
      BY <2>7 DEF BeginUpload, FindActive, MarkDeleted, Uploading, At, store, ghosts
    <3>2. \A v \in Workers \ {w} : request'[v] = request[v]
      BY <1>1, <2>7 DEF BeginUpload, FindActive, MarkDeleted, End, Step
    <3>3. QED BY <3>1, <3>2 DEF OrphansInv, Uploading, At
  <2>8. QED BY <2>1, <2>2, <2>3, <2>4, <2>5, <2>6, <2>7 DEF RequestStep
<1>8. ActiveFilesExist'
  <2>1. CASE CreateRow(w)
    BY <2>1 DEF CreateRow, UploadsInv, ActiveFilesExist, ghosts
  <2>2. CASE CreateRowFails(w)
    BY <2>2 DEF CreateRowFails, ActiveFilesExist
  <2>3. CASE RollbackUploadedFile(w)
    BY <2>3 DEF RollbackUploadedFile, UploadsInv, ActiveFilesExist, ghosts
  <2>4. CASE MarkDeleted(w)
    <3>1. \A g \in rows : deletedAt'[g] = Never => deletedAt[g] = Never
      BY <1>4, <2>4, RowsAreFiles DEF MarkDeleted, TypeOK, Never
    <3>2. QED BY <2>4, <3>1 DEF MarkDeleted, ActiveFilesExist, ghosts
  <2>5. CASE UNCHANGED <<rows, deletedAt, doubtful>> /\ objects \subseteq objects'
    BY <2>5 DEF ActiveFilesExist
  <2>6. QED
    BY <2>1, <2>2, <2>3, <2>4, <2>5
    DEF RequestStep, BeginUpload, PutObject, PutFails, FindActive, Crash, store, ghosts
<1>9. QED BY <1>5, <1>6, <1>7, <1>8

-----------------------------------------------------------------------------
(* Jobs and time.                                                          *)

\* A job's next file, where it has one, is past its retention.
LEMMA CurrentIsDue ==
  ASSUME TypeOK, BatchesInv, NEW j \in Jobs, ~Working(j, "idle")
  PROVE  deletedAt[Current(j)] \in 1..cutoff
  BY OldestInBatch DEF BatchesInv, Current

\* What a job's batch becomes: what it was, or less, or what is due.
LEMMA NewBatches ==
  ASSUME FilesAssumption, TypeOK, NEW j \in Jobs, JobStep(j)
  PROVE  /\ \A i \in Jobs \ {j} : job'[i] = job[i]
         /\ \A r \in job'[j].batch : r \in job[j].batch \/ r \in FindPendingCleanup
<1>1. DOMAIN job = Jobs /\ NoJob.batch = {}
  BY DEF TypeOK, NoJob
<1>2. QED
  BY <1>1 DEF JobStep, StartCleanup, DeleteObject, CleanupFails, SkipFile, HardDelete,
              CrashJob, NextFile, Continue

\* Only the object's deletion leads to the row's.
LEMMA RowsWork ==
  ASSUME TypeOK, NEW j \in Jobs, JobStep(j), job'[j].pc = "row"
  PROVE  DeleteObject(j) /\ job'[j].batch = job[j].batch
<1>1. DOMAIN job = Jobs /\ NoJob.pc # "row"
  BY DEF TypeOK, NoJob
<1>2. QED
  BY <1>1 DEF JobStep, StartCleanup, DeleteObject, CleanupFails, SkipFile, HardDelete,
              CrashJob, NextFile, Continue

LEMMA RestOfJobs ==
  ASSUME FilesAssumption, TypeOK, UploadsInv, DeletedInv, BatchesInv, RowsInv, OrphansInv,
         ActiveFilesExist, NEW j \in Jobs, JobStep(j)
  PROVE  UploadsInv' /\ DeletedInv' /\ BatchesInv' /\ RowsInv' /\ OrphansInv' /\ ActiveFilesExist'
<1>1. /\ UNCHANGED <<uploads, deletedAt, marks, cutoff, request, doubtful, leftover>>
      /\ objects' \subseteq objects /\ rows' \subseteq rows
  BY DEF JobStep, StartCleanup, DeleteObject, CleanupFails, HardDelete, CrashJob, store, ghosts
<1>2. /\ objects' = objects \/ (DeleteObject(j) /\ objects' = objects \ {Current(j)} /\ rows' = rows)
      /\ rows' = rows \/ (HardDelete(j) /\ rows' = rows \ {Current(j)} /\ objects' = objects)
  BY DEF JobStep, StartCleanup, DeleteObject, CleanupFails, HardDelete, CrashJob, store
<1>3. DeleteObject(j) \/ HardDelete(j) => deletedAt[Current(j)] # Never
  <2>1. cutoff \in Nat
    BY DEF TypeOK
  <2>2. QED BY <2>1, CurrentIsDue DEF DeleteObject, HardDelete, Working, Never
<1>4. UploadsInv'
  <2>1. \A v \in Workers : At(v, "create") => request[v].file \in objects'
    BY <1>2, <1>3 DEF UploadsInv
  <2>2. QED BY <1>1, <2>1 DEF UploadsInv, Uploading, At
<1>5. DeletedInv'
  BY <1>1 DEF DeletedInv
<1>6. BatchesInv'
  <2>1. \A r \in FindPendingCleanup : deletedAt[r.file] \in 1..cutoff
    <3>1. SUFFICES ASSUME NEW r \in FindPendingCleanup PROVE deletedAt[r.file] \in 1..cutoff
      OBVIOUS
    <3>2. r.file \in Files /\ deletedAt[r.file] # Never /\ deletedAt[r.file] <= cutoff
      BY BatchDue, RowsAreFiles DEF Due
    <3>3. deletedAt[r.file] \in 0..marks /\ cutoff \in Nat /\ marks \in Nat
      BY <3>2 DEF TypeOK
    <3>4. QED BY <3>2, <3>3 DEF Never
  <2>2. QED BY <1>1, <2>1, NewBatches DEF BatchesInv, At
<1>7. RowsInv'
  <2>1. ASSUME NEW i \in Jobs, job'[i].pc = "row" PROVE Oldest(job'[i].batch).file \notin objects'
    <3>1. CASE i = j
      BY <2>1, <3>1, RowsWork DEF DeleteObject, Current
    <3>2. CASE i # j
      <4>1. job'[i] = job[i]
        BY <3>2, NewBatches
      <4>2. QED BY <1>1, <2>1, <4>1 DEF RowsInv, Working, Current
    <3>3. QED BY <3>1, <3>2
  <2>2. QED BY <2>1 DEF RowsInv, Working, Current
<1>8. OrphansInv'
  <2>1. HardDelete(j) => Current(j) \notin objects
    BY DEF HardDelete, RowsInv
  <2>2. objects' \ rows' \subseteq objects \ rows
    BY <1>2, <2>1
  <2>3. QED BY <1>1, <2>2 DEF OrphansInv, Uploading, At
<1>9. ActiveFilesExist'
  BY <1>1, <1>2, <1>3 DEF ActiveFilesExist
<1>10. QED BY <1>4, <1>5, <1>6, <1>7, <1>8, <1>9

LEMMA RestOfTime ==
  ASSUME FilesAssumption, TypeOK, UploadsInv, DeletedInv, BatchesInv, RowsInv, OrphansInv,
         ActiveFilesExist, RetentionPasses
  PROVE  UploadsInv' /\ DeletedInv' /\ BatchesInv' /\ RowsInv' /\ OrphansInv' /\ ActiveFilesExist'
<1>1. /\ UNCHANGED <<uploads, objects, rows, deletedAt, marks, request, job, doubtful, leftover>>
      /\ cutoff' = cutoff + 1 /\ cutoff \in Nat
      /\ \A w \in Workers : At(w, "mark") => deletedAt[request[w].file] # cutoff + 1
  BY DEF RetentionPasses, store, ghosts, TypeOK
<1>2. 1..cutoff' = 1..cutoff \cup {cutoff + 1}
  BY <1>1
<1>3. BatchesInv'
  BY <1>1, <1>2 DEF BatchesInv, At
<1>4. UploadsInv' /\ DeletedInv' /\ RowsInv' /\ OrphansInv' /\ ActiveFilesExist'
  BY <1>1 DEF UploadsInv, DeletedInv, RowsInv, OrphansInv, ActiveFilesExist, Uploading, At, Working, Current
<1>5. QED BY <1>3, <1>4

-----------------------------------------------------------------------------
(* The theorems.                                                           *)

LEMMA InitInv == ASSUME FilesAssumption, Init PROVE IInv
<1> USE DEF Init, FilesAssumption, NoRequest, NoJob, At, Working, NoFile, Never
<1>1. TypeOK
  <2>1. Cardinality({}) = 0
    BY FS_EmptySet
  <2>2. {} \in SUBSET [file : Files, place : 1..marks]
    OBVIOUS
  <2>3. QED BY <2>1, <2>2 DEF TypeOK
<1>2. BatchesFinite
  BY FS_EmptySet DEF BatchesFinite
<1>3. UploadsInv /\ DeletedInv /\ BatchesInv /\ RowsInv /\ OrphansInv /\ ActiveFilesExist
  BY DEF UploadsInv, DeletedInv, BatchesInv, RowsInv, OrphansInv, ActiveFilesExist, Uploading
<1>4. QED BY <1>1, <1>2, <1>3 DEF IInv

LEMMA NextInv == ASSUME FilesAssumption, IInv, [Next]_vars PROVE IInv'
<1>1. TypeOK' /\ BatchesFinite'
  BY Types DEF IInv
<1>2. UploadsInv' /\ DeletedInv' /\ BatchesInv' /\ RowsInv' /\ OrphansInv' /\ ActiveFilesExist'
  <2>1. CASE UNCHANGED vars
    BY <2>1 DEF IInv, UploadsInv, DeletedInv, BatchesInv, RowsInv, OrphansInv, ActiveFilesExist,
                Uploading, At, Working, Current, vars, store, ghosts
  <2>2. CASE \E w \in Workers : RequestStep(w)
    BY <2>2, UploadsKept, RestOfRequests DEF IInv
  <2>3. CASE \E j \in Jobs : JobStep(j)
    BY <2>3, RestOfJobs DEF IInv
  <2>4. CASE RetentionPasses
    BY <2>4, RestOfTime DEF IInv
  <2>5. QED BY <2>1, <2>2, <2>3, <2>4, Steps
<1>3. QED BY <1>1, <1>2 DEF IInv

\* The inductive invariant of upload, deletion and cleanup.
THEOREM FilesInvariant == Spec => []IInv
  BY FilesAssumption, InitInv, NextInv, PTL DEF Spec

\* Uploads, deletions and cleanup keep the types: rows and objects belong to uploads that
\* began, and a batch of the job is no larger than it may be.
THEOREM FilesTyped == Spec => []TypeOK
<1>1. IInv => TypeOK
  BY DEF IInv
<1>2. QED BY <1>1, FilesInvariant, PTL

\* A file nobody has deleted has its object, whatever the job has read and whatever fails.
THEOREM ActiveFilesHaveObjects == Spec => []ActiveFilesExist
<1>1. IInv => ActiveFilesExist
  BY DEF IInv
<1>2. QED BY <1>1, FilesInvariant, PTL

\* An object without a row is one whose upload is under way or failed.
THEOREM ObjectsAccountedFor == Spec => []NoOrphans
<1>1. IInv => NoOrphans
  BY DEF IInv, OrphansInv, NoOrphans
<1>2. QED BY <1>1, FilesInvariant, PTL

\* Nothing of a file goes before its retention has passed.
THEOREM RetentionHolds == Spec => RetentionKept
<1> DEFINE Gone == (rows \ rows') \cup ((objects \ objects') \cap (rows \ doubtful))
           Keeps == \A f \in Gone : deletedAt[f] \in 1..cutoff
<1>1. ASSUME FilesAssumption, IInv, [Next]_vars PROVE Keeps
  <2>1. CASE UNCHANGED vars
    BY <2>1 DEF vars, store
  <2>2. CASE \E w \in Workers : RequestStep(w)
    <3>1. PICK w \in Workers : RequestStep(w)
      BY <2>2
    <3>2. CASE RollbackUploadedFile(w)
      BY <3>2, <1>1 DEF RollbackUploadedFile, IInv, UploadsInv
    <3>3. CASE rows \subseteq rows' /\ objects \subseteq objects'
      BY <3>3
    <3>4. QED
      BY <3>1, <3>2, <3>3 DEF RequestStep, BeginUpload, PutObject, PutFails, CreateRow,
                              CreateRowFails, FindActive, MarkDeleted, Crash, store
  <2>3. CASE \E j \in Jobs : JobStep(j)
    <3>1. PICK j \in Jobs : JobStep(j)
      BY <2>3
    <3>2. CASE DeleteObject(j) \/ HardDelete(j)
      <4>1. deletedAt[Current(j)] \in 1..cutoff
        BY <1>1, <3>2, CurrentIsDue DEF IInv, DeleteObject, HardDelete, Working
      <4>2. Gone \subseteq {Current(j)}
        BY <3>2 DEF DeleteObject, HardDelete
      <4>3. QED BY <4>1, <4>2
    <3>3. CASE UNCHANGED <<rows, objects>>
      BY <3>3
    <3>4. QED
      BY <3>1, <3>2, <3>3 DEF JobStep, StartCleanup, CleanupFails, CrashJob, store
  <2>4. CASE RetentionPasses
    BY <2>4 DEF RetentionPasses, store
  <2>5. QED BY <1>1, <2>1, <2>2, <2>3, <2>4, Steps
<1>2. QED BY <1>1, FilesAssumption, FilesInvariant, PTL DEF Spec, RetentionKept
=============================================================================
