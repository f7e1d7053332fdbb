---------------------------- MODULE WorkspaceFiles ----------------------------
(***************************************************************************)
(* The files of a workspace: an object in the bucket and a row for each,   *)
(* written by upload, marked by deletion, and removed by the cleanup job a *)
(* day later.  Bucket and database are two systems, and any call to either *)
(* may fail, with or without having had its effect.                        *)
(***************************************************************************)
EXTENDS Integers, FiniteSets

CONSTANTS
  Workers,      \* requests served at the same time
  Jobs,         \* runs of the cleanup job at the same time, in one instance or in several
  Scheduled,    \* whether anything starts the job: ScheduleModule is imported
  Broken,       \* files whose object the bucket never deletes
  BatchSize,    \* DEFAULT_CLEANUP_BATCH_SIZE
  MaxFiles,     \* bound on the uploads ever begun
  MaxMarks,     \* bound on the deletions ever made
  MaxFailures   \* bound on passing failures and crashes

ASSUME FilesAssumption ==
  /\ Scheduled \in BOOLEAN
  /\ {BatchSize, MaxFiles, MaxMarks, MaxFailures} \subseteq Nat
  /\ Broken \subseteq 1..MaxFiles

Files  == 1..MaxFiles
NoFile == 0
Never  == 0            \* deletedAt is null

VARIABLES
  uploads,    \* uploads begun so far; each has a new key and a new row id
  objects,    \* files whose object is in the bucket
  rows,       \* files with a row
  deletedAt,  \* file -> its place in the order of deletions, or Never
  marks,      \* deletions so far
  cutoff,     \* deletions up to this one are past the retention
  request,    \* worker -> the request it is serving
  job,        \* job -> the rows it has read and still has to clean up
  doubtful,   \* files whose row was created by a call that reported a failure
  leftover,   \* files whose upload died or could not be rolled back
  failures    \* failures and crashes so far

store == <<objects, rows, deletedAt>>
ghosts == <<doubtful, leftover>>
vars == <<uploads, store, marks, cutoff, request, job, ghosts, failures>>

NoRequest == [pc |-> "idle", file |-> NoFile]
NoJob     == [pc |-> "idle", batch |-> {}]

Init ==
  /\ uploads = 0 /\ objects = {} /\ rows = {}
  /\ deletedAt = [f \in Files |-> Never]
  /\ marks = 0 /\ cutoff = 0
  /\ request = [w \in Workers |-> NoRequest]
  /\ job = [j \in Jobs |-> NoJob]
  /\ doubtful = {} /\ leftover = {} /\ failures = 0

At(w, pc) == request[w].pc = pc
Step(w, pc, f) == request' = [request EXCEPT ![w] = [pc |-> pc, file |-> f]]
End(w) == Step(w, "idle", NoFile)
Failing == failures < MaxFailures /\ failures' = failures + 1

-----------------------------------------------------------------------------
(* upload: the object, then the row; the object again when there is no row. *)

BeginUpload(w) ==
  /\ At(w, "idle")
  /\ uploads < MaxFiles
  /\ uploads' = uploads + 1
  /\ Step(w, "put", uploads')
  /\ UNCHANGED <<store, marks, cutoff, job, ghosts, failures>>

PutObject(w) ==
  /\ At(w, "put")
  /\ objects' = objects \cup {request[w].file}
  /\ Step(w, "create", request[w].file)
  /\ UNCHANGED <<uploads, rows, deletedAt, marks, cutoff, job, ghosts, failures>>

\* The error leaves before the try: an object stored all the same stays there.
PutFails(w) ==
  /\ At(w, "put") /\ Failing
  /\ objects' = objects \cup {request[w].file}
  /\ leftover' = leftover \cup {request[w].file}
  /\ End(w)
  /\ UNCHANGED <<uploads, rows, deletedAt, marks, cutoff, job, doubtful>>

CreateRow(w) ==
  /\ At(w, "create")
  /\ rows' = rows \cup {request[w].file}
  /\ End(w)
  /\ UNCHANGED <<uploads, objects, deletedAt, marks, cutoff, job, ghosts, failures>>

\* The statement may have been executed all the same.
CreateRowFails(w) ==
  /\ At(w, "create") /\ Failing
  /\ \/ UNCHANGED <<rows, doubtful>>
     \/ /\ rows' = rows \cup {request[w].file}
        /\ doubtful' = doubtful \cup {request[w].file}
  /\ Step(w, "rollback", request[w].file)
  /\ UNCHANGED <<uploads, objects, deletedAt, marks, cutoff, job, leftover>>

\* Faulty variant: the error is passed on, the object stays.
RollbackNothing(w) ==
  /\ At(w, "rollback")
  /\ End(w)
  /\ UNCHANGED <<uploads, store, marks, cutoff, job, ghosts, failures>>

RollbackUploadedFile(w) ==
  /\ At(w, "rollback")
  /\ objects' = objects \ {request[w].file}
  /\ End(w)
  /\ UNCHANGED <<uploads, rows, deletedAt, marks, cutoff, job, ghosts, failures>>

-----------------------------------------------------------------------------
(* deleteWorkspaceFile: look the file up, then mark its row.               *)

FindActive(w, f) ==
  /\ At(w, "idle")
  /\ f \in rows /\ deletedAt[f] = Never
  /\ marks + Cardinality({v \in Workers : At(v, "mark")}) < MaxMarks
  /\ Step(w, "mark", f)
  /\ UNCHANGED <<uploads, store, marks, cutoff, job, ghosts, failures>>

\* By id alone: a file marked meanwhile is marked again, and its retention starts over.
MarkDeleted(w) ==
  LET f == request[w].file
  IN  /\ At(w, "mark")
      /\ \/ /\ f \in rows
            /\ marks' = marks + 1
            /\ deletedAt' = [deletedAt EXCEPT ![f] = marks']
         \/ /\ f \notin rows
            /\ UNCHANGED <<marks, deletedAt>>
      /\ End(w)
      /\ UNCHANGED <<uploads, objects, rows, cutoff, job, ghosts, failures>>

\* A request dies, or its last call fails without effect.
Crash(w) ==
  /\ ~At(w, "idle") /\ Failing
  /\ leftover' = IF At(w, "mark") THEN leftover ELSE leftover \cup {request[w].file}
  /\ End(w)
  /\ UNCHANGED <<uploads, store, marks, cutoff, job, doubtful>>

-----------------------------------------------------------------------------
(* cleanupSoftDeletedFiles.                                                *)

\* Faulty variants: every deleted file, whenever it was deleted; a missing deletedAt
\* taken for an old one.
DueAtOnce == {f \in rows : deletedAt[f] # Never}
NullIsOld == {f \in rows : deletedAt[f] <= cutoff}

Due == {f \in rows : deletedAt[f] # Never /\ deletedAt[f] <= cutoff}

\* What a run reads of a row: the file, and its place in the order.
Read(f) == [file |-> f, place |-> deletedAt[f]]

\* Faulty variant: the whole backlog at once.
WholeBacklog == {Read(f) : f \in Due}

Older(f) == {g \in Due : deletedAt[g] < deletedAt[f]}

\* The oldest deletions, no more of them than the batch takes.
FindPendingCleanup == {Read(f) : f \in {g \in Due : Cardinality(Older(g)) < BatchSize}}

Working(j, pc) == job[j].pc = pc

\* The oldest first.
Oldest(batch) == CHOOSE r \in batch : \A s \in batch : r.place <= s.place
Current(j)    == Oldest(job[j].batch).file

Continue(j, pc, batch) ==
  job' = [job EXCEPT ![j] = IF batch = {} THEN NoJob ELSE [pc |-> pc, batch |-> batch]]
NextFile(j) == Continue(j, "object", job[j].batch \ {Oldest(job[j].batch)})

\* Every six hours, whether or not the last run has ended.
StartCleanup(j) ==
  /\ Scheduled
  /\ Working(j, "idle")
  /\ Due # {}
  /\ Continue(j, "object", FindPendingCleanup)
  /\ UNCHANGED <<uploads, store, marks, cutoff, request, ghosts, failures>>

\* Deleting an object that is already gone succeeds.
DeleteObject(j) ==
  /\ Working(j, "object")
  /\ Current(j) \notin Broken
  /\ objects' = objects \ {Current(j)}
  /\ Continue(j, "row", job[j].batch)
  /\ UNCHANGED <<uploads, rows, deletedAt, marks, cutoff, request, ghosts, failures>>

\* Faulty variant: the first error ends the run.
GiveUp(j) == job' = [job EXCEPT ![j] = NoJob]

\* Logged, and on to the next file.
SkipFile(j) == NextFile(j)

CleanupFails(j) ==
  /\ \/ Working(j, "object") /\ Current(j) \in Broken /\ UNCHANGED failures
     \/ ~Working(j, "idle") /\ Failing
  /\ SkipFile(j)
  /\ UNCHANGED <<uploads, store, marks, cutoff, request, ghosts>>

\* A row that another run has deleted is one more logged error.
HardDelete(j) ==
  /\ Working(j, "row")
  /\ rows' = rows \ {Current(j)}
  /\ NextFile(j)
  /\ UNCHANGED <<uploads, objects, deletedAt, marks, cutoff, request, ghosts, failures>>

CrashJob(j) ==
  /\ ~Working(j, "idle") /\ Failing
  /\ job' = [job EXCEPT ![j] = NoJob]
  /\ UNCHANGED <<uploads, store, marks, cutoff, request, ghosts>>

\* Twenty-four hours have passed since one more deletion: no request that overlapped
\* it is still running.
RetentionPasses ==
  /\ cutoff < marks
  /\ \A w \in Workers : At(w, "mark") => deletedAt[request[w].file] # cutoff + 1
  /\ cutoff' = cutoff + 1
  /\ UNCHANGED <<uploads, store, marks, request, job, ghosts, failures>>

Cleanup(j) == StartCleanup(j) \/ DeleteObject(j) \/ CleanupFails(j) \/ HardDelete(j)

Next ==
  \/ \E w \in Workers :
       \/ BeginUpload(w) \/ PutObject(w) \/ PutFails(w) \/ CreateRow(w) \/ CreateRowFails(w)
       \/ RollbackUploadedFile(w)
       \/ \E f \in Files : FindActive(w, f)
       \/ MarkDeleted(w) \/ Crash(w)
  \/ \E j \in Jobs : Cleanup(j) \/ CrashJob(j)
  \/ RetentionPasses

\* Time passes, the scheduler (where there is one) starts the job again and again, and a
\* running job or deletion goes on.  New uploads, deletions and failures are not forced.
Fairness ==
  /\ WF_vars(RetentionPasses)
  /\ \A w \in Workers : WF_vars(MarkDeleted(w))
  /\ \A j \in Jobs : WF_vars(Cleanup(j))

Spec == Init /\ [][Next]_vars /\ Fairness
-----------------------------------------------------------------------------
(* Properties.                                                             *)

\* Places in the order of deletions are handed out once, in order, to rows that exist,
\* and a batch is no larger than it may be.
TypeOK ==
  /\ objects \cup rows \cup doubtful \cup leftover \subseteq 1..uploads
  /\ uploads \in 0..MaxFiles /\ marks \in Nat /\ cutoff \in 0..marks
  /\ deletedAt \in [Files -> 0..marks]
  /\ \A f, g \in Files : deletedAt[f] = deletedAt[g] /\ f # g => deletedAt[f] = Never
  /\ request \in [Workers -> [pc : {"idle", "put", "create", "rollback", "mark"}, file : 0..uploads]]
  /\ \A w \in Workers : request[w].file = NoFile <=> At(w, "idle")
  /\ job \in [Jobs -> [pc : {"idle", "object", "row"}, batch : SUBSET [file : Files, place : 1..marks]]]
  /\ \A j \in Jobs :
       /\ Cardinality(job[j].batch) <= BatchSize
       /\ Working(j, "idle") <=> job[j].batch = {}
       /\ \A r, s \in job[j].batch : r.place = s.place => r.file = s.file

\* A file that has not been deleted has its object, whatever the job is doing, unless
\* its row was created by a call that reported a failure.
ActiveFilesExist == \A f \in rows : deletedAt[f] = Never => f \in objects \cup doubtful

\* Every object without a row belongs to an upload under way, or to one that died or
\* could not be rolled back: the job never loses an object's row before the object.
NoOrphans == objects \ rows \subseteq leftover \cup {request[w].file : w \in Workers}

\* Neither object nor row of a file goes before its retention has passed, however often
\* the file was marked; only the rollback of an upload in doubt takes an object earlier.
RetentionKept ==
  [][\A f \in (rows \ rows') \cup ((objects \ objects') \cap (rows \ doubtful)) :
       deletedAt[f] \in 1..cutoff]_vars

\* What the schema says of deletedAt: the job cleans deleted files up.
DeletedFilesCleaned ==
  \A f \in Files \ Broken : f \in rows /\ deletedAt[f] # Never ~> f \notin rows
=============================================================================
