----------------------------- MODULE PdfPipeline -----------------------------
(***************************************************************************)
(* The asynchronous half of the system: from the moment a reviewer confirms *)
(* a case (status FINALIZING, one QUEUED PdfTask) to the moment the case is *)
(* COMPLETED, PDF_FAILED or CLOSED.                                         *)
(*                                                                         *)
(* Processes: PDF job handlers of the worker (claim, stage, journal, store, *)
(* complete, publish, clean up), the worker's reconcile loop, finalization  *)
(* consumers of the API, and staff requests (PDF retry, close) that read    *)
(* and then write without a condition.  A database transaction that locks   *)
(* the row it tests, or tests it in the UPDATE, is one action; one that     *)
(* reads and later writes unconditionally under READ COMMITTED is several.  *)
(***************************************************************************)
EXTENDS Naturals

CONSTANTS
  Workers,        \* executions of PdfJobHandler.handle that may overlap
  Consumers,      \* executions of PdfFinalizationConsumer.consume
  Staff,          \* staff requests that close the case or retry its PDF
  Mortal,         \* those of them that may die, or lose the database, with
                  \* nothing left to report the failure
  Shas,           \* digests a rendering may have (Chromium stamps the time)
  NoSha,          \* "no digest": a NULL column or a missing object
  MaxAttempts,    \* PdfTask.maxAttempts
  RetryLimit,     \* pg-boss retryLimit of the finalized queue
  LateUploads,    \* may a link reopened by staff change the files?
  MaxJobs,        \* bound: queued PDF jobs that are told apart
  MaxGenerations  \* bound: staff retries of each kind

ASSUME ConstantsAssumption ==
  /\ NoSha \notin Shas
  /\ MaxAttempts \in Nat \ {0}
  /\ RetryLimit \in Nat
  /\ LateUploads \in BOOLEAN
  /\ MaxJobs \in Nat \ {0}
  /\ MaxGenerations \in Nat
  /\ Mortal \subseteq Workers \cup Consumers

VARIABLES
  caseStatus,   \* BusinessCase.status
  signingValid, \* SigningRecord.valid of the task's signing; uploads clear it
  task,         \* the case's PdfTask row
  finalFiles,   \* FileVersion rows with purpose FINAL_PDF
  staging,      \* digest of the object staging/<job>/v<version>.stage
  stored,       \* digests of the content-addressed objects
  jobs,         \* queued pg-boss jobs of authorization-pdf-final
  outbox,       \* PdfQueueOutbox rows with publishedAt NULL
  events,       \* queued pg-boss jobs of authorization-pdf-finalized
  worker,       \* local state of every job handler
  recon,        \* local state of the worker's reconcile loop
  consumer,     \* local state of every finalization consumer
  staff         \* local state of every staff request

vars == <<caseStatus, signingValid, task, finalFiles, staging, stored, jobs,
          outbox, events, worker, recon, consumer, staff>>

dbVars == <<caseStatus, signingValid, task, finalFiles>>
storageVars == <<staging, stored>>
queueVars == <<jobs, outbox, events>>

-----------------------------------------------------------------------------
(* Types and the empty records *)

CaseStatuses == {"FINALIZING", "PDF_FAILED", "COMPLETED", "CLOSED"}
Terminal == {"COMPLETED", "CLOSED"}

\* A FINAL_PDF row: the claim that produced it and the digest of its bytes.
File == [gen : Nat, sha : Shas \cup {NoSha}]
NoFile == [gen |-> 0, sha |-> NoSha]

\* lease is the leaseToken: a fresh UUID per claim, so the claim's own
\* generation stands for it; NoLease is NULL.  expired says startedAt lies
\* more than 45 seconds back.
NoLease == 0
Task ==
  [status     : {"QUEUED", "PROCESSING", "SUCCEEDED", "FAILED"},
   attempts   : 0 .. MaxAttempts,
   claimGen   : Nat,
   lease      : Nat,
   expired    : BOOLEAN,
   pending    : Shas \cup {NoSha},
   output     : File,
   fin        : {"NOT_READY", "PENDING", "DELIVERED", "FAILED"},
   queueGen   : 0 .. MaxGenerations,
   deliverGen : 0 .. MaxGenerations + 1]

FinalQueue == "authorization-pdf-final"
FinalizedQueue == "authorization-pdf-finalized"
OutboxRow ==
  [queue : {FinalQueue, FinalizedQueue}, gen : 0 .. MaxGenerations + 1,
   file : File]
NoRow == [queue |-> FinalQueue, gen |-> 0, file |-> NoFile]

Event ==
  [gen : 0 .. MaxGenerations + 1, file : File, retry : 0 .. RetryLimit]
NoEvent == [gen |-> 0, file |-> NoFile, retry |-> 0]

Fingerprint == [case : CaseStatuses, valid : BOOLEAN]
NoFingerprint == [case |-> "CLOSED", valid |-> FALSE]

WorkerState ==
  [pc : {"idle", "loading", "rendering", "staged", "journaled", "stored",
         "publishing", "marking", "cleanup"},
   gen : Nat, attempts : 0 .. MaxAttempts, sha : Shas \cup {NoSha},
   row : OutboxRow]
IdleWorker ==
  [pc |-> "idle", gen |-> 0, attempts |-> 0, sha |-> NoSha, row |-> NoRow]

ReconState == [pc : {"idle", "picked", "sent"}, row : OutboxRow]
IdleRecon == [pc |-> "idle", row |-> NoRow]

ConsumerState ==
  [pc : {"idle", "inspected", "verified", "failing"},
   ev : Event, fp : Fingerprint]
IdleConsumer == [pc |-> "idle", ev |-> NoEvent, fp |-> NoFingerprint]

StaffState == {"idle", "retryCase", "retryRender", "retryDelivery", "close"}

TypeOK ==
  /\ caseStatus \in CaseStatuses
  /\ signingValid \in BOOLEAN
  /\ task \in Task
  /\ finalFiles \subseteq File
  /\ staging \in Shas \cup {NoSha}
  /\ stored \subseteq Shas
  /\ jobs \in 0 .. MaxJobs
  /\ outbox \subseteq OutboxRow
  /\ events \subseteq Event
  /\ worker \in [Workers -> WorkerState]
  /\ recon \in ReconState
  /\ consumer \in [Consumers -> ConsumerState]
  /\ staff \in [Staff -> StaffState]

\* The state ReviewService.confirm commits.
Init ==
  /\ caseStatus = "FINALIZING"
  /\ signingValid = TRUE
  /\ task = [status |-> "QUEUED", attempts |-> 0, claimGen |-> 0,
             lease |-> NoLease, expired |-> FALSE, pending |-> NoSha,
             output |-> NoFile, fin |-> "NOT_READY", queueGen |-> 0,
             deliverGen |-> 0]
  /\ finalFiles = {}
  /\ staging = NoSha
  /\ stored = {}
  /\ jobs = 0
  /\ outbox = {}
  /\ events = {}
  /\ worker = [w \in Workers |-> IdleWorker]
  /\ recon = IdleRecon
  /\ consumer = [c \in Consumers |-> IdleConsumer]
  /\ staff = [s \in Staff |-> "idle"]

-----------------------------------------------------------------------------
(* Faulty variants of the definitions below: each is a mistake the code could *)
(* have had, and one of the properties notices it.  Nothing here uses them.   *)

\* A claim that counts attempts from the wrong side.
AttemptLeftOffByOne == task.attempts <= MaxAttempts

\* A lease tested by the status of the task alone.
HoldsLeaseUnfenced(w) == task.status = "PROCESSING"

\* A claim that never takes over an expired lease.
ClaimableQueuedOnly == task.status = "QUEUED"

\* A failed task that leaves its case alone.
FailCaseForgotten == caseStatus

\* write() for writeOnce(): the staged bytes are replaced.
StageOverwrites(w) ==
  /\ worker[w].pc = "rendering"
  /\ \E rendered \in Shas :
       /\ staging' = rendered
       /\ worker' = [worker EXCEPT ![w].pc = "staged", ![w].sha = rendered]
  /\ UNCHANGED <<dbVars, stored, queueVars, recon, consumer, staff>>

\* A content-addressed write that is acknowledged and never lands.
WriteContentLost(w) ==
  /\ worker[w].pc = "journaled"
  /\ worker' = [worker EXCEPT ![w].pc = "stored"]
  /\ UNCHANGED <<dbVars, storageVars, queueVars, recon, consumer, staff>>

\* A delivery failure recorded over an acknowledged delivery.
DeliveryOpenAlways(ev) == task.status = "SUCCEEDED" /\ task.output = ev.file

\* A gate that takes the signing on trust.
GateUnsigned(ev) == task.status = "SUCCEEDED" /\ task.output = ev.file

\* A failed delivery that pg-boss is not told of.
RedeliverNever(ev) == UNCHANGED events

\* A staff retry without the check constraint behind it.
RetryRenderUnchecked(s) ==
  /\ staff[s] = "retryRender"
  /\ task.queueGen < MaxGenerations
  /\ task' = [task EXCEPT !.status = "QUEUED", !.attempts = 0,
                          !.lease = NoLease, !.expired = FALSE,
                          !.queueGen = @ + 1]
  /\ caseStatus' = "FINALIZING"
  /\ staff' = [staff EXCEPT ![s] = "idle"]
  /\ UNCHANGED <<signingValid, finalFiles, storageVars, queueVars, worker,
                 recon, consumer>>

-----------------------------------------------------------------------------
(* Helpers *)

\* updateMany({status: FINALIZING} -> PDF_FAILED): a CAS that may miss.
FailCase == IF caseStatus = "FINALIZING" THEN "PDF_FAILED" ELSE caseStatus

\* The WHERE clause that fences every write of a handler.
HoldsLease(w) ==
  /\ task.status = "PROCESSING"
  /\ task.lease = worker[w].gen
  /\ task.claimGen = worker[w].gen

\* What the reconcile loop and a claim both look for.
Claimable ==
  \/ task.status = "QUEUED"
  \/ task.status = "PROCESSING" /\ task.expired

\* The bound on attempts that a claim tests.
AttemptLeft == task.attempts < MaxAttempts

MoreJobs == IF jobs < MaxJobs THEN jobs + 1 ELSE jobs

\* The effect of boss.send for an outbox row.
Send(row) ==
  IF row.queue = FinalQueue
  THEN jobs' = MoreJobs /\ UNCHANGED events
  ELSE /\ events' = events \cup
                    {[gen |-> row.gen, file |-> row.file, retry |-> 0]}
       /\ UNCHANGED jobs

\* A handler that throws or dies gives its job back to pg-boss, which
\* delivers it again or, its retries used up, drops it.
JobEnds == jobs' \in {jobs, MoreJobs} /\ UNCHANGED <<outbox, events>>

-----------------------------------------------------------------------------
(* The worker: PdfJobHandler.handle over PrismaPdfJobRepository *)

\* enqueue(): every five seconds a job for a task that waits or whose lease
\* ran out.
Enqueue ==
  /\ Claimable
  /\ jobs < MaxJobs
  /\ jobs' = jobs + 1
  /\ UNCHANGED <<dbVars, storageVars, outbox, events, worker, recon,
                 consumer, staff>>

\* 45 seconds pass since startedAt.
LeaseExpires ==
  /\ task.status = "PROCESSING" /\ ~task.expired
  /\ task' = [task EXCEPT !.expired = TRUE]
  /\ UNCHANGED <<caseStatus, signingValid, finalFiles, storageVars,
                 queueVars, worker, recon, consumer, staff>>

TakesJob(w) == worker[w].pc = "idle" /\ jobs > 0

\* claim() throws, or answers BUSY, without a write; the job is not
\* acknowledged.  Only the delivery that exhausts its retries is visible.
ClaimRefused(w) ==
  /\ TakesJob(w)
  /\ \/ caseStatus # "FINALIZING"
     \/ ~signingValid
     \/ task.status = "FAILED"
     \/ task.status = "PROCESSING" /\ ~task.expired
  /\ jobs' = jobs - 1
  /\ UNCHANGED <<dbVars, storageVars, outbox, events, worker, recon,
                 consumer, staff>>

\* claim() finds the output already there; handle() drops the stale staging
\* object, ignoring a failure to do so.
ClaimDuplicate(w) ==
  /\ TakesJob(w)
  /\ caseStatus = "FINALIZING" /\ signingValid
  /\ task.status = "SUCCEEDED"
  /\ jobs' = jobs - 1
  /\ staging' \in {staging, NoSha}
  /\ UNCHANGED <<dbVars, stored, outbox, events, worker, recon, consumer,
                 staff>>

\* claim() finds an expired lease and no attempt left.
ClaimExhausted(w) ==
  /\ TakesJob(w)
  /\ caseStatus = "FINALIZING" /\ signingValid
  /\ task.status = "PROCESSING" /\ task.expired
  /\ ~AttemptLeft
  /\ task' = [task EXCEPT !.status = "FAILED", !.lease = NoLease,
                          !.expired = FALSE]
  /\ caseStatus' = FailCase
  /\ jobs' \in {jobs - 1, jobs}
  /\ UNCHANGED <<signingValid, finalFiles, storageVars, outbox, events,
                 worker, recon, consumer, staff>>

\* claim() takes the lease: one more attempt, a new generation and token.
Claim(w) ==
  /\ TakesJob(w)
  /\ caseStatus = "FINALIZING" /\ signingValid
  /\ Claimable
  /\ AttemptLeft
  /\ task' = [task EXCEPT !.status = "PROCESSING", !.attempts = @ + 1,
                          !.claimGen = @ + 1, !.lease = task.claimGen + 1,
                          !.expired = FALSE]
  /\ worker' = [worker EXCEPT ![w] =
                  [IdleWorker EXCEPT !.pc = "loading",
                                     !.gen = task.claimGen + 1,
                                     !.attempts = task.attempts + 1]]
  /\ jobs' = jobs - 1
  /\ UNCHANGED <<caseStatus, signingValid, finalFiles, storageVars, outbox,
                 events, recon, consumer, staff>>

\* The rest of claim(): the task is read again and the canonical digest is
\* recomputed; a changed file set fails it.
LoadSnapshot(w) ==
  /\ worker[w].pc = "loading"
  /\ task.lease = worker[w].gen
  /\ signingValid
  /\ worker' = [worker EXCEPT ![w].pc = "rendering"]
  /\ UNCHANGED <<dbVars, storageVars, queueVars, recon, consumer, staff>>

\* Reuse the staged bytes, or render and writeOnce: the link is created only
\* where no object exists, and the bytes used are those read back.
Stage(w) ==
  /\ worker[w].pc = "rendering"
  /\ \E rendered \in Shas :
       staging' = IF staging = NoSha THEN rendered ELSE staging
  /\ worker' = [worker EXCEPT ![w].pc = "staged", ![w].sha = staging']
  /\ UNCHANGED <<dbVars, stored, queueVars, recon, consumer, staff>>

\* journalPending(): fenced, and the journal may not name other bytes.
JournalPending(w) ==
  /\ worker[w].pc = "staged"
  /\ HoldsLease(w)
  /\ task.pending \in {NoSha, worker[w].sha}
  /\ task' = [task EXCEPT !.pending = worker[w].sha]
  /\ worker' = [worker EXCEPT ![w].pc = "journaled"]
  /\ UNCHANGED <<caseStatus, signingValid, finalFiles, storageVars,
                 queueVars, recon, consumer, staff>>

\* writeContentAddressed() and the verifying read.
WriteContent(w) ==
  /\ worker[w].pc = "journaled"
  /\ stored' = stored \cup {worker[w].sha}
  /\ worker' = [worker EXCEPT ![w].pc = "stored"]
  /\ UNCHANGED <<dbVars, staging, queueVars, recon, consumer, staff>>

\* complete(): file row, SUCCEEDED, outbox row, in one transaction.  It tests
\* the lease and the journal, not the case and not the signing.
Complete(w) ==
  LET file == [gen |-> worker[w].gen, sha |-> worker[w].sha]
      row == [queue |-> FinalizedQueue, gen |-> task.deliverGen + 1,
              file |-> file]
  IN
  /\ worker[w].pc = "stored"
  /\ HoldsLease(w)
  /\ task.pending = worker[w].sha
  /\ task.deliverGen < MaxGenerations + 1
  /\ finalFiles' = finalFiles \cup {file}
  /\ task' = [task EXCEPT !.status = "SUCCEEDED", !.lease = NoLease,
                          !.output = file, !.fin = "PENDING",
                          !.deliverGen = @ + 1, !.pending = NoSha]
  /\ outbox' = outbox \cup {row}
  /\ worker' = [worker EXCEPT ![w].pc = "publishing", ![w].row = row]
  /\ UNCHANGED <<caseStatus, signingValid, storageVars, jobs, events, recon,
                 consumer, staff>>

\* complete() finds another handler's output: DUPLICATE, nothing to publish.
CompleteDuplicate(w) ==
  /\ worker[w].pc = "stored"
  /\ task.status = "SUCCEEDED"
  /\ worker' = [worker EXCEPT ![w] = IdleWorker]
  /\ UNCHANGED <<dbVars, storageVars, queueVars, recon, consumer, staff>>

\* publishOutbox(): send ...
WorkerSend(w) ==
  /\ worker[w].pc = "publishing"
  /\ Send(worker[w].row)
  /\ worker' = [worker EXCEPT ![w].pc = "marking"]
  /\ UNCHANGED <<dbVars, storageVars, outbox, recon, consumer, staff>>

\* ... then markPublished.
WorkerMark(w) ==
  /\ worker[w].pc = "marking"
  /\ outbox' = outbox \ {worker[w].row}
  /\ worker' = [worker EXCEPT ![w].pc = "cleanup"]
  /\ UNCHANGED <<dbVars, storageVars, jobs, events, recon, consumer, staff>>

\* A send or mark that fails is recorded in the row, which stays for the
\* reconciler; where even that fails, the job does.
WorkerPublishFails(w) ==
  /\ worker[w].pc \in {"publishing", "marking"}
  /\ \/ worker' = [worker EXCEPT ![w].pc = "cleanup"] /\ UNCHANGED queueVars
     \/ worker' = [worker EXCEPT ![w] = IdleWorker] /\ JobEnds
  /\ UNCHANGED <<dbVars, storageVars, recon, consumer, staff>>

\* The staging object goes; where that fails the job does, durably completed.
Cleanup(w) ==
  /\ worker[w].pc = "cleanup"
  /\ \/ staging' = NoSha /\ UNCHANGED queueVars
     \/ UNCHANGED staging /\ JobEnds
  /\ worker' = [worker EXCEPT ![w] = IdleWorker]
  /\ UNCHANGED <<dbVars, stored, recon, consumer, staff>>

\* An exception before complete() commits: fail(), fenced; with no attempt
\* left the task and, if still FINALIZING, the case fail.
HandlerFails(w) ==
  LET lastAttempt == worker[w].attempts >= MaxAttempts IN
  /\ worker[w].pc \in {"loading", "rendering", "staged", "journaled",
                       "stored"}
  /\ worker' = [worker EXCEPT ![w] = IdleWorker]
  /\ JobEnds
  /\ IF HoldsLease(w)
     THEN /\ task' = [task EXCEPT
                        !.status = IF lastAttempt THEN "FAILED" ELSE "QUEUED",
                        !.lease = NoLease, !.expired = FALSE]
          /\ caseStatus' = IF lastAttempt THEN FailCase ELSE caseStatus
     ELSE UNCHANGED <<task, caseStatus>>
  /\ UNCHANGED <<signingValid, finalFiles, storageVars, recon, consumer,
                 staff>>

\* The worker process dies, or fail() itself does not reach the database.
WorkerDies(w) ==
  /\ w \in Mortal
  /\ worker[w].pc # "idle"
  /\ worker' = [worker EXCEPT ![w] = IdleWorker]
  /\ JobEnds
  /\ UNCHANGED <<dbVars, storageVars, recon, consumer, staff>>

-----------------------------------------------------------------------------
(* publisher.reconcile(): rows are read, then sent and marked one by one *)

ReconPick ==
  /\ recon.pc = "idle"
  /\ \E row \in outbox : recon' = [pc |-> "picked", row |-> row]
  /\ UNCHANGED <<dbVars, storageVars, queueVars, worker, consumer, staff>>

ReconSend ==
  /\ recon.pc = "picked"
  /\ Send(recon.row)
  /\ recon' = [recon EXCEPT !.pc = "sent"]
  /\ UNCHANGED <<dbVars, storageVars, outbox, worker, consumer, staff>>

ReconMark ==
  /\ recon.pc = "sent"
  /\ outbox' = outbox \ {recon.row}
  /\ recon' = IdleRecon
  /\ UNCHANGED <<dbVars, storageVars, jobs, events, worker, consumer, staff>>

\* send fails, mark fails or the process dies: the row is still unpublished.
ReconFails ==
  /\ recon.pc # "idle"
  /\ recon' = IdleRecon
  /\ UNCHANGED <<dbVars, storageVars, queueVars, worker, consumer, staff>>

-----------------------------------------------------------------------------
(* The API's finalization consumer *)

\* The gate over the database: the task is SUCCEEDED with the event's file
\* and the signing is still valid.  The reviews are settled by now.
Gate(ev) ==
  /\ task.status = "SUCCEEDED"
  /\ task.output = ev.file
  /\ signingValid

CurrentFingerprint == [case |-> caseStatus, valid |-> signingValid]

\* consume() takes a job; inspect() and the first gate and storage check.
Inspect(c) ==
  /\ consumer[c].pc = "idle"
  /\ \E ev \in events :
       /\ events' = events \ {ev}
       /\ consumer' = [consumer EXCEPT ![c] =
            [pc |-> IF Gate(ev) THEN "inspected" ELSE "failing",
             ev |-> ev, fp |-> CurrentFingerprint]]
  /\ UNCHANGED <<dbVars, storageVars, jobs, outbox, worker, recon, staff>>

\* reinspect(): the fingerprint of the first read must still hold.
Reinspect(c) ==
  /\ consumer[c].pc = "inspected"
  /\ consumer[c].fp = CurrentFingerprint
  /\ Gate(consumer[c].ev)
  /\ task.output.sha \in stored
  /\ consumer' = [consumer EXCEPT ![c].pc = "verified"]
  /\ UNCHANGED <<dbVars, storageVars, queueVars, worker, recon, staff>>

\* finalize(): serializable, so one step.  A COMPLETED case is a duplicate;
\* from any status but FINALIZING and PDF_FAILED the transaction rolls back.
Finalize(c) ==
  /\ consumer[c].pc = "verified"
  /\ consumer[c].fp = CurrentFingerprint
  /\ Gate(consumer[c].ev)
  /\ caseStatus \in {"FINALIZING", "PDF_FAILED", "COMPLETED"}
  /\ task' = [task EXCEPT !.fin = "DELIVERED"]
  /\ caseStatus' = "COMPLETED"
  /\ consumer' = [consumer EXCEPT ![c] = IdleConsumer]
  /\ UNCHANGED <<signingValid, finalFiles, storageVars, queueVars, worker,
                 recon, staff>>

\* A changed fingerprint, a failed gate, unreadable storage, a serialization
\* conflict (finalize is not retried) or a wrong status.
ConsumeThrows(c) ==
  /\ consumer[c].pc \in {"inspected", "verified"}
  /\ consumer' = [consumer EXCEPT ![c].pc = "failing"]
  /\ UNCHANGED <<dbVars, storageVars, queueVars, worker, recon, staff>>

\* pg-boss after a failed delivery: queued again with retryCount + 1, or
\* dropped at the limit.
Redeliver(ev) ==
  events' = IF ev.retry < RetryLimit
            THEN events \cup {[ev EXCEPT !.retry = @ + 1]}
            ELSE events

\* The WHERE clause of recordDeliveryFailure(): no generation in it.
DeliveryOpen(ev) ==
  /\ task.status = "SUCCEEDED"
  /\ task.output = ev.file
  /\ task.fin # "DELIVERED"

\* recordDeliveryFailure() and the rethrow.
RecordDeliveryFailure(c) ==
  LET ev == consumer[c].ev
      terminal == ev.retry >= RetryLimit
  IN
  /\ consumer[c].pc = "failing"
  /\ IF DeliveryOpen(ev)
     THEN /\ task' = [task EXCEPT !.fin = IF terminal THEN "FAILED"
                                          ELSE "PENDING"]
          /\ caseStatus' = IF terminal THEN FailCase ELSE caseStatus
     ELSE UNCHANGED <<task, caseStatus>>
  /\ Redeliver(ev)
  /\ consumer' = [consumer EXCEPT ![c] = IdleConsumer]
  /\ UNCHANGED <<signingValid, finalFiles, storageVars, jobs, outbox,
                 worker, recon, staff>>

\* The API process dies, or recordDeliveryFailure() fails like the rest did:
\* pg-boss counts a failed delivery that left no trace in the database.
ConsumerDies(c) ==
  /\ c \in Mortal
  /\ consumer[c].pc # "idle"
  /\ Redeliver(consumer[c].ev)
  /\ consumer' = [consumer EXCEPT ![c] = IdleConsumer]
  /\ UNCHANGED <<dbVars, storageVars, jobs, outbox, worker, recon, staff>>

-----------------------------------------------------------------------------
(* Staff requests: READ COMMITTED, reads first, unconditional writes after *)

\* PdfRetryService.retry: the case is read ...
RetryReadCase(s) ==
  /\ staff[s] = "idle"
  /\ caseStatus = "PDF_FAILED"
  /\ staff' = [staff EXCEPT ![s] = "retryCase"]
  /\ UNCHANGED <<dbVars, storageVars, queueVars, worker, recon, consumer>>

\* ... then the task, which decides what is retried, if anything ...
RetryReadTask(s) ==
  /\ staff[s] = "retryCase"
  /\ staff' = [staff EXCEPT ![s] =
       IF task.status = "SUCCEEDED" /\ task.fin = "FAILED"
       THEN "retryDelivery"
       ELSE IF task.status = "FAILED" THEN "retryRender" ELSE "idle"]
  /\ UNCHANGED <<dbVars, storageVars, queueVars, worker, recon, consumer>>

\* ... and both rows are written by id.  PdfTask_terminal_fields_check aborts
\* a transaction that would queue a task which has an output.
RetryRender(s) ==
  /\ staff[s] = "retryRender"
  /\ task.output = NoFile
  /\ task.queueGen < MaxGenerations
  /\ task' = [task EXCEPT !.status = "QUEUED", !.attempts = 0,
                          !.lease = NoLease, !.expired = FALSE,
                          !.queueGen = @ + 1]
  /\ outbox' = outbox \cup {[queue |-> FinalQueue, gen |-> task.queueGen + 1,
                             file |-> NoFile]}
  /\ caseStatus' = "FINALIZING"
  /\ staff' = [staff EXCEPT ![s] = "idle"]
  /\ UNCHANGED <<signingValid, finalFiles, storageVars, jobs, events,
                 worker, recon, consumer>>

RetryDelivery(s) ==
  /\ staff[s] = "retryDelivery"
  /\ task.deliverGen < MaxGenerations + 1
  /\ task' = [task EXCEPT !.fin = "PENDING", !.deliverGen = @ + 1]
  /\ outbox' = outbox \cup {[queue |-> FinalizedQueue,
                             gen |-> task.deliverGen + 1,
                             file |-> task.output]}
  /\ caseStatus' = "FINALIZING"
  /\ staff' = [staff EXCEPT ![s] = "idle"]
  /\ UNCHANGED <<signingValid, finalFiles, storageVars, jobs, events,
                 worker, recon, consumer>>

\* The transaction of a retry or a close rolls back.
StaffAborts(s) ==
  /\ staff[s] # "idle"
  /\ staff' = [staff EXCEPT ![s] = "idle"]
  /\ UNCHANGED <<dbVars, storageVars, queueVars, worker, recon, consumer>>

\* CaseService.close: the status is read and tested ...
CloseRead(s) ==
  /\ staff[s] = "idle"
  /\ caseStatus \notin Terminal
  /\ staff' = [staff EXCEPT ![s] = "close"]
  /\ UNCHANGED <<dbVars, storageVars, queueVars, worker, recon, consumer>>

\* ... and CLOSED is written by id.
CloseWrite(s) ==
  /\ staff[s] = "close"
  /\ caseStatus' = "CLOSED"
  /\ staff' = [staff EXCEPT ![s] = "idle"]
  /\ UNCHANGED <<signingValid, task, finalFiles, storageVars, queueVars,
                 worker, recon, consumer>>

\* FileService.uploadPublic / removePublic on a link that staff reissued:
\* they test the link, not the status of the case, and end the signing.
LateUpload ==
  /\ LateUploads
  /\ caseStatus \notin Terminal
  /\ signingValid
  /\ signingValid' = FALSE
  /\ UNCHANGED <<caseStatus, task, finalFiles, storageVars, queueVars,
                 worker, recon, consumer, staff>>

-----------------------------------------------------------------------------
WorkerStep(w) ==
  \/ ClaimRefused(w) \/ ClaimDuplicate(w) \/ ClaimExhausted(w) \/ Claim(w)
  \/ LoadSnapshot(w) \/ Stage(w) \/ JournalPending(w) \/ WriteContent(w)
  \/ Complete(w) \/ CompleteDuplicate(w)
  \/ WorkerSend(w) \/ WorkerMark(w) \/ WorkerPublishFails(w) \/ Cleanup(w)
  \/ HandlerFails(w) \/ WorkerDies(w)

ReconStep == ReconPick \/ ReconSend \/ ReconMark \/ ReconFails

ConsumerStep(c) ==
  \/ Inspect(c) \/ Reinspect(c) \/ Finalize(c) \/ ConsumeThrows(c)
  \/ RecordDeliveryFailure(c) \/ ConsumerDies(c)

StaffStep(s) ==
  \/ RetryReadCase(s) \/ RetryReadTask(s) \/ RetryRender(s)
  \/ RetryDelivery(s) \/ StaffAborts(s) \/ CloseRead(s) \/ CloseWrite(s)

Next ==
  \/ Enqueue
  \/ LeaseExpires
  \/ ReconStep
  \/ LateUpload
  \/ \E w \in Workers : WorkerStep(w)
  \/ \E c \in Consumers : ConsumerStep(c)
  \/ \E s \in Staff : StaffStep(s)

Spec == Init /\ [][Next]_vars

-----------------------------------------------------------------------------
(* Safety: invariants *)

\* "The same callback or a repeated submission never produces two different
\* final records": there is a FINAL_PDF row exactly when the task SUCCEEDED,
\* it is the task's output, and it was made by the newest claim - a handler
\* whose lease passed to another one never supplies the document.
OneFinalPdf ==
  /\ finalFiles = IF task.status = "SUCCEEDED" THEN {task.output} ELSE {}
  /\ task.status = "SUCCEEDED" => task.output.gen = task.claimGen

\* The write-ahead journal stays usable: whatever attempt, crash or retry
\* comes next finds the journaled bytes in the staging area, so that
\* journalPending never refuses every later attempt.
PendingIsStaged ==
  task.pending # NoSha => staging = task.pending

\* An event says what is durable: whoever receives it finds the task
\* SUCCEEDED with that file, and the bytes in the content-addressed store.
EventsAreDurable ==
  \A ev \in events :
    /\ task.status = "SUCCEEDED"
    /\ ev.file = task.output
    /\ ev.file.sha \in stored

\* A COMPLETED case has its document, acknowledged as delivered, over a
\* signing that is still valid - whatever duplicate or stale deliveries fail
\* afterwards.
CompletedIsDelivered ==
  caseStatus = "COMPLETED" =>
    /\ task.status = "SUCCEEDED"
    /\ task.fin = "DELIVERED"
    /\ signingValid

\* No failure is hidden behind FINALIZING, where PdfRetryService could never
\* retry it; and PDF_FAILED is shown only while the task has failed or its
\* document is still to be delivered.
FailureIsVisible ==
  /\ task.status = "FAILED" \/ task.fin = "FAILED" => caseStatus # "FINALIZING"
  /\ caseStatus = "PDF_FAILED" =>
       \/ task.status = "FAILED"
       \/ task.status = "SUCCEEDED" /\ task.fin # "DELIVERED"

\* Transactional outbox: while the delivery of a finished document is
\* pending, some outbox row, queued event or running consumer still carries
\* it.  (Not so if a consumer may die on its last delivery: pg-boss then
\* drops the event and nobody records the failure.)
DeliveryInFlight ==
  task.fin = "PENDING" =>
    \/ \E row \in outbox : row.queue = FinalizedQueue
    \/ events # {}
    \/ \E c \in Consumers : consumer[c].pc # "idle"

-----------------------------------------------------------------------------
(* Safety: what a step may never do *)

\* A finished task stays finished, with the same output: neither a stale
\* handler's fail() nor a staff retry that read the task earlier re-opens it.
SucceededIsFinal ==
  [][task.status = "SUCCEEDED" =>
       /\ task'.status = "SUCCEEDED"
       /\ task'.output = task.output]_vars

-----------------------------------------------------------------------------
(* Composition: the outline CaseWorkflow gives of this module *)

\* A case that was approved as it was signed and submitted.  "signed" is what
\* it held then; an upload or a removal makes it hold something else.
Held == IF signingValid THEN "signed" ELSE "changed"

Lifecycle ==
  INSTANCE CaseLifecycle
    WITH Contents <- {"signed", "changed"}, Items <- {},
         NoSignature <- "none", status <- caseStatus, content <- Held,
         signature <- IF signingValid THEN "signed" ELSE "none",
         submitted <- "signed", approved <- {}

\* Workers, queues, deliveries, retries and crashes change the case only as
\* CaseWorkflow says in outline, and as the lifecycle allows, LateRetry,
\* LateClose and LateComplete included.
KeepsLifecycle == [][Lifecycle!Next]_(Lifecycle!vars)

-----------------------------------------------------------------------------
(* Liveness *)

\* The timers and the queues run: the reconcile loop ticks, time passes, an
\* idle handler or consumer takes a queued job, a started one goes on or
\* fails.  A send or mark that is tried for ever does not fail for ever.
\* Nothing is assumed of staff, customers or crashes.
Fairness ==
  /\ WF_vars(Enqueue)
  /\ WF_vars(LeaseExpires)
  /\ WF_vars(ReconPick) /\ SF_vars(ReconSend) /\ SF_vars(ReconMark)
  /\ \A w \in Workers :
       /\ WF_vars(Claim(w) \/ ClaimExhausted(w))
       /\ WF_vars(LoadSnapshot(w) \/ Stage(w) \/ JournalPending(w)
                  \/ WriteContent(w) \/ Complete(w) \/ CompleteDuplicate(w)
                  \/ WorkerSend(w) \/ WorkerMark(w) \/ Cleanup(w)
                  \/ HandlerFails(w))
  /\ \A c \in Consumers :
       /\ WF_vars(Inspect(c))
       /\ WF_vars(Reinspect(c) \/ Finalize(c) \/ ConsumeThrows(c)
                  \/ RecordDeliveryFailure(c))

FairSpec == Spec /\ Fairness

\* An upload ended the signing before there was a document: every claim throws
\* PDF_JOB_SIGNING_INVALID, and a retry is refused, as nothing has failed.
Overtaken == ~signingValid /\ task.status # "SUCCEEDED"

\* Generation ends in a completed case or in a failure that is shown and can be
\* retried, whichever handlers die and whatever is delivered twice - unless
\* the customer's upload overtook it for good.  Design 9 and 12 know of no
\* exception; the code has this one, and a consumer that dies in its last
\* delivery (Mortal).  Overtaken excuses nothing that still comes: a handler
\* past its claim completes, and from then on the case must end again.
FinalizingEnds ==
  caseStatus = "FINALIZING" ~> caseStatus # "FINALIZING" \/ Overtaken
=============================================================================
