------------------------- MODULE PdfPipeline_proofs -------------------------
(***************************************************************************)
(* The safety properties of PdfPipeline hold for every number of handlers,  *)
(* consumers and staff requests, every set of digests and every bound.  The *)
(* inductive invariant IInv is a conjunction of named parts; one lemma per  *)
(* part shows that a step preserves it, with one case per action.           *)
(***************************************************************************)
EXTENDS PdfPipeline, TLAPS

-----------------------------------------------------------------------------
(* The inductive invariant *)

\* A handler past the staging step works on real bytes.
StagedBytes ==
  \A w \in Workers :
    worker[w].pc \in {"staged", "journaled", "stored"} =>
      worker[w].sha \in Shas

\* A busy handler's claim lies in the past: its lease is the current one, or
\* was superseded by a later generation.
Fenced ==
  \A w \in Workers :
    worker[w].pc # "idle" => worker[w].gen \in 1 .. task.claimGen

\* OneFinalPdf, with what makes it inductive: an output exists just when the
\* task SUCCEEDED, and completing clears the journal.
OneOutput ==
  /\ task.status = "SUCCEEDED" => task.output # NoFile /\ task.pending = NoSha
  /\ task.status # "SUCCEEDED" => task.output = NoFile
  /\ OneFinalPdf

\* PendingIsStaged, with what makes it inductive: the handler that holds the
\* lease works on the staged bytes, and who removes them comes after SUCCEEDED.
Journaled ==
  /\ PendingIsStaged
  /\ \A w \in Workers :
       /\ worker[w].pc \in {"staged", "journaled", "stored"} /\ HoldsLease(w)
            => staging = worker[w].sha
       /\ worker[w].pc \in {"publishing", "marking", "cleanup"}
            => task.status = "SUCCEEDED"

\* A reference to a file that is the task's output and can be read.
DurableFile(file) ==
  task.status = "SUCCEEDED" /\ file = task.output /\ file.sha \in stored

DurableRow(row) == row.queue = FinalizedQueue => DurableFile(row.file)

\* EventsAreDurable, for every place an event passes through: outbox, sender,
\* queue and consumer.
Carried ==
  /\ task.status = "SUCCEEDED" => task.output.sha \in stored
  /\ \A row \in outbox : DurableRow(row)
  /\ \A ev \in events : DurableFile(ev.file)
  /\ recon.pc # "idle" => DurableRow(recon.row)
  /\ \A w \in Workers :
       /\ worker[w].pc = "stored" => worker[w].sha \in stored
       /\ worker[w].pc \in {"publishing", "marking"} =>
            DurableRow(worker[w].row)
  /\ \A c \in Consumers :
       consumer[c].pc # "idle" => DurableFile(consumer[c].ev.file)
  /\ \A s \in Staff : staff[s] = "retryDelivery" => task.status = "SUCCEEDED"

\* A finalization event is queued or being consumed.
Moving == events # {} \/ \E c \in Consumers : consumer[c].pc # "idle"

\* The row of the latest delivery generation; no row is newer.
Current(row) == row.queue = FinalizedQueue /\ row.gen = task.deliverGen

NotNewer(row) == row.queue = FinalizedQueue => row.gen <= task.deliverGen

\* DeliveryInFlight, with what makes it inductive: who is about to mark the
\* row of the latest generation has sent it.
Delivering ==
  /\ task.fin = "PENDING" => Moving \/ \E row \in outbox : Current(row)
  /\ recon.pc = "sent" /\ Current(recon.row) /\ task.fin = "PENDING" => Moving
  /\ recon.pc # "idle" => NotNewer(recon.row)
  /\ \A w \in Workers :
       /\ worker[w].pc = "marking" /\ Current(worker[w].row)
            /\ task.fin = "PENDING" => Moving
       /\ worker[w].pc \in {"publishing", "marking"} => NotNewer(worker[w].row)
  /\ \A row \in outbox : NotNewer(row)

\* The case tells the truth about its task.
Reported ==
  /\ task.fin # "NOT_READY" <=> task.status = "SUCCEEDED"
  /\ CompletedIsDelivered
  /\ FailureIsVisible

IInv ==
  TypeOK /\ StagedBytes /\ Fenced /\ OneOutput /\ Journaled /\ Carried
    /\ Reported

-----------------------------------------------------------------------------
(* Types *)

\* The empty records belong to their types.
LEMMA IdleIsTyped ==
  /\ IdleWorker \in WorkerState
  /\ IdleRecon \in ReconState
  /\ IdleConsumer \in ConsumerState
BY ConstantsAssumption
DEF IdleWorker, WorkerState, IdleRecon, ReconState, IdleConsumer,
    ConsumerState, NoRow, OutboxRow, NoFile, File, FinalQueue, NoEvent, Event,
    NoFingerprint, Fingerprint, CaseStatuses

\* One more job stays within the bound.
LEMMA JobsTyped ==
  ASSUME jobs \in 0 .. MaxJobs
  PROVE  MoreJobs \in 0 .. MaxJobs
BY ConstantsAssumption DEF MoreJobs

\* Sending an outbox row, to either queue, keeps the queues typed.
LEMMA SendTyped ==
  ASSUME NEW row \in OutboxRow, Send(row), jobs \in 0 .. MaxJobs,
         events \subseteq Event
  PROVE  jobs' \in 0 .. MaxJobs /\ events' \subseteq Event
<1>1. [gen |-> row.gen, file |-> row.file, retry |-> 0] \in Event
  BY ConstantsAssumption DEF OutboxRow, Event
<1> QED
  BY <1>1, JobsTyped DEF Send

\* A redelivered event has a retry count within the limit.
LEMMA RedeliverTyped ==
  ASSUME NEW ev \in Event, Redeliver(ev), events \subseteq Event
  PROVE  events' \subseteq Event
<1>1. ev.retry < RetryLimit => [ev EXCEPT !.retry = @ + 1] \in Event
  BY ConstantsAssumption DEF Event
<1> QED
  BY <1>1 DEF Redeliver

\* Every step keeps every variable in its type.
LEMMA TypeStep ==
  ASSUME TypeOK, StagedBytes, [Next]_vars
  PROVE  (TypeOK /\ StagedBytes)'
<1> USE ConstantsAssumption
      DEF TypeOK, StagedBytes, dbVars, storageVars, queueVars
<1>1. CASE Enqueue
  BY <1>1, IdleIsTyped DEF Enqueue
<1>2. CASE LeaseExpires
  BY <1>2, IdleIsTyped DEF LeaseExpires, Task
<1>3. CASE LateUpload
  BY <1>3, IdleIsTyped DEF LateUpload
<1>4. CASE ReconStep
  <2>1. CASE ReconPick
    BY <2>1, IdleIsTyped DEF ReconPick, ReconState
  <2>2. CASE ReconSend
    <3>1. recon.row \in OutboxRow /\ recon' \in ReconState
      BY <2>2 DEF ReconSend, ReconState
    <3>2. jobs' \in 0 .. MaxJobs /\ events' \subseteq Event
      BY <2>2, <3>1, SendTyped DEF ReconSend
    <3> QED
      BY <2>2, <3>1, <3>2 DEF ReconSend
  <2>3. CASE ReconMark
    BY <2>3, IdleIsTyped
    DEF ReconMark, ReconState, IdleRecon, NoRow, OutboxRow, NoFile, File,
        FinalQueue
  <2>4. CASE ReconFails
    BY <2>4, IdleIsTyped
    DEF ReconFails, ReconState, IdleRecon, NoRow, OutboxRow, NoFile, File,
        FinalQueue
  <2> QED
    BY <1>4, <2>1, <2>2, <2>3, <2>4 DEF ReconStep
<1>5. ASSUME NEW w \in Workers, WorkerStep(w)
     PROVE  (TypeOK /\ StagedBytes)'
  <2>1. CASE ClaimRefused(w)
    BY <2>1, IdleIsTyped DEF ClaimRefused, TakesJob
  <2>2. CASE ClaimDuplicate(w)
    BY <2>2, IdleIsTyped DEF ClaimDuplicate, TakesJob
  <2>3. CASE ClaimExhausted(w)
    <3>1. task' \in Task
      BY <2>3 DEF ClaimExhausted, Task, NoLease
    <3>2. caseStatus' \in CaseStatuses
      BY <2>3 DEF ClaimExhausted, FailCase, CaseStatuses
    <3>3. jobs' \in 0 .. MaxJobs
      BY <2>3 DEF ClaimExhausted, TakesJob
    <3> QED
      BY <2>3, <3>1, <3>2, <3>3 DEF ClaimExhausted
  <2>4. CASE Claim(w)
    <3>1. task.claimGen + 1 \in Nat /\ task.attempts + 1 \in 0 .. MaxAttempts
      BY <2>4 DEF Claim, AttemptLeft, Task
    <3>2. task' \in Task
      BY <2>4, <3>1 DEF Claim, Task
    <3>3. worker' \in [Workers -> WorkerState] /\ StagedBytes'
      BY <2>4, <3>1, IdleIsTyped DEF Claim, WorkerState, IdleWorker
    <3>4. jobs' \in 0 .. MaxJobs
      BY <2>4 DEF Claim, TakesJob
    <3> QED
      BY <2>4, <3>2, <3>3, <3>4 DEF Claim
  <2>5. CASE LoadSnapshot(w)
    BY <2>5, IdleIsTyped DEF LoadSnapshot, WorkerState
  <2>6. CASE Stage(w)
    BY <2>6, IdleIsTyped DEF Stage, WorkerState
  <2>7. CASE JournalPending(w)
    BY <2>7, IdleIsTyped DEF JournalPending, HoldsLease, WorkerState, Task
  <2>8. CASE WriteContent(w)
    <3>1. worker[w].sha \in Shas
      BY <2>8 DEF WriteContent
    <3>2. worker' \in [Workers -> WorkerState] /\ StagedBytes'
      BY <2>8 DEF WriteContent, WorkerState
    <3> QED
      BY <2>8, <3>1, <3>2 DEF WriteContent
  <2>9. CASE Complete(w)
    <3> DEFINE file == [gen |-> worker[w].gen, sha |-> worker[w].sha]
               row == [queue |-> FinalizedQueue, gen |-> task.deliverGen + 1,
                       file |-> file]
    <3>1. file \in File
      BY DEF File, WorkerState
    <3>2. task.deliverGen + 1 \in 0 .. MaxGenerations + 1
      BY <2>9 DEF Complete, Task
    <3>3. row \in OutboxRow
      BY <3>1, <3>2 DEF OutboxRow
    <3> HIDE DEF file
    <3>4. task' \in Task
      BY <2>9, <3>1, <3>2 DEF Complete, Task, NoLease, file
    <3>5. worker' = [worker EXCEPT ![w].pc = "publishing", ![w].row = row]
      BY <2>9 DEF Complete, file
    <3> HIDE DEF row
    <3>6. worker' \in [Workers -> WorkerState]
      <4>1. worker' = [worker EXCEPT
                   ![w] = [worker[w] EXCEPT !.pc = "publishing", !.row = row]]
        BY <3>5
      <4>2. [worker[w] EXCEPT !.pc = "publishing", !.row = row] \in WorkerState
        BY <3>3 DEF WorkerState
      <4> QED
        BY <4>1, <4>2
    <3>7. StagedBytes'
      BY <3>5 DEF WorkerState
    <3> QED
      BY <2>9, <3>1, <3>3, <3>4, <3>6, <3>7 DEF Complete, file, row
  <2>10. CASE CompleteDuplicate(w)
    BY <2>10, IdleIsTyped DEF CompleteDuplicate, IdleWorker
  <2>11. CASE WorkerSend(w)
    <3>1. worker[w].row \in OutboxRow
      BY DEF WorkerState
    <3>2. jobs' \in 0 .. MaxJobs /\ events' \subseteq Event
      BY <2>11, <3>1, SendTyped DEF WorkerSend
    <3>3. worker' \in [Workers -> WorkerState] /\ StagedBytes'
      BY <2>11 DEF WorkerSend, WorkerState
    <3> QED
      BY <2>11, <3>2, <3>3 DEF WorkerSend
  <2>12. CASE WorkerMark(w)
    BY <2>12, IdleIsTyped DEF WorkerMark, WorkerState
  <2>13. CASE WorkerPublishFails(w)
    <3>1. worker' \in [Workers -> WorkerState] /\ StagedBytes'
      BY <2>13, IdleIsTyped DEF WorkerPublishFails, WorkerState, IdleWorker
    <3>2. jobs' \in 0 .. MaxJobs /\ outbox' = outbox /\ events' = events
      BY <2>13, JobsTyped DEF WorkerPublishFails, JobEnds
    <3> QED
      BY <2>13, <3>1, <3>2 DEF WorkerPublishFails
  <2>14. CASE Cleanup(w)
    <3>1. worker' \in [Workers -> WorkerState] /\ StagedBytes'
      BY <2>14, IdleIsTyped DEF Cleanup, IdleWorker
    <3>2. jobs' \in 0 .. MaxJobs /\ outbox' = outbox /\ events' = events
      BY <2>14, JobsTyped DEF Cleanup, JobEnds
    <3> QED
      BY <2>14, <3>1, <3>2 DEF Cleanup
  <2>15. CASE HandlerFails(w)
    <3>1. worker' \in [Workers -> WorkerState] /\ StagedBytes'
      BY <2>15, IdleIsTyped DEF HandlerFails, IdleWorker
    <3>2. jobs' \in 0 .. MaxJobs /\ outbox' = outbox /\ events' = events
      BY <2>15, JobsTyped DEF HandlerFails, JobEnds
    <3>3. task' \in Task
      <4>1. CASE HoldsLease(w)
        <5>1. \E end \in {"FAILED", "QUEUED"} :
                task' = [task EXCEPT !.status = end, !.lease = 0,
                                     !.expired = FALSE]
          BY <2>15, <4>1 DEF HandlerFails, NoLease
        <5>2. PICK end \in {"FAILED", "QUEUED"} :
                task' = [task EXCEPT !.status = end, !.lease = 0,
                                     !.expired = FALSE]
          BY <5>1
        <5> QED
          BY <5>2 DEF Task
      <4>2. CASE ~HoldsLease(w)
        BY <2>15, <4>2 DEF HandlerFails
      <4> QED
        BY <4>1, <4>2
    <3>4. caseStatus' \in CaseStatuses
      BY <2>15 DEF HandlerFails, FailCase, CaseStatuses
    <3> QED
      BY <2>15, <3>1, <3>2, <3>3, <3>4 DEF HandlerFails
  <2>16. CASE WorkerDies(w)
    <3>1. worker' \in [Workers -> WorkerState] /\ StagedBytes'
      BY <2>16, IdleIsTyped DEF WorkerDies, IdleWorker
    <3>2. jobs' \in 0 .. MaxJobs /\ outbox' = outbox /\ events' = events
      BY <2>16, JobsTyped DEF WorkerDies, JobEnds
    <3> QED
      BY <2>16, <3>1, <3>2 DEF WorkerDies
  <2> QED
    BY <1>5, <2>1, <2>2, <2>3, <2>4, <2>5, <2>6, <2>7, <2>8, <2>9, <2>10,
       <2>11, <2>12, <2>13, <2>14, <2>15, <2>16
    DEF WorkerStep
<1>6. ASSUME NEW c \in Consumers, ConsumerStep(c)
     PROVE  (TypeOK /\ StagedBytes)'
  <2>1. CASE Inspect(c)
    <3>1. CurrentFingerprint \in Fingerprint
      BY DEF CurrentFingerprint, Fingerprint
    <3>2. consumer' \in [Consumers -> ConsumerState]
      BY <2>1, <3>1 DEF Inspect, ConsumerState
    <3> QED
      BY <2>1, <3>2 DEF Inspect
  <2>2. CASE Reinspect(c)
    BY <2>2, IdleIsTyped DEF Reinspect, ConsumerState
  <2>3. CASE Finalize(c)
    <3>1. task' \in Task /\ caseStatus' \in CaseStatuses
      BY <2>3 DEF Finalize, Task, CaseStatuses
    <3> QED
      BY <2>3, <3>1, IdleIsTyped DEF Finalize
  <2>4. CASE ConsumeThrows(c)
    BY <2>4, IdleIsTyped DEF ConsumeThrows, ConsumerState
  <2>5. CASE RecordDeliveryFailure(c)
    <3>1. consumer[c].ev \in Event
      BY DEF ConsumerState
    <3>2. events' \subseteq Event
      BY <2>5, <3>1, RedeliverTyped DEF RecordDeliveryFailure
    <3>3. task' \in Task
      BY <2>5 DEF RecordDeliveryFailure, Task
    <3>4. caseStatus' \in CaseStatuses
      BY <2>5 DEF RecordDeliveryFailure, FailCase, CaseStatuses
    <3> QED
      BY <2>5, <3>2, <3>3, <3>4, IdleIsTyped DEF RecordDeliveryFailure
  <2>6. CASE ConsumerDies(c)
    <3>1. consumer[c].ev \in Event
      BY DEF ConsumerState
    <3>2. events' \subseteq Event
      BY <2>6, <3>1, RedeliverTyped DEF ConsumerDies
    <3> QED
      BY <2>6, <3>2, IdleIsTyped DEF ConsumerDies
  <2> QED
    BY <1>6, <2>1, <2>2, <2>3, <2>4, <2>5, <2>6 DEF ConsumerStep
<1>7. ASSUME NEW s \in Staff, StaffStep(s)
     PROVE  (TypeOK /\ StagedBytes)'
  <2>1. CASE RetryReadCase(s)
    BY <2>1, IdleIsTyped DEF RetryReadCase, StaffState
  <2>2. CASE RetryReadTask(s)
    BY <2>2, IdleIsTyped DEF RetryReadTask, StaffState
  <2>3. CASE RetryRender(s)
    <3>1. task.queueGen + 1 \in 0 .. MaxGenerations
      BY <2>3 DEF RetryRender, Task
    <3>2. task' \in Task
      <4>1. 0 \in Nat /\ 0 \in 0 .. MaxAttempts
        OBVIOUS
      <4>2. task' = [task EXCEPT !.status = "QUEUED", !.attempts = 0,
                                !.lease = 0, !.expired = FALSE,
                                !.queueGen = task.queueGen + 1]
        BY <2>3 DEF RetryRender, NoLease, Task
      <4> QED
        BY <3>1, <4>1, <4>2 DEF Task
    <3>3. [queue |-> FinalQueue, gen |-> task.queueGen + 1, file |-> NoFile]
            \in OutboxRow
      BY <3>1 DEF OutboxRow, NoFile, File
    <3>4. caseStatus' \in CaseStatuses /\ staff' \in [Staff -> StaffState]
      BY <2>3 DEF RetryRender, CaseStatuses, StaffState
    <3> QED
      BY <2>3, <3>2, <3>3, <3>4 DEF RetryRender
  <2>4. CASE RetryDelivery(s)
    <3>1. task.deliverGen + 1 \in 0 .. MaxGenerations + 1
      BY <2>4 DEF RetryDelivery, Task
    <3>2. task' \in Task
      BY <2>4, <3>1 DEF RetryDelivery, Task
    <3>3. [queue |-> FinalizedQueue, gen |-> task.deliverGen + 1,
           file |-> task.output] \in OutboxRow
      BY <3>1 DEF OutboxRow, Task
    <3>4. caseStatus' \in CaseStatuses /\ staff' \in [Staff -> StaffState]
      BY <2>4 DEF RetryDelivery, CaseStatuses, StaffState
    <3> QED
      BY <2>4, <3>2, <3>3, <3>4 DEF RetryDelivery
  <2>5. CASE StaffAborts(s)
    BY <2>5, IdleIsTyped DEF StaffAborts, StaffState
  <2>6. CASE CloseRead(s)
    BY <2>6, IdleIsTyped DEF CloseRead, StaffState
  <2>7. CASE CloseWrite(s)
    BY <2>7, IdleIsTyped DEF CloseWrite, StaffState, CaseStatuses
  <2> QED
    BY <1>7, <2>1, <2>2, <2>3, <2>4, <2>5, <2>6, <2>7 DEF StaffStep
<1>8. CASE UNCHANGED vars
  BY <1>8, IdleIsTyped DEF vars
<1> QED
  BY <1>1, <1>2, <1>3, <1>4, <1>5, <1>6, <1>7, <1>8 DEF Next

-----------------------------------------------------------------------------
(* The parts, one step *)

\* A claim takes a fresh generation; no other step starts a handler.
LEMMA FencedStep ==
  ASSUME TypeOK, Fenced, [Next]_vars
  PROVE  Fenced'
<1> USE DEF Fenced, TypeOK, WorkerState, Task, dbVars, storageVars, queueVars
<1>1. CASE Enqueue
  BY <1>1 DEF Enqueue
<1>2. CASE LeaseExpires
  BY <1>2 DEF LeaseExpires
<1>3. CASE LateUpload
  BY <1>3 DEF LateUpload
<1>4. CASE ReconStep
  <2>1. CASE ReconPick
    BY <2>1 DEF ReconPick
  <2>2. CASE ReconSend
    BY <2>2 DEF ReconSend, Send
  <2>3. CASE ReconMark
    BY <2>3 DEF ReconMark
  <2>4. CASE ReconFails
    BY <2>4 DEF ReconFails
  <2> QED
    BY <1>4, <2>1, <2>2, <2>3, <2>4 DEF ReconStep
<1>5. ASSUME NEW w \in Workers, WorkerStep(w)
     PROVE  Fenced'
  <2>1. CASE ClaimRefused(w)
    BY <2>1 DEF ClaimRefused, TakesJob
  <2>2. CASE ClaimDuplicate(w)
    BY <2>2 DEF ClaimDuplicate, TakesJob
  <2>3. CASE ClaimExhausted(w)
    BY <2>3 DEF ClaimExhausted, TakesJob
  <2>4. CASE Claim(w)
    BY <2>4 DEF Claim, TakesJob, Claimable, IdleWorker
  <2>5. CASE LoadSnapshot(w)
    BY <2>5 DEF LoadSnapshot
  <2>6. CASE Stage(w)
    BY <2>6 DEF Stage
  <2>7. CASE JournalPending(w)
    BY <2>7 DEF JournalPending, HoldsLease
  <2>8. CASE WriteContent(w)
    BY <2>8 DEF WriteContent
  <2>9. CASE Complete(w)
    BY <2>9 DEF Complete, HoldsLease
  <2>10. CASE CompleteDuplicate(w)
    BY <2>10 DEF CompleteDuplicate, IdleWorker
  <2>11. CASE WorkerSend(w)
    BY <2>11 DEF WorkerSend, Send
  <2>12. CASE WorkerMark(w)
    BY <2>12 DEF WorkerMark
  <2>13. CASE WorkerPublishFails(w)
    BY <2>13 DEF WorkerPublishFails, JobEnds, IdleWorker
  <2>14. CASE Cleanup(w)
    BY <2>14 DEF Cleanup, JobEnds, IdleWorker
  <2>15. CASE HandlerFails(w)
    BY <2>15 DEF HandlerFails, HoldsLease, JobEnds, IdleWorker
  <2>16. CASE WorkerDies(w)
    BY <2>16 DEF WorkerDies, JobEnds, IdleWorker
  <2> QED
    BY <1>5, <2>1, <2>2, <2>3, <2>4, <2>5, <2>6, <2>7, <2>8, <2>9, <2>10,
       <2>11, <2>12, <2>13, <2>14, <2>15, <2>16
    DEF WorkerStep
<1>6. ASSUME NEW c \in Consumers, ConsumerStep(c)
     PROVE  Fenced'
  <2>1. CASE Inspect(c)
    BY <2>1 DEF Inspect
  <2>2. CASE Reinspect(c)
    BY <2>2 DEF Reinspect
  <2>3. CASE Finalize(c)
    BY <2>3 DEF Finalize, Gate
  <2>4. CASE ConsumeThrows(c)
    BY <2>4 DEF ConsumeThrows
  <2>5. CASE RecordDeliveryFailure(c)
    BY <2>5 DEF RecordDeliveryFailure, Redeliver, DeliveryOpen
  <2>6. CASE ConsumerDies(c)
    BY <2>6 DEF ConsumerDies, Redeliver
  <2> QED
    BY <1>6, <2>1, <2>2, <2>3, <2>4, <2>5, <2>6 DEF ConsumerStep
<1>7. ASSUME NEW s \in Staff, StaffStep(s)
     PROVE  Fenced'
  <2>1. CASE RetryReadCase(s)
    BY <2>1 DEF RetryReadCase
  <2>2. CASE RetryReadTask(s)
    BY <2>2 DEF RetryReadTask
  <2>3. CASE RetryRender(s)
    BY <2>3 DEF RetryRender
  <2>4. CASE RetryDelivery(s)
    BY <2>4 DEF RetryDelivery
  <2>5. CASE StaffAborts(s)
    BY <2>5 DEF StaffAborts
  <2>6. CASE CloseRead(s)
    BY <2>6 DEF CloseRead
  <2>7. CASE CloseWrite(s)
    BY <2>7 DEF CloseWrite
  <2> QED
    BY <1>7, <2>1, <2>2, <2>3, <2>4, <2>5, <2>6, <2>7 DEF StaffStep
<1>8. CASE UNCHANGED vars
  BY <1>8 DEF vars
<1> QED
  BY <1>1, <1>2, <1>3, <1>4, <1>5, <1>6, <1>7, <1>8 DEF Next

\* Only complete() creates the output, under the lease, and nothing undoes it.
LEMMA OutputStep ==
  ASSUME TypeOK, StagedBytes, Fenced, OneOutput, [Next]_vars
  PROVE  OneOutput'
<1> USE
      DEF OneOutput, OneFinalPdf, TypeOK, Task, dbVars, storageVars, queueVars
<1>1. CASE Enqueue
  BY <1>1 DEF Enqueue
<1>2. CASE LeaseExpires
  BY <1>2 DEF LeaseExpires
<1>3. CASE LateUpload
  BY <1>3 DEF LateUpload
<1>4. CASE ReconStep
  <2>1. CASE ReconPick
    BY <2>1 DEF ReconPick
  <2>2. CASE ReconSend
    BY <2>2 DEF ReconSend, Send
  <2>3. CASE ReconMark
    BY <2>3 DEF ReconMark
  <2>4. CASE ReconFails
    BY <2>4 DEF ReconFails
  <2> QED
    BY <1>4, <2>1, <2>2, <2>3, <2>4 DEF ReconStep
<1>5. ASSUME NEW w \in Workers, WorkerStep(w)
     PROVE  OneOutput'
  <2>1. CASE ClaimRefused(w)
    BY <2>1 DEF ClaimRefused, TakesJob
  <2>2. CASE ClaimDuplicate(w)
    BY <2>2 DEF ClaimDuplicate, TakesJob
  <2>3. CASE ClaimExhausted(w)
    BY <2>3 DEF ClaimExhausted, TakesJob
  <2>4. CASE Claim(w)
    BY <2>4 DEF Claim, TakesJob, Claimable
  <2>5. CASE LoadSnapshot(w)
    BY <2>5 DEF LoadSnapshot
  <2>6. CASE Stage(w)
    BY <2>6 DEF Stage
  <2>7. CASE JournalPending(w)
    BY <2>7 DEF JournalPending, HoldsLease
  <2>8. CASE WriteContent(w)
    BY <2>8 DEF WriteContent
  <2>9. CASE Complete(w)
    <3> DEFINE file == [gen |-> worker[w].gen, sha |-> worker[w].sha]
    <3>1. worker[w].sha \in Shas
      BY <2>9 DEF Complete, StagedBytes
    <3>2. file # NoFile
      BY <3>1, ConstantsAssumption DEF NoFile
    <3>3. finalFiles = {} /\ worker[w].gen = task.claimGen
      BY <2>9 DEF Complete, HoldsLease
    <3> QED
      BY <2>9, <3>2, <3>3 DEF Complete
  <2>10. CASE CompleteDuplicate(w)
    BY <2>10 DEF CompleteDuplicate
  <2>11. CASE WorkerSend(w)
    BY <2>11 DEF WorkerSend, Send
  <2>12. CASE WorkerMark(w)
    BY <2>12 DEF WorkerMark
  <2>13. CASE WorkerPublishFails(w)
    BY <2>13 DEF WorkerPublishFails, JobEnds
  <2>14. CASE Cleanup(w)
    BY <2>14 DEF Cleanup, JobEnds
  <2>15. CASE HandlerFails(w)
    BY <2>15 DEF HandlerFails, HoldsLease, JobEnds
  <2>16. CASE WorkerDies(w)
    BY <2>16 DEF WorkerDies, JobEnds
  <2> QED
    BY <1>5, <2>1, <2>2, <2>3, <2>4, <2>5, <2>6, <2>7, <2>8, <2>9, <2>10,
       <2>11, <2>12, <2>13, <2>14, <2>15, <2>16
    DEF WorkerStep
<1>6. ASSUME NEW c \in Consumers, ConsumerStep(c)
     PROVE  OneOutput'
  <2>1. CASE Inspect(c)
    BY <2>1 DEF Inspect
  <2>2. CASE Reinspect(c)
    BY <2>2 DEF Reinspect
  <2>3. CASE Finalize(c)
    BY <2>3 DEF Finalize, Gate
  <2>4. CASE ConsumeThrows(c)
    BY <2>4 DEF ConsumeThrows
  <2>5. CASE RecordDeliveryFailure(c)
    BY <2>5 DEF RecordDeliveryFailure, Redeliver, DeliveryOpen
  <2>6. CASE ConsumerDies(c)
    BY <2>6 DEF ConsumerDies, Redeliver
  <2> QED
    BY <1>6, <2>1, <2>2, <2>3, <2>4, <2>5, <2>6 DEF ConsumerStep
<1>7. ASSUME NEW s \in Staff, StaffStep(s)
     PROVE  OneOutput'
  <2>1. CASE RetryReadCase(s)
    BY <2>1 DEF RetryReadCase
  <2>2. CASE RetryReadTask(s)
    BY <2>2 DEF RetryReadTask
  <2>3. CASE RetryRender(s)
    BY <2>3 DEF RetryRender
  <2>4. CASE RetryDelivery(s)
    BY <2>4 DEF RetryDelivery
  <2>5. CASE StaffAborts(s)
    BY <2>5 DEF StaffAborts
  <2>6. CASE CloseRead(s)
    BY <2>6 DEF CloseRead
  <2>7. CASE CloseWrite(s)
    BY <2>7 DEF CloseWrite
  <2> QED
    BY <1>7, <2>1, <2>2, <2>3, <2>4, <2>5, <2>6, <2>7 DEF StaffStep
<1>8. CASE UNCHANGED vars
  BY <1>8 DEF vars
<1> QED
  BY <1>1, <1>2, <1>3, <1>4, <1>5, <1>6, <1>7, <1>8 DEF Next

\* Write-once staging and the fence keep the journal and the bytes together.
LEMMA JournalStep ==
  ASSUME TypeOK, StagedBytes, Fenced, OneOutput, Journaled, [Next]_vars
  PROVE  Journaled'
<1> USE
      DEF Journaled, PendingIsStaged, OneOutput, HoldsLease, TypeOK, Task,
          WorkerState, dbVars, storageVars, queueVars
<1>1. CASE Enqueue
  BY <1>1 DEF Enqueue
<1>2. CASE LeaseExpires
  BY <1>2 DEF LeaseExpires
<1>3. CASE LateUpload
  BY <1>3 DEF LateUpload
<1>4. CASE ReconStep
  <2>1. CASE ReconPick
    BY <2>1 DEF ReconPick
  <2>2. CASE ReconSend
    BY <2>2 DEF ReconSend, Send
  <2>3. CASE ReconMark
    BY <2>3 DEF ReconMark
  <2>4. CASE ReconFails
    BY <2>4 DEF ReconFails
  <2> QED
    BY <1>4, <2>1, <2>2, <2>3, <2>4 DEF ReconStep
<1>5. ASSUME NEW w \in Workers, WorkerStep(w)
     PROVE  Journaled'
  <2>1. CASE ClaimRefused(w)
    BY <2>1 DEF ClaimRefused, TakesJob
  <2>2. CASE ClaimDuplicate(w)
    BY <2>2 DEF ClaimDuplicate, TakesJob
  <2>3. CASE ClaimExhausted(w)
    BY <2>3 DEF ClaimExhausted, TakesJob
  <2>4. CASE Claim(w)
    BY <2>4 DEF Claim, Claimable, IdleWorker, Fenced
  <2>5. CASE LoadSnapshot(w)
    BY <2>5 DEF LoadSnapshot
  <2>6. CASE Stage(w)
    BY <2>6, ConstantsAssumption DEF Stage, StagedBytes
  <2>7. CASE JournalPending(w)
    BY <2>7 DEF JournalPending, HoldsLease
  <2>8. CASE WriteContent(w)
    BY <2>8 DEF WriteContent
  <2>9. CASE Complete(w)
    BY <2>9 DEF Complete, HoldsLease
  <2>10. CASE CompleteDuplicate(w)
    BY <2>10 DEF CompleteDuplicate, IdleWorker
  <2>11. CASE WorkerSend(w)
    BY <2>11 DEF WorkerSend, Send
  <2>12. CASE WorkerMark(w)
    BY <2>12 DEF WorkerMark
  <2>13. CASE WorkerPublishFails(w)
    BY <2>13 DEF WorkerPublishFails, JobEnds, IdleWorker
  <2>14. CASE Cleanup(w)
    BY <2>14 DEF Cleanup, JobEnds, IdleWorker
  <2>15. CASE HandlerFails(w)
    <3>1. /\ task'.pending = task.pending /\ staging' = staging
          /\ task.status = "SUCCEEDED" <=> task'.status = "SUCCEEDED"
          /\ task'.status = "PROCESSING" => task' = task
      BY <2>15 DEF HandlerFails
    <3>2. \A v \in Workers : worker'[v] = worker[v] \/ worker'[v].pc = "idle"
      BY <2>15 DEF HandlerFails, IdleWorker
    <3>3. ASSUME NEW v \in Workers
          PROVE  /\ worker'[v].pc \in {"staged", "journaled", "stored"}
                     /\ HoldsLease(v)' => staging' = worker'[v].sha
                 /\ worker'[v].pc \in {"publishing", "marking", "cleanup"}
                      => task'.status = "SUCCEEDED"
      <4>1. CASE worker'[v] = worker[v]
        BY <3>1, <4>1
      <4>2. CASE worker'[v].pc = "idle"
        BY <4>2
      <4> QED
        BY <3>2, <4>1, <4>2
    <3>4. PendingIsStaged'
      BY <3>1
    <3> QED
      BY <3>3, <3>4
  <2>16. CASE WorkerDies(w)
    BY <2>16 DEF WorkerDies, JobEnds, IdleWorker
  <2> QED
    BY <1>5, <2>1, <2>2, <2>3, <2>4, <2>5, <2>6, <2>7, <2>8, <2>9, <2>10,
       <2>11, <2>12, <2>13, <2>14, <2>15, <2>16
    DEF WorkerStep
<1>6. ASSUME NEW c \in Consumers, ConsumerStep(c)
     PROVE  Journaled'
  <2>1. CASE Inspect(c)
    BY <2>1 DEF Inspect
  <2>2. CASE Reinspect(c)
    BY <2>2 DEF Reinspect
  <2>3. CASE Finalize(c)
    BY <2>3 DEF Finalize, Gate
  <2>4. CASE ConsumeThrows(c)
    BY <2>4 DEF ConsumeThrows
  <2>5. CASE RecordDeliveryFailure(c)
    BY <2>5 DEF RecordDeliveryFailure, Redeliver, DeliveryOpen
  <2>6. CASE ConsumerDies(c)
    BY <2>6 DEF ConsumerDies, Redeliver
  <2> QED
    BY <1>6, <2>1, <2>2, <2>3, <2>4, <2>5, <2>6 DEF ConsumerStep
<1>7. ASSUME NEW s \in Staff, StaffStep(s)
     PROVE  Journaled'
  <2>1. CASE RetryReadCase(s)
    BY <2>1 DEF RetryReadCase
  <2>2. CASE RetryReadTask(s)
    BY <2>2 DEF RetryReadTask
  <2>3. CASE RetryRender(s)
    BY <2>3 DEF RetryRender
  <2>4. CASE RetryDelivery(s)
    BY <2>4 DEF RetryDelivery
  <2>5. CASE StaffAborts(s)
    BY <2>5 DEF StaffAborts
  <2>6. CASE CloseRead(s)
    BY <2>6 DEF CloseRead
  <2>7. CASE CloseWrite(s)
    BY <2>7 DEF CloseWrite
  <2> QED
    BY <1>7, <2>1, <2>2, <2>3, <2>4, <2>5, <2>6, <2>7 DEF StaffStep
<1>8. CASE UNCHANGED vars
  BY <1>8 DEF vars
<1> QED
  BY <1>1, <1>2, <1>3, <1>4, <1>5, <1>6, <1>7, <1>8 DEF Next

\* Sending a durable row leaves only durable events.
LEMMA SendDurable ==
  ASSUME NEW row \in OutboxRow, DurableRow(row), Carried, Send(row)
  PROVE  \A ev \in events' : DurableFile(ev.file)
<1>1. CASE row.queue = FinalQueue
  BY <1>1 DEF Send, Carried
<1>2. CASE row.queue # FinalQueue
  <2>1. DurableFile(row.file)
    BY <1>2 DEF OutboxRow, DurableRow
  <2>2. events' = events \cup
                    {[gen |-> row.gen, file |-> row.file, retry |-> 0]}
    BY <1>2 DEF Send
  <2> QED
    BY <2>1, <2>2 DEF Carried
<1> QED
  BY <1>1, <1>2

\* So does a redelivery.
LEMMA RedeliverDurable ==
  ASSUME NEW c \in Consumers, TypeOK, Carried, consumer[c].pc # "idle",
         Redeliver(consumer[c].ev)
  PROVE  \A ev \in events' : DurableFile(ev.file)
<1>1. consumer[c].ev \in Event
  BY DEF TypeOK, ConsumerState
<1>2. [consumer[c].ev EXCEPT !.retry = @ + 1].file = consumer[c].ev.file
  BY <1>1 DEF Event
<1>3. DurableFile(consumer[c].ev.file)
  BY DEF Carried
<1> QED
  BY <1>2, <1>3 DEF Redeliver, Carried

\* Objects are never removed and the output never changes, so that references
\* stay good.
LEMMA CarriedStep ==
  ASSUME TypeOK, StagedBytes, OneOutput, Carried, [Next]_vars
  PROVE  Carried'
<1> USE
      DEF Carried, DurableRow, DurableFile, OneOutput, TypeOK, Task,
          WorkerState, FinalQueue, FinalizedQueue, dbVars, storageVars,
          queueVars
<1>1. CASE Enqueue
  BY <1>1 DEF Enqueue
<1>2. CASE LeaseExpires
  BY <1>2 DEF LeaseExpires
<1>3. CASE LateUpload
  BY <1>3 DEF LateUpload
<1>4. CASE ReconStep
  <2>1. CASE ReconPick
    BY <2>1 DEF ReconPick
  <2>2. CASE ReconSend
    <3>1. recon.row \in OutboxRow /\ DurableRow(recon.row)
      BY <2>2 DEF ReconSend, ReconState
    <3>2. \A ev \in events' : DurableFile(ev.file)
      BY <2>2, <3>1, SendDurable DEF ReconSend
    <3> QED
      BY <2>2, <3>2 DEF ReconSend
  <2>3. CASE ReconMark
    BY <2>3 DEF ReconMark, IdleRecon
  <2>4. CASE ReconFails
    BY <2>4 DEF ReconFails, IdleRecon
  <2> QED
    BY <1>4, <2>1, <2>2, <2>3, <2>4 DEF ReconStep
<1>5. ASSUME NEW w \in Workers, WorkerStep(w)
     PROVE  Carried'
  <2>1. CASE ClaimRefused(w)
    BY <2>1 DEF ClaimRefused, TakesJob
  <2>2. CASE ClaimDuplicate(w)
    BY <2>2 DEF ClaimDuplicate, TakesJob
  <2>3. CASE ClaimExhausted(w)
    BY <2>3 DEF ClaimExhausted, TakesJob
  <2>4. CASE Claim(w)
    BY <2>4 DEF Claim, TakesJob, Claimable, IdleWorker
  <2>5. CASE LoadSnapshot(w)
    BY <2>5 DEF LoadSnapshot
  <2>6. CASE Stage(w)
    BY <2>6 DEF Stage
  <2>7. CASE JournalPending(w)
    BY <2>7 DEF JournalPending, HoldsLease
  <2>8. CASE WriteContent(w)
    BY <2>8 DEF WriteContent
  <2>9. CASE Complete(w)
    BY <2>9 DEF Complete, HoldsLease
  <2>10. CASE CompleteDuplicate(w)
    BY <2>10 DEF CompleteDuplicate, IdleWorker
  <2>11. CASE WorkerSend(w)
    <3>1. worker[w].row \in OutboxRow /\ DurableRow(worker[w].row)
      BY <2>11 DEF WorkerSend
    <3>2. \A ev \in events' : DurableFile(ev.file)
      BY <2>11, <3>1, SendDurable DEF WorkerSend
    <3> QED
      BY <2>11, <3>2 DEF WorkerSend
  <2>12. CASE WorkerMark(w)
    BY <2>12 DEF WorkerMark
  <2>13. CASE WorkerPublishFails(w)
    BY <2>13 DEF WorkerPublishFails, JobEnds, IdleWorker
  <2>14. CASE Cleanup(w)
    BY <2>14 DEF Cleanup, JobEnds, IdleWorker
  <2>15. CASE HandlerFails(w)
    <3>1. /\ task'.output = task.output
          /\ task.status = "SUCCEEDED" <=> task'.status = "SUCCEEDED"
          /\ UNCHANGED <<stored, outbox, events, recon, consumer, staff>>
      BY <2>15 DEF HandlerFails, HoldsLease, JobEnds
    <3>2. \A v \in Workers : worker'[v] = worker[v] \/ worker'[v].pc = "idle"
      BY <2>15 DEF HandlerFails, IdleWorker
    <3>3. ASSUME NEW v \in Workers
          PROVE  /\ worker'[v].pc = "stored" => worker'[v].sha \in stored'
                 /\ worker'[v].pc \in {"publishing", "marking"}
                      => DurableRow(worker[v].row)'
      <4>1. CASE worker'[v] = worker[v]
        BY <3>1, <4>1
      <4>2. CASE worker'[v].pc = "idle"
        BY <4>2
      <4> QED
        BY <3>2, <4>1, <4>2
    <3> QED
      BY <3>1, <3>3
  <2>16. CASE WorkerDies(w)
    BY <2>16 DEF WorkerDies, JobEnds, IdleWorker
  <2> QED
    BY <1>5, <2>1, <2>2, <2>3, <2>4, <2>5, <2>6, <2>7, <2>8, <2>9, <2>10,
       <2>11, <2>12, <2>13, <2>14, <2>15, <2>16
    DEF WorkerStep
<1>6. ASSUME NEW c \in Consumers, ConsumerStep(c)
     PROVE  Carried'
  <2>1. CASE Inspect(c)
    BY <2>1 DEF Inspect
  <2>2. CASE Reinspect(c)
    BY <2>2 DEF Reinspect
  <2>3. CASE Finalize(c)
    BY <2>3 DEF Finalize, Gate, IdleConsumer
  <2>4. CASE ConsumeThrows(c)
    BY <2>4 DEF ConsumeThrows
  <2>5. CASE RecordDeliveryFailure(c)
    <3>1. \A ev \in events' : DurableFile(ev.file)
      BY <2>5, RedeliverDurable DEF RecordDeliveryFailure
    <3>2. /\ task'.output = task.output
          /\ task.status = "SUCCEEDED" <=> task'.status = "SUCCEEDED"
      BY <2>5 DEF RecordDeliveryFailure
    <3> QED
      BY <2>5, <3>1, <3>2 DEF RecordDeliveryFailure, IdleConsumer
  <2>6. CASE ConsumerDies(c)
    <3>1. \A ev \in events' : DurableFile(ev.file)
      BY <2>6, RedeliverDurable DEF ConsumerDies
    <3> QED
      BY <2>6, <3>1 DEF ConsumerDies, IdleConsumer
  <2> QED
    BY <1>6, <2>1, <2>2, <2>3, <2>4, <2>5, <2>6 DEF ConsumerStep
<1>7. ASSUME NEW s \in Staff, StaffStep(s)
     PROVE  Carried'
  <2>1. CASE RetryReadCase(s)
    BY <2>1 DEF RetryReadCase
  <2>2. CASE RetryReadTask(s)
    BY <2>2 DEF RetryReadTask
  <2>3. CASE RetryRender(s)
    BY <2>3 DEF RetryRender
  <2>4. CASE RetryDelivery(s)
    BY <2>4 DEF RetryDelivery
  <2>5. CASE StaffAborts(s)
    BY <2>5 DEF StaffAborts
  <2>6. CASE CloseRead(s)
    BY <2>6 DEF CloseRead
  <2>7. CASE CloseWrite(s)
    BY <2>7 DEF CloseWrite
  <2> QED
    BY <1>7, <2>1, <2>2, <2>3, <2>4, <2>5, <2>6, <2>7 DEF StaffStep
<1>8. CASE UNCHANGED vars
  BY <1>8 DEF vars
<1> QED
  BY <1>1, <1>2, <1>3, <1>4, <1>5, <1>6, <1>7, <1>8 DEF Next

\* Task and case change together, or the case has left FINALIZING.
LEMMA ReportedStep ==
  ASSUME TypeOK, OneOutput, Carried, Reported, [Next]_vars
  PROVE  Reported'
<1> USE
      DEF Reported, CompletedIsDelivered, FailureIsVisible, OneOutput, TypeOK,
          Task, CaseStatuses, FailCase, Terminal, Carried, dbVars,
          storageVars, queueVars
<1>1. CASE Enqueue
  BY <1>1 DEF Enqueue
<1>2. CASE LeaseExpires
  BY <1>2 DEF LeaseExpires
<1>3. CASE LateUpload
  BY <1>3 DEF LateUpload
<1>4. CASE ReconStep
  <2>1. CASE ReconPick
    BY <2>1 DEF ReconPick
  <2>2. CASE ReconSend
    BY <2>2 DEF ReconSend, Send
  <2>3. CASE ReconMark
    BY <2>3 DEF ReconMark
  <2>4. CASE ReconFails
    BY <2>4 DEF ReconFails
  <2> QED
    BY <1>4, <2>1, <2>2, <2>3, <2>4 DEF ReconStep
<1>5. ASSUME NEW w \in Workers, WorkerStep(w)
     PROVE  Reported'
  <2>1. CASE ClaimRefused(w)
    BY <2>1 DEF ClaimRefused, TakesJob
  <2>2. CASE ClaimDuplicate(w)
    BY <2>2 DEF ClaimDuplicate, TakesJob
  <2>3. CASE ClaimExhausted(w)
    BY <2>3 DEF ClaimExhausted, TakesJob
  <2>4. CASE Claim(w)
    BY <2>4 DEF Claim, TakesJob, Claimable
  <2>5. CASE LoadSnapshot(w)
    BY <2>5 DEF LoadSnapshot
  <2>6. CASE Stage(w)
    BY <2>6 DEF Stage
  <2>7. CASE JournalPending(w)
    BY <2>7 DEF JournalPending, HoldsLease
  <2>8. CASE WriteContent(w)
    BY <2>8 DEF WriteContent
  <2>9. CASE Complete(w)
    BY <2>9 DEF Complete, HoldsLease
  <2>10. CASE CompleteDuplicate(w)
    BY <2>10 DEF CompleteDuplicate
  <2>11. CASE WorkerSend(w)
    BY <2>11 DEF WorkerSend, Send
  <2>12. CASE WorkerMark(w)
    BY <2>12 DEF WorkerMark
  <2>13. CASE WorkerPublishFails(w)
    BY <2>13 DEF WorkerPublishFails, JobEnds
  <2>14. CASE Cleanup(w)
    BY <2>14 DEF Cleanup, JobEnds
  <2>15. CASE HandlerFails(w)
    BY <2>15 DEF HandlerFails, HoldsLease, JobEnds
  <2>16. CASE WorkerDies(w)
    BY <2>16 DEF WorkerDies, JobEnds
  <2> QED
    BY <1>5, <2>1, <2>2, <2>3, <2>4, <2>5, <2>6, <2>7, <2>8, <2>9, <2>10,
       <2>11, <2>12, <2>13, <2>14, <2>15, <2>16
    DEF WorkerStep
<1>6. ASSUME NEW c \in Consumers, ConsumerStep(c)
     PROVE  Reported'
  <2>1. CASE Inspect(c)
    BY <2>1 DEF Inspect
  <2>2. CASE Reinspect(c)
    BY <2>2 DEF Reinspect
  <2>3. CASE Finalize(c)
    BY <2>3 DEF Finalize, Gate
  <2>4. CASE ConsumeThrows(c)
    BY <2>4 DEF ConsumeThrows
  <2>5. CASE RecordDeliveryFailure(c)
    BY <2>5 DEF RecordDeliveryFailure, Redeliver, DeliveryOpen
  <2>6. CASE ConsumerDies(c)
    BY <2>6 DEF ConsumerDies, Redeliver
  <2> QED
    BY <1>6, <2>1, <2>2, <2>3, <2>4, <2>5, <2>6 DEF ConsumerStep
<1>7. ASSUME NEW s \in Staff, StaffStep(s)
     PROVE  Reported'
  <2>1. CASE RetryReadCase(s)
    BY <2>1 DEF RetryReadCase
  <2>2. CASE RetryReadTask(s)
    BY <2>2 DEF RetryReadTask
  <2>3. CASE RetryRender(s)
    BY <2>3 DEF RetryRender
  <2>4. CASE RetryDelivery(s)
    BY <2>4 DEF RetryDelivery
  <2>5. CASE StaffAborts(s)
    BY <2>5 DEF StaffAborts
  <2>6. CASE CloseRead(s)
    BY <2>6 DEF CloseRead
  <2>7. CASE CloseWrite(s)
    BY <2>7 DEF CloseWrite
  <2> QED
    BY <1>7, <2>1, <2>2, <2>3, <2>4, <2>5, <2>6, <2>7 DEF StaffStep
<1>8. CASE UNCHANGED vars
  BY <1>8 DEF vars
<1> QED
  BY <1>1, <1>2, <1>3, <1>4, <1>5, <1>6, <1>7, <1>8 DEF Next

\* If consumers report every failure, a delivery that is pending is carried by
\* an outbox row, an event or a consumer.
LEMMA DeliveringStep ==
  ASSUME TypeOK, OneOutput, Carried, Reported, Delivering,
         Consumers \cap Mortal = {}, [Next]_vars
  PROVE  Delivering'
<1> USE
      DEF Delivering, Moving, Current, NotNewer, OneOutput, Carried,
          DurableFile, Reported, TypeOK, Task, FinalQueue, FinalizedQueue,
          dbVars, storageVars, queueVars
<1>1. CASE Enqueue
  BY <1>1 DEF Enqueue
<1>2. CASE LeaseExpires
  BY <1>2 DEF LeaseExpires
<1>3. CASE LateUpload
  BY <1>3 DEF LateUpload
<1>4. CASE ReconStep
  <2>1. CASE ReconPick
    BY <2>1 DEF ReconPick
  <2>2. CASE ReconSend
    BY <2>2 DEF ReconSend, Send, OutboxRow, WorkerState, ReconState
  <2>3. CASE ReconMark
    BY <2>3 DEF ReconMark, IdleRecon
  <2>4. CASE ReconFails
    BY <2>4 DEF ReconFails, IdleRecon
  <2> QED
    BY <1>4, <2>1, <2>2, <2>3, <2>4 DEF ReconStep
<1>5. ASSUME NEW w \in Workers, WorkerStep(w)
     PROVE  Delivering'
  <2>1. CASE ClaimRefused(w)
    BY <2>1 DEF ClaimRefused, TakesJob
  <2>2. CASE ClaimDuplicate(w)
    BY <2>2 DEF ClaimDuplicate, TakesJob
  <2>3. CASE ClaimExhausted(w)
    BY <2>3 DEF ClaimExhausted, TakesJob
  <2>4. CASE Claim(w)
    BY <2>4 DEF Claim, TakesJob, Claimable, IdleWorker
  <2>5. CASE LoadSnapshot(w)
    BY <2>5 DEF LoadSnapshot
  <2>6. CASE Stage(w)
    BY <2>6 DEF Stage
  <2>7. CASE JournalPending(w)
    BY <2>7 DEF JournalPending, HoldsLease
  <2>8. CASE WriteContent(w)
    BY <2>8 DEF WriteContent
  <2>9. CASE Complete(w)
    <3>0. PICK new : new =
                 [queue |-> FinalizedQueue, gen |-> task.deliverGen + 1,
                  file |-> [gen |-> worker[w].gen, sha |-> worker[w].sha]]
      OBVIOUS
    <3>1. /\ task'.deliverGen = task.deliverGen + 1
          /\ outbox' = outbox \cup {new}
          /\ UNCHANGED <<events, recon, consumer>>
      BY <2>9, <3>0 DEF Complete
    <3>2. task.deliverGen \in Nat
      BY ConstantsAssumption
    <3>3. ASSUME NEW row \in OutboxRow, NotNewer(row)
          PROVE  NotNewer(row)' /\ ~Current(row)'
      BY <3>1, <3>2, <3>3 DEF OutboxRow
    <3>4. NotNewer(new)' /\ Current(new)'
      BY <3>0, <3>1, <3>2
    <3>5. /\ recon.row \in OutboxRow
          /\ \A v \in Workers : worker[v].row \in OutboxRow
      BY DEF ReconState, WorkerState
    <3>6. \A row \in outbox' : NotNewer(row)'
      BY <3>1, <3>3, <3>4
    <3>7. (\E row \in outbox : Current(row))'
      BY <3>1, <3>4
    <3>8. recon'.pc # "idle" => NotNewer(recon.row)' /\ ~Current(recon.row)'
      BY <3>1, <3>3, <3>5
    <3>9. ASSUME NEW v \in Workers,
                 worker'[v].pc \in {"publishing", "marking"}
          PROVE  /\ NotNewer(worker[v].row)'
                 /\ worker'[v].pc = "marking" => ~Current(worker[v].row)'
      <4>1. CASE v = w
        <5>1. worker'[v].row = new /\ worker'[v].pc = "publishing"
          BY <2>9, <3>0, <4>1 DEF Complete, WorkerState
        <5> QED
          BY <3>4, <5>1
      <4>2. CASE v # w
        <5>1. worker'[v] = worker[v]
          BY <2>9, <4>2 DEF Complete
        <5> QED
          BY <3>3, <3>5, <3>9, <5>1
      <4> QED
        BY <4>1, <4>2
    <3> QED
      BY <3>6, <3>7, <3>8, <3>9
  <2>10. CASE CompleteDuplicate(w)
    BY <2>10 DEF CompleteDuplicate, IdleWorker
  <2>11. CASE WorkerSend(w)
    <3>1. worker[w].row \in OutboxRow
      BY DEF WorkerState
    <3>2. Current(worker[w].row) => Moving'
      BY <2>11, <3>1 DEF WorkerSend, Send, OutboxRow
    <3>3. Moving => Moving'
      BY <2>11 DEF WorkerSend, Send
    <3> QED
      BY <2>11, <3>2, <3>3 DEF WorkerSend
  <2>12. CASE WorkerMark(w)
    BY <2>12 DEF WorkerMark
  <2>13. CASE WorkerPublishFails(w)
    <3>1. /\ UNCHANGED <<outbox, events, recon, consumer>>
          /\ task' = task
      BY <2>13 DEF WorkerPublishFails, JobEnds
    <3>2. \A v \in Workers :
            \/ worker'[v] = worker[v]
            \/ worker'[v].pc \in {"idle", "cleanup"}
      BY <2>13 DEF WorkerPublishFails, IdleWorker, WorkerState
    <3>3. ASSUME NEW v \in Workers
          PROVE  /\ worker'[v].pc = "marking" /\ Current(worker[v].row)'
                     /\ task'.fin = "PENDING" => Moving'
                 /\ worker'[v].pc \in {"publishing", "marking"}
                      => NotNewer(worker[v].row)'
      <4>1. CASE worker'[v] = worker[v]
        BY <3>1, <4>1
      <4>2. CASE worker'[v].pc \in {"idle", "cleanup"}
        BY <4>2
      <4> QED
        BY <3>2, <4>1, <4>2
    <3> QED
      BY <3>1, <3>3
  <2>14. CASE Cleanup(w)
    BY <2>14 DEF Cleanup, JobEnds, IdleWorker
  <2>15. CASE HandlerFails(w)
    <3>1. /\ UNCHANGED <<outbox, events, recon, consumer>>
          /\ task'.fin = task.fin /\ task'.deliverGen = task.deliverGen
      BY <2>15 DEF HandlerFails, JobEnds
    <3>2. \A v \in Workers :
            \/ worker'[v] = worker[v]
            \/ worker'[v].pc \in {"idle", "cleanup"}
      BY <2>15 DEF HandlerFails, IdleWorker, WorkerState
    <3>3. ASSUME NEW v \in Workers
          PROVE  /\ worker'[v].pc = "marking" /\ Current(worker[v].row)'
                     /\ task'.fin = "PENDING" => Moving'
                 /\ worker'[v].pc \in {"publishing", "marking"}
                      => NotNewer(worker[v].row)'
      <4>1. CASE worker'[v] = worker[v]
        BY <3>1, <4>1
      <4>2. CASE worker'[v].pc \in {"idle", "cleanup"}
        BY <4>2
      <4> QED
        BY <3>2, <4>1, <4>2
    <3> QED
      BY <3>1, <3>3
  <2>16. CASE WorkerDies(w)
    BY <2>16 DEF WorkerDies, JobEnds, IdleWorker
  <2> QED
    BY <1>5, <2>1, <2>2, <2>3, <2>4, <2>5, <2>6, <2>7, <2>8, <2>9, <2>10,
       <2>11, <2>12, <2>13, <2>14, <2>15, <2>16
    DEF WorkerStep
<1>6. ASSUME NEW c \in Consumers, ConsumerStep(c)
     PROVE  Delivering'
  <2>1. CASE Inspect(c)
    BY <2>1 DEF Inspect
  <2>2. CASE Reinspect(c)
    BY <2>2 DEF Reinspect
  <2>3. CASE Finalize(c)
    BY <2>3 DEF Finalize, Gate
  <2>4. CASE ConsumeThrows(c)
    BY <2>4 DEF ConsumeThrows
  <2>5. CASE RecordDeliveryFailure(c)
    <3>1. task'.fin = "PENDING" => Moving'
      <4>1. consumer[c].ev \in Event /\ consumer[c].pc = "failing"
        BY <2>5 DEF RecordDeliveryFailure, ConsumerState
      <4>2. CASE consumer[c].ev.retry < RetryLimit
        BY <2>5, <4>2 DEF RecordDeliveryFailure, Redeliver
      <4>3. CASE ~(consumer[c].ev.retry < RetryLimit)
        <5>1. DurableFile(consumer[c].ev.file)
          BY <4>1
        <5>2. consumer[c].ev.retry >= RetryLimit
          BY <4>1, <4>3, ConstantsAssumption DEF Event
        <5> QED
          BY <2>5, <5>1, <5>2 DEF RecordDeliveryFailure, DeliveryOpen
      <4> QED
        BY <4>2, <4>3
    <3>2. task'.deliverGen = task.deliverGen
      BY <2>5 DEF RecordDeliveryFailure
    <3>3. UNCHANGED <<outbox, recon, worker>>
      BY <2>5 DEF RecordDeliveryFailure
    <3> QED
      BY <3>1, <3>2, <3>3
  <2>6. CASE ConsumerDies(c)
    BY <2>6 DEF ConsumerDies, Redeliver
  <2> QED
    BY <1>6, <2>1, <2>2, <2>3, <2>4, <2>5, <2>6 DEF ConsumerStep
<1>7. ASSUME NEW s \in Staff, StaffStep(s)
     PROVE  Delivering'
  <2>1. CASE RetryReadCase(s)
    BY <2>1 DEF RetryReadCase
  <2>2. CASE RetryReadTask(s)
    BY <2>2 DEF RetryReadTask
  <2>3. CASE RetryRender(s)
    BY <2>3 DEF RetryRender
  <2>4. CASE RetryDelivery(s)
    <3>0. PICK new : new =
                 [queue |-> FinalizedQueue, gen |-> task.deliverGen + 1,
                  file |-> task.output]
      OBVIOUS
    <3>1. /\ task'.deliverGen = task.deliverGen + 1
          /\ outbox' = outbox \cup {new}
          /\ UNCHANGED <<events, recon, consumer>>
      BY <2>4, <3>0 DEF RetryDelivery
    <3>2. task.deliverGen \in Nat
      BY ConstantsAssumption
    <3>3. ASSUME NEW row \in OutboxRow, NotNewer(row)
          PROVE  NotNewer(row)' /\ ~Current(row)'
      BY <3>1, <3>2, <3>3 DEF OutboxRow
    <3>4. NotNewer(new)' /\ Current(new)'
      BY <3>0, <3>1, <3>2
    <3>5. /\ recon.row \in OutboxRow
          /\ \A v \in Workers : worker[v].row \in OutboxRow
      BY DEF ReconState, WorkerState
    <3>6. \A row \in outbox' : NotNewer(row)'
      BY <3>1, <3>3, <3>4
    <3>7. (\E row \in outbox : Current(row))'
      BY <3>1, <3>4
    <3>8. recon'.pc # "idle" => NotNewer(recon.row)' /\ ~Current(recon.row)'
      BY <3>1, <3>3, <3>5
    <3>9. ASSUME NEW v \in Workers,
                 worker'[v].pc \in {"publishing", "marking"}
          PROVE  /\ NotNewer(worker[v].row)'
                 /\ worker'[v].pc = "marking" => ~Current(worker[v].row)'
      <4>1. worker' = worker
        BY <2>4 DEF RetryDelivery
      <4> QED
        BY <3>3, <3>5, <3>9, <4>1
    <3> QED
      BY <3>6, <3>7, <3>8, <3>9
  <2>5. CASE StaffAborts(s)
    BY <2>5 DEF StaffAborts
  <2>6. CASE CloseRead(s)
    BY <2>6 DEF CloseRead
  <2>7. CASE CloseWrite(s)
    BY <2>7 DEF CloseWrite
  <2> QED
    BY <1>7, <2>1, <2>2, <2>3, <2>4, <2>5, <2>6, <2>7 DEF StaffStep
<1>8. CASE UNCHANGED vars
  BY <1>8 DEF vars
<1> QED
  BY <1>1, <1>2, <1>3, <1>4, <1>5, <1>6, <1>7, <1>8 DEF Next

\* SUCCEEDED and the output survive every step: the fence stops handlers, the
\* check constraint stops staff.
LEMMA SucceededStep ==
  ASSUME TypeOK, OneOutput, task.status = "SUCCEEDED", [Next]_vars
  PROVE  task'.status = "SUCCEEDED" /\ task'.output = task.output
<1> USE
      DEF OneOutput, TypeOK, Task, Claimable, HoldsLease, dbVars, storageVars,
          queueVars
<1>1. CASE Enqueue
  BY <1>1 DEF Enqueue
<1>2. CASE LeaseExpires
  BY <1>2 DEF LeaseExpires
<1>3. CASE LateUpload
  BY <1>3 DEF LateUpload
<1>4. CASE ReconStep
  <2>1. CASE ReconPick
    BY <2>1 DEF ReconPick
  <2>2. CASE ReconSend
    BY <2>2 DEF ReconSend, Send
  <2>3. CASE ReconMark
    BY <2>3 DEF ReconMark
  <2>4. CASE ReconFails
    BY <2>4 DEF ReconFails
  <2> QED
    BY <1>4, <2>1, <2>2, <2>3, <2>4 DEF ReconStep
<1>5. ASSUME NEW w \in Workers, WorkerStep(w)
     PROVE  task'.status = "SUCCEEDED" /\ task'.output = task.output
  <2>1. CASE ClaimRefused(w)
    BY <2>1 DEF ClaimRefused, TakesJob
  <2>2. CASE ClaimDuplicate(w)
    BY <2>2 DEF ClaimDuplicate, TakesJob
  <2>3. CASE ClaimExhausted(w)
    BY <2>3 DEF ClaimExhausted, TakesJob
  <2>4. CASE Claim(w)
    BY <2>4 DEF Claim, TakesJob, Claimable
  <2>5. CASE LoadSnapshot(w)
    BY <2>5 DEF LoadSnapshot
  <2>6. CASE Stage(w)
    BY <2>6 DEF Stage
  <2>7. CASE JournalPending(w)
    BY <2>7 DEF JournalPending, HoldsLease
  <2>8. CASE WriteContent(w)
    BY <2>8 DEF WriteContent
  <2>9. CASE Complete(w)
    BY <2>9 DEF Complete, HoldsLease
  <2>10. CASE CompleteDuplicate(w)
    BY <2>10 DEF CompleteDuplicate
  <2>11. CASE WorkerSend(w)
    BY <2>11 DEF WorkerSend, Send
  <2>12. CASE WorkerMark(w)
    BY <2>12 DEF WorkerMark
  <2>13. CASE WorkerPublishFails(w)
    BY <2>13 DEF WorkerPublishFails, JobEnds
  <2>14. CASE Cleanup(w)
    BY <2>14 DEF Cleanup, JobEnds
  <2>15. CASE HandlerFails(w)
    BY <2>15 DEF HandlerFails, HoldsLease, JobEnds
  <2>16. CASE WorkerDies(w)
    BY <2>16 DEF WorkerDies, JobEnds
  <2> QED
    BY <1>5, <2>1, <2>2, <2>3, <2>4, <2>5, <2>6, <2>7, <2>8, <2>9, <2>10,
       <2>11, <2>12, <2>13, <2>14, <2>15, <2>16
    DEF WorkerStep
<1>6. ASSUME NEW c \in Consumers, ConsumerStep(c)
     PROVE  task'.status = "SUCCEEDED" /\ task'.output = task.output
  <2>1. CASE Inspect(c)
    BY <2>1 DEF Inspect
  <2>2. CASE Reinspect(c)
    BY <2>2 DEF Reinspect
  <2>3. CASE Finalize(c)
    BY <2>3 DEF Finalize, Gate
  <2>4. CASE ConsumeThrows(c)
    BY <2>4 DEF ConsumeThrows
  <2>5. CASE RecordDeliveryFailure(c)
    BY <2>5 DEF RecordDeliveryFailure, Redeliver, DeliveryOpen
  <2>6. CASE ConsumerDies(c)
    BY <2>6 DEF ConsumerDies, Redeliver
  <2> QED
    BY <1>6, <2>1, <2>2, <2>3, <2>4, <2>5, <2>6 DEF ConsumerStep
<1>7. ASSUME NEW s \in Staff, StaffStep(s)
     PROVE  task'.status = "SUCCEEDED" /\ task'.output = task.output
  <2>1. CASE RetryReadCase(s)
    BY <2>1 DEF RetryReadCase
  <2>2. CASE RetryReadTask(s)
    BY <2>2 DEF RetryReadTask
  <2>3. CASE RetryRender(s)
    BY <2>3 DEF RetryRender
  <2>4. CASE RetryDelivery(s)
    BY <2>4 DEF RetryDelivery
  <2>5. CASE StaffAborts(s)
    BY <2>5 DEF StaffAborts
  <2>6. CASE CloseRead(s)
    BY <2>6 DEF CloseRead
  <2>7. CASE CloseWrite(s)
    BY <2>7 DEF CloseWrite
  <2> QED
    BY <1>7, <2>1, <2>2, <2>3, <2>4, <2>5, <2>6, <2>7 DEF StaffStep
<1>8. CASE UNCHANGED vars
  BY <1>8 DEF vars
<1> QED
  BY <1>1, <1>2, <1>3, <1>4, <1>5, <1>6, <1>7, <1>8 DEF Next

-----------------------------------------------------------------------------
(* The outline that CaseWorkflow gives *)

\* How the status of the case and the validity of its signing may change.
StatusKept ==
  \/ UNCHANGED <<caseStatus, signingValid>>
  \/ /\ signingValid' = signingValid
     /\ \/ caseStatus = "FINALIZING" /\ caseStatus' = "PDF_FAILED"
        \/ caseStatus' \in {"FINALIZING", "CLOSED"}
        \/ /\ caseStatus \in {"FINALIZING", "PDF_FAILED", "COMPLETED"}
           /\ caseStatus' = "COMPLETED" /\ signingValid
  \/ /\ caseStatus \notin Terminal /\ caseStatus' = caseStatus
     /\ signingValid /\ ~signingValid'

LEMMA StatusStep ==
  ASSUME [Next]_vars
  PROVE  StatusKept
<1> USE DEF StatusKept, dbVars, storageVars, queueVars
<1>1. CASE Enqueue
  BY <1>1 DEF Enqueue
<1>2. CASE LeaseExpires
  BY <1>2 DEF LeaseExpires
<1>3. CASE LateUpload
  BY <1>3 DEF LateUpload
<1>4. CASE ReconStep
  <2>1. CASE ReconPick
    BY <2>1 DEF ReconPick
  <2>2. CASE ReconSend
    BY <2>2 DEF ReconSend
  <2>3. CASE ReconMark
    BY <2>3 DEF ReconMark
  <2>4. CASE ReconFails
    BY <2>4 DEF ReconFails
  <2> QED
    BY <1>4, <2>1, <2>2, <2>3, <2>4 DEF ReconStep
<1>5. ASSUME NEW w \in Workers, WorkerStep(w)
     PROVE  StatusKept
  <2>1. CASE ClaimRefused(w)
    BY <2>1 DEF ClaimRefused
  <2>2. CASE ClaimDuplicate(w)
    BY <2>2 DEF ClaimDuplicate
  <2>3. CASE ClaimExhausted(w)
    BY <2>3 DEF ClaimExhausted, FailCase
  <2>4. CASE Claim(w)
    BY <2>4 DEF Claim
  <2>5. CASE LoadSnapshot(w)
    BY <2>5 DEF LoadSnapshot
  <2>6. CASE Stage(w)
    BY <2>6 DEF Stage
  <2>7. CASE JournalPending(w)
    BY <2>7 DEF JournalPending
  <2>8. CASE WriteContent(w)
    BY <2>8 DEF WriteContent
  <2>9. CASE Complete(w)
    BY <2>9 DEF Complete
  <2>10. CASE CompleteDuplicate(w)
    BY <2>10 DEF CompleteDuplicate
  <2>11. CASE WorkerSend(w)
    BY <2>11 DEF WorkerSend
  <2>12. CASE WorkerMark(w)
    BY <2>12 DEF WorkerMark
  <2>13. CASE WorkerPublishFails(w)
    BY <2>13 DEF WorkerPublishFails
  <2>14. CASE Cleanup(w)
    BY <2>14 DEF Cleanup
  <2>15. CASE HandlerFails(w)
    BY <2>15 DEF HandlerFails, FailCase
  <2>16. CASE WorkerDies(w)
    BY <2>16 DEF WorkerDies
  <2> QED
    BY <1>5, <2>1, <2>2, <2>3, <2>4, <2>5, <2>6, <2>7, <2>8, <2>9, <2>10,
       <2>11, <2>12, <2>13, <2>14, <2>15, <2>16
    DEF WorkerStep
<1>6. ASSUME NEW c \in Consumers, ConsumerStep(c)
     PROVE  StatusKept
  <2>1. CASE Inspect(c)
    BY <2>1 DEF Inspect
  <2>2. CASE Reinspect(c)
    BY <2>2 DEF Reinspect
  <2>3. CASE Finalize(c)
    BY <2>3 DEF Finalize, Gate
  <2>4. CASE ConsumeThrows(c)
    BY <2>4 DEF ConsumeThrows
  <2>5. CASE RecordDeliveryFailure(c)
    BY <2>5 DEF RecordDeliveryFailure, FailCase
  <2>6. CASE ConsumerDies(c)
    BY <2>6 DEF ConsumerDies
  <2> QED
    BY <1>6, <2>1, <2>2, <2>3, <2>4, <2>5, <2>6 DEF ConsumerStep
<1>7. ASSUME NEW s \in Staff, StaffStep(s)
     PROVE  StatusKept
  <2>1. CASE RetryReadCase(s)
    BY <2>1 DEF RetryReadCase
  <2>2. CASE RetryReadTask(s)
    BY <2>2 DEF RetryReadTask
  <2>3. CASE RetryRender(s)
    BY <2>3 DEF RetryRender
  <2>4. CASE RetryDelivery(s)
    BY <2>4 DEF RetryDelivery
  <2>5. CASE StaffAborts(s)
    BY <2>5 DEF StaffAborts
  <2>6. CASE CloseRead(s)
    BY <2>6 DEF CloseRead
  <2>7. CASE CloseWrite(s)
    BY <2>7 DEF CloseWrite
  <2> QED
    BY <1>7, <2>1, <2>2, <2>3, <2>4, <2>5, <2>6, <2>7 DEF StaffStep
<1>8. CASE UNCHANGED vars
  BY <1>8 DEF vars
<1> QED
  BY <1>1, <1>2, <1>3, <1>4, <1>5, <1>6, <1>7, <1>8 DEF Next

\* Each of these is a step of the lifecycle.
LEMMA LifecycleStep ==
  ASSUME TypeOK, [Next]_vars
  PROVE  [Lifecycle!Next]_(Lifecycle!vars)
<1> USE DEF Held, Lifecycle!Moves, Lifecycle!Terminal
<1>1. caseStatus \in {"FINALIZING", "PDF_FAILED", "COMPLETED", "CLOSED"}
      /\ signingValid \in BOOLEAN
  BY DEF TypeOK, CaseStatuses
<1>2. CASE UNCHANGED <<caseStatus, signingValid>>
  BY <1>2 DEF Lifecycle!vars
<1>3. CASE /\ UNCHANGED signingValid
           /\ caseStatus = "FINALIZING" /\ caseStatus' = "PDF_FAILED"
  BY <1>3 DEF Lifecycle!Next, Lifecycle!Fail
<1>4. ASSUME UNCHANGED signingValid, caseStatus' # caseStatus,
             caseStatus' = "FINALIZING"
      PROVE  Lifecycle!Next
  <2>1. Lifecycle!Retry \/ Lifecycle!LateRetry
    BY <1>1, <1>4 DEF Lifecycle!Retry, Lifecycle!LateRetry
  <2> QED
    BY <2>1 DEF Lifecycle!Next
<1>5. ASSUME UNCHANGED signingValid, caseStatus' # caseStatus,
             caseStatus' = "CLOSED"
      PROVE  Lifecycle!Next
  <2>1. Lifecycle!Close \/ Lifecycle!LateClose
    BY <1>1, <1>5 DEF Lifecycle!Close, Lifecycle!LateClose
  <2> QED
    BY <2>1 DEF Lifecycle!Next
<1>6. CASE /\ UNCHANGED signingValid /\ signingValid
           /\ caseStatus \in {"FINALIZING", "PDF_FAILED"}
           /\ caseStatus' = "COMPLETED"
  <2>1. Lifecycle!Complete \/ Lifecycle!LateComplete
    BY <1>6 DEF Lifecycle!Complete, Lifecycle!LateComplete, Lifecycle!Settled
  <2> QED
    BY <2>1 DEF Lifecycle!Next
<1>7. CASE /\ caseStatus \notin Terminal /\ caseStatus' = caseStatus
           /\ signingValid /\ ~signingValid'
  <2>1. Lifecycle!Change
    BY <1>7 DEF Terminal, Lifecycle!Change
  <2> QED
    BY <2>1 DEF Lifecycle!Next
<1> QED
  BY <1>2, <1>3, <1>4, <1>5, <1>6, <1>7, StatusStep DEF StatusKept

-----------------------------------------------------------------------------
(* The theorems *)

\* The state that ReviewService.confirm commits satisfies the invariant.
LEMMA InitInvariant == Init => IInv /\ Delivering
<1> SUFFICES ASSUME Init PROVE IInv /\ Delivering
  OBVIOUS
<1> USE ConstantsAssumption DEF Init
<1>1. TypeOK
  BY IdleIsTyped
  DEF TypeOK, CaseStatuses, Task, File, NoFile, NoLease, StaffState
<1>2. StagedBytes /\ Fenced
  BY DEF StagedBytes, Fenced, IdleWorker
<1>3. OneOutput
  BY DEF OneOutput, OneFinalPdf
<1>4. Journaled
  BY DEF Journaled, PendingIsStaged, IdleWorker
<1>5. Carried
  BY DEF Carried, IdleWorker, IdleRecon, IdleConsumer
<1>6. Reported
  BY DEF Reported, CompletedIsDelivered, FailureIsVisible
<1>7. Delivering
  BY DEF Delivering, IdleWorker, IdleRecon
<1> QED
  BY <1>1, <1>2, <1>3, <1>4, <1>5, <1>6, <1>7 DEF IInv

\* The invariant is inductive.
LEMMA StepInvariant == IInv /\ [Next]_vars => IInv'
BY TypeStep, FencedStep, OutputStep, JournalStep, CarriedStep, ReportedStep
DEF IInv

\* The inductive invariant holds throughout.
THEOREM Invariance == Spec => []IInv
BY InitInvariant, StepInvariant, PTL DEF Spec

\* Every variable stays in its type: attempts never pass maxAttempts, retry
\* counts never pass the limit of the queue.
THEOREM TypeCorrect == Spec => []TypeOK
<1>1. IInv => TypeOK
  BY DEF IInv
<1> QED
  BY <1>1, Invariance, PTL

\* However many handlers overlap, die or lose their leases, one FINAL_PDF is
\* recorded, by the newest claim (design 11: no inconsistent final records).
THEOREM OneDocument == Spec => []OneFinalPdf
<1>1. IInv => OneFinalPdf
  BY DEF IInv, OneOutput
<1> QED
  BY <1>1, Invariance, PTL

\* The journal never names bytes that the staging area has lost.
THEOREM JournalIsUsable == Spec => []PendingIsStaged
<1>1. IInv => PendingIsStaged
  BY DEF IInv, Journaled
<1> QED
  BY <1>1, Invariance, PTL

\* Every finalization event, first or duplicate, is about a durable document.
THEOREM EventsCarryDurableFiles == Spec => []EventsAreDurable
<1>1. IInv => EventsAreDurable
  BY DEF IInv, Carried, DurableFile, EventsAreDurable
<1> QED
  BY <1>1, Invariance, PTL

\* COMPLETED implies a delivered document over a valid signing, whatever
\* duplicates, stale failures, retries and late uploads do.
THEOREM CompletionIsSound == Spec => []CompletedIsDelivered
<1>1. IInv => CompletedIsDelivered
  BY DEF IInv, Reported
<1> QED
  BY <1>1, Invariance, PTL

\* A failure shows in the status of the case, and only a failure does.
THEOREM FailuresAreVisible == Spec => []FailureIsVisible
<1>1. IInv => FailureIsVisible
  BY DEF IInv, Reported
<1> QED
  BY <1>1, Invariance, PTL

\* No step re-opens a finished task or replaces its output.
THEOREM OutputIsFinal == Spec => SucceededIsFinal
<1>1. IInv /\ IInv' /\ [Next]_vars =>
        [task.status = "SUCCEEDED" =>
           task'.status = "SUCCEEDED" /\ task'.output = task.output]_vars
  <2> SUFFICES ASSUME IInv, IInv', Next, task.status = "SUCCEEDED"
               PROVE  task'.status = "SUCCEEDED" /\ task'.output = task.output
    OBVIOUS
  <2>1. IInv /\ [Next]_vars
    OBVIOUS
  <2> QED
    BY <2>1, SucceededStep DEF IInv
<1> QED
  BY <1>1, Invariance, PTL DEF Spec, SucceededIsFinal

\* If the API reports every failed delivery, a pending one is never lost
\* between outbox, queue and consumer.
THEOREM DeliveryIsCarried ==
  ASSUME Consumers \cap Mortal = {}
  PROVE  Spec => []DeliveryInFlight
<1>1. IInv /\ Delivering /\ [Next]_vars => Delivering'
  BY DeliveringStep DEF IInv
<1>2. Delivering => DeliveryInFlight
  BY DEF Delivering, DeliveryInFlight, Moving, Current
<1> QED
  BY <1>1, <1>2, InitInvariant, Invariance, PTL DEF Spec

\* Seen through its case and its signing, the pipeline is the outline that
\* CaseWorkflow and the lifecycle have of it.
THEOREM OutlineIsKept == Spec => KeepsLifecycle
<1>1. TypeOK /\ [Next]_vars => [Lifecycle!Next]_(Lifecycle!vars)
  BY LifecycleStep
<1> QED
  BY <1>1, TypeCorrect, PTL DEF Spec, KeepsLifecycle
=============================================================================
