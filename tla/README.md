# Verification of the authorization-document platform

TLA+ models, TLC checks and TLAPS proofs of the platform under `src/`: staff
open a *business case* from a template, a customer fills it in, uploads
materials, previews, signs and submits it through an anonymous link, reviewers
approve or reject each item, and a worker renders the final PDF.

    tlc -workers 2 -config MCPdfPipeline_fencing.cfg MCPdfPipeline   # any run
    tlapm PdfPipeline_proofs.tla                                     # the proofs

`PROJECT.json` lists the runs, the mutants (a faulty variant for each property,
which the property must notice), the source lines of every definition, the
findings and the hazards.

## 1. Inventory

A NestJS API (`apps/api`), a PDF worker (`apps/worker`), two React applications
(`apps/admin`, `apps/h5`), PostgreSQL through Prisma, pg-boss queues in the same
database and a local file store that both processes share.

| component | state | operations | what makes it correct |
|---|---|---|---|
| Cases, links (`cases/`, `case.repository.ts`) | BusinessCase.status, CaseDraft, PublicCaseLink, SigningRecord, preview FileVersions | create, submit draft, issue / renew / disable links, save draft, preview, sign, submit, close | one working link; a signing covers the current content; read-only after submission |
| Files (`files/`, `packages/storage`) | FileRecord, FileVersion, objects on disk | upload, remove, list, signing resources | changed materials invalidate the signing; limits per case; no row without its object |
| Review (`review/`) | reviewerUserId, RequirementReview | claim, assign, decide an item, confirm, new rejection message | only the assigned reviewer decides; status follows from the decisions; approvals stand |
| PDF worker (`apps/worker`) | PdfTask with lease and generation, staging objects, FINAL_PDF rows | enqueue, claim, render, stage, journal, store, complete, publish, reconcile, fail | one final document although handlers die or lose leases; events name durable files |
| Finalization (`api/src/pdf`) | PdfTask.finalizationStatus, BusinessCase.status | inspect, re-inspect, finalize, record failure, retry | completion only over an intact, signed, approved case; failures are shown; finalization ends |
| Catalogue (`requirements/`, `templates/`, `catalog-version.repository.ts`) | versions DRAFT / PUBLISHED / DISABLED | save, publish, disable | published versions are immutable; one draft; disabling concerns new cases only |
| Auth and roles (`auth/`, `roles/`) | cache of identities, role mappings | authenticate, refuse, resolve abilities, update a mapping | nobody acts for long on an identity that was taken back; grants come from mappings enabled while the request runs |
| Templates as documents (`template-engine`, `template-publish.validator.ts`, slots in `case.service.ts`) | the page tree of a published version | publish check, slots to sign, cut into pages, overlay | its four readers agree on the slots |
| Customer H5 (`apps/h5`) | wizard state, drafts' version, timers, upload entries, placement of the signature, PDF loads | edit, autosave, resolve a conflict, upload, remove, preview, place, sign, submit | two open pages do not overwrite each other unasked; the lists and the seal shown are what is stored; what is shown is what is signed |
| Admin application (`apps/admin`) | lists, forms, the editor's history in the browser | calls the API | its operations are the API's |
| Audit, settings, dashboard, logging, config | append-only rows, settings | append, read, save | audit row in the transaction of its operation |

**Interaction.** The API's `confirm` writes the `PdfTask` in the transaction that
moves the case to FINALIZING. The worker polls for tasks, sends itself pg-boss
jobs and, in the transaction that completes a task, writes an outbox row; the
publisher sends it to the queue the API's consumer reads. Customers, reviewers
and staff meet in the rows of one case; nothing but PostgreSQL serializes them.

**What is hard.** Requests of two transactions with file reads in between
(preview, sign, submit); READ COMMITTED transactions that read and then write
without a condition (close, PDF retry, link replacement); leases that expire
during a render; crashes between a file write, a commit, a send and a mark;
at-least-once and overlapping deliveries; stale deliveries after a retry;
several rounds of review; links that live on after a submission.

## 2. Modules

| module | models |
|---|---|
| `CaseWorkflow` | one case: links, drafts, files, previews, signings, submission, review, closing, finalization in outline |
| `PdfPipeline` | one case from confirmation to its end: worker, outbox, queues, consumer, staff retry and close |
| `CaseLifecycle` | abstract: what the design's chapter 5 promises of a case, one step per operation of a party |
| `Catalog` | requirements and templates with their versions, the seed, and the cases created from them |
| `Uploads` | files of a case from the page's list to the disk: gates, transactions, compensation, removal, crashes |
| `Wizard` | pages of one link over the drafts of a case: autosave, conflicts, previews, submission |
| `Sessions` | requests of staff: cache of identities, role mappings that change |
| `TemplateDocument` | the page tree of a template and the document made of it |
| `SigningStep` | the wizard's last step over such a document: PDF viewer, handwriting, seal |
| `CaseFiles` | abstract: what the files of a case promise when everybody is served alone |
| `SumTheorems` | facts about sums over finite sets, for the proofs |
| `MC…` | constants and symmetries of the TLC runs |
| `…_proofs` | TLAPS proofs about the module of that name |

`CaseWorkflow` and `PdfPipeline` both implement `CaseLifecycle` (`INSTANCE …
WITH`, property `KeepsLifecycle`), and `Uploads` implements `CaseFiles`
(`ServedInTurn`); `SigningStep` extends `TemplateDocument`. The
others meet in the case: `Uploads` shows that a request's effect on files and
signing is the one step `CaseWorkflow` takes it for, `Wizard` is what a window of
`CaseWorkflow` does in the browser, `Catalog` makes the snapshot a case keeps.

### How transactions become actions

* A transaction run by `serializableTransaction` is one action or none: its
  retries are invisible and its failure is the request's failure.
* A READ COMMITTED transaction that first locks the row it depends on (`FOR
  UPDATE`, or an UPDATE whose WHERE holds the test) is one action.
* A READ COMMITTED transaction that reads and later writes *without* a condition
  is two or more: `CloseRead`/`CloseWrite`, `RetryRead…`/`Retry…`,
  `FindNoLink`/`InsertLink`. `StaffAborts` rolls it back.
* Work outside a transaction (render, file read, file write, pg-boss send) ends
  an action; whoever acts in between acts in between.

### CaseWorkflow

`caseStatus`, `reviewer`, `drafts`, `files`/`removed`, `signings`, `previews`,
`reviews` and `links` are the columns and rows named in the declarations.
`window[w]` is what one request of the customer keeps between its two
transactions, `staff[s]` how far a staff request has come; `submitted` is a
ghost, the content at the last formal submission.

| code | actions |
|---|---|
| `submitDraft`, `replaceLink`, `disableLink`, `close` | `SubmitDraft`, `ReplaceLink` / `FindNoLink` + `InsertLink`, `DisableLink`, `CloseRead` + `CloseWrite` |
| `savePublicDraft`, `uploadPublic`, `removePublic` | `SaveDraft`, `UploadFile`, `RemoveFile` |
| `createPresignPreview` / `renderAndPersistPresign` | `PreparePreview`, `PersistPreview` |
| `prepareOrdinarySigning`, `submitPublic` | `VerifySigning` + `CommitSigning`, `VerifySubmission` + `CommitSubmission` |
| `ReviewService` | `ClaimReview`, `AssignReview`, `ReviewItem`, `ConfirmRejected`, `ConfirmApproved`, `RegenerateRejectionMessage` |
| finalization and retry | `PdfCompletes`, `PdfFails`, `RetryRead` + `RetryWrite` |

Abstractions: the content digest is the content itself (answers of the latest
draft and active materials), that is, the hash is injective. Expired, disabled
and consumed links are one state, as one refusal answers all three. A forced and
an unforced draft save are one action (the base version only refuses saves).
The preview's rate gate, the upload of the signature image and upload limits
are in `Uploads`; here they only refuse what the model lets happen. The sharing
of a running render by several requests (`previewFlights`) and the disabling of
the template version are left out, the latter is listed among the hazards.

### CaseLifecycle and its refinement

The abstract case has a status, what it holds, what is validly signed, what was
submitted and the approved items; each operation of a party is one step. A
signature never survives a change of content; a case is submitted as signed and
approved and completed as submitted. `CaseWorkflow` maps its newest draft and
active files to the content and the approving rows of RequirementReview to
`approved`; a request's two transactions are a stutter and a step. `PdfPipeline`
maps its statuses, and the validity of the signing to whether what is signed is
what was submitted; it starts behind an approval, so it keeps the steps, not
`Init`. Three steps are not in the design: `LateRetry` and `LateClose` are what the
unconditional writes of `close` (`case.service.ts:140`) and `retry`
(`pdf-retry.service.ts:20`) do to a status that has changed since it was read
(the design, line 123, has COMPLETED and CLOSED final); `LateComplete` leaves
PDF_FAILED for COMPLETED, since `finalize` accepts both statuses
(`pdf-finalization.repository.ts:15`) and a delivery may pass after the failure of
another was recorded (the design, line 121, leads out of PDF_FAILED by a retry
only). The refinement does not catch these three; it says that the races do this
much and nothing more.

### PdfPipeline

The `PdfTask` row is `task`; a lease token is a fresh UUID, so the claim's own
generation stands for it. A rendering picks any digest: Chromium's bytes differ
from run to run. `events` is a set: two queued copies of one event are one, as
redelivery already lets it be consumed any number of times up to the retry
limit. `Mortal` names the processes that may die with nothing left to report it;
a worker that dies leaves its lease behind, a consumer loses its delivery's
attempt. `LateUploads` lets a customer with a reopened link invalidate the
signing, which `CaseWorkflow` shows to be possible.

| code | actions |
|---|---|
| `bootstrapPdfWorker`, pg-boss | `Enqueue`, `JobEnds`, `LeaseExpires` |
| `PrismaPdfJobRepository.claim` | `Claim`, `ClaimRefused`, `ClaimDuplicate`, `ClaimExhausted` |
| `PdfJobHandler.handle` | `LoadSnapshot`, `Stage`, `JournalPending`, `WriteContent`, `Complete`, `CompleteDuplicate`, `WorkerSend`, `WorkerMark`, `WorkerPublishFails`, `Cleanup`, `HandlerFails`, `WorkerDies` |
| `PdfFinalizationPublisher.reconcile` | `ReconPick`, `ReconSend`, `ReconMark`, `ReconFails` |
| `PdfFinalizationService`, consumer | `Inspect`, `Reinspect`, `Finalize`, `ConsumeThrows`, `Redeliver`, `RecordDeliveryFailure`, `ConsumerDies` |
| `PdfRetryService.retry`, `close` | `RetryReadCase`, `RetryReadTask`, `RetryRender`, `RetryDelivery`, `CloseRead`, `CloseWrite`, `StaffAborts` |

A `RetryRender` of a task that has succeeded since it was read is refused by the
CHECK `PdfTask_terminal_fields_check` of the migration; the model's
`StaffAborts` is what remains of it.

### Catalog

`requirements[key]` and `templates[key]` are the version rows of a machine key,
in order; a template version carries its page and its sources
(`TemplateVersionRequirement`). `cases` is what cases were created with, and
`requests[a]` what a request has read before the transaction that writes.

| code | actions |
|---|---|
| `createRequirement`, `saveRequirementDraft` | `CreateRequirement`, `ObserveRequirement` + `SaveRequirement` |
| `publishRequirementAtomically`, `transitionRequirement` | `PublishRequirement`, `DisableRequirement` |
| `TemplatesService.create` / `saveDraft` / `copy` | `EditTemplate` or `CopyTemplate`, then `CreateTemplate` or `SaveTemplate` |
| `publishTemplateAtomically`, `transitionTemplate` | `PublishTemplate`, `DisableTemplate` |
| `CaseService.create` | `ResolveCase`, `CreateCase` |
| `withCatalogRetry`, triggers, unique keys | `Fail` |

Publishing locks the version and its sources in a serializable transaction and
is one action, as is disabling, whose second update the trigger
`protect_catalog_version` refuses. Definitions keep what the checks of
`template-publish.validator.ts` compare, the type and whether it is required
(images and the components that show them are left out); a page keeps the keys its variables name
and whether party A signs it. Which version a reference to a case's template
finds when several are published is PostgreSQL's choice, and so any in the
model. Names, descriptions and the limits of a page's layout are left out.

`Seed` is `prisma/seed.ts`, one transaction; its image requirement is modelled as a
file. Two things the module does not judge. `disableRequirement` looks at no key, so
the built-in authorization letter can be disabled, which
`docs/superpowers/plans/authorization-platform-chunks/chunk-1-foundation-core.md:868`
rules out; new templates are then refused until a new version is published.
And a disabled template version also stops previews and submissions of the
cases created with it (`presign-canonical.ts:46`): `CasesAreFixed` says that
they keep their content, not that they can go on.

### Uploads

A request writes its bytes under a key of its own, then commits a row in a
serializable transaction, or takes the bytes away again. `req[u]` is the request
with what its transaction saw, `rows`/`removed` and `objects` the database and
the disk, `gates` the in-memory gate of uploads and that of previews (same shape),
`page`/`deletes` the entries of `UploadStep` and its removals on their way.

| code | actions |
|---|---|
| `beginUpload`, `remove` of the page | `BeginUpload`, `Answer`, `Disconnect`, `RemoveEntry`, `RemovalFails` |
| gate guard and interceptor, `acquirePreviewRender` | `Admit`, `Ends` |
| `writeAtomically`, `uploadPublic`, `uploadSigningResource`, `renderAndPersistPresign` | `Write`, `Begin`, `Reuse`, `Insert`, `RunAgain`, `Refuse`, `DropReused`, `DropFailed` |
| `removePublic`, `prepareOrdinarySigning`, worker's `complete` | `RemovePublic`, `Sign`, `CompleteFinal` |
| the process | `Crash` |

`Insert` may lose the acknowledgement of its commit; the row then stays although
its request fails and takes the object away (`lost`). PostgreSQL's conflicts are
modelled from what the transactions read: of two that overlap and insert, the
later one runs again (`RunAgain`); an error of a raw query (P2010) is not retried
by the code and is one more refusal. The worker's transaction is READ COMMITTED:
an open transaction of the API neither sees its row nor conflicts with it, so
that a case that was reopened by a reissued link may pass its capacity by one
final document at most. `PageAccepts` keeps the page's tests of count and bytes,
names and types are left aside; the check that a seal's original belongs to the
case is one of `Refuse`'s reasons. A reload of the page and its first list of files
are not modelled.

**Its refinement.** `CaseFiles` has the files that were ever accepted with their
bytes, which of them are kept, what each sender was told, the validly signed
materials and the final document. Sending is one step: the file is compared with
everything kept, counted and weighed with it, and accepted (`Accept`, whose
answer may be lost), or an equal one is recognized (`Recognize`). Only who was told of a
file has it removed (`Withdraw`). `Uploads` maps its rows and the bytes of their
requests to the files (`Accepted`), and the requests that ended well to what was told (`Answers`); the gates,
objects, snapshots, retries and crashes do not exist there. A request takes effect
when its row is committed, or when an equal file is reported: that one was kept
when the transaction began and may have been removed since. Serializability is what the code
relies on (`transaction.ts`), and with `RunAgain` disabled TLC refutes the
refinement. The final document is not in the tests of `Accept`, for the reason above.

What the model shows and no property forbids: after a lost acknowledgement, a
retry is answered with the row whose bytes are gone; a removal whose answer is
lost brings the entry back although the file is removed (`asked`); a restart
empties the gates.

### Wizard

The answers of a page are the number of its edits. `saves` and `asks` are calls
on their way, which arrive and are answered in any order or never; `drafts` are
the CaseDraft rows with the base check of `savePublicDraft`.

| code | actions |
|---|---|
| `publicView`, leaving | `OpenPage`, `LeavePage` |
| answers, steps, `navigator.onLine` | `Edit`, `Move`, `Connection` |
| the autosave effect | `TimerFires`, `AutosaveAnswered` |
| `next` into the last step | `NextStep`, `NextAnswered`, `PreviewArrives`, `PreviewFails` |
| the conflict dialog | `KeepLocal`, `ForceAnswered` |
| `submit` | `Submit`, `PrepareSigning`, `SubmitCase` |
| API, network | `SaveDraft`, `RenderPreview`, `SaveLost` |

`publicView` returns the newest version but no answers, so that a page which is
opened again starts empty at that version, and its first unforced save replaces
the stored answers without the dialog, though the page never showed them. That is
not what the design promises (see the divergences), and `DraftsMeanwhileAreKept`
claims no more than there is: what another page stores while a page is open is
never replaced unasked, and what was stored before it opened is replaced by its
first draft at most. A page
may conflict with a save of its own, and “saved” may hide a lost save (`lost` in
`SavedIsStored`). The dialog's button is not disabled while its forced save is under
way: a second press sends another, and when the first answer has closed
the dialog, a later edit may be saved before the second arrives, which brings the
older answers back under the label “saved”. `SavedIsStored` excludes these pages by
the ghost `again` (see the divergences). Signing
while a newer preview is on its way signs that newer content, not the one shown:
`prepareOrdinarySigning` takes the current content's preview, though the design,
line 195, has the customer see what is signed (`submitted.shown` keeps both).

### Sessions

One token, whose identity at the upstream changes version by version, a clock,
and requests that run through `authenticate` (`Start`, `Evaluate`, `Answer`,
`Fails`, `FillCache`), `AbilityService.resolve` (`FindRole`, one role after the other)
and the guard (`Decide`), while staff update mappings (`UpdateMapping`) and the API
restarts. `until` and `held` are ghosts: when an identity was replaced, when a role
last gave a right. The design (lines 83-90) allows a cache of 60 seconds; the
entry's time starts when the upserted identity is stored, hence `TTL + Delay` in
`IdentityIsRecent`.

### TemplateDocument and SigningStep

A template is a tree, modelled to one level of nesting; the publish check, the
slots of `case.service.ts`, the worker's and the finalization's tests of
positions and `buildPdfRenderDocument` are operators over it. `PdfRenderDocument`
gives for each page what it shows signed and what it shows as an empty box.

`SigningStep` has the viewer (`Enter`, `Leave`, `ShowPreview`, `Import`, `Open`,
`LoadFails`, `TurnPage`, `PageFails`) and the editor (`SwitchMode`, `Draw`, `Slide`,
`Resize`, `UploadSeal`, `FileRead`, `OriginalStored…`, `Cutout…`, `Confirm…`,
`Processed…`, `Sign`). A call carries its generation and the placement of the
render that made it (`held`), since `update()` builds on that one; what a call of
a left step still does, it does to the wizard's copy only. Lengths are exact
thousandths of a pixel (the code's doubles are rounded to thousandths; for slots
of whole pixels both agree); the vertical slider works as the horizontal
one and is left out; errors of a FileReader, which the code does not handle,
too. Drawing and cancelling a single page is `PageFails` or nothing. All bounds
are one: seals, switches and loads together, `MaxSteps`.

## 3. Runs

| run | shows | bounds |
|---|---|---|
| `fencing` | `TypeOK`, `OneFinalPdf`, `PendingIsStaged`, `SucceededIsFinal` | two mortal handlers, two digests, one attempt, two clerks, two retries: a stale handler meets a newer claim with other bytes, a clerk who read FAILED a task that has succeeded |
| `delivery` | `EventsAreDurable`, `CompletedIsDelivered`, `FailureIsVisible`, `KeepsLifecycle` | one handler, one mortal consumer, one clerk, late uploads, one retry: deliveries of two generations overlap |
| `progress` | `FinalizingEnds`, `DeliveryInFlight` | two mortal handlers, two attempts (a lease expires and the task is claimed again), one redelivery, uploads at any time, no staff |
| `rounds` | `TypeOK`, `SigningMatchesContent`, `KeepsLifecycle` | two windows, one item, one file, two drafts, two signings, three links: submission, rejection, supplement, second submission |
| `reissue` | `CompletedAsSubmitted`, `ReviewsSettleStatus`, `ApprovalsStand` | two items, one window, one clerk, three links: a round with one item rejected, reissued links, closes and retries at every point |
| `versions` | `TypeOK`, `DraftIsNewest`, `PublishedStaysComplete`, `CasesAskForLetter`, `CasesAreFixed` | two administrators, two requirements, two templates, three version rows in all, two versions of a key, an empty or a seeded catalogue: a source edited under the editor and under publication, a version published and edited again, a case created while its template is disabled |
| `uploads` | `TypeOK`, `RowsHaveObjects`, `AcceptedIsKept`, `FilesAreFew`, `CapacityKept`, `GatesCount`, `ShownIsKept`, `ServedInTurn` | two uploads of a material and a preview, equal or different bytes, one material allowed and one request at a time, room for two of the case's bytes, two windows of a gate, crashes, lost answers and acknowledgements: two transactions race for the last place, a gate of an old window is released |
| `wizard` | `TypeOK`, `DraftsMeanwhileAreKept`, `EditsInOrder`, `SavedIsStored`, `UrlsAreShown` | two windows, one with one edit and one step back or disconnection, three saves, two previews, one lost save: windows open before and after the other's drafts, an old save arrives after a newer one, a preview finds its page gone |
| `sessions` | `TypeOK`, `IdentityIsRecent`, `GrantsAreCurrent` | two requests, two roles, an identity that loses a role and is then refused, one update of a mapping, a clock of three for a cache of one: an answer that is late fills the cache after a refusal emptied it |
| `signing` | `TypeOK`, `ScreenIsCurrent`, `HandwritingIsAccepted` | two seals; four choices, switches and loads together; three pages with slots at the top, in a table, behind a nested break and at an odd width; the slider's end and an odd size |
| `previews` (violated) | the fourth preview is never granted | two draft versions, one file, four contents |
| `seal` (violated) | an old seal comes back as confirmed | two seals, four choices, switches and loads together |

The ten `pass` runs are exhaustive within these bounds (1.2 to 2.6 million distinct states for
the four of the browser and the API's edge). Two actors of a kind
are enough for every race the properties speak of: each is between one request
and one other. The state spaces are closed by `MaxDrafts`, `MaxSignings`,
`MaxLinks`, `MaxAttempts`, `MaxJobs`, `MaxGenerations`, `RetryLimit`, `MaxVersions`,
`MaxRows`, `MaxCases`, `MaxWindows`, `MaxEdits`, `MaxSaves`, `MaxPreviews`,
`MaxLost`, `MaxMoves`, `MaxTime`, `MaxUpdates`, `Delay` and `MaxSteps`; of these
`MaxAttempts` and `RetryLimit` (and the gates' limits in `Uploads`) are the program's own. Symmetry is used in
safety runs only. Deadlock is not checked: a completed or closed case ends, and so do
versions that only go from draft to published to disabled, and pages and
requests whose bounds are used up.

**Fairness.** `PdfPipeline!Fairness` assumes what timers and queues give: the
reconcile loop ticks every five seconds, time passes (`LeaseExpires`), an idle
handler or consumer takes a queued job, a started one goes on, fails or dies.
Sends and marks that are tried again and again do not fail for ever. Nothing
makes staff, customers or crashes act. `CaseWorkflow!FairSpec`, used by
`previews`, is generous to the code: a rendering that can be recorded infinitely
often is recorded. The violation remains.

**Findings** (details in `PROJECT.json`). `previews`: the cache of three previews is
rotated by an UPDATE that a trigger of the migration refuses, so the fourth
preview of a case fails. `seal`: the answer of a seal's upload is applied to the
placement of the render that began it, which may be that of an older, confirmed
seal.

**Divergences from the design** that the models contain as behaviour and that no
run is spent on:

* `close` and `retry` overwrite a status that became final since they read it
  (`case.service.ts:140`, `pdf-retry.service.ts:20`; design, line 123): `LateClose`
  and `LateRetry` of `CaseLifecycle`.
* A delivery that passes after the failure of another was recorded completes the
  case out of PDF_FAILED, without the retry (`pdf-finalization.repository.ts:15`;
  design, line 121): `LateComplete` of `CaseLifecycle`.
* A customer whose link was reissued may upload while the final PDF is made. Unless a
  handler that is past its claim completes it, every later claim throws
  PDF_JOB_SIGNING_INVALID (`pdf-job.repository.ts:27`), nothing is
  recorded as failed, retry is refused (`pdf-retry.service.ts:13`) and the case stays
  in FINALIZING until somebody closes it (design, lines 105 and 266). `FinalizingEnds`
  is checked with these uploads and names this state (`Overtaken`); without that
  disjunct TLC refutes it.
* A consumer that dies on its last delivery reports nothing, and the case stays in
  FINALIZING, where retry is refused (`pdf-finalization.consumer.ts:7`; design,
  lines 105 and 266). `progress` therefore assumes a consumer that lives.
* A page opened again shows no saved answers (`publicView`, `case.service.ts:146`;
  `CaseWizardPage.tsx:36`), and its first autosave replaces the stored ones without
  asking; the older row remains, but nothing shows it to the customer. The design
  has a reopened link go on where it was left (line 179), no silent overwriting
  (line 264) and confirmed fields fully restored (line 282), and the page says the
  first two itself (`CaseWizardPage.tsx:115` and `:106`).
* Find-then-insert of `replaceLink` may leave two working links
  (`case.service.ts:422`; design, lines 78 and 80).
* A link issued after the submission lets the customer upload into a case under
  review (`file.service.ts:40`), and a supplement that omits an approved item's key
  drops its answer (`case.service.ts:474`; design, lines 179 and 284). The signing
  is invalidated, so such a case is not completed over other content.
* Pressing “create a new version” of the conflict dialog twice may end with older
  answers stored than the page shows as saved (`CaseWizardPage.tsx:106`, label
  `:110`); the designs expect saves to be serialized by their version
  (`2026-08-05-authorization-platform-design.md:179`,
  `2026-08-05-chinese-functional-ui-design.md:99`). The proof of
  `SavedIsStored` found it. Without the exception TLC violates the
  property with one page, two edits, one move and five saves, which is more than the
  three saves of `wizard`; the theorem covers every number.
* What is signed is the current content's preview, not the one on the screen
  (`CaseWizardPage.tsx:87`; design, line 195).
* A required slot inside a paragraph or a table is published, validated and shown
  signed in the preview, but `pdf-renderer.ts:62-66` draws overlays over the slots
  of the top only, so the final PDF has an empty box there (design, line 164).
  `HandwritingIsAccepted` asks for the lifted slots.
* An image of the page whose requirement is optional and not uploaded makes every
  preview fail (`presign-preview.service.ts:45`); publishing
  (`template-publish.validator.ts:64`) does not ask it to be required.
* A second run of the seed updates the definition of a PUBLISHED version
  (`seed.ts:77`), which the trigger of `migration.sql:235` refuses;
  `docs/superpowers/plans/authorization-platform-chunks/chunk-1-foundation-core.md:509`
  expects both runs to succeed.

## 4. Proofs

`PdfPipeline_proofs` proves for every set of handlers, consumers and clerks, all
digests and all bounds that `IInv` is inductive (`Invariance`), and from it:
`TypeCorrect`, `OneDocument` (`OneFinalPdf`), `JournalIsUsable`
(`PendingIsStaged`), `EventsCarryDurableFiles`, `CompletionIsSound`
(`CompletedIsDelivered`), `FailuresAreVisible` (`FailureIsVisible`), `OutputIsFinal`
(`SucceededIsFinal`) and, if no consumer is mortal, `DeliveryIsCarried`
(`DeliveryInFlight`).

Hardly one of these is inductive. `OneFinalPdf`, for instance, says nothing of
a handler between its claim and its commit, so `IInv` adds: a busy handler's
claim is not newer than the task's (`Fenced`), so that a stale one cannot
complete; a handler past its rendering has bytes (`StagedBytes`); an output
exists just when the task succeeded, and completing clears the journal
(`OneOutput`); the handler that holds the lease works on the bytes that are
staged, and who removes them comes after the commit (`Journaled`); outbox rows,
events, senders and consumers carry the recorded output, which is stored
(`Carried`); delivery status, task and case agree (`Reported`). The proof has
one lemma per action and one step per conjunct that the action disturbs.
`DeliveryIsCarried` adds `Delivering`: no row or event is newer than the task's
delivery generation, and one of the current generation is on its way.

`CaseWorkflow_proofs` proves, for all sets of items, files, windows, clerks and
reviewers and all bounds, `TypeCorrect`, `SigningIsCurrent`
(`SigningMatchesContent`), `ReviewsDecide` (`ReviewsSettleStatus`),
`CompletionIsAsSubmitted` (`CompletedAsSubmitted`) and `ApprovalsAreKept`
(`ApprovalsStand`). Its `IInv` adds two things to these. A window between the
two transactions of a signing or submission has read a draft that exists, in an
editable status (`Prepared`): with the second transaction's comparison this
keeps signings out of reviews. And a clerk who has read PDF_FAILED and will write
FINALIZING without looking again does so over a case whose items are all
approved and whose valid signing covers what was submitted (`Submitted`): that
is why that race (`LateRetry`) cannot complete a case over other content. Why
completion survives late uploads: an upload invalidates the
signing, the gate of the finalization wants it valid, and nobody can sign
outside the editable statuses. `ContentChanges`, `StatusChanges` and
`WindowChanges` name the steps that can disturb a part; the rest leave its
variables alone.

`Catalog_proofs` proves, for all sets of requirements, templates, definitions
and administrators and all bounds, `TypeCorrect`, `OneDraft` (`DraftIsNewest`),
`PublicationIsSound` (`PublishedStaysComplete`), `EveryCaseHasLetter`
(`CasesAskForLetter`) and `CasesNeverChange` (`CasesAreFixed`). Its `IInv` adds
that a case, and the request that is about to create one, was made of a template
version that is no draft, with its letter (`CasesBacked`, `RequestsSound`). All
rest on two lemmas about any step: a row that is no draft keeps its content
(`RequirementsStep`, `TemplatesStep`), and a template becomes published only as
it was checked, over requirements that the same step leaves alone. So a case
resolved from a version that is disabled before the case is written is as sound
as any other.

**Refinement.** `ImplementsLifecycle` (`CaseWorkflow_proofs`) proves `Spec =>
KeepsLifecycle`: `IInv` gives what the abstract guards ask for, and each action is
shown to be an abstract step or a stutter. `OutlineIsKept` does so for every step
of `PdfPipeline`. What the refinements are worth is proved of the abstract
modules too. `LifecycleIsSound`: whatever keeps the life cycle has `Promised` of
`CaseLifecycle` (what is signed is what the case holds; a completed case
holds, as signed, what was submitted, every item approved). `ServingInTurnIsSound`
(`Uploads_proofs`): whatever serves in turn has `Promised` of `CaseFiles` (no file
kept twice, none over the limits, a valid signing covers the materials, what
a sender was told is true). Neither uses anything of the detailed modules' steps.

`Uploads_proofs`: `TypeCorrect`, `RowsHaveObjectsHolds`, `AcceptedIsKeptHolds`,
`ShownIsKeptHolds`, `SigningCoversFilesHolds` (a valid signing covers the materials
there are), `FilesAreFewHolds`, `CapacityKeptHolds`,
`GatesCountHolds` and the refinement `ServedInTurnHolds`. `IInv` adds where a request's row
and object are while it runs (`Fresh`); `Told` and `Shown` follow what a
transaction saw, and an entry of the page, to a file that is kept; `Seen` says that
an open transaction saw every row there is, since another that inserts makes it
run again, from which no limit is passed (`FilesAreFew`, `CapacityKept`); `Counted` adds to
`GatesCount` that who holds an admission got it in a window there was. The refinement rests on
all but the last: `Seen` makes an insertion's tests those of `Accept`
(`InsertFits`, `InsertAccepts`), `Told` gives the equal file of `Recognize`
(`DropRecognizes`), and `Heard`, that an entry has the file its own request was told
of, the sender that `Withdraw` asks for (`RemovalWithdraws`).

`SumTheorems` is what the capacity needs. `SumFunctionOnSet` of the community
modules takes the elements in an order of its own; that the sum does not depend on
it (`SumWithout`, `SumWith`) and that a part weighs no more than the whole
(`SumOfPart`) is induction over finite sets. The library's rule for it has an
operator for parameter, but its order of subsets has none: strict inclusion is
well founded on the subsets of a finite set, so that of the subsets for which a
statement fails one is the smallest, and there it is shown to hold.

`Wizard_proofs`: `TypeCorrect`, `UrlsAreShownHolds`, `DraftsMeanwhileAreKeptHolds`,
`EditsInOrderHolds` and `SavedIsStoredHolds`. The version
of a page, its timer or a save under way is the one it opened at or a draft of its own
(`VersionsKnown`), its drafts are newer than the one it opened at (`DraftsAreNewer`), and up to that version no draft of the page holds later
answers (`EditsGrow`, `SavesFollow`); the base check of the API does the rest.
For `SavedIsStored` an invariant has to say of every page what will still bring its
last edit to the API (`AllSettled`): while the page is online the edit waits for the
timer or for the customer at the dialog, an autosave is on its way with it
(`Coming`), or it is stored; and the one forced save of a dialog (`Forced`) is of
what the page still shows. Each action leaves this as it is, sets the timer anew
(`OneRetimed`), or hands the edit on (`OneCarried`, `SaveSettled`).

`Sessions_proofs`: `TypeCorrect`, `IdentityIsRecentHolds` (`Timely`: what
was heard of the upstream was not replaced before it was heard, in requests and in
the cache) and `GrantsAreCurrentHolds` (`Lookups`: a mapping that a request has
found gave its rights when the request began, or later).

`SigningStep_proofs` proves, for every template that can be published and any
number of seals, switches and loads, `TypeCorrect`, `ScreenIsCurrentHolds` and
`HandwritingIsAcceptedHolds`. The first part is about the template alone: wherever
the sliders stand, rounding included, a position lies in its slot (`OffsetFits`,
`PlaceFits`), there is one for each slot that must be signed (`PlacesCount`), so
that the three tests agree (`PositionsValid`), and the document has a page for each
slot of the top (`PagesSuffice`) that shows its signature (`SignedOnPage`,
`LiftedIsSigned`). The invariant then adds: a handwriting carries nothing of a seal,
also in what calls will apply (`Coherence`); the only calls whose answers the page
will show are for the seal on the screen, and while a file is read the screen is
empty (`Followed`); only the newest load of the PDF may still go on
(`NewestGoesOn`).

The assumptions are the modules' `ConstantsAssumption`, `NoneAssumption` and
`TemplateAssumption`, which TLC evaluates.

Every invariant and every refinement that a passing run checks is proved. Model-checked
only: liveness (`FinalizingEnds`), which is beyond the prover, and the two violations
(`PreviewIsGranted`, `ConfirmedSealIsShown`).

## 5. Not modelled, and the plan

1. **Done:** all modules above, the refinement, and their proofs.
2. Left: `Catalog` composed with a case under way (what disabling a template does
   to its previews and submission is refused by `presign-canonical.ts:46` for good,
   a statement about one guard); the sharing of running renders by several
   requests of one content.

Not modelled, with the reason:

* Layout, fonts, HTML and the browser that prints it; the cut-out of a seal's
  background: functions of bytes.
* The admin application: lists and forms over the API's operations. Its template
  editor keeps a history in the browser and in localStorage and shares nothing.
* Audit log, settings, dashboard, logging, configuration: rows appended in the
  transaction of their operation, or read once.
* `CaseRepository.transition` and `saveDraft`, `TokenService.disable` and `regenerate`:
  no operation of the running program calls them.
* Exchange of login codes, cookies, range reads and paths of the file store: one
  request each, without state that another depends on.
