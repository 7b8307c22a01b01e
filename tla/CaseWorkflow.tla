---------------------------- MODULE CaseWorkflow ----------------------------
(***************************************************************************)
(* One business case from its creation to the end of its reviews: drafts,   *)
(* uploads, previews and signings of the customer, who works through links  *)
(* that staff issue, replace and disable; the reviewers' decisions; and, in *)
(* outline, the finalization that module PdfPipeline models in full.        *)
(*                                                                         *)
(* A customer's preview, signing and submission each read the database,     *)
(* then render or read files, then check again what they read and write.    *)
(* Other windows, reviewers and staff act in between.  Transactions that    *)
(* are serializable, or lock the case before they read, are one action;     *)
(* a staff request that reads and later writes without a condition is two.  *)
(***************************************************************************)
EXTENDS Naturals, Sequences, FiniteSets

CONSTANTS
  Items,        \* the requirement versions in the case's snapshot
  Values,       \* answers a customer may give for an item
  NoAnswer,     \* the item's key is missing from the saved answers
  Files,        \* material files customers may upload, each a new FileVersion
  ItemOf,       \* the item a file is uploaded for
  Windows,      \* open pages of the customer, on this or that link
  Staff,        \* requests by staff that read first and write later
  Reviewers,
  NoReviewer,   \* reviewerUserId is NULL
  MaxDrafts,    \* bound: saved draft versions
  MaxSignings,  \* bound: signing records
  MaxLinks      \* bound: links issued

ASSUME ConstantsAssumption ==
  /\ NoAnswer \notin Values
  /\ ItemOf \in [Files -> Items]
  /\ NoReviewer \notin Reviewers
  /\ MaxDrafts \in Nat /\ MaxSignings \in Nat /\ MaxLinks \in Nat

VARIABLES
  caseStatus,  \* BusinessCase.status
  reviewer,    \* BusinessCase.reviewerUserId
  drafts,      \* CaseDraft rows: the answers of every version, in order
  files,       \* MATERIAL files whose record is not removed
  removed,     \* those whose record is
  signings,    \* SigningRecord rows in order of version
  previews,    \* contents that have an active PRESIGN_PDF row
  reviews,     \* RequirementReview.decision of every item
  links,       \* PublicCaseLink rows in order of creation
  submitted,   \* the content at the last formal submission (ghost)
  window,      \* what a customer's request read in its first transaction
  staff        \* how far a staff request has come

vars == <<caseStatus, reviewer, drafts, files, removed, signings, previews,
          reviews, links, submitted, window, staff>>

contentVars == <<drafts, files, removed>>
requestVars == <<window, staff>>

-----------------------------------------------------------------------------
(* Types *)

CaseStatuses ==
  {"DRAFT", "AWAITING_CUSTOMER", "CUSTOMER_EDITING", "PENDING_REVIEW",
   "NEEDS_SUPPLEMENT", "PENDING_REREVIEW", "FINALIZING", "PDF_FAILED",
   "COMPLETED", "CLOSED"}
Terminal == {"COMPLETED", "CLOSED"}
Editable == {"AWAITING_CUSTOMER", "CUSTOMER_EDITING", "NEEDS_SUPPLEMENT"}
InReview == {"PENDING_REVIEW", "PENDING_REREVIEW"}
Finalization == {"FINALIZING", "PDF_FAILED", "COMPLETED"}

Answers == [Items -> Values \cup {NoAnswer}]
NoAnswers == [i \in Items |-> NoAnswer]

\* What the content digest covers: the answers and the active material files,
\* but not the number of the draft.  Different contents, different digests.
ContentSet == [answers : Answers, files : SUBSET Files]

Signing == [draft : 1 .. MaxDrafts, content : ContentSet, valid : BOOLEAN]
\* Expired, disabled and consumed links are refused with the same answer and
\* stay refused: "ended" stands for the three.
LinkState == {"live", "ended"}

Window ==
  [pc : {"idle", "previewing", "signing", "submitting"},
   link : 0 .. MaxLinks, status : CaseStatuses, draft : 0 .. MaxDrafts,
   content : ContentSet, signing : 0 .. MaxSignings]
NoContent == [answers |-> NoAnswers, files |-> {}]
IdleWindow ==
  [pc |-> "idle", link |-> 0, status |-> "DRAFT", draft |-> 0,
   content |-> NoContent, signing |-> 0]

StaffState == {"idle", "insertLink", "close", "retry"}

TypeOK ==
  /\ caseStatus \in CaseStatuses
  /\ reviewer \in Reviewers \cup {NoReviewer}
  /\ drafts \in Seq(Answers) /\ Len(drafts) <= MaxDrafts
  /\ files \subseteq Files
  /\ removed \subseteq Files \ files
  /\ signings \in Seq(Signing) /\ Len(signings) <= MaxSignings
  /\ previews \subseteq ContentSet
  /\ reviews \in [Items -> {"NONE", "APPROVE", "REJECT"}]
  /\ links \in Seq(LinkState) /\ Len(links) <= MaxLinks
  /\ submitted \in ContentSet
  /\ window \in [Windows -> Window]
  /\ staff \in [Staff -> StaffState]

\* The case CaseRepository.create leaves behind.
Init ==
  /\ caseStatus = "DRAFT"
  /\ reviewer = NoReviewer
  /\ drafts = <<>>
  /\ files = {} /\ removed = {}
  /\ signings = <<>>
  /\ previews = {}
  /\ reviews = [i \in Items |-> "NONE"]
  /\ links = <<>>
  /\ submitted = NoContent
  /\ window = [w \in Windows |-> IdleWindow]
  /\ staff = [s \in Staff |-> "idle"]

-----------------------------------------------------------------------------
(* Helpers *)

\* Faulty variant of Drafted: a preview and a signing of a case without draft.
DraftedAlways == TRUE

\* Some draft was saved: without one there is no digest to compute.
Drafted == drafts # <<>>

\* prepareCanonicalPresignInput over the latest draft.
Content ==
  [answers |-> IF drafts = <<>> THEN NoAnswers ELSE drafts[Len(drafts)],
   files |-> files]

\* TokenService.resolve and resolveForMutation: one answer for every reason.
Resolves(l) ==
  /\ l \in DOMAIN links
  /\ links[l] = "live"
  /\ caseStatus \notin Terminal

LiveLinks == {l \in DOMAIN links : links[l] = "live"}

\* updateMany({valid: true} -> valid: false)
Invalidated ==
  [k \in DOMAIN signings |-> [signings[k] EXCEPT !.valid = FALSE]]

\* updateMany({disabledAt: null} -> disabledAt: now)
AllDisabled ==
  [l \in DOMAIN links |-> "ended"]

\* findFirst({valid: true}, orderBy: version desc) exists and has this content
SignedContent(k) ==
  /\ k \in DOMAIN signings
  /\ signings[k].valid
  /\ signings[k].content = Content

-----------------------------------------------------------------------------
(* Faulty variants of definitions below: each is a mistake the code could     *)
(* have had, and one of the properties notices it.  Nothing here uses them.   *)

\* Signing without checking that the content is still the one that was shown.
CommitSigningUnchecked(w) ==
  /\ window[w].pc = "signing"
  /\ Resolves(window[w].link)
  /\ caseStatus = window[w].status
  /\ Len(signings) < MaxSignings
  /\ signings' = Append(Invalidated, [draft |-> window[w].draft,
                                      content |-> window[w].content,
                                      valid |-> TRUE])
  /\ window' = [window EXCEPT ![w] = IdleWindow]
  /\ UNCHANGED <<caseStatus, reviewer, contentVars, previews, reviews, links,
                 submitted, staff>>

\* A save that forgets the signing of what it replaces.
SaveDraftKeepsSigning(l, answers) ==
  /\ Resolves(l)
  /\ caseStatus \in Editable
  /\ Len(drafts) < MaxDrafts
  /\ drafts' = Append(drafts, answers)
  /\ caseStatus' = IF caseStatus = "AWAITING_CUSTOMER"
                   THEN "CUSTOMER_EDITING" ELSE caseStatus
  /\ UNCHANGED <<reviewer, files, removed, signings, previews, reviews, links,
                 submitted, requestVars>>

\* A re-review in which an approved item can be decided again.
ReviewItemReopens(r, i, decision) ==
  /\ caseStatus \in InReview /\ reviewer = r
  /\ reviews' = [reviews EXCEPT ![i] = decision]
  /\ UNCHANGED <<caseStatus, reviewer, contentVars, signings, previews,
                 links, submitted, requestVars>>

\* A confirmation that waits for no missing decision.
ConfirmApprovedEarly(r) ==
  /\ caseStatus \in InReview /\ reviewer = r
  /\ \A i \in Items : reviews[i] # "REJECT"
  /\ \E k \in DOMAIN signings : signings[k].valid
  /\ caseStatus' = "FINALIZING"
  /\ UNCHANGED <<reviewer, contentVars, signings, previews, reviews, links,
                 submitted, requestVars>>

\* A finalization that trusts the reviews and forgets the signing.
PdfCompletesUngated ==
  /\ caseStatus \in {"FINALIZING", "PDF_FAILED"}
  /\ \A i \in Items : reviews[i] = "APPROVE"
  /\ caseStatus' = "COMPLETED"
  /\ UNCHANGED <<reviewer, contentVars, signings, previews, reviews, links,
                 submitted, requestVars>>

-----------------------------------------------------------------------------
(* Staff: the case and its links *)

SubmitDraft ==
  /\ caseStatus = "DRAFT"
  /\ Len(links) < MaxLinks
  /\ caseStatus' = "AWAITING_CUSTOMER"
  /\ links' = Append(AllDisabled, "live")
  /\ UNCHANGED <<reviewer, contentVars, signings, previews, reviews,
                 submitted, requestVars>>

\* replaceLink() with an active link: disabled by a compare-and-set that
\* another replacement waits for, so one step.  The status is not looked at.
ReplaceLink ==
  /\ Len(links) < MaxLinks
  /\ \E l \in LiveLinks :
       links' = Append([links EXCEPT ![l] = "ended"], "live")
  /\ UNCHANGED <<caseStatus, reviewer, contentVars, signings, previews,
                 reviews, submitted, requestVars>>

\* replaceLink(), or generateRejectionMessage() for a case that is to be
\* supplemented, finds no active link ...
FindNoLink(s) ==
  /\ staff[s] = "idle"
  /\ LiveLinks = {}
  /\ staff' = [staff EXCEPT ![s] = "insertLink"]
  /\ UNCHANGED <<caseStatus, reviewer, contentVars, signings, previews,
                 reviews, links, submitted, window>>

\* ... and inserts one, whatever happened since.
InsertLink(s) ==
  /\ staff[s] = "insertLink"
  /\ Len(links) < MaxLinks
  /\ links' = Append(links, "live")
  /\ staff' = [staff EXCEPT ![s] = "idle"]
  /\ UNCHANGED <<caseStatus, reviewer, contentVars, signings, previews,
                 reviews, submitted, window>>

\* disableLink(): one of the active links.
DisableLink ==
  /\ \E l \in LiveLinks : links' = [links EXCEPT ![l] = "ended"]
  /\ UNCHANGED <<caseStatus, reviewer, contentVars, signings, previews,
                 reviews, submitted, requestVars>>

\* expiresAt passes.
LinkExpires ==
  /\ \E l \in LiveLinks : links' = [links EXCEPT ![l] = "ended"]
  /\ UNCHANGED <<caseStatus, reviewer, contentVars, signings, previews,
                 reviews, submitted, requestVars>>

\* close(): the status is read and tested ...
CloseRead(s) ==
  /\ staff[s] = "idle"
  /\ caseStatus \notin Terminal
  /\ staff' = [staff EXCEPT ![s] = "close"]
  /\ UNCHANGED <<caseStatus, reviewer, contentVars, signings, previews,
                 reviews, links, submitted, window>>

\* ... the links go and CLOSED is written by id.
CloseWrite(s) ==
  /\ staff[s] = "close"
  /\ caseStatus' = "CLOSED"
  /\ links' = AllDisabled
  /\ staff' = [staff EXCEPT ![s] = "idle"]
  /\ UNCHANGED <<reviewer, contentVars, signings, previews, reviews,
                 submitted, window>>

\* A transaction of staff is rolled back.
StaffAborts(s) ==
  /\ staff[s] # "idle"
  /\ staff' = [staff EXCEPT ![s] = "idle"]
  /\ UNCHANGED <<caseStatus, reviewer, contentVars, signings, previews,
                 reviews, links, submitted, window>>

-----------------------------------------------------------------------------
(* The customer: drafts and files *)

\* assertSupplementOnlyTx: the keys that are sent and not rejected must be as
\* they were.  A key that is not sent is not looked at.
SupplementOnly(answers) ==
  \A i \in Items :
    answers[i] # NoAnswer /\ reviews[i] # "REJECT"
      => answers[i] = Content.answers[i]

SaveDraft(l, answers) ==
  /\ Resolves(l)
  /\ caseStatus \in Editable
  /\ caseStatus = "NEEDS_SUPPLEMENT" => SupplementOnly(answers)
  /\ Len(drafts) < MaxDrafts
  /\ drafts' = Append(drafts, answers)
  /\ caseStatus' = IF caseStatus = "AWAITING_CUSTOMER"
                   THEN "CUSTOMER_EDITING" ELSE caseStatus
  /\ signings' = IF answers = Content.answers THEN signings ELSE Invalidated
  /\ UNCHANGED <<reviewer, files, removed, previews, reviews, links,
                 submitted, requestVars>>

\* uploadPublic(): the link is tested, the status and the reviews are not.
UploadFile(l, f) ==
  /\ Resolves(l)
  /\ f \notin files \cup removed
  /\ files' = files \cup {f}
  /\ signings' = Invalidated
  /\ UNCHANGED <<caseStatus, reviewer, drafts, removed, previews, reviews,
                 links, submitted, requestVars>>

RemoveFile(l, f) ==
  /\ Resolves(l)
  /\ f \in files
  /\ files' = files \ {f}
  /\ removed' = removed \cup {f}
  /\ signings' = Invalidated
  /\ UNCHANGED <<caseStatus, reviewer, drafts, previews, reviews, links,
                 submitted, requestVars>>

-----------------------------------------------------------------------------
(* The customer: preview, signing, submission, each in two transactions *)

\* What the first transaction read, kept for the second.  A preview keeps the
\* content only.
Rendering(l) ==
  [IdleWindow EXCEPT !.pc = "previewing", !.link = l, !.content = Content]
Reading(pc, l, signing) ==
  [pc |-> pc, link |-> l, status |-> caseStatus, draft |-> Len(drafts),
   content |-> Content, signing |-> signing]

Enter(w, reading) ==
  /\ window[w].pc = "idle"
  /\ window' = [window EXCEPT ![w] = reading]
  /\ UNCHANGED <<caseStatus, reviewer, contentVars, signings, previews,
                 reviews, links, submitted, staff>>

Leave(w) == window' = [window EXCEPT ![w] = IdleWindow]

\* The checks both second transactions repeat.
StillAsRead(w) ==
  /\ Resolves(window[w].link)
  /\ caseStatus = window[w].status
  /\ Len(drafts) = window[w].draft
  /\ Content = window[w].content

\* createPresignPreview(): nothing cached for the content, so it is rendered
PreparePreview(w, l) ==
  /\ Resolves(l)
  /\ Drafted
  /\ Content \notin previews
  /\ Enter(w, Rendering(l))

\* ... and recorded, if the content is still the same.  With three active
\* previews the code retires the oldest, an UPDATE of FileVersion that the
\* trigger FileVersion_immutable refuses: the transaction rolls back.
PersistPreview(w) ==
  /\ window[w].pc = "previewing"
  /\ Resolves(window[w].link)
  /\ Content = window[w].content
  /\ Content \in previews \/ Cardinality(previews) <= 2
  /\ previews' = previews \cup {Content}
  /\ Leave(w)
  /\ UNCHANGED <<caseStatus, reviewer, contentVars, signings, reviews, links,
                 submitted, staff>>

\* prepareOrdinarySigning()
VerifySigning(w, l) ==
  /\ Resolves(l)
  /\ caseStatus \in Editable
  /\ Drafted
  /\ Content \in previews
  /\ Enter(w, Reading("signing", l, 0))

CommitSigning(w) ==
  /\ window[w].pc = "signing"
  /\ StillAsRead(w)
  /\ Len(signings) < MaxSignings
  /\ signings' = Append(Invalidated, [draft |-> Len(drafts),
                                      content |-> Content, valid |-> TRUE])
  /\ Leave(w)
  /\ UNCHANGED <<caseStatus, reviewer, contentVars, previews, reviews, links,
                 submitted, staff>>

\* submitPublic(): the newest valid signing must cover the latest content
VerifySubmission(w, l) ==
  /\ Resolves(l)
  /\ caseStatus \in Editable
  /\ Drafted
  /\ \E k \in DOMAIN signings :
       SignedContent(k) /\ Enter(w, Reading("submitting", l, k))

CommitSubmission(w) ==
  /\ window[w].pc = "submitting"
  /\ StillAsRead(w)
  /\ SignedContent(window[w].signing)
  /\ caseStatus' = IF caseStatus = "NEEDS_SUPPLEMENT"
                   THEN "PENDING_REREVIEW" ELSE "PENDING_REVIEW"
  /\ links' = [links EXCEPT ![window[w].link] = "ended"]
  /\ submitted' = Content
  /\ Leave(w)
  /\ UNCHANGED <<reviewer, contentVars, signings, previews, reviews, staff>>

\* Any of these requests is refused, conflicts or dies with its process.
RequestFails(w) ==
  /\ window[w].pc # "idle"
  /\ Leave(w)
  /\ UNCHANGED <<caseStatus, reviewer, contentVars, signings, previews,
                 reviews, links, submitted, staff>>

-----------------------------------------------------------------------------
(* Reviewers *)

ClaimReview(r) ==
  /\ caseStatus \in InReview
  /\ reviewer = NoReviewer
  /\ reviewer' = r
  /\ UNCHANGED <<caseStatus, contentVars, signings, previews, reviews, links,
                 submitted, requestVars>>

\* assign(): a compare-and-set on status and reviewer.
AssignReview(r) ==
  /\ caseStatus \notin Terminal
  /\ reviewer' = r
  /\ UNCHANGED <<caseStatus, contentVars, signings, previews, reviews, links,
                 submitted, requestVars>>

\* The UPDATE that reviewItem and confirm begin with: it locks the case.
Reviewing(r) == caseStatus \in InReview /\ reviewer = r

ReviewItem(r, i, decision) ==
  /\ Reviewing(r)
  /\ ~(caseStatus = "PENDING_REREVIEW" /\ reviews[i] = "APPROVE")
  /\ reviews' = [reviews EXCEPT ![i] = decision]
  /\ UNCHANGED <<caseStatus, reviewer, contentVars, signings, previews,
                 links, submitted, requestVars>>

AllReviewed == \A i \in Items : reviews[i] # "NONE"
AllApproved == \A i \in Items : reviews[i] = "APPROVE"

\* confirm() with a rejected item: a new link, and only that one.
ConfirmRejected(r) ==
  /\ Reviewing(r)
  /\ AllReviewed /\ ~AllApproved
  /\ Len(links) < MaxLinks
  /\ caseStatus' = "NEEDS_SUPPLEMENT"
  /\ links' = Append(AllDisabled, "live")
  /\ UNCHANGED <<reviewer, contentVars, signings, previews, reviews,
                 submitted, requestVars>>

\* confirm() with everything approved: needs a valid signing.
ConfirmApproved(r) ==
  /\ Reviewing(r)
  /\ Items # {} /\ AllApproved
  /\ \E k \in DOMAIN signings : signings[k].valid
  /\ caseStatus' = "FINALIZING"
  /\ UNCHANGED <<reviewer, contentVars, signings, previews, reviews, links,
                 submitted, requestVars>>

\* regenerateRejectionMessage() with an active link.
RegenerateRejectionMessage ==
  /\ caseStatus = "NEEDS_SUPPLEMENT"
  /\ \E i \in Items : reviews[i] = "REJECT"
  /\ ReplaceLink

-----------------------------------------------------------------------------
(* Finalization in outline: see PdfPipeline *)

\* finalize(): the gate looks at the reviews and at the task's signing, the
\* last one there is, since none is made after a confirmation.
PdfCompletes ==
  /\ caseStatus \in {"FINALIZING", "PDF_FAILED"}
  /\ AllApproved
  /\ signings # <<>> /\ signings[Len(signings)].valid
  /\ caseStatus' = "COMPLETED"
  /\ UNCHANGED <<reviewer, contentVars, signings, previews, reviews, links,
                 submitted, requestVars>>

PdfFails ==
  /\ caseStatus = "FINALIZING"
  /\ caseStatus' = "PDF_FAILED"
  /\ UNCHANGED <<reviewer, contentVars, signings, previews, reviews, links,
                 submitted, requestVars>>

\* PdfRetryService.retry: the status is read ...
RetryRead(s) ==
  /\ staff[s] = "idle"
  /\ caseStatus = "PDF_FAILED"
  /\ staff' = [staff EXCEPT ![s] = "retry"]
  /\ UNCHANGED <<caseStatus, reviewer, contentVars, signings, previews,
                 reviews, links, submitted, window>>

\* ... and FINALIZING is written by id.
RetryWrite(s) ==
  /\ staff[s] = "retry"
  /\ caseStatus' = "FINALIZING"
  /\ staff' = [staff EXCEPT ![s] = "idle"]
  /\ UNCHANGED <<reviewer, contentVars, signings, previews, reviews, links,
                 submitted, window>>

-----------------------------------------------------------------------------
CustomerStep ==
  \E l \in DOMAIN links :
    \/ \E answers \in Answers : SaveDraft(l, answers)
    \/ \E f \in Files : UploadFile(l, f) \/ RemoveFile(l, f)
    \/ \E w \in Windows :
         \/ PreparePreview(w, l)
         \/ VerifySigning(w, l)
         \/ VerifySubmission(w, l)

WindowStep(w) ==
  \/ PersistPreview(w) \/ CommitSigning(w) \/ CommitSubmission(w)
  \/ RequestFails(w)

StaffStep(s) ==
  \/ FindNoLink(s) \/ InsertLink(s) \/ CloseRead(s) \/ CloseWrite(s)
  \/ RetryRead(s) \/ RetryWrite(s) \/ StaffAborts(s)

ReviewerStep(r) ==
  \/ ClaimReview(r) \/ AssignReview(r) \/ ConfirmRejected(r)
  \/ ConfirmApproved(r)
  \/ \E i \in Items, d \in {"APPROVE", "REJECT"} : ReviewItem(r, i, d)

Next ==
  \/ SubmitDraft \/ ReplaceLink \/ DisableLink \/ LinkExpires
  \/ RegenerateRejectionMessage
  \/ CustomerStep
  \/ \E w \in Windows : WindowStep(w)
  \/ \E s \in Staff : StaffStep(s)
  \/ \E r \in Reviewers : ReviewerStep(r)
  \/ PdfCompletes \/ PdfFails

Spec == Init /\ [][Next]_vars

-----------------------------------------------------------------------------
(* Safety *)

\* A signing that is valid is the newest one, and it signs what the case now
\* holds: no save, upload, removal or second signing in another window leaves
\* a valid signing over other content, and the draft it names (which the
\* worker loads) has the answers it signed.
SigningMatchesContent ==
  \A k \in DOMAIN signings :
    signings[k].valid =>
      /\ k = Len(signings)
      /\ signings[k].content = Content
      /\ signings[k].draft <= Len(drafts)
      /\ drafts[signings[k].draft] = signings[k].content.answers

\* From the submission on, a signing that is still valid signs exactly what
\* was submitted; so a COMPLETED case holds what the customer submitted and
\* the reviewers saw, whatever links were reissued meanwhile.
CompletedAsSubmitted ==
  /\ caseStatus \in InReview \cup Finalization =>
       \A k \in DOMAIN signings :
         signings[k].valid => signings[k].content = submitted
  /\ caseStatus = "COMPLETED" => Content = submitted

\* The decisions and the status agree: finalization has every item approved,
\* a case to be supplemented has a rejected item to say why - across rounds,
\* racing retries and closes.
ReviewsSettleStatus ==
  /\ caseStatus \in Finalization => AllApproved
  /\ caseStatus = "NEEDS_SUPPLEMENT" => \E i \in Items : reviews[i] = "REJECT"

\* An approval stands: once a round was confirmed nothing turns an approved
\* item back, and no decision changes outside a review.
ApprovalsStand ==
  [][\A i \in Items :
       reviews'[i] # reviews[i] =>
         /\ caseStatus \in InReview
         /\ reviews[i] = "APPROVE" => caseStatus = "PENDING_REVIEW"]_vars

-----------------------------------------------------------------------------
(* Refinement: the case as its parties see it *)

\* What the newest signing signs, as long as it is valid.
NoSignature == [none |-> TRUE]
Signature ==
  IF signings # <<>> /\ signings[Len(signings)].valid
  THEN signings[Len(signings)].content ELSE NoSignature

Lifecycle ==
  INSTANCE CaseLifecycle
    WITH Contents <- ContentSet, status <- caseStatus, content <- Content,
         signature <- Signature,
         approved <- {i \in Items : reviews[i] = "APPROVE"}

\* Previews, signings and submissions of several windows, each of two
\* transactions, links that come and go between them, staff who read and
\* write later, and a finalization that runs on its own: to customer, staff
\* and reviewers it is a case in which each operation is one step, of those that
\* CaseLifecycle names: the design's and three of the code's own.
KeepsLifecycle == Lifecycle!Spec

-----------------------------------------------------------------------------
(* What the design document says and the code does not keep *)

\* case.service.spec.ts: a fourth preview takes the place of the oldest, so a
\* customer who keeps asking for the preview of some content gets it.
PreviewIsGranted ==
  \A content \in ContentSet :
    []<>(\E w \in Windows :
           /\ window[w].pc = "previewing"
           /\ window[w].content = content
           /\ Content = content
           /\ Resolves(window[w].link))
      => <>(content \in previews)

\* A rendering that can be recorded does not for ever fail instead.  Nothing
\* is assumed of customers and staff.
FairSpec == Spec /\ \A w \in Windows : SF_vars(PersistPreview(w))
=============================================================================
